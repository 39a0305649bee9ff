# Verification of the Profound service broker

The broker (`src/`, TypeScript on Node, Express and TypeORM) lets IBM Cloud provision and
deprovision licensed products, and reports their usage to the metering service. This directory
holds TLA+ models of it, TLC configurations that check them on small instances, and proofs that
TLAPS checks for instances of any size.

Paths below are relative to `src/src/` unless they begin with `src/`.

## Inventory

| Component | Source | State | Operations |
|---|---|---|---|
| Service instance lifecycle | `controllers/broker.controller.ts`, `services/impl/broker-impl.service.ts`, `middlewares/error-middleware.ts` | table `service_instance`; the map `lastOperationStatus`, in memory | PUT, DELETE, GET last_operation (PATCH and the state calls answer constants) |
| License provisioning | `services/impl/license-impl.service.ts` | none of its own; customers, licenses and codes on the license server | order and delete the licenses of an instance |
| Usage submission | `services/impl/billing-impl.service.ts` 43-107, 215-286, `admin-impl.service.ts` 36-47 | none of its own; records at the metering service | report one instance, on DELETE or on POST /admin/submit-billing |
| Monthly billing job | `services/impl/billing-impl.service.ts` 27-213, `admin-impl.service.ts` 33-35 | table `billing_failure` | the cron job; POST /admin/retry-billing |
| Catalog cache | `services/impl/catalog-impl.service.ts` | `catalog`, `lastUpdate`, in memory | getCatalog, by GET /v2/catalog, by PUT and by the constructor |
| IAM tokens | `services/impl/iam-impl.service.ts` | none | fetch a token, one per use |
| Platform authentication | `middlewares/authorization.ts`, `routes/api-routes.ts` | the public keys of IAM, in memory | fetch the keys at the start and every 20 minutes; authorise a request by its token |
| Start-up and shutdown | `app.ts`, `routes/routes.ts`, `db/data-source.ts` | the server and the job | start, exit on an uncaught error, start again (`restart: always`) |
| Administrator authentication | `middlewares/admin-authorization.ts`, `utils/apiKeyUtil.ts`, `src/scripts/gen_api_key.ts` | table `api_key` | generate a key; look up and compare one |
| Dashboard, support information | `dashboard-impl.service.ts`, `support-info-impl.service.ts` | none | read rows |
| Migrations | `db/migrations/` | the schema | run at POST /admin/migrate or by hand |

How they interact. One Node process runs one continuation at a time; between two awaits nothing
else happens, at an await anything may. The PUT handler calls the catalog, then the license server
(customer, then for each product a license and an authorization code), then stores the row that
records the license ids. The DELETE handler sets the status to "in progress", answers 202 and then
looks the row up, reports its usage, deletes the licenses, deletes the rows and removes the status;
any failure sets the status to "failed". The monthly job reports the month before of the rows there
are, and so shares the months of an instance with the DELETE; it shares the table of failures with
the administrator's retry. Before any handler stands an authorization: by API key, or in production
and on the platform's routes by a token of IAM. An uncaught error anywhere ends the process and all of its requests; the status
map and the catalog cache are lost, the tables and the remote services are not.

What is hard about it:

* requests for one instance overlap at every await, and nothing locks an instance;
* a call may fail after the remote side has done its part, at every step of handlers that have no
  transaction and no compensation;
* a restart loses the status of operations whose effects stay;
* the usage API accepts batches of which it refuses records, and recognises repetitions by a start
  time that is computed from the clock;
* the job rewrites its table row by row, while retries page through it;
* refreshes of the IAM keys overlap, and a failed one ends the process.

The list `hazards` in PROJECT.json has each of them at its line, with the properties that would
catch it going wrong, and the correctness properties per component are the tables below.

## Modules

Order of the plan, with what is done:

1. `Broker`: lifecycle, licenses and the usage reports of single instances, composed, since it is
   their order that matters. **Done**, with `BrokerProofs` (types, the status map, charges),
   `RecordProofs` (what each request knows of rows and licenses) and `CustodyProofs`.
2. `Custody`: the abstract specification of what the broker promises about licenses. **Done**:
   that `Broker` implements it (`KeepsCustody`) is checked and, in `CustodyProofs`, proved.
3. `Billing`: the monthly job and the retries. **Done**, with `BillingProofs`. `Ledger`: the abstract
   specification of what billing promises about each bill, which `Billing` implements
   (`KeepsLedger`). **Done**, with `LedgerProofs`.
4. `MeteringWindow`: which months of an instance are reported, and from which start. **Done**, with
   `MeteringWindowProofs`.
5. `Catalog`: the cache. **Done**, with `CatalogProofs`.
6. `Server`: start-up, exit and restart, the key store and its refresh, API keys, and the
   authorization of a request. **Done**, with `ServerProofs`.

### Broker

One behaviour has a fixed set `Requests`, each an operation (`op`) on an instance id (`inst`), sent
at most once. `pc[r]` is the await at which the handler of `r` is suspended; an action is the code
from one await to the next, with the answer to the first. A remote call has three outcomes where
it changes something: done, not done and failed, or done and failed (the answer was lost).

| Model | Code |
|---|---|
| `lastOp` | `BrokerServiceImpl.lastOperationStatus` |
| `row[r]` | the `service_instance` row that PUT `r` inserts; `instance_id` is not unique, so an instance may have several |
| `license[<<r, p>>]` | the license for product `p` that PUT `r` orders; the row records its id |
| `charges` | the records the usage API has accepted: row, start time, quantity |
| `found`, `start`, `todo` | locals of the handlers |
| `doomed` | history: the rows there were when this process accepted a DELETE |
| `ReceiveProvision` ... `SaveInstance` | PUT, `provision`, `provisionFloatingLicenses` |
| `ReceiveDeprovision` ... `ClearStatus` | DELETE, `deprovision`, `deprovisionFloatingLicenses` |
| `ReceiveSubmitBilling`, `PickInstance`, `FetchToken`, `SendUsage` | POST /admin/submit-billing |
| `Fail` | the catch blocks and `errorHandler` |
| `Crash` | the handlers of uncaught errors in `app.ts`; the process is restarted |

`start` is not a time here. What matters to the broker is only whether two reports of a row collide
as duplicates: either they both start at the creation time (`start = row`), or each at a time of its
own (`start = request`). `MeteringWindow` is where the times themselves are.

Four constants say what the environment does: `RepeatPut` (the platform repeats the PUT of an
instance), `Overlap` (it does not wait for the end of an operation before the next on the same
instance), `Crashes` and `MeteringRejects` (the usage API refuses a record inside a 202). A property
is checked under the weakest environment it holds in, and the runs named as violations show what
breaks it.

| Property | What it says | Holds when |
|---|---|---|
| `InProgressIsRunning` | a reported "in progress" belongs to a DELETE that is running | always |
| `AnswerOnce` | an answer is never changed by a later error | always |
| `ChargedBeforeRelease` | a released license has a charge | the API refuses no record inside a 202 |
| `NoLeakedLicense` | when a row is gone, the licenses it recorded are released | one PUT per instance |
| `ProvisionedUntilDeprovisioned` | after a 200 the row and the licenses are there until a DELETE of that instance is accepted | always |
| `SuccessMeansGone` | last_operation does not say succeeded while a row is there that a DELETE accepted by this process was to remove | one PUT per instance |
| `KeepsCustody` | the broker implements `Custody` | one PUT per instance, no refusal inside a 202 |
| `DeprovisionSettles` | "in progress" does not stay for ever | remote calls end |

`Custody` is the specification a reader of the code would want to hold: per instance recorded, a
license for each product goes from none to live to freed, the record from none to stored to deleted,
and the five actions `Order`, `Record`, `Charge`, `Release` and `Forget` say what each of these waits
for. The mapping takes the PUT that creates a row as the instance, `row` as the record and the rows
with a charge of quantity 1 as charged; requests, locals, statuses and failures disappear, so that a
step is one of the five or nothing. A release that is repeated, or whose answer is lost, must map to
nothing. It says more than the invariants: no license comes back to life, no record is stored twice,
and none of the five happens out of turn whatever overlaps.

### Billing

`table` is `billing_failure` by ascending id. `FindInstances`, `ClearTable` and `InsertFailure` are
`fillFailureDB`, once for all instances of the month and then for what an attempt left over;
`FetchToken`, `ReadPage` and `SendPage` are `attemptBilling`, run by the job and by each retry;
`Pause` is `retryThreeTimes`; `ClearAll`, `Notify` the two ends. A failed database or token call
goes to the catch block (`FailJob`), a failed usage call makes its page a failure. `Duplicates` is
`getFailuresFromResponse`: of the records of a 202, those refused with 409.

`Receiver` is what `this` is in `billingJob`. The constructor passes the method unbound, so in the
program as it is it is the `CronJob` and the job stops at its first line, without a notification:
the run `billing_receiver` shows it, and `UnboundJobNeverRuns` proves that no failure or overlap is
needed for it and that no month is spared. So **the passing billing runs are counterfactual**: with
`Receiver = "service"` they check the job as its text is written, which the program would run were
`onTick` bound, and the retries over the table it would leave. With the program's own value their
properties hold as well, of the job because it never awaits anything; no theorem about them assumes
a receiver. What the program does not keep, `MonthlyJobRuns`, is checked only with the program's value.

| Property | What it says |
|---|---|
| `NothingLostSilently` | every instance listed this month is billed, in the table, about to be inserted, or a notification is sent (no restarts, no refused records, notifications arrive) |
| `RetrySuccessMeansBilled` | a retry that answers 200, with the job idle, has billed all rows it found |
| `JobEndsListedOrTold` | a job that has got to its query ends with its instances listed or a notification sent (no restarts, notifications arrive) |
| `MonthlyJobRuns` | the same of every tick of a month; false in the program (`billing_receiver`) |
| `OneMonthsBills` | the table never mixes months or holds a bill twice, with restarts anywhere |
| `JobEnds` | the job ends, even if no call ever succeeds |
| `KeepsLedger` | the month, the table, what was taken and the alarm together implement `Ledger` (as `NothingLostSilently`) |

`Ledger` forgets pages, attempts and retries. A bill is listed, kept, taken or dropped; `Drop` allows
only bills that are taken or of an earlier month than the last one listed, and `GiveUp`, after which
anything may be dropped, is the way to the notification. That answers what happens to the bills a
month could not settle: they stay until the next month's instances are listed, and not a step
longer, since `fillFailureDB` clears the table then whether or not they were taken.

### MeteringWindow

`GetMonthStart` on a calendar whose months have any number of days and whose days have `Slots`
slots; `Buffer` is the two hours. `JobReport` is the query of the monthly job, at any time of the day
of its tick (`due`); `ManualReport` an administrator's submission; `Deprovision` the report of a
DELETE and `FinishDeprovision` its end, at any time later: it fails, and may be repeated, or the row
goes.

`StartsInItsMonth` and `UsageIsPast` name their exceptions: an instance created in the last two hours
of a month, an instance created between the job's tick and its query, and a start up to two hours
ahead of the clock. `EveryMonthIsReported` is about the seam of the two: the job reports the month
before of the rows that are there, the DELETE the month it is, and together they leave out no month,
except the one before when the row goes between the tick and the query. Two reports for one month
need not have one start, since the first of the month is taken at the time of day of the report:
`Broker` counts on no more.

### Catalog

A published change is a version; a catalog is known by the version of its entry and the versions its
prices were read at. A request to the Global Catalog is served (`ServeEntry`, `ServePlan`) before it
is answered (`EntryAnswers`, `PlanAnswers`), so that what arrives may be out of date and find the
cache replaced by a newer call. The entry, its `updated` time and its prices change together; the
versions in `Undated` have no time, as the type of an entry allows. A failed call of the constructor
has no caller and ends the process. `ExactWhenQuiet`: a call during which nothing is published
returns exactly the published catalog, whatever the calls that overlap it have done to the cache.
`NeverOlderThanCall`: nobody is answered with an older catalog than was published when it called,
although the cache itself may go back. `OfferedPlanIsFound`: a PUT is not refused for a plan that is
offered all the while. All three speak of calls that can have met no entry without a time
(`DatedSince`): with one the cache is not renewed, and a new process answers with the empty catalog.

### Server

One process with its memory (`phase`, `publicKeys`, `asked`), IAM with the version of its keys, the
`api_key` rows, and requests. Version v of the keys is a set of two, the newest and the one before,
so that a token signed before a rotation is still good after it, but not after two.

| Model | Code |
|---|---|
| `phase` | the await of `startServer`: "database", "keys" (the one in `Authenticator.build`), "listening" |
| `publicKeys` | `Authenticator.publicKeys`, by version; 0 when empty |
| `asked[f]` | a refresh under way, and the version published when it was sent |
| `StartServer`, `DatabaseConnects`, `FirstKeysArrive` | `startServer`, `ApiRoutes.routes`, `Authenticator.build` |
| `TimerFires`, `KeysArrive` | the `setInterval` callback of `init`, up to its await and after it |
| `Exit`, `Uncaught` | the catch of `startServer` and the handlers of uncaught errors |
| `Send` | a request, authorised by token (`AuthorizeByToken`) or by API key (`AuthorizeByApiKey`) |
| `FindApiKey`, `CompareHash` | `validate`, at its two awaits |
| `SaveApiKey`, `PrintApiKey` | `generate` and the script that prints what it returns |
| `since`, `current` | history: how new the keys in use are, and whether a request may expect to be known |

| Property | What it says |
|---|---|
| `TokenIsLetIn` | a genuine token of a known id, signed with the newest key, is let in if no keys were rotated since the ones in use were asked for; from the first request the port accepts |
| `ApiKeyIsLetIn` | an API key is accepted from the moment it is printed, unless a database call fails |
| `CatchesUp` | when faults and rotations end, the server ends up listening, in production with the newest keys for good |
| `ListedIsLetIn` | a genuine token of an id in `BROKER_BEARER_IDENTITIES` is let in; the run `server_documented` refutes it for the values the README shows |

## Runs

| Run | Shows | Instance |
|---|---|---|
| `broker_custody` | `ChargedBeforeRelease`, `NoLeakedLicense`, `SuccessMeansGone`, `KeepsCustody` | 4 requests, 1 instance, 2 products, overlaps and restarts |
| `broker_chaos` | `TypeOK`, `InProgressIsRunning`, `ProvisionedUntilDeprovisioned`, `AnswerOnce`, `DeprovisionSettles` | 3 requests, 2 instances, 1 product, everything allowed |
| `billing_month` | `NothingLostSilently`, `RetrySuccessMeansBilled`, `JobEndsListedOrTold`, `KeepsLedger` | 3 instances, pages of 2, 2 months, 2 retries |
| `billing_chaos` | `TypeOK`, `OneMonthsBills`, `JobEnds` | 2 instances, pages of 1, 2 months, 1 retry, restarts |
| `metering_window` | `TypeOK`, `UsageIsPast`, `StartsInItsMonth`, `EveryMonthIsReported` | 4 months of 1 to 3 days of 3 slots, DELETEs that fail, submissions while there are less than 2 records |
| `catalog_cache` | `TypeOK`, `ExactWhenQuiet`, `NeverOlderThanCall`, `OfferedPlanIsFound` | 2 calls and the constructor's, 5 versions with 1, 0, 1, 2 and 1 plans, the second undated, 1 restart |
| `server_keys` | `TypeOK`, `TokenIsLetIn`, `ApiKeyIsLetIn`, `CatchesUp` | 1 request of any kind, 2 identities, 1 API key, 3 overlapping refreshes, 3 versions of the keys, 3 faults |

and five runs that end in a counterexample, each the finding of the same name in PROJECT.json:
`broker_crash_success`, `broker_rejected_usage`, `broker_submit_target`, `billing_receiver`,
`server_documented`.

Every property of a passing run has a mutation: a definition, commented as one, that changes one of
the model's the way a plausible bug would (a dropped guard, a missing reset, an off-by-one). With it
in place of the original the run finds the property violated, so the property depends on what the
code does. PROJECT.json lists them under `mutants`; no specification uses them.

Bounds. Each bound is a constant, and the interesting cases need little: two DELETEs and a PUT are
the least with which a lookup, a charge and a deletion of one instance interleave, and a fourth
request adds a repeated PUT or an administrator's submission; two products are the least that can be
half done. Three instances on pages of two make a full page, a partial last page and, with two
instances, a full last page followed by an empty one; two months let one month's table meet the
next. Three slots and a buffer of two carry over the end of a day and of a month, and a month of one
day makes a DELETE that straddles two ticks. Three overlapping calls are one that is slow,
one that is fast and one that meets what they leave in the cache; three dated versions are the least
for a cache that goes back to a version neither first nor last, and an undated one in between
separates two of the four.
Requests do not affect one another in `Server`, so one is enough; three refreshes with three versions
let an old answer overtake two newer ones. Runs of safety properties
use the symmetry of requests, instances, retries and calls, none of which a definition names; runs
with a liveness property use none. Deadlock is not checked, because a bounded behaviour ends when its
requests are handled.

Fairness. `FairSpec` of `Broker` is weak fairness of each handler's next step, of `Billing` of the
job's. Node runs every continuation whose promise is settled, so the assumption is that every remote
call is answered or fails. The code sets no timeout on its calls, so this is the promise of TCP and
of the remote side, not of the code. Nothing is assumed about success: every call may fail every
time. `FairSpec` of `Server` is weak fairness of start-up, of the interval and of the answers to its
fetches: the process is started again when it has ended (`restart: always` in
`src/docker-compose.yml`), and an interval goes on firing. That `CatchesUp` wants the faults and the
rotations to end is in their bounds. `Fairness` leaves the environment (requests, crashes,
publications, rotations) without any.

## Proofs

`BrokerProofs`, for any sets of requests and instances and every value of the four switches:

* `TypeCorrect`: `TypeOK` is inductive; one lemma for each way a handler can end (`Await`, `Answer`,
  `Fail`) serves all actions.
* `InProgressIsAlwaysRunning`: `InProgressIsRunning` is not inductive. A step that writes "in
  progress" or ends a request must know which kind of request it is, so the invariant is joined with
  `ProvisionStepsServeProvisions`: a request at a step of `provision` is a PUT, so that the 200 it
  ends with ends no DELETE. Every way out of a DELETE writes its status, and no other request
  writes one.
* `ChargedBeforeEveryRelease`, assuming `~MeteringRejects`: the strengthening
  `ReportedBeforeDeletion` says that a DELETE that has come to its licenses has found a row that
  `charges` knows with quantity 1. `SendUsage` establishes it, and `charges` only grows.

`RecordProofs`, for the same: `RecordsOK` says of every request what its handler may count on at each
await. `HandlerOK`: which operation a step serves and what has been answered by then. `ProvisionOK`: a
PUT under way has ordered exactly the licenses it is past and has no row; one with a row is done and
has ordered them all. `DeprovisionOK`: a DELETE past its lookup works on a row there was, of its own
instance, and has freed the licenses it is past. It is one lemma per action, on top of two that say a
step touches no other handler (`Alone`) and never takes back a row or a license (`Forward`). TLC
checked it on the instances of `broker_chaos` and `broker_custody` before it was proved. From it

* `EveryRequestIsAnsweredOnce`, the action property `AnswerOnce`: the answer is sent at the last await
  of a handler or, of a DELETE, at the first, and what follows writes none;
* `AlwaysProvisionedUntilDeprovisioned`: only `DeleteRows` and `DeleteLicense` take a row or a license
  away, and both belong to a DELETE that was accepted for that instance. No assumption.

`CustodyProofs` assumes `~RepeatPut`. It is an assumption about the platform and not one the
protocol grants: the OSB specification foresees that a PUT is repeated and wants the second answered
as the first, while `provision` orders licenses and inserts a row anew. With it an instance has one
row at most (`OnePut`, `OneRow`), so that the row a DELETE has found is the one it deletes
(`DeletedIsFound`). Without it `NoLeakedLicense` and `SuccessMeansGone` are false, since
`deprovision` frees the licenses of one row and deletes them all.

* `NoLicenseIsEverLeaked`: the row goes at "delete-rows", where `RecordsOK` says its licenses are freed.
* `SuccessAlwaysMeansGone` needs `DoomedHadRow` besides: what a DELETE was to remove had a row when it
  was accepted.
* `WithoutRestartSucceedsOnlyWhenGone`, with `~Crashes` too: the property `broker_crash_success` finds
  violated holds of every behaviour without a restart, since only `ClearStatus` empties an entry and
  the row is gone by then (`ClearedIsGone`). So the restart is what the counterexample needs.
* `BrokerKeepsCustody`, with `~MeteringRejects` too: each action is mapped to `Order`, `Record`,
  `Charge`, `Release`, `Forget` or a stutter. That a license is ordered only while there is no record,
  and a record stored only when all are, is `ProvisionOK`; that it is forgotten only when all are
  released is `NoLeakedLicense`; that it is charged before a release is `ReportedBeforeDeletion`.

`BillingProofs`, for any page size and any number of retries, instances and months:

* `BillingTypeCorrect`: that nobody skips more rows than there are instances needs `SizesOK`, which
  bounds the table, what is on its way into it and what each run has read, sent and seen fail.
* `JobAlwaysEndsListedOrTold`, assuming `~Crashes` and `~AlertsFail`: `JobOK` says that between the
  query and the end the month listed is the month it is, and each step that ends the job is looked at
  once. It holds for either receiver.
* `UnboundJobNeverRuns`, assuming `Receiver = "cronjob"`, the value the program has: the invariant
  `NothingHappens` says that the job stays idle, the table empty and every page a retry reads too; so
  from the first tick on `MonthlyJobRuns` is false in every state, and no record is accepted.
* `TableHoldsOneMonth`, without an assumption. `TableOK` says that the table and what is pending,
  taken together while the table is filled, hold one month and no bill twice (`InsertKeepsWhole`: an
  insertion leaves the two together unchanged); and of the job's attempt, `AttemptOK`: it has read the
  first rows of the table, the page is the next ones, and what failed are some of those read. The
  refill of the table is then a part of the table.
* `RetrySuccessAlwaysMeansBilled`, assuming `~ItemRejects`: the same `AttemptOK` of a retry that has
  found rows with the job idle (`RetryOK`). It adds that every row read is taken or has failed, so
  that no failure means all are taken; that the last page is where the table ends is what makes "all
  read" the whole table. Restarts are allowed.

`LedgerProofs` adds `ListedOK` (no bill is about of a month not listed; when the table is about to be
cleared each of its rows is taken, pending or of an earlier month), assumes `~ItemRejects`, `~Crashes`
and `~AlertsFail` as the run does, and maps each action to a step of `Ledger` (`LedgerStep`):
`BillingKeepsLedger`, and from the same lemma `NothingIsLostSilently`. TLC checked `SizesOK`, `TableOK`,
`RetryOK`, `JobOK` and `ListedOK` on the instances of the two billing runs before they were proved.

`MeteringWindowProofs`, for calendars of any size and any number of reports: the lemmas say that
`Later` is later (`LaterIsLater`), what `GetMonthStart` can return (`StartIsFirstOrCreation`) and that
`Before` is transitive; the invariant adds that the creation time is not in the future. From it
`UsageIsAlwaysPast` and `EveryRecordStartsInItsMonth`. `EveryMonthIsAlwaysReported` needs `Settled`
besides: of an instance still there, every month that is over has a record, and so has the month
of the DELETE that is running, which may be over or not. Without the second the step that removes
the row would leave its last month open.

`CatalogProofs`, for any number of calls, versions and plans: `ExactWhenQuiet` and
`NeverOlderThanCall` need what the cache is at all times. The invariant `CacheIsDated` says that
`lastUpdate` is the version of the cached catalog and that its prices are no older than it and no
newer than what is published; `FetchIsDated` says the same of what a suspended call has in hand
(`HandIsDated`), served or arrived, and that its entry is no older than its call.
`OfferedPlanIsAlwaysFound` follows from the same two.

`ServerProofs`, for any number of requests, keys, refreshes and rotations: `KeysAreDated` says that a
listening server's keys are no newer than the published ones and no older than what was published
when they were asked for (or that an answer without keys has come), and that a refresh under way was
asked for no later than now; it is what makes the order of the answers irrelevant to
`TokenIsAlwaysLetIn`. `KeysAreStored` says that what was printed is stored and that a request waiting
for the database has shown an API key, from which `ApiKeyIsAlwaysLetIn`.

Every invariant, action property and refinement of a passing run is so stated by a theorem. What each
assumes is the environment of its run, never a bound.

Only model-checked: the liveness properties `DeprovisionSettles`, `JobEnds` and `CatchesUp`, since
fairness and `ENABLED` are out of the prover's reach, and the five counterexamples. No module uses a
RECURSIVE operator. The one recursive function, `Duplicates`, is reasoned about without the induction
theorems of the library, which take an operator as parameter: a property of all prefixes of a page
that fails, fails of a shortest one (`Least`, from the well-foundedness of the naturals), and that one
is one record longer than a prefix it holds of (`DuplicatesAreSome`).

## What is not modelled

* Dashboard, support information, provision-status page, PATCH and state calls: they read or answer
  constants.
* Migrations: data definition. That no migration makes `instance_id` unique is in `Broker`. That none
  creates the columns `version` and `enabled` of the entities is a hazard without a property.
* The contents of payloads, catalogs and licenses. The catalog cache knows versions only; the usage
  record knows row, start and quantity. In particular the renaming of the fields of a record when it
  is read back from the table (`models/metering-payload.model.ts`) is below the model.
* Years and summer time in `MeteringWindow`; a process that is down at the tick of a month.
* The expiry of tokens and of API keys. `validate` does not read the `expires` of a key, and the
  check of a token is one bit, genuine.
* More than one broker process on one database.
