------------------------------ MODULE Catalog ------------------------------
(***************************************************************************)
(* The catalog cache of CatalogServiceImpl.  getCatalog asks the Global    *)
(* Catalog for the service entry, returns the cached catalog if the entry  *)
(* is as old as the cache, and otherwise fetches the pricing of every plan *)
(* of the entry and replaces the cache.  Calls overlap at every await, and *)
(* the publisher may change the service at any time.  A request to the     *)
(* Global Catalog is served at one time and answered at a later one, when  *)
(* the call goes on: in between the cache and the service may change.      *)
(*                                                                         *)
(* A published change is a version: it replaces the entry, its "updated"   *)
(* time and the pricing of its plans.  A catalog is known by the version   *)
(* of its entry and the versions its prices were read at.                  *)
(***************************************************************************)
EXTENDS Naturals

CONSTANTS
  Calls,       \* the calls of getCatalog: GET /v2/catalog and provision
  Boot,        \* the call of the constructor, which nobody awaits
  MaxVersion,  \* bound on the versions
  Plans,       \* Plans[v]: how many plans the entry of version v has
  Undated,     \* the versions whose entry has no "updated" time
  MaxExits     \* bound on the times the process ends

ASSUME ConstantsAssumption ==
  /\ Boot \notin Calls
  /\ MaxVersion \in Nat \ {0}
  /\ Plans \in [1..MaxVersion -> Nat]
  /\ Undated \subseteq 1..MaxVersion
  /\ MaxExits \in Nat

VARIABLES
  live,        \* the published version
  cache,       \* this.catalog
  lastUpdate,  \* this.lastUpdate, 0 when undefined
  pc,          \* pc[c]: the await the call is suspended at
  entry,       \* entry[c]: the version of the entry it was served
  left,        \* left[c]: the plans whose pricing it has still to fetch
  prices,      \* prices[c]: the versions of the pricing it was served
  result,      \* result[c]: the catalog it returned
  exits,       \* how often the process has ended
  (* History.                                                              *)
  began        \* began[c]: the version that was published when it was called

locals == <<entry, left, prices>>
vars   == <<live, cache, lastUpdate, pc, entry, left, prices, result, exits, began>>

AllCalls == Calls \cup {Boot}

(* No services: what the cache holds before the first fetch.               *)
Empty == [version |-> 0, prices |-> {}]

(* The "updated" time of a version, 0 when undefined.                      *)
Stamp(v) == IF v \in Undated THEN 0 ELSE v

(* getPlan: does the catalog have the k-th plan of the service?            *)
GetPlan(catalog, k) == catalog.version # 0 /\ k <= Plans[catalog.version]

Init ==
  /\ live = 1
  /\ cache = Empty
  /\ lastUpdate = 0
  /\ pc = [c \in AllCalls |-> IF c = Boot THEN "token" ELSE "idle"]
  /\ entry = [c \in AllCalls |-> 0]
  /\ left = [c \in AllCalls |-> 0]
  /\ prices = [c \in AllCalls |-> {}]
  /\ result = [c \in AllCalls |-> Empty]
  /\ exits = 0
  /\ began = [c \in AllCalls |-> 1]

Await(c, step) == pc' = [pc EXCEPT ![c] = step] /\ UNCHANGED result

Return(c, catalog) ==
  /\ pc' = [pc EXCEPT ![c] = "done"]
  /\ result' = [result EXCEPT ![c] = catalog]

(* A failed call is its caller's error; the constructor's has no caller,   *)
(* and its unhandled rejection ends the process.  The new process has an   *)
(* empty cache, and none of the calls of the old one.                      *)
Fail(c) ==
  \/ /\ c # Boot
     /\ Await(c, "failed")
     /\ UNCHANGED <<cache, lastUpdate, exits, began>>
  \/ /\ c = Boot
     /\ exits < MaxExits
     /\ exits' = exits + 1
     /\ cache' = Empty
     /\ lastUpdate' = 0
     /\ pc' = [d \in AllCalls |-> IF d = Boot THEN "token"
                 ELSE IF pc[d] \in {"idle", "done"} THEN pc[d] ELSE "failed"]
     /\ began' = [began EXCEPT ![Boot] = live]
     /\ UNCHANGED result

Publish ==
  /\ live < MaxVersion
  /\ live' = live + 1
  /\ UNCHANGED <<cache, lastUpdate, pc, locals, result, exits, began>>

Call(c) ==
  /\ pc[c] = "idle"
  /\ Await(c, "token")
  /\ began' = [began EXCEPT ![c] = live]
  /\ UNCHANGED <<live, cache, lastUpdate, locals, exits>>

TokenAnswers(c) ==
  /\ pc[c] = "token"
  /\ \/ Await(c, "entry") /\ UNCHANGED <<cache, lastUpdate, exits, began>>
     \/ Fail(c)
  /\ UNCHANGED <<live, locals>>

(* A mutation: the previous catalog is returned while the cache is renewed.*)
ReplaceLate(c, catalog) ==
  /\ cache' = catalog
  /\ lastUpdate' = Stamp(catalog.version)
  /\ Return(c, cache)

(* Assign the catalog and lastUpdate, whatever other calls have assigned,  *)
(* and return.                                                             *)
Replace(c, catalog) ==
  /\ cache' = catalog
  /\ lastUpdate' = Stamp(catalog.version)
  /\ Return(c, catalog)

(* Mutations: the loop may go on after the last plan; the time of the      *)
(* update is recorded before the plans are fetched.                        *)
NextPlanTooMany(c, rest, catalog) ==
  \/ Await(c, "plan") /\ UNCHANGED <<cache, lastUpdate>>
  \/ rest = 0 /\ Replace(c, catalog)

NextPlanStamped(c, rest, catalog) ==
  \/ /\ rest > 0
     /\ Await(c, "plan")
     /\ lastUpdate' = Stamp(catalog.version)
     /\ UNCHANGED cache
  \/ rest = 0 /\ Replace(c, catalog)

(* The loop of getPlans: fetch the pricing of the next of the plans that   *)
(* are left, or be done with the catalog.                                  *)
NextPlan(c, rest, catalog) ==
  \/ rest > 0 /\ Await(c, "plan") /\ UNCHANGED <<cache, lastUpdate>>
  \/ rest = 0 /\ Replace(c, catalog)

(* The Global Catalog serves the entry as it is published.                 *)
ServeEntry(c) ==
  /\ pc[c] = "entry"
  /\ entry' = [entry EXCEPT ![c] = live]
  /\ Await(c, "entry-answer")
  /\ UNCHANGED <<live, cache, lastUpdate, left, prices, exits, began>>

(* The entry arrives: the cache is current, or the plans have to be priced.*)
(* An undefined time equals an undefined one: of an empty cache, or of a   *)
(* cache taken for another entry without a time.                           *)
EntryAnswers(c) ==
  /\ pc[c] = "entry-answer"
  /\ \/ /\ lastUpdate = Stamp(entry[c])
        /\ Return(c, cache)
        /\ UNCHANGED <<cache, lastUpdate, left, prices, exits, began>>
     \/ /\ lastUpdate # Stamp(entry[c])
        /\ left' = [left EXCEPT ![c] = Plans[entry[c]]]
        /\ prices' = [prices EXCEPT ![c] = {}]
        /\ NextPlan(c, Plans[entry[c]], [version |-> entry[c], prices |-> {}])
        /\ UNCHANGED <<exits, began>>
     \/ Fail(c) /\ UNCHANGED <<left, prices>>
  /\ UNCHANGED <<live, entry>>

(* The pricing of one plan is served, as it is published by then.          *)
ServePlan(c) ==
  /\ pc[c] = "plan"
  /\ prices' = [prices EXCEPT ![c] = @ \cup {live}]
  /\ Await(c, "plan-answer")
  /\ UNCHANGED <<live, cache, lastUpdate, entry, left, exits, began>>

(* The pricing arrives.                                                    *)
PlanAnswers(c) ==
  /\ pc[c] = "plan-answer"
  /\ \/ LET rest == left[c] - 1
        IN /\ left' = [left EXCEPT ![c] = rest]
           /\ NextPlan(c, rest, [version |-> entry[c], prices |-> prices[c]])
           /\ UNCHANGED <<exits, began>>
     \/ Fail(c) /\ UNCHANGED left
  /\ UNCHANGED <<live, entry, prices>>

Served(c) == ServeEntry(c) \/ ServePlan(c)

Answers(c) == TokenAnswers(c) \/ EntryAnswers(c) \/ PlanAnswers(c)

Next ==
  \/ Publish
  \/ \E c \in Calls : Call(c)
  \/ \E c \in AllCalls : Served(c) \/ Answers(c)

Spec == Init /\ [][Next]_vars

-----------------------------------------------------------------------------
(* Properties.                                                             *)

Catalogs == [version : 0..MaxVersion, prices : SUBSET (1..MaxVersion)]

TypeOK ==
  /\ live \in 1..MaxVersion
  /\ cache \in Catalogs
  /\ lastUpdate \in 0..MaxVersion
  /\ pc \in [AllCalls -> {"idle", "token", "entry", "entry-answer", "plan",
                        "plan-answer", "done", "failed"}]
  /\ entry \in [AllCalls -> 0..MaxVersion]
  /\ left \in [AllCalls -> Nat]
  /\ prices \in [AllCalls -> SUBSET (1..MaxVersion)]
  /\ result \in [AllCalls -> Catalogs]
  /\ exits \in 0..MaxExits
  /\ began \in [AllCalls -> 1..MaxVersion]

(* A call during which nothing is published returns the published catalog, *)
(* entry and prices: however many slower or older calls overlap, in        *)
(* whatever order they replace the cache, and whatever fails; but for an   *)
(* entry without a time, for which the cache may be anything.              *)
ExactWhenQuiet ==
  \A c \in AllCalls : pc[c] = "done" /\ began[c] = live /\ live \notin Undated =>
    result[c].version = live /\ result[c].prices \subseteq {live}

(* Every entry published since the call began has a time.                  *)
DatedSince(c) == \A v \in Undated : v < began[c] \/ live < v

(* No call returns a catalog older than the one published when it began,   *)
(* although the cache itself may go back to an older one, unless it may    *)
(* have met an entry without a time.                                       *)
NeverOlderThanCall ==
  \A c \in AllCalls : pc[c] = "done" /\ DatedSince(c) =>
    /\ result[c].version >= began[c]
    /\ \A v \in result[c].prices : v >= result[c].version

(* A PUT is not refused for its plan ("Invalid plan id") because of the    *)
(* cache: the plan is in the catalog the call returns, if it is in every   *)
(* version published since the call began.                                 *)
OfferedPlanIsFound ==
  \A c \in AllCalls : pc[c] = "done" /\ DatedSince(c) =>
    \A k \in 1..Plans[began[c]] :
      (\A v \in began[c]..live : k <= Plans[v]) => GetPlan(result[c], k)
=============================================================================
