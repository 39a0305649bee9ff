--------------------------- MODULE CatalogProofs ---------------------------
(***************************************************************************)
(* Proofs about the catalog cache, for any number of calls, versions and   *)
(* plans.                                                                  *)
(***************************************************************************)
EXTENDS Catalog, Integers, TLAPS

(* A catalog whose prices are no older than its entry, and that has nothing*)
(* of the future.                                                          *)
Dated(catalog) ==
  /\ catalog.version <= live
  /\ \A v \in catalog.prices : catalog.version <= v /\ v <= live

(* The cache, and the time it is taken for.                                *)
CacheIsDated == lastUpdate = Stamp(cache.version) /\ Dated(cache)

CallsAreDated == \A c \in AllCalls : began[c] <= live

(* What a call has in hand: the entry it was served, and the prices, which *)
(* it has begun anew when it fetches plans.                                *)
HandIsDated(c) ==
  /\ pc[c] \in {"entry-answer", "plan", "plan-answer"} => began[c] <= entry[c] /\ entry[c] <= live
  /\ pc[c] \in {"plan", "plan-answer"} => Dated([version |-> entry[c], prices |-> prices[c]])

FetchIsDated == \A c \in AllCalls : HandIsDated(c)

ResultIsDated ==
  \A c \in AllCalls : pc[c] = "done" =>
    (DatedSince(c) => began[c] <= result[c].version) /\ Dated(result[c])

Inv == TypeOK /\ CacheIsDated /\ CallsAreDated /\ FetchIsDated /\ ResultIsDated

-----------------------------------------------------------------------------

(* The parts of the state that one call leaves alone when it is answered.  *)
OthersUnchanged(c) ==
  \A d \in AllCalls \ {c} :
    /\ pc'[d] = pc[d]
    /\ entry'[d] = entry[d]
    /\ prices'[d] = prices[d]
    /\ result'[d] = result[d]

(* Live and began are as they were: if the call, and the cache, are well   *)
(* dated in the next state, everything is.                                 *)
LEMMA StepOfOneCall ==
  ASSUME Inv, NEW c \in AllCalls, UNCHANGED <<live, began>>, OthersUnchanged(c),
         CacheIsDated',
         HandIsDated(c)',
         pc'[c] = "done" => /\ DatedSince(c) => began[c] <= result'[c].version
                            /\ Dated(result'[c])
  PROVE  CacheIsDated' /\ CallsAreDated' /\ FetchIsDated' /\ ResultIsDated'
<1>1. CallsAreDated'
  BY DEF Inv, CallsAreDated
<1>2. FetchIsDated'
  BY DEF Inv, FetchIsDated, HandIsDated, OthersUnchanged, Dated
<1>3. ResultIsDated'
  BY DEF Inv, ResultIsDated, OthersUnchanged, Dated, DatedSince
<1> QED
  BY <1>1, <1>2, <1>3

(* A call fails: it, or the process, has nothing in hand any more.         *)
LEMMA FailKeepsInv ==
  ASSUME Inv, NEW c \in AllCalls, Fail(c), UNCHANGED <<live, entry, left, prices>>
  PROVE  Inv'
<1> USE ConstantsAssumption
<1>1. CASE c # Boot
  <2>1. /\ pc' = [pc EXCEPT ![c] = "failed"]
        /\ UNCHANGED <<cache, lastUpdate, exits, began, result>>
    BY <1>1 DEF Fail, Await
  <2>2. TypeOK'
    BY <2>1 DEF Inv, TypeOK
  <2>3. CacheIsDated' /\ CallsAreDated' /\ FetchIsDated' /\ ResultIsDated'
    BY <2>1 DEF Inv, TypeOK, CacheIsDated, CallsAreDated, FetchIsDated, HandIsDated, ResultIsDated,
                Dated, DatedSince
  <2> QED
    BY <2>2, <2>3 DEF Inv
<1>2. CASE c = Boot
  <2>1. /\ exits < MaxExits
        /\ exits' = exits + 1
        /\ cache' = Empty
        /\ lastUpdate' = 0
        /\ pc' = [d \in AllCalls |-> IF d = Boot THEN "token"
                    ELSE IF pc[d] \in {"idle", "done"} THEN pc[d] ELSE "failed"]
        /\ began' = [began EXCEPT ![Boot] = live]
        /\ result' = result
    BY <1>2 DEF Fail
  <2>2. exits' \in 0..MaxExits /\ cache' \in Catalogs /\ lastUpdate' \in 0..MaxVersion
    BY <2>1 DEF Inv, TypeOK, Empty, Catalogs
  <2>3. pc' \in [AllCalls -> {"idle", "token", "entry", "entry-answer", "plan", "plan-answer", "done", "failed"}]
    BY <2>1 DEF Inv, TypeOK
  <2>4. began' \in [AllCalls -> 1..MaxVersion]
    BY <2>1 DEF Inv, TypeOK
  <2>5. TypeOK'
    BY <2>1, <2>2, <2>3, <2>4 DEF Inv, TypeOK
  <2>6. CacheIsDated'
    BY <2>1 DEF Inv, TypeOK, CacheIsDated, Dated, Empty, Stamp
  <2>7. CallsAreDated'
    BY <2>1 DEF Inv, TypeOK, CallsAreDated
  <2>8. FetchIsDated'
    BY <2>1 DEF Inv, FetchIsDated, HandIsDated
  <2>9. ResultIsDated'
    BY <2>1 DEF Inv, TypeOK, ResultIsDated, Dated, DatedSince
  <2> QED
    BY <2>5, <2>6, <2>7, <2>8, <2>9 DEF Inv
<1> QED
  BY <1>1, <1>2

(* The loop: what is in hand is kept, or becomes the cache and the result. *)
LEMMA NextPlanKeepsInv ==
  ASSUME Inv, NEW c \in AllCalls, NEW rest \in Int, NEW catalog \in Catalogs,
         NextPlan(c, rest, catalog),
         Dated(catalog), began[c] <= catalog.version,
         entry[c] = catalog.version,
         left' = [left EXCEPT ![c] = rest],
         prices' = [prices EXCEPT ![c] = catalog.prices],
         UNCHANGED <<live, entry, exits, began>>
  PROVE  Inv'
<1>1. CASE rest > 0 /\ Await(c, "plan") /\ UNCHANGED <<cache, lastUpdate>>
  <2>1. TypeOK'
    BY <1>1 DEF Inv, TypeOK, Await, Catalogs
  <2>2. CacheIsDated'
    BY <1>1 DEF Inv, CacheIsDated, Dated
  <2>3. OthersUnchanged(c) /\ pc'[c] = "plan"
        /\ entry'[c] = catalog.version /\ prices'[c] = catalog.prices
    BY <1>1 DEF Inv, TypeOK, Await, OthersUnchanged
  <2> QED
    BY <2>1, <2>2, <2>3, StepOfOneCall DEF Inv, Dated, HandIsDated
<1>2. CASE rest = 0 /\ Replace(c, catalog)
  <2>1. TypeOK'
    <3>1. Stamp(catalog.version) \in 0..MaxVersion
      BY ConstantsAssumption DEF Stamp, Catalogs
    <3>2. left' \in [AllCalls -> Nat] /\ entry' \in [AllCalls -> 0..MaxVersion]
          /\ prices' \in [AllCalls -> SUBSET (1..MaxVersion)]
      BY <1>2 DEF Inv, TypeOK, Catalogs
    <3>3. result' \in [AllCalls -> Catalogs]
      BY <1>2 DEF Inv, TypeOK, Replace, Return
    <3> QED
      BY <1>2, <3>1, <3>2, <3>3 DEF Inv, TypeOK, Replace, Return
  <2>2. CacheIsDated'
    BY <1>2 DEF CacheIsDated, Replace, Dated
  <2>3. OthersUnchanged(c) /\ pc'[c] = "done" /\ result'[c] = catalog
    BY <1>2 DEF Inv, TypeOK, Replace, Return, OthersUnchanged
  <2> QED
    BY <2>1, <2>2, <2>3, StepOfOneCall DEF Inv, HandIsDated
<1> QED
  BY <1>1, <1>2 DEF NextPlan

-----------------------------------------------------------------------------

LEMMA InvInit == Init => Inv
<1> SUFFICES ASSUME Init PROVE Inv
  OBVIOUS
<1> USE ConstantsAssumption DEF Init
<1>1. TypeOK
  BY DEF TypeOK, Catalogs, Empty
<1>2. CacheIsDated
  BY DEF CacheIsDated, Dated, Empty, Stamp
<1>3. CallsAreDated /\ FetchIsDated /\ ResultIsDated
  BY DEF CallsAreDated, FetchIsDated, HandIsDated, ResultIsDated
<1> QED
  BY <1>1, <1>2, <1>3 DEF Inv

LEMMA PublishKeepsInv == ASSUME Inv, Publish PROVE Inv'
<1> USE ConstantsAssumption
<1>1. /\ live \in 1..MaxVersion /\ live' = live + 1 /\ live' \in 1..MaxVersion
      /\ UNCHANGED <<cache, lastUpdate, pc, entry, left, prices, result, exits, began>>
  BY DEF Inv, TypeOK, Publish, locals
<1>2. TypeOK'
  BY <1>1 DEF Inv, TypeOK
<1>3. ASSUME NEW catalog \in Catalogs, Dated(catalog) PROVE Dated(catalog)'
  BY <1>1, <1>3 DEF Dated, Catalogs
<1>4. CacheIsDated'
  BY <1>1, <1>3 DEF Inv, TypeOK, CacheIsDated
<1>5. CallsAreDated'
  BY <1>1 DEF Inv, TypeOK, CallsAreDated
<1>6. FetchIsDated'
  <2> SUFFICES ASSUME NEW c \in AllCalls PROVE HandIsDated(c)'
    BY DEF FetchIsDated
  <2>1. [version |-> entry[c], prices |-> prices[c]] \in Catalogs
    BY DEF Inv, TypeOK, Catalogs
  <2> QED
    BY <2>1, <1>1, <1>3 DEF Inv, TypeOK, FetchIsDated, HandIsDated, Dated
<1>7. ResultIsDated'
  <2> SUFFICES ASSUME NEW c \in AllCalls, pc[c] = "done"
               PROVE  /\ DatedSince(c)' => began[c] <= result[c].version
                      /\ Dated(result[c])'
    BY <1>1 DEF ResultIsDated, Dated, DatedSince
  <2>1. DatedSince(c)' => DatedSince(c)
    BY <1>1 DEF DatedSince, Inv, TypeOK
  <2> QED
    BY <2>1, <1>1, <1>3 DEF Inv, TypeOK, ResultIsDated, Dated
<1> QED
  BY <1>2, <1>4, <1>5, <1>6, <1>7 DEF Inv

LEMMA CallKeepsInv == ASSUME Inv, NEW c \in Calls, Call(c) PROVE Inv'
<1>1. /\ c \in AllCalls
      /\ pc' = [pc EXCEPT ![c] = "token"]
      /\ began' = [began EXCEPT ![c] = live]
      /\ UNCHANGED <<live, cache, lastUpdate, entry, left, prices, result, exits>>
  BY DEF Call, Await, locals, AllCalls
<1>2. TypeOK'
  BY <1>1 DEF Inv, TypeOK
<1>3. CacheIsDated' /\ CallsAreDated'
  BY <1>1, ConstantsAssumption DEF Inv, TypeOK, CacheIsDated, CallsAreDated, Dated
<1>4. FetchIsDated' /\ ResultIsDated'
  BY <1>1 DEF Inv, TypeOK, FetchIsDated, HandIsDated, ResultIsDated, Dated, DatedSince
<1> QED
  BY <1>2, <1>3, <1>4 DEF Inv

LEMMA TokenAnswersKeepsInv == ASSUME Inv, NEW c \in AllCalls, TokenAnswers(c) PROVE Inv'
<1>1. CASE Fail(c)
  BY <1>1, FailKeepsInv DEF TokenAnswers, locals
<1>2. CASE Await(c, "entry") /\ UNCHANGED <<cache, lastUpdate, exits, began>>
  <2>1. /\ pc' = [pc EXCEPT ![c] = "entry"]
        /\ UNCHANGED <<live, cache, lastUpdate, entry, left, prices, result, exits, began>>
    BY <1>2 DEF TokenAnswers, Await, locals
  <2>2. TypeOK'
    BY <2>1 DEF Inv, TypeOK
  <2>3. CacheIsDated' /\ CallsAreDated' /\ FetchIsDated' /\ ResultIsDated'
    BY <2>1 DEF Inv, TypeOK, CacheIsDated, CallsAreDated, FetchIsDated, HandIsDated, ResultIsDated,
                Dated, DatedSince
  <2> QED
    BY <2>2, <2>3 DEF Inv
<1> QED
  BY <1>1, <1>2 DEF TokenAnswers

LEMMA ServeEntryKeepsInv == ASSUME Inv, NEW c \in AllCalls, ServeEntry(c) PROVE Inv'
<1>1. /\ entry' = [entry EXCEPT ![c] = live]
      /\ pc' = [pc EXCEPT ![c] = "entry-answer"]
      /\ UNCHANGED <<live, cache, lastUpdate, left, prices, result, exits, began>>
  BY DEF ServeEntry, Await
<1>2. TypeOK'
  BY <1>1, ConstantsAssumption DEF Inv, TypeOK
<1>3. CacheIsDated'
  BY <1>1 DEF Inv, CacheIsDated, Dated
<1>4. OthersUnchanged(c) /\ pc'[c] = "entry-answer" /\ entry'[c] = live
  BY <1>1 DEF Inv, TypeOK, OthersUnchanged
<1>5. HandIsDated(c)'
  BY <1>1, <1>4, ConstantsAssumption DEF Inv, TypeOK, CallsAreDated, HandIsDated
<1> QED
  BY <1>1, <1>2, <1>3, <1>4, <1>5, StepOfOneCall DEF Inv

LEMMA EntryAnswersKeepsInv == ASSUME Inv, NEW c \in AllCalls, EntryAnswers(c) PROVE Inv'
<1> USE ConstantsAssumption
<1>1. CASE Fail(c) /\ UNCHANGED <<left, prices>>
  BY <1>1, FailKeepsInv DEF EntryAnswers
<1>2. /\ pc[c] = "entry-answer" /\ entry[c] \in 0..MaxVersion /\ began[c] \in 1..MaxVersion
      /\ began[c] <= entry[c] /\ entry[c] <= live /\ live \in 1..MaxVersion
  BY DEF EntryAnswers, Inv, TypeOK, FetchIsDated, HandIsDated
<1>3. CASE /\ lastUpdate = Stamp(entry[c])
           /\ Return(c, cache)
           /\ UNCHANGED <<cache, lastUpdate, left, prices, exits, began>>
  <2>1. /\ pc' = [pc EXCEPT ![c] = "done"]
        /\ result' = [result EXCEPT ![c] = cache]
        /\ UNCHANGED <<live, cache, lastUpdate, entry, left, prices, exits, began>>
    BY <1>3 DEF EntryAnswers, Return
  <2>2. TypeOK'
    BY <2>1 DEF Inv, TypeOK
  <2>3. CacheIsDated'
    BY <2>1 DEF Inv, CacheIsDated, Dated
  <2>4. OthersUnchanged(c) /\ pc'[c] = "done" /\ result'[c] = cache
    BY <2>1 DEF Inv, TypeOK, OthersUnchanged
  <2>5. DatedSince(c) => began[c] <= cache.version
    <3> SUFFICES ASSUME DatedSince(c) PROVE began[c] <= cache.version
      OBVIOUS
    <3>1. entry[c] \notin Undated
      BY <1>2 DEF DatedSince
    <3>2. Stamp(cache.version) = entry[c] /\ entry[c] # 0
      BY <1>2, <1>3, <3>1 DEF Inv, CacheIsDated, Stamp
    <3>3. cache.version = entry[c]
      BY <3>2 DEF Inv, TypeOK, Catalogs, Stamp
    <3> QED
      BY <1>2, <3>3
  <2>6. Dated(cache)
    BY DEF Inv, CacheIsDated
  <2>7. HandIsDated(c)'
    BY <2>4 DEF HandIsDated
  <2> QED
    BY <2>1, <2>2, <2>3, <2>4, <2>5, <2>6, <2>7, StepOfOneCall DEF Inv
<1>4. CASE /\ left' = [left EXCEPT ![c] = Plans[entry[c]]]
           /\ prices' = [prices EXCEPT ![c] = {}]
           /\ NextPlan(c, Plans[entry[c]], [version |-> entry[c], prices |-> {}])
           /\ UNCHANGED <<exits, began>>
  <2> DEFINE catalog == [version |-> entry[c], prices |-> {}]
  <2>1. catalog \in Catalogs /\ Plans[entry[c]] \in Int /\ UNCHANGED <<live, entry>>
    BY <1>2 DEF Catalogs, EntryAnswers
  <2>2. Dated(catalog) /\ began[c] <= catalog.version
    BY <1>2 DEF Dated
  <2> QED
    BY <1>4, <2>1, <2>2, NextPlanKeepsInv
<1> QED
  BY <1>1, <1>3, <1>4 DEF EntryAnswers

LEMMA ServePlanKeepsInv == ASSUME Inv, NEW c \in AllCalls, ServePlan(c) PROVE Inv'
<1>1. /\ prices' = [prices EXCEPT ![c] = prices[c] \cup {live}]
      /\ pc[c] = "plan" /\ pc' = [pc EXCEPT ![c] = "plan-answer"]
      /\ UNCHANGED <<live, cache, lastUpdate, entry, left, result, exits, began>>
  BY DEF ServePlan, Await
<1>2. TypeOK'
  BY <1>1, ConstantsAssumption DEF Inv, TypeOK
<1>3. CacheIsDated'
  BY <1>1 DEF Inv, CacheIsDated, Dated
<1>4. OthersUnchanged(c) /\ pc'[c] = "plan-answer" /\ prices'[c] = prices[c] \cup {live}
  BY <1>1 DEF Inv, TypeOK, OthersUnchanged
<1>5. HandIsDated(c)'
  BY <1>1, <1>4, ConstantsAssumption DEF Inv, TypeOK, FetchIsDated, HandIsDated, Dated
<1> QED
  BY <1>1, <1>2, <1>3, <1>4, <1>5, StepOfOneCall DEF Inv

LEMMA PlanAnswersKeepsInv == ASSUME Inv, NEW c \in AllCalls, PlanAnswers(c) PROVE Inv'
<1>1. CASE Fail(c) /\ UNCHANGED left
  BY <1>1, FailKeepsInv DEF PlanAnswers
<1>2. CASE ~(Fail(c) /\ UNCHANGED left)
  <2> DEFINE rest    == left[c] - 1
             catalog == [version |-> entry[c], prices |-> prices[c]]
  <2>1. /\ pc[c] = "plan-answer"
        /\ left' = [left EXCEPT ![c] = rest]
        /\ NextPlan(c, rest, catalog)
        /\ UNCHANGED <<live, entry, prices, exits, began>>
    BY <1>2 DEF PlanAnswers
  <2>2. catalog \in Catalogs /\ rest \in Int
    BY DEF Inv, TypeOK, Catalogs
  <2>3. entry[c] = catalog.version /\ prices' = [prices EXCEPT ![c] = catalog.prices]
    BY <2>1 DEF Inv, TypeOK
  <2>4. Dated(catalog) /\ began[c] <= catalog.version
    BY <2>1 DEF Inv, FetchIsDated, HandIsDated
  <2> HIDE DEF catalog, rest
  <2> QED
    BY <2>1, <2>2, <2>3, <2>4, NextPlanKeepsInv
<1> QED
  BY <1>1, <1>2

LEMMA InvStep == Inv /\ [Next]_vars => Inv'
<1> SUFFICES ASSUME Inv, [Next]_vars PROVE Inv'
  OBVIOUS
<1>1. CASE UNCHANGED vars
  BY <1>1 DEF vars, Inv, TypeOK, CacheIsDated, CallsAreDated, FetchIsDated, HandIsDated, ResultIsDated,
             Dated, DatedSince
<1>2. CASE Publish
  BY <1>2, PublishKeepsInv
<1>3. ASSUME NEW c \in Calls, Call(c) PROVE Inv'
  BY <1>3, CallKeepsInv
<1>4. ASSUME NEW c \in AllCalls, Served(c) \/ Answers(c) PROVE Inv'
  BY <1>4, TokenAnswersKeepsInv, ServeEntryKeepsInv, EntryAnswersKeepsInv, ServePlanKeepsInv,
     PlanAnswersKeepsInv DEF Served, Answers
<1> QED
  BY <1>1, <1>2, <1>3, <1>4 DEF Next

(* Every reachable state of the cache is well typed; a call never fetches  *)
(* the pricing of more plans than the entry has.                           *)
THEOREM CatalogTypeCorrect == Spec => []TypeOK
<1>1. Inv => TypeOK
  BY DEF Inv
<1> QED
  BY <1>1, InvInit, InvStep, PTL DEF Spec

(* A call of getCatalog during which nothing is published returns exactly  *)
(* the published catalog, whatever overlaps it and whatever fails, unless  *)
(* the published entry has no time.                                        *)
THEOREM AlwaysExactWhenQuiet == Spec => []ExactWhenQuiet
<1>1. Inv => ExactWhenQuiet
  <2> SUFFICES ASSUME Inv, NEW c \in AllCalls, pc[c] = "done", began[c] = live,
                      live \notin Undated
               PROVE  result[c].version = live /\ result[c].prices \subseteq {live}
    BY DEF ExactWhenQuiet
  <2>1. result[c] \in Catalogs /\ live \in Nat
    BY ConstantsAssumption DEF Inv, TypeOK
  <2>2. live <= result[c].version /\ Dated(result[c])
    <3>1. DatedSince(c)
      BY <2>1, ConstantsAssumption DEF DatedSince
    <3> QED
      BY <3>1 DEF Inv, ResultIsDated
  <2> QED
    BY <2>1, <2>2, ConstantsAssumption DEF Dated, Catalogs
<1> QED
  BY <1>1, InvInit, InvStep, PTL DEF Spec

(* No call of getCatalog returns a catalog older than the one published    *)
(* when it began, unless an entry without a time was published meanwhile.  *)
THEOREM CatalogNeverOlderThanCall == Spec => []NeverOlderThanCall
<1>1. Inv => NeverOlderThanCall
  <2> SUFFICES ASSUME Inv, NEW c \in AllCalls, pc[c] = "done", DatedSince(c)
               PROVE  /\ result[c].version >= began[c]
                      /\ \A v \in result[c].prices : v >= result[c].version
    BY DEF NeverOlderThanCall
  <2>1. result[c] \in Catalogs /\ began[c] \in Nat
    BY ConstantsAssumption DEF Inv, TypeOK
  <2>2. began[c] <= result[c].version /\ Dated(result[c])
    BY DEF Inv, ResultIsDated
  <2> QED
    BY <2>1, <2>2, ConstantsAssumption DEF Dated, Catalogs
<1> QED
  BY <1>1, InvInit, InvStep, PTL DEF Spec

(* A PUT is not refused for its plan because of the cache: the plan is in  *)
(* the catalog the call of getCatalog returns, if every version published  *)
(* since the call began has it.                                            *)
THEOREM OfferedPlanIsAlwaysFound == Spec => []OfferedPlanIsFound
<1>1. Inv => OfferedPlanIsFound
  <2> SUFFICES ASSUME Inv, NEW c \in AllCalls, pc[c] = "done", DatedSince(c),
                      NEW k \in 1..Plans[began[c]], \A v \in began[c]..live : k <= Plans[v]
               PROVE  GetPlan(result[c], k)
    BY DEF OfferedPlanIsFound
  <2>1. result[c].version \in 0..MaxVersion /\ began[c] \in 1..MaxVersion
    BY DEF Inv, TypeOK, Catalogs
  <2>2. began[c] <= result[c].version /\ result[c].version <= live
    BY DEF Inv, ResultIsDated, Dated
  <2>3. result[c].version \in began[c]..live /\ result[c].version # 0
    BY <2>1, <2>2, ConstantsAssumption DEF Inv, TypeOK
  <2> QED
    BY <2>3 DEF GetPlan
<1> QED
  BY <1>1, InvInit, InvStep, PTL DEF Spec
=============================================================================
