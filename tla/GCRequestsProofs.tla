-------------------------- MODULE GCRequestsProofs --------------------------
(***************************************************************************)
(* Proofs about GCRequests, for every finite set of contexts: as long as   *)
(* the embedding does not call JS_YieldRequest, rt->requestCount counts    *)
(* the contexts inside requests, at most one context collects, and it      *)
(* collects alone.                                                         *)
(*                                                                         *)
(* The count is the heart: every step either leaves the set of contexts    *)
(* inside a request and the counter alone, or moves one context and counts *)
(* it (StepCounts).  A collector that reads 0 has then seen that the set   *)
(* is empty, and gcLevel keeps it empty.                                   *)
(***************************************************************************)
EXTENDS GCRequests, FiniteSetTheorems, TLAPS

LEMMA TypeInit == Init => TypeOK
<1> SUFFICES ASSUME Init PROVE TypeOK
  OBVIOUS
<1>1. 0 \in 0..MaxLevel /\ 0 \in 0..MaxCount /\ 0 \in 0..MaxDepth
  BY GCRequestsAssumption
<1> QED
  BY <1>1 DEF Init, TypeOK, PCs, Running

LEMMA CountType ==
  /\ \A n \in 0..MaxCount : Inc(n) \in 0..MaxCount /\ Dec(n) \in 0..MaxCount
BY GCRequestsAssumption DEF Inc, Dec

LEMMA NotifyType ==
  ASSUME NEW added \in SUBSET Contexts, requestDone \in SUBSET Contexts,
         NotifyRequestDone(added)
  PROVE  requestDone' \in SUBSET Contexts
BY DEF NotifyRequestDone

LEMMA TypeStep == TypeOK /\ [Next]_vars => TypeOK'
<1> SUFFICES ASSUME TypeOK, [Next]_vars PROVE TypeOK'
  OBVIOUS
<1> USE GCRequestsAssumption, CountType
<1> USE DEF TypeOK, PCs, Running, Active, Goto
<1>1. ASSUME NEW c \in Contexts, BeginRequest(c) PROVE TypeOK'
  BY <1>1 DEF BeginRequest, EnterRequest
<1>2. ASSUME NEW c \in Contexts, BeginNested(c) PROVE TypeOK'
  BY <1>2 DEF BeginNested
<1>3. ASSUME NEW c \in Contexts, BeginWake(c) PROVE TypeOK'
  BY <1>3 DEF BeginWake, EnterRequest
<1>4. ASSUME NEW c \in Contexts, EndRequest(c) PROVE TypeOK'
  BY <1>4, NotifyType DEF EndRequest, LeaveRequest
<1>5. ASSUME NEW c \in Contexts, SuspendRequest(c) PROVE TypeOK'
  BY <1>5 DEF SuspendRequest, LeaveRequest
<1>6. ASSUME NEW c \in Contexts, YieldLoad(c) PROVE TypeOK'
  BY <1>6 DEF YieldLoad
<1>7. ASSUME NEW c \in Contexts, YieldStore(c) PROVE TypeOK'
  BY <1>7, NotifyType DEF YieldStore
<1>8. ASSUME NEW c \in Contexts, YieldReturn(c) PROVE TypeOK'
  BY <1>8 DEF YieldReturn
<1>9. ASSUME NEW c \in Contexts, Poke(c) PROVE TypeOK'
  BY <1>9 DEF Poke
<1>10. ASSUME NEW c \in Contexts, CallGC(c) PROVE TypeOK'
  BY <1>10 DEF CallGC
<1>11. ASSUME NEW c \in Contexts, ForceGC(c) PROVE TypeOK'
  BY <1>11 DEF ForceGC
<1>12. ASSUME NEW c \in Contexts, NoPoke(c) PROVE TypeOK'
  BY <1>12 DEF NoPoke
<1>13. ASSUME NEW c \in Contexts, GCElsewhere(c) PROVE TypeOK'
  <2>1. requestDone' \in SUBSET Contexts
    BY <1>13, NotifyType DEF GCElsewhere, Indicate
  <2> QED
    BY <1>13, <2>1 DEF GCElsewhere, CountWithout
<1>14. ASSUME NEW c \in Contexts, GCStart(c) PROVE TypeOK'
  <2>1. requestDone' \in SUBSET Contexts
    BY <1>14, NotifyType DEF GCStart, Indicate
  <2>2. gcLevel' \in 0..MaxLevel /\ requestCount' \in 0..MaxCount
    BY <1>14 DEF GCStart, CountWithout
  <2> QED
    BY <1>14, <2>1, <2>2 DEF GCStart
<1>15. ASSUME NEW c \in Contexts, GCElsewhereWake(c) PROVE TypeOK'
  BY <1>15 DEF GCElsewhereWake, CountWith
<1>16. ASSUME NEW c \in Contexts, RequestDoneWake(c) PROVE TypeOK'
  BY <1>16 DEF RequestDoneWake
<1>17. ASSUME NEW c \in Contexts, MarkAndSweep(c) PROVE TypeOK'
  BY <1>17 DEF MarkAndSweep
<1>18. ASSUME NEW c \in Contexts, FinalizerPoke(c) PROVE TypeOK'
  BY <1>18 DEF FinalizerPoke
<1>19. ASSUME NEW c \in Contexts, FinalizerGC(c) PROVE TypeOK'
  <2>1. gcLevel' \in 0..MaxLevel
    BY <1>19 DEF FinalizerGC
  <2> QED
    BY <1>19, <2>1 DEF FinalizerGC
<1>20. ASSUME NEW c \in Contexts, GCRestart(c) PROVE TypeOK'
  BY <1>20 DEF GCRestart
<1>21. ASSUME NEW c \in Contexts, GCFinish(c) PROVE TypeOK'
  BY <1>21 DEF GCFinish, CountWith
<1>22. CASE UNCHANGED vars
  BY <1>22 DEF vars
<1> QED
  BY <1>1, <1>2, <1>3, <1>4, <1>5, <1>6, <1>7, <1>8, <1>9, <1>10, <1>11, <1>12,
     <1>13, <1>14, <1>15, <1>16, <1>17, <1>18, <1>19, <1>20, <1>21, <1>22
  DEF Next, Call, Embedding

\* Every variable keeps its type; the unsigned counters stay in their range.
THEOREM TypeCorrect == Spec => []TypeOK
<1>1. TypeOK /\ [Next]_vars => TypeOK'
  BY TypeStep
<1> QED
  BY TypeInit, <1>1, PTL DEF Spec
-----------------------------------------------------------------------------
(***************************************************************************)
(* What a step does to the contexts inside requests and to their counter.  *)
(***************************************************************************)
NoYield == \A c \in Contexts : pc[c] \notin {"yield_store", "yield_lock"}

Stays == InRequest' = InRequest /\ requestCount' = requestCount
Joins(c) == /\ c \notin InRequest
            /\ InRequest' = InRequest \cup {c}
            /\ requestCount' = Inc(requestCount)
Quits(c) == /\ c \in InRequest
            /\ InRequest' = InRequest \ {c}
            /\ requestCount' = Dec(requestCount)
Counts == Stays \/ \E c \in Contexts : Joins(c) \/ Quits(c)

LEMMA NoYieldStep ==
  ASSUME "Yield" \notin Ops, TypeOK, NoYield, [Next]_vars
  PROVE  NoYield'
BY DEF NoYield, Next, Call, Embedding, vars, TypeOK, Goto, BeginRequest, EnterRequest,
  BeginNested, BeginWake, EndRequest, LeaveRequest, SuspendRequest, YieldLoad, YieldStore,
  YieldReturn, Poke, CallGC, ForceGC, NoPoke, GCElsewhere, GCStart, GCElsewhereWake,
  RequestDoneWake, MarkAndSweep, FinalizerPoke, FinalizerGC, GCRestart, GCFinish

LEMMA StepCounts ==
  ASSUME "Yield" \notin Ops, TypeOK, NoYield, [Next]_vars
  PROVE  Counts
<1> USE DEF TypeOK, InRequest, Running, Goto
<1>1. ASSUME NEW c \in Contexts, pc[c] \in {"run", "begin_wait"},
             requestDepth[c] = 0, EnterRequest(c)
      PROVE  Counts
  <2>1. CASE gcLevel > 0
    <3>1. Stays
      BY <1>1, <2>1 DEF EnterRequest, Stays
    <3> QED
      BY <3>1 DEF Counts
  <2>2. CASE ~(gcLevel > 0)
    <3>1. Joins(c)
      BY <1>1, <2>2 DEF EnterRequest, Joins
    <3> QED
      BY <3>1 DEF Counts
  <2> QED
    BY <2>1, <2>2
<1>2. ASSUME NEW c \in Contexts, BeginNested(c) PROVE Stays
  BY <1>2 DEF BeginNested, Stays
<1>3. ASSUME NEW c \in Contexts, LeaveRequest(c), requestDepth[c] = 1,
             requestCount' = Dec(requestCount)
      PROVE  Quits(c)
  BY <1>3 DEF LeaveRequest, Quits
<1>4. ASSUME NEW c \in Contexts, LeaveRequest(c), requestDepth[c] # 1,
             requestCount' = requestCount
      PROVE  Stays
  BY <1>4 DEF LeaveRequest, Stays
<1>5. ASSUME NEW c \in Contexts,
             \/ Poke(c) \/ CallGC(c) \/ ForceGC(c) \/ NoPoke(c) \/ RequestDoneWake(c)
             \/ MarkAndSweep(c) \/ FinalizerPoke(c) \/ FinalizerGC(c) \/ GCRestart(c)
      PROVE  Stays
  BY <1>5 DEF Stays, Poke, CallGC, ForceGC, NoPoke, RequestDoneWake, MarkAndSweep,
              FinalizerPoke, FinalizerGC, GCRestart
<1>6. ASSUME NEW c \in Contexts, GCElsewhere(c) \/ GCStart(c)
      PROVE  Stays \/ Quits(c)
  <2>1. /\ pc[c] = "gc_enter"
        /\ \/ pc' = [pc EXCEPT ![c] = "gc_wait_done"]
           \/ pc' = [pc EXCEPT ![c] = "gc_wait_request"]
           \/ pc' = [pc EXCEPT ![c] = "mark"]
        /\ requestCount' = CountWithout(c)
        /\ requestDepth' = requestDepth
    BY <1>6 DEF GCElsewhere, GCStart
  <2>2. CASE requestDepth[c] > 0
    BY <2>1, <2>2 DEF Quits, CountWithout
  <2>3. CASE ~(requestDepth[c] > 0)
    BY <2>1, <2>3 DEF Stays, CountWithout
  <2> QED
    BY <2>2, <2>3
<1>7. ASSUME NEW c \in Contexts, GCElsewhereWake(c) \/ GCFinish(c)
      PROVE  Stays \/ Joins(c)
  <2>1. /\ pc[c] \in {"gc_wait_done", "finalize"}
        /\ \/ UNCHANGED <<pc, requestCount>>
           \/ /\ pc' = [pc EXCEPT ![c] = "run"]
              /\ requestCount' = CountWith(c)
        /\ requestDepth' = requestDepth
    BY <1>7 DEF GCElsewhereWake, GCFinish
  <2>2. CASE UNCHANGED <<pc, requestCount>>
    BY <2>1, <2>2 DEF Stays
  <2>3. CASE requestDepth[c] > 0 /\ ~UNCHANGED <<pc, requestCount>>
    BY <2>1, <2>3 DEF Joins, CountWith
  <2>4. CASE ~(requestDepth[c] > 0) /\ ~UNCHANGED <<pc, requestCount>>
    BY <2>1, <2>4 DEF Stays, CountWith
  <2> QED
    BY <2>2, <2>3, <2>4
<1>8. CASE UNCHANGED vars
  BY <1>8 DEF vars, Stays, Counts
<1>9. ASSUME NEW c \in Contexts, BeginRequest(c) \/ BeginWake(c) PROVE Counts
  BY <1>1, <1>9 DEF BeginRequest, BeginWake
<1>10. ASSUME NEW c \in Contexts, EndRequest(c) \/ SuspendRequest(c) PROVE Counts
  BY <1>3, <1>4, <1>10 DEF EndRequest, SuspendRequest, Counts
<1>11. ASSUME NEW c \in Contexts, YieldLoad(c) \/ YieldStore(c) \/ YieldReturn(c)
       PROVE  FALSE
  BY <1>11 DEF YieldLoad, YieldStore, YieldReturn, NoYield
<1> QED
  BY <1>2, <1>5, <1>6, <1>7, <1>8, <1>9, <1>10, <1>11 DEF Next, Call, Embedding, Counts

LEMMA CountStep ==
  ASSUME TypeOK, RequestCountExact, Counts, InRequest' \subseteq Contexts
  PROVE  RequestCountExact'
<1>1. IsFiniteSet(InRequest) /\ IsFiniteSet(InRequest')
  BY GCRequestsAssumption, FS_Subset DEF InRequest
<1>2. Cardinality(InRequest') <= Cardinality(Contexts)
  BY GCRequestsAssumption, FS_Subset
<1>3. /\ Cardinality(InRequest) \in Nat
      /\ Cardinality(InRequest') \in Nat
      /\ Cardinality(Contexts) \in Nat
  BY <1>1, GCRequestsAssumption, FS_CardinalityType
<1>4. CASE Stays
  BY <1>4 DEF Stays, RequestCountExact
<1>5. ASSUME NEW c \in Contexts, Joins(c) PROVE RequestCountExact'
  <2>1. Cardinality(InRequest') = Cardinality(InRequest) + 1
    BY <1>1, <1>5, FS_AddElement DEF Joins
  <2> QED
    BY <1>2, <1>3, <1>5, <2>1, GCRequestsAssumption DEF Joins, Inc, RequestCountExact
<1>6. ASSUME NEW c \in Contexts, Quits(c) PROVE RequestCountExact'
  <2>1. Cardinality(InRequest') = Cardinality(InRequest) - 1
    BY <1>1, <1>6, FS_RemoveElement DEF Quits
  <2> QED
    BY <1>3, <1>6, <2>1 DEF Quits, Dec, RequestCountExact
<1> QED
  BY <1>4, <1>5, <1>6 DEF Counts
-----------------------------------------------------------------------------
(***************************************************************************)
(* One collector, alone.                                                   *)
(***************************************************************************)
LEMMA CollectorStep ==
  ASSUME TypeOK, CollectsAlone, [Next]_vars
  PROVE  CollectsAlone'
<1> USE DEF TypeOK, CollectsAlone, Active, Goto
<1>1. ASSUME NEW c \in Contexts, GCStart(c) PROVE CollectsAlone'
  <2>1. gcLevel = 0 /\ gcLevel' = 1 /\ pc' \in {[pc EXCEPT ![c] = "gc_wait_request"],
                                                [pc EXCEPT ![c] = "mark"]}
    BY <1>1 DEF GCStart
  <2> QED
    BY <2>1
<1>2. ASSUME NEW c \in Contexts, GCFinish(c) PROVE CollectsAlone'
  <2>1. \A d \in Contexts : pc[d] \in Active => d = c
    BY <1>2 DEF GCFinish
  <2> QED
    BY <1>2, <2>1 DEF GCFinish
<1>3. ASSUME NEW c \in Contexts,
             \/ FinalizerGC(c) \/ GCRestart(c) \/ MarkAndSweep(c) \/ RequestDoneWake(c)
      PROVE  CollectsAlone'
  <2>1. /\ gcLevel > 0 /\ gcLevel' > 0 /\ pc[c] \in Active
        /\ \/ pc' = pc
           \/ pc' = [pc EXCEPT ![c] = "mark"]
           \/ pc' = [pc EXCEPT ![c] = "finalize"]
    BY <1>3 DEF FinalizerGC, GCRestart, MarkAndSweep, RequestDoneWake
  <2> QED
    BY <2>1
<1>4. ASSUME NEW c \in Contexts,
             \/ BeginRequest(c) \/ BeginNested(c) \/ BeginWake(c) \/ EndRequest(c)
             \/ SuspendRequest(c) \/ YieldLoad(c) \/ YieldStore(c) \/ YieldReturn(c)
             \/ Poke(c) \/ CallGC(c) \/ ForceGC(c) \/ NoPoke(c) \/ GCElsewhere(c)
             \/ GCElsewhereWake(c) \/ FinalizerPoke(c)
      PROVE  CollectsAlone'
  <2>1. /\ gcLevel' = gcLevel
        /\ \/ pc' = pc
           \/ pc[c] \notin Active /\ \E to \in PCs \ Active : pc' = [pc EXCEPT ![c] = to]
    BY <1>4 DEF BeginRequest, EnterRequest, BeginNested, BeginWake, EndRequest,
      LeaveRequest, SuspendRequest, YieldLoad, YieldStore, YieldReturn, Poke, CallGC,
      ForceGC, NoPoke, GCElsewhere, GCElsewhereWake, FinalizerPoke, PCs, Running
  <2> QED
    BY <2>1
<1>5. CASE UNCHANGED vars
  BY <1>5 DEF vars
<1> QED
  BY <1>1, <1>2, <1>3, <1>4, <1>5 DEF Next, Call, Embedding

GCInv ==
  TypeOK /\ NoYield /\ RequestCountExact /\ CollectsAlone /\ MarkExclusive

LEMMA ExclusiveStep ==
  ASSUME "Yield" \notin Ops, GCInv, [Next]_vars, RequestCountExact', TypeOK'
  PROVE  MarkExclusive'
<1> USE DEF GCInv, TypeOK, Goto
<1>1. gcLevel = 0 => Collecting = {}
  BY DEF CollectsAlone, Collecting, Active
<1>2. ASSUME Collecting' \subseteq Collecting, InRequest' \subseteq InRequest
      PROVE  MarkExclusive'
  BY <1>2 DEF MarkExclusive
<1>3. ASSUME requestCount' = 0 PROVE MarkExclusive'
  <2>1. InRequest' = {}
    BY <1>3, GCRequestsAssumption, FS_Subset, FS_EmptySet DEF InRequest, RequestCountExact
  <2> QED
    BY <2>1 DEF MarkExclusive
<1>4. ASSUME Collecting' = {} PROVE MarkExclusive'
  BY <1>4 DEF MarkExclusive
<1>5. ASSUME NEW c \in Contexts, BeginRequest(c) \/ BeginWake(c) \/ GCElsewhereWake(c)
      PROVE  MarkExclusive'
  <2>1. CASE gcLevel > 0
    BY <1>2, <1>5, <2>1
    DEF BeginRequest, BeginWake, EnterRequest, GCElsewhereWake, Collecting, InRequest, Running
  <2>2. CASE ~(gcLevel > 0)
    BY <1>1, <1>4, <1>5, <2>2
    DEF BeginRequest, BeginWake, EnterRequest, GCElsewhereWake, Collecting
  <2> QED
    BY <2>1, <2>2
<1>6. ASSUME NEW c \in Contexts,
             \/ BeginNested(c) \/ EndRequest(c) \/ SuspendRequest(c) \/ Poke(c)
             \/ CallGC(c) \/ ForceGC(c) \/ NoPoke(c) \/ GCElsewhere(c)
             \/ MarkAndSweep(c) \/ FinalizerPoke(c) \/ FinalizerGC(c) \/ GCRestart(c)
      PROVE  MarkExclusive'
  BY <1>2, <1>6
  DEF BeginNested, EndRequest, LeaveRequest, SuspendRequest, Poke, CallGC, ForceGC, NoPoke,
    GCElsewhere, MarkAndSweep, FinalizerPoke, FinalizerGC, GCRestart, Collecting, InRequest,
    Running
<1>7. ASSUME NEW c \in Contexts, GCStart(c) PROVE MarkExclusive'
  <2>1. CASE CountWithout(c) > 0
    BY <1>2, <1>7, <2>1 DEF GCStart, Collecting, InRequest, Running
  <2>2. CASE ~(CountWithout(c) > 0)
    BY <1>3, <1>7, <2>2 DEF GCStart
  <2> QED
    BY <2>1, <2>2
<1>8. ASSUME NEW c \in Contexts, RequestDoneWake(c) PROVE MarkExclusive'
  <2>1. CASE requestCount > 0
    BY <1>2, <1>8, <2>1 DEF RequestDoneWake, Collecting, InRequest
  <2>2. CASE ~(requestCount > 0)
    BY <1>3, <1>8, <2>2 DEF RequestDoneWake
  <2> QED
    BY <2>1, <2>2
<1>9. ASSUME NEW c \in Contexts, GCFinish(c) PROVE MarkExclusive'
  BY <1>4, <1>9 DEF GCFinish, Collecting, CollectsAlone, Active
<1>10. ASSUME NEW c \in Contexts, YieldLoad(c) \/ YieldStore(c) \/ YieldReturn(c)
       PROVE  FALSE
  BY <1>10 DEF YieldLoad, YieldStore, YieldReturn, NoYield
<1>11. CASE UNCHANGED vars
  BY <1>2, <1>11 DEF vars, Collecting, InRequest
<1> QED
  BY <1>5, <1>6, <1>7, <1>8, <1>9, <1>10, <1>11 DEF Next, Call, Embedding

LEMMA GCInit == Init => GCInv
<1> SUFFICES ASSUME Init PROVE GCInv
  OBVIOUS
<1>1. TypeOK
  BY TypeInit
<1>2. InRequest = {} /\ Collecting = {}
  BY DEF Init, InRequest, Collecting
<1>3. RequestCountExact /\ MarkExclusive
  BY <1>2, FS_EmptySet DEF Init, RequestCountExact, MarkExclusive
<1>4. NoYield /\ CollectsAlone
  BY DEF Init, NoYield, CollectsAlone, Active
<1> QED
  BY <1>1, <1>3, <1>4 DEF GCInv

LEMMA GCStep ==
  ASSUME "Yield" \notin Ops
  PROVE  GCInv /\ [Next]_vars => GCInv'
<1> SUFFICES ASSUME GCInv, [Next]_vars PROVE GCInv'
  OBVIOUS
<1>1. TypeOK' /\ NoYield' /\ CollectsAlone'
  BY TypeStep, NoYieldStep, CollectorStep DEF GCInv
<1>2. RequestCountExact'
  <2>1. Counts /\ InRequest' \subseteq Contexts
    BY StepCounts DEF GCInv, InRequest
  <2> QED
    BY <2>1, CountStep DEF GCInv
<1>3. MarkExclusive'
  BY <1>1, <1>2, ExclusiveStep
<1> QED
  BY <1>1, <1>2, <1>3 DEF GCInv

LEMMA GCInvariant ==
  ASSUME "Yield" \notin Ops
  PROVE  Spec => []GCInv
<1>1. GCInv /\ [Next]_vars => GCInv'
  BY GCStep
<1> QED
  BY GCInit, <1>1, PTL DEF Spec

\* rt->requestCount counts the contexts inside requests.
THEOREM CountCorrect ==
  ASSUME "Yield" \notin Ops
  PROVE  Spec => []RequestCountExact
<1>1. GCInv => RequestCountExact
  BY DEF GCInv
<1> QED
  BY GCInvariant, <1>1, PTL

\* At most one context collects, and gcLevel tells, whatever calls are made.
THEOREM CollectorCorrect == Spec => []SingleCollector
<1>1. Init => SingleCollector
  BY GCInit DEF GCInv, SingleCollector
<1>2. SingleCollector /\ [Next]_vars => SingleCollector'
  BY TypeStep, CollectorStep DEF SingleCollector
<1> QED
  BY <1>1, <1>2, PTL DEF Spec

\* No context executes inside a request while another marks, sweeps, finalizes
\* or starts again.
THEOREM ExclusionCorrect ==
  ASSUME "Yield" \notin Ops
  PROVE  Spec => []MarkExclusive
<1>1. GCInv => MarkExclusive
  BY DEF GCInv
<1> QED
  BY GCInvariant, <1>1, PTL
-----------------------------------------------------------------------------
(***************************************************************************)
(* No wait is stranded.  Only the collector waits on requestDone, so that  *)
(* one notification reaches it, and every decrement of the counter but     *)
(* that of JS_SuspendRequest (and JS_YieldRequest) notifies.               *)
(***************************************************************************)
LEMMA WaiterStep ==
  ASSUME TypeOK, WaiterNotStranded, [Next]_vars
  PROVE  WaiterNotStranded'
<1> USE DEF TypeOK, WaiterNotStranded
<1>1. ASSUME NEW c \in Contexts,
             BeginRequest(c) \/ BeginWake(c) \/ GCElsewhere(c) \/ GCElsewhereWake(c)
      PROVE  WaiterNotStranded'
  BY <1>1 DEF BeginRequest, BeginWake, EnterRequest, GCElsewhere, GCElsewhereWake
<1>2. ASSUME NEW c \in Contexts,
             GCStart(c) \/ GCFinish(c) \/ GCRestart(c) \/ FinalizerGC(c)
      PROVE  WaiterNotStranded'
  BY <1>2 DEF GCStart, GCFinish, GCRestart, FinalizerGC
<1>3. ASSUME NEW c \in Contexts,
             \/ BeginNested(c) \/ EndRequest(c) \/ SuspendRequest(c) \/ YieldLoad(c)
             \/ YieldStore(c) \/ YieldReturn(c) \/ Poke(c) \/ CallGC(c) \/ ForceGC(c)
             \/ NoPoke(c) \/ RequestDoneWake(c) \/ MarkAndSweep(c) \/ FinalizerPoke(c)
      PROVE  UNCHANGED <<gcDone, gcLevel>>
  BY <1>3 DEF BeginNested, EndRequest, LeaveRequest, SuspendRequest, YieldLoad, YieldStore,
    YieldReturn, Poke, CallGC, ForceGC, NoPoke, RequestDoneWake, MarkAndSweep, FinalizerPoke
<1>4. CASE UNCHANGED vars
  BY <1>4 DEF vars
<1> QED
  BY <1>1, <1>2, <1>3, <1>4 DEF Next, Call, Embedding

\* A context waits for gcDone only while there is a collection to end.
THEOREM WaiterCorrect == Spec => []WaiterNotStranded
<1>1. Init => TypeOK /\ WaiterNotStranded
  BY TypeInit DEF Init, WaiterNotStranded
<1>2. (TypeOK /\ WaiterNotStranded) /\ [Next]_vars => (TypeOK /\ WaiterNotStranded)'
  BY TypeStep, WaiterStep
<1> QED
  BY <1>1, <1>2, PTL DEF Spec

OnlyCollectorWaits == requestDone \subseteq {c \in Contexts : pc[c] = "gc_wait_request"}

StrandInv == GCInv /\ OnlyCollectorWaits /\ CollectorNotStranded

\* One notification empties the queue.
LEMMA NotifyEmpties ==
  ASSUME TypeOK, CollectsAlone, OnlyCollectorWaits, NEW added,
         NotifyRequestDone(added)
  PROVE  requestDone' = added
<1>1. \A c, d \in requestDone : c = d
  BY DEF OnlyCollectorWaits, CollectsAlone, Active
<1> QED
  BY <1>1 DEF NotifyRequestDone

LEMMA StrandStep ==
  ASSUME "Yield" \notin Ops, "Suspend" \notin Ops, StrandInv, [Next]_vars, GCInv'
  PROVE  OnlyCollectorWaits' /\ CollectorNotStranded'
<1> USE DEF StrandInv, GCInv, TypeOK, Goto, OnlyCollectorWaits, CollectorNotStranded
<1>1. gcLevel = 0 => requestDone = {}
  BY DEF CollectsAlone, Active
<1>2. ASSUME requestDone' = {} PROVE OnlyCollectorWaits' /\ CollectorNotStranded'
  BY <1>2
<1>3. ASSUME NEW c \in Contexts,
             BeginRequest(c) \/ BeginWake(c) \/ GCElsewhereWake(c) \/ GCFinish(c)
      PROVE  OnlyCollectorWaits' /\ CollectorNotStranded'
  <2>1. CASE UNCHANGED requestCount
    <3>1. requestDone' = requestDone /\ pc[c] # "gc_wait_request"
      BY <1>3 DEF BeginRequest, BeginWake, EnterRequest, GCElsewhereWake, GCFinish
    <3>2. \A d \in Contexts : pc[d] = "gc_wait_request" => pc'[d] = "gc_wait_request"
      BY <1>3, <3>1 DEF BeginRequest, BeginWake, EnterRequest, GCElsewhereWake, GCFinish
    <3> QED
      BY <2>1, <3>1, <3>2
  <2>2. CASE ~UNCHANGED requestCount /\ ~GCFinish(c)
    <3>1. gcLevel = 0 /\ requestDone' = requestDone
      BY <1>3, <2>2 DEF BeginRequest, BeginWake, EnterRequest, GCElsewhereWake
    <3> QED
      BY <1>1, <1>2, <3>1
  <2>3. CASE GCFinish(c)
    <3>1. requestDone = {} /\ requestDone' = requestDone
      BY <2>3 DEF GCFinish, CollectsAlone, Active
    <3> QED
      BY <1>2, <3>1
  <2> QED
    BY <2>1, <2>2, <2>3
<1>4. ASSUME NEW c \in Contexts, EndRequest(c)
      PROVE  OnlyCollectorWaits' /\ CollectorNotStranded'
  <2>1. CASE requestDepth[c] = 1
    BY <1>2, <1>4, <2>1, NotifyEmpties DEF EndRequest
  <2>2. CASE requestDepth[c] # 1
    BY <1>4, <2>2 DEF EndRequest, LeaveRequest
  <2> QED
    BY <2>1, <2>2
<1>5. ASSUME NEW c \in Contexts, GCElsewhere(c)
      PROVE  OnlyCollectorWaits' /\ CollectorNotStranded'
  <2>1. CASE requestDepth[c] > 0
    BY <1>2, <1>5, <2>1, NotifyEmpties DEF GCElsewhere, Indicate
  <2>2. CASE ~(requestDepth[c] > 0)
    <3>1. requestDone' = requestDone /\ requestCount' = requestCount
      BY <1>5, <2>2 DEF GCElsewhere, Indicate, CountWithout
    <3> QED
      BY <1>5, <3>1 DEF GCElsewhere
  <2> QED
    BY <2>1, <2>2
<1>6. ASSUME NEW c \in Contexts, GCStart(c)
      PROVE  OnlyCollectorWaits' /\ CollectorNotStranded'
  <2>1. requestDone' = IF CountWithout(c) > 0 THEN {c} ELSE {}
    BY <1>1, <1>6, NotifyEmpties DEF GCStart, Indicate
  <2> QED
    BY <1>6, <2>1 DEF GCStart
<1>7. ASSUME NEW c \in Contexts, RequestDoneWake(c)
      PROVE  OnlyCollectorWaits' /\ CollectorNotStranded'
  BY <1>7 DEF RequestDoneWake, CollectsAlone, Active
<1>8. ASSUME NEW c \in Contexts,
             \/ BeginNested(c) \/ Poke(c) \/ CallGC(c) \/ ForceGC(c) \/ NoPoke(c)
             \/ MarkAndSweep(c) \/ FinalizerPoke(c) \/ FinalizerGC(c) \/ GCRestart(c)
      PROVE  OnlyCollectorWaits' /\ CollectorNotStranded'
  BY <1>8 DEF BeginNested, Poke, CallGC, ForceGC, NoPoke, MarkAndSweep, FinalizerPoke,
    FinalizerGC, GCRestart
<1>9. ASSUME NEW c \in Contexts,
             SuspendRequest(c) \/ YieldLoad(c) \/ YieldStore(c) \/ YieldReturn(c)
      PROVE  FALSE
  BY <1>9 DEF SuspendRequest, YieldLoad, YieldStore, YieldReturn, NoYield
<1>10. CASE UNCHANGED vars
  BY <1>10 DEF vars
<1> QED
  BY <1>3, <1>4, <1>5, <1>6, <1>7, <1>8, <1>9, <1>10 DEF Next, Call, Embedding

\* A collector waits for requestDone only while a request runs.
THEOREM StrandCorrect ==
  ASSUME "Yield" \notin Ops, "Suspend" \notin Ops
  PROVE  Spec => []CollectorNotStranded
<1>1. Init => StrandInv
  BY GCInit DEF Init, StrandInv, OnlyCollectorWaits, CollectorNotStranded
<1>2. StrandInv /\ [Next]_vars => StrandInv'
  BY GCStep, StrandStep DEF StrandInv
<1>3. StrandInv => CollectorNotStranded
  BY DEF StrandInv
<1> QED
  BY <1>1, <1>2, <1>3, PTL DEF Spec
-----------------------------------------------------------------------------
(***************************************************************************)
(* The calls implement StopTheWorld.                                       *)
(***************************************************************************)
LEMMA OneCollector ==
  ASSUME NEW S \in SUBSET Contexts, \A c, d \in S : c = d,
         NEW who, who = IF S = {} THEN NoContext ELSE CHOOSE c \in S : TRUE
  PROVE  /\ who = NoContext <=> S = {}
         /\ \A c \in S : who = c
<1>1. ASSUME NEW c \in S PROVE who = c /\ c # NoContext
  <2>1. (CHOOSE d \in S : TRUE) \in S
    BY <1>1
  <2> QED
    BY <1>1, <2>1, GCRequestsAssumption
<1> QED
  BY <1>1

StopStep == [Abstract!Next]_<<InRequest, Collector>>

LEMMA RefineStep ==
  ASSUME "Yield" \notin Ops, GCInv, GCInv', [Next]_vars
  PROVE  StopStep
<1> USE DEF GCInv, TypeOK, Goto
<1> USE DEF StopStep, Abstract!Next, Abstract!Enter, Abstract!Leave, Abstract!Collect,
            Abstract!Finish
<1>1. /\ Collector = NoContext <=> Collecting = {}
      /\ \A c \in Collecting : Collector = c
      /\ Collector' = NoContext <=> Collecting' = {}
      /\ \A c \in Collecting' : Collector' = c
  <2>1. /\ Collecting \in SUBSET Contexts
        /\ \A c, d \in Collecting : c = d
        /\ Collecting' \in SUBSET Contexts
        /\ \A c, d \in Collecting' : c = d
    BY DEF CollectsAlone, Active, Collecting
  <2>2. Collector = IF Collecting = {} THEN NoContext ELSE CHOOSE c \in Collecting : TRUE
    BY DEF Collector
  <2>3. Collector' = IF Collecting' = {} THEN NoContext ELSE CHOOSE c \in Collecting' : TRUE
    BY DEF Collector
  <2> QED
    BY <2>1, <2>2, <2>3, OneCollector
<1> HIDE DEF GCInv, TypeOK
<1>2. gcLevel = 0 => Collecting = {}
  BY DEF GCInv, TypeOK, CollectsAlone, Collecting, Active
<1>3. Counts
  BY StepCounts DEF GCInv
<1>4. ASSUME NEW c \in Contexts, Collecting' = {}, Collecting = {c}, GCFinish(c)
      PROVE  StopStep
  <2>1. Collector = c /\ Collector' = NoContext
    BY <1>1, <1>4
  <2>2. InRequest' \in {InRequest, InRequest \cup {c}}
    BY <1>4 DEF GCFinish, InRequest, GCInv, TypeOK, Running
  <2> QED
    BY <2>1, <2>2
<1>5. ASSUME NEW c \in Contexts, Collecting = {}, Collecting' = {c},
             InRequest \subseteq {c}, InRequest' = {}
      PROVE  StopStep
  <2>1. Collector = NoContext /\ Collector' = c
    BY <1>1, <1>5
  <2> QED
    BY <1>5, <2>1
<1>6. ASSUME Collecting' = Collecting,
             \/ InRequest' = InRequest
             \/ \E c \in Contexts : InRequest' = InRequest \ {c}
             \/ Collecting = {} /\ \E c \in Contexts : InRequest' = InRequest \cup {c}
      PROVE  StopStep
  <2>1. Collector' = Collector
    BY <1>6 DEF Collector
  <2> QED
    BY <1>1, <1>6, <2>1
<1>7. ASSUME NEW c \in Contexts, BeginRequest(c) \/ BeginWake(c) \/ GCElsewhereWake(c)
      PROVE  StopStep
  <2>1. Collecting' = Collecting
    BY <1>7 DEF BeginRequest, BeginWake, EnterRequest, GCElsewhereWake, Collecting, GCInv,
      TypeOK
  <2>2. CASE gcLevel > 0
    <3>1. InRequest' = InRequest
      BY <1>7, <2>2 DEF BeginRequest, BeginWake, EnterRequest, GCElsewhereWake, InRequest,
        GCInv, TypeOK, Running
    <3> QED
      BY <1>6, <2>1, <3>1
  <2>3. CASE ~(gcLevel > 0)
    <3>1. Collecting = {}
      BY <1>2, <2>3 DEF GCInv, TypeOK
    <3>2. \/ InRequest' = InRequest
          \/ InRequest' = InRequest \cup {c}
      BY <1>7, <2>3 DEF BeginRequest, BeginWake, EnterRequest, GCElsewhereWake, InRequest,
        GCInv, TypeOK, Running
    <3> QED
      BY <1>6, <2>1, <3>1, <3>2
  <2> QED
    BY <2>2, <2>3
<1>8. ASSUME NEW c \in Contexts,
             \/ BeginNested(c) \/ EndRequest(c) \/ SuspendRequest(c) \/ Poke(c)
             \/ CallGC(c) \/ ForceGC(c) \/ NoPoke(c) \/ GCElsewhere(c)
             \/ MarkAndSweep(c) \/ FinalizerPoke(c) \/ FinalizerGC(c) \/ GCRestart(c)
      PROVE  StopStep
  <2>1. Collecting' = Collecting
    BY <1>8 DEF BeginNested, EndRequest, LeaveRequest, SuspendRequest, Poke, CallGC, ForceGC,
      NoPoke, GCElsewhere, MarkAndSweep, FinalizerPoke, FinalizerGC, GCRestart, Collecting,
      GCInv, TypeOK
  <2>2. InRequest' = InRequest \/ InRequest' = InRequest \ {c}
    BY <1>8 DEF BeginNested, EndRequest, LeaveRequest, SuspendRequest, Poke, CallGC, ForceGC,
      NoPoke, GCElsewhere, MarkAndSweep, FinalizerPoke, FinalizerGC, GCRestart, InRequest,
      GCInv, TypeOK, Running
  <2> QED
    BY <1>6, <2>1, <2>2
<1>9. ASSUME NEW c \in Contexts, GCStart(c)
      PROVE  StopStep
  <2>1. InRequest' = InRequest \ {c}
    BY <1>9 DEF GCStart, InRequest, GCInv, TypeOK, Running
  <2>2. Collecting = {}
    BY <1>2, <1>9 DEF GCStart
  <2>3. CASE CountWithout(c) > 0
    <3>1. Collecting' = Collecting
      BY <1>9, <2>3 DEF GCStart, Collecting, GCInv, TypeOK
    <3> QED
      BY <1>6, <2>1, <3>1
  <2>4. CASE ~(CountWithout(c) > 0)
    <3>1. Collecting' = {c}
      BY <1>9, <2>2, <2>4 DEF GCStart, Collecting, GCInv, TypeOK
    <3>2. InRequest' = {}
      BY <3>1 DEF GCInv, MarkExclusive
    <3> QED
      BY <1>5, <2>1, <2>2, <3>1, <3>2
  <2> QED
    BY <2>3, <2>4
<1>10. ASSUME NEW c \in Contexts, RequestDoneWake(c)
       PROVE  StopStep
  <2>1. InRequest' = InRequest
    BY <1>10 DEF RequestDoneWake, InRequest, GCInv, TypeOK, Running
  <2>2. Collecting = {}
    BY <1>10 DEF RequestDoneWake, GCInv, CollectsAlone, Active, Collecting
  <2>3. CASE requestCount > 0
    <3>1. Collecting' = Collecting
      BY <1>10, <2>3 DEF RequestDoneWake, Collecting
    <3> QED
      BY <1>6, <2>1, <3>1
  <2>4. CASE ~(requestCount > 0)
    <3>1. Collecting' = {c}
      BY <1>10, <2>2, <2>4 DEF RequestDoneWake, Collecting, GCInv, TypeOK
    <3>2. InRequest' = {}
      BY <3>1 DEF GCInv, MarkExclusive
    <3> QED
      BY <1>5, <2>1, <2>2, <3>1, <3>2
  <2> QED
    BY <2>3, <2>4
<1>11. ASSUME NEW c \in Contexts, GCFinish(c)
       PROVE  StopStep
  <2>1. Collecting = {c} /\ Collecting' = {}
    BY <1>11 DEF GCFinish, Collecting, GCInv, TypeOK, CollectsAlone, Active
  <2> QED
    BY <1>4, <1>11, <2>1
<1>12. ASSUME NEW c \in Contexts, YieldLoad(c) \/ YieldStore(c) \/ YieldReturn(c)
       PROVE  FALSE
  BY <1>12 DEF YieldLoad, YieldStore, YieldReturn, NoYield, GCInv
<1>13. CASE UNCHANGED vars
  BY <1>6, <1>13 DEF vars, Collecting, InRequest
<1> QED
  BY <1>7, <1>8, <1>9, <1>10, <1>11, <1>12, <1>13 DEF Next, Call, Embedding

\* The request model keeps its promise: the world is stopped for a collection.
THEOREM StopTheWorldRefinement ==
  ASSUME "Yield" \notin Ops
  PROVE  Spec => ImplementsStopTheWorld
<1>1. Init => InRequest = {} /\ Collector = NoContext
  BY DEF Init, InRequest, Collector, Collecting
<1>2. GCInv /\ GCInv' /\ [Next]_vars => StopStep
  BY RefineStep
<1> QED
  BY <1>1, <1>2, GCInvariant, PTL
  DEF Spec, StopStep, Collector, Abstract!Spec, Abstract!Init, ImplementsStopTheWorld
=============================================================================
