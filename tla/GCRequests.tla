----------------------------- MODULE GCRequests -----------------------------
(***************************************************************************)
(* Requests and the garbage collector (jsapi.c, jsgc.c): JS_BeginRequest,  *)
(* JS_EndRequest, JS_SuspendRequest, JS_ResumeRequest, JS_YieldRequest,    *)
(* js_ForceGC and js_GC, on contexts that run in threads of their own.     *)
(*                                                                         *)
(* All of it is synchronised by rt->gcLock and its condition variables     *)
(* gcDone and requestDone.  A critical section of gcLock is one step; only *)
(* the mark and sweep phases, which keep the lock, span more than one.     *)
(* JS_YieldRequest does not take the lock for its decrement: its load and  *)
(* its store are separate steps.                                           *)
(***************************************************************************)
EXTENDS Integers, FiniteSets

CONSTANTS
  Contexts,  \* the JSContexts, each with its thread
  NoContext, \* nobody collects
  Ops,       \* which of the optional calls the embedding makes
  MaxDepth,  \* bound of cx->requestDepth
  MaxLevel,  \* bound of rt->gcLevel
  MaxCount   \* largest value of the unsigned rt->requestCount

ASSUME GCRequestsAssumption ==
  /\ IsFiniteSet(Contexts)
  /\ NoContext \notin Contexts
  /\ Ops \subseteq {"Suspend", "Yield", "Finalizer"}
  /\ MaxDepth \in Nat \ {0}
  /\ MaxLevel \in Nat \ {0}
  /\ MaxCount \in Nat
  /\ Cardinality(Contexts) <= MaxCount

VARIABLES
  gcLevel,         \* rt->gcLevel
  gcPoke,          \* rt->gcPoke
  requestCount,    \* rt->requestCount
  gcDone,          \* the contexts in PR_WaitCondVar(rt->gcDone)
  requestDone,     \* the contexts in PR_WaitCondVar(rt->requestDone)
  requestDepth,    \* cx->requestDepth
  pc,              \* where each context's thread is
  loaded           \* the requestCount that JS_YieldRequest has loaded

vars == <<gcLevel, gcPoke, requestCount, gcDone, requestDone, requestDepth, pc, loaded>>
-----------------------------------------------------------------------------
\* Points outside js_GC and of js_GC before it has the lock, where a context
\* whose requestDepth is not 0 executes inside its request.
Running == {"run", "gc_enter", "yield_store"}

\* Points of js_GC between gcLevel = 1 and gcLevel = 0: cx->gcActive.
Active == {"gc_wait_request", "mark", "finalize"}

PCs == Running \cup Active \cup {"begin_wait", "gc_wait_done", "yield_lock"}

TypeOK ==
  /\ gcLevel \in 0..MaxLevel
  /\ gcPoke \in BOOLEAN
  /\ requestCount \in 0..MaxCount
  /\ gcDone \in SUBSET Contexts
  /\ requestDone \in SUBSET Contexts
  /\ requestDepth \in [Contexts -> 0..MaxDepth]
  /\ pc \in [Contexts -> PCs]
  /\ \A c \in Contexts : pc[c] = "begin_wait" => requestDepth[c] = 0
  /\ loaded \in [Contexts -> 0..MaxCount]

Init ==
  /\ gcLevel = 0
  /\ gcPoke = FALSE
  /\ requestCount = 0
  /\ gcDone = {}
  /\ requestDone = {}
  /\ requestDepth = [c \in Contexts |-> 0]
  /\ pc = [c \in Contexts |-> "run"]
  /\ loaded = [c \in Contexts |-> 0]

Goto(c, from, to) == pc[c] = from /\ pc' = [pc EXCEPT ![c] = to]

\* The contexts that rt->requestCount is meant to count.
InRequest == {c \in Contexts : requestDepth[c] > 0 /\ pc[c] \in Running}
Collecting == {c \in Contexts : pc[c] \in {"mark", "finalize"}}

\* JS_LOCK_GC succeeds: nobody marks or sweeps.
LockFree == \A c \in Contexts : pc[c] # "mark"

\* uint32 arithmetic.
Inc(n) == IF n = MaxCount THEN 0 ELSE n + 1
Dec(n) == IF n = 0 THEN MaxCount ELSE n - 1

\* JS_NOTIFY_REQUEST_DONE wakes one of the waiters; also adds the caller as a
\* waiter when it goes on to wait.
NotifyRequestDone(added) ==
  \/ /\ requestDone = {}
     /\ requestDone' = added
  \/ \E w \in requestDone : requestDone' = (requestDone \ {w}) \cup added
-----------------------------------------------------------------------------
(***************************************************************************)
(* JS_BeginRequest and JS_ResumeRequest, which have the same body.         *)
(***************************************************************************)
EnterRequest(c) ==
  /\ LockFree
  /\ IF gcLevel > 0
     THEN /\ pc' = [pc EXCEPT ![c] = "begin_wait"]
          /\ gcDone' = gcDone \cup {c}
          /\ UNCHANGED <<requestCount, requestDepth>>
     ELSE /\ pc' = [pc EXCEPT ![c] = "run"]
          /\ requestCount' = Inc(requestCount)
          /\ requestDepth' = [requestDepth EXCEPT ![c] = @ + 1]
          /\ UNCHANGED gcDone
  /\ UNCHANGED <<gcLevel, gcPoke, requestDone, loaded>>

BeginRequest(c) ==
  /\ pc[c] = "run"
  /\ requestDepth[c] = 0
  /\ EnterRequest(c)

BeginNested(c) ==
  /\ pc[c] = "run"
  /\ requestDepth[c] \in 1..(MaxDepth - 1)
  /\ requestDepth' = [requestDepth EXCEPT ![c] = @ + 1]
  /\ UNCHANGED <<gcLevel, gcPoke, requestCount, gcDone, requestDone, pc, loaded>>

\* Mutant: the wait loop is an if.
BeginWakeOnce(c) ==
  /\ Goto(c, "begin_wait", "run")
  /\ c \notin gcDone
  /\ LockFree
  /\ requestCount' = Inc(requestCount)
  /\ requestDepth' = [requestDepth EXCEPT ![c] = @ + 1]
  /\ UNCHANGED <<gcLevel, gcPoke, gcDone, requestDone, loaded>>

BeginWake(c) ==
  /\ pc[c] = "begin_wait"
  /\ c \notin gcDone
  /\ EnterRequest(c)

(***************************************************************************)
(* JS_EndRequest; JS_SuspendRequest, which does not notify; and            *)
(* JS_YieldRequest, which decrements, notifies and unlocks without the     *)
(* lock (a PR_Unlock by a thread that is not the owner fails and changes   *)
(* nothing), then locks, increments and unlocks.                           *)
(***************************************************************************)
LeaveRequest(c) ==
  /\ pc[c] = "run"
  /\ requestDepth[c] > 0
  /\ requestDepth' = [requestDepth EXCEPT ![c] = @ - 1]
  /\ UNCHANGED <<gcLevel, gcPoke, gcDone, pc, loaded>>

EndRequest(c) ==
  /\ LeaveRequest(c)
  /\ IF requestDepth[c] = 1
     THEN /\ LockFree
          /\ requestCount' = Dec(requestCount)
          /\ NotifyRequestDone({})
     ELSE UNCHANGED <<requestCount, requestDone>>

SuspendRequest(c) ==
  /\ "Suspend" \in Ops
  /\ LeaveRequest(c)
  /\ IF requestDepth[c] = 1
     THEN LockFree /\ requestCount' = Dec(requestCount)
     ELSE UNCHANGED requestCount
  /\ UNCHANGED requestDone

YieldLoad(c) ==
  /\ "Yield" \in Ops
  /\ Goto(c, "run", "yield_store")
  /\ requestDepth[c] > 0
  /\ loaded' = [loaded EXCEPT ![c] = requestCount]
  /\ UNCHANGED <<gcLevel, gcPoke, requestCount, gcDone, requestDone, requestDepth>>

YieldStore(c) ==
  /\ Goto(c, "yield_store", "yield_lock")
  /\ requestCount' = Dec(loaded[c])
  /\ NotifyRequestDone({})
  /\ loaded' = [loaded EXCEPT ![c] = 0]
  /\ UNCHANGED <<gcLevel, gcPoke, gcDone, requestDepth>>

YieldReturn(c) ==
  /\ Goto(c, "yield_lock", "run")
  /\ LockFree
  /\ requestCount' = Inc(requestCount)
  /\ UNCHANGED <<gcLevel, gcPoke, gcDone, requestDone, requestDepth, loaded>>
-----------------------------------------------------------------------------
(***************************************************************************)
(* js_GC.  It is called by js_AllocGCThing and the embedding (CallGC), and *)
(* by js_ForceGC, which sets gcPoke before.  Assignments inside a request  *)
(* set gcPoke (GC_POKE).  A JSGC_BEGIN callback that vetoes, and           *)
(* cx->gcDisabled, are a call that is not made.                            *)
(***************************************************************************)
Poke(c) ==
  /\ pc[c] = "run"
  /\ requestDepth[c] > 0
  /\ gcPoke' = TRUE
  /\ UNCHANGED <<gcLevel, requestCount, gcDone, requestDone, requestDepth, pc, loaded>>

CallGC(c) ==
  /\ Goto(c, "run", "gc_enter")
  /\ UNCHANGED <<gcLevel, gcPoke, requestCount, gcDone, requestDone, requestDepth, loaded>>

ForceGC(c) ==
  /\ Goto(c, "run", "gc_enter")
  /\ gcPoke' = TRUE
  /\ UNCHANGED <<gcLevel, requestCount, gcDone, requestDone, requestDepth, loaded>>

NoPoke(c) ==
  /\ Goto(c, "gc_enter", "run")
  /\ LockFree
  /\ ~gcPoke
  /\ UNCHANGED <<gcLevel, gcPoke, requestCount, gcDone, requestDone, requestDepth, loaded>>

\* The request of the caller does not count while it collects or waits.
CountWithout(c) == IF requestDepth[c] > 0 THEN Dec(requestCount) ELSE requestCount
CountWith(c) == IF requestDepth[c] > 0 THEN Inc(requestCount) ELSE requestCount

Indicate(c, added) ==
  IF requestDepth[c] > 0
  THEN NotifyRequestDone(added)
  ELSE requestDone' = requestDone \cup added

\* Mutant: the collector that waits is not told.
GCElsewhereSilent(c) ==
  /\ Goto(c, "gc_enter", "gc_wait_done")
  /\ LockFree
  /\ gcPoke
  /\ gcPoke' = FALSE
  /\ gcLevel > 0
  /\ requestCount' = CountWithout(c)
  /\ gcDone' = gcDone \cup {c}
  /\ UNCHANGED <<gcLevel, requestDone, requestDepth, loaded>>

\* Another thread is already in GC: wait for it instead.
GCElsewhere(c) ==
  /\ Goto(c, "gc_enter", "gc_wait_done")
  /\ LockFree
  /\ gcPoke
  /\ gcPoke' = FALSE
  /\ gcLevel > 0
  /\ requestCount' = CountWithout(c)
  /\ Indicate(c, {})
  /\ gcDone' = gcDone \cup {c}
  /\ UNCHANGED <<gcLevel, requestDepth, loaded>>

\* Mutant: another thread's collection is not looked for.
GCStartAnyway(c) ==
  LET wait == CountWithout(c) > 0 IN
  /\ Goto(c, "gc_enter", IF wait THEN "gc_wait_request" ELSE "mark")
  /\ LockFree
  /\ gcPoke
  /\ gcPoke' = FALSE
  /\ gcLevel' = 1
  /\ requestCount' = CountWithout(c)
  /\ Indicate(c, IF wait THEN {c} ELSE {})
  /\ UNCHANGED <<gcDone, requestDepth, loaded>>

GCStart(c) ==
  LET wait == CountWithout(c) > 0 IN
  /\ Goto(c, "gc_enter", IF wait THEN "gc_wait_request" ELSE "mark")
  /\ LockFree
  /\ gcPoke
  /\ gcPoke' = FALSE
  /\ gcLevel = 0
  /\ gcLevel' = 1
  /\ requestCount' = CountWithout(c)
  /\ Indicate(c, IF wait THEN {c} ELSE {})
  /\ UNCHANGED <<gcDone, requestDepth, loaded>>

\* Mutant: the request is not counted again on return.
GCElsewhereUncounted(c) ==
  /\ Goto(c, "gc_wait_done", "run")
  /\ c \notin gcDone
  /\ LockFree
  /\ gcLevel = 0
  /\ UNCHANGED <<gcLevel, gcPoke, requestCount, gcDone, requestDone, requestDepth, loaded>>

GCElsewhereWake(c) ==
  /\ pc[c] = "gc_wait_done"
  /\ c \notin gcDone
  /\ LockFree
  /\ IF gcLevel > 0
     THEN gcDone' = gcDone \cup {c} /\ UNCHANGED <<requestCount, pc>>
     ELSE /\ requestCount' = CountWith(c)
          /\ pc' = [pc EXCEPT ![c] = "run"]
          /\ UNCHANGED gcDone
  /\ UNCHANGED <<gcLevel, gcPoke, requestDone, requestDepth, loaded>>

\* Mutant: the wait loop is an if.
RequestDoneOnce(c) ==
  /\ Goto(c, "gc_wait_request", "mark")
  /\ c \notin requestDone
  /\ LockFree
  /\ UNCHANGED <<gcLevel, gcPoke, requestCount, gcDone, requestDone, requestDepth, loaded>>

RequestDoneWake(c) ==
  /\ pc[c] = "gc_wait_request"
  /\ c \notin requestDone
  /\ LockFree
  /\ IF requestCount > 0
     THEN requestDone' = requestDone \cup {c} /\ UNCHANGED pc
     ELSE pc' = [pc EXCEPT ![c] = "mark"] /\ UNCHANGED requestDone
  /\ UNCHANGED <<gcLevel, gcPoke, requestCount, gcDone, requestDepth, loaded>>

\* The finalize phase runs without the lock.
MarkAndSweep(c) ==
  /\ Goto(c, "mark", "finalize")
  /\ UNCHANGED <<gcLevel, gcPoke, requestCount, gcDone, requestDone, requestDepth, loaded>>

\* A finalizer assigns, or calls js_GC on the collecting context.
FinalizerPoke(c) ==
  /\ "Finalizer" \in Ops
  /\ pc[c] = "finalize"
  /\ gcPoke' = TRUE
  /\ UNCHANGED <<gcLevel, requestCount, gcDone, requestDone, requestDepth, pc, loaded>>

FinalizerGC(c) ==
  /\ "Finalizer" \in Ops
  /\ pc[c] = "finalize"
  /\ LockFree
  /\ gcPoke
  /\ gcPoke' = FALSE
  /\ gcLevel < MaxLevel
  /\ gcLevel' = gcLevel + 1
  /\ UNCHANGED <<requestCount, gcDone, requestDone, requestDepth, pc, loaded>>

\* Mutant: the level of the collection itself counts as a nested call.
GCRestartAlways(c) ==
  /\ Goto(c, "finalize", "mark")
  /\ LockFree
  /\ gcLevel > 0
  /\ gcLevel' = 1
  /\ UNCHANGED <<gcPoke, requestCount, gcDone, requestDone, requestDepth, loaded>>

\* The freelist is rebuilt; a nested call makes the collector start again.
GCRestart(c) ==
  /\ Goto(c, "finalize", "mark")
  /\ LockFree
  /\ gcLevel > 1
  /\ gcLevel' = 1
  /\ UNCHANGED <<gcPoke, requestCount, gcDone, requestDone, requestDepth, loaded>>

\* Mutant: one waiter is notified, not all of them.
GCFinishNotifyOne(c) ==
  /\ Goto(c, "finalize", "run")
  /\ LockFree
  /\ gcLevel <= 1
  /\ gcLevel' = 0
  /\ requestCount' = CountWith(c)
  /\ \/ gcDone = {} /\ gcDone' = {}
     \/ \E w \in gcDone : gcDone' = gcDone \ {w}
  /\ UNCHANGED <<gcPoke, requestDone, requestDepth, loaded>>

GCFinish(c) ==
  /\ Goto(c, "finalize", "run")
  /\ LockFree
  /\ gcLevel <= 1
  /\ gcLevel' = 0
  /\ requestCount' = CountWith(c)
  /\ gcDone' = {}
  /\ UNCHANGED <<gcPoke, requestDone, requestDepth, loaded>>
-----------------------------------------------------------------------------
\* Steps a thread inside one of the calls takes without more ado.
Call(c) ==
  \/ BeginWake(c) \/ YieldStore(c) \/ YieldReturn(c)
  \/ NoPoke(c) \/ GCElsewhere(c) \/ GCStart(c) \/ GCElsewhereWake(c)
  \/ RequestDoneWake(c) \/ MarkAndSweep(c) \/ GCRestart(c) \/ GCFinish(c)

\* Steps the embedding and the scripts it runs choose to take.
Embedding(c) ==
  \/ BeginRequest(c) \/ BeginNested(c) \/ EndRequest(c) \/ SuspendRequest(c)
  \/ YieldLoad(c) \/ Poke(c) \/ CallGC(c) \/ ForceGC(c)
  \/ FinalizerPoke(c) \/ FinalizerGC(c)

Next == \E c \in Contexts : Call(c) \/ Embedding(c)

Spec == Init /\ [][Next]_vars

(***************************************************************************)
(* Fairness: threads run, gcLock is granted to a thread that keeps asking, *)
(* and the embedding ends every request, at whatever depth.                *)
(***************************************************************************)
Fairness ==
  \A c \in Contexts :
    /\ SF_vars(Call(c))
    /\ \A n \in 1..MaxDepth : SF_vars(EndRequest(c) /\ requestDepth[c] = n)

FairSpec == Spec /\ Fairness
-----------------------------------------------------------------------------
\* "Wait for all other requests to finish." (jsgc.c:696) and "Wait until the
\* GC is finished." (jsapi.c:467): while a context marks, sweeps or finalizes,
\* restarts included, no context executes inside a request, if nobody calls
\* JS_YieldRequest.
MarkExclusive == Collecting # {} => InRequest = {}

\* rt->requestCount counts the contexts that execute inside a request, also
\* while collectors take themselves out of it and put themselves back, if
\* nobody calls JS_YieldRequest.
RequestCountExact == requestCount = Cardinality(InRequest)

\* At most one context collects, and rt->gcLevel says whether one does.
CollectsAlone ==
  /\ gcLevel > 0 <=> \E c \in Contexts : pc[c] \in Active
  /\ \A c, d \in Contexts : pc[c] \in Active /\ pc[d] \in Active => c = d

\* Type correctness and one collector: whatever calls are made, the counters
\* keep their bounds and nobody collects beside another.
SingleCollector == TypeOK /\ CollectsAlone

\* A collector sleeps on requestDone only while a request runs that will end
\* and notify it (jsgc.c:696): the notification for the last one is not lost,
\* if nobody calls JS_SuspendRequest or JS_YieldRequest.
CollectorNotStranded == requestDone # {} => requestCount > 0

\* A context sleeps on gcDone only while a collection is under way whose end
\* will wake it.
WaiterNotStranded == gcDone # {} => gcLevel > 0

\* Every collection ends, whatever requests run when it starts, when the
\* embedding ends its requests.
CollectionEnds == \A c \in Contexts : pc[c] \in Active ~> pc[c] \notin Active

\* The calls implement the stop-the-world promise.
Collector == IF Collecting = {} THEN NoContext ELSE CHOOSE c \in Collecting : TRUE
Abstract == INSTANCE StopTheWorld WITH running <- InRequest, collector <- Collector
ImplementsStopTheWorld == Abstract!Spec
=============================================================================
