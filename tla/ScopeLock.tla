------------------------------ MODULE ScopeLock ------------------------------
(***************************************************************************)
(* Objects and the scopes they lock (jslock.c, jsscope.c, jsobj.c):        *)
(* js_LockObj and js_UnlockObj with the reentrant scope locks under them,  *)
(* the fast path of js_GetSlotWhileLocked and js_SetSlotWhileLocked,       *)
(* js_GetMutableScope, which gives an object that shares its prototype's   *)
(* scope one of its own and transfers the lock, js_NewObject, which shares *)
(* the prototype's scope, and js_FinalizeObject, which drops it.           *)
(*                                                                         *)
(* scope->lock is an abstract lock here (Mutex; ThinLock implements it).   *)
(* A step is one access to what threads share: obj->map, a lock, nrefs.    *)
(***************************************************************************)
EXTENDS Integers, FiniteSets

CONSTANTS
  Threads,    \* threads, each in requests of its own
  Objects,    \* memory for objects
  Proto,      \* the one there is at first
  Scopes,     \* memory for scopes
  MaxEntries, \* bound of the times a thread enters one object
  MaxCount,   \* bound of scope->count
  Callers,    \* sets of what callers do beyond locking one object at a time
  NoThread, NoObject, NoScope

ASSUME ScopeLockAssumption ==
  /\ IsFiniteSet(Threads)
  /\ IsFiniteSet(Objects)
  /\ Proto \in Objects
  /\ Scopes # {}
  /\ MaxEntries \in Nat \ {0}
  /\ MaxCount \in Nat \ 0..(MaxEntries - 1)
  /\ Callers \subseteq SUBSET {"Nest", "Enumerate", "Collect", "CollectLocked", "Assert"}
  /\ NoThread \notin Threads
  /\ NoObject \notin Objects
  /\ NoScope \notin Scopes

VARIABLES
  map,     \* obj->map; NoScope for memory that is not an object
  live,    \* the scopes that are not freed
  owner,   \* who holds scope->lock
  count,   \* scope->count
  object,  \* scope->object
  nrefs,   \* scope->map.nrefs
  pc,      \* where each thread is
  obj,     \* the object it works on
  scope,   \* its local variable scope
  entries, \* entries[t][o]: JS_LOCK_OBJ calls of t on o not yet undone
  ops      \* what the callers of this program do; "Assert": a build with assertions

vars == <<map, live, owner, count, object, nrefs, pc, obj, scope, entries, ops>>
-----------------------------------------------------------------------------
\* Points of js_LockObj, js_GetSlotWhileLocked and js_NewObject at which the
\* thread has read obj->map without the lock and is to use the scope.
Stale == {"lock", "slot_cas", "hold"}

PCs == {"run", "recheck", "again", "slot_check", "slot_read", "drop",
        "dropped", "transfer", "gc", "assert", "freed"} \cup Stale

TypeOK ==
  /\ map \in [Objects -> Scopes \cup {NoScope}]
  /\ live \in SUBSET Scopes
  /\ owner \in [Scopes -> Threads \cup {NoThread}]
  /\ count \in [Scopes -> Nat]
  /\ object \in [Scopes -> Objects \cup {NoObject}]
  /\ nrefs \in [Scopes -> Nat]
  /\ pc \in [Threads -> PCs]
  /\ obj \in [Threads -> Objects \cup {NoObject}]
  /\ scope \in [Threads -> Scopes \cup {NoScope}]
  /\ entries \in [Threads -> [Objects -> 0..MaxEntries]]
  /\ \A o \in Objects : map[o] # NoScope => map[o] \in live
  /\ \A t \in Threads : pc[t] \notin {"run", "gc", "assert", "freed"} =>
       scope[t] \in Scopes /\ obj[t] \in Objects

Init ==
  LET s == CHOOSE x \in Scopes : TRUE IN
  /\ map = [o \in Objects |-> IF o = Proto THEN s ELSE NoScope]
  /\ live = {s}
  /\ owner = [x \in Scopes |-> NoThread]
  /\ count = [x \in Scopes |-> 0]
  /\ object = [x \in Scopes |-> IF x = s THEN Proto ELSE NoObject]
  /\ nrefs = [x \in Scopes |-> IF x = s THEN 1 ELSE 0]
  /\ pc = [t \in Threads |-> "run"]
  /\ obj = [t \in Threads |-> NoObject]
  /\ scope = [t \in Threads |-> NoScope]
  /\ entries = [t \in Threads |-> [o \in Objects |-> 0]]
  /\ ops \in Callers

locks == <<owner, count>>
heap == <<live, object, nrefs>>
locals == <<obj, scope>>

Goto(t, from, to) == pc[t] = from /\ pc' = [pc EXCEPT ![t] = to]
Return(t) == /\ obj' = [obj EXCEPT ![t] = NoObject]
             /\ scope' = [scope EXCEPT ![t] = NoScope]

\* The caller locks one object at a time, unless it nests: match_or_replace
\* and str_split keep a regular expression locked while they allocate, set
\* elements and call the script's lambda, and addProperty hooks are called
\* with the object locked.
MayEnter(t, o) == "Nest" \in ops \/ \A p \in Objects \ {o} : entries[t][p] = 0

\* Callers that lock one object at a time, unlock it, and do not allocate
\* meanwhile.
OneAtATime == ops \cap {"Nest", "Enumerate", "CollectLocked"} = {}

\* Callers that do everything enter an object once.
Bound == IF OneAtATime THEN MaxEntries ELSE 1

\* js_UnlockScope by the owner.
LeaveScope(s) ==
  /\ count' = [count EXCEPT ![s] = @ - 1]
  /\ owner' = IF count[s] = 1 THEN [owner EXCEPT ![s] = NoThread] ELSE owner
-----------------------------------------------------------------------------
(***************************************************************************)
(* js_LockObj: read obj->map, lock that scope, and try again when obj has  *)
(* got another scope meanwhile.                                            *)
(***************************************************************************)
CallLock(t, o) ==
  /\ Goto(t, "run", "lock")
  /\ map[o] # NoScope
  /\ MayEnter(t, o)
  /\ entries[t][o] < Bound
  /\ obj' = [obj EXCEPT ![t] = o]
  /\ scope' = [scope EXCEPT ![t] = map[o]]
  /\ UNCHANGED <<map, heap, locks, entries>>

\* js_LockScope1: enter again, or wait for the lock.
LockScope(t) ==
  LET s == scope[t] IN
  /\ Goto(t, "lock", "recheck")
  /\ s \in live
  /\ \/ /\ owner[s] = t
        /\ count[s] < MaxCount
        /\ count' = [count EXCEPT ![s] = @ + 1]
        /\ UNCHANGED owner
     \/ /\ owner[s] = NoThread
        /\ owner' = [owner EXCEPT ![s] = t]
        /\ count' = [count EXCEPT ![s] = 1]
  /\ UNCHANGED <<map, heap, locals, entries>>

\* Mutant: whatever scope obj has, we're done.
LockedAnyway(t) ==
  /\ Goto(t, "recheck", "run")
  /\ entries' = [entries EXCEPT ![t][obj[t]] = @ + 1]
  /\ Return(t)
  /\ UNCHANGED <<map, heap, locks>>

\* "If obj still has this scope, we're done."
Locked(t) ==
  LET o == obj[t] IN
  /\ Goto(t, "recheck", "run")
  /\ map[o] = scope[t]
  /\ entries' = [entries EXCEPT ![t][o] = @ + 1]
  /\ Return(t)
  /\ UNCHANGED <<map, heap, locks>>

\* "Lost a race with a mutator; retry with obj's new scope."
LostRace(t) ==
  /\ Goto(t, "recheck", "again")
  /\ map[obj[t]] # scope[t]
  /\ LeaveScope(scope[t])
  /\ UNCHANGED <<map, heap, locals, entries>>


Retry(t) ==
  /\ Goto(t, "again", "lock")
  /\ scope' = [scope EXCEPT ![t] = map[obj[t]]]
  /\ UNCHANGED <<map, heap, locks, obj, entries>>

\* The scope was freed between the read of obj->map and its use.
UseFreed(t) ==
  /\ pc[t] \in Stale
  /\ scope[t] \notin live
  /\ pc' = [pc EXCEPT ![t] = "freed"]
  /\ UNCHANGED <<map, heap, locks, locals, entries>>

(***************************************************************************)
(* js_UnlockObj.  The assertions of js_UnlockScope fail unless the thread  *)
(* owns the scope; without them it returns.                                *)
(***************************************************************************)
UnlockObj(t, o) ==
  LET s == map[o] IN
  /\ pc[t] = "run"
  /\ entries[t][o] > 0
  /\ IF owner[s] = t
     THEN LeaveScope(s) /\ UNCHANGED pc
     ELSE /\ pc' = [pc EXCEPT ![t] = IF "Assert" \in ops THEN "assert" ELSE "run"]
          /\ UNCHANGED locks
  /\ entries' = [entries EXCEPT ![t][o] = @ - 1]
  /\ UNCHANGED <<map, heap, locals>>

\* fun_enumProperty locks the function object and returns without unlocking.
EnumProperty(t, o) ==
  /\ "Enumerate" \in ops
  /\ pc[t] = "run"
  /\ entries[t][o] > 0
  /\ entries' = [entries EXCEPT ![t][o] = @ - 1]
  /\ UNCHANGED <<map, heap, locks, locals, pc>>
-----------------------------------------------------------------------------
(***************************************************************************)
(* js_GetSlotWhileLocked and js_SetSlotWhileLocked: take the free lock     *)
(* without counting, check obj->map, access the slot, release; or access   *)
(* it at once when the thread has the lock; or else lock the object.       *)
(***************************************************************************)
CallSlot(t, o) ==
  /\ Goto(t, "run", "slot_cas")
  /\ map[o] # NoScope
  /\ MayEnter(t, o)
  /\ entries[t][o] < Bound
  /\ obj' = [obj EXCEPT ![t] = o]
  /\ scope' = [scope EXCEPT ![t] = map[o]]
  /\ UNCHANGED <<map, heap, locks, entries>>

SlotCas(t) ==
  LET s == scope[t] IN
  /\ s \in live
  /\ owner[s] = NoThread
  /\ Goto(t, "slot_cas", "slot_check")
  /\ owner' = [owner EXCEPT ![s] = t]
  /\ UNCHANGED <<map, heap, count, locals, entries>>

SlotMine(t) ==
  /\ scope[t] \in live
  /\ owner[scope[t]] = t
  /\ Goto(t, "slot_cas", "run")
  /\ Return(t)
  /\ UNCHANGED <<map, heap, locks, entries>>

SlotSlow(t) ==
  /\ scope[t] \in live
  /\ owner[scope[t]] \notin {t, NoThread}
  /\ Goto(t, "slot_cas", "again")
  /\ UNCHANGED <<map, heap, locks, locals, entries>>

\* Mutant: obj->map is not checked.
SlotUnchecked(t) ==
  /\ Goto(t, "slot_check", "slot_read")
  /\ UNCHANGED <<map, heap, locks, locals, entries>>

SlotCheck(t) ==
  LET s == scope[t] IN
  /\ pc[t] = "slot_check"
  /\ IF map[obj[t]] = s
     THEN Goto(t, "slot_check", "slot_read") /\ UNCHANGED owner
     ELSE Goto(t, "slot_check", "again") /\ owner' = [owner EXCEPT ![s] = NoThread]
  /\ UNCHANGED <<map, heap, count, locals, entries>>

SlotRead(t) ==
  /\ Goto(t, "slot_read", "run")
  /\ owner' = [owner EXCEPT ![scope[t]] = NoThread]
  /\ Return(t)
  /\ UNCHANGED <<map, heap, count, entries>>
-----------------------------------------------------------------------------
(***************************************************************************)
(* js_GetMutableScope, called with the object locked: a new scope, locked  *)
(* by the thread, for the object; then drop the old one, and transfer the  *)
(* entries to the new one, or nothing when the old one is gone.            *)
(***************************************************************************)
\* Mutant: the new scope does not name its object.
MutateUnnamed(t, o) ==
  LET s == map[o] IN
  /\ Goto(t, "run", "drop")
  /\ entries[t][o] > 0
  /\ owner[s] = t
  /\ object[s] # o
  /\ \E n \in Scopes \ live :
       /\ live' = live \cup {n}
       /\ owner' = [owner EXCEPT ![n] = t]
       /\ count' = [count EXCEPT ![n] = 1]
       /\ object' = [object EXCEPT ![n] = NoObject]
       /\ nrefs' = [nrefs EXCEPT ![n] = 1]
       /\ map' = [map EXCEPT ![o] = n]
  /\ obj' = [obj EXCEPT ![t] = o]
  /\ scope' = [scope EXCEPT ![t] = s]
  /\ UNCHANGED entries

Mutate(t, o) ==
  LET s == map[o] IN
  /\ Goto(t, "run", "drop")
  /\ entries[t][o] > 0
  /\ owner[s] = t
  /\ object[s] # o
  /\ \E n \in Scopes \ live :
       /\ live' = live \cup {n}
       /\ owner' = [owner EXCEPT ![n] = t]
       /\ count' = [count EXCEPT ![n] = 1]
       /\ object' = [object EXCEPT ![n] = o]
       /\ nrefs' = [nrefs EXCEPT ![n] = 1]
       /\ map' = [map EXCEPT ![o] = n]
  /\ obj' = [obj EXCEPT ![t] = o]
  /\ scope' = [scope EXCEPT ![t] = s]
  /\ UNCHANGED entries

\* js_DropObjectMap: count down, and look at the count again.
DropObjectMap(t) ==
  /\ Goto(t, "drop", "dropped")
  /\ nrefs' = [nrefs EXCEPT ![scope[t]] = @ - 1]
  /\ UNCHANGED <<map, live, object, locks, locals, entries>>

\* When this was the last reference js_DestroyScope enters the scope, leaves it
\* and asserts that its count is 0, which it is not: the caller has entered it
\* too.
Dropped(t) ==
  LET s == scope[t] IN
  /\ pc[t] = "dropped"
  /\ IF nrefs[s] = 0
     THEN /\ Goto(t, "dropped", IF "Assert" \in ops THEN "assert" ELSE "run")
          /\ live' = live \ {s}
          /\ Return(t)
     ELSE Goto(t, "dropped", "transfer") /\ UNCHANGED <<live, locals>>
  /\ UNCHANGED <<map, locks, object, nrefs, entries>>

\* Mutant: the count stays behind.
TransferOwner(t) ==
  LET s == scope[t] IN
  /\ Goto(t, "transfer", "run")
  /\ count' = [count EXCEPT ![s] = 0]
  /\ owner' = [owner EXCEPT ![s] = NoThread]
  /\ Return(t)
  /\ UNCHANGED <<map, heap, entries>>

\* js_TransferScopeLock.
TransferScopeLock(t) ==
  LET s == scope[t] IN
  /\ Goto(t, "transfer", "run")
  /\ count' = [count EXCEPT ![map[obj[t]]] = count[s], ![s] = 0]
  /\ owner' = [owner EXCEPT ![s] = NoThread]
  /\ Return(t)
  /\ UNCHANGED <<map, heap, entries>>
-----------------------------------------------------------------------------
(***************************************************************************)
(* js_NewObject: the map is read from the prototype without its lock, and  *)
(* held later, after the constructor property has been looked up.          *)
(***************************************************************************)
NewObject(t, o, p) ==
  /\ Goto(t, "run", "hold")
  /\ map[o] = NoScope
  /\ map[p] # NoScope
  /\ \A u \in Threads : obj[u] # o
  /\ obj' = [obj EXCEPT ![t] = o]
  /\ scope' = [scope EXCEPT ![t] = map[p]]
  /\ UNCHANGED <<map, heap, locks, entries>>

HoldObjectMap(t) ==
  LET s == scope[t] IN
  /\ Goto(t, "hold", "run")
  /\ s \in live
  /\ nrefs' = [nrefs EXCEPT ![s] = @ + 1]
  /\ map' = [map EXCEPT ![obj[t]] = s]
  /\ Return(t)
  /\ UNCHANGED <<live, object, locks, entries>>

(***************************************************************************)
(* A collection, which waits until no other thread is in a request (the    *)
(* promise of GCRequests), and finalizes objects that no thread has locked.*)
(***************************************************************************)
CallGC(t) ==
  /\ Goto(t, "run", "gc")
  /\ \/ "Collect" \in ops /\ \A o \in Objects : entries[t][o] = 0
     \/ "CollectLocked" \in ops
  /\ UNCHANGED <<map, heap, locks, locals, entries>>

Outside(u) == pc[u] = "run" /\ \A o \in Objects : entries[u][o] = 0

Stopped(t) == \A u \in Threads \ {t} : pc[u] = "gc" \/ Outside(u)

\* Mutant: scope->object stays.
FinalizeKeepsOwner(t, o) ==
  LET s == map[o] IN
  /\ pc[t] = "gc"
  /\ Stopped(t)
  /\ s # NoScope
  /\ \A u \in Threads : entries[u][o] = 0
  /\ nrefs[s] = 1 => owner[s] \in {t, NoThread}  \* js_DestroyScope locks it
  /\ map' = [map EXCEPT ![o] = NoScope]
  /\ nrefs' = [nrefs EXCEPT ![s] = @ - 1]
  /\ live' = IF nrefs[s] = 1 THEN live \ {s} ELSE live
  /\ UNCHANGED <<locks, object, locals, pc, entries>>

FinalizeObject(t, o) ==
  LET s == map[o] IN
  /\ pc[t] = "gc"
  /\ Stopped(t)
  /\ s # NoScope
  /\ \A u \in Threads : entries[u][o] = 0
  /\ nrefs[s] = 1 => owner[s] \in {t, NoThread}  \* js_DestroyScope locks it
  /\ map' = [map EXCEPT ![o] = NoScope]
  /\ nrefs' = [nrefs EXCEPT ![s] = @ - 1]
  /\ live' = IF nrefs[s] = 1 THEN live \ {s} ELSE live
  /\ object' = IF nrefs[s] > 1 /\ object[s] = o
               THEN [object EXCEPT ![s] = NoObject] ELSE object
  /\ UNCHANGED <<locks, locals, pc, entries>>

GCReturn(t) ==
  /\ Goto(t, "gc", "run")
  /\ Stopped(t)
  /\ UNCHANGED <<map, heap, locks, locals, entries>>
-----------------------------------------------------------------------------
\* Steps a thread inside one of the calls takes without more ado.
Call(t) ==
  \/ LockScope(t) \/ Locked(t) \/ LostRace(t) \/ Retry(t) \/ UseFreed(t)
  \/ SlotCas(t) \/ SlotMine(t) \/ SlotSlow(t) \/ SlotCheck(t) \/ SlotRead(t)
  \/ DropObjectMap(t) \/ Dropped(t) \/ TransferScopeLock(t) \/ HoldObjectMap(t) \/ GCReturn(t)

\* Steps its callers choose to take.
Caller(t) ==
  \/ CallGC(t)
  \/ \E o \in Objects :
       \/ CallLock(t, o) \/ UnlockObj(t, o) \/ CallSlot(t, o) \/ Mutate(t, o)
       \/ EnumProperty(t, o) \/ FinalizeObject(t, o)
       \/ \E p \in Objects : NewObject(t, o, p)

Runs(t) == Call(t) /\ UNCHANGED ops

Next == \E t \in Threads : Runs(t) \/ (Caller(t) /\ UNCHANGED ops)

Spec == Init /\ [][Next]_vars

(***************************************************************************)
(* Fairness, all of it weak: a call that can go on without a break goes on *)
(* (for LockScope: a scope lock that stays free is taken by a thread that  *)
(* waits for it, SleeperWakes of ThinLock; nothing is assumed of a lock    *)
(* that others take meanwhile), and callers that have an object locked and *)
(* call nothing unlock it.                                                 *)
(***************************************************************************)
Fairness ==
  \A t \in Threads :
    /\ WF_vars(OneAtATime /\ Runs(t))
    /\ \A o \in Objects : WF_vars(OneAtATime /\ UnlockObj(t, o) /\ UNCHANGED ops)

FairSpec == Spec /\ Fairness
-----------------------------------------------------------------------------
Holds(t, o) == entries[t][o] > 0 \/ (pc[t] = "slot_read" /\ obj[t] = o)

\* While a thread has an object locked, or reads or writes its slot on the
\* fast path, it owns the lock of the scope that the object has at that very
\* moment, although objects share scopes and change them, if callers lock one
\* at a time.
ObjectExclusive ==
  OneAtATime => \A t \in Threads, o \in Objects : Holds(t, o) => owner[map[o]] = t

\* scope->count is the number of JS_LOCK_OBJ calls the owner has yet to undo
\* on the object, also after a transfer; and it is 0 when nobody owns the
\* scope, or when the owner reads a slot on the fast path.  (Until an assertion
\* fails: AssertionsHold.)
Entering(s) == {t \in Threads : pc[t] = "recheck" /\ scope[t] = s}
Moving(s) == {t \in Threads : pc[t] \in {"drop", "dropped", "transfer"}
                                /\ s \in {scope[t], map[obj[t]]}}
CountExact ==
  \A s \in live : OneAtATime /\ Moving(s) = {} /\ (\A t \in Threads : pc[t] # "assert") =>
    \/ \E t \in Threads, o \in Objects :
         /\ owner[s] = t
         /\ map[o] = s
         /\ entries[t][o] > 0
         /\ count[s] = entries[t][o] + Cardinality(Entering(s))
    \/ /\ \A t \in Threads, o \in Objects : map[o] = s => entries[t][o] = 0
       /\ count[s] = Cardinality(Entering(s))

\* Whatever callers do, scope->map.nrefs counts the objects that have the
\* scope, although it is held and dropped without the scope's lock.
NrefsExact ==
  \A s \in live :
    nrefs[s] = Cardinality({o \in Objects : map[o] = s})
               + Cardinality({t \in Threads : pc[t] = "drop" /\ scope[t] = s})

\* An object whose scope names it as the owner has that scope to itself to
\* change; memory of a finalized owner, when reused for an object that shares
\* the scope, is not taken for the owner (jsobj.c:1065).
ScopeObjectCorrect ==
  \A s \in live : object[s] # NoObject => map[object[s]] = s

\* Whatever callers do and however scopes are shared, dropped and freed
\* meanwhile: a thread in js_LockObj that has taken a scope's lock, one that
\* accesses a slot on the fast path, and one that drops a scope for a new one
\* still have that scope, and its lock is theirs.  (Before the lock is taken
\* nothing keeps the scope: NoFreedScope.)
HeldStays ==
  \A t \in Threads :
    pc[t] \in {"recheck", "slot_check", "slot_read", "drop", "dropped", "transfer"} =>
      scope[t] \in live /\ owner[scope[t]] = t

\* The three, and type correctness: no object has a scope that is gone, scopes
\* are counted and named right, and a scope that is locked or half dropped is
\* not freed.  A thread that has only the address of a scope may find it freed.
RefsExact == TypeOK /\ NrefsExact /\ ScopeObjectCorrect /\ HeldStays

\* "Lost a race with a mutator" (jslock.c:747) happens once in a call at most,
\* whatever callers do: when the object of js_LockObj or of a slot access does
\* not have the scope any more that was read from it, the one it has is its
\* own, and that one it keeps.
RaceLostOnce ==
  \A t \in Threads :
    pc[t] \in {"lock", "recheck", "slot_cas", "slot_check"} /\ map[obj[t]] # scope[t] =>
      object[map[obj[t]]] = obj[t]

\* Object locks are locks, for callers that lock one object at a time.
Holder(o) == IF \E t \in Threads : Holds(t, o)
             THEN CHOOSE t \in Threads : Holds(t, o) ELSE NoThread
Abstract == INSTANCE Mutex WITH Locks <- Objects, holder <- [o \in Objects |-> Holder(o)]
ImplementsMutex ==
  Abstract!Init /\ [][OneAtATime => Abstract!Next]_[o \in Objects |-> Holder(o)]

\* While threads are in js_LockObj or in a slot access, one of them returns
\* sooner or later, however often scopes change under them, unless a thread
\* stops with a failed assertion or uses a freed scope.  (Not each of them: the
\* others may take the lock first again and again.)
Stuck == \E t \in Threads : pc[t] \in {"assert", "freed"}
Within(t) == pc[t] \in {"lock", "recheck", "again", "slot_cas", "slot_check", "slot_read"}
Returns(t) == Within(t) /\ pc'[t] = "run"

\* JS_ASSERT(scope->count == 0) of js_DestroyScope (jsscope.c:414): nobody has
\* a scope locked that is destroyed.  The code does not keep this: Mutate may
\* drop the last reference to the scope it has locked.
AssertionsHold == \A t \in Threads : pc[t] # "assert"

\* "Share the given prototype's map." (jsobj.c:1109) and "Lost a race with a
\* mutator; retry with obj's new scope." (jslock.c:747): the scope of which
\* js_NewObject or js_LockObj has got the address still exists.  The code does
\* not keep this: nothing holds the scope meanwhile.
NoFreedScope == \A t \in Threads : pc[t] # "freed"

\* A thread that has nothing locked and is outside every call owns no scope.
\* The code does not keep this: EnumProperty.
NothingLeftLocked ==
  \A t \in Threads : Outside(t) => \A s \in live : owner[s] # t

\* "Avoid deadlock." (jsgc.c:642): a collector does not wait for the end of a
\* request that waits for a lock of the collector's.  The code does not keep this: strings
\* are made with a regular expression locked (ops "CollectLocked").
CollectorNotAwaited ==
  \A t, u \in Threads : pc[t] = "gc" /\ pc[u] = "lock" => owner[scope[u]] # t
=============================================================================
