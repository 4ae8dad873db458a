-------------------------- MODULE ScopeLockProofs --------------------------
(***************************************************************************)
(* Proofs about ScopeLock, for every number of threads, objects and        *)
(* scopes.  Whatever the callers do, the references to a scope are         *)
(* counted, no scope is freed that an object has, and a call loses the     *)
(* race with a mutator once at most.  For callers that lock one object at  *)
(* a time, in a build whose assertions stop the thread that fails one, an  *)
(* object's lock is exclusive, scope->count is exact, and object locks     *)
(* implement the abstract locks of Mutex.                                  *)
(***************************************************************************)
EXTENDS ScopeLock, FiniteSetTheorems, TLAPS

Owning == {"recheck", "slot_check", "slot_read", "drop", "dropped", "transfer"}
Locking == {"lock", "recheck", "again", "slot_cas", "slot_check", "slot_read"}
Mutating == {"drop", "dropped", "transfer"}

\* What a call works on stays while it is under way.
Calls ==
  /\ ops \in Callers
  /\ \A t \in Threads : pc[t] \in Locking \cup Mutating => map[obj[t]] # NoScope
  /\ \A t \in Threads : pc[t] = "hold" =>
       map[obj[t]] = NoScope /\ \A u \in Threads \ {t} : obj[u] # obj[t]
  /\ \A t \in Threads, o \in Objects : entries[t][o] > 0 => map[o] # NoScope
  /\ \A t \in Threads : pc[t] \in Locking => entries[t][obj[t]] < MaxEntries

\* A thread that has locked a scope owns it, and an owner has a count, unless it
\* took the lock on the fast path.
Owners ==
  /\ \A t \in Threads : pc[t] \in Owning => scope[t] \in live /\ owner[scope[t]] = t
  /\ \A s \in live, t \in Threads : owner[s] = t =>
       count[s] > 0 \/ (pc[t] \in {"slot_check", "slot_read"} /\ scope[t] = s)

RefsInv == TypeOK /\ Calls /\ Owners /\ NrefsExact /\ ScopeObjectCorrect

-----------------------------------------------------------------------------
\* Callers that lock one object at a time, in a build with assertions.
Asserting == OneAtATime /\ "Assert" \in ops

\* A thread has one object at most.
OneObject(t) ==
  /\ pc[t] = "gc" => \A o \in Objects : entries[t][o] = 0
  /\ \A o, p \in Objects : entries[t][o] > 0 /\ entries[t][p] > 0 => o = p
  /\ pc[t] \in Locking \cup Mutating => \A p \in Objects \ {obj[t]} : entries[t][p] = 0
  /\ pc[t] \in {"again", "slot_check", "slot_read"} => entries[t][obj[t]] = 0
  /\ pc[t] \in Mutating => entries[t][obj[t]] > 0

\* It owns the scope of the object it has, at that very moment.
Owned(t) ==
  /\ \A o \in Objects : entries[t][o] > 0 => owner[map[o]] = t
  /\ pc[t] = "slot_read" => map[obj[t]] = scope[t]
  /\ pc[t] \in {"lock", "recheck", "slot_cas"} /\ entries[t][obj[t]] > 0 =>
       map[obj[t]] = scope[t]
  /\ pc[t] \in Mutating => map[obj[t]] # scope[t]

\* What scope->count counts, but for the scopes of an object that gets one of
\* its own.
Entry(t, s) == IF pc[t] = "recheck" /\ scope[t] = s THEN 1 ELSE 0
Settled(t, s) ==
  /\ pc[t] # "assert"
  /\ pc[t] \in Mutating => s \notin {scope[t], map[obj[t]]}
Counts(t, s) ==
  /\ \A o \in Objects : map[o] = s /\ entries[t][o] > 0 => count[s] = entries[t][o] + Entry(t, s)
  /\ (\A o \in Objects : map[o] = s => entries[t][o] = 0) => count[s] = Entry(t, s)
Counted(t) ==
  /\ pc[t] \in Mutating => count[scope[t]] = entries[t][obj[t]]
  /\ \A s \in live : owner[s] = t /\ Settled(t, s) => Counts(t, s)

Unowned == \A s \in live : owner[s] = NoThread => count[s] = 0

LocksInv == Unowned /\ \A t \in Threads : OneObject(t) /\ Owned(t) /\ Counted(t)

Inv == RefsInv /\ (Asserting => LocksInv)
-----------------------------------------------------------------------------
(***************************************************************************)
(* The references to a scope, as sets.                                     *)
(***************************************************************************)
Sharing(s) == {o \in Objects : map[o] = s}
Dropping(s) == {t \in Threads : pc[t] = "drop" /\ scope[t] = s}

LEMMA RefSets ==
  ASSUME NEW s
  PROVE  /\ IsFiniteSet(Sharing(s)) /\ Cardinality(Sharing(s)) \in Nat
         /\ IsFiniteSet(Dropping(s)) /\ Cardinality(Dropping(s)) \in Nat
<1>1. Sharing(s) \in SUBSET Objects /\ Dropping(s) \in SUBSET Threads
  BY DEF Sharing, Dropping
<1> QED
  BY <1>1, ScopeLockAssumption, FS_Subset, FS_CardinalityType DEF ScopeLockAssumption

LEMMA NrefsCounts ==
  ASSUME NrefsExact, NEW s \in live
  PROVE  /\ nrefs[s] = Cardinality(Sharing(s)) + Cardinality(Dropping(s))
         /\ nrefs[s] = 0 => Sharing(s) = {} /\ Dropping(s) = {}
         /\ nrefs[s] >= 0
         /\ \A o \in Sharing(s) : nrefs[s] >= 1 /\ (nrefs[s] = 1 => Sharing(s) = {o})
         /\ \A t \in Dropping(s) : nrefs[s] >= 1
<1>1. nrefs[s] = Cardinality(Sharing(s)) + Cardinality(Dropping(s))
  BY DEF NrefsExact, Sharing, Dropping
<1>2. \A T : IsFiniteSet(T) => (Cardinality(T) = 0 <=> T = {})
  BY FS_EmptySet
<1>3. \A T : IsFiniteSet(T) => (Cardinality(T) = 1 <=> \E x : T = {x})
  BY FS_Singleton
<1> HIDE DEF Sharing, Dropping
<1>4. nrefs[s] = 0 => Sharing(s) = {} /\ Dropping(s) = {}
  BY <1>1, <1>2, RefSets
<1>5. ASSUME NEW o \in Sharing(s) PROVE nrefs[s] >= 1 /\ (nrefs[s] = 1 => Sharing(s) = {o})
  <2>1. Cardinality(Sharing(s)) # 0
    BY <1>2, RefSets
  <2>2. nrefs[s] >= 1
    BY <1>1, <2>1, RefSets
  <2>3. nrefs[s] = 1 => Cardinality(Sharing(s)) = 1
    BY <1>1, <2>1, RefSets
  <2> QED
    BY <1>3, <2>2, <2>3, RefSets
<1>6. ASSUME NEW t \in Dropping(s) PROVE nrefs[s] >= 1
  <2>1. Cardinality(Dropping(s)) # 0
    BY <1>2, RefSets
  <2> QED
    BY <1>1, <2>1, RefSets
<1> QED
  BY <1>1, <1>4, <1>5, <1>6, RefSets

-----------------------------------------------------------------------------
(***************************************************************************)
(* Types.                                                                  *)
(***************************************************************************)
LEMMA TypeInit == Init => TypeOK
<1> SUFFICES ASSUME Init PROVE TypeOK
  OBVIOUS
<1> USE ScopeLockAssumption DEF ScopeLockAssumption
<1> DEFINE s0 == CHOOSE x \in Scopes : TRUE
<1>1. s0 \in Scopes
  OBVIOUS
<1>2. /\ map = [o \in Objects |-> IF o = Proto THEN s0 ELSE NoScope]
      /\ live = {s0}
      /\ nrefs = [x \in Scopes |-> IF x = s0 THEN 1 ELSE 0]
      /\ object = [x \in Scopes |-> IF x = s0 THEN Proto ELSE NoObject]
  BY DEF Init
<1> HIDE DEF s0
<1>3. /\ map \in [Objects -> Scopes \cup {NoScope}] /\ live \in SUBSET Scopes
      /\ nrefs \in [Scopes -> Nat] /\ object \in [Scopes -> Objects \cup {NoObject}]
      /\ \A o \in Objects : map[o] # NoScope => map[o] \in live
  BY <1>1, <1>2
<1>4. /\ owner \in [Scopes -> Threads \cup {NoThread}] /\ count \in [Scopes -> Nat]
  BY DEF Init
<1>5. /\ obj \in [Threads -> Objects \cup {NoObject}] /\ scope \in [Threads -> Scopes \cup {NoScope}]
  BY DEF Init
<1>6. entries \in [Threads -> [Objects -> 0..MaxEntries]]
  BY DEF Init
<1>7. pc = [t \in Threads |-> "run"]
  BY DEF Init
<1>8. pc \in [Threads -> PCs] /\ \A t \in Threads : pc[t] = "run"
  BY <1>7 DEF PCs
<1> QED
  BY <1>3, <1>4, <1>5, <1>6, <1>8 DEF TypeOK

\* What a step assigns has the type of what it is assigned to.
LEMMA LeaveType ==
  ASSUME TypeOK, NEW s \in live, count[s] > 0, LeaveScope(s)
  PROVE  /\ count' \in [Scopes -> Nat] /\ owner' \in [Scopes -> Threads \cup {NoThread}]
<1>1. s \in Scopes /\ count \in [Scopes -> Nat] /\ owner \in [Scopes -> Threads \cup {NoThread}]
  BY DEF TypeOK
<1>2. count' = [count EXCEPT ![s] = count[s] - 1] /\ count[s] - 1 \in Nat
  BY <1>1 DEF LeaveScope
<1>3. owner' \in {owner, [owner EXCEPT ![s] = NoThread]}
  BY DEF LeaveScope
<1> QED
  BY <1>1, <1>2, <1>3

LEMMA EntriesType ==
  ASSUME TypeOK, NEW t \in Threads, NEW o \in Objects, NEW n \in 0..MaxEntries,
         entries' = [entries EXCEPT ![t][o] = n]
  PROVE  entries' \in [Threads -> [Objects -> 0..MaxEntries]]
BY DEF TypeOK

LEMMA TypeStep ==
  ASSUME TypeOK, Calls, Owners, NrefsExact, [Next]_vars
  PROVE  TypeOK'
<1> USE ScopeLockAssumption DEF ScopeLockAssumption
<1> USE DEF TypeOK, PCs, Stale, Goto, Return, locks, heap, locals
<1>1. ASSUME NEW t \in Threads, NEW o \in Objects, CallLock(t, o) PROVE TypeOK'
  BY <1>1 DEF CallLock
<1>2. ASSUME NEW t \in Threads, LockScope(t) PROVE TypeOK'
  <2>1. /\ scope[t] \in Scopes
        /\ \/ count' = [count EXCEPT ![scope[t]] = count[scope[t]] + 1] /\ owner' = owner
           \/ count' = [count EXCEPT ![scope[t]] = 1] /\ owner' = [owner EXCEPT ![scope[t]] = t]
    BY <1>2 DEF LockScope
  <2>2. count' \in [Scopes -> Nat] /\ owner' \in [Scopes -> Threads \cup {NoThread}]
    <3>1. CASE count' = [count EXCEPT ![scope[t]] = count[scope[t]] + 1] /\ owner' = owner
      BY <2>1, <3>1
    <3>2. CASE count' = [count EXCEPT ![scope[t]] = 1] /\ owner' = [owner EXCEPT ![scope[t]] = t]
      BY <2>1, <3>2
    <3> QED
      BY <2>1, <3>1, <3>2
  <2>3. pc' = [pc EXCEPT ![t] = "recheck"] /\ pc[t] = "lock" /\ UNCHANGED <<map, heap, locals, entries>>
    BY <1>2 DEF LockScope
  <2>4. pc' \in [Threads -> PCs]
    BY <2>3
  <2>5. \A u \in Threads : pc'[u] \notin {"run", "gc", "assert", "freed"} =>
                             scope'[u] \in Scopes /\ obj'[u] \in Objects
    BY <2>3
  <2>6. \A o \in Objects : map'[o] # NoScope => map'[o] \in live'
    BY <2>3
  <2> HIDE DEF PCs, Goto, Return
  <2> QED
    BY <2>2, <2>3, <2>4, <2>5, <2>6
<1>3. ASSUME NEW t \in Threads, Locked(t) PROVE TypeOK'
  <2>1. pc[t] = "recheck" /\ obj[t] \in Objects /\ entries[t][obj[t]] + 1 \in 0..MaxEntries
    <3>1. pc[t] = "recheck"
      BY <1>3 DEF Locked
    <3>2. obj[t] \in Objects /\ entries[t][obj[t]] < MaxEntries
      BY <3>1 DEF Calls, Locking
    <3> QED
      BY <3>1, <3>2
  <2>2. entries' = [entries EXCEPT ![t][obj[t]] = entries[t][obj[t]] + 1]
    BY <1>3 DEF Locked
  <2>3. entries' \in [Threads -> [Objects -> 0..MaxEntries]]
    BY <2>1, <2>2, EntriesType
  <2> QED
    BY <1>3, <2>3 DEF Locked
<1>4. ASSUME NEW t \in Threads, LostRace(t) PROVE TypeOK'
  <2>1. scope[t] \in live /\ count[scope[t]] > 0
    BY <1>4 DEF LostRace, Owners, Owning
  <2>2. count' \in [Scopes -> Nat] /\ owner' \in [Scopes -> Threads \cup {NoThread}]
    BY <1>4, <2>1, LeaveType DEF LostRace
  <2> QED
    BY <1>4, <2>2 DEF LostRace
<1>5. ASSUME NEW t \in Threads, Retry(t) PROVE TypeOK'
  <2>1. map[obj[t]] # NoScope
    BY <1>5 DEF Retry, Calls, Locking
  <2> QED
    BY <1>5, <2>1 DEF Retry
<1>6. ASSUME NEW t \in Threads, UseFreed(t) PROVE TypeOK'
  BY <1>6 DEF UseFreed
<1>7. ASSUME NEW t \in Threads, NEW o \in Objects, UnlockObj(t, o) PROVE TypeOK'
  <2>1. map[o] \in live /\ entries[t][o] - 1 \in 0..MaxEntries
    BY <1>7 DEF UnlockObj, Calls
  <2>2. owner[map[o]] = t => count[map[o]] > 0
    BY <1>7, <2>1 DEF UnlockObj, Owners
  <2>3. count' \in [Scopes -> Nat] /\ owner' \in [Scopes -> Threads \cup {NoThread}]
    BY <1>7, <2>1, <2>2, LeaveType DEF UnlockObj
  <2>4. entries' \in [Threads -> [Objects -> 0..MaxEntries]]
    BY <1>7, <2>1, EntriesType DEF UnlockObj
  <2>5. pc' \in [Threads -> PCs] /\ \A u \in Threads : pc'[u] \in {pc[u], "run", "assert"}
    BY <1>7 DEF UnlockObj
  <2> QED
    BY <1>7, <2>3, <2>4, <2>5 DEF UnlockObj
<1>8. ASSUME NEW t \in Threads, NEW o \in Objects, EnumProperty(t, o) PROVE TypeOK'
  <2>1. entries[t][o] - 1 \in 0..MaxEntries
    BY <1>8 DEF EnumProperty
  <2>2. entries' \in [Threads -> [Objects -> 0..MaxEntries]]
    BY <1>8, <2>1, EntriesType DEF EnumProperty
  <2> QED
    BY <1>8, <2>2 DEF EnumProperty
<1>9. ASSUME NEW t \in Threads, NEW o \in Objects, CallSlot(t, o) PROVE TypeOK'
  BY <1>9 DEF CallSlot
<1>10. ASSUME NEW t \in Threads, SlotCas(t) PROVE TypeOK'
  BY <1>10 DEF SlotCas
<1>11. ASSUME NEW t \in Threads, SlotMine(t) PROVE TypeOK'
  BY <1>11 DEF SlotMine
<1>12. ASSUME NEW t \in Threads, SlotSlow(t) PROVE TypeOK'
  BY <1>12 DEF SlotSlow
<1>13. ASSUME NEW t \in Threads, SlotCheck(t) PROVE TypeOK'
  <2>1. /\ owner' \in {owner, [owner EXCEPT ![scope[t]] = NoThread]}
        /\ \E to \in {"slot_read", "again"} : pc' = [pc EXCEPT ![t] = to]
        /\ pc[t] = "slot_check"
    BY <1>13 DEF SlotCheck
  <2>2. owner' \in [Scopes -> Threads \cup {NoThread}] /\ pc' \in [Threads -> PCs]
    BY <2>1
  <2>3. \A u \in Threads : pc'[u] \notin {"run", "gc", "assert", "freed"} => scope[u] \in Scopes /\ obj[u] \in Objects
    BY <2>1
  <2> QED
    BY <1>13, <2>2, <2>3 DEF SlotCheck
<1>14. ASSUME NEW t \in Threads, SlotRead(t) PROVE TypeOK'
  BY <1>14 DEF SlotRead
<1>15. ASSUME NEW t \in Threads, NEW o \in Objects, Mutate(t, o) PROVE TypeOK'
  <2>1. map[o] \in live
    BY <1>15 DEF Mutate, Calls
  <2>2. PICK n \in Scopes \ live :
          /\ live' = live \cup {n}
          /\ owner' = [owner EXCEPT ![n] = t]
          /\ count' = [count EXCEPT ![n] = 1]
          /\ object' = [object EXCEPT ![n] = o]
          /\ nrefs' = [nrefs EXCEPT ![n] = 1]
          /\ map' = [map EXCEPT ![o] = n]
    BY <1>15 DEF Mutate
  <2>3. /\ owner' \in [Scopes -> Threads \cup {NoThread}] /\ count' \in [Scopes -> Nat]
        /\ object' \in [Scopes -> Objects \cup {NoObject}] /\ nrefs' \in [Scopes -> Nat]
    BY <2>2
  <2>4. /\ map' \in [Objects -> Scopes \cup {NoScope}] /\ live' \in SUBSET Scopes
        /\ \A x \in Objects : map'[x] # NoScope => map'[x] \in live'
    BY <2>2
  <2> QED
    BY <1>15, <2>1, <2>3, <2>4 DEF Mutate
<1>16. ASSUME NEW t \in Threads, DropObjectMap(t) PROVE TypeOK'
  <2>1. scope[t] \in live /\ t \in Dropping(scope[t])
    BY <1>16 DEF DropObjectMap, Owners, Owning, Dropping
  <2>2. nrefs[scope[t]] >= 1
    BY <2>1, NrefsCounts
  <2>3. nrefs' \in [Scopes -> Nat]
    BY <1>16, <2>1, <2>2 DEF DropObjectMap
  <2> QED
    BY <1>16, <2>3 DEF DropObjectMap
<1>17. ASSUME NEW t \in Threads, Dropped(t) PROVE TypeOK'
  <2>1. scope[t] \in live
    BY <1>17 DEF Dropped, Owners, Owning
  <2>2. CASE nrefs[scope[t]] = 0
    <3>1. Sharing(scope[t]) = {}
      BY <2>1, <2>2, NrefsCounts
    <3>2. \A o \in Objects : map[o] # NoScope => map[o] \in live \ {scope[t]}
      BY <3>1 DEF Sharing
    <3>3. \E to \in {"assert", "run"} : pc' = [pc EXCEPT ![t] = to]
      BY <1>17, <2>2 DEF Dropped
    <3>4. /\ obj' = [obj EXCEPT ![t] = NoObject] /\ scope' = [scope EXCEPT ![t] = NoScope]
          /\ live' = live \ {scope[t]}
      BY <1>17, <2>2 DEF Dropped
    <3>5. /\ obj' \in [Threads -> Objects \cup {NoObject}] /\ scope' \in [Threads -> Scopes \cup {NoScope}]
          /\ pc' \in [Threads -> PCs] /\ live' \in SUBSET Scopes
      BY <3>3, <3>4
    <3>6. \A u \in Threads : pc'[u] \notin {"run", "gc", "assert", "freed"} => scope'[u] \in Scopes /\ obj'[u] \in Objects
      BY <3>3, <3>4
    <3> QED
      BY <1>17, <3>2, <3>4, <3>5, <3>6 DEF Dropped
  <2>3. CASE nrefs[scope[t]] # 0
    <3>1. pc[t] = "dropped" /\ pc' = [pc EXCEPT ![t] = "transfer"] /\ UNCHANGED <<live, obj, scope>>
      BY <1>17, <2>3 DEF Dropped
    <3>2. UNCHANGED <<map, owner, count, object, nrefs, entries>>
      BY <1>17 DEF Dropped
    <3> QED
      BY <3>1, <3>2
  <2> QED
    BY <2>2, <2>3
<1>18. ASSUME NEW t \in Threads, TransferScopeLock(t) PROVE TypeOK'
  <2>1. count' \in [Scopes -> Nat] /\ owner' \in [Scopes -> Threads \cup {NoThread}]
    BY <1>18 DEF TransferScopeLock
  <2> QED
    BY <1>18, <2>1 DEF TransferScopeLock
<1>19. ASSUME NEW t \in Threads, NEW o \in Objects, NEW p \in Objects, NewObject(t, o, p) PROVE TypeOK'
  BY <1>19 DEF NewObject
<1>20. ASSUME NEW t \in Threads, HoldObjectMap(t) PROVE TypeOK'
  <2>1. /\ pc[t] = "hold" /\ scope[t] \in live /\ obj[t] \in Objects
        /\ nrefs' = [nrefs EXCEPT ![scope[t]] = nrefs[scope[t]] + 1]
        /\ map' = [map EXCEPT ![obj[t]] = scope[t]]
    BY <1>20 DEF HoldObjectMap
  <2>2. nrefs' \in [Scopes -> Nat] /\ map' \in [Objects -> Scopes \cup {NoScope}]
    BY <2>1
  <2>3. \A o \in Objects : map'[o] # NoScope => map'[o] \in live
    BY <2>1
  <2> QED
    BY <1>20, <2>2, <2>3 DEF HoldObjectMap
<1>21. ASSUME NEW t \in Threads, CallGC(t) PROVE TypeOK'
  BY <1>21 DEF CallGC
<1>22. ASSUME NEW t \in Threads, NEW o \in Objects, FinalizeObject(t, o) PROVE TypeOK'
  <2> DEFINE s == map[o]
  <2>1. s \in live /\ o \in Sharing(s)
    BY <1>22 DEF FinalizeObject, Sharing
  <2>2. nrefs[s] >= 1 /\ (nrefs[s] = 1 => Sharing(s) = {o})
    BY <2>1, NrefsCounts
  <2>3. nrefs' \in [Scopes -> Nat]
    BY <1>22, <2>1, <2>2 DEF FinalizeObject
  <2>4. /\ map' \in [Objects -> Scopes \cup {NoScope}] /\ live' \in SUBSET Scopes
        /\ object' \in [Scopes -> Objects \cup {NoObject}]
    BY <1>22 DEF FinalizeObject
  <2>5. \A x \in Objects : map'[x] # NoScope => map'[x] \in live'
    BY <1>22, <2>2 DEF FinalizeObject, Sharing
  <2> QED
    BY <1>22, <2>3, <2>4, <2>5 DEF FinalizeObject
<1>23. ASSUME NEW t \in Threads, GCReturn(t) PROVE TypeOK'
  BY <1>23 DEF GCReturn
<1>24. CASE UNCHANGED vars
  BY <1>24 DEF vars
<1> QED
  BY <1>1, <1>2, <1>3, <1>4, <1>5, <1>6, <1>7, <1>8, <1>9, <1>10, <1>11, <1>12,
     <1>13, <1>14, <1>15, <1>16, <1>17, <1>18, <1>19, <1>20, <1>21, <1>22, <1>23, <1>24
  DEF Next, Runs, Call, Caller

(***************************************************************************)
(* What a call works on.                                                   *)
(***************************************************************************)
LEMMA CallsStep ==
  ASSUME TypeOK, TypeOK', Calls, [Next]_vars
  PROVE  Calls'
<1> USE ScopeLockAssumption DEF ScopeLockAssumption
<1> USE DEF TypeOK, Stale, Locking, Mutating, Goto, Return, locks, heap, locals
<1>0. ops' \in Callers
  BY DEF Calls, Next, Runs, Caller, vars
<1> DEFINE Kept == /\ \A t \in Threads : pc[t] \in Locking \cup Mutating => map[obj[t]] # NoScope
                   /\ \A t \in Threads : pc[t] = "hold" =>
                         map[obj[t]] = NoScope /\ \A u \in Threads \ {t} : obj[u] # obj[t]
                   /\ \A t \in Threads, o \in Objects : entries[t][o] > 0 => map[o] # NoScope
                   /\ \A t \in Threads : pc[t] \in Locking => entries[t][obj[t]] < MaxEntries
<1> Kept
  BY DEF Calls
<1>return. ASSUME NEW t \in Threads, NEW to \in {"run", "assert"}, pc' = [pc EXCEPT ![t] = to],
                  Return(t), UNCHANGED <<map, entries>>
           PROVE  Kept'
  <2>1. \A u \in Threads : pc'[u] = IF u = t THEN to ELSE pc[u]
    BY <1>return
  <2>2. \A u \in Threads : obj'[u] = IF u = t THEN NoObject ELSE obj[u]
    BY <1>return
  <2>3. \A u \in Threads : pc'[u] \in Locking \cup Mutating \cup {"hold"} =>
                             u # t /\ pc[u] = pc'[u] /\ obj'[u] = obj[u] /\ obj[u] \in Objects
    BY <2>1, <2>2
  <2> QED
    BY <1>return, <2>2, <2>3
<1>call. ASSUME NEW t \in Threads, NEW o \in Objects, NEW to \in Locking, pc' = [pc EXCEPT ![t] = to],
                obj' = [obj EXCEPT ![t] = o], map[o] # NoScope, entries[t][o] < MaxEntries,
                UNCHANGED <<map, entries>>
         PROVE  Kept'
  <2>1. \A u \in Threads : pc'[u] = IF u = t THEN to ELSE pc[u]
    BY <1>call
  <2>2. \A u \in Threads : obj'[u] = IF u = t THEN o ELSE obj[u]
    BY <1>call
  <2> QED
    BY <1>call, <2>1, <2>2
<1>1. ASSUME NEW t \in Threads, LockScope(t) PROVE Kept'
  BY <1>1 DEF LockScope
<1>2. ASSUME NEW t \in Threads, Locked(t) PROVE Kept'
  <2>1. /\ pc[t] = "recheck" /\ pc' = [pc EXCEPT ![t] = "run"] /\ map' = map
        /\ obj[t] \in Objects /\ obj' = [obj EXCEPT ![t] = NoObject]
        /\ entries' = [entries EXCEPT ![t][obj[t]] = @ + 1]
    BY <1>2 DEF Locked
  <2>2. map[obj[t]] # NoScope
    BY <2>1
  <2>3. \A u \in Threads : u # t => pc'[u] = pc[u] /\ obj'[u] = obj[u] /\ entries'[u] = entries[u]
    BY <2>1
  <2>4. pc'[t] = "run" /\ \A o \in Objects : o # obj[t] => entries'[t][o] = entries[t][o]
    BY <2>1
  <2>5. \A u \in Threads, o \in Objects : entries'[u][o] > 0 => map'[o] # NoScope
    BY <2>1, <2>2, <2>3, <2>4
  <2>6. \A u \in Threads : pc'[u] \in Locking \cup Mutating \cup {"hold"} => u # t
    BY <2>4
  <2>7. \A u \in Threads : pc'[u] = "hold" =>
          map'[obj'[u]] = NoScope /\ \A v \in Threads \ {u} : obj'[v] # obj'[u]
    <3> SUFFICES ASSUME NEW u \in Threads, pc'[u] = "hold"
                 PROVE  map'[obj'[u]] = NoScope /\ \A v \in Threads \ {u} : obj'[v] # obj'[u]
      OBVIOUS
    <3>1. u # t /\ pc[u] = "hold" /\ obj'[u] = obj[u] /\ obj[u] \in Objects
      BY <2>3, <2>6
    <3>2. obj'[t] = NoObject /\ NoObject \notin Objects
      BY <2>1
    <3> QED
      BY <2>1, <2>3, <3>1, <3>2
  <2> QED
    BY <2>1, <2>3, <2>5, <2>6, <2>7
<1>3. ASSUME NEW t \in Threads, LostRace(t) PROVE Kept'
  BY <1>3 DEF LostRace
<1>4. ASSUME NEW t \in Threads, Retry(t) PROVE Kept'
  BY <1>4 DEF Retry
<1>5. ASSUME NEW t \in Threads, UseFreed(t) PROVE Kept'
  BY <1>5 DEF UseFreed
<1>6. ASSUME NEW t \in Threads, SlotCas(t) PROVE Kept'
  BY <1>6 DEF SlotCas
<1>7. ASSUME NEW t \in Threads, SlotMine(t) PROVE Kept'
  <2>1. pc' = [pc EXCEPT ![t] = "run"] /\ Return(t) /\ UNCHANGED <<map, entries>>
    BY <1>7 DEF SlotMine
  <2> QED
    BY <2>1, <1>return
<1>8. ASSUME NEW t \in Threads, SlotSlow(t) PROVE Kept'
  BY <1>8 DEF SlotSlow
<1>9. ASSUME NEW t \in Threads, SlotCheck(t) PROVE Kept'
  BY <1>9 DEF SlotCheck
<1>10. ASSUME NEW t \in Threads, SlotRead(t) PROVE Kept'
  BY <1>10, <1>return DEF SlotRead
<1>11. ASSUME NEW t \in Threads, DropObjectMap(t) PROVE Kept'
  BY <1>11 DEF DropObjectMap
<1>12. ASSUME NEW t \in Threads, Dropped(t) PROVE Kept'
  <2>1. CASE nrefs[scope[t]] = 0
    BY <1>12, <2>1, <1>return DEF Dropped
  <2>2. CASE nrefs[scope[t]] # 0
    BY <1>12, <2>2 DEF Dropped
  <2> QED
    BY <2>1, <2>2
<1>13. ASSUME NEW t \in Threads, TransferScopeLock(t) PROVE Kept'
  BY <1>13, <1>return DEF TransferScopeLock
<1>14. ASSUME NEW t \in Threads, HoldObjectMap(t) PROVE Kept'
  <2>1. /\ pc[t] = "hold" /\ obj[t] \in Objects /\ scope[t] \in Scopes
        /\ pc' = [pc EXCEPT ![t] = "run"]
        /\ map' = [map EXCEPT ![obj[t]] = scope[t]]
        /\ obj' = [obj EXCEPT ![t] = NoObject]
        /\ UNCHANGED entries
    BY <1>14 DEF HoldObjectMap
  <2>2. \A o \in Objects : map[o] # NoScope => map'[o] = map[o]
    BY <2>1
  <2> \A u \in Threads : /\ pc'[u] = IF u = t THEN "run" ELSE pc[u]
                         /\ obj'[u] = IF u = t THEN NoObject ELSE obj[u]
    BY <2>1
  <2>3. \A u \in Threads : pc'[u] \in Locking \cup Mutating \cup {"hold"} =>
                             u # t /\ pc[u] = pc'[u] /\ obj'[u] = obj[u] /\ obj[u] \in Objects
    OBVIOUS
  <2>4. \A u \in Threads : pc[u] = "hold" /\ u # t => map'[obj[u]] = map[obj[u]]
    BY <2>1
  <2>5. \A u \in Threads : obj'[u] \in {obj[u], NoObject}
    BY <2>1
  <2> QED
    BY <2>1, <2>2, <2>3, <2>4, <2>5
<1>15. ASSUME NEW t \in Threads, CallGC(t) PROVE Kept'
  BY <1>15 DEF CallGC
<1>16. ASSUME NEW t \in Threads, GCReturn(t) PROVE Kept'
  BY <1>16 DEF GCReturn
<1>17. ASSUME NEW t \in Threads, NEW o \in Objects, CallLock(t, o) PROVE Kept'
  <2>1. entries[t][o] < MaxEntries
    BY <1>17 DEF CallLock, Bound
  <2> QED
    BY <1>17, <2>1, <1>call DEF CallLock
<1>18. ASSUME NEW t \in Threads, NEW o \in Objects, UnlockObj(t, o) PROVE Kept'
  BY <1>18 DEF UnlockObj
<1>19. ASSUME NEW t \in Threads, NEW o \in Objects, EnumProperty(t, o) PROVE Kept'
  BY <1>19 DEF EnumProperty
<1>20. ASSUME NEW t \in Threads, NEW o \in Objects, CallSlot(t, o) PROVE Kept'
  <2>1. entries[t][o] < MaxEntries
    BY <1>20 DEF CallSlot, Bound
  <2> QED
    BY <1>20, <2>1, <1>call DEF CallSlot
<1>21. ASSUME NEW t \in Threads, NEW o \in Objects, Mutate(t, o) PROVE Kept'
  BY <1>21 DEF Mutate
<1>22. ASSUME NEW t \in Threads, NEW o \in Objects, FinalizeObject(t, o) PROVE Kept'
  <2>1. /\ map' = [map EXCEPT ![o] = NoScope]
        /\ \A u \in Threads : entries[u][o] = 0
        /\ UNCHANGED <<pc, obj, entries>>
    BY <1>22 DEF FinalizeObject
  <2>2. \A u \in Threads : pc[u] \in {"run", "gc"}
    BY <1>22 DEF FinalizeObject, Stopped, Outside
  <2>3. \A u \in Threads : pc'[u] \notin Locking \cup Mutating \cup {"hold"}
    BY <2>1, <2>2
  <2>4. pc' = pc /\ obj' = obj /\ entries' = entries
    BY <2>1
  <2>5. \A p \in Objects : p # o => map'[p] = map[p]
    BY <2>1
  <2> QED
    BY <2>1, <2>2, <2>3, <2>4, <2>5
<1>23. ASSUME NEW t \in Threads, NEW o \in Objects, NEW p \in Objects, NewObject(t, o, p) PROVE Kept'
  BY <1>23 DEF NewObject
<1>24. ASSUME UNCHANGED vars PROVE Kept'
  BY <1>24 DEF vars
<1> HIDE DEF Kept
<1>25. Kept'
  BY <1>1, <1>2, <1>3, <1>4, <1>5, <1>6, <1>7, <1>8, <1>9, <1>10, <1>11, <1>12, <1>13, <1>14, <1>15, <1>16, <1>17, <1>18, <1>19, <1>20, <1>21, <1>22, <1>23, <1>24 DEF Next, Runs, Call, Caller
<1> QED
  BY <1>0, <1>25 DEF Calls, Kept

(***************************************************************************)
(* Who owns a scope.  Only its owner lets go of a scope.                   *)
(***************************************************************************)
LEMMA OwnersStep ==
  ASSUME TypeOK, TypeOK', Calls, Owners, [Next]_vars
  PROVE  Owners'
<1> USE ScopeLockAssumption DEF ScopeLockAssumption
<1> USE DEF TypeOK, PCs, Stale, Owners, Owning, Goto, Return, locks, heap, locals
<1>leave. ASSUME NEW t \in Threads, NEW s \in live, owner[s] = t, count[s] > 0, LeaveScope(s),
                 pc[t] \in {"run", "recheck"}, pc'[t] \notin Owning,
                 \A u \in Threads \ {t} : pc'[u] = pc[u], UNCHANGED <<live, scope>>
          PROVE  Owners'
  <2>1. \A x \in Scopes : x # s => owner'[x] = owner[x] /\ count'[x] = count[x]
    BY <1>leave DEF LeaveScope
  <2>2. s \in Scopes /\ count'[s] = count[s] - 1 /\ owner'[s] \in {owner[s], NoThread}
    BY <1>leave DEF LeaveScope
  <2>3. owner'[s] \in Threads => count'[s] > 0
    <3>1. count[s] = 1 => owner'[s] = NoThread
      BY <1>leave DEF LeaveScope
    <3> QED
      BY <1>leave, <2>2, <3>1
  <2>4. \A u \in Threads : pc'[u] \in Owning => scope'[u] \in live' /\ owner'[scope'[u]] = u
    BY <1>leave, <2>1, <2>2
  <2>5. ASSUME NEW x \in live', NEW u \in Threads, owner'[x] = u
        PROVE  count'[x] > 0 \/ (pc'[u] \in {"slot_check", "slot_read"} /\ scope'[u] = x)
    <3>1. CASE x = s
      BY <2>3, <2>5, <3>1
    <3>2. CASE x # s
      <4>1. x \in live /\ owner[x] = u /\ count'[x] = count[x]
        BY <1>leave, <2>1, <2>5, <3>2
      <4>2. count[x] > 0 \/ (pc[u] \in {"slot_check", "slot_read"} /\ scope[u] = x)
        BY <4>1
      <4> QED
        BY <1>leave, <4>1, <4>2
    <3> QED
      BY <3>1, <3>2
  <2> QED
    BY <2>4, <2>5
<1>1. ASSUME NEW t \in Threads, LockScope(t) PROVE Owners'
  <2> DEFINE s == scope[t]
  <2>1. /\ pc[t] = "lock" /\ s \in live /\ s \in Scopes /\ owner[s] \in {t, NoThread}
        /\ pc' = [pc EXCEPT ![t] = "recheck"]
        /\ UNCHANGED <<live, scope>>
    BY <1>1 DEF LockScope
  <2>2. owner' = [owner EXCEPT ![s] = t]
    BY <1>1 DEF LockScope
  <2>3. count'[s] > 0 /\ \A x \in Scopes \ {s} : count'[x] = count[x]
    BY <1>1, <2>1 DEF LockScope
  <2> HIDE DEF s
  <2>4. \A u \in Threads : pc'[u] \in Owning => scope'[u] \in live' /\ owner'[scope'[u]] = u
    BY <2>1, <2>2 DEF s
  <2>5. ASSUME NEW x \in live', NEW u \in Threads, owner'[x] = u
        PROVE  count'[x] > 0 \/ (pc'[u] \in {"slot_check", "slot_read"} /\ scope'[u] = x)
    <3>1. CASE x = s
      BY <2>3, <3>1
    <3>2. CASE x # s
      <4>1. x \in live /\ owner[x] = u /\ count'[x] = count[x]
        BY <2>1, <2>2, <2>3, <2>5, <3>2
      <4>2. count[x] > 0 \/ (pc[u] \in {"slot_check", "slot_read"} /\ scope[u] = x)
        BY <4>1
      <4> QED
        BY <2>1, <4>1, <4>2
    <3> QED
      BY <3>1, <3>2
  <2> QED
    BY <2>4, <2>5
<1>2. ASSUME NEW t \in Threads, Locked(t) PROVE Owners'
  BY <1>2 DEF Locked
<1>3. ASSUME NEW t \in Threads, LostRace(t) PROVE Owners'
  <2>1. scope[t] \in live /\ owner[scope[t]] = t /\ count[scope[t]] > 0
    BY <1>3 DEF LostRace
  <2> QED
    BY <1>3, <2>1, <1>leave DEF LostRace
<1>4. ASSUME NEW t \in Threads, Retry(t) PROVE Owners'
  BY <1>4 DEF Retry
<1>5. ASSUME NEW t \in Threads, UseFreed(t) PROVE Owners'
  BY <1>5 DEF UseFreed
<1>6. ASSUME NEW t \in Threads, SlotCas(t) PROVE Owners'
  BY <1>6 DEF SlotCas
<1>7. ASSUME NEW t \in Threads, SlotMine(t) PROVE Owners'
  BY <1>7 DEF SlotMine
<1>8. ASSUME NEW t \in Threads, SlotSlow(t) PROVE Owners'
  BY <1>8 DEF SlotSlow
<1>9. ASSUME NEW t \in Threads, SlotCheck(t) PROVE Owners'
  <2> DEFINE s == scope[t]
  <2>1. /\ pc[t] = "slot_check" /\ s \in live /\ s \in Scopes /\ owner[s] = t
        /\ UNCHANGED <<live, scope, count>>
    BY <1>9 DEF SlotCheck
  <2>2. CASE map[obj[t]] = s
    <3>1. pc' = [pc EXCEPT ![t] = "slot_read"] /\ owner' = owner
      BY <1>9, <2>2 DEF SlotCheck
    <3> QED
      BY <2>1, <3>1
  <2>3. CASE map[obj[t]] # s
    <3>1. pc' = [pc EXCEPT ![t] = "again"] /\ owner' = [owner EXCEPT ![s] = NoThread]
      BY <1>9, <2>3 DEF SlotCheck
    <3> HIDE DEF s
    <3>2. \A u \in Threads : pc'[u] \in Owning => scope'[u] \in live' /\ owner'[scope'[u]] = u
      <4>1. ASSUME NEW u \in Threads, pc'[u] \in Owning
            PROVE  u # t /\ scope[u] \in live /\ owner[scope[u]] = u
        BY <2>1, <3>1, <4>1
      <4> QED
        BY <2>1, <3>1, <4>1
    <3>3. ASSUME NEW x \in live', NEW u \in Threads, owner'[x] = u
          PROVE  count'[x] > 0 \/ (pc'[u] \in {"slot_check", "slot_read"} /\ scope'[u] = x)
      <4>1. x # s /\ x \in live /\ owner[x] = u /\ count'[x] = count[x]
        BY <2>1, <3>1, <3>3
      <4>2. count[x] > 0 \/ (pc[u] \in {"slot_check", "slot_read"} /\ scope[u] = x)
        BY <4>1
      <4>3. scope[t] = s
        BY DEF s
      <4> QED
        BY <2>1, <3>1, <4>1, <4>2, <4>3
    <3> QED
      BY <3>2, <3>3
  <2> QED
    BY <2>2, <2>3
<1>10. ASSUME NEW t \in Threads, SlotRead(t) PROVE Owners'
  BY <1>10 DEF SlotRead
<1>11. ASSUME NEW t \in Threads, DropObjectMap(t) PROVE Owners'
  BY <1>11 DEF DropObjectMap
<1>12. ASSUME NEW t \in Threads, Dropped(t) PROVE Owners'
  BY <1>12 DEF Dropped
<1>13. ASSUME NEW t \in Threads, TransferScopeLock(t) PROVE Owners'
  BY <1>13 DEF TransferScopeLock
<1>14. ASSUME NEW t \in Threads, HoldObjectMap(t) PROVE Owners'
  BY <1>14 DEF HoldObjectMap
<1>15. ASSUME NEW t \in Threads, CallGC(t) PROVE Owners'
  BY <1>15 DEF CallGC
<1>16. ASSUME NEW t \in Threads, GCReturn(t) PROVE Owners'
  BY <1>16 DEF GCReturn
<1>17. ASSUME NEW t \in Threads, NEW o \in Objects, CallLock(t, o) PROVE Owners'
  BY <1>17 DEF CallLock
<1>18. ASSUME NEW t \in Threads, NEW o \in Objects, UnlockObj(t, o) PROVE Owners'
  <2>1. CASE owner[map[o]] = t
    <3>1. map[o] \in live /\ count[map[o]] > 0
      <4>1. map[o] # NoScope /\ pc[t] = "run"
        BY <1>18 DEF UnlockObj, Calls
      <4>2. map[o] \in live
        BY <4>1 DEF Calls
      <4> QED
        BY <2>1, <4>1, <4>2
    <3> QED
      BY <1>18, <2>1, <3>1, <1>leave DEF UnlockObj
  <2>2. CASE owner[map[o]] # t
    BY <1>18, <2>2 DEF UnlockObj
  <2> QED
    BY <2>1, <2>2
<1>19. ASSUME NEW t \in Threads, NEW o \in Objects, EnumProperty(t, o) PROVE Owners'
  BY <1>19 DEF EnumProperty
<1>20. ASSUME NEW t \in Threads, NEW o \in Objects, CallSlot(t, o) PROVE Owners'
  BY <1>20 DEF CallSlot
<1>21. ASSUME NEW t \in Threads, NEW o \in Objects, Mutate(t, o) PROVE Owners'
  <2>1. PICK n \in Scopes \ live :
          /\ live' = live \cup {n}
          /\ owner' = [owner EXCEPT ![n] = t]
          /\ count' = [count EXCEPT ![n] = 1]
    BY <1>21 DEF Mutate
  <2>2. /\ map[o] \in live /\ owner[map[o]] = t /\ pc[t] = "run"
        /\ pc' = [pc EXCEPT ![t] = "drop"]
        /\ scope' = [scope EXCEPT ![t] = map[o]]
    BY <1>21 DEF Mutate, Calls
  <2>3. \A u \in Threads : pc'[u] \in Owning => scope'[u] \in live' /\ owner'[scope'[u]] = u
    BY <2>1, <2>2
  <2>4. ASSUME NEW x \in live', NEW u \in Threads, owner'[x] = u
        PROVE  count'[x] > 0 \/ (pc'[u] \in {"slot_check", "slot_read"} /\ scope'[u] = x)
    <3>1. CASE x = n
      BY <2>1, <3>1
    <3>2. CASE x # n
      <4>1. x \in live /\ owner[x] = u /\ count'[x] = count[x]
        BY <2>1, <2>4, <3>2
      <4>2. count[x] > 0 \/ (pc[u] \in {"slot_check", "slot_read"} /\ scope[u] = x)
        BY <4>1
      <4> QED
        BY <2>2, <4>1, <4>2
    <3> QED
      BY <3>1, <3>2
  <2> QED
    BY <2>3, <2>4
<1>22. ASSUME NEW t \in Threads, NEW o \in Objects, FinalizeObject(t, o) PROVE Owners'
  <2>1. live' \subseteq live /\ UNCHANGED <<owner, count, pc>>
    BY <1>22 DEF FinalizeObject
  <2>2. \A u \in Threads : pc[u] \in {"run", "gc"}
    BY <1>22 DEF FinalizeObject, Stopped, Outside
  <2> QED
    BY <2>1, <2>2
<1>23. ASSUME NEW t \in Threads, NEW o \in Objects, NEW p \in Objects, NewObject(t, o, p) PROVE Owners'
  BY <1>23 DEF NewObject
<1>24. ASSUME UNCHANGED vars PROVE Owners'
  BY <1>24 DEF vars
<1> QED
  BY <1>1, <1>2, <1>3, <1>4, <1>5, <1>6, <1>7, <1>8, <1>9, <1>10, <1>11, <1>12, <1>13, <1>14, <1>15, <1>16, <1>17, <1>18, <1>19, <1>20, <1>21, <1>22, <1>23, <1>24 DEF Next, Runs, Call, Caller

LEMMA OneMore ==
  ASSUME NEW S, IsFiniteSet(S), NEW x, x \notin S
  PROVE  Cardinality(S \cup {x}) = Cardinality(S) + 1
BY FS_AddElement

LEMMA OneLess ==
  ASSUME NEW S, IsFiniteSet(S), NEW x \in S
  PROVE  Cardinality(S \ {x}) = Cardinality(S) - 1
BY FS_RemoveElement

(***************************************************************************)
(* nrefs counts the objects that have the scope and the threads about to   *)
(* drop it.                                                                *)
(***************************************************************************)
LEMMA NrefsStep ==
  ASSUME TypeOK, TypeOK', Calls, Owners, NrefsExact, [Next]_vars
  PROVE  NrefsExact'
<1> USE ScopeLockAssumption DEF ScopeLockAssumption
<1> USE DEF TypeOK, Stale, Goto, Return, locks, heap, locals
<1> DEFINE Exact(s) == nrefs[s] = Cardinality(Sharing(s)) + Cardinality(Dropping(s))
<1>exact. ASSUME NEW s \in live PROVE Exact(s)
  BY NrefsCounts
<1>goal. ASSUME \A s \in live' : Exact(s)' PROVE NrefsExact'
  BY <1>goal DEF NrefsExact, Sharing, Dropping
<1>sharing. ASSUME UNCHANGED map, NEW s PROVE Sharing(s)' = Sharing(s)
  BY <1>sharing DEF Sharing
<1>dropping. ASSUME NEW s, \A u \in Threads : (pc'[u] = "drop" /\ scope'[u] = s) <=> (pc[u] = "drop" /\ scope[u] = s)
             PROVE  Dropping(s)' = Dropping(s)
  BY <1>dropping DEF Dropping
<1>frame. ASSUME UNCHANGED <<map, nrefs>>, live' \subseteq live,
                 \A u \in Threads : pc'[u] = "drop" <=> pc[u] = "drop",
                 \A u \in Threads : pc[u] = "drop" => scope'[u] = scope[u]
          PROVE  NrefsExact'
  <2>1. ASSUME NEW s \in live' PROVE Exact(s)'
    <3>1. Sharing(s)' = Sharing(s)
      BY <1>frame, <1>sharing
    <3>2. Dropping(s)' = Dropping(s)
      BY <1>frame, <1>dropping
    <3>3. Exact(s) /\ nrefs' = nrefs
      BY <1>frame, <1>exact
    <3> QED
      BY <3>1, <3>2, <3>3
  <2> QED
    BY <2>1, <1>goal
<1> HIDE DEF Exact
<1>1. ASSUME NEW t \in Threads, LockScope(t) PROVE NrefsExact'
  BY <1>1, <1>frame DEF LockScope
<1>2. ASSUME NEW t \in Threads, Locked(t) PROVE NrefsExact'
  BY <1>2, <1>frame DEF Locked
<1>3. ASSUME NEW t \in Threads, LostRace(t) PROVE NrefsExact'
  BY <1>3, <1>frame DEF LostRace
<1>4. ASSUME NEW t \in Threads, Retry(t) PROVE NrefsExact'
  BY <1>4, <1>frame DEF Retry
<1>5. ASSUME NEW t \in Threads, UseFreed(t) PROVE NrefsExact'
  BY <1>5, <1>frame DEF UseFreed
<1>6. ASSUME NEW t \in Threads, SlotCas(t) PROVE NrefsExact'
  BY <1>6, <1>frame DEF SlotCas
<1>7. ASSUME NEW t \in Threads, SlotMine(t) PROVE NrefsExact'
  BY <1>7, <1>frame DEF SlotMine
<1>8. ASSUME NEW t \in Threads, SlotSlow(t) PROVE NrefsExact'
  BY <1>8, <1>frame DEF SlotSlow
<1>9. ASSUME NEW t \in Threads, SlotCheck(t) PROVE NrefsExact'
  BY <1>9, <1>frame DEF SlotCheck
<1>10. ASSUME NEW t \in Threads, SlotRead(t) PROVE NrefsExact'
  BY <1>10, <1>frame DEF SlotRead
<1>11. ASSUME NEW t \in Threads, DropObjectMap(t) PROVE NrefsExact'
  <2> PICK s : s = scope[t]
    OBVIOUS
  <2>1. /\ pc[t] = "drop" /\ s \in live /\ s \in Scopes
        /\ pc' = [pc EXCEPT ![t] = "dropped"]
        /\ nrefs' = [nrefs EXCEPT ![s] = nrefs[s] - 1]
        /\ UNCHANGED <<map, live, scope>>
    BY <1>11 DEF DropObjectMap, Owners, Owning
  <2>2. Dropping(s)' = Dropping(s) \ {t} /\ t \in Dropping(s)
    BY <2>1 DEF Dropping
  <2>3. Cardinality(Dropping(s)') = Cardinality(Dropping(s)) - 1
    BY <2>2, RefSets, OneLess
  <2>4. ASSUME NEW x \in live' PROVE Exact(x)'
    <3>1. CASE x = s
      BY <2>1, <2>3, <3>1, <1>exact, <1>sharing, RefSets DEF Exact
    <3>2. CASE x # s
      <4>1. Dropping(x)' = Dropping(x)
        BY <2>1, <3>2, <1>dropping
      <4> QED
        BY <2>1, <3>2, <4>1, <1>exact, <1>sharing DEF Exact
    <3> QED
      BY <3>1, <3>2
  <2> QED
    BY <2>4, <1>goal
<1>12. ASSUME NEW t \in Threads, Dropped(t) PROVE NrefsExact'
  <2>1. CASE nrefs[scope[t]] = 0
    BY <1>12, <2>1, <1>frame DEF Dropped
  <2>2. CASE nrefs[scope[t]] # 0
    BY <1>12, <2>2, <1>frame DEF Dropped
  <2> QED
    BY <2>1, <2>2
<1>13. ASSUME NEW t \in Threads, TransferScopeLock(t) PROVE NrefsExact'
  BY <1>13, <1>frame DEF TransferScopeLock
<1>14. ASSUME NEW t \in Threads, HoldObjectMap(t) PROVE NrefsExact'
  <2> PICK s, o : s = scope[t] /\ o = obj[t]
    OBVIOUS
  <2>1. /\ pc[t] = "hold" /\ s \in live /\ s \in Scopes /\ o \in Objects /\ map[o] = NoScope
        /\ pc' = [pc EXCEPT ![t] = "run"]
        /\ nrefs' = [nrefs EXCEPT ![s] = nrefs[s] + 1]
        /\ map' = [map EXCEPT ![o] = s]
        /\ scope' = [scope EXCEPT ![t] = NoScope]
        /\ UNCHANGED live
    BY <1>14 DEF HoldObjectMap, Calls
  <2>2. ASSUME NEW x \in live PROVE Dropping(x)' = Dropping(x)
    BY <2>1, <1>dropping
  <2>3. Sharing(s)' = Sharing(s) \cup {o} /\ o \notin Sharing(s)
    BY <2>1 DEF Sharing
  <2>4. Cardinality(Sharing(s)') = Cardinality(Sharing(s)) + 1
    BY <2>3, RefSets, OneMore
  <2>5. ASSUME NEW x \in live' PROVE Exact(x)'
    <3>1. CASE x = s
      BY <2>1, <2>2, <2>4, <3>1, <1>exact, RefSets DEF Exact
    <3>2. CASE x # s
      <4>1. Sharing(x)' = Sharing(x)
        BY <2>1, <3>2 DEF Sharing
      <4> QED
        BY <2>1, <2>2, <3>2, <4>1, <1>exact DEF Exact
    <3> QED
      BY <3>1, <3>2
  <2> QED
    BY <2>5, <1>goal
<1>15. ASSUME NEW t \in Threads, CallGC(t) PROVE NrefsExact'
  BY <1>15, <1>frame DEF CallGC
<1>16. ASSUME NEW t \in Threads, GCReturn(t) PROVE NrefsExact'
  BY <1>16, <1>frame DEF GCReturn
<1>17. ASSUME NEW t \in Threads, NEW o \in Objects, CallLock(t, o) PROVE NrefsExact'
  BY <1>17, <1>frame DEF CallLock
<1>18. ASSUME NEW t \in Threads, NEW o \in Objects, UnlockObj(t, o) PROVE NrefsExact'
  BY <1>18, <1>frame DEF UnlockObj
<1>19. ASSUME NEW t \in Threads, NEW o \in Objects, EnumProperty(t, o) PROVE NrefsExact'
  BY <1>19, <1>frame DEF EnumProperty
<1>20. ASSUME NEW t \in Threads, NEW o \in Objects, CallSlot(t, o) PROVE NrefsExact'
  BY <1>20, <1>frame DEF CallSlot
<1>21. ASSUME NEW t \in Threads, NEW o \in Objects, Mutate(t, o) PROVE NrefsExact'
  <2> PICK s : s = map[o]
    OBVIOUS
  <2>1. PICK n \in Scopes \ live :
          /\ live' = live \cup {n}
          /\ nrefs' = [nrefs EXCEPT ![n] = 1]
          /\ map' = [map EXCEPT ![o] = n]
    BY <1>21 DEF Mutate
  <2>2. /\ pc[t] = "run" /\ s \in live /\ s \in Scopes
        /\ pc' = [pc EXCEPT ![t] = "drop"]
        /\ scope' = [scope EXCEPT ![t] = s]
    BY <1>21 DEF Mutate, Calls
  <2>3. Sharing(s)' = Sharing(s) \ {o} /\ o \in Sharing(s) /\ Sharing(n)' = {o}
    BY <2>1, <2>2 DEF Sharing
  <2>4. \A x \in live \ {s} : Sharing(x)' = Sharing(x)
    BY <2>1 DEF Sharing
  <2>5. \A u \in Threads : pc[u] = "drop" => scope[u] \in live
    BY DEF Owners, Owning
  <2>6. Dropping(s)' = Dropping(s) \cup {t} /\ t \notin Dropping(s) /\ Dropping(n)' = {}
    BY <2>1, <2>2, <2>5 DEF Dropping
  <2>7. \A x \in live \ {s} : Dropping(x)' = Dropping(x)
    BY <2>2, <1>dropping
  <2>8. Cardinality(Sharing(s)') = Cardinality(Sharing(s)) - 1
    BY <2>3, RefSets, OneLess
  <2>9. Cardinality(Dropping(s)') = Cardinality(Dropping(s)) + 1
    BY <2>6, RefSets, OneMore
  <2>10. Cardinality(Sharing(n)') = 1 /\ Cardinality(Dropping(n)') = 0
    BY <2>3, <2>6, FS_Singleton, FS_EmptySet
  <2>11. ASSUME NEW x \in live' PROVE Exact(x)'
    <3>1. CASE x = n
      BY <2>1, <2>10, <3>1 DEF Exact
    <3>2. CASE x = s
      BY <2>1, <2>2, <2>8, <2>9, <3>2, <1>exact, RefSets DEF Exact
    <3>3. CASE x \notin {n, s}
      BY <2>1, <2>4, <2>7, <3>3, <1>exact DEF Exact
    <3> QED
      BY <3>1, <3>2, <3>3
  <2> QED
    BY <2>11, <1>goal
<1>22. ASSUME NEW t \in Threads, NEW o \in Objects, FinalizeObject(t, o) PROVE NrefsExact'
  <2> PICK s : s = map[o]
    OBVIOUS
  <2>1. /\ s \in live /\ s \in Scopes
        /\ nrefs' = [nrefs EXCEPT ![s] = nrefs[s] - 1]
        /\ map' = [map EXCEPT ![o] = NoScope]
        /\ live' \subseteq live
        /\ UNCHANGED <<pc, scope>>
    BY <1>22 DEF FinalizeObject
  <2>2. ASSUME NEW x PROVE Dropping(x)' = Dropping(x)
    BY <2>1, <1>dropping
  <2>3. Sharing(s)' = Sharing(s) \ {o} /\ o \in Sharing(s)
    BY <2>1 DEF Sharing
  <2>4. Cardinality(Sharing(s)') = Cardinality(Sharing(s)) - 1
    BY <2>3, RefSets, OneLess
  <2>5. ASSUME NEW x \in live' PROVE Exact(x)'
    <3>1. CASE x = s
      BY <2>1, <2>2, <2>4, <3>1, <1>exact, RefSets DEF Exact
    <3>2. CASE x # s
      <4>1. Sharing(x)' = Sharing(x)
        BY <2>1, <3>2 DEF Sharing
      <4> QED
        BY <2>1, <2>2, <3>2, <4>1, <1>exact DEF Exact
    <3> QED
      BY <3>1, <3>2
  <2> QED
    BY <2>5, <1>goal
<1>23. ASSUME NEW t \in Threads, NEW o \in Objects, NEW p \in Objects, NewObject(t, o, p) PROVE NrefsExact'
  BY <1>23, <1>frame DEF NewObject
<1>24. ASSUME UNCHANGED vars PROVE NrefsExact'
  BY <1>24, <1>frame DEF vars
<1> QED
  BY <1>1, <1>2, <1>3, <1>4, <1>5, <1>6, <1>7, <1>8, <1>9, <1>10, <1>11, <1>12, <1>13, <1>14, <1>15, <1>16, <1>17, <1>18, <1>19, <1>20, <1>21, <1>22, <1>23, <1>24 DEF Next, Runs, Call, Caller

LEMMA ScopeObjectStep ==
  ASSUME TypeOK, TypeOK', Calls, NrefsExact, ScopeObjectCorrect, [Next]_vars
  PROVE  ScopeObjectCorrect'
<1> USE ScopeLockAssumption DEF ScopeLockAssumption
<1> USE DEF TypeOK, Stale, Goto, Return, locks, heap, locals
<1>frame. ASSUME UNCHANGED <<map, object>>, live' \subseteq live PROVE ScopeObjectCorrect'
  BY <1>frame DEF ScopeObjectCorrect
<1>1. ASSUME NEW t \in Threads, LockScope(t) PROVE ScopeObjectCorrect'
  BY <1>1, <1>frame DEF LockScope
<1>2. ASSUME NEW t \in Threads, Locked(t) PROVE ScopeObjectCorrect'
  BY <1>2, <1>frame DEF Locked
<1>3. ASSUME NEW t \in Threads, LostRace(t) PROVE ScopeObjectCorrect'
  BY <1>3, <1>frame DEF LostRace
<1>4. ASSUME NEW t \in Threads, Retry(t) PROVE ScopeObjectCorrect'
  BY <1>4, <1>frame DEF Retry
<1>5. ASSUME NEW t \in Threads, UseFreed(t) PROVE ScopeObjectCorrect'
  BY <1>5, <1>frame DEF UseFreed
<1>6. ASSUME NEW t \in Threads, SlotCas(t) PROVE ScopeObjectCorrect'
  BY <1>6, <1>frame DEF SlotCas
<1>7. ASSUME NEW t \in Threads, SlotMine(t) PROVE ScopeObjectCorrect'
  BY <1>7, <1>frame DEF SlotMine
<1>8. ASSUME NEW t \in Threads, SlotSlow(t) PROVE ScopeObjectCorrect'
  BY <1>8, <1>frame DEF SlotSlow
<1>9. ASSUME NEW t \in Threads, SlotCheck(t) PROVE ScopeObjectCorrect'
  BY <1>9, <1>frame DEF SlotCheck
<1>10. ASSUME NEW t \in Threads, SlotRead(t) PROVE ScopeObjectCorrect'
  BY <1>10, <1>frame DEF SlotRead
<1>11. ASSUME NEW t \in Threads, DropObjectMap(t) PROVE ScopeObjectCorrect'
  BY <1>11, <1>frame DEF DropObjectMap
<1>12. ASSUME NEW t \in Threads, Dropped(t) PROVE ScopeObjectCorrect'
  BY <1>12, <1>frame DEF Dropped
<1>13. ASSUME NEW t \in Threads, TransferScopeLock(t) PROVE ScopeObjectCorrect'
  BY <1>13, <1>frame DEF TransferScopeLock
<1>14. ASSUME NEW t \in Threads, HoldObjectMap(t) PROVE ScopeObjectCorrect'
  <2>1. /\ obj[t] \in Objects /\ map[obj[t]] = NoScope /\ UNCHANGED <<live, object>>
        /\ map' = [map EXCEPT ![obj[t]] = scope[t]]
    BY <1>14 DEF HoldObjectMap, Calls
  <2>2. \A s \in live : object[s] # obj[t]
    <3>1. ASSUME NEW s \in live, object[s] = obj[t] PROVE FALSE
      <4> object[s] # NoObject
        BY <2>1, <3>1
      <4>1. map[object[s]] = s
        BY DEF ScopeObjectCorrect
      <4>2. s \in Scopes
        OBVIOUS
      <4> QED
        BY <2>1, <3>1, <4>1, <4>2
    <3> QED
      BY <3>1
  <2> QED
    BY <2>1, <2>2 DEF ScopeObjectCorrect
<1>15. ASSUME NEW t \in Threads, CallGC(t) PROVE ScopeObjectCorrect'
  BY <1>15, <1>frame DEF CallGC
<1>16. ASSUME NEW t \in Threads, GCReturn(t) PROVE ScopeObjectCorrect'
  BY <1>16, <1>frame DEF GCReturn
<1>17. ASSUME NEW t \in Threads, NEW o \in Objects, CallLock(t, o) PROVE ScopeObjectCorrect'
  BY <1>17, <1>frame DEF CallLock
<1>18. ASSUME NEW t \in Threads, NEW o \in Objects, UnlockObj(t, o) PROVE ScopeObjectCorrect'
  BY <1>18, <1>frame DEF UnlockObj
<1>19. ASSUME NEW t \in Threads, NEW o \in Objects, EnumProperty(t, o) PROVE ScopeObjectCorrect'
  BY <1>19, <1>frame DEF EnumProperty
<1>20. ASSUME NEW t \in Threads, NEW o \in Objects, CallSlot(t, o) PROVE ScopeObjectCorrect'
  BY <1>20, <1>frame DEF CallSlot
<1>21. ASSUME NEW t \in Threads, NEW o \in Objects, Mutate(t, o) PROVE ScopeObjectCorrect'
  <2>1. PICK n \in Scopes \ live :
          /\ live' = live \cup {n}
          /\ object' = [object EXCEPT ![n] = o]
          /\ map' = [map EXCEPT ![o] = n]
    BY <1>21 DEF Mutate
  <2>2. \A s \in live : object[s] # o
    BY <1>21, SMTT(20) DEF Mutate, ScopeObjectCorrect
  <2>3. n \in live' /\ object'[n] = o
    BY <2>1
  <2>4. \A s \in live' : s # n => s \in live /\ object'[s] = object[s]
    BY <2>1
  <2>5. map'[o] = n /\ \A p \in Objects : p # o => map'[p] = map[p]
    BY <2>1
  <2> QED
    BY <2>2, <2>3, <2>4, <2>5 DEF ScopeObjectCorrect
<1>22. ASSUME NEW t \in Threads, NEW o \in Objects, FinalizeObject(t, o) PROVE ScopeObjectCorrect'
  <2> PICK s : s = map[o]
    OBVIOUS
  <2>1. /\ s \in live /\ s \in Scopes /\ o \in Sharing(s)
        /\ map' = [map EXCEPT ![o] = NoScope]
        /\ live' = IF nrefs[s] = 1 THEN live \ {s} ELSE live
        /\ object' = IF nrefs[s] > 1 /\ object[s] = o THEN [object EXCEPT ![s] = NoObject] ELSE object
    BY <1>22 DEF FinalizeObject, Sharing
  <2>2. nrefs[s] >= 1 /\ nrefs[s] \in Nat
    BY <2>1, NrefsCounts
  <2>3. \A x \in live : object[x] = o => x = s
    BY DEF ScopeObjectCorrect
  <2>4. ASSUME NEW x \in live', object'[x] # NoObject PROVE map'[object'[x]] = x
    <3>1. x \in live /\ object'[x] = object[x] /\ object[x] \in Objects
      BY <2>1, <2>4
    <3>2. object[x] # o
      BY <2>1, <2>2, <2>3, <2>4, <3>1
    <3> QED
      BY <2>1, <3>1, <3>2 DEF ScopeObjectCorrect
  <2> QED
    BY <2>4 DEF ScopeObjectCorrect
<1>23. ASSUME NEW t \in Threads, NEW o \in Objects, NEW p \in Objects, NewObject(t, o, p) PROVE ScopeObjectCorrect'
  BY <1>23, <1>frame DEF NewObject
<1>24. ASSUME UNCHANGED vars PROVE ScopeObjectCorrect'
  BY <1>24, <1>frame DEF vars
<1> QED
  BY <1>1, <1>2, <1>3, <1>4, <1>5, <1>6, <1>7, <1>8, <1>9, <1>10, <1>11, <1>12, <1>13, <1>14, <1>15, <1>16, <1>17, <1>18, <1>19, <1>20, <1>21, <1>22, <1>23, <1>24 DEF Next, Runs, Call, Caller

LEMMA RefsInit == Init => RefsInv
<1> SUFFICES ASSUME Init PROVE RefsInv
  OBVIOUS
<1> USE ScopeLockAssumption DEF ScopeLockAssumption
<1>1. TypeOK
  BY TypeInit
<1>2. \A t \in Threads : pc[t] = "run"
  BY DEF Init
<1>3. /\ \A t \in Threads, o \in Objects : entries[t][o] = 0
      /\ \A s \in Scopes : owner[s] = NoThread
      /\ ops \in Callers
  BY DEF Init
<1>4. Calls
  BY <1>2, <1>3 DEF Calls, Locking, Mutating
<1>5. Owners
  BY <1>1, <1>2, <1>3 DEF Owners, Owning, TypeOK
<1> PICK s : s = CHOOSE x \in Scopes : TRUE
  OBVIOUS
<1>6. s \in Scopes /\ live = {s} /\ nrefs[s] = 1 /\ object[s] = Proto
  BY DEF Init
<1>7. \A o \in Objects : map[o] = s <=> o = Proto
  BY <1>6 DEF Init
<1>8. Sharing(s) = {Proto} /\ Dropping(s) = {}
  BY <1>2, <1>7 DEF Sharing, Dropping
<1>9. Cardinality(Sharing(s)) = 1 /\ Cardinality(Dropping(s)) = 0
  BY <1>8, FS_Singleton, FS_EmptySet
<1>10. NrefsExact
  <2>1. \A x \in live : nrefs[x] = Cardinality(Sharing(x)) + Cardinality(Dropping(x))
    <3>1. nrefs[s] = Cardinality(Sharing(s)) + Cardinality(Dropping(s))
      BY <1>6, <1>9
    <3>2. \A x \in live : x = s
      BY <1>6
    <3> QED
      BY <3>1, <3>2
  <2> QED
    BY <2>1 DEF NrefsExact, Sharing, Dropping
<1>11. ScopeObjectCorrect
  BY <1>6, <1>7 DEF ScopeObjectCorrect
<1> QED
  BY <1>1, <1>4, <1>5, <1>10, <1>11 DEF RefsInv

LEMMA RefsStep == RefsInv /\ [Next]_vars => RefsInv'
<1> SUFFICES ASSUME RefsInv, [Next]_vars PROVE RefsInv'
  OBVIOUS
<1>1. TypeOK /\ Calls /\ Owners /\ NrefsExact /\ ScopeObjectCorrect
  BY DEF RefsInv
<1>2. TypeOK'
  BY <1>1, TypeStep
<1> QED
  BY <1>1, <1>2, CallsStep, OwnersStep, NrefsStep, ScopeObjectStep DEF RefsInv

\* Whatever its callers do, the engine counts the references to a scope
\* correctly, though js_NewObject, js_DropObjectMap and js_GetMutableScope
\* count them without the scope's lock; the scope an object has exists, a scope
\* that names an owner is the owner's, and a scope that a thread has locked in
\* js_LockObj or in a slot access, or is dropping, exists and is locked by it.
THEOREM RefsCorrect == Spec => []RefsExact
<1>1. RefsInv => RefsExact
  BY DEF RefsInv, RefsExact, Owners, Owning, HeldStays
<1> QED
  BY <1>1, RefsInit, RefsStep, PTL DEF Spec

(***************************************************************************)
(* js_LockObj loses one race: who has not got the scope its object has now *)
(* finds there a scope that is the object's own.                           *)
(***************************************************************************)
Racing == {"lock", "recheck", "slot_cas", "slot_check"}

\* Whatever a thread does, an object somebody has in hand keeps its scope or
\* gets one of its own, and a scope that is the object's own stays so.
LEMMA OwnScopeKept ==
  ASSUME RefsInv, NEW t \in Threads, Call(t) \/ Caller(t),
         NEW u \in Threads, pc[u] \in Racing
  PROVE  /\ map'[obj[u]] # map[obj[u]] => object'[map'[obj[u]]] = obj[u]
         /\ object[map[obj[u]]] = obj[u] => object'[map'[obj[u]]] = obj[u]
<1> USE ScopeLockAssumption DEF ScopeLockAssumption
<1> DEFINE o == obj[u]
<1>1. TypeOK /\ Calls /\ ScopeObjectCorrect
  BY DEF RefsInv
<1>2. o \in Objects /\ map[o] \in live /\ map[o] \in Scopes
  BY <1>1 DEF TypeOK, Calls, Racing, Locking
<1> HIDE DEF o
<1>3. CASE UNCHANGED <<map, object>>
  BY <1>3 DEF o
<1>4. ASSUME NEW p \in Objects, Mutate(t, p)
      PROVE  /\ map'[o] # map[o] => object'[map'[o]] = o
             /\ object[map[o]] = o => object'[map'[o]] = o
  <2>1. PICK n \in Scopes \ live : /\ object' = [object EXCEPT ![n] = p]
                                  /\ map' = [map EXCEPT ![p] = n]
    BY <1>4 DEF Mutate
  <2> QED
    BY <1>1, <1>2, <2>1 DEF TypeOK
<1>5. ASSUME HoldObjectMap(t) PROVE UNCHANGED object /\ map'[o] = map[o]
  <2>1. obj[t] # o
    BY <1>1, <1>2, <1>5, NoScope \notin Scopes DEF HoldObjectMap, Goto, Calls
  <2> QED
    BY <1>1, <1>2, <1>5, <2>1 DEF HoldObjectMap, TypeOK
<1>6. ASSUME NEW p \in Objects, FinalizeObject(t, p) PROVE FALSE
  BY <1>6 DEF FinalizeObject, Stopped, Outside, Racing
<1>7. Call(t) => UNCHANGED <<map, object>> \/ HoldObjectMap(t)
  BY DEF Call, LockScope, Locked, LostRace, Retry, UseFreed, SlotCas, SlotMine, SlotSlow, SlotCheck,
         SlotRead, DropObjectMap, Dropped, TransferScopeLock, GCReturn, heap
<1>8. Caller(t) => \/ UNCHANGED <<map, object>>
                   \/ \E p \in Objects : Mutate(t, p) \/ FinalizeObject(t, p)
  BY DEF Caller, CallGC, CallLock, UnlockObj, CallSlot, EnumProperty, NewObject, heap
<1> QED
  BY <1>3, <1>4, <1>5, <1>6, <1>7, <1>8 DEF o

LEMMA RaceStep == RefsInv /\ RaceLostOnce /\ [Next]_vars => RaceLostOnce'
<1> SUFFICES ASSUME RefsInv, RaceLostOnce, [Next]_vars PROVE RaceLostOnce'
  OBVIOUS
<1>1. CASE UNCHANGED vars
  BY <1>1 DEF vars, RaceLostOnce
<1>2. ASSUME NEW t \in Threads, Call(t) \/ Caller(t) PROVE RaceLostOnce'
  <2>1. TypeOK /\ Calls
    BY DEF RefsInv
  <2>2. \A u \in Threads \ {t} : pc'[u] = pc[u] /\ obj'[u] = obj[u] /\ scope'[u] = scope[u]
    <3>1. Call(t) => \A u \in Threads \ {t} : pc'[u] = pc[u] /\ obj'[u] = obj[u] /\ scope'[u] = scope[u]
      BY <2>1 DEF TypeOK, Call, LockScope, Locked, LostRace, Retry, UseFreed, SlotCas, SlotMine, SlotSlow,
           SlotCheck, SlotRead, DropObjectMap, Dropped, TransferScopeLock, HoldObjectMap, GCReturn,
           Goto, Return, locals
    <3>2. Caller(t) => \A u \in Threads \ {t} : pc'[u] = pc[u] /\ obj'[u] = obj[u] /\ scope'[u] = scope[u]
      BY <2>1 DEF TypeOK, Caller, CallGC, CallLock, UnlockObj, CallSlot, Mutate, EnumProperty, FinalizeObject,
           NewObject, Goto, locals
    <3> QED
      BY <1>2, <3>1, <3>2
  <2>3. ASSUME pc'[t] \in Racing
        PROVE  \/ pc[t] \in Racing /\ obj'[t] = obj[t] /\ scope'[t] = scope[t]
               \/ map'[obj'[t]] = scope'[t]
    <3>1. Call(t) => \/ pc[t] \in Racing /\ obj'[t] = obj[t] /\ scope'[t] = scope[t]
                     \/ map'[obj'[t]] = scope'[t]
      BY <2>1, <2>3 DEF TypeOK, Call, LockScope, Locked, LostRace, Retry, UseFreed, SlotCas, SlotMine, SlotSlow,
           SlotCheck, SlotRead, DropObjectMap, Dropped, TransferScopeLock, HoldObjectMap, GCReturn,
           Goto, Return, locals, Racing
    <3>2. Caller(t) => \/ pc[t] \in Racing /\ obj'[t] = obj[t] /\ scope'[t] = scope[t]
                       \/ map'[obj'[t]] = scope'[t]
      BY <2>1, <2>3 DEF TypeOK, Caller, CallGC, CallLock, UnlockObj, CallSlot, Mutate, EnumProperty, FinalizeObject,
           NewObject, Goto, locals, Racing
    <3> QED
      BY <1>2, <3>1, <3>2
  <2>4. ASSUME NEW u \in Threads, pc[u] \in Racing, obj'[u] = obj[u], scope'[u] = scope[u],
               map'[obj[u]] # scope[u]
        PROVE  object'[map'[obj[u]]] = obj[u]
    BY <1>2, <2>4, OwnScopeKept DEF RaceLostOnce, Racing
  <2> QED
    BY <2>2, <2>3, <2>4 DEF RaceLostOnce, Racing
<1> QED
  BY <1>1, <1>2 DEF Next, Runs

\* A call to js_LockObj or a slot access loses the race with js_GetMutableScope
\* once at most: the scope it would then retry with is the object's own, which
\* no step takes from it.
THEOREM RaceCorrect == Spec => []RaceLostOnce
<1>1. Init => RaceLostOnce
  BY DEF Init, RaceLostOnce
<1> QED
  BY <1>1, RefsInit, RefsStep, RaceStep, PTL DEF Spec

-----------------------------------------------------------------------------
(***************************************************************************)
(* Callers that lock one object at a time, with assertions.  What a step   *)
(* of t leaves alone of what the invariant says of another thread.         *)
(***************************************************************************)
OthersKept(t) ==
  /\ \A u \in Threads \ {t} : pc'[u] = pc[u] /\ obj'[u] = obj[u] /\ scope'[u] = scope[u] /\ entries'[u] = entries[u]
  /\ \A s \in live : owner[s] \in Threads \ {t} => owner'[s] = owner[s] /\ count'[s] = count[s]
  /\ \A s \in live' : owner'[s] \in Threads \ {t} => s \in live /\ owner[s] = owner'[s]
  /\ \A o \in Objects : map'[o] # map[o] =>
       \A u \in Threads \ {t} :
         entries[u][o] = 0 /\ ~(pc[u] \in Mutating \cup {"slot_read"} /\ obj[u] = o)

LEMMA StepFrame ==
  ASSUME RefsInv, LocksInv, NEW t \in Threads, Call(t) \/ Caller(t)
  PROVE  OthersKept(t)
<1> USE ScopeLockAssumption DEF ScopeLockAssumption
<1> TypeOK /\ Calls /\ Owners
  BY DEF RefsInv
<1> USE DEF TypeOK, Goto, Return, locks, heap, locals
<1>leave. ASSUME NEW s \in live, owner[s] = t, owner' \in {owner, [owner EXCEPT ![s] = NoThread]},
                 \A x \in Scopes \ {s} : count'[x] = count[x],
                 \A u \in Threads \ {t} : pc'[u] = pc[u] /\ obj'[u] = obj[u] /\ scope'[u] = scope[u] /\ entries'[u] = entries[u],
                 UNCHANGED <<map, live>>
          PROVE  OthersKept(t)
  <2>1. \A x \in live : x # s => owner'[x] = owner[x] /\ count'[x] = count[x]
    BY <1>leave
  <2>2. owner'[s] \in {t, NoThread}
    BY <1>leave
  <2> QED
    BY <1>leave, <2>1, <2>2 DEF OthersKept
<1>1. ASSUME LockScope(t) PROVE OthersKept(t)
  BY <1>1 DEF OthersKept, LockScope
<1>2. ASSUME Locked(t) PROVE OthersKept(t)
  BY <1>2 DEF OthersKept, Locked
<1>3. ASSUME LostRace(t) PROVE OthersKept(t)
  <2>1. scope[t] \in live /\ owner[scope[t]] = t
    BY <1>3 DEF LostRace, Owners, Owning
  <2> QED
    BY <1>3, <2>1, <1>leave DEF LostRace, LeaveScope
<1>4. ASSUME Retry(t) PROVE OthersKept(t)
  BY <1>4 DEF OthersKept, Retry
<1>5. ASSUME UseFreed(t) PROVE OthersKept(t)
  BY <1>5 DEF OthersKept, UseFreed
<1>6. ASSUME SlotCas(t) PROVE OthersKept(t)
  BY <1>6 DEF OthersKept, SlotCas
<1>7. ASSUME SlotMine(t) PROVE OthersKept(t)
  BY <1>7 DEF OthersKept, SlotMine
<1>8. ASSUME SlotSlow(t) PROVE OthersKept(t)
  BY <1>8 DEF OthersKept, SlotSlow
<1>9. ASSUME SlotCheck(t) PROVE OthersKept(t)
  <2>1. scope[t] \in live /\ owner[scope[t]] = t
    BY <1>9 DEF SlotCheck, Owners, Owning
  <2>2. /\ owner' \in {owner, [owner EXCEPT ![scope[t]] = NoThread]}
        /\ \A u \in Threads \ {t} : pc'[u] = pc[u]
        /\ UNCHANGED <<map, live, count, obj, scope, entries>>
    BY <1>9 DEF SlotCheck
  <2> QED
    BY <2>1, <2>2, <1>leave
<1>10. ASSUME SlotRead(t) PROVE OthersKept(t)
  <2>1. scope[t] \in live /\ owner[scope[t]] = t
    BY <1>10 DEF SlotRead, Owners, Owning
  <2> QED
    BY <1>10, <2>1, <1>leave DEF SlotRead
<1>11. ASSUME DropObjectMap(t) PROVE OthersKept(t)
  BY <1>11 DEF OthersKept, DropObjectMap
<1>12. ASSUME Dropped(t) PROVE OthersKept(t)
  BY <1>12 DEF OthersKept, Dropped
<1>13. ASSUME TransferScopeLock(t) PROVE OthersKept(t)
  <2>1. scope[t] \in live /\ owner[scope[t]] = t /\ obj[t] \in Objects
    BY <1>13 DEF TransferScopeLock, Owners, Owning, PCs, Stale
  <2>2. map[obj[t]] \in live /\ owner[map[obj[t]]] = t
    BY <1>13, <2>1 DEF TransferScopeLock, LocksInv, OneObject, Owned, Mutating, Calls
  <2>3. /\ count' = [count EXCEPT ![map[obj[t]]] = count[scope[t]], ![scope[t]] = 0]
        /\ owner' = [owner EXCEPT ![scope[t]] = NoThread]
    BY <1>13 DEF TransferScopeLock
  <2>4. \A x \in live : x \notin {scope[t], map[obj[t]]} => owner'[x] = owner[x] /\ count'[x] = count[x]
    BY <2>3
  <2>5. /\ \A u \in Threads \ {t} : pc'[u] = pc[u] /\ obj'[u] = obj[u] /\ scope'[u] = scope[u]
        /\ UNCHANGED <<map, live, entries>>
    BY <1>13 DEF TransferScopeLock
  <2>6. owner'[scope[t]] = NoThread /\ owner'[map[obj[t]]] \in {t, NoThread}
    BY <2>1, <2>2, <2>3
  <2> QED
    BY <2>1, <2>2, <2>4, <2>5, <2>6 DEF OthersKept
<1>14. ASSUME HoldObjectMap(t) PROVE OthersKept(t)
  <2>1. /\ obj[t] \in Objects /\ map[obj[t]] = NoScope
        /\ \A u \in Threads \ {t} : pc'[u] = pc[u] /\ obj'[u] = obj[u] /\ scope'[u] = scope[u]
        /\ \A o \in Objects : map'[o] # map[o] => o = obj[t]
        /\ UNCHANGED <<live, owner, count, entries>>
    BY <1>14, SMTT(20) DEF HoldObjectMap, Calls, PCs, Stale
  <2>2. \A u \in Threads : entries[u][obj[t]] = 0 /\ (pc[u] \in Mutating \cup {"slot_read"} => obj[u] # obj[t])
    BY <2>1 DEF Calls, Locking
  <2> QED
    BY <2>1, <2>2 DEF OthersKept
<1>15. ASSUME CallGC(t) PROVE OthersKept(t)
  BY <1>15 DEF OthersKept, CallGC
<1>16. ASSUME GCReturn(t) PROVE OthersKept(t)
  BY <1>16 DEF OthersKept, GCReturn
<1>17. ASSUME NEW o \in Objects, CallLock(t, o) PROVE OthersKept(t)
  BY <1>17 DEF OthersKept, CallLock
<1>18. ASSUME NEW o \in Objects, UnlockObj(t, o) PROVE OthersKept(t)
  <2>1. /\ \A u \in Threads \ {t} : pc'[u] = pc[u] /\ entries'[u] = entries[u]
        /\ UNCHANGED <<map, live, obj, scope>>
    BY <1>18 DEF UnlockObj
  <2>2. CASE owner[map[o]] = t
    <3>1. map[o] \in live
      BY <1>18 DEF UnlockObj, Calls
    <3> QED
      BY <1>18, <2>1, <2>2, <3>1, <1>leave DEF UnlockObj, LeaveScope
  <2>3. CASE owner[map[o]] # t
    <3>1. UNCHANGED <<owner, count>>
      BY <1>18, <2>3 DEF UnlockObj
    <3> QED
      BY <2>1, <3>1 DEF OthersKept
  <2> QED
    BY <2>2, <2>3
<1>19. ASSUME NEW o \in Objects, EnumProperty(t, o) PROVE OthersKept(t)
  BY <1>19 DEF OthersKept, EnumProperty
<1>20. ASSUME NEW o \in Objects, CallSlot(t, o) PROVE OthersKept(t)
  BY <1>20 DEF OthersKept, CallSlot
<1>21. ASSUME NEW o \in Objects, Mutate(t, o) PROVE OthersKept(t)
  <2>1. PICK n \in Scopes \ live :
          /\ live' = live \cup {n}
          /\ owner' = [owner EXCEPT ![n] = t]
          /\ count' = [count EXCEPT ![n] = 1]
          /\ map' = [map EXCEPT ![o] = n]
    BY <1>21 DEF Mutate
  <2>2. /\ owner[map[o]] = t
        /\ \A u \in Threads \ {t} : pc'[u] = pc[u] /\ obj'[u] = obj[u] /\ scope'[u] = scope[u]
        /\ UNCHANGED entries
    BY <1>21 DEF Mutate
  <2>3. ASSUME NEW u \in Threads \ {t}
        PROVE  entries[u][o] = 0 /\ ~(pc[u] \in Mutating \cup {"slot_read"} /\ obj[u] = o)
    <3>1. OneObject(u) /\ Owned(u)
      BY DEF LocksInv
    <3>2. entries[u][o] = 0
      BY <2>2, <3>1 DEF Owned
    <3>3. pc[u] \in Mutating => obj[u] # o
      BY <3>1, <3>2 DEF OneObject
    <3>4. pc[u] = "slot_read" => owner[map[obj[u]]] = u
      BY <3>1 DEF Owned, Owners, Owning
    <3> QED
      BY <2>2, <3>2, <3>3, <3>4
  <2>4. \A s \in live : owner'[s] = owner[s] /\ count'[s] = count[s]
    BY <2>1
  <2>5. owner'[n] = t
    BY <2>1
  <2>6. \A p \in Objects : map'[p] # map[p] => p = o
    BY <2>1
  <2> QED
    BY <2>1, <2>2, <2>3, <2>4, <2>5, <2>6 DEF OthersKept
<1>22. ASSUME NEW o \in Objects, FinalizeObject(t, o) PROVE OthersKept(t)
  <2>1. /\ live' \subseteq live
        /\ \A u \in Threads : entries[u][o] = 0 /\ pc[u] \in {"run", "gc"}
        /\ \A p \in Objects : map'[p] # map[p] => p = o
        /\ UNCHANGED <<owner, count, pc, obj, scope, entries>>
    BY <1>22 DEF FinalizeObject, Stopped, Outside
  <2> QED
    BY <2>1 DEF OthersKept, Mutating
<1>23. ASSUME NEW o \in Objects, NEW p \in Objects, NewObject(t, o, p) PROVE OthersKept(t)
  BY <1>23 DEF OthersKept, NewObject
<1> QED
  BY <1>1, <1>2, <1>3, <1>4, <1>5, <1>6, <1>7, <1>8, <1>9, <1>10, <1>11, <1>12, <1>13, <1>14, <1>15, <1>16, <1>17, <1>18, <1>19, <1>20, <1>21, <1>22, <1>23 DEF Call, Caller

LEMMA OthersStep ==
  ASSUME RefsInv, LocksInv, NEW t \in Threads, OthersKept(t), NEW u \in Threads \ {t}
  PROVE  OneObject(u)' /\ Owned(u)' /\ Counted(u)'
<1>1. TypeOK /\ Calls /\ Owners /\ OneObject(u) /\ Owned(u) /\ Counted(u)
  BY DEF RefsInv, LocksInv
<1>2. pc'[u] = pc[u] /\ obj'[u] = obj[u] /\ scope'[u] = scope[u] /\ entries'[u] = entries[u]
  BY DEF OthersKept
<1>3. \A o \in Objects : entries[u][o] # 0 => map'[o] = map[o]
  BY DEF OthersKept
<1>4. pc[u] \in Mutating \cup {"slot_read"} => map'[obj[u]] = map[obj[u]] /\ obj[u] \in Objects
  BY <1>1 DEF OthersKept, TypeOK, PCs, Mutating
<1>5. \A o \in Objects : entries[u][o] > 0 => map[o] \in live
  BY <1>1 DEF Calls, TypeOK
<1>6. pc[u] \in Owning => scope[u] \in live /\ owner[scope[u]] = u
  BY <1>1 DEF Owners
<1>7. \A s \in live : owner[s] = u => owner'[s] = u /\ count'[s] = count[s]
  BY DEF OthersKept
<1>8. \A s \in live' : owner'[s] = u => s \in live /\ owner[s] = u
  BY DEF OthersKept
<1>9. entries[u] \in [Objects -> 0..MaxEntries]
  BY <1>1 DEF TypeOK
<1>10. OneObject(u)'
  BY <1>1, <1>2 DEF OneObject
<1>11. Owned(u)'
  <2>1. \A o \in Objects : entries'[u][o] > 0 => owner'[map'[o]] = u
    BY <1>1, <1>2, <1>3, <1>5, <1>7 DEF Owned
  <2>2. pc'[u] = "slot_read" => map'[obj'[u]] = scope'[u]
    BY <1>1, <1>2, <1>4 DEF Owned
  <2>3. pc'[u] \in {"lock", "recheck", "slot_cas"} /\ entries'[u][obj'[u]] > 0 => map'[obj'[u]] = scope'[u]
    <3>1. pc[u] \in {"lock", "recheck", "slot_cas"} => obj[u] \in Objects
      BY <1>1 DEF TypeOK
    <3> QED
      BY <1>1, <1>2, <1>3, <3>1 DEF Owned
  <2>4. pc'[u] \in Mutating => map'[obj'[u]] # scope'[u]
    BY <1>1, <1>2, <1>4 DEF Owned
  <2> QED
    BY <2>1, <2>2, <2>3, <2>4 DEF Owned
<1>12. Counted(u)'
  <2>1. pc'[u] \in Mutating => count'[scope'[u]] = entries'[u][obj'[u]]
    BY <1>1, <1>2, <1>6, <1>7 DEF Counted, Mutating, Owning
  <2>2. ASSUME NEW s \in live', owner'[s] = u, Settled(u, s)' PROVE Counts(u, s)'
    <3>1. s \in live /\ owner[s] = u /\ count'[s] = count[s]
      BY <1>7, <1>8, <2>2
    <3>2. Settled(u, s)
      BY <1>2, <1>4, <2>2 DEF Settled
    <3>3. Counts(u, s)
      BY <1>1, <3>1, <3>2 DEF Counted
    <3>4. \A o \in Objects : map'[o] = s /\ entries'[u][o] > 0 => count'[s] = entries'[u][o] + Entry(u, s)
      BY <1>2, <1>3, <3>1, <3>3 DEF Counts
    <3>5. Entry(u, s)' = Entry(u, s)
      BY <1>2 DEF Entry
    <3>6. (\A o \in Objects : map'[o] = s => entries'[u][o] = 0) => \A o \in Objects : map[o] = s => entries[u][o] = 0
      BY <1>2, <1>3
    <3> QED
      BY <3>1, <3>3, <3>4, <3>5, <3>6 DEF Counts
  <2> QED
    BY <2>1, <2>2 DEF Counted
<1> QED
  BY <1>10, <1>11, <1>12

\* What the invariant says of the thread that takes the step.
LEMMA OwnStep ==
  ASSUME RefsInv, RefsInv', LocksInv, Asserting, NEW t \in Threads, Call(t) \/ Caller(t)
  PROVE  OneObject(t)' /\ Owned(t)' /\ Counted(t)'
<1> USE ScopeLockAssumption DEF ScopeLockAssumption
<1> DEFINE Goal == OneObject(t)' /\ Owned(t)' /\ Counted(t)'
<1> TypeOK /\ TypeOK' /\ Calls /\ Owners /\ Unowned /\ OneObject(t) /\ Owned(t) /\ Counted(t)
  BY DEF RefsInv, LocksInv
<1> "Nest" \notin ops /\ "Enumerate" \notin ops /\ "CollectLocked" \notin ops /\ "Assert" \in ops
  BY DEF Asserting, OneAtATime
<1> USE DEF TypeOK, Goto, Return, locks, heap, locals, Locking, Mutating
<1>same. ASSUME NEW s \in live, owner[s] = t, pc[t] \notin Mutating \cup {"assert"}, UNCHANGED map,
                entries'[t] = entries[t], count'[s] = count[s], Entry(t, s)' = Entry(t, s)
         PROVE  Counts(t, s)'
  <2>1. Counts(t, s)
    BY <1>same DEF Counted, Settled
  <2> QED
    BY <1>same, <2>1 DEF Counts
<1>none. ASSUME NEW s, count'[s] = Entry(t, s)', \A o \in Objects : map'[o] = s => entries'[t][o] = 0
         PROVE  Counts(t, s)'
  BY <1>none DEF Counts
<1>1. ASSUME LockScope(t) PROVE Goal
  <2> PICK s : s = scope[t]
    OBVIOUS
  <2>1. /\ pc[t] = "lock" /\ pc'[t] = "recheck" /\ s \in live /\ s \in Scopes /\ owner[s] \in {t, NoThread}
        /\ owner' = [owner EXCEPT ![s] = t]
        /\ scope'[t] = s /\ UNCHANGED <<map, live, entries, obj>>
    BY <1>1 DEF LockScope
  <2>2. \A x \in Scopes : x # s => count'[x] = count[x] /\ owner'[x] = owner[x]
    BY <1>1 DEF LockScope
  <2>3. count'[s] = IF owner[s] = t THEN count[s] + 1 ELSE 1
    BY <1>1, <2>1 DEF LockScope
  <2>o. OneObject(t)'
    BY <1>1 DEF LockScope, OneObject
  <2>w. Owned(t)'
    <3>1. \A p \in Objects : entries'[t][p] > 0 => owner'[map'[p]] = t
      BY <2>1 DEF Owned
    <3>2. obj[t] \in Objects /\ (entries'[t][obj'[t]] > 0 => map'[obj'[t]] = scope'[t])
      BY <2>1 DEF Owned, PCs, Stale
    <3> QED
      BY <2>1, <3>1, <3>2 DEF Owned
  <2>c. Counted(t)'
    <3>1. ASSUME NEW x \in live', owner'[x] = t PROVE Counts(t, x)'
      <4>1. CASE x # s
        BY <2>1, <2>2, <3>1, <4>1, <1>same DEF Entry
      <4>2. CASE x = s /\ owner[s] = t
        <5>1. Counts(t, s) /\ Entry(t, s) = 0 /\ Entry(t, s)' = 1 /\ count'[s] = count[s] + 1
          BY <2>1, <2>3, <4>2 DEF Counted, Settled, Entry
        <5> QED
          BY <2>1, <4>2, <5>1 DEF Counts
      <4>3. CASE x = s /\ owner[s] = NoThread
        <5>1. \A p \in Objects : map'[p] = s => entries'[t][p] = 0
          BY <2>1, <4>3 DEF Owned
        <5> QED
          BY <2>1, <2>3, <4>3, <5>1, <1>none DEF Entry
      <4> QED
        BY <2>1, <4>1, <4>2, <4>3
    <3> QED
      BY <2>1, <3>1 DEF Counted
  <2> QED
    BY <2>o, <2>w, <2>c
<1>2. ASSUME Locked(t) PROVE Goal
  <2> PICK s, o : s = scope[t] /\ o = obj[t]
    OBVIOUS
  <2>1. /\ pc[t] = "recheck" /\ pc'[t] = "run" /\ o \in Objects /\ map[o] = s /\ s \in live /\ owner[s] = t
        /\ entries'[t] = [entries[t] EXCEPT ![o] = entries[t][o] + 1]
        /\ UNCHANGED <<map, live, owner, count>>
    BY <1>2 DEF Locked, Owners, Owning
  <2>2. entries'[t][o] = entries[t][o] + 1 /\ \A p \in Objects \ {o} : entries[t][p] = 0 /\ entries'[t][p] = 0
    BY <2>1 DEF OneObject
  <2>o. OneObject(t)'
    BY <1>2 DEF Locked, OneObject
  <2>w. Owned(t)'
    BY <2>1, <2>2 DEF Owned
  <2>c. Counted(t)'
    <3>1. ASSUME NEW x \in live', owner'[x] = t PROVE Counts(t, x)'
      <4>1. x \in live /\ owner[x] = t /\ Counts(t, x) /\ Entry(t, x)' = 0
        BY <2>1, <3>1 DEF Counted, Settled, Entry
      <4>2. CASE x = s
        <5>1. Entry(t, x) = 1
          BY <2>1, <4>2 DEF Entry
        <5>2. count[s] = entries[t][o] + 1
          <6>1. entries[t][o] > 0 => count[s] = entries[t][o] + 1
            BY <2>1, <4>1, <4>2, <5>1 DEF Counts
          <6>2. entries[t][o] = 0 => count[s] = 1
            BY <2>1, <2>2, <4>1, <4>2, <5>1 DEF Counts
          <6>3. entries[t][o] \in Nat
            BY <2>1
          <6> QED
            BY <6>1, <6>2, <6>3
        <5> QED
          BY <2>1, <2>2, <4>1, <4>2, <5>2 DEF Counts
      <4>3. CASE x # s
        <5>1. Entry(t, x) = 0
          BY <4>3 DEF Entry
        <5> QED
          BY <2>1, <2>2, <4>1, <4>3, <5>1 DEF Counts
      <4> QED
        BY <4>2, <4>3
    <3> QED
      BY <2>1, <3>1 DEF Counted
  <2> QED
    BY <2>o, <2>w, <2>c
<1>3. ASSUME LostRace(t) PROVE Goal
  <2> PICK s, o : s = scope[t] /\ o = obj[t]
    OBVIOUS
  <2>1. /\ pc[t] = "recheck" /\ pc'[t] = "again" /\ o \in Objects /\ map[o] # s /\ s \in live /\ owner[s] = t
        /\ obj'[t] = o /\ scope'[t] = s /\ UNCHANGED <<map, live, entries>>
    BY <1>3 DEF LostRace, Owners, Owning
  <2>2. \A p \in Objects : entries[t][p] = 0
    BY <2>1 DEF OneObject, Owned
  <2>3. count[s] = 1
    <3>1. Counts(t, s) /\ Entry(t, s) = 1
      BY <2>1 DEF Counted, Settled, Entry
    <3> QED
      BY <2>2, <3>1 DEF Counts
  <2>4. owner' = [owner EXCEPT ![s] = NoThread] /\ count' = [count EXCEPT ![s] = count[s] - 1]
    BY <1>3, <2>3 DEF LostRace, LeaveScope
  <2>o. OneObject(t)'
    BY <2>1, <2>2 DEF OneObject
  <2>w. Owned(t)'
    BY <2>1, <2>2 DEF Owned
  <2>c. Counted(t)'
    <3>1. ASSUME NEW x \in live', owner'[x] = t PROVE Counts(t, x)'
      <4>1. x # s /\ x \in live /\ owner[x] = t /\ count'[x] = count[x]
        BY <2>1, <2>4, <3>1
      <4> QED
        BY <2>1, <4>1, <1>same DEF Entry
    <3> QED
      BY <2>1, <3>1 DEF Counted
  <2> QED
    BY <2>o, <2>w, <2>c
<1>4. ASSUME Retry(t) PROVE Goal
  <2>1. OneObject(t)'
    BY <1>4 DEF Retry, OneObject
  <2>2. Owned(t)'
    BY <1>4 DEF Retry, Owned
  <2>3. Counted(t)'
    BY <1>4 DEF Retry, Counted, Counts, Settled, Entry
  <2> QED
    BY <2>1, <2>2, <2>3
<1>5. ASSUME UseFreed(t) PROVE Goal
  <2>o. OneObject(t)'
    BY <1>5 DEF UseFreed, OneObject
  <2>w. Owned(t)'
    BY <1>5 DEF UseFreed, Owned
  <2>c. Counted(t)'
    <3>1. /\ pc[t] \in {"lock", "slot_cas", "hold"} /\ pc'[t] = "freed"
          /\ UNCHANGED <<map, live, owner, count, entries>>
      BY <1>5 DEF UseFreed, Stale
    <3>2. ASSUME NEW x \in live', owner'[x] = t PROVE Counts(t, x)'
      BY <3>1, <3>2, <1>same DEF Entry
    <3> QED
      BY <3>1, <3>2 DEF Counted
  <2> QED
    BY <2>o, <2>w, <2>c
<1>6. ASSUME SlotCas(t) PROVE Goal
  <2> PICK s, o : s = scope[t] /\ o = obj[t]
    OBVIOUS
  <2>1. /\ pc[t] = "slot_cas" /\ pc'[t] = "slot_check" /\ s \in live /\ s \in Scopes /\ owner[s] = NoThread
        /\ o \in Objects /\ owner' = [owner EXCEPT ![s] = t]
        /\ obj'[t] = o /\ scope'[t] = s /\ UNCHANGED <<map, live, count, entries>>
    BY <1>6 DEF SlotCas, PCs, Stale
  <2>2. \A p \in Objects : entries[t][p] = 0
    BY <2>1 DEF OneObject, Owned
  <2>o. OneObject(t)'
    BY <2>1, <2>2 DEF OneObject
  <2>w. Owned(t)'
    BY <1>6 DEF SlotCas, Owned
  <2>c. Counted(t)'
    <3>1. ASSUME NEW x \in live', owner'[x] = t PROVE Counts(t, x)'
      <4>1. CASE x # s
        BY <2>1, <3>1, <4>1, <1>same DEF Entry
      <4>2. CASE x = s
        <5>1. count'[x] = 0 /\ Entry(t, x)' = 0
          BY <2>1, <4>2 DEF Unowned, Entry
        <5> QED
          BY <2>1, <2>2, <5>1, <1>none
      <4> QED
        BY <4>1, <4>2
    <3> QED
      BY <2>1, <3>1 DEF Counted
  <2> QED
    BY <2>o, <2>w, <2>c
<1>7. ASSUME SlotMine(t) PROVE Goal
  <2>1. OneObject(t)'
    BY <1>7 DEF SlotMine, OneObject
  <2>2. Owned(t)'
    BY <1>7 DEF SlotMine, Owned
  <2>3. Counted(t)'
    BY <1>7 DEF SlotMine, Counted, Counts, Settled, Entry
  <2> QED
    BY <2>1, <2>2, <2>3
<1>8. ASSUME SlotSlow(t) PROVE Goal
  <2>1. /\ pc[t] = "slot_cas" /\ pc'[t] = "again" /\ owner[scope[t]] # t /\ obj[t] \in Objects
        /\ UNCHANGED <<map, obj, scope, entries>>
    BY <1>8 DEF SlotSlow, PCs, Stale
  <2>2. entries[t][obj[t]] = 0
    BY <2>1 DEF Owned
  <2>o. OneObject(t)'
    BY <2>1, <2>2 DEF OneObject
  <2>w. Owned(t)'
    BY <1>8 DEF SlotSlow, Owned
  <2>c. Counted(t)'
    BY <1>8 DEF SlotSlow, Counted, Counts, Settled, Entry
  <2> QED
    BY <2>o, <2>w, <2>c
<1>9. ASSUME SlotCheck(t) PROVE Goal
  <2>o. OneObject(t)'
    BY <1>9 DEF SlotCheck, OneObject
  <2>w. Owned(t)'
    <3>1. /\ pc[t] = "slot_check" /\ obj[t] \in Objects /\ UNCHANGED <<map, obj, scope, entries>>
          /\ pc'[t] = IF map[obj[t]] = scope[t] THEN "slot_read" ELSE "again"
      BY <1>9 DEF SlotCheck, PCs, Stale
    <3>2. \A p \in Objects : entries[t][p] = 0
      BY <3>1 DEF OneObject
    <3> QED
      BY <3>1, <3>2 DEF Owned
  <2>c. Counted(t)'
    BY <1>9 DEF SlotCheck, Counted, Counts, Settled, Entry
  <2> QED
    BY <2>o, <2>w, <2>c
<1>10. ASSUME SlotRead(t) PROVE Goal
  <2>o. OneObject(t)'
    BY <1>10 DEF SlotRead, OneObject
  <2>w. Owned(t)'
    <3>1. pc[t] = "slot_read" /\ obj[t] \in Objects /\ UNCHANGED <<map, entries>> /\ pc'[t] = "run"
      <4>1. pc[t] = "slot_read" /\ UNCHANGED <<map, entries>> /\ pc' = [pc EXCEPT ![t] = "run"]
        BY <1>10 DEF SlotRead
      <4> QED
        BY <4>1
    <3>2. \A p \in Objects : entries[t][p] = 0
      BY <3>1 DEF OneObject
    <3> QED
      BY <3>1, <3>2 DEF Owned
  <2>c. Counted(t)'
    BY <1>10 DEF SlotRead, Counted, Counts, Settled, Entry
  <2> QED
    BY <2>o, <2>w, <2>c
<1>11. ASSUME DropObjectMap(t) PROVE Goal
  <2>1. OneObject(t)'
    BY <1>11 DEF DropObjectMap, OneObject
  <2>2. Owned(t)'
    BY <1>11 DEF DropObjectMap, Owned
  <2>3. Counted(t)'
    BY <1>11 DEF DropObjectMap, Counted, Counts, Settled, Entry
  <2> QED
    BY <2>1, <2>2, <2>3
<1>12. ASSUME Dropped(t) PROVE Goal
  <2>1. OneObject(t)'
    BY <1>12 DEF Dropped, OneObject
  <2>2. Owned(t)'
    BY <1>12 DEF Dropped, Owned
  <2>3. Counted(t)'
    BY <1>12 DEF Dropped, Counted, Counts, Settled, Entry
  <2> QED
    BY <2>1, <2>2, <2>3
<1>13. ASSUME TransferScopeLock(t) PROVE Goal
  <2> PICK s, o : s = scope[t] /\ o = obj[t]
    OBVIOUS
  <2> PICK n : n = map[o]
    OBVIOUS
  <2>1. /\ pc[t] = "transfer" /\ pc'[t] = "run" /\ s \in live /\ owner[s] = t /\ o \in Objects
        /\ owner' = [owner EXCEPT ![s] = NoThread]
        /\ count' = [count EXCEPT ![n] = count[s], ![s] = 0]
        /\ UNCHANGED <<map, live, entries>>
    BY <1>13, SMTT(20) DEF TransferScopeLock, Owners, Owning
  <2>2. n # s /\ entries[t][o] > 0 /\ \A p \in Objects \ {o} : entries[t][p] = 0
    BY <2>1 DEF OneObject, Owned
  <2>3. n \in live /\ owner[n] = t /\ count[s] = entries[t][o]
    BY <2>1, <2>2 DEF Owned, Counted, Calls
  <2>4. s \in Scopes /\ n \in Scopes
    BY <2>1, <2>3
  <2>5. count'[n] = entries[t][o] /\ \A x \in Scopes \ {n, s} : count'[x] = count[x]
    BY <2>1, <2>2, <2>3, <2>4
  <2>o. OneObject(t)'
    BY <1>13 DEF TransferScopeLock, OneObject
  <2>w. Owned(t)'
    <3>1. pc'[t] = "run" /\ \A p \in Objects \ {o} : ~(entries'[t][p] > 0)
      BY <2>1, <2>2
    <3>2. owner'[map'[o]] = t
      BY <2>1, <2>2, <2>3, <2>4
    <3> QED
      BY <3>1, <3>2 DEF Owned
  <2>c. Counted(t)'
    <3>1. ASSUME NEW x \in live', owner'[x] = t PROVE Counts(t, x)'
      <4>1. Entry(t, x)' = 0
        BY <2>1 DEF Entry
      <4>2. CASE x = n
        <5>1. entries'[t] = entries[t] /\ map'[o] = n /\ count'[n] = entries[t][o]
          BY <2>1, <2>5
        <5>2. \A p \in Objects : entries'[t][p] > 0 => p = o
          BY <2>1, <2>2
        <5>3. ~\A p \in Objects : map'[p] = n => entries'[t][p] = 0
          BY <2>1, <2>2, <5>1
        <5> QED
          BY <2>1, <4>1, <4>2, <5>1, <5>2, <5>3 DEF Counts
      <4>3. CASE x # n
        <5>1. x \in live /\ x # s /\ owner[x] = t /\ Settled(t, x) /\ Entry(t, x) = 0
          BY <2>1, <3>1, <4>3 DEF Settled, Entry
        <5>2. Counts(t, x) /\ count'[x] = count[x]
          BY <2>5, <4>3, <5>1 DEF Counted
        <5> QED
          BY <2>1, <4>1, <5>1, <5>2 DEF Counts
      <4> QED
        BY <4>2, <4>3
    <3> QED
      BY <2>1, <3>1 DEF Counted
  <2> QED
    BY <2>o, <2>w, <2>c
<1>14. ASSUME HoldObjectMap(t) PROVE Goal
  <2> PICK s, o : s = scope[t] /\ o = obj[t]
    OBVIOUS
  <2>1. /\ pc[t] = "hold" /\ pc'[t] = "run" /\ o \in Objects /\ map[o] = NoScope
        /\ map' = [map EXCEPT ![o] = s]
        /\ UNCHANGED <<live, owner, count, entries>>
    BY <1>14 DEF HoldObjectMap, Calls
  <2>2. entries[t][o] = 0 /\ \A p \in Objects \ {o} : map'[p] = map[p]
    BY <2>1 DEF Calls
  <2>o. OneObject(t)'
    BY <1>14 DEF HoldObjectMap, OneObject
  <2>w. Owned(t)'
    BY <2>1, <2>2 DEF Owned
  <2>c. Counted(t)'
    <3>1. ASSUME NEW x \in live', owner'[x] = t PROVE Counts(t, x)'
      <4>1. Counts(t, x) /\ Entry(t, x) = 0 /\ Entry(t, x)' = 0
        BY <2>1, <3>1 DEF Counted, Settled, Entry
      <4> QED
        BY <2>1, <2>2, <4>1 DEF Counts
    <3> QED
      BY <2>1, <3>1 DEF Counted
  <2> QED
    BY <2>o, <2>w, <2>c
<1>15. ASSUME CallGC(t) PROVE Goal
  <2>1. OneObject(t)'
    BY <1>15 DEF CallGC, OneObject
  <2>2. Owned(t)'
    BY <1>15 DEF CallGC, Owned
  <2>3. Counted(t)'
    BY <1>15 DEF CallGC, Counted, Counts, Settled, Entry
  <2> QED
    BY <2>1, <2>2, <2>3
<1>16. ASSUME GCReturn(t) PROVE Goal
  <2>1. OneObject(t)'
    BY <1>16 DEF GCReturn, OneObject
  <2>2. Owned(t)'
    BY <1>16 DEF GCReturn, Owned
  <2>3. Counted(t)'
    BY <1>16 DEF GCReturn, Counted, Counts, Settled, Entry
  <2> QED
    BY <2>1, <2>2, <2>3
<1>17. ASSUME NEW o \in Objects, CallLock(t, o) PROVE Goal
  <2>1. /\ pc[t] = "run" /\ pc'[t] = "lock" /\ obj'[t] = o /\ entries' = entries
        /\ \A p \in Objects \ {o} : entries[t][p] = 0
    BY <1>17 DEF CallLock, MayEnter
  <2>o. OneObject(t)'
    BY <2>1 DEF OneObject
  <2>w. Owned(t)'
    BY <1>17 DEF CallLock, Owned
  <2>c. Counted(t)'
    BY <1>17 DEF CallLock, Counted, Counts, Settled, Entry
  <2> QED
    BY <2>o, <2>w, <2>c
<1>18. ASSUME NEW o \in Objects, UnlockObj(t, o) PROVE Goal
  <2> PICK s : s = map[o]
    OBVIOUS
  <2>1. /\ pc[t] = "run" /\ entries[t][o] > 0 /\ s \in live /\ owner[s] = t
        /\ \A p \in Objects \ {o} : entries[t][p] = 0
    BY <1>18 DEF UnlockObj, Calls, Owned, OneObject
  <2>2. /\ entries'[t] = [entries[t] EXCEPT ![o] = entries[t][o] - 1]
        /\ UNCHANGED <<map, live, pc>>
    BY <1>18, <2>1 DEF UnlockObj
  <2>3. /\ count' = [count EXCEPT ![s] = count[s] - 1]
        /\ owner' = IF count[s] = 1 THEN [owner EXCEPT ![s] = NoThread] ELSE owner
    BY <1>18, <2>1 DEF UnlockObj, LeaveScope
  <2>4. count[s] = entries[t][o]
    <3>1. Counts(t, s) /\ Entry(t, s) = 0
      BY <2>1 DEF Counted, Settled, Entry
    <3> QED
      BY <2>1, <3>1 DEF Counts
  <2>5. entries'[t][o] = entries[t][o] - 1 /\ \A p \in Objects \ {o} : entries'[t][p] = 0
    BY <2>1, <2>2
  <2>6. s \in Scopes /\ count'[s] = entries'[t][o] /\ \A x \in Scopes \ {s} : count'[x] = count[x]
    BY <2>1, <2>3, <2>4, <2>5
  <2>o. OneObject(t)'
    BY <2>1, <2>2, <2>5 DEF OneObject
  <2>w. Owned(t)'
    <3>1. entries'[t][o] > 0 => owner'[s] = t
      BY <2>1, <2>3, <2>4, <2>5
    <3> QED
      BY <2>1, <2>2, <2>5, <3>1 DEF Owned
  <2>c. Counted(t)'
    <3>1. ASSUME NEW x \in live', owner'[x] = t PROVE Counts(t, x)'
      <4>1. Entry(t, x)' = 0 /\ Entry(t, x) = 0
        BY <2>1, <2>2 DEF Entry
      <4>2. CASE x = s
        BY <2>2, <2>5, <2>6, <4>1, <4>2 DEF Counts
      <4>3. CASE x # s
        <5>1. x \in live /\ owner[x] = t /\ count'[x] = count[x] /\ Counts(t, x)
          BY <2>1, <2>2, <2>3, <2>6, <3>1, <4>3 DEF Counted, Settled
        <5> QED
          BY <2>1, <2>2, <2>5, <4>1, <4>3, <5>1 DEF Counts
      <4> QED
        BY <4>2, <4>3
    <3> QED
      BY <2>1, <2>2, <3>1 DEF Counted
  <2> QED
    BY <2>o, <2>w, <2>c
<1>19. ASSUME NEW o \in Objects, EnumProperty(t, o) PROVE Goal
  <2>1. OneObject(t)'
    BY <1>19 DEF EnumProperty, OneObject
  <2>2. Owned(t)'
    BY <1>19 DEF EnumProperty, Owned
  <2>3. Counted(t)'
    BY <1>19 DEF EnumProperty, Counted, Counts, Settled, Entry
  <2> QED
    BY <2>1, <2>2, <2>3
<1>20. ASSUME NEW o \in Objects, CallSlot(t, o) PROVE Goal
  <2>1. /\ pc[t] = "run" /\ pc'[t] = "slot_cas" /\ obj'[t] = o /\ entries' = entries
        /\ \A p \in Objects \ {o} : entries[t][p] = 0
    BY <1>20 DEF CallSlot, MayEnter
  <2>o. OneObject(t)'
    BY <2>1 DEF OneObject
  <2>w. Owned(t)'
    BY <1>20 DEF CallSlot, Owned
  <2>c. Counted(t)'
    BY <1>20 DEF CallSlot, Counted, Counts, Settled, Entry
  <2> QED
    BY <2>o, <2>w, <2>c
<1>21. ASSUME NEW o \in Objects, Mutate(t, o) PROVE Goal
  <2>1. OneObject(t)'
    BY <1>21 DEF Mutate, OneObject
  <2>2. Owned(t)'
    BY <1>21 DEF Mutate, Owned
  <2>3. Counted(t)'
    BY <1>21 DEF Mutate, Counted, Counts, Settled, Entry
  <2> QED
    BY <2>1, <2>2, <2>3
<1>22. ASSUME NEW o \in Objects, FinalizeObject(t, o) PROVE Goal
  <2>1. OneObject(t)'
    BY <1>22 DEF FinalizeObject, OneObject
  <2>2. Owned(t)'
    BY <1>22 DEF FinalizeObject, Owned
  <2>3. Counted(t)'
    BY <1>22 DEF FinalizeObject, Counted, Counts, Settled, Entry
  <2> QED
    BY <2>1, <2>2, <2>3
<1>23. ASSUME NEW o \in Objects, NEW p \in Objects, NewObject(t, o, p) PROVE Goal
  <2>1. OneObject(t)'
    BY <1>23 DEF NewObject, OneObject
  <2>2. Owned(t)'
    BY <1>23 DEF NewObject, Owned
  <2>3. Counted(t)'
    BY <1>23 DEF NewObject, Counted, Counts, Settled, Entry
  <2> QED
    BY <2>1, <2>2, <2>3
<1> QED
  BY <1>1, <1>2, <1>3, <1>4, <1>5, <1>6, <1>7, <1>8, <1>9, <1>10, <1>11, <1>12, <1>13, <1>14, <1>15, <1>16, <1>17, <1>18, <1>19, <1>20, <1>21, <1>22, <1>23 DEF Call, Caller

\* The count of a scope is 0 when its lock is given back.
LEMMA UnownedStep ==
  ASSUME RefsInv, LocksInv, NEW t \in Threads, Call(t) \/ Caller(t)
  PROVE  Unowned'
<1> USE ScopeLockAssumption DEF ScopeLockAssumption
<1> TypeOK /\ Calls /\ Owners /\ Unowned /\ OneObject(t) /\ Owned(t) /\ Counted(t)
  BY DEF RefsInv, LocksInv
<1> USE DEF TypeOK, Goto, Return, locks, heap, locals
<1>leave. ASSUME NEW s \in live, owner[s] = t, LeaveScope(s), live' = live PROVE Unowned'
  <2>1. \A x \in live \ {s} : owner'[x] = owner[x] /\ count'[x] = count[x]
    BY <1>leave DEF LeaveScope
  <2>2. count[s] = 1 => count'[s] = 0
    BY <1>leave DEF LeaveScope
  <2>3. count[s] # 1 => owner'[s] = owner[s]
    BY <1>leave DEF LeaveScope
  <2> QED
    BY <1>leave, <2>1, <2>2, <2>3 DEF Unowned
<1>slot. ASSUME pc[t] \in {"slot_check", "slot_read"} PROVE count[scope[t]] = 0
  <2>1. scope[t] \in live /\ owner[scope[t]] = t
    BY <1>slot DEF Owners, Owning
  <2>2. \A p \in Objects : entries[t][p] = 0
    BY <1>slot DEF OneObject, Locking
  <2>3. Counts(t, scope[t]) /\ Entry(t, scope[t]) = 0
    BY <1>slot, <2>1 DEF Counted, Settled, Entry, Mutating
  <2> QED
    BY <2>2, <2>3 DEF Counts
<1>1. ASSUME LockScope(t) PROVE Unowned'
  <2>1. \A x \in live \ {scope[t]} : owner'[x] = owner[x] /\ count'[x] = count[x]
    BY <1>1 DEF LockScope
  <2>2. scope[t] \in live /\ owner'[scope[t]] = t /\ live' = live
    BY <1>1 DEF LockScope
  <2> QED
    BY <2>1, <2>2 DEF Unowned
<1>2. ASSUME Locked(t) PROVE Unowned'
  BY <1>2 DEF Locked, Unowned
<1>3. ASSUME LostRace(t) PROVE Unowned'
  <2>1. scope[t] \in live /\ owner[scope[t]] = t
    BY <1>3 DEF LostRace, Owners, Owning
  <2> QED
    BY <1>3, <2>1, <1>leave DEF LostRace
<1>4. ASSUME Retry(t) PROVE Unowned'
  BY <1>4 DEF Retry, Unowned
<1>5. ASSUME UseFreed(t) PROVE Unowned'
  BY <1>5 DEF UseFreed, Unowned
<1>6. ASSUME SlotCas(t) PROVE Unowned'
  BY <1>6 DEF SlotCas, Unowned
<1>7. ASSUME SlotMine(t) PROVE Unowned'
  BY <1>7 DEF SlotMine, Unowned
<1>8. ASSUME SlotSlow(t) PROVE Unowned'
  BY <1>8 DEF SlotSlow, Unowned
<1>9. ASSUME SlotCheck(t) PROVE Unowned'
  <2>1. /\ pc[t] = "slot_check" /\ owner' \in {owner, [owner EXCEPT ![scope[t]] = NoThread]}
        /\ UNCHANGED <<count, live>>
    BY <1>9 DEF SlotCheck
  <2> QED
    BY <2>1, <1>slot DEF Unowned
<1>10. ASSUME SlotRead(t) PROVE Unowned'
  BY <1>10, <1>slot DEF SlotRead, Unowned
<1>11. ASSUME DropObjectMap(t) PROVE Unowned'
  BY <1>11 DEF DropObjectMap, Unowned
<1>12. ASSUME Dropped(t) PROVE Unowned'
  BY <1>12 DEF Dropped, Unowned
<1>13. ASSUME TransferScopeLock(t) PROVE Unowned'
  <2> PICK s, n : s = scope[t] /\ n = map[obj[t]]
    OBVIOUS
  <2>1. /\ s \in live /\ s \in Scopes /\ obj[t] \in Objects /\ pc[t] = "transfer"
        /\ owner' = [owner EXCEPT ![s] = NoThread]
        /\ count' = [count EXCEPT ![n] = count[s], ![s] = 0]
        /\ UNCHANGED live
    BY <1>13 DEF TransferScopeLock, Owners, Owning, PCs, Stale
  <2>2. owner[n] = t /\ n # s
    BY <2>1 DEF OneObject, Owned, Mutating
  <2>3. count'[s] = 0 /\ \A x \in live \ {n, s} : count'[x] = count[x] /\ owner'[x] = owner[x]
    BY <2>1
  <2>4. n \in live => owner'[n] = t
    BY <2>1, <2>2
  <2> QED
    BY <2>1, <2>3, <2>4 DEF Unowned
<1>14. ASSUME HoldObjectMap(t) PROVE Unowned'
  BY <1>14 DEF HoldObjectMap, Unowned
<1>15. ASSUME CallGC(t) PROVE Unowned'
  BY <1>15 DEF CallGC, Unowned
<1>16. ASSUME GCReturn(t) PROVE Unowned'
  BY <1>16 DEF GCReturn, Unowned
<1>17. ASSUME NEW o \in Objects, CallLock(t, o) PROVE Unowned'
  BY <1>17 DEF CallLock, Unowned
<1>18. ASSUME NEW o \in Objects, UnlockObj(t, o) PROVE Unowned'
  <2>1. map[o] \in live /\ owner[map[o]] = t
    BY <1>18 DEF UnlockObj, Calls, Owned
  <2> QED
    BY <1>18, <2>1, <1>leave DEF UnlockObj
<1>19. ASSUME NEW o \in Objects, EnumProperty(t, o) PROVE Unowned'
  BY <1>19 DEF EnumProperty, Unowned
<1>20. ASSUME NEW o \in Objects, CallSlot(t, o) PROVE Unowned'
  BY <1>20 DEF CallSlot, Unowned
<1>21. ASSUME NEW o \in Objects, Mutate(t, o) PROVE Unowned'
  <2>1. PICK n \in Scopes \ live :
          live' = live \cup {n} /\ owner' = [owner EXCEPT ![n] = t] /\ count' = [count EXCEPT ![n] = 1]
    BY <1>21 DEF Mutate
  <2> QED
    BY <2>1 DEF Unowned
<1>22. ASSUME NEW o \in Objects, FinalizeObject(t, o) PROVE Unowned'
  BY <1>22 DEF FinalizeObject, Unowned
<1>23. ASSUME NEW o \in Objects, NEW p \in Objects, NewObject(t, o, p) PROVE Unowned'
  BY <1>23 DEF NewObject, Unowned
<1> QED
  BY <1>1, <1>2, <1>3, <1>4, <1>5, <1>6, <1>7, <1>8, <1>9, <1>10, <1>11, <1>12, <1>13, <1>14, <1>15, <1>16, <1>17, <1>18, <1>19, <1>20, <1>21, <1>22, <1>23 DEF Call, Caller

LEMMA InvInit == Init => Inv
<1> SUFFICES ASSUME Init PROVE Inv
  OBVIOUS
<1> USE ScopeLockAssumption DEF ScopeLockAssumption
<1>1. RefsInv
  BY RefsInit
<1>2. /\ \A t \in Threads : pc[t] = "run" /\ \A o \in Objects : entries[t][o] = 0
      /\ \A s \in Scopes : count[s] = 0 /\ owner[s] = NoThread
  BY DEF Init
<1>3. live \subseteq Scopes
  BY <1>1 DEF RefsInv, TypeOK
<1>4. Unowned
  BY <1>2, <1>3 DEF Unowned
<1>5. ASSUME NEW t \in Threads PROVE OneObject(t) /\ Owned(t) /\ Counted(t)
  <2>1. OneObject(t) /\ Owned(t)
    BY <1>2 DEF OneObject, Owned, Locking, Mutating
  <2>2. Counted(t)
    BY <1>2, <1>3 DEF Counted, Mutating
  <2> QED
    BY <2>1, <2>2
<1> QED
  BY <1>1, <1>4, <1>5 DEF Inv, LocksInv

LEMMA InvStep == Inv /\ [Next]_vars => Inv'
<1> SUFFICES ASSUME Inv, [Next]_vars PROVE Inv'
  OBVIOUS
<1>1. RefsInv /\ RefsInv'
  BY RefsStep DEF Inv
<1>2. SUFFICES ASSUME Asserting, LocksInv PROVE LocksInv'
  <2>1. ops' = ops
    BY DEF Next, Runs, Caller, vars
  <2>2. Asserting' => Asserting
    BY <2>1 DEF Asserting, OneAtATime
  <2> QED
    BY <1>1, <1>2, <2>2 DEF Inv
<1>3. CASE UNCHANGED vars
  BY <1>2, <1>3 DEF vars, LocksInv, Unowned, OneObject, Owned, Counted, Counts, Settled, Entry
<1>4. ASSUME NEW t \in Threads, Call(t) \/ Caller(t) PROVE LocksInv'
  <2>1. OthersKept(t)
    BY <1>1, <1>2, <1>4, StepFrame
  <2>2. OneObject(t)' /\ Owned(t)' /\ Counted(t)'
    BY <1>1, <1>2, <1>4, OwnStep
  <2>3. ASSUME NEW u \in Threads \ {t} PROVE OneObject(u)' /\ Owned(u)' /\ Counted(u)'
    BY <1>1, <1>2, <2>1, OthersStep
  <2>4. Unowned'
    BY <1>1, <1>2, <1>4, UnownedStep
  <2> QED
    BY <2>2, <2>3, <2>4 DEF LocksInv
<1> QED
  BY <1>3, <1>4 DEF Next, Runs

\* The inductive invariant holds in every reachable state.
THEOREM InvCorrect == Spec => []Inv
  BY InvInit, InvStep, PTL DEF Spec

-----------------------------------------------------------------------------
\* What the invariant says of locks, in the words of ScopeLock.
LEMMA ExclusiveInv == Inv /\ "Assert" \in ops => ObjectExclusive
<1> SUFFICES ASSUME Inv, "Assert" \in ops, OneAtATime, NEW t \in Threads, NEW o \in Objects, Holds(t, o)
             PROVE  owner[map[o]] = t
  BY DEF ObjectExclusive
<1>1. Owned(t) /\ Owners
  BY DEF Inv, RefsInv, Asserting, LocksInv
<1>2. CASE entries[t][o] > 0
  BY <1>1, <1>2 DEF Owned
<1>3. CASE pc[t] = "slot_read" /\ obj[t] = o
  BY <1>1, <1>3 DEF Owned, Owners, Owning
<1> QED
  BY <1>2, <1>3 DEF Holds

LEMMA CountInv == Inv /\ "Assert" \in ops => CountExact
<1> SUFFICES ASSUME Inv, "Assert" \in ops, NEW s \in live, OneAtATime, Moving(s) = {},
                    \A t \in Threads : pc[t] # "assert"
             PROVE  \/ \E t \in Threads, o \in Objects :
                         /\ owner[s] = t
                         /\ map[o] = s
                         /\ entries[t][o] > 0
                         /\ count[s] = entries[t][o] + Cardinality(Entering(s))
                    \/ /\ \A t \in Threads, o \in Objects : map[o] = s => entries[t][o] = 0
                       /\ count[s] = Cardinality(Entering(s))
  BY DEF CountExact
<1> USE ScopeLockAssumption DEF ScopeLockAssumption
<1>1. TypeOK /\ Owners /\ LocksInv /\ s \in Scopes
  BY DEF Inv, RefsInv, Asserting, TypeOK
<1>2. ASSUME owner[s] \notin Threads
      PROVE  /\ \A t \in Threads, o \in Objects : map[o] = s => entries[t][o] = 0
             /\ count[s] = Cardinality(Entering(s))
  <2>1. owner[s] = NoThread /\ count[s] = 0
    BY <1>1, <1>2 DEF TypeOK, LocksInv, Unowned
  <2>2. \A t \in Threads, o \in Objects : map[o] = s => entries[t][o] = 0
    BY <1>1, <1>2 DEF LocksInv, Owned, TypeOK
  <2>3. Entering(s) = {}
    BY <1>1, <1>2 DEF Owners, Owning, Entering
  <2>4. Cardinality(Entering(s)) = 0
    BY <2>3, FS_EmptySet
  <2> QED
    BY <2>1, <2>2, <2>4
<1>3. ASSUME NEW t \in Threads, owner[s] = t
      PROVE  \/ \E o \in Objects :
                  /\ map[o] = s
                  /\ entries[t][o] > 0
                  /\ count[s] = entries[t][o] + Cardinality(Entering(s))
             \/ /\ \A u \in Threads, o \in Objects : map[o] = s => entries[u][o] = 0
                /\ count[s] = Cardinality(Entering(s))
  <2>1. Settled(t, s)
    BY DEF Moving, Settled, Mutating
  <2>2. Counts(t, s)
    BY <1>1, <1>3, <2>1 DEF LocksInv, Counted
  <2>3. Cardinality(Entering(s)) = Entry(t, s)
    <3>1. Entering(s) \subseteq {t}
      BY <1>1, <1>3 DEF Owners, Owning, Entering
    <3>2. CASE t \in Entering(s)
      <4>1. Entering(s) = {t}
        BY <3>1, <3>2
      <4>2. Cardinality(Entering(s)) = 1
        BY <4>1, FS_Singleton
      <4> QED
        BY <3>2, <4>2 DEF Entering, Entry
    <3>3. CASE t \notin Entering(s)
      <4>1. Entering(s) = {}
        BY <3>1, <3>3
      <4>2. Cardinality(Entering(s)) = 0
        BY <4>1, FS_EmptySet
      <4> QED
        BY <3>3, <4>2 DEF Entering, Entry
    <3> QED
      BY <3>2, <3>3
  <2>4. \A u \in Threads, o \in Objects : map[o] = s /\ entries[u][o] > 0 => u = t
    BY <1>1, <1>3 DEF LocksInv, Owned
  <2>5. \A u \in Threads, o \in Objects : entries[u][o] \in Nat
    BY <1>1 DEF TypeOK
  <2>6. CASE \E o \in Objects : map[o] = s /\ entries[t][o] > 0
    BY <2>2, <2>3, <2>6 DEF Counts
  <2>7. CASE \A o \in Objects : map[o] = s => ~(entries[t][o] > 0)
    <3>1. \A u \in Threads, o \in Objects : map[o] = s => entries[u][o] = 0
      BY <2>4, <2>5, <2>7
    <3> QED
      BY <2>2, <2>3, <3>1 DEF Counts
  <2> QED
    BY <2>6, <2>7
<1> QED
  BY <1>2, <1>3

\* For callers that lock one object at a time, in a build whose assertions stop a
\* thread: whoever has locked an object, or is in the fast path of a slot,
\* owns the scope the object has, however objects change and share scopes.
THEOREM LocksExclusive == Spec => []("Assert" \in ops => ObjectExclusive)
  BY InvCorrect, ExclusiveInv, PTL

\* ... and the count of a scope is the owner's, of the one object it has.
THEOREM CountsCorrect == Spec => []("Assert" \in ops => CountExact)
  BY InvCorrect, CountInv, PTL

-----------------------------------------------------------------------------
(***************************************************************************)
(* Object locks implement the locks of Mutex: a step of a thread changes   *)
(* whether it holds one object, and leaves the others alone.               *)
(***************************************************************************)
LEMMA OneHolder ==
  Inv /\ Asserting => \A o \in Objects, t, u \in Threads : Holds(t, o) /\ Holds(u, o) => t = u
  BY ExclusiveInv DEF Asserting, ObjectExclusive

LEMMA HolderHolds ==
  Inv /\ Asserting => \A o \in Objects :
    /\ \A t \in Threads : Holder(o) = t <=> Holds(t, o)
    /\ (\A t \in Threads : ~Holds(t, o)) => Holder(o) = NoThread
<1> SUFFICES ASSUME Inv, Asserting, NEW o \in Objects
             PROVE  /\ \A t \in Threads : Holder(o) = t <=> Holds(t, o)
                    /\ (\A t \in Threads : ~Holds(t, o)) => Holder(o) = NoThread
  OBVIOUS
<1>1. (\A t \in Threads : ~Holds(t, o)) => Holder(o) = NoThread
  BY DEF Holder
<1>2. (\E t \in Threads : Holds(t, o)) => Holder(o) \in Threads /\ Holds(Holder(o), o)
  BY DEF Holder
<1>3. NoThread \notin Threads
  BY ScopeLockAssumption DEF ScopeLockAssumption
<1> QED
  BY <1>1, <1>2, <1>3, OneHolder

\* One object at most that t holds, before or after a step.
LEMMA HoldsStep ==
  ASSUME RefsInv, LocksInv, Asserting, NEW t \in Threads, Call(t) \/ Caller(t)
  PROVE  \E o \in Objects \cup {NoObject} : \A p \in Objects \ {o} : Holds(t, p)' <=> Holds(t, p)
<1> USE ScopeLockAssumption DEF ScopeLockAssumption
<1> DEFINE Same(o) == \A p \in Objects \ {o} : Holds(t, p)' <=> Holds(t, p)
<1> TypeOK /\ OneObject(t)
  BY DEF RefsInv, LocksInv
<1> "Enumerate" \notin ops
  BY DEF Asserting, OneAtATime
<1> USE DEF TypeOK, Goto, Return, locks, heap, locals, PCs, Stale
<1>obj. ASSUME obj[t] \in Objects, obj'[t] \in {obj[t], NoObject},
               \A p \in Objects \ {obj[t]} : entries'[t][p] = entries[t][p]
        PROVE  Same(obj[t])
  BY <1>obj DEF Holds
<1>stay. ASSUME entries'[t] = entries[t], pc[t] # "slot_read", pc'[t] # "slot_read"
         PROVE  Same(NoObject)
  BY <1>stay DEF Holds
<1>entry. ASSUME NEW o \in Objects, \A p \in Objects \ {o} : entries'[t][p] = entries[t][p],
                 pc[t] # "slot_read", pc'[t] # "slot_read"
          PROVE  Same(o)
  BY <1>entry DEF Holds
<1> HIDE DEF Same
<1>1. ASSUME LockScope(t) PROVE \E o \in Objects \cup {NoObject} : Same(o)
  BY <1>1, <1>stay DEF LockScope
<1>2. ASSUME Locked(t) PROVE \E o \in Objects \cup {NoObject} : Same(o)
  BY <1>2, <1>obj DEF Locked
<1>3. ASSUME LostRace(t) PROVE \E o \in Objects \cup {NoObject} : Same(o)
  BY <1>3, <1>stay DEF LostRace
<1>4. ASSUME Retry(t) PROVE \E o \in Objects \cup {NoObject} : Same(o)
  BY <1>4, <1>stay DEF Retry
<1>5. ASSUME UseFreed(t) PROVE \E o \in Objects \cup {NoObject} : Same(o)
  BY <1>5, <1>stay DEF UseFreed
<1>6. ASSUME SlotCas(t) PROVE \E o \in Objects \cup {NoObject} : Same(o)
  BY <1>6, <1>stay DEF SlotCas
<1>7. ASSUME SlotMine(t) PROVE \E o \in Objects \cup {NoObject} : Same(o)
  BY <1>7, <1>stay DEF SlotMine
<1>8. ASSUME SlotSlow(t) PROVE \E o \in Objects \cup {NoObject} : Same(o)
  BY <1>8, <1>stay DEF SlotSlow
<1>9. ASSUME SlotCheck(t) PROVE \E o \in Objects \cup {NoObject} : Same(o)
  BY <1>9, <1>obj DEF SlotCheck
<1>10. ASSUME SlotRead(t) PROVE \E o \in Objects \cup {NoObject} : Same(o)
  BY <1>10, <1>obj DEF SlotRead
<1>11. ASSUME DropObjectMap(t) PROVE \E o \in Objects \cup {NoObject} : Same(o)
  BY <1>11, <1>stay DEF DropObjectMap
<1>12. ASSUME Dropped(t) PROVE \E o \in Objects \cup {NoObject} : Same(o)
  BY <1>12, <1>stay DEF Dropped
<1>13. ASSUME TransferScopeLock(t) PROVE \E o \in Objects \cup {NoObject} : Same(o)
  BY <1>13, <1>stay DEF TransferScopeLock
<1>14. ASSUME HoldObjectMap(t) PROVE \E o \in Objects \cup {NoObject} : Same(o)
  BY <1>14, <1>stay DEF HoldObjectMap
<1>15. ASSUME CallGC(t) PROVE \E o \in Objects \cup {NoObject} : Same(o)
  BY <1>15, <1>stay DEF CallGC
<1>16. ASSUME GCReturn(t) PROVE \E o \in Objects \cup {NoObject} : Same(o)
  BY <1>16, <1>stay DEF GCReturn
<1>17. ASSUME NEW o \in Objects, CallLock(t, o) PROVE \E x \in Objects \cup {NoObject} : Same(x)
  BY <1>17, <1>stay DEF CallLock
<1>18. ASSUME NEW o \in Objects, UnlockObj(t, o) PROVE \E x \in Objects \cup {NoObject} : Same(x)
  BY <1>18, <1>entry DEF UnlockObj
<1>19. ASSUME NEW o \in Objects, EnumProperty(t, o) PROVE \E x \in Objects \cup {NoObject} : Same(x)
  BY <1>19, <1>entry DEF EnumProperty
<1>20. ASSUME NEW o \in Objects, CallSlot(t, o) PROVE \E x \in Objects \cup {NoObject} : Same(x)
  BY <1>20, <1>stay DEF CallSlot
<1>21. ASSUME NEW o \in Objects, Mutate(t, o) PROVE \E x \in Objects \cup {NoObject} : Same(x)
  BY <1>21, <1>stay DEF Mutate
<1>22. ASSUME NEW o \in Objects, FinalizeObject(t, o) PROVE \E x \in Objects \cup {NoObject} : Same(x)
  BY <1>22, <1>stay DEF FinalizeObject
<1>23. ASSUME NEW o \in Objects, NEW p \in Objects, NewObject(t, o, p) PROVE \E x \in Objects \cup {NoObject} : Same(x)
  BY <1>23, <1>stay DEF NewObject
<1>24. \E o \in Objects \cup {NoObject} : Same(o)
  BY <1>1, <1>2, <1>3, <1>4, <1>5, <1>6, <1>7, <1>8, <1>9, <1>10, <1>11, <1>12, <1>13, <1>14, <1>15, <1>16, <1>17, <1>18, <1>19, <1>20, <1>21, <1>22, <1>23 DEF Call, Caller
<1> QED
  BY <1>24 DEF Same

LEMMA MutexStep ==
  Inv /\ Inv' /\ [Next]_vars =>
    [Asserting => Abstract!Next]_[o \in Objects |-> Holder(o)]
<1> SUFFICES ASSUME Inv, Inv', [Next]_vars, Asserting
             PROVE  [Abstract!Next]_[o \in Objects |-> Holder(o)]
  OBVIOUS
<1>1. ops' = ops
  BY DEF Next, Runs, Caller, vars
<1>2. Asserting'
  BY <1>1 DEF Asserting, OneAtATime
<1>3. RefsInv /\ LocksInv
  BY DEF Inv
<1>4. \A o \in Objects : /\ \A t \in Threads : Holder(o) = t <=> Holds(t, o)
                         /\ (\A t \in Threads : ~Holds(t, o)) => Holder(o) = NoThread
  BY HolderHolds
<1>5. Inv' /\ Asserting' => (\A o \in Objects : /\ \A t \in Threads : Holder(o) = t <=> Holds(t, o)
                                                /\ (\A t \in Threads : ~Holds(t, o)) => Holder(o) = NoThread)'
  BY HolderHolds, PTL
<1>6. \A o \in Objects : /\ \A t \in Threads : Holder(o)' = t <=> Holds(t, o)'
                         /\ (\A t \in Threads : ~Holds(t, o)') => Holder(o)' = NoThread
  BY <1>2, <1>5
<1>7. CASE UNCHANGED vars
  BY <1>7 DEF vars, Holder, Holds
<1>8. ASSUME NEW t \in Threads, Call(t) \/ Caller(t)
      PROVE  [Abstract!Next]_[o \in Objects |-> Holder(o)]
  <2>1. PICK o \in Objects \cup {NoObject} : \A p \in Objects \ {o} : Holds(t, p)' <=> Holds(t, p)
    BY <1>3, <1>8, HoldsStep
  <2>2. \A u \in Threads \ {t}, p \in Objects : Holds(u, p)' <=> Holds(u, p)
    <3>1. OthersKept(t)
      BY <1>3, <1>8, StepFrame
    <3> QED
      BY <3>1 DEF OthersKept, Holds
  <2>3. \A p \in Objects \ {o} : Holder(p)' = Holder(p)
    <3>1. SUFFICES ASSUME NEW p \in Objects \ {o} PROVE Holder(p)' = Holder(p)
      OBVIOUS
    <3>2. \A u \in Threads : Holds(u, p)' <=> Holds(u, p)
      BY <2>1, <2>2
    <3> QED
      BY <1>4, <1>6, <3>2
  <2>4. CASE o \notin Objects \/ Holder(o)' = Holder(o)
    <3>1. [p \in Objects |-> Holder(p)'] = [p \in Objects |-> Holder(p)]
      BY <2>3, <2>4
    <3> QED
      BY <3>1
  <2>5. CASE o \in Objects /\ Holder(o)' # Holder(o)
    <3>1. ~(Holds(t, o)' <=> Holds(t, o))
      BY <1>4, <1>6, <2>2, <2>5
    <3>2. CASE Holds(t, o)
      <4>1. Holder(o) = t /\ Holder(o)' = NoThread
        <5>1. \A u \in Threads : ~Holds(u, o)'
          BY <1>4, <2>2, <2>5, <3>1, <3>2
        <5> QED
          BY <1>4, <1>6, <2>5, <3>2, <5>1
      <4>2. [p \in Objects |-> Holder(p)'] = [[p \in Objects |-> Holder(p)] EXCEPT ![o] = NoThread]
        <5>1. \A p \in Objects : Holder(p)' = IF p = o THEN NoThread ELSE Holder(p)
          BY <2>3, <4>1
        <5>2. [[p \in Objects |-> Holder(p)] EXCEPT ![o] = NoThread] = [p \in Objects |-> IF p = o THEN NoThread ELSE Holder(p)]
          OBVIOUS
        <5> QED
          BY <5>1, <5>2
      <4> QED
        BY <2>5, <4>1, <4>2 DEF Abstract!Next, Abstract!Release
    <3>3. CASE ~Holds(t, o)
      <4>1. Holder(o) = NoThread /\ Holder(o)' = t
        <5>1. Holder(o)' = t
          BY <1>6, <2>5, <3>1, <3>3
        <5>2. \A u \in Threads : ~Holds(u, o)
          BY <1>6, <2>2, <2>5, <3>3, <5>1
        <5> QED
          BY <1>4, <2>5, <5>1, <5>2
      <4>2. [p \in Objects |-> Holder(p)'] = [[p \in Objects |-> Holder(p)] EXCEPT ![o] = t]
        <5>1. \A p \in Objects : Holder(p)' = IF p = o THEN t ELSE Holder(p)
          BY <2>3, <4>1
        <5>2. [[p \in Objects |-> Holder(p)] EXCEPT ![o] = t] = [p \in Objects |-> IF p = o THEN t ELSE Holder(p)]
          OBVIOUS
        <5> QED
          BY <5>1, <5>2
      <4> QED
        BY <2>5, <4>1, <4>2 DEF Abstract!Next, Abstract!Acquire
    <3> QED
      BY <3>2, <3>3
  <2> QED
    BY <2>4, <2>5
<1> QED
  BY <1>7, <1>8 DEF Next, Runs

\* The callers that lock one object at a time run with assertions.
OneAtATimeAsserts ==
  \A c \in Callers : c \cap {"Nest", "Enumerate", "CollectLocked"} = {} => "Assert" \in c

\* js_LockObj, js_UnlockObj and the fast path of slots together implement one
\* lock for every object, for callers that lock one object at a time.
THEOREM MutexRefinement == OneAtATimeAsserts => (Spec => ImplementsMutex)
<1> SUFFICES ASSUME OneAtATimeAsserts PROVE Spec => ImplementsMutex
  OBVIOUS
<1>1. Init => Abstract!Init
  <2> SUFFICES ASSUME Init PROVE Abstract!Init
    OBVIOUS
  <2>1. \A t \in Threads, o \in Objects : ~Holds(t, o)
    BY DEF Init, Holds
  <2>2. \A o \in Objects : Holder(o) = NoThread
    BY <2>1 DEF Holder
  <2> QED
    BY <2>2 DEF Abstract!Init
<1>2. Inv /\ OneAtATime => Asserting
  BY DEF Inv, RefsInv, Calls, OneAtATimeAsserts, Asserting, OneAtATime
<1>3. Inv /\ Inv' /\ [Next]_vars => [OneAtATime => Abstract!Next]_[o \in Objects |-> Holder(o)]
  BY <1>2, MutexStep
<1> QED
  BY <1>1, <1>3, InvCorrect, PTL DEF Spec, ImplementsMutex
====
