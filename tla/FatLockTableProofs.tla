------------------------- MODULE FatLockTableProofs -------------------------
(***************************************************************************)
(* Proofs about FatLockTable in the DEBUG build, for any number of threads *)
(* and fat locks: the two lists are exact, no fat lock is handed out       *)
(* twice, and the table implements the abstract pool.                      *)
(*                                                                         *)
(* In that build _global_lock is one lock while anybody uses the table, so *)
(* the sections exclude each other.  The free list is singly linked and    *)
(* the taken one doubly; that a list has no circle and that nothing is cut *)
(* off it is said by sets that are closed under the links, so that no      *)
(* proof needs a path.  What js_SetupLocks chains up is numbered, and the  *)
(* least number in a set of them is the induction it needs.                *)
(***************************************************************************)
EXTENDS FatLockTable, WellFoundedInduction, TLAPS

Inside(u) == pc[u] \in {"alloc_read", "alloc_link", "dealloc_link"}

\* Who is where, and what that says of the global lock and its own locals.
Sections ==
  /\ \A u \in Users : pc[u] # "idle" \/ held[u] # Null => global # 0
  /\ \A u \in Users : pc[u] # "idle" => gl[u] = global
  /\ \A u \in Users : Inside(u) => holder[global] = u
  /\ \A u \in Users : pc[u] \in {"alloc_lock", "alloc_read", "alloc_link"} => held[u] = Null
  /\ \A u \in Users : pc[u] \in {"dealloc_lock", "dealloc_link"} => held[u] # Null
  /\ ~crashed => \A u \in Users : pc[u] = "alloc_link" => m[u] = free
  /\ global = 0 => live = {} /\ free = Null /\ taken = Null
  /\ global # 0 /\ ~crashed => free # Null

Owned ==
  /\ InUse \subseteq live
  /\ HandedOutOnce

Avail == live \ InUse

\* The free list.
FreeLinked ==
  /\ free \in Avail \cup {Null}
  /\ \A f \in Avail : next[f] \in Avail \cup {Null} /\ next[f] # free
  /\ \A f, g \in Avail : next[f] = next[g] /\ next[f] # Null => f = g
FreeEnds == \A S \in SUBSET Avail : (\A f \in S : next[f] \in S) => S = {}
FreeWhole ==
  \A S \in SUBSET Memory :
    (free # Null => free \in S) /\ ClosedUnderNext(S) => Avail \subseteq S

\* The taken list.
TakenLinked ==
  /\ taken \in InUse \cup {Null}
  /\ taken # Null => prev[taken] = Null
  /\ \A f \in InUse :
       /\ next[f] \in InUse \cup {Null} /\ prev[f] \in InUse \cup {Null}
       /\ prev[f] = Null => taken = f
       /\ prev[f] # Null => next[prev[f]] = f
       /\ next[f] # Null => prev[next[f]] = f
TakenEnds == \A S \in SUBSET InUse : (\A f \in S : next[f] \in S) => S = {}
TakenWhole == \A S \in SUBSET InUse : (\A f \in S : prev[f] \in S) => S = {}

Free == FreeLinked /\ FreeEnds /\ FreeWhole
Taken == TakenLinked /\ TakenEnds /\ TakenWhole

Inv == TypeOK /\ Sections /\ Owned /\ (~crashed => Free /\ Taken)
-----------------------------------------------------------------------------
(***************************************************************************)
(* Types.                                                                  *)
(***************************************************************************)
LEMMA TypeInit == Init => TypeOK
<1> SUFFICES ASSUME Init PROVE TypeOK
  OBVIOUS
<1> USE FatLockTableAssumption DEF FatLockTableAssumption, Init, Pointer
<1>1. next \in [Memory -> Pointer] /\ prev \in [Memory -> Pointer]
  OBVIOUS
<1>2. made \in 0..MaxGlobals /\ global \in 0..made
  OBVIOUS
<1>3. holder \in [1..MaxGlobals -> Users \cup {Nobody}]
  OBVIOUS
<1>4. gl \in [Users -> 0..MaxGlobals]
  OBVIOUS
<1>5. m \in [Users -> Pointer] /\ held \in [Users -> Pointer]
  OBVIOUS
<1>6. free \in Pointer /\ taken \in Pointer /\ live \in SUBSET Memory
  OBVIOUS
<1>7. crashed \in BOOLEAN
  OBVIOUS
<1>8. pc \in [Users -> {"idle", "alloc_lock", "alloc_read", "alloc_link",
                        "dealloc_lock", "dealloc_link"}]
  OBVIOUS
<1> HIDE DEF Init
<1> QED
  BY <1>1, <1>2, <1>3, <1>4, <1>5, <1>6, <1>7, <1>8 DEF TypeOK

LEMMA UnlockType ==
  ASSUME TypeOK, NEW u \in Users, UnlockGlobal(u)
  PROVE  /\ holder' \in [1..MaxGlobals -> Users \cup {Nobody}]
         /\ gl' \in [Users -> 0..MaxGlobals]
<1> USE FatLockTableAssumption DEF FatLockTableAssumption, TypeOK
<1>1. holder' \in [1..MaxGlobals -> Users \cup {Nobody}]
  <2>1. holder' \in {holder, [holder EXCEPT ![global] = Nobody]}
    BY DEF UnlockGlobal
  <2> QED
    BY <2>1
<1>2. gl' = [gl EXCEPT ![u] = 0] /\ 0 \in 0..MaxGlobals
  BY DEF UnlockGlobal
<1>3. gl' \in [Users -> 0..MaxGlobals]
  BY <1>2
<1> QED
  BY <1>1, <1>3

LEMMA TypeStep == TypeOK /\ Sections /\ [Next]_vars => TypeOK'
<1> SUFFICES ASSUME TypeOK, Sections, [Next]_vars PROVE TypeOK'
  OBVIOUS
<1> USE FatLockTableAssumption DEF FatLockTableAssumption, TypeOK, Pointer, Goto, lists, globals
<1>1. ASSUME NEW u \in Users, CallAllocate(u) PROVE TypeOK'
  BY <1>1 DEF CallAllocate
<1>2. ASSUME NEW u \in Users, AllocateLock(u) PROVE TypeOK'
  BY <1>2 DEF AllocateLock, LockGlobal
<1>3. ASSUME NEW u \in Users, AllocateRead(u) PROVE TypeOK'
  BY <1>3 DEF AllocateRead
<1>4. ASSUME NEW u \in Users, AllocateLink(u) PROVE TypeOK'
  <2>1. /\ holder' \in [1..MaxGlobals -> Users \cup {Nobody}]
        /\ gl' \in [Users -> 0..MaxGlobals]
    BY <1>4, UnlockType DEF AllocateLink
  <2>0. m[u] \in Memory /\ next[m[u]] \in Pointer
    BY <1>4 DEF AllocateLink, Sections
  <2>2. next' \in [Memory -> Pointer] /\ free' \in Pointer /\ taken' \in Pointer
    BY <1>4, <2>0 DEF AllocateLink
  <2>3. prev' \in [Memory -> Pointer]
    BY <1>4 DEF AllocateLink
  <2>4. m' \in [Users -> Pointer] /\ held' \in [Users -> Pointer]
    BY <1>4 DEF AllocateLink
  <2> QED
    BY <1>4, <2>1, <2>2, <2>3, <2>4 DEF AllocateLink
<1>5. ASSUME NEW u \in Users, AllocateLast(u) PROVE TypeOK'
  BY <1>5 DEF AllocateLast
<1>6. ASSUME NEW u \in Users, CallDeallocate(u) PROVE TypeOK'
  BY <1>6 DEF CallDeallocate
<1>7. ASSUME NEW u \in Users, DeallocateLock(u) PROVE TypeOK'
  BY <1>7 DEF DeallocateLock, LockGlobal
<1>8. ASSUME NEW u \in Users, DeallocateLink(u) PROVE TypeOK'
  <2>1. /\ holder' \in [1..MaxGlobals -> Users \cup {Nobody}]
        /\ gl' \in [Users -> 0..MaxGlobals]
    BY <1>8, UnlockType DEF DeallocateLink
  <2>2. held[u] \in Memory /\ next[held[u]] \in Pointer
    BY <1>8 DEF DeallocateLink, Sections
  <2>3. next' \in [Memory -> Pointer] /\ prev' \in [Memory -> Pointer]
    BY <1>8, <2>2 DEF DeallocateLink
  <2>4. free' \in Pointer /\ taken' \in Pointer /\ held' \in [Users -> Pointer]
    BY <1>8, <2>2 DEF DeallocateLink
  <2> QED
    BY <1>8, <2>1, <2>3, <2>4 DEF DeallocateLink
<1>9. CASE SetupLocks
  <2>1. PICK s \in Fresh : /\ live' = live \cup {s[i] : i \in 1..Initial}
                           /\ next' = Chain(s)
                           /\ prev' = [f \in Memory |-> IF \E i \in 1..Initial : s[i] = f THEN Null ELSE prev[f]]
                           /\ free' = s[1]
    BY <1>9 DEF SetupLocks
  <2>2. \A i \in 1..Initial : s[i] \in Memory
    BY DEF Fresh
  <2>3. next' \in [Memory -> Pointer]
    BY <2>1, <2>2 DEF Chain
  <2>4. prev' \in [Memory -> Pointer] /\ free' \in Pointer /\ live' \in SUBSET Memory
    BY <2>1, <2>2
  <2>5. made' \in 0..MaxGlobals /\ global' \in 0..made' /\ taken' \in Pointer
    BY <1>9 DEF SetupLocks
  <2> QED
    BY <1>9, <2>3, <2>4, <2>5 DEF SetupLocks
<1>10. CASE CleanupLocks
  BY <1>10 DEF CleanupLocks
<1>11. CASE UNCHANGED vars
  BY <1>11 DEF vars
<1> QED
  BY <1>1, <1>2, <1>3, <1>4, <1>5, <1>6, <1>7, <1>8, <1>9, <1>10, <1>11
  DEF Next, Allocate, Deallocate
-----------------------------------------------------------------------------
(***************************************************************************)
(* What the lists have.                                                    *)
(***************************************************************************)
LEMMA ListIs ==
  ASSUME NEW h \in Pointer, NEW A \in SUBSET Memory,
         h \in A \cup {Null}, ClosedUnderNext(A),
         \A S \in SUBSET Memory : (h # Null => h \in S) /\ ClosedUnderNext(S) => A \subseteq S
  PROVE  ListOf(h) = A
BY DEF ListOf

LEMMA FreeIs == ASSUME TypeOK, Owned, Free PROVE ListOf(free) = Avail
<1>1. Avail \in SUBSET Memory
  BY DEF TypeOK, Avail
<1>2. ClosedUnderNext(Avail)
  BY DEF Free, FreeLinked, ClosedUnderNext
<1>3. free \in Pointer /\ free \in Avail \cup {Null}
  BY DEF TypeOK, Free, FreeLinked
<1> QED
  BY <1>1, <1>2, <1>3, ListIs DEF Free, FreeWhole

LEMMA TakenIs == ASSUME TypeOK, Owned, Taken PROVE ListOf(taken) = InUse
<1>1. InUse \in SUBSET Memory
  BY DEF TypeOK, Owned
<1>2. ClosedUnderNext(InUse)
  BY DEF Taken, TakenLinked, ClosedUnderNext
<1>3. taken \in Pointer /\ taken \in InUse \cup {Null}
  BY DEF TypeOK, Taken, TakenLinked
<1>4. ASSUME NEW S \in SUBSET Memory, taken # Null => taken \in S, ClosedUnderNext(S)
      PROVE  InUse \subseteq S
  <2> DEFINE T == InUse \ S
  <2>1. ASSUME NEW f \in T PROVE prev[f] \in T
    <3>1. prev[f] # Null
      BY <1>4, <2>1 DEF Taken, TakenLinked, InUse
    <3>2. prev[f] \in InUse /\ next[prev[f]] = f
      BY <2>1, <3>1 DEF Taken, TakenLinked
    <3>3. f # Null
      BY DEF InUse
    <3> QED
      BY <1>4, <3>2, <3>3 DEF ClosedUnderNext
  <2>2. T \in SUBSET InUse
    OBVIOUS
  <2>3. T = {}
    BY <2>1, <2>2 DEF Taken, TakenWhole
  <2> QED
    BY <2>3
<1> QED
  BY <1>1, <1>2, <1>3, <1>4, ListIs

LEMMA InvImpliesTableSound == Inv => TableSound
<1> SUFFICES ASSUME Inv PROVE TableSound
  OBVIOUS
<1>1. ASSUME ~crashed
      PROVE  /\ Ends(free) /\ Ends(taken)
             /\ ListOf(free) \cap ListOf(taken) = {}
             /\ live = ListOf(free) \cup ListOf(taken)
             /\ ListOf(taken) = InUse
             /\ \A f \in ListOf(taken) :
                  /\ IF prev[f] = Null THEN taken = f ELSE next[prev[f]] = f
                  /\ next[f] # Null => prev[next[f]] = f
  <2>1. ListOf(free) = Avail /\ ListOf(taken) = InUse
    BY <1>1, FreeIs, TakenIs DEF Inv
  <2>2. Ends(free) /\ Ends(taken)
    BY <1>1, <2>1 DEF Inv, Free, Taken, FreeEnds, TakenEnds, Ends
  <2>3. Avail \cap InUse = {} /\ live = Avail \cup InUse
    BY DEF Inv, Owned, Avail
  <2>4. \A f \in InUse : /\ IF prev[f] = Null THEN taken = f ELSE next[prev[f]] = f
                         /\ next[f] # Null => prev[next[f]] = f
    BY <1>1 DEF Inv, Taken, TakenLinked
  <2> QED
    BY <2>1, <2>2, <2>3, <2>4
<1>2. TableExact
  BY <1>1 DEF TableExact
<1> QED
  BY <1>2 DEF Inv, Owned, TableSound

(***************************************************************************)
(* Sections.                                                               *)
(***************************************************************************)
LEMMA OneInside ==
  ASSUME Sections, NEW u \in Users, NEW v \in Users, Inside(u), Inside(v)
  PROVE  u = v
BY DEF Sections

LEMMA SectionsStep ==
  ASSUME DEBUG, Inv, Next
  PROVE  Sections'
<1> USE FatLockTableAssumption DEF FatLockTableAssumption, TypeOK, Pointer, Inv, Sections, Inside, Goto, lists, globals
<1>1. ASSUME NEW u \in Users, CallAllocate(u) PROVE Sections'
  BY <1>1 DEF CallAllocate
<1>2. ASSUME NEW u \in Users, AllocateLock(u) PROVE Sections'
  BY <1>2 DEF AllocateLock, LockGlobal
<1>3. ASSUME NEW u \in Users, AllocateRead(u) PROVE Sections'
  BY <1>3 DEF AllocateRead
<1>4. ASSUME NEW u \in Users, AllocateLink(u) PROVE Sections'
  BY <1>4, OneInside DEF AllocateLink, UnlockGlobal
<1>5. ASSUME NEW u \in Users, AllocateLast(u) PROVE Sections'
  BY <1>5 DEF AllocateLast
<1>6. ASSUME NEW u \in Users, CallDeallocate(u) PROVE Sections'
  BY <1>6 DEF CallDeallocate
<1>7. ASSUME NEW u \in Users, DeallocateLock(u) PROVE Sections'
  BY <1>7 DEF DeallocateLock, LockGlobal
<1>8. ASSUME NEW u \in Users, DeallocateLink(u) PROVE Sections'
  <2>1. /\ pc[u] = "dealloc_link" /\ pc' = [pc EXCEPT ![u] = "idle"] /\ held' = [held EXCEPT ![u] = Null]
        /\ gl' = [gl EXCEPT ![u] = 0] /\ free' = held[u]
        /\ holder' = IF holder[global] = u THEN [holder EXCEPT ![global] = Nobody] ELSE holder
        /\ UNCHANGED <<live, global, m, crashed>>
    BY <1>8 DEF DeallocateLink, UnlockGlobal
  <2>2. Inside(u) /\ held[u] # Null /\ global # 0 /\ holder[global] = u
    BY <2>1
  <2>3. \A v \in Users : v # u => pc'[v] = pc[v] /\ held'[v] = held[v] /\ gl'[v] = gl[v] /\ ~Inside(v)
    BY <2>1, <2>2, OneInside
  <2>4. pc'[u] = "idle" /\ held'[u] = Null
    BY <2>1
  <2> QED
    BY <2>1, <2>2, <2>3, <2>4
<1>9. CASE SetupLocks
  <2>1. PICK s \in Fresh : free' = s[1] /\ live' = live \cup {s[i] : i \in 1..Initial}
    BY <1>9 DEF SetupLocks
  <2>2. global = 0 /\ global' = made + 1 /\ made \in Nat /\ taken' = Null
        /\ UNCHANGED <<holder, pc, gl, m, held, crashed>>
    BY <1>9 DEF SetupLocks
  <2>3. \A u \in Users : pc'[u] = "idle" /\ held'[u] = Null
    BY <2>2
  <2>4. free' # Null
    BY <2>1 DEF Fresh
  <2> QED
    BY <2>2, <2>3, <2>4
<1>10. CASE CleanupLocks
  BY <1>10, FreeIs, TakenIs DEF CleanupLocks, Avail
<1> QED
  BY <1>1, <1>2, <1>3, <1>4, <1>5, <1>6, <1>7, <1>8, <1>9, <1>10
  DEF Next, Allocate, Deallocate
-----------------------------------------------------------------------------
(***************************************************************************)
(* A fat lock is taken from the front of the free list ...                 *)
(***************************************************************************)
LEMMA AllocateTakes ==
  ASSUME Inv, NEW u \in Users, AllocateLink(u)
  PROVE  /\ ~crashed /\ m[u] = free /\ free \in Avail /\ held[u] = Null
         /\ held' = [held EXCEPT ![u] = free]
         /\ InUse' = InUse \cup {free} /\ Avail' = Avail \ {free} /\ live' = live
         /\ next[free] \in Avail /\ free' = next[free] /\ taken' = free
         /\ next' = [next EXCEPT ![free] = taken]
         /\ prev' = [g \in Memory |-> IF g \in {next[free], free} THEN Null
                                      ELSE IF g = taken THEN free ELSE prev[g]]
<1> USE DEF Inv
<1>1. /\ ~crashed /\ m[u] = free /\ free # Null /\ held[u] = Null
  BY DEF AllocateLink, Goto, Sections
<1>2. /\ free \in Avail /\ next[free] \in Avail
  BY <1>1 DEF AllocateLink, Free, FreeLinked
<1>3. held' = [held EXCEPT ![u] = free] /\ live' = live /\ held \in [Users -> Pointer]
  BY <1>1 DEF AllocateLink, TypeOK
<1>4. InUse' = InUse \cup {free}
  <2>1. \A v \in Users : held'[v] = IF v = u THEN free ELSE held[v]
    BY <1>3
  <2> QED
    BY <1>1, <2>1 DEF InUse
<1>5. Avail' = Avail \ {free}
  BY <1>3, <1>4 DEF Avail
<1>6. /\ free' = next[free] /\ taken' = free
      /\ next' = [next EXCEPT ![free] = taken]
      /\ prev' = [g \in Memory |-> IF g \in {next[free], free} THEN Null
                                   ELSE IF g = taken THEN free ELSE prev[g]]
  BY <1>1 DEF AllocateLink
<1> QED
  BY <1>1, <1>2, <1>3, <1>4, <1>5, <1>6

LEMMA AllocateOwned == ASSUME Inv, NEW u \in Users, AllocateLink(u) PROVE Owned'
<1>1. /\ free \in Avail /\ held[u] = Null /\ held' = [held EXCEPT ![u] = free]
      /\ InUse' = InUse \cup {free} /\ live' = live
  BY AllocateTakes
<1>2. \A v \in Users : held[v] # free
  BY <1>1 DEF Avail, InUse, Inv, TypeOK, FatLockTableAssumption
<1>3. HandedOutOnce'
  BY <1>1, <1>2 DEF HandedOutOnce, Inv, Owned, TypeOK
<1>4. InUse' \subseteq live'
  BY <1>1 DEF Avail, Inv, Owned
<1> QED
  BY <1>3, <1>4 DEF Owned

LEMMA AllocateFree == ASSUME Inv, NEW u \in Users, AllocateLink(u) PROVE Free'
<1> USE FatLockTableAssumption DEF FatLockTableAssumption
<1>1. /\ ~crashed /\ free \in Avail /\ Avail' = Avail \ {free}
      /\ next[free] \in Avail /\ free' = next[free]
      /\ next' = [next EXCEPT ![free] = taken]
  BY AllocateTakes
<1>2. FreeLinked /\ FreeEnds /\ FreeWhole
  BY <1>1 DEF Inv, Free
<1>3. /\ Avail \subseteq Memory /\ next \in [Memory -> Pointer]
      /\ free # Null
  BY <1>1 DEF Inv, TypeOK, Avail, Null
<1>4. \A g \in Avail \ {free} : next'[g] = next[g]
  BY <1>1, <1>3
<1>5. FreeLinked'
  BY <1>1, <1>2, <1>3, <1>4 DEF FreeLinked
<1>6. FreeEnds'
  BY <1>1, <1>2, <1>4 DEF FreeEnds
<1>7. FreeWhole'
  <2> SUFFICES ASSUME NEW S \in SUBSET Memory, next[free] \in S, ClosedUnderNext(S)'
               PROVE  Avail \ {free} \subseteq S
    BY <1>1, <1>3 DEF FreeWhole
  <2> DEFINE T == (S \cap Avail) \cup {free}
  <2>1. ASSUME NEW g \in T, next[g] # Null PROVE next[g] \in T
    <3>1. CASE g = free
      BY <1>1, <3>1
    <3>2. CASE g # free
      <4>1. g \in S /\ g \in Avail /\ next'[g] = next[g]
        BY <1>4, <3>2
      <4>2. next[g] \in S
        BY <2>1, <4>1 DEF ClosedUnderNext
      <4>3. next[g] \in Avail
        BY <1>2, <2>1, <4>1 DEF FreeLinked
      <4> QED
        BY <4>2, <4>3
    <3> QED
      BY <3>1, <3>2
  <2>2. ClosedUnderNext(T)
    BY <2>1 DEF ClosedUnderNext
  <2>3. T \in SUBSET Memory /\ free \in T
    BY <1>1, <1>3
  <2>4. Avail \subseteq T
    BY <1>2, <2>2, <2>3 DEF FreeWhole
  <2> QED
    BY <2>4
<1> QED
  BY <1>5, <1>6, <1>7 DEF Free

LEMMA AllocateTaken == ASSUME Inv, NEW u \in Users, AllocateLink(u) PROVE Taken'
<1> USE FatLockTableAssumption DEF FatLockTableAssumption
<1>1. /\ ~crashed /\ free \in Avail /\ next[free] \in Avail
      /\ InUse' = InUse \cup {free} /\ taken' = free
      /\ next' = [next EXCEPT ![free] = taken]
      /\ prev' = [g \in Memory |-> IF g \in {next[free], free} THEN Null
                                   ELSE IF g = taken THEN free ELSE prev[g]]
  BY AllocateTakes
<1>2. TakenLinked /\ TakenEnds /\ TakenWhole
  BY <1>1 DEF Inv, Taken
<1>3. /\ InUse \subseteq Memory /\ free \in Memory /\ free \notin InUse /\ next[free] \notin InUse
      /\ next \in [Memory -> Pointer] /\ Null \notin InUse /\ free # Null
  BY <1>1 DEF Inv, TypeOK, Owned, Avail, InUse
<1>4. /\ next'[free] = taken /\ prev'[free] = Null
      /\ taken # Null => prev'[taken] = free /\ taken \in InUse
      /\ \A g \in InUse : next'[g] = next[g] /\ (g # taken => prev'[g] = prev[g])
  BY <1>1, <1>2, <1>3 DEF TakenLinked
<1>5. TakenLinked'
  <2>1. ASSUME NEW g \in InUse
        PROVE  /\ next'[g] \in InUse' \cup {Null} /\ prev'[g] \in InUse' \cup {Null}
               /\ prev'[g] # Null
               /\ next'[prev'[g]] = g
               /\ next'[g] # Null => prev'[next'[g]] = g
    <3>1. /\ next[g] \in InUse \cup {Null} /\ prev[g] \in InUse \cup {Null}
          /\ prev[g] = Null => taken = g
          /\ prev[g] # Null => next[prev[g]] = g
          /\ next[g] # Null => prev[next[g]] = g
          /\ taken # Null => prev[taken] = Null
      BY <1>2 DEF TakenLinked
    <3>2. CASE g = taken
      <4>1. prev'[g] = free /\ next'[free] = g /\ next'[g] = next[g]
        BY <1>3, <1>4, <3>2
      <4>2. next[g] # Null => next[g] # taken
        BY <1>3, <3>1, <3>2
      <4> QED
        BY <1>1, <1>3, <1>4, <3>1, <4>1, <4>2
    <3>3. CASE g # taken
      <4>1. prev'[g] = prev[g] /\ prev[g] # Null /\ prev[g] \in InUse /\ next'[prev[g]] = g
        BY <1>4, <3>1, <3>3
      <4>2. next[g] # Null => next[g] # taken
        BY <1>3, <3>1
      <4> QED
        BY <1>1, <1>3, <1>4, <3>1, <4>1, <4>2
    <3> QED
      BY <3>2, <3>3
  <2>2. /\ next'[free] \in InUse' \cup {Null} /\ prev'[free] = Null
        /\ next'[free] # Null => prev'[next'[free]] = free
    BY <1>1, <1>2, <1>4 DEF TakenLinked
  <2> QED
    BY <1>1, <2>1, <2>2 DEF TakenLinked
<1>6. TakenEnds'
  <2> SUFFICES ASSUME NEW S \in SUBSET (InUse \cup {free}), \A f \in S : next'[f] \in S
               PROVE  S = {}
    BY <1>1 DEF TakenEnds
  <2>1. \A f \in S \ {free} : next[f] \in S \ {free}
    BY <1>2, <1>3, <1>4 DEF TakenLinked
  <2>2. S \ {free} = {}
    BY <1>2, <2>1 DEF TakenEnds
  <2>3. free \in S => taken \in S
    BY <1>4
  <2> QED
    BY <1>2, <1>3, <2>2, <2>3 DEF TakenLinked
<1>7. TakenWhole'
  <2> SUFFICES ASSUME NEW S \in SUBSET (InUse \cup {free}), \A f \in S : prev'[f] \in S
               PROVE  S = {}
    BY <1>1 DEF TakenWhole
  <2>1. free \notin S
    BY <1>3, <1>4
  <2>2. taken \notin S
    BY <1>3, <1>4, <2>1
  <2>3. \A f \in S : prev[f] \in S
    BY <1>4, <2>1, <2>2
  <2> QED
    BY <1>2, <2>1, <2>3 DEF TakenWhole
<1> QED
  BY <1>5, <1>6, <1>7 DEF Taken

(***************************************************************************)
(* ... and given back to it, from anywhere in the taken list.              *)
(***************************************************************************)
LEMMA DeallocateGives ==
  ASSUME Inv, NEW u \in Users, DeallocateLink(u), NEW f, f = held[u]
  PROVE  /\ ~crashed /\ f \in InUse /\ f \in Memory /\ f # Null
         /\ held' = [held EXCEPT ![u] = Null]
         /\ InUse' = InUse \ {f} /\ Avail' = Avail \cup {f} /\ live' = live
         /\ free' = f /\ taken' = IF f = taken THEN next[f] ELSE taken
         /\ next' = [g \in Memory |->
                       IF g = f THEN free ELSE IF g = prev[f] THEN next[f] ELSE next[g]]
         /\ prev' = [g \in Memory |-> IF g = next[f] THEN prev[f] ELSE prev[g]]
<1> USE DEF Inv
<1>1. /\ ~crashed /\ f # Null /\ f \in InUse /\ f \in Memory
  BY DEF DeallocateLink, Goto, Sections, InUse, Owned, TypeOK, Pointer
<1>2. held' = [held EXCEPT ![u] = Null] /\ live' = live /\ held \in [Users -> Pointer]
  BY DEF DeallocateLink, TypeOK
<1>3. InUse' = InUse \ {f}
  <2>1. \A v \in Users : held'[v] = IF v = u THEN Null ELSE held[v]
    BY <1>2
  <2>2. \A v \in Users : v # u => held[v] # f
    BY <1>1 DEF Owned, HandedOutOnce
  <2> QED
    BY <2>1, <2>2 DEF InUse
<1>4. Avail' = Avail \cup {f}
  BY <1>1, <1>2, <1>3 DEF Avail, Owned
<1> QED
  BY <1>1, <1>2, <1>3, <1>4 DEF DeallocateLink

LEMMA DeallocateOwned == ASSUME Inv, NEW u \in Users, DeallocateLink(u) PROVE Owned'
<1>1. held' = [held EXCEPT ![u] = Null] /\ InUse' \subseteq InUse /\ live' = live
  BY DeallocateGives
<1> QED
  BY <1>1 DEF Inv, TypeOK, Owned, HandedOutOnce

LEMMA DeallocateFree == ASSUME Inv, NEW u \in Users, DeallocateLink(u) PROVE Free'
<1> USE FatLockTableAssumption DEF FatLockTableAssumption
<1> DEFINE f == held[u]
<1>1. /\ ~crashed /\ f \in InUse /\ f \in Memory /\ f # Null
      /\ Avail' = Avail \cup {f} /\ free' = f
      /\ next' = [g \in Memory |->
                    IF g = f THEN free ELSE IF g = prev[f] THEN next[f] ELSE next[g]]
  BY DeallocateGives
<1>2. FreeLinked /\ FreeEnds /\ FreeWhole /\ TakenLinked
  BY <1>1 DEF Inv, Free, Taken
<1>3. /\ Avail \subseteq Memory /\ f \notin Avail
      /\ free # f /\ Null \notin Memory
  BY <1>1, <1>2 DEF Inv, TypeOK, Avail, FreeLinked
<1>4. /\ next'[f] = free
      /\ \A g \in Avail : next'[g] = next[g]
  <2>1. prev[f] \notin Avail
    BY <1>1, <1>2, <1>3 DEF TakenLinked, Avail
  <2> QED
    BY <1>1, <1>3, <2>1
<1> HIDE DEF f
<1>5. FreeLinked'
  BY <1>1, <1>2, <1>3, <1>4 DEF FreeLinked
<1>6. FreeEnds'
  <2> SUFFICES ASSUME NEW S \in SUBSET (Avail \cup {f}), \A g \in S : next'[g] \in S
               PROVE  S = {}
    BY <1>1 DEF FreeEnds
  <2>1. \A g \in S \ {f} : next[g] \in S \ {f}
    BY <1>1, <1>2, <1>3, <1>4 DEF FreeLinked
  <2>2. S \ {f} = {}
    BY <1>2, <2>1 DEF FreeEnds
  <2>3. f \in S => free \in S
    BY <1>4
  <2> QED
    BY <1>3, <2>2, <2>3
<1>7. FreeWhole'
  <2> SUFFICES ASSUME NEW S \in SUBSET Memory, f \in S, ClosedUnderNext(S)'
               PROVE  Avail \subseteq S
    BY <1>1 DEF FreeWhole
  <2>1. free # Null => free \in S \cap Avail
    BY <1>2, <1>4 DEF ClosedUnderNext, FreeLinked
  <2>2. ClosedUnderNext(S \cap Avail)
    BY <1>2, <1>4 DEF ClosedUnderNext, FreeLinked
  <2>3. Avail \subseteq S \cap Avail
    BY <1>2, <2>1, <2>2 DEF FreeWhole
  <2> QED
    BY <2>3
<1> QED
  BY <1>5, <1>6, <1>7 DEF Free

LEMMA DeallocateTaken == ASSUME Inv, NEW u \in Users, DeallocateLink(u) PROVE Taken'
<1> USE FatLockTableAssumption DEF FatLockTableAssumption
<1> DEFINE f == held[u]
<1>1. /\ ~crashed /\ f \in InUse /\ f \in Memory /\ f # Null
      /\ InUse' = InUse \ {f} /\ taken' = IF f = taken THEN next[f] ELSE taken
      /\ next' = [g \in Memory |->
                    IF g = f THEN free ELSE IF g = prev[f] THEN next[f] ELSE next[g]]
      /\ prev' = [g \in Memory |-> IF g = next[f] THEN prev[f] ELSE prev[g]]
  BY DeallocateGives
<1>2. TakenLinked /\ TakenEnds /\ TakenWhole
  BY <1>1 DEF Inv, Taken
<1>3. InUse \subseteq Memory /\ Null \notin Memory
  BY DEF Inv, TypeOK, Owned
<1> HIDE DEF f
<1>4. /\ next[f] \in InUse \cup {Null} /\ prev[f] \in InUse \cup {Null}
      /\ prev[f] = Null <=> taken = f
      /\ prev[f] # Null => next[prev[f]] = f
      /\ next[f] # Null => prev[next[f]] = f
  BY <1>1, <1>2 DEF TakenLinked
<1>5. next[f] # f /\ prev[f] # f
  <2>1. next[f] = f => \A g \in {f} : next[g] \in {f}
    OBVIOUS
  <2>2. {f} \in SUBSET InUse /\ {f} # {}
    BY <1>1
  <2>3. next[f] # f
    BY <1>2, <2>1, <2>2 DEF TakenEnds
  <2> QED
    BY <1>1, <1>4, <2>3
<1>6. \A g \in InUse \ {f} : /\ next'[g] = IF g = prev[f] THEN next[f] ELSE next[g]
                             /\ prev'[g] = IF g = next[f] THEN prev[f] ELSE prev[g]
  BY <1>1, <1>3
<1>7. TakenLinked'
  <2>1. taken' \in (InUse \ {f}) \cup {Null}
    BY <1>1, <1>2, <1>4, <1>5 DEF TakenLinked
  <2>2. taken' # Null => prev'[taken'] = Null
    <3>1. CASE taken = f
      BY <1>1, <1>4, <1>5, <1>6, <3>1
    <3>2. CASE taken # f
      BY <1>1, <1>2, <1>4, <1>6, <3>2, <2>1 DEF TakenLinked
    <3> QED
      BY <3>1, <3>2
  <2>3. ASSUME NEW g \in InUse \ {f}
        PROVE  /\ next'[g] \in (InUse \ {f}) \cup {Null} /\ prev'[g] \in (InUse \ {f}) \cup {Null}
               /\ prev'[g] = Null => taken' = g
               /\ prev'[g] # Null => next'[prev'[g]] = g
               /\ next'[g] # Null => prev'[next'[g]] = g
    <3>1. /\ next[g] \in InUse \cup {Null} /\ prev[g] \in InUse \cup {Null}
          /\ prev[g] = Null => taken = g
          /\ prev[g] # Null => next[prev[g]] = g
          /\ next[g] # Null => prev[next[g]] = g
          /\ g # Null /\ g # f
      BY <1>2, <1>3 DEF TakenLinked
    <3>2. g = prev[f] => next'[g] = next[f] /\ (next[f] # Null => prev'[next[f]] = g)
      BY <1>4, <1>5, <1>6
    <3>3. g # prev[f] => /\ next'[g] = next[g] /\ next[g] # f
                         /\ next[g] # Null => next[g] # next[f] /\ prev'[next[g]] = g
      BY <1>1, <1>4, <1>6, <3>1
    <3>4. g = next[f] => prev'[g] = prev[f] /\ (prev[f] # Null => next'[prev[f]] = g)
      BY <1>4, <1>5, <1>6
    <3>5. g # next[f] => /\ prev'[g] = prev[g] /\ prev[g] # f
                         /\ prev[g] # Null => prev[g] # prev[f] /\ next'[prev[g]] = g
      BY <1>1, <1>4, <1>6, <3>1
    <3>6. prev'[g] = Null => taken' = g
      BY <1>1, <1>4, <3>1, <3>4, <3>5
    <3> QED
      BY <1>4, <1>5, <3>1, <3>2, <3>3, <3>4, <3>5, <3>6
  <2> QED
    BY <1>1, <2>1, <2>2, <2>3 DEF TakenLinked
<1>8. TakenEnds'
  <2> SUFFICES ASSUME NEW S \in SUBSET (InUse \ {f}), \A g \in S : next'[g] \in S
               PROVE  S = {}
    BY <1>1 DEF TakenEnds
  <2>1. CASE prev[f] \in S
    <3>1. next[f] \in S
      BY <1>6, <2>1
    <3>2. \A g \in S \cup {f} : next[g] \in S \cup {f}
      BY <1>3, <1>4, <1>6, <2>1, <3>1
    <3> QED
      BY <1>1, <1>2, <3>2 DEF TakenEnds
  <2>2. CASE prev[f] \notin S
    <3>1. \A g \in S : next[g] \in S
      BY <1>6, <2>2
    <3> QED
      BY <1>2, <3>1 DEF TakenEnds
  <2> QED
    BY <2>1, <2>2
<1>9. TakenWhole'
  <2> SUFFICES ASSUME NEW S \in SUBSET (InUse \ {f}), \A g \in S : prev'[g] \in S
               PROVE  S = {}
    BY <1>1 DEF TakenWhole
  <2>1. CASE next[f] \in S
    <3>1. prev[f] \in S
      BY <1>6, <2>1
    <3>2. \A g \in S \cup {f} : prev[g] \in S \cup {f}
      BY <1>3, <1>4, <1>6, <2>1, <3>1
    <3> QED
      BY <1>1, <1>2, <3>2 DEF TakenWhole
  <2>2. CASE next[f] \notin S
    <3>1. \A g \in S : prev[g] \in S
      BY <1>6, <2>2
    <3> QED
      BY <1>2, <3>1 DEF TakenWhole
  <2> QED
    BY <2>1, <2>2
<1> QED
  BY <1>7, <1>8, <1>9 DEF Taken
-----------------------------------------------------------------------------
(***************************************************************************)
(* js_SetupLocks makes the free list, a chain.                             *)
(***************************************************************************)
\* The least-number principle, from which everything about the chain follows.
LEMMA LeastNumber ==
  ASSUME NEW T \in SUBSET Nat, T # {}
  PROVE  \E k \in T : \A j \in T : k <= j
<1> DEFINE R == OpToRel(<, Nat)
<1>1. IsWellFoundedOn(R, Nat)
  BY NatLessThanWellFounded
<1>2. \A j, k \in Nat : j < k => <<j, k>> \in R
  BY DEF OpToRel
<1> HIDE DEF R
<1>3. PICK k \in T : \A j \in T : ~ (<<j, k>> \in R)
  BY <1>1, WFMin
<1>4. \A j \in T : ~ (j < k)
  BY <1>2, <1>3
<1> QED
  BY <1>4

Numbers == 1..Initial

LEMMA ChainLinks ==
  ASSUME TypeOK, NEW s \in Fresh
  PROVE  /\ s \in [Numbers -> Memory \ live]
         /\ \A i, j \in Numbers : s[i] = s[j] => i = j
         /\ \A i \in Numbers : Chain(s)[s[i]] = IF i = Initial THEN Null ELSE s[i + 1]
         /\ \A i \in Numbers : i # Initial => i + 1 \in Numbers
         /\ 1 \in Numbers /\ Initial \in Numbers
<1> USE FatLockTableAssumption DEF FatLockTableAssumption, Numbers
<1>1. s \in [Numbers -> Memory \ live] /\ \A i, j \in Numbers : s[i] = s[j] => i = j
  BY DEF Fresh
<1>2. ASSUME NEW i \in Numbers PROVE Chain(s)[s[i]] = IF i = Initial THEN Null ELSE s[i + 1]
  <2>1. (CHOOSE j \in Numbers : s[j] = s[i]) = i
    BY <1>1
  <2>2. s[i] \in Memory /\ ~ \A j \in Numbers : s[j] # s[i]
    BY <1>1
  <2> QED
    BY <2>1, <2>2 DEF Chain
<1> QED
  BY <1>1, <1>2

\* No part of the chain runs in a circle: the last of it has no next.
LEMMA ChainEnds ==
  ASSUME TypeOK, NEW s \in Fresh, NEW S \in SUBSET {s[i] : i \in Numbers},
         \A f \in S : Chain(s)[f] \in S
  PROVE  S = {}
<1> USE FatLockTableAssumption DEF FatLockTableAssumption
<1> DEFINE T == {j \in Nat : j < Initial /\ s[Initial - j] \in S}
<1>1. SUFFICES ASSUME S # {} PROVE FALSE
  OBVIOUS
<1>2. T # {}
  <2>1. PICK i \in Numbers : s[i] \in S
    BY <1>1
  <2>2. Initial - i \in Nat /\ Initial - i < Initial /\ Initial - (Initial - i) = i
    BY DEF Numbers
  <2> QED
    BY <2>1, <2>2
<1>3. PICK k \in T : \A j \in T : k <= j
  <2>1. T \in SUBSET Nat
    OBVIOUS
  <2> HIDE DEF T
  <2> QED
    BY <1>2, <2>1, LeastNumber
<1>4. Initial - k \in Numbers /\ s[Initial - k] \in S /\ k \in Nat
  BY <1>3 DEF Numbers
<1>5. k # 0
  <2>1. k = 0 => Chain(s)[s[Initial - k]] = Null
    BY <1>4, ChainLinks
  <2>2. Null \notin S
    BY ChainLinks DEF TypeOK
  <2> QED
    BY <1>4, <2>1, <2>2
<1>6. s[Initial - (k - 1)] \in S
  <2>1. Initial - k # Initial /\ (Initial - k) + 1 = Initial - (k - 1)
    BY <1>4, <1>5
  <2>2. Chain(s)[s[Initial - k]] = s[(Initial - k) + 1]
    BY <1>4, <2>1, ChainLinks
  <2> QED
    BY <1>4, <2>1, <2>2
<1>7. k - 1 \in T
  BY <1>3, <1>4, <1>5, <1>6
<1> QED
  BY <1>3, <1>4, <1>7

\* The chain is reached from its first.
LEMMA ChainWhole ==
  ASSUME TypeOK, NEW s \in Fresh, NEW S, s[1] \in S,
         \A f \in S : Chain(s)[f] # Null => Chain(s)[f] \in S
  PROVE  {s[i] : i \in Numbers} \subseteq S
<1> USE FatLockTableAssumption DEF FatLockTableAssumption
<1> DEFINE T == {i \in Numbers : s[i] \notin S}
<1>1. SUFFICES ASSUME T # {} PROVE FALSE
  OBVIOUS
<1>2. PICK k \in T : \A j \in T : k <= j
  <2>1. T \in SUBSET Nat
    BY DEF Numbers
  <2> HIDE DEF T
  <2> QED
    BY <1>1, <2>1, LeastNumber
<1>3. k \in Numbers /\ k # 1 /\ s[k] \notin S
  BY <1>2
<1>4. k - 1 \in Numbers /\ k - 1 \notin T /\ k - 1 # Initial
  BY <1>2, <1>3 DEF Numbers
<1>5. s[k - 1] \in S /\ Chain(s)[s[k - 1]] = s[k]
  BY <1>3, <1>4, ChainLinks DEF Numbers
<1>6. s[k] # Null
  BY <1>3, ChainLinks
<1> QED
  BY <1>3, <1>5, <1>6

LEMMA SetupSound ==
  ASSUME DEBUG, Inv, SetupLocks
  PROVE  Owned' /\ Free' /\ Taken'
<1> USE FatLockTableAssumption DEF FatLockTableAssumption
<1>1. PICK s \in Fresh : /\ live' = live \cup {s[i] : i \in Numbers}
                         /\ next' = Chain(s) /\ free' = s[1]
  BY DEF SetupLocks, Numbers
<1>2. /\ live = {} /\ held' = held /\ taken' = Null
      /\ \A u \in Users : held[u] = Null
  BY DEF SetupLocks, Inv, Sections
<1>3. InUse = {} /\ InUse' = {}
  BY <1>2 DEF InUse
<1> DEFINE A == {s[i] : i \in Numbers}
<1>4. live' = A /\ Avail' = A
  BY <1>1, <1>2, <1>3 DEF Avail
<1>5. TypeOK
  BY DEF Inv
<1>6. Owned'
  BY <1>2, <1>3 DEF Owned, HandedOutOnce
<1>7. FreeLinked'
  <2>1. \A i \in Numbers : s[i] \in Memory /\ s[i] # Null
    BY <1>5, ChainLinks
  <2>2. s[1] \in A
    BY <1>5, ChainLinks
  <2>3. ASSUME NEW i \in Numbers PROVE Chain(s)[s[i]] \in A \cup {Null} /\ Chain(s)[s[i]] # s[1]
    <3>1. CASE i = Initial
      BY <1>5, <2>1, <2>2, <3>1, ChainLinks
    <3>2. CASE i # Initial
      <4>1. Chain(s)[s[i]] = s[i + 1] /\ i + 1 \in Numbers /\ 1 \in Numbers
        BY <1>5, <3>2, ChainLinks
      <4>2. i + 1 # 1
        BY DEF Numbers
      <4> QED
        BY <1>5, <4>1, <4>2, ChainLinks
    <3> QED
      BY <3>1, <3>2
  <2>4. ASSUME NEW i \in Numbers, NEW j \in Numbers, Chain(s)[s[i]] = Chain(s)[s[j]], Chain(s)[s[i]] # Null
        PROVE  s[i] = s[j]
    <3>1. i # Initial /\ j # Initial
      BY <1>5, <2>4, ChainLinks
    <3>2. s[i + 1] = s[j + 1] /\ i + 1 \in Numbers /\ j + 1 \in Numbers
      BY <1>5, <2>4, <3>1, ChainLinks
    <3>3. i + 1 = j + 1
      BY <1>5, <3>2, ChainLinks
    <3> QED
      BY <3>3 DEF Numbers
  <2> QED
    BY <1>1, <1>4, <2>2, <2>3, <2>4 DEF FreeLinked
<1>8. FreeEnds'
  BY <1>1, <1>4, <1>5, ChainEnds DEF FreeEnds
<1>9. FreeWhole'
  <2>1. s[1] # Null
    BY <1>5, ChainLinks
  <2> QED
    BY <1>1, <1>4, <1>5, <2>1, ChainWhole DEF FreeWhole, ClosedUnderNext
<1>10. Taken'
  BY <1>2, <1>3 DEF Taken, TakenLinked, TakenEnds, TakenWhole
<1> QED
  BY <1>6, <1>7, <1>8, <1>9, <1>10 DEF Free

LEMMA CleanupSound ==
  ASSUME Inv, CleanupLocks
  PROVE  Owned' /\ Free' /\ Taken'
<1>1. /\ ~crashed /\ held' = held /\ next' = next /\ free' = Null /\ taken' = Null
      /\ live' = live \ (ListOf(free) \cup ListOf(taken))
      /\ \A u \in Users : held[u] = Null
  BY DEF CleanupLocks
<1>2. InUse' = {} /\ InUse = {}
  BY <1>1 DEF InUse
<1>3. live' = {} /\ Avail' = {}
  BY <1>1, <1>2, FreeIs DEF Inv, Avail
<1>4. Owned'
  BY <1>1, <1>2 DEF Owned, HandedOutOnce
<1>5. Free'
  BY <1>1, <1>3 DEF Free, FreeLinked, FreeEnds, FreeWhole
<1>6. Taken'
  BY <1>1, <1>2 DEF Taken, TakenLinked, TakenEnds, TakenWhole
<1> QED
  BY <1>4, <1>5, <1>6
-----------------------------------------------------------------------------
(***************************************************************************)
(* The invariant.                                                          *)
(***************************************************************************)
LEMMA InvInit == Init => Inv
<1> SUFFICES ASSUME Init PROVE Inv
  OBVIOUS
<1>1. InUse = {} /\ Avail = {} /\ live = {}
  BY DEF Init, InUse, Avail
<1>2. Sections
  BY DEF Init, Sections, Inside
<1>3. Owned
  BY <1>1 DEF Init, Owned, HandedOutOnce
<1>4. Free
  BY <1>1 DEF Init, Free, FreeLinked, FreeEnds, FreeWhole
<1>5. Taken
  BY <1>1 DEF Init, Taken, TakenLinked, TakenEnds, TakenWhole
<1> QED
  BY TypeInit, <1>2, <1>3, <1>4, <1>5 DEF Inv

\* A step that is not one of those above changes no list and no owner.
ListsStill == UNCHANGED <<next, prev, free, taken, live, held>> /\ (crashed => crashed')

LEMMA StillSound ==
  ASSUME Owned, ~crashed => Free /\ Taken, ListsStill
  PROVE  Owned' /\ (~crashed' => Free' /\ Taken')
<1>1. InUse' = InUse /\ Avail' = Avail
  BY DEF ListsStill, InUse, Avail
<1>2. Owned'
  BY <1>1 DEF Owned, HandedOutOnce, ListsStill
<1>3. FreeLinked /\ FreeEnds /\ FreeWhole => (FreeLinked /\ FreeEnds /\ FreeWhole)'
  BY <1>1 DEF ListsStill, FreeLinked, FreeEnds, FreeWhole, ClosedUnderNext
<1>4. TakenLinked /\ TakenEnds /\ TakenWhole => (TakenLinked /\ TakenEnds /\ TakenWhole)'
  BY <1>1 DEF ListsStill, TakenLinked, TakenEnds, TakenWhole
<1> QED
  BY <1>2, <1>3, <1>4 DEF ListsStill, Free, Taken

LEMMA NextCases ==
  ASSUME Inv, Next
  PROVE  \/ SetupLocks \/ CleanupLocks
         \/ \E u \in Users : AllocateLink(u) \/ DeallocateLink(u)
         \/ ListsStill
         \/ ~crashed /\ crashed' /\ UNCHANGED <<live, held>>
<1> USE DEF Goto, lists, ListsStill
<1>1. ASSUME NEW u \in Users, CallAllocate(u) PROVE ListsStill
  BY <1>1 DEF CallAllocate
<1>2. ASSUME NEW u \in Users, AllocateLock(u) PROVE ListsStill
  BY <1>2 DEF AllocateLock
<1>3. ASSUME NEW u \in Users, AllocateRead(u) PROVE ListsStill
  BY <1>3 DEF AllocateRead
<1>4. ASSUME NEW u \in Users, AllocateLast(u) PROVE ~crashed /\ crashed' /\ UNCHANGED <<live, held>>
  BY <1>4 DEF AllocateLast
<1>5. ASSUME NEW u \in Users, CallDeallocate(u) PROVE ListsStill
  BY <1>5 DEF CallDeallocate
<1>6. ASSUME NEW u \in Users, DeallocateLock(u) PROVE ListsStill
  BY <1>6 DEF DeallocateLock
<1> QED
  BY <1>1, <1>2, <1>3, <1>4, <1>5, <1>6 DEF Next, Allocate, Deallocate

LEMMA InvStep == ASSUME DEBUG, Inv, [Next]_vars PROVE Inv'
<1>1. CASE Next
  <2>1. TypeOK' /\ Sections'
    BY <1>1, TypeStep, SectionsStep DEF Inv
  <2>2. Owned' /\ (~crashed' => Free' /\ Taken')
    <3>1. CASE SetupLocks
      BY <3>1, SetupSound
    <3>2. CASE CleanupLocks
      BY <3>2, CleanupSound
    <3>3. ASSUME NEW u \in Users, AllocateLink(u) PROVE Owned' /\ Free' /\ Taken'
      BY <3>3, AllocateOwned, AllocateFree, AllocateTaken
    <3>4. ASSUME NEW u \in Users, DeallocateLink(u) PROVE Owned' /\ Free' /\ Taken'
      BY <3>4, DeallocateOwned, DeallocateFree, DeallocateTaken
    <3>5. CASE ListsStill
      BY <3>5, StillSound DEF Inv
    <3>6. CASE crashed' /\ UNCHANGED <<live, held>>
      BY <3>6 DEF Inv, Owned, HandedOutOnce, InUse
    <3> QED
      BY <1>1, <3>1, <3>2, <3>3, <3>4, <3>5, <3>6, NextCases
  <2> QED
    BY <2>1, <2>2 DEF Inv
<1>2. CASE UNCHANGED vars
  <2>1. ListsStill
    BY <1>2 DEF vars, ListsStill
  <2>2. TypeOK' /\ Sections'
    BY <1>2, TypeStep DEF Inv, vars, Sections, Inside
  <2> QED
    BY <2>1, <2>2, StillSound DEF Inv
<1> QED
  BY <1>1, <1>2

\* The inductive invariant of the DEBUG build: the sections of the global lock
\* exclude each other, the free list is a chain, the taken list is linked in
\* both directions, and together they have what malloc has handed out.
THEOREM InvCorrect == DEBUG => (Spec => []Inv)
<1>1. DEBUG /\ Inv /\ [Next]_vars => Inv'
  BY InvStep
<1>2. ASSUME DEBUG PROVE Inv /\ [Next]_vars => Inv'
  BY <1>1, <1>2
<1> SUFFICES ASSUME DEBUG PROVE Spec => []Inv
  OBVIOUS
<1> QED
  BY <1>2, InvInit, PTL DEF Spec

\* In the DEBUG build the two lists of the table are exact, whatever order fat
\* locks are taken and given back in, and none is handed out twice
\* (jslock.c:398-438).
THEOREM TableCorrect == DEBUG => (Spec => []TableSound)
<1> SUFFICES ASSUME DEBUG PROVE Spec => []TableSound
  OBVIOUS
<1> QED
  BY InvCorrect, InvImpliesTableSound, PTL
-----------------------------------------------------------------------------
(***************************************************************************)
(* The pool.                                                               *)
(***************************************************************************)
LEMMA PoolStep ==
  ASSUME DEBUG, Inv, [Next]_vars
  PROVE  [Pool!Next]_<<live \ InUse, held>>
<1> USE DEF Avail
<1>1. ASSUME NEW u \in Users, AllocateLink(u) PROVE Pool!Allocate(u)
  <2>1. /\ held[u] = Null /\ free \in Avail /\ Avail' = Avail \ {free}
        /\ held' = [held EXCEPT ![u] = free]
    BY <1>1, AllocateTakes
  <2> QED
    BY <2>1 DEF Pool!Allocate
<1>2. ASSUME NEW u \in Users, DeallocateLink(u) PROVE Pool!Deallocate(u)
  <2>1. /\ held[u] # Null /\ Avail' = Avail \cup {held[u]}
        /\ held' = [held EXCEPT ![u] = Null]
    BY <1>2, DeallocateGives
  <2> QED
    BY <2>1 DEF Pool!Deallocate
<1>3. CASE SetupLocks \/ CleanupLocks
  <2>1. held' = held /\ \A u \in Users : held[u] = Null
    BY <1>3 DEF SetupLocks, CleanupLocks, Inv, Sections
  <2>2. Pool!Renew
    BY <2>1 DEF Pool!Renew
  <2> QED
    BY <2>2 DEF Pool!Next
<1>4. CASE ListsStill
  BY <1>4 DEF ListsStill, InUse
<1>5. CASE UNCHANGED <<live, held>>
  BY <1>5 DEF InUse
<1>6. CASE UNCHANGED vars
  BY <1>6 DEF vars, InUse
<1> QED
  BY <1>1, <1>2, <1>3, <1>4, <1>5, <1>6, NextCases DEF Pool!Next

\* In the DEBUG build allocateFatlock and deallocateFatlock implement the
\* abstract pool: who asks gets a fat lock nobody has, which comes back once.
THEOREM PoolRefinement == DEBUG => (Spec => ImplementsPool)
<1> SUFFICES ASSUME DEBUG PROVE Spec => ImplementsPool
  OBVIOUS
<1>1. Init => Pool!Init
  BY DEF Init, Pool!Init
<1>2. Inv /\ [Next]_vars => [Pool!Next]_<<live \ InUse, held>>
  BY PoolStep
<1> QED
  BY <1>1, <1>2, InvCorrect, PTL DEF Spec, Pool!Spec, ImplementsPool
=============================================================================
