---------------------------- MODULE FatLockTable ----------------------------
(***************************************************************************)
(* The process-wide table of fat locks in jslock.c: allocateFatlock,       *)
(* deallocateFatlock, js_SetupLocks and js_CleanupLocks.  The lists are    *)
(* the code's own pointers, next and prev, in memory that malloc and free  *)
(* hand out and take back.                                                 *)
(*                                                                         *)
(* A critical section of the global lock is several steps, because the     *)
(* lock itself is a variable: js_SetupLocks, called by every               *)
(* JS_NewRuntime, stores a new one.  In js_SetupLocks the body of          *)
(* "if (l > 10000)" is a printf only under DEBUG; without DEBUG the next   *)
(* statement, "if (_global_lock) return 1;", becomes that body.            *)
(***************************************************************************)
EXTENDS Integers, FiniteSets

CONSTANTS
  Users,      \* threads in the slow paths of thin locks
  Memory,     \* the fat locks malloc can return
  Initial,    \* the l of js_SetupLocks(l), 10 in the code
  MaxGlobals, \* bound of the NSPR locks ever stored in _global_lock
  DEBUG,      \* the build
  Nobody      \* no thread

Null == 0

ASSUME FatLockTableAssumption ==
  /\ Null \notin Memory
  /\ Initial \in Nat \ {0} \* JS_ASSERT(l>0)
  /\ MaxGlobals \in Nat \ {0}
  /\ DEBUG \in BOOLEAN
  /\ Nobody \notin Users

VARIABLES
  next, prev,   \* fl->next and fl->prev
  free, taken,  \* _fl_table.free and _fl_table.taken
  live,         \* the fat locks that malloc has handed out
  global,       \* _global_lock: NULL (0) or the number of the NSPR lock
  made,         \* how many NSPR locks js_SetupLocks has made
  holder,       \* who holds each of them
  pc,           \* where each user is
  gl,           \* the NSPR lock it has passed to PR_Lock
  m,            \* local m of allocateFatlock
  held,         \* the fat lock it has been given
  crashed       \* a NULL pointer was dereferenced

vars == <<next, prev, free, taken, live, global, made, holder, pc, gl, m, held, crashed>>
-----------------------------------------------------------------------------
Pointer == Memory \cup {Null}

TypeOK ==
  /\ next \in [Memory -> Pointer]
  /\ prev \in [Memory -> Pointer]
  /\ free \in Pointer
  /\ taken \in Pointer
  /\ live \in SUBSET Memory
  /\ made \in 0..MaxGlobals
  /\ global \in 0..made
  /\ holder \in [1..MaxGlobals -> Users \cup {Nobody}]
  /\ pc \in [Users -> {"idle", "alloc_lock", "alloc_read", "alloc_link",
                       "dealloc_lock", "dealloc_link"}]
  /\ gl \in [Users -> 0..MaxGlobals]
  /\ m \in [Users -> Pointer]
  /\ held \in [Users -> Pointer]
  /\ crashed \in BOOLEAN

Init ==
  /\ next = [f \in Memory |-> Null]
  /\ prev = [f \in Memory |-> Null]
  /\ free = Null
  /\ taken = Null
  /\ live = {}
  /\ global = 0
  /\ made = 0
  /\ holder = [g \in 1..MaxGlobals |-> Nobody]
  /\ pc = [u \in Users |-> "idle"]
  /\ gl = [u \in Users |-> 0]
  /\ m = [u \in Users |-> Null]
  /\ held = [u \in Users |-> Null]
  /\ crashed = FALSE

Goto(u, from, to) == ~crashed /\ pc[u] = from /\ pc' = [pc EXCEPT ![u] = to]

lists == <<next, prev, free, taken, live>>
globals == <<global, made>>

\* The fat locks on the list that starts at h, those that are in every set with
\* h that is closed under next, and whether the list ends: nothing of it runs in
\* a circle.
ClosedUnderNext(S) == \A f \in S : next[f] # Null => next[f] \in S
ListOf(h) ==
  {f \in Memory : \A S \in SUBSET Memory :
                    (h # Null => h \in S) /\ ClosedUnderNext(S) => f \in S}
Ends(h) == \A S \in SUBSET ListOf(h) : (\A f \in S : next[f] \in S) => S = {}

\* PR_Lock of the lock that _global_lock named, PR_Unlock of the one it names
\* now; PR_Unlock by a thread that is not the owner changes nothing.
LockGlobal(u) ==
  /\ holder[gl[u]] = Nobody
  /\ holder' = [holder EXCEPT ![gl[u]] = u]
UnlockGlobal(u) ==
  /\ holder' = IF holder[global] = u THEN [holder EXCEPT ![global] = Nobody] ELSE holder
  /\ gl' = [gl EXCEPT ![u] = 0]

\* listOfFatlocks(Initial): a chain of fat locks that malloc returns, one after
\* the other.
Fresh == {s \in [1..Initial -> Memory \ live] :
            \A i, j \in 1..Initial : s[i] = s[j] => i = j}
Chain(s) == [f \in Memory |->
  IF \A i \in 1..Initial : s[i] # f THEN next[f]
  ELSE LET i == CHOOSE i \in 1..Initial : s[i] = f
       IN IF i = Initial THEN Null ELSE s[i + 1]]
-----------------------------------------------------------------------------
(***************************************************************************)
(* allocateFatlock.  The list of ten more that the code makes when free is *)
(* NULL is never made: the store into _fl_table.free->prev crashes before  *)
(* free can be found NULL.                                                 *)
(***************************************************************************)
CallAllocate(u) ==
  /\ Goto(u, "idle", "alloc_lock")
  /\ held[u] = Null
  /\ global # 0
  /\ gl' = [gl EXCEPT ![u] = global]
  /\ UNCHANGED <<lists, globals, holder, m, held, crashed>>

AllocateLock(u) ==
  /\ Goto(u, "alloc_lock", "alloc_read")
  /\ LockGlobal(u)
  /\ UNCHANGED <<lists, globals, gl, m, held, crashed>>

AllocateRead(u) ==
  /\ Goto(u, "alloc_read", "alloc_link")
  /\ m' = [m EXCEPT ![u] = free]
  /\ UNCHANGED <<lists, globals, holder, gl, held, crashed>>

AllocateLink(u) ==
  LET f == m[u] IN
  /\ Goto(u, "alloc_link", "idle")
  /\ next[f] # Null
  /\ free' = next[f]
  /\ next' = [next EXCEPT ![f] = taken]
  /\ prev' = [g \in Memory |->
                IF g \in {next[f], f} THEN Null ELSE IF g = taken THEN f ELSE prev[g]]
  /\ taken' = f
  /\ held' = [held EXCEPT ![u] = f]
  /\ m' = [m EXCEPT ![u] = Null]
  /\ UnlockGlobal(u)
  /\ UNCHANGED <<live, globals, crashed>>

\* _fl_table.free->prev = NULL with free == NULL: the last one was taken.
AllocateLast(u) ==
  /\ Goto(u, "alloc_link", "alloc_link")
  /\ next[m[u]] = Null
  /\ free' = Null
  /\ crashed' = TRUE
  /\ UNCHANGED <<next, prev, taken, live, globals, holder, gl, m, held>>
-----------------------------------------------------------------------------
(***************************************************************************)
(* deallocateFatlock.                                                      *)
(***************************************************************************)
CallDeallocate(u) ==
  /\ Goto(u, "idle", "dealloc_lock")
  /\ held[u] # Null
  /\ gl' = [gl EXCEPT ![u] = global]
  /\ UNCHANGED <<lists, globals, holder, m, held, crashed>>

DeallocateLock(u) ==
  /\ Goto(u, "dealloc_lock", "dealloc_link")
  /\ LockGlobal(u)
  /\ UNCHANGED <<lists, globals, gl, m, held, crashed>>

\* Mutant: a fat lock at the head of the taken list stays its head.
DeallocateHead(u) ==
  LET f == held[u] IN
  /\ Goto(u, "dealloc_link", "idle")
  /\ next' = [g \in Memory |->
                IF g = f THEN free ELSE IF g = prev[f] THEN next[f] ELSE next[g]]
  /\ prev' = [g \in Memory |-> IF g = next[f] THEN prev[f] ELSE prev[g]]
  /\ free' = f
  /\ held' = [held EXCEPT ![u] = Null]
  /\ UnlockGlobal(u)
  /\ UNCHANGED <<taken, live, globals, m, crashed>>

DeallocateLink(u) ==
  LET f == held[u] IN
  /\ Goto(u, "dealloc_link", "idle")
  /\ next' = [g \in Memory |->
                IF g = f THEN free ELSE IF g = prev[f] THEN next[f] ELSE next[g]]
  /\ prev' = [g \in Memory |-> IF g = next[f] THEN prev[f] ELSE prev[g]]
  /\ taken' = IF f = taken THEN next[f] ELSE taken
  /\ free' = f
  /\ held' = [held EXCEPT ![u] = Null]
  /\ UnlockGlobal(u)
  /\ UNCHANGED <<live, globals, m, crashed>>
-----------------------------------------------------------------------------
(***************************************************************************)
(* js_SetupLocks, for every new runtime, and js_CleanupLocks, called by    *)
(* JS_ShutDown when the process is done with all of them.                  *)
(***************************************************************************)
SetupLocks ==
  /\ ~crashed
  /\ DEBUG => global = 0
  /\ made < MaxGlobals
  /\ made' = made + 1
  /\ global' = made + 1
  /\ \E s \in Fresh :
       /\ live' = live \cup {s[i] : i \in 1..Initial}
       /\ next' = Chain(s)
       /\ prev' = [f \in Memory |-> IF \E i \in 1..Initial : s[i] = f THEN Null ELSE prev[f]]
       /\ free' = s[1]
  /\ taken' = Null
  /\ UNCHANGED <<holder, pc, gl, m, held, crashed>>

\* Mutant: the table is cleaned up with the first runtime, not the last.
CleanupEarly ==
  /\ ~crashed
  /\ global # 0
  /\ \A u \in Users : pc[u] = "idle"
  /\ global' = 0
  /\ live' = live \ (ListOf(free) \cup ListOf(taken))
  /\ free' = Null
  /\ taken' = Null
  /\ UNCHANGED <<next, prev, made, holder, pc, gl, m, held, crashed>>

CleanupLocks ==
  /\ ~crashed
  /\ global # 0
  /\ \A u \in Users : pc[u] = "idle" /\ held[u] = Null
  /\ global' = 0
  /\ live' = live \ (ListOf(free) \cup ListOf(taken))
  /\ free' = Null
  /\ taken' = Null
  /\ UNCHANGED <<next, prev, made, holder, pc, gl, m, held, crashed>>
-----------------------------------------------------------------------------
Allocate(u) == \/ CallAllocate(u) \/ AllocateLock(u) \/ AllocateRead(u)
               \/ AllocateLink(u) \/ AllocateLast(u)
Deallocate(u) == CallDeallocate(u) \/ DeallocateLock(u) \/ DeallocateLink(u)

Next == SetupLocks \/ CleanupLocks \/ \E u \in Users : Allocate(u) \/ Deallocate(u)

Spec == Init /\ [][Next]_vars
-----------------------------------------------------------------------------
InUse == {held[u] : u \in Users} \ {Null}

\* Every fat lock that malloc handed out is on exactly one list, free or
\* taken; the taken ones are those in use, linked in both directions, so that
\* deallocateFatlock can unlink any of them (jslock.c:429-434).
TableExact ==
  ~crashed =>
    /\ Ends(free) /\ Ends(taken)
    /\ ListOf(free) \cap ListOf(taken) = {}
    /\ live = ListOf(free) \cup ListOf(taken)
    /\ ListOf(taken) = InUse
    /\ \A f \in ListOf(taken) :
         /\ IF prev[f] = Null THEN taken = f ELSE next[prev[f]] = f
         /\ next[f] # Null => prev[next[f]] = f

\* A fat lock serves one thread's thin lock: "p->fat is used to serialize the
\* different accesses to the fat lock" (jslock.c:560), which it cannot when
\* two thin locks have been given the same one.  (The build without DEBUG does
\* not keep this: SetupLocks.)
HandedOutOnce ==
  \A u, v \in Users : u # v /\ held[u] = held[v] => held[u] = Null

\* Type correctness, the lists, and who has what, in whichever order fat locks
\* are given back.
TableSound == TypeOK /\ TableExact /\ HandedOutOnce

\* "l equals number of initially allocated fat locks" (jslock.c:443): when
\* they are all taken more are allocated, and allocateFatlock returns.
\* The code does not keep this (AllocateLast).
NeverCrashes == ~crashed

\* Allocation and deallocation implement the abstract pool.
Pool == INSTANCE FatLockPool WITH None <- Null, pool <- live \ InUse
ImplementsPool == Pool!Spec
=============================================================================
