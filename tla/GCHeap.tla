------------------------------- MODULE GCHeap -------------------------------
(***************************************************************************)
(* The collected heap (jsgc.c): js_AllocGCThing, js_LockGCThing,           *)
(* js_UnlockGCThing, js_AddRoot, js_RemoveRoot, js_ForceGC, and the mark,  *)
(* sweep and finalize phases of js_GC.  Embeddings do not put collections  *)
(* off (rt->gcCallback, cx->gcDisabled).                                   *)
(*                                                                         *)
(* Things and their flag bytes are in two pools of arenas, which are to be *)
(* kept in step: the n-th thing has the n-th byte.  A thing is an object   *)
(* with one slot or a string; to bound the model, its place says which.    *)
(* Each context has its own thread.  GCRequests shows that nobody else     *)
(* runs in a request while a context marks and finalizes; here that is a   *)
(* guard (Running).  The model stops where memory has run out half-way     *)
(* (broken).                                                               *)
(***************************************************************************)
EXTENDS Integers, SequencesExt

CONSTANTS
  Contexts,
  MaxArenas,  \* memory for arenas, of each pool
  Per,        \* how many things, or flags, an arena has room for
  MaxBytes,   \* rt->gcMaxBytes, in things
  LockMask,   \* GCF_LOCKMASK: the largest count of locks
  MaxRoots,   \* bound of the roots, the atom's among them
  MaxHeld,    \* bound of the locks that callers keep
  Objects,    \* where things are objects; elsewhere they are strings
  Ops,        \* what embeddings and finalizers do, and what can fail
  Nothing

Addresses == (1..MaxArenas) \X (0..(Per - 1))
Bytes == [mark : BOOLEAN, final : BOOLEAN, locks : 0..LockMask]

ASSUME GCHeapAssumption ==
  /\ MaxArenas \in Nat \ {0} /\ Per \in Nat \ {0} /\ MaxBytes \in Nat
  /\ LockMask \in Nat \ {0} /\ MaxRoots \in Nat /\ MaxHeld \in Nat
  /\ Objects \subseteq Addresses \ {<<1, 0>>}
  /\ Nothing \notin Addresses \cup [thing : Addresses, was : Bytes]
  /\ Ops \subseteq {"Finalizer", "NoMemory", "Lock", "LockObjects", "LockRace"}

VARIABLES
  things,    \* rt->gcArenaPool: arenas and how much of each is in use
  flags,     \* rt->gcFlagsPool
  byte,      \* the flag bytes
  freelist,  \* rt->gcFreeList: things, each with its flagp
  gcBytes,   \* rt->gcBytes, in things
  gcPoke,
  again,     \* rt->gcLevel > 1
  slot,      \* what each thing refers to
  roots,     \* what rt->gcRootsHash, stacks and pinned atoms refer to
  newborn,   \* cx->newborn[GCX_OBJECT] (TRUE), cx->newborn[GCX_STRING] (FALSE)
  pc,        \* where each context's thread is
  tried,     \* its local variable tried_gc
  final,     \* the things that the collector has yet to finalize
  rmw,       \* the byte of a thing that is being locked or unlocked, as read
  held,      \* the calls to js_LockGCThing that are not undone
  broken     \* whether memory has run out half-way through an operation

pools == <<things, flags>>
heap == <<pools, byte, freelist, gcBytes>>
program == <<slot, roots, newborn>>
locks == <<rmw, held>>
vars == <<heap, gcPoke, again, program, pc, tried, final, locks, broken>>
-----------------------------------------------------------------------------
(***************************************************************************)
(* Arena pools.                                                            *)
(***************************************************************************)
Atom == <<1, 0>>  \* the string of an atom that stays pinned

\* All that is in use in pool p, in order.
InOrder(p) == FlattenSeq([k \in DOMAIN p |-> [i \in 1..p[k].used |-> <<p[k].arena, i - 1>>]])

\* The things and the flags that a walk through both pools pairs.
Pairs ==
  LET ts == InOrder(things) fs == InOrder(flags) IN
  [n \in DOMAIN ts \cap DOMAIN fs |-> [thing |-> ts[n], flagp |-> fs[n]]]

\* gc_find_flags: the n-th byte for the n-th thing.
FlagsOf(t) ==
  LET found == {x \in ToSet(Pairs) : x.thing = t} IN
  IF found = {} THEN Nothing ELSE (CHOOSE x \in found : TRUE).flagp

Used == {x \in ToSet(Pairs) : ~byte[x.flagp].final}
InUse == {x.thing : x \in Used}

\* The members of the sequence q that are in S, in order.
Only(q, S) ==
  LET kept[n \in 0..Len(q)] ==
        IF n = 0 THEN <<>> ELSE IF q[n] \in S THEN Append(kept[n - 1], q[n]) ELSE kept[n - 1]
  IN kept[Len(q)]

Unused(p) == (1..MaxArenas) \ {p[k].arena : k \in DOMAIN p}
Room(p) == SelectInSeq(p, LAMBDA a : a.used < Per)

MayGet(p) == Room(p) > 0 \/ Unused(p) # {}
MayFail(p) == Room(p) = 0 /\ (Unused(p) = {} \/ "NoMemory" \in Ops)

\* JS_ARENA_ALLOCATE(p, pool, 1 unit), and, taken back, JS_ARENA_RELEASE.
WithArena(p) ==
  IF Room(p) > 0 THEN p
  ELSE Append(p, [arena |-> CHOOSE a \in Unused(p) : \A b \in Unused(p) : a <= b, used |-> 0])
Bumped(p) == [WithArena(p) EXCEPT ![Room(WithArena(p))].used = @ + 1]
NextIn(p) == LET q == WithArena(p) IN <<q[Room(q)].arena, q[Room(q)].used>>

Fresh == [mark |-> FALSE, final |-> FALSE, locks |-> 0]
Final == [mark |-> FALSE, final |-> TRUE, locks |-> 0]
-----------------------------------------------------------------------------
PCs == {"run", "lock", "unlock", "retry", "gc", "wait", "stop", "mark", "finalize"}

TypeOK ==
  /\ \A p \in {things, flags} :
       p \in Seq([arena : 1..MaxArenas, used : 0..Per])
  /\ byte \in [Addresses -> Bytes]
  /\ freelist \in Seq([thing : Addresses, flagp : Addresses])
  /\ gcBytes \in 0..(MaxArenas * Per)
  /\ gcPoke \in BOOLEAN /\ again \in BOOLEAN /\ broken \in BOOLEAN
  /\ slot \in [Addresses -> Addresses \cup {Nothing}]
  /\ roots \subseteq Addresses
  /\ newborn \in [Contexts \X BOOLEAN -> Addresses \cup {Nothing}]
  /\ pc \in [Contexts -> PCs]
  /\ tried \in [Contexts -> BOOLEAN]
  /\ final \in Seq([thing : Addresses, flagp : Addresses])
  /\ held \in [Addresses -> Nat]
  /\ rmw \in [Contexts -> [thing : Addresses, was : Bytes] \cup {Nothing}]
  /\ \A c \in Contexts : rmw[c] = Nothing <=> pc[c] \notin {"lock", "unlock"}

Init ==
  /\ things = <<[arena |-> 1, used |-> 1]>>
  /\ flags = <<[arena |-> 1, used |-> 1]>>
  /\ byte = [f \in Addresses |-> Fresh]
  /\ freelist = <<>>
  /\ gcBytes = 1
  /\ gcPoke = FALSE /\ again = FALSE /\ broken = FALSE
  /\ slot = [t \in Addresses |-> Nothing]
  /\ roots = {Atom}
  /\ newborn = [n \in Contexts \X BOOLEAN |-> Nothing]
  /\ pc = [c \in Contexts |-> "run"]
  /\ tried = [c \in Contexts |-> FALSE]
  /\ final = <<>>
  /\ rmw = [c \in Contexts |-> Nothing]
  /\ held = [t \in Addresses |-> 0]

Goto(c, from, to) == pc[c] = from /\ pc' = [pc EXCEPT ![c] = to]

Collecting == {c \in Contexts : pc[c] \in {"mark", "finalize"}}
Running(c) == Collecting \subseteq {c}

\* What can be reached from S through the slots of things that are in T: the
\* least set that has what S has of T, and of T what its members refer to.
Closure(S, T) ==
  {t \in T : \A R \in SUBSET T :
     S \cap T \subseteq R /\ (\A r \in R : slot[r] \in T => slot[r] \in R) => t \in R}

Roots == roots \cup ({newborn[n] : n \in Contexts \X BOOLEAN} \ {Nothing})
Reachable == Closure(Roots, Addresses)
-----------------------------------------------------------------------------
(***************************************************************************)
(* js_AllocGCThing, called by the program and by finalizers.               *)
(***************************************************************************)
Allocating(c) ==
  /\ pc[c] \in {"run", "retry"} \cup (IF "Finalizer" \in Ops THEN {"finalize"} ELSE {})
  /\ Running(c)

Store(c, t, f) ==
  /\ byte' = [byte EXCEPT ![f] = Fresh]
  /\ gcBytes' = gcBytes + 1
  /\ newborn' = [newborn EXCEPT ![<<c, t \in Objects>>] = t]
  /\ slot' = [slot EXCEPT ![t] = Nothing]
  /\ pc' = [pc EXCEPT ![c] = IF @ = "retry" THEN "run" ELSE @]
  /\ tried' = [tried EXCEPT ![c] = FALSE]

AllocFromList(c) ==
  /\ Allocating(c)
  /\ freelist # <<>>
  /\ freelist' = Tail(freelist)
  /\ Store(c, Head(freelist).thing, Head(freelist).flagp)
  /\ UNCHANGED <<pools, gcPoke, again, roots, final, locks, broken>>

AllocFromArena(c) ==
  /\ Allocating(c)
  /\ freelist = <<>>
  /\ gcBytes < MaxBytes
  /\ MayGet(things) /\ MayGet(flags)
  /\ things' = Bumped(things)
  /\ flags' = Bumped(flags)
  /\ Store(c, NextIn(things), NextIn(flags))
  /\ UNCHANGED <<freelist, gcPoke, again, roots, final, locks, broken>>

\* No memory for the thing, the flags, or both.  A thing without flags is
\* released; flags without a thing are not.
ArenasFail ==
  \/ gcBytes >= MaxBytes /\ UNCHANGED <<pools, broken>>
  \/ /\ gcBytes < MaxBytes
     /\ MayFail(flags)
     /\ things' \in (IF MayFail(things) THEN {things} ELSE {})
                      \cup (IF MayGet(things) THEN {WithArena(things)} ELSE {})
     /\ UNCHANGED <<flags, broken>>
  \/ /\ gcBytes < MaxBytes
     /\ MayFail(things) /\ MayGet(flags)
     /\ flags' = Bumped(flags)
     /\ broken' = TRUE
     /\ UNCHANGED things

\* Collect and try again, or return NULL.  In a finalizer js_GC returns at once,
\* because finalizers assign nothing.
AllocFails(c) ==
  /\ Allocating(c)
  /\ freelist = <<>>
  /\ ArenasFail
  /\ \/ Goto(c, "run", "gc") /\ tried' = [tried EXCEPT ![c] = TRUE]
     \/ Goto(c, "retry", "run") /\ tried' = [tried EXCEPT ![c] = FALSE]
     \/ pc[c] = "finalize" /\ UNCHANGED <<pc, tried>>
  /\ UNCHANGED <<byte, freelist, gcBytes, gcPoke, again, program, final, locks>>
-----------------------------------------------------------------------------
(***************************************************************************)
(* The program.  js_LockGCThing does not keep what an object refers to, so *)
(* callers lock strings alone (unless "LockObjects"), and one at a time    *)
(* (unless "LockRace").                                                    *)
(***************************************************************************)
Assign(c, t, u) ==
  /\ pc[c] = "run" /\ Running(c)
  /\ t \in Objects
  /\ slot' = [slot EXCEPT ![t] = u]
  /\ gcPoke' = TRUE
  /\ UNCHANGED <<heap, again, roots, newborn, pc, tried, final, locks, broken>>

\* js_AddRoot, or a variable on a stack; js_RemoveRoot.
AddRoot(c, t) ==
  /\ pc[c] = "run" /\ Running(c)
  /\ t \notin roots /\ Cardinality(roots) < MaxRoots
  /\ roots' = roots \cup {t}
  /\ UNCHANGED <<heap, gcPoke, again, slot, newborn, pc, tried, final, locks, broken>>

RemoveRoot(c, t) ==
  /\ pc[c] = "run" /\ Running(c)
  /\ t \in roots \ {Atom}
  /\ roots' = roots \ {t}
  /\ UNCHANGED <<heap, gcPoke, again, slot, newborn, pc, tried, final, locks, broken>>

(***************************************************************************)
(* js_LockGCThing and js_UnlockGCThing read the byte, and write it.        *)
(***************************************************************************)
Alone == "LockRace" \in Ops \/ \A c \in Contexts : rmw[c] = Nothing

ReadFlags(c, t) ==
  /\ FlagsOf(t) # Nothing
  /\ rmw' = [rmw EXCEPT ![c] = [thing |-> t, was |-> byte[FlagsOf(t)]]]

CallLock(c, t) ==
  /\ "Lock" \in Ops
  /\ Goto(c, "run", "lock") /\ Running(c)
  /\ held[t] < MaxHeld
  /\ t # Atom /\ Alone
  /\ t \in Objects => "LockObjects" \in Ops
  /\ ReadFlags(c, t)
  /\ UNCHANGED <<heap, gcPoke, again, program, tried, final, held, broken>>

CallUnlock(c, t) ==
  /\ Goto(c, "run", "unlock") /\ Running(c)
  /\ held[t] > 0 /\ Alone
  /\ ReadFlags(c, t)
  /\ held' = [held EXCEPT ![t] = @ - 1]
  /\ UNCHANGED <<heap, gcPoke, again, program, tried, final, broken>>

\* A count that has reached the mask sticks.  Below zero it wraps to the mask.
WriteFlags(c, d) ==
  LET was == rmw[c].was IN
  /\ byte' = IF was.locks = LockMask THEN byte
             ELSE [byte EXCEPT ![FlagsOf(rmw[c].thing)] =
                    [was EXCEPT !.locks = (@ + d) % (LockMask + 1)]]
  /\ rmw' = [rmw EXCEPT ![c] = Nothing]

Lock(c) ==
  /\ Goto(c, "lock", "run") /\ Running(c)
  /\ WriteFlags(c, 1)
  /\ held' = [held EXCEPT ![rmw[c].thing] = @ + 1]
  /\ UNCHANGED <<pools, freelist, gcBytes, gcPoke, again, program, tried, final, broken>>

Unlock(c) ==
  /\ Goto(c, "unlock", "run") /\ Running(c)
  /\ WriteFlags(c, -1)
  /\ UNCHANGED <<pools, freelist, gcBytes, gcPoke, again, program, tried, final, held, broken>>
-----------------------------------------------------------------------------
(***************************************************************************)
(* js_GC.                                                                  *)
(***************************************************************************)
Return(c) == IF tried[c] THEN "retry" ELSE "run"
Done(c) == pc' = [u \in Contexts |-> IF u = c \/ pc[u] = "wait" THEN Return(u) ELSE pc[u]]

ForceGC(c) ==
  /\ \/ Goto(c, "run", "gc") /\ gcPoke' = TRUE /\ UNCHANGED again
     \/ /\ pc[c] = "finalize" /\ "Finalizer" \in Ops
        /\ again' = TRUE
        /\ gcPoke' = FALSE
        /\ UNCHANGED pc
  /\ Running(c)
  /\ newborn' = [newborn EXCEPT ![<<c, TRUE>>] = Nothing, ![<<c, FALSE>>] = Nothing]
  /\ UNCHANGED <<heap, slot, roots, tried, final, locks, broken>>

\* Nothing has been assigned since the last collection; or another context is
\* collecting, or is about to: wait; or stop the others.
EnterGC(c) ==
  /\ \/ ~gcPoke /\ Goto(c, "gc", Return(c))
     \/ gcPoke /\ Goto(c, "gc", IF \E u \in Contexts : pc[u] = "stop" THEN "wait" ELSE "stop")
  /\ Running(c)
  /\ gcPoke' = FALSE
  /\ UNCHANGED <<heap, again, program, tried, final, locks, broken>>

Stopped(c) ==
  /\ Goto(c, "stop", "mark")
  /\ \A u \in Contexts \ {c} : pc[u] \in {"run", "wait"}
  /\ UNCHANGED <<heap, gcPoke, again, program, tried, final, locks, broken>>

\* gc_mark stops at free things and at marked ones.
Live ==
  LET unmarked == {x.thing : x \in {y \in Used : ~byte[y.flagp].mark}}
      marked == {x.thing : x \in {y \in ToSet(Pairs) : byte[y.flagp].mark}} IN
  Closure(Roots, unmarked) \cup marked

Doomed(live) == Only(Pairs, {x \in Used : x.thing \notin live /\ byte[x.flagp].locks = 0})
Unmarked == [f \in Addresses |-> [byte[f] EXCEPT !.mark = FALSE]]

SweepWith(c, doomed, bytes) ==
  /\ Goto(c, "mark", "finalize")
  /\ final' = doomed
  /\ byte' = bytes
  /\ gcBytes' = gcBytes - Len(doomed)
  /\ again' = FALSE
  /\ UNCHANGED <<pools, freelist, gcPoke, program, tried, locks, broken>>

SweepEven(c) ==
  SweepWith(c, Only(Pairs, {x \in Used : x.thing \notin Live /\ byte[x.flagp].locks % 2 = 0}),
            Unmarked)
SweepMarked(c) ==
  SweepWith(c, Doomed(Live), [f \in Addresses |->
    [byte[f] EXCEPT !.mark = \E t \in Live : f = FlagsOf(t)]])
MarkAndSweep(c) == SweepWith(c, Doomed(Live), Unmarked)

\* No memory to note the n-th: what follows it keeps its marks, nothing is
\* finalized, and gcBytes has been lowered.
SweepFails(c) ==
  LET live == Live doomed == Doomed(live) IN
  /\ "NoMemory" \in Ops
  /\ pc[c] = "mark"
  /\ \E n \in DOMAIN doomed :
       LET walked == {Pairs[k].flagp : k \in 1..(SelectInSeq(Pairs, LAMBDA x : x = doomed[n]))} IN
       /\ gcBytes' = gcBytes - (n - 1)
       /\ byte' = [f \in Addresses |-> [byte[f] EXCEPT !.mark =
                    f \notin walked /\ \E x \in ToSet(Pairs) : x.flagp = f /\ x.thing \in live]]
  /\ broken' = TRUE
  /\ again' = FALSE
  /\ Done(c)
  /\ UNCHANGED <<pools, freelist, gcPoke, program, tried, final, locks>>

Finalize(c) ==
  /\ pc[c] = "finalize"
  /\ final # <<>>
  /\ final' = Tail(final)
  /\ byte' = [byte EXCEPT ![Head(final).flagp] = Final]
  /\ slot' = [slot EXCEPT ![Head(final).thing] = Nothing]
  /\ UNCHANGED <<pools, freelist, gcBytes, gcPoke, again, roots, newborn, pc, tried, locks, broken>>

\* Free the arenas whose things, or flags, are all free; link the free things
\* of the others, as the two pools pair them before.
Kept(p, S) == Only(p, {a \in ToSet(p) : a.used = 0 \/ a.arena \in S})
UsedThings == {x.thing[1] : x \in Used}
UsedFlags == {x.flagp[1] : x \in Used}

RebuildWith(c, T, F) ==
  /\ pc[c] = "finalize"
  /\ final = <<>>
  /\ things' = Kept(things, UsedThings)
  /\ flags' = Kept(flags, F)
  /\ freelist' = Only(Pairs, {x \in ToSet(Pairs) \ Used : x.thing[1] \in T})
  /\ byte' = [f \in Addresses |-> IF f \in ToSet(InOrder(flags')) THEN byte[f] ELSE Fresh]
  /\ IF again THEN Goto(c, "finalize", "mark") ELSE Done(c)
  /\ UNCHANGED <<gcBytes, gcPoke, again, program, tried, final, locks, broken>>

RebuildFlags(c) ==
  LET tail == {flags[k].arena : k \in {m \in DOMAIN flags :
                 \E i \in 1..(m - 1) : flags[i].arena \in UsedFlags}} IN
  RebuildWith(c, UsedThings, UsedFlags \cup tail)

Rebuild(c) == RebuildWith(c, UsedThings, UsedFlags)
-----------------------------------------------------------------------------
Next == ~broken /\ \E c \in Contexts :
  \/ AllocFromList(c) \/ AllocFromArena(c) \/ AllocFails(c)
  \/ \E t \in Reachable :
       \/ \E u \in Reachable \cup {Nothing} : Assign(c, t, u)
       \/ CallLock(c, t)
  \/ \E t \in Reachable \cup {u \in Addresses : held[u] > 0} : AddRoot(c, t)
  \/ \E t \in Addresses : RemoveRoot(c, t) \/ CallUnlock(c, t)
  \/ Lock(c) \/ Unlock(c)
  \/ ForceGC(c) \/ EnterGC(c) \/ Stopped(c)
  \/ MarkAndSweep(c) \/ SweepFails(c) \/ Finalize(c) \/ Rebuild(c)

Spec == Init /\ [][Next]_vars
-----------------------------------------------------------------------------
\* "so the two arena pools can be maintained (in particular, arenas may be
\* destroyed from the middle of each pool) in parallel" (jsgc.c:48): the n-th
\* arena of things has as many as the n-th of flags, so that gc_find_flags
\* finds the byte of a thing that the freelist has for it.  The code does not
\* keep this once a thing finds no memory: its flags are not taken back.
FlagsParallel ==
  ~broken =>
    /\ Len(flags) \in {Len(things), Len(things) - 1}
    /\ \A k \in DOMAIN things :
         things[k].used = IF k \in DOMAIN flags THEN flags[k].used ELSE 0
    /\ \A n \in DOMAIN freelist : freelist[n].flagp = FlagsOf(freelist[n].thing)

\* The freelist has every thing that is free once, and nothing of an arena
\* that has been destroyed.  While things are finalized it lacks those.
FreeListExact ==
  ~broken =>
    LET listed == {freelist[n].thing : n \in DOMAIN freelist} IN
    /\ Cardinality(listed) = Len(freelist)
    /\ listed \subseteq ToSet(InOrder(things)) \ InUse
    /\ Collecting = {} => listed = ToSet(InOrder(things)) \ InUse

\* No thing that the program can reach, through newborn things and the slots
\* of others too, is free or will be finalized, whatever finalizers allocate
\* meanwhile.  The code does not keep this once a sweep has failed: things that
\* keep their marks are not marked through by the next collection.
ReachableKept ==
  ~broken => /\ Reachable \subseteq InUse
             /\ Reachable \cap {final[n].thing : n \in DOMAIN final} = {}

\* A locked thing is not freed, although counts stick at the mask.  The code
\* does not keep this when two contexts lock a thing at once ("LockRace").
LockedKept == \A t \in Addresses : held[t] > 0 /\ ~broken => t \in InUse

\* rt->gcBytes counts the things in use that are not to be finalized, so that
\* sweeping never takes off more than there is (jsgc.c:806).
BytesExact == ~broken => gcBytes = Cardinality(InUse) - Len(final)

\* Together: the pools, the freelist and the count of bytes say the same.
HeapExact == TypeOK /\ FlagsParallel /\ FreeListExact /\ BytesExact

\* Nothing is freed that can be used again, by reference or by lock.
NothingLost == ReachableKept /\ LockedKept

\* What a collection does not finalize can be reached or is locked: no mark of
\* an earlier collection keeps a thing.
Locked == {x.thing : x \in {y \in ToSet(Pairs) : byte[y.flagp].locks > 0}}
GarbageFreed ==
  [][\A c \in Contexts : pc[c] = "mark" /\ pc'[c] = "finalize" =>
       InUse' \subseteq Reachable' \cup Locked' \cup {final'[n].thing : n \in DOMAIN final'}]_vars
=============================================================================
