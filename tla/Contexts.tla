------------------------------- MODULE Contexts -------------------------------
(***************************************************************************)
(* Making and destroying contexts (jscntxt.c) while collections run:       *)
(* js_NewContext, which makes the atom state with the first context,       *)
(* js_DestroyContext, which frees it after the last, the list of contexts, *)
(* and js_ContextIterator, with which a collector walks the list, keeping  *)
(* the address of the next context while the list is unlocked.             *)
(*                                                                         *)
(* Each thread has memory for one context.  A section under the runtime    *)
(* lock is one step (Mutex); of js_GC the locks and waits are here that    *)
(* order it and js_DestroyContext; GCRequests has the rest.                *)
(***************************************************************************)
EXTENDS Integers, FiniteSets

CONSTANTS
  Contexts,
  Root,       \* rt->contextList
  Veto,       \* whether the embedding's gcCallback can put a collection off
  NoContext

ASSUME ContextsAssumption ==
  /\ Root \notin Contexts
  /\ NoContext \notin Contexts \cup {Root}
  /\ Veto \in BOOLEAN

VARIABLES
  alive,    \* the contexts that are not freed
  next,     \* links.next
  prev,     \* links.prev
  atoms,    \* what there is of the atom state
  gcLock,   \* who holds rt->gcLock
  gcLevel,
  gcPoke,
  pc,       \* where each thread is
  rtempty,  \* its local variable rtempty in js_DestroyContext
  dying,    \* whether it is in js_DestroyContext
  iter,     \* its local variable iter in js_GC; NoContext for NULL
  vetoed,   \* whether the embedding has put off a js_DestroyContext's collection
  members,  \* the contexts that have been in the list since iter was NULL
  marked    \* those whose roots have been marked since

vars == <<alive, next, prev, atoms, gcLock, gcLevel, gcPoke, pc, rtempty, dying,
          iter, vetoed, members, marked>>
-----------------------------------------------------------------------------
Making == {"init", "fill", "append"}
Collecting == {"gc", "gc_locked", "gc_wait", "gc_requests", "mark", "sweep", "finalize"}
PCs == {"none", "run", "removed", "force", "after", "free_atoms", "free",
        "wild"} \cup Making \cup Collecting

TypeOK ==
  /\ alive \subseteq Contexts
  /\ next \in [Contexts \cup {Root} -> Contexts \cup {Root}]
  /\ prev \in [Contexts \cup {Root} -> Contexts \cup {Root}]
  /\ atoms \in {"none", "table", "pinned", "unpinned", "swept"}
  /\ gcLock \in Contexts \cup {NoContext}
  /\ gcLevel \in 0..1
  /\ gcPoke \in BOOLEAN
  /\ pc \in [Contexts -> PCs]
  /\ rtempty \in [Contexts -> BOOLEAN]
  /\ dying \in [Contexts -> BOOLEAN]
  /\ iter \in [Contexts -> Contexts \cup {Root, NoContext}]
  /\ vetoed \in BOOLEAN /\ members \subseteq Contexts /\ marked \subseteq Contexts
  /\ \A c \in Contexts : pc[c] \in {"gc_locked", "mark", "sweep"} <=> gcLock = c

Init ==
  /\ alive = {}
  /\ next = [c \in Contexts \cup {Root} |-> c]
  /\ prev = [c \in Contexts \cup {Root} |-> c]
  /\ atoms = "none"
  /\ gcLock = NoContext /\ gcLevel = 0 /\ gcPoke = FALSE
  /\ pc = [c \in Contexts |-> "none"]
  /\ rtempty = [c \in Contexts |-> FALSE]
  /\ dying = [c \in Contexts |-> FALSE]
  /\ iter = [c \in Contexts |-> NoContext]
  /\ vetoed = FALSE /\ members = {} /\ marked = {}

list == <<next, prev>>
gc == <<gcLock, gcLevel, gcPoke>>
walk == <<iter, members, marked>>
locals == <<rtempty, dying, vetoed>>

Goto(c, from, to) == pc[c] = from /\ pc' = [pc EXCEPT ![c] = to]

Empty == next[Root] = Root
-----------------------------------------------------------------------------
(***************************************************************************)
(* js_NewContext.                                                          *)
(***************************************************************************)
NewContext(c) ==
  /\ Goto(c, "none", IF Empty THEN "init" ELSE "append")
  /\ alive' = alive \cup {c}
  /\ UNCHANGED <<list, atoms, gc, locals, walk>>

\* "First context on this runtime: initialize atoms and keywords."
InitAtomState(c) ==
  /\ Goto(c, "init", "fill")
  /\ atoms' = "table"
  /\ UNCHANGED <<alive, list, gc, locals, walk>>

FillAtomState(c) ==
  /\ Goto(c, "fill", "append")
  /\ atoms' = "pinned"
  /\ UNCHANGED <<alive, list, gc, locals, walk>>

\* "Atomicly append cx to rt's context list."
AppendLink(c) ==
  /\ Goto(c, "append", "run")
  /\ next' = [next EXCEPT ![prev[Root]] = c, ![c] = Root]
  /\ prev' = [prev EXCEPT ![c] = prev[Root], ![Root] = c]
  /\ UNCHANGED <<alive, atoms, gc, locals, walk>>
-----------------------------------------------------------------------------
(***************************************************************************)
(* js_DestroyContext.                                                      *)
(***************************************************************************)
\* Mutant: the links of the removed context are cleared.
RemoveClear(c) ==
  /\ Goto(c, "run", "removed")
  /\ next' = [next EXCEPT ![prev[c]] = next[c], ![c] = Root]
  /\ prev' = [prev EXCEPT ![next[c]] = prev[c]]
  /\ rtempty' = [rtempty EXCEPT ![c] = next'[Root] = Root]
  /\ dying' = [dying EXCEPT ![c] = TRUE]
  /\ members' = members \ {c}
  /\ UNCHANGED <<alive, atoms, gc, iter, vetoed, marked>>

\* "Remove cx from context list first."
RemoveLink(c) ==
  /\ Goto(c, "run", "removed")
  /\ next' = [next EXCEPT ![prev[c]] = next[c]]
  /\ prev' = [prev EXCEPT ![next[c]] = prev[c]]
  /\ rtempty' = [rtempty EXCEPT ![c] = next'[Root] = Root]
  /\ dying' = [dying EXCEPT ![c] = TRUE]
  /\ members' = members \ {c}
  /\ UNCHANGED <<alive, atoms, gc, iter, vetoed, marked>>

Unpin(c) ==
  /\ Goto(c, "removed", "force")
  /\ atoms' = IF rtempty[c] /\ atoms \in {"table", "pinned"} THEN "unpinned" ELSE atoms
  /\ UNCHANGED <<alive, list, gc, locals, walk>>

\* Mutant: no collection, since the context has no roots any more.
NoForceGC(c) ==
  /\ Goto(c, "force", "after")
  /\ UNCHANGED <<alive, list, atoms, gc, locals, walk>>

\* js_ForceGC sets gcPoke without gcLock.
ForceGC(c) ==
  /\ Goto(c, "force", "gc")
  /\ gcPoke' = TRUE
  /\ UNCHANGED <<alive, list, atoms, gcLock, gcLevel, locals, walk>>

FreeAtomState(c) ==
  /\ Goto(c, "after", "free")
  /\ dying[c]
  /\ atoms' = IF rtempty[c] THEN "none" ELSE atoms
  /\ UNCHANGED <<alive, list, gc, locals, walk>>

\* What the links of freed memory are does not matter.
Free(c) ==
  /\ Goto(c, "free", "none")
  /\ alive' = alive \ {c}
  /\ next' = [next EXCEPT ![c] = c]
  /\ prev' = [prev EXCEPT ![c] = c]
  /\ rtempty' = [rtempty EXCEPT ![c] = FALSE]
  /\ dying' = [dying EXCEPT ![c] = FALSE]
  /\ UNCHANGED <<atoms, gc, vetoed, walk>>
-----------------------------------------------------------------------------
(***************************************************************************)
(* js_GC, called by js_ForceGC or because memory is short.                 *)
(***************************************************************************)
CallGC(c) ==
  /\ Goto(c, "run", "gc")
  /\ gcPoke' \in {TRUE, gcPoke}
  /\ UNCHANGED <<alive, list, atoms, gcLock, gcLevel, locals, walk>>

\* "Let the API user decide to defer a GC if it wants to."  (Bound: that of
\* one js_DestroyContext.)
Deferred(c) ==
  /\ Veto
  /\ ~vetoed
  /\ Goto(c, "gc", "after")
  /\ vetoed' = (vetoed \/ dying[c])
  /\ UNCHANGED <<alive, list, atoms, gc, rtempty, dying, walk>>

LockGC(c) ==
  /\ Goto(c, "gc", "gc_locked")
  /\ gcLock = NoContext
  /\ gcLock' = c
  /\ UNCHANGED <<alive, list, atoms, gcLevel, gcPoke, locals, walk>>

\* No assignment since the last collection; or another thread is collecting:
\* wait for it; or become the collector and wait for requests.
Enter(c) ==
  /\ pc[c] = "gc_locked"
  /\ gcLock' = NoContext
  /\ gcPoke' = FALSE
  /\ \/ ~gcPoke /\ Goto(c, "gc_locked", "after") /\ UNCHANGED gcLevel
     \/ gcPoke /\ gcLevel > 0 /\ Goto(c, "gc_locked", "gc_wait") /\ UNCHANGED gcLevel
     \/ gcPoke /\ gcLevel = 0 /\ Goto(c, "gc_locked", "gc_requests") /\ gcLevel' = 1
  /\ UNCHANGED <<alive, list, atoms, locals, walk>>

GCDone(c) ==
  /\ Goto(c, "gc_wait", "after")
  /\ gcLevel = 0
  /\ gcLock = NoContext
  /\ UNCHANGED <<alive, list, atoms, gc, locals, walk>>

InList == {c \in Contexts : next[prev[c]] = c /\ prev[c] # c}

\* No requests any more: start marking, with gcLock.
StartMark(c) ==
  /\ Goto(c, "gc_requests", "mark")
  /\ gcLock = NoContext
  /\ gcLock' = c
  /\ iter' = [iter EXCEPT ![c] = NoContext]
  /\ members' = InList
  /\ marked' = {}
  /\ UNCHANGED <<alive, list, atoms, gcLevel, gcPoke, locals>>

Current(c) == IF iter[c] = NoContext THEN next[Root] ELSE iter[c]

\* js_ContextIterator, and mark what the context it returns refers to.
Mark(c) ==
  LET acx == Current(c) IN
  /\ pc[c] = "mark"
  /\ acx \in alive
  /\ iter' = [iter EXCEPT ![c] = next[acx]]
  /\ marked' = marked \cup {acx}
  /\ UNCHANGED <<alive, list, atoms, gc, pc, locals, members>>

MarkFreed(c) ==
  /\ Goto(c, "mark", "wild")
  /\ Current(c) \in Contexts \ alive
  /\ gcLock' = NoContext
  /\ UNCHANGED <<alive, list, atoms, gcLevel, gcPoke, locals, walk>>

MarkEnds(c) ==
  /\ Goto(c, "mark", "sweep")
  /\ Current(c) = Root
  /\ UNCHANGED <<alive, list, atoms, gc, locals, walk>>

\* Sweep, and unlock for the finalizers.
Sweep(c) ==
  /\ Goto(c, "sweep", "finalize")
  /\ atoms' = IF atoms = "unpinned" THEN "swept" ELSE atoms
  /\ gcLock' = NoContext
  /\ iter' = [iter EXCEPT ![c] = NoContext]
  /\ members' = {}
  /\ marked' = {}
  /\ UNCHANGED <<alive, list, gcLevel, gcPoke, locals>>

Finish(c) ==
  /\ Goto(c, "finalize", "after")
  /\ gcLock = NoContext
  /\ gcLevel' = 0
  /\ UNCHANGED <<alive, list, atoms, gcLock, gcPoke, locals, walk>>

Resume(c) ==
  /\ Goto(c, "after", "run")
  /\ ~dying[c]
  /\ UNCHANGED <<alive, list, atoms, gc, locals, walk>>
-----------------------------------------------------------------------------
Work(c) ==
  \/ InitAtomState(c) \/ FillAtomState(c) \/ AppendLink(c)
  \/ Unpin(c) \/ ForceGC(c) \/ FreeAtomState(c) \/ Free(c)
  \/ Enter(c) \/ GCDone(c) \/ StartMark(c) \/ Mark(c) \/ MarkFreed(c)
  \/ MarkEnds(c) \/ Sweep(c) \/ Finish(c) \/ Resume(c)

Next == \E c \in Contexts :
  \/ NewContext(c) \/ RemoveLink(c) \/ CallGC(c)
  \/ Work(c) \/ LockGC(c) \/ Deferred(c)

Spec == Init /\ [][Next]_vars
-----------------------------------------------------------------------------
\* The list is doubly linked and has the contexts that have been appended and
\* not removed, although removed ones keep their links.
Listed == {c \in Contexts : /\ pc[c] \notin {"none"} \cup Making
                            /\ ~dying[c]}
ListExact ==
  /\ \A c \in Listed \cup {Root} : /\ next[c] \in Listed \cup {Root}
                                   /\ prev[next[c]] = c
  /\ (next[Root] = Root) = (Listed = {})

\* While a collector marks, its iterator points to no freed context, if the
\* embedding does not put off what js_DestroyContext collects: then a context
\* passes through gcLock between its removal and its end.
NoFreedContext ==
  ~vetoed => \A c \in Contexts : pc[c] = "mark" => Current(c) \in alive \cup {Root}

\* Type correctness and both: the list can be walked at any moment.
ListSafe == TypeOK /\ ListExact /\ NoFreedContext

\* When marking ends the roots of all contexts have been marked that were in
\* the list all the while, although contexts come and go under the iterator:
\* until the embedding has put off a context's last collection, after which a
\* context may be freed under the iterator.
MarkVisitsAll ==
  ~vetoed /\ (\E c \in Contexts : pc[c] = "sweep") => members \subseteq marked

\* "First context on this runtime: initialize atoms and keywords."
\* (jscntxt.c:58): a context in use has the atom state with its pinned atoms.
\* The code does not keep this: what js_NewContext and js_DestroyContext do
\* for the first and last context they do outside the lock.
AtomsThere == (\E c \in Listed : pc[c] # "wild") => atoms = "pinned"
=============================================================================
