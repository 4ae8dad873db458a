--------------------------- MODULE ContextsProofs ---------------------------
(***************************************************************************)
(* Proofs about Contexts, for every number of threads: the list of         *)
(* contexts can be walked at any moment, no collector's iterator points to *)
(* freed memory unless the embedding has put a collection off, and every   *)
(* context that is in the list all the while has its roots marked.         *)
(*                                                                         *)
(* That nothing of the list is cut off is said without a path: no set of   *)
(* listed contexts is closed under prev.  Removed contexts keep their      *)
(* links, so the collector's iterator may run through them: what it can    *)
(* meet is in some set of contexts that is closed under next and has,      *)
(* beside the listed ones, only those that have not passed through gcLock  *)
(* since they were removed.  What is still to be marked is in every set    *)
(* that holds the iterator and is closed under next.                       *)
(*                                                                         *)
(* In the second half the context a thread runs in, where calls between    *)
(* JavaScript and Java nest on it (JavaCalls), to any depth.  As long as   *)
(* nothing went astray one context serves all frames that cross, so the    *)
(* error kept or the exception pending is that of a frame that still runs. *)
(*                                                                         *)
(* Last the functions called there (Activations): what an operation does   *)
(* to an activation keeps it one of a running function (Running), leaving  *)
(* the frame makes it one whose objects have what is needed later (Left),  *)
(* and an activation has one frame at most.                                *)
(***************************************************************************)
EXTENDS Contexts, JavaCalls, Activations, SequenceLemmas, TLAPS

\* Whose threads are where, and what that says of their memory.
Where ==
  /\ \A c \in Contexts : c \in alive <=> pc[c] # "none"
  /\ \A c \in Contexts : pc[c] \in {"none"} \cup Making => ~dying[c] /\ next[c] = c
  /\ \A c \in Contexts : pc[c] = "run" => ~dying[c]
  /\ \A c \in Contexts : pc[c] \in {"removed", "force", "free"} => dying[c]

\* The list is doubly linked, and all of it is met on the way back to Root.
Linked ==
  /\ \A c \in Listed \cup {Root} : /\ next[c] \in Listed \cup {Root}
                                   /\ prev[c] \in Listed \cup {Root}
                                   /\ prev[next[c]] = c
                                   /\ next[prev[c]] = c
Connected ==
  \A S \in SUBSET Listed : (\A c \in S : prev[c] \in S) => S = {}

\* The links of an unlisted context are not mistaken for those of a listed one.
Stale ==
  \A c \in Contexts \ Listed : prev[c] = c \/ next[prev[c]] # c

ClosedIn(S) == \A c \in S : next[c] \in S \cup {Root}
Protected(c) == dying[c] /\ pc[c] \in {"removed", "force", "gc"}

\* What the iterator of the collector c can meet.
Meets(c, W) ==
  /\ Listed \subseteq W
  /\ ClosedIn(W)
  /\ \A d \in W \ Listed : Protected(d)
  /\ iter[c] \in W \cup {Root, NoContext}
Walkable ==
  ~vetoed => \A c \in Contexts : pc[c] = "mark" => \E W \in SUBSET Contexts : Meets(c, W)

\* What is not marked yet is ahead of the iterator.
Ahead(c) ==
  \A S \in SUBSET Contexts :
    Current(c) \in S \cup {Root} /\ ClosedIn(S) => members \ marked \subseteq S
Marking ==
  /\ members \subseteq Listed
  /\ ~vetoed => \A c \in Contexts : /\ pc[c] = "mark" => Ahead(c)
                                    /\ pc[c] = "sweep" => members \subseteq marked

Inv == TypeOK /\ Where /\ Linked /\ Connected /\ Stale /\ Walkable /\ Marking

-----------------------------------------------------------------------------
(***************************************************************************)
(* Types, and where the threads are.                                       *)
(***************************************************************************)
LEMMA TypeInit == Init => TypeOK
<1> SUFFICES ASSUME Init PROVE TypeOK
  OBVIOUS
<1> USE ContextsAssumption DEF ContextsAssumption, Init
<1>1. /\ next \in [Contexts \cup {Root} -> Contexts \cup {Root}]
      /\ prev \in [Contexts \cup {Root} -> Contexts \cup {Root}]
  OBVIOUS
<1>2. pc \in [Contexts -> PCs]
  BY DEF PCs
<1>3. /\ rtempty \in [Contexts -> BOOLEAN]
      /\ dying \in [Contexts -> BOOLEAN]
      /\ iter \in [Contexts -> Contexts \cup {Root, NoContext}]
  OBVIOUS
<1>4. \A c \in Contexts : pc[c] = "none" /\ gcLock # c
  OBVIOUS
<1>5. /\ alive \subseteq Contexts /\ members \subseteq Contexts /\ marked \subseteq Contexts
      /\ atoms \in {"none", "table", "pinned", "unpinned", "swept"}
      /\ gcLock \in Contexts \cup {NoContext}
  OBVIOUS
<1>6. gcPoke \in BOOLEAN /\ vetoed \in BOOLEAN
  OBVIOUS
<1>7. gcLevel \in 0..1
  OBVIOUS
<1> HIDE DEF Init
<1> QED
  BY <1>1, <1>2, <1>3, <1>4, <1>5, <1>6, <1>7 DEF TypeOK

LEMMA TypeStep == TypeOK /\ [Next]_vars => TypeOK'
<1> SUFFICES ASSUME TypeOK, [Next]_vars PROVE TypeOK'
  OBVIOUS
<1> USE ContextsAssumption DEF ContextsAssumption
<1> USE DEF TypeOK, PCs, Making, Collecting, Goto, list, gc, walk, locals
<1>1. ASSUME NEW c \in Contexts, NewContext(c) PROVE TypeOK'
  BY <1>1 DEF NewContext, Empty
<1>2. ASSUME NEW c \in Contexts, InitAtomState(c) PROVE TypeOK'
  BY <1>2 DEF InitAtomState
<1>3. ASSUME NEW c \in Contexts, FillAtomState(c) PROVE TypeOK'
  BY <1>3 DEF FillAtomState
<1>4. ASSUME NEW c \in Contexts, AppendLink(c) PROVE TypeOK'
  BY <1>4 DEF AppendLink
<1>5. ASSUME NEW c \in Contexts, RemoveLink(c) PROVE TypeOK'
  BY <1>5 DEF RemoveLink
<1>6. ASSUME NEW c \in Contexts, Unpin(c) PROVE TypeOK'
  BY <1>6 DEF Unpin
<1>7. ASSUME NEW c \in Contexts, ForceGC(c) PROVE TypeOK'
  BY <1>7 DEF ForceGC
<1>8. ASSUME NEW c \in Contexts, FreeAtomState(c) PROVE TypeOK'
  BY <1>8 DEF FreeAtomState
<1>9. ASSUME NEW c \in Contexts, Free(c) PROVE TypeOK'
  BY <1>9 DEF Free
<1>10. ASSUME NEW c \in Contexts, CallGC(c) PROVE TypeOK'
  BY <1>10 DEF CallGC
<1>11. ASSUME NEW c \in Contexts, Deferred(c) PROVE TypeOK'
  BY <1>11 DEF Deferred
<1>12. ASSUME NEW c \in Contexts, LockGC(c) PROVE TypeOK'
  BY <1>12 DEF LockGC
<1>13. ASSUME NEW c \in Contexts, Enter(c) PROVE TypeOK'
  <2>1. pc[c] = "gc_locked" /\ gcLock = c /\ gcLock' = NoContext
    BY <1>13 DEF Enter
  <2>2. \E to \in {"after", "gc_wait", "gc_requests"} : pc' = [pc EXCEPT ![c] = to]
    BY <1>13 DEF Enter
  <2>3. gcLevel' \in 0..1
    BY <1>13 DEF Enter
  <2>4. \A d \in Contexts : pc'[d] \notin {"gc_locked", "mark", "sweep"}
    BY <2>1, <2>2
  <2>5. gcPoke' = FALSE /\ UNCHANGED <<alive, list, atoms, locals, walk>>
    BY <1>13 DEF Enter
  <2>6. pc' \in [Contexts -> PCs]
    BY <2>2
  <2> QED
    BY <2>1, <2>3, <2>4, <2>5, <2>6
<1>14. ASSUME NEW c \in Contexts, GCDone(c) PROVE TypeOK'
  BY <1>14 DEF GCDone
<1>15. ASSUME NEW c \in Contexts, StartMark(c) PROVE TypeOK'
  BY <1>15 DEF StartMark, InList
<1>16. ASSUME NEW c \in Contexts, Mark(c) PROVE TypeOK'
  BY <1>16 DEF Mark, Current
<1>17. ASSUME NEW c \in Contexts, MarkFreed(c) PROVE TypeOK'
  BY <1>17 DEF MarkFreed, Current
<1>18. ASSUME NEW c \in Contexts, MarkEnds(c) PROVE TypeOK'
  BY <1>18 DEF MarkEnds, Current
<1>19. ASSUME NEW c \in Contexts, Sweep(c) PROVE TypeOK'
  BY <1>19 DEF Sweep
<1>20. ASSUME NEW c \in Contexts, Finish(c) PROVE TypeOK'
  BY <1>20 DEF Finish
<1>21. ASSUME NEW c \in Contexts, Resume(c) PROVE TypeOK'
  BY <1>21 DEF Resume
<1>22. CASE UNCHANGED vars
  BY <1>22 DEF vars
<1> QED
  BY <1>1, <1>2, <1>3, <1>4, <1>5, <1>6, <1>7, <1>8, <1>9, <1>10, <1>11, <1>12, <1>13, <1>14, <1>15, <1>16, <1>17, <1>18, <1>19, <1>20, <1>21, <1>22 DEF Next, Work

LEMMA WhereInit == Init => Where
BY ContextsAssumption DEF ContextsAssumption, Init, Where

LEMMA WhereStep == TypeOK /\ Where /\ Linked /\ [Next]_vars => Where'
<1> SUFFICES ASSUME TypeOK, Where, Linked, [Next]_vars PROVE Where'
  OBVIOUS
<1> USE ContextsAssumption DEF ContextsAssumption
<1> USE DEF TypeOK, Where, PCs, Making, Collecting, Goto, list, gc, walk, locals
<1>1. ASSUME NEW c \in Contexts, NewContext(c) PROVE Where'
  BY <1>1 DEF NewContext, Empty
<1>2. ASSUME NEW c \in Contexts, InitAtomState(c) PROVE Where'
  BY <1>2 DEF InitAtomState
<1>3. ASSUME NEW c \in Contexts, FillAtomState(c) PROVE Where'
  BY <1>3 DEF FillAtomState
<1>4. ASSUME NEW c \in Contexts, AppendLink(c) PROVE Where'
  BY <1>4 DEF AppendLink, Linked, Listed
<1>5. ASSUME NEW c \in Contexts, RemoveLink(c) PROVE Where'
  BY <1>5 DEF RemoveLink, Linked, Listed
<1>6. ASSUME NEW c \in Contexts, Unpin(c) PROVE Where'
  BY <1>6 DEF Unpin
<1>7. ASSUME NEW c \in Contexts, ForceGC(c) PROVE Where'
  BY <1>7 DEF ForceGC
<1>8. ASSUME NEW c \in Contexts, FreeAtomState(c) PROVE Where'
  BY <1>8 DEF FreeAtomState
<1>9. ASSUME NEW c \in Contexts, Free(c) PROVE Where'
  BY <1>9 DEF Free
<1>10. ASSUME NEW c \in Contexts, CallGC(c) PROVE Where'
  BY <1>10 DEF CallGC
<1>11. ASSUME NEW c \in Contexts, Deferred(c) PROVE Where'
  BY <1>11 DEF Deferred
<1>12. ASSUME NEW c \in Contexts, LockGC(c) PROVE Where'
  BY <1>12 DEF LockGC
<1>13. ASSUME NEW c \in Contexts, Enter(c) PROVE Where'
  BY <1>13 DEF Enter
<1>14. ASSUME NEW c \in Contexts, GCDone(c) PROVE Where'
  BY <1>14 DEF GCDone
<1>15. ASSUME NEW c \in Contexts, StartMark(c) PROVE Where'
  BY <1>15 DEF StartMark, InList
<1>16. ASSUME NEW c \in Contexts, Mark(c) PROVE Where'
  BY <1>16 DEF Mark, Current
<1>17. ASSUME NEW c \in Contexts, MarkFreed(c) PROVE Where'
  BY <1>17 DEF MarkFreed, Current
<1>18. ASSUME NEW c \in Contexts, MarkEnds(c) PROVE Where'
  BY <1>18 DEF MarkEnds, Current
<1>19. ASSUME NEW c \in Contexts, Sweep(c) PROVE Where'
  BY <1>19 DEF Sweep
<1>20. ASSUME NEW c \in Contexts, Finish(c) PROVE Where'
  BY <1>20 DEF Finish
<1>21. ASSUME NEW c \in Contexts, Resume(c) PROVE Where'
  BY <1>21 DEF Resume
<1>22. CASE UNCHANGED vars
  BY <1>22 DEF vars
<1> QED
  BY <1>1, <1>2, <1>3, <1>4, <1>5, <1>6, <1>7, <1>8, <1>9, <1>10, <1>11, <1>12, <1>13, <1>14, <1>15, <1>16, <1>17, <1>18, <1>19, <1>20, <1>21, <1>22 DEF Next, Work
-----------------------------------------------------------------------------
(***************************************************************************)
(* The list.  Only AppendLink, RemoveLink and Free change links, and only  *)
(* the first two what is listed.                                           *)
(***************************************************************************)
LEMMA ListedChanges ==
  ASSUME TypeOK, Where, NEW d \in Contexts
  PROVE  /\ AppendLink(d) => d \notin Listed /\ Listed' = Listed \cup {d}
         /\ RemoveLink(d) => d \in Listed /\ Listed' = Listed \ {d}
         /\ Free(d) => d \notin Listed /\ Listed' = Listed
<1> USE DEF TypeOK, Where, PCs, Making, Collecting, Goto, Listed
<1>1. AppendLink(d) => d \notin Listed /\ Listed' = Listed \cup {d}
  BY DEF AppendLink, locals
<1>2. RemoveLink(d) => d \in Listed /\ Listed' = Listed \ {d}
  BY DEF RemoveLink
<1>3. Free(d) => d \notin Listed /\ Listed' = Listed
  BY DEF Free
<1> QED
  BY <1>1, <1>2, <1>3

LEMMA ListedStep ==
  ASSUME TypeOK, Where, [Next]_vars
  PROVE  \/ UNCHANGED list /\ Listed' = Listed
         \/ \E d \in Contexts : AppendLink(d) \/ RemoveLink(d) \/ Free(d)
<1> DEFINE Still == UNCHANGED list /\ Listed' = Listed
<1> USE DEF TypeOK, Where, PCs, Making, Collecting, Goto, Listed, list
<1>1. ASSUME NEW c \in Contexts, NewContext(c) PROVE Still
  BY <1>1 DEF NewContext, locals, Empty
<1>2. ASSUME NEW c \in Contexts, InitAtomState(c) PROVE Still
  BY <1>2 DEF InitAtomState, locals
<1>3. ASSUME NEW c \in Contexts, FillAtomState(c) PROVE Still
  BY <1>3 DEF FillAtomState, locals
<1>4. ASSUME NEW c \in Contexts, Unpin(c) PROVE Still
  BY <1>4 DEF Unpin, locals
<1>5. ASSUME NEW c \in Contexts, ForceGC(c) PROVE Still
  BY <1>5 DEF ForceGC, locals
<1>6. ASSUME NEW c \in Contexts, FreeAtomState(c) PROVE Still
  BY <1>6 DEF FreeAtomState, locals
<1>7. ASSUME NEW c \in Contexts, CallGC(c) PROVE Still
  BY <1>7 DEF CallGC, locals
<1>8. ASSUME NEW c \in Contexts, Deferred(c) PROVE Still
  BY <1>8 DEF Deferred, locals
<1>9. ASSUME NEW c \in Contexts, LockGC(c) PROVE Still
  BY <1>9 DEF LockGC, locals
<1>10. ASSUME NEW c \in Contexts, Enter(c) PROVE Still
  BY <1>10 DEF Enter, locals
<1>11. ASSUME NEW c \in Contexts, GCDone(c) PROVE Still
  BY <1>11 DEF GCDone, locals
<1>12. ASSUME NEW c \in Contexts, StartMark(c) PROVE Still
  BY <1>12 DEF StartMark, locals
<1>13. ASSUME NEW c \in Contexts, Mark(c) PROVE Still
  BY <1>13 DEF Mark, locals
<1>14. ASSUME NEW c \in Contexts, MarkFreed(c) PROVE Still
  BY <1>14 DEF MarkFreed, locals
<1>15. ASSUME NEW c \in Contexts, MarkEnds(c) PROVE Still
  BY <1>15 DEF MarkEnds, locals
<1>16. ASSUME NEW c \in Contexts, Sweep(c) PROVE Still
  BY <1>16 DEF Sweep, locals
<1>17. ASSUME NEW c \in Contexts, Finish(c) PROVE Still
  BY <1>17 DEF Finish, locals
<1>18. ASSUME NEW c \in Contexts, Resume(c) PROVE Still
  BY <1>18 DEF Resume, locals
<1>19. CASE UNCHANGED vars
  BY <1>19 DEF vars
<1> QED
  BY <1>1, <1>2, <1>3, <1>4, <1>5, <1>6, <1>7, <1>8, <1>9, <1>10, <1>11, <1>12, <1>13, <1>14, <1>15, <1>16, <1>17, <1>18, <1>19 DEF Next, Work

LEMMA ListInit == Init => Linked /\ Connected /\ Stale
<1> SUFFICES ASSUME Init PROVE Linked /\ Connected /\ Stale
  OBVIOUS
<1> USE DEF Init
<1>1. Listed = {}
  BY DEF Listed
<1>2. Linked
  BY <1>1 DEF Linked
<1>3. Connected
  BY <1>1 DEF Connected
<1>4. Stale
  BY DEF Stale
<1> QED
  BY <1>2, <1>3, <1>4

LEMMA AppendKeepsList ==
  ASSUME TypeOK, Where, Linked, Connected, Stale,
         NEW d \in Contexts \ Listed, AppendLink(d), Listed' = Listed \cup {d}
  PROVE  Linked' /\ Connected' /\ Stale'
<1> USE ContextsAssumption DEF ContextsAssumption
<1>1. /\ prev[Root] \in Listed \cup {Root} /\ next[prev[Root]] = Root
      /\ Listed \subseteq Contexts
  BY DEF Linked, Listed
<1>2. /\ next' = [next EXCEPT ![prev[Root]] = d, ![d] = Root]
      /\ prev' = [prev EXCEPT ![d] = prev[Root], ![Root] = d]
      /\ \A x \in Contexts \cup {Root} : next[x] \in Contexts \cup {Root} /\ prev[x] \in Contexts \cup {Root}
      /\ next \in [Contexts \cup {Root} -> Contexts \cup {Root}]
      /\ prev \in [Contexts \cup {Root} -> Contexts \cup {Root}]
  BY DEF AppendLink, TypeOK
<1>3. Linked'
  <2>1. next'[d] = Root /\ prev'[d] = prev[Root] /\ next'[prev[Root]] = d /\ prev'[Root] = d
    BY <1>1, <1>2
  <2>2. ASSUME NEW x \in Listed \cup {Root}
        PROVE  /\ next'[x] \in Listed' \cup {Root} /\ prev'[next'[x]] = x
               /\ prev'[x] \in Listed' \cup {Root} /\ next'[prev'[x]] = x
    <3>1. /\ next[x] \in Listed \cup {Root} /\ prev[next[x]] = x
          /\ prev[x] \in Listed \cup {Root} /\ next[prev[x]] = x
      BY DEF Linked
    <3>2. x = prev[Root] => next'[x] = d /\ prev'[d] = x
      BY <2>1
    <3>3. x # prev[Root] => next'[x] = next[x] /\ next[x] # Root /\ prev'[next[x]] = x
      BY <1>1, <1>2, <3>1
    <3>4. x = Root => prev'[x] = d /\ next'[d] = x
      BY <2>1
    <3>5. x # Root => prev'[x] = prev[x] /\ prev[x] # prev[Root] /\ next'[prev[x]] = x
      BY <1>1, <1>2, <3>1
    <3> QED
      BY <3>1, <3>2, <3>3, <3>4, <3>5
  <2>3. /\ next'[d] \in Listed' \cup {Root} /\ prev'[next'[d]] = d
        /\ prev'[d] \in Listed' \cup {Root} /\ next'[prev'[d]] = d
    BY <1>1, <2>1
  <2> QED
    BY <2>2, <2>3 DEF Linked
<1>4. Connected'
  <2> SUFFICES ASSUME NEW S \in SUBSET (Listed \cup {d}), \A c \in S : prev'[c] \in S
               PROVE  S = {}
    BY DEF Connected
  <2>1. \A c \in S \ {d} : prev[c] \in S \ {d}
    BY <1>1, <1>2 DEF Linked
  <2>2. S \ {d} = {}
    BY <2>1 DEF Connected
  <2>3. d \in S => prev[Root] \in S
    BY <1>1, <1>2
  <2> QED
    BY <1>1, <2>2, <2>3
<1>5. Stale'
  <2> SUFFICES ASSUME NEW c \in Contexts \ Listed, c # d PROVE prev'[c] = c \/ next'[prev'[c]] # c
    BY DEF Stale
  <2>1. prev'[c] = prev[c]
    BY <1>1, <1>2
  <2>2. next'[prev[c]] \in {next[prev[c]], d, Root}
    BY <1>1, <1>2
  <2> QED
    BY <2>1, <2>2 DEF Stale
<1> QED
  BY <1>3, <1>4, <1>5

LEMMA RemoveKeepsList ==
  ASSUME TypeOK, Where, Linked, Connected, Stale,
         NEW d \in Listed, RemoveLink(d), Listed' = Listed \ {d}
  PROVE  Linked' /\ Connected' /\ Stale'
<1> USE ContextsAssumption DEF ContextsAssumption
<1>1. /\ next[d] \in Listed \cup {Root} /\ prev[next[d]] = d
      /\ prev[d] \in Listed \cup {Root} /\ next[prev[d]] = d
      /\ Listed \subseteq Contexts
  BY DEF Linked, Listed
<1>2. /\ next' = [next EXCEPT ![prev[d]] = next[d]]
      /\ prev' = [prev EXCEPT ![next[d]] = prev[d]]
      /\ next \in [Contexts \cup {Root} -> Contexts \cup {Root}]
      /\ prev \in [Contexts \cup {Root} -> Contexts \cup {Root}]
  BY DEF RemoveLink, TypeOK
<1>3. prev[d] # d /\ next[d] # d
  <2>1. prev[d] = d => \A c \in {d} : prev[c] \in {d}
    OBVIOUS
  <2>2. {d} \in SUBSET Listed /\ {d} # {}
    OBVIOUS
  <2>3. prev[d] # d
    BY <2>1, <2>2 DEF Connected
  <2> QED
    BY <1>1, <2>3
<1>4. Linked'
  <2>1. ASSUME NEW x \in (Listed \ {d}) \cup {Root}
        PROVE  /\ next'[x] \in (Listed \ {d}) \cup {Root} /\ prev'[next'[x]] = x
               /\ prev'[x] \in (Listed \ {d}) \cup {Root} /\ next'[prev'[x]] = x
    <3>1. /\ next[x] \in Listed \cup {Root} /\ prev[next[x]] = x
          /\ prev[x] \in Listed \cup {Root} /\ next[prev[x]] = x
          /\ x # d
      BY DEF Linked, Listed
    <3>2. x = prev[d] => next'[x] = next[d] /\ prev'[next[d]] = x
      BY <1>1, <1>2
    <3>3. x # prev[d] => next'[x] = next[x] /\ next[x] # d /\ next[x] # next[d] /\ prev'[next[x]] = x
      BY <1>1, <1>2, <3>1
    <3>4. x = next[d] => prev'[x] = prev[d] /\ next'[prev[d]] = x
      BY <1>1, <1>2
    <3>5. x # next[d] => prev'[x] = prev[x] /\ prev[x] # d /\ prev[x] # prev[d] /\ next'[prev[x]] = x
      BY <1>1, <1>2, <3>1
    <3> QED
      BY <1>1, <1>3, <3>1, <3>2, <3>3, <3>4, <3>5
  <2> QED
    BY <2>1 DEF Linked
<1>5. Connected'
  <2> SUFFICES ASSUME NEW S \in SUBSET (Listed \ {d}), \A c \in S : prev'[c] \in S
               PROVE  S = {}
    BY DEF Connected
  <2>1. CASE next[d] \in S
    <3>1. \A c \in S \cup {d} : prev[c] \in S \cup {d}
      BY <1>1, <1>2, <2>1
    <3> QED
      BY <3>1 DEF Connected
  <2>2. CASE next[d] \notin S
    <3>1. \A c \in S : prev[c] \in S
      BY <1>1, <1>2, <2>2
    <3> QED
      BY <3>1 DEF Connected
  <2> QED
    BY <2>1, <2>2
<1>6. Stale'
  <2>1. prev'[d] = prev[d] /\ next'[prev[d]] # d
    BY <1>1, <1>2, <1>3
  <2>2. ASSUME NEW c \in Contexts \ Listed PROVE prev'[c] = c \/ next'[prev'[c]] # c
    <3>1. prev'[c] = prev[c]
      BY <1>1, <1>2
    <3>2. next'[prev[c]] \in {next[prev[c]], next[d]}
      BY <1>1, <1>2
    <3> QED
      BY <1>1, <3>1, <3>2 DEF Stale
  <2> QED
    BY <2>1, <2>2 DEF Stale
<1> QED
  BY <1>4, <1>5, <1>6

LEMMA FreeKeepsList ==
  ASSUME TypeOK, Where, Linked, Connected, Stale,
         NEW d \in Contexts \ Listed, Free(d), Listed' = Listed
  PROVE  Linked' /\ Connected' /\ Stale'
<1> USE ContextsAssumption DEF ContextsAssumption
<1>1. /\ next' = [next EXCEPT ![d] = d]
      /\ prev' = [prev EXCEPT ![d] = d]
      /\ next \in [Contexts \cup {Root} -> Contexts \cup {Root}]
      /\ prev \in [Contexts \cup {Root} -> Contexts \cup {Root}]
      /\ Listed \subseteq Contexts
  BY DEF Free, TypeOK, Listed
<1>2. \A x \in Listed \cup {Root} : next'[x] = next[x] /\ prev'[x] = prev[x]
  BY <1>1
<1>3. Linked'
  BY <1>2 DEF Linked
<1>4. Connected'
  BY <1>2 DEF Connected
<1>5. Stale'
  BY <1>1 DEF Stale
<1> QED
  BY <1>3, <1>4, <1>5

LEMMA ListStep ==
  ASSUME TypeOK, Where, Linked, Connected, Stale, [Next]_vars
  PROVE  Linked' /\ Connected' /\ Stale'
<1>1. CASE UNCHANGED list /\ Listed' = Listed
  BY <1>1 DEF list, Linked, Connected, Stale
<1> QED
  BY <1>1, ListedStep, ListedChanges, AppendKeepsList, RemoveKeepsList, FreeKeepsList
-----------------------------------------------------------------------------
(***************************************************************************)
(* The walk of a collector.                                                *)
(***************************************************************************)
\* A walk starts with everything listed ahead of it.
LEMMA InListIsListed == ASSUME TypeOK, Where, Linked, Connected, Stale PROVE InList = Listed
<1>1. ASSUME NEW c \in Listed PROVE c \in InList
  <2>1. c \in Contexts /\ next[prev[c]] = c
    BY DEF Linked, Listed
  <2>2. prev[c] = c => \A x \in {c} : prev[x] \in {c}
    OBVIOUS
  <2>3. {c} \in SUBSET Listed /\ {c} # {}
    OBVIOUS
  <2>4. prev[c] # c
    BY <2>2, <2>3 DEF Connected
  <2> QED
    BY <2>1, <2>4 DEF InList
<1>2. ASSUME NEW c \in InList PROVE c \in Listed
  BY DEF InList, Stale
<1> QED
  BY <1>1, <1>2

LEMMA AllAhead ==
  ASSUME Linked, Connected, Root \notin Contexts,
         NEW S \in SUBSET Contexts, next[Root] \in S \cup {Root}, ClosedIn(S)
  PROVE  Listed \subseteq S
<1> DEFINE T == Listed \ S
<1>1. ASSUME NEW c \in T PROVE prev[c] \in T
  <2>1. c \in Contexts /\ prev[c] \in Listed \cup {Root} /\ next[prev[c]] = c
    BY DEF Linked, Listed
  <2>2. prev[c] # Root
    BY <2>1
  <2>3. prev[c] \notin S
    BY <2>1 DEF ClosedIn
  <2> QED
    BY <2>1, <2>2, <2>3
<1>2. T \in SUBSET Listed
  OBVIOUS
<1>3. T = {}
  BY <1>1, <1>2 DEF Connected
<1> QED
  BY <1>3

\* A step that leaves the list alone, and the collectors where they are or
\* takes one away, leaves the walk alone if no protected context is lost.
Unwalked ==
  /\ UNCHANGED <<list, walk>> /\ Listed' = Listed
  /\ ~vetoed' => ~vetoed
  /\ \A c \in Contexts : pc'[c] = "mark" => pc[c] = "mark"
  /\ \A c \in Contexts : pc'[c] = "sweep" => pc[c] = "sweep"
  /\ (~vetoed' /\ \E c \in Contexts : pc[c] = "mark") =>
        \A d \in Contexts : Protected(d) => Protected(d)'

LEMMA UnwalkedStep ==
  ASSUME TypeOK, Walkable, Marking, Unwalked
  PROVE  Walkable' /\ Marking'
<1>1. Walkable'
  <2> SUFFICES ASSUME ~vetoed', NEW c \in Contexts, pc'[c] = "mark"
               PROVE  \E W \in SUBSET Contexts : Meets(c, W)'
    BY DEF Walkable
  <2>1. PICK W \in SUBSET Contexts : Meets(c, W)
    BY DEF Walkable, Unwalked
  <2>2. \A d \in Contexts : Protected(d) => Protected(d)'
    BY DEF Unwalked
  <2>3. Meets(c, W)'
    BY <2>1, <2>2 DEF Meets, ClosedIn, Unwalked, list, walk
  <2> QED
    BY <2>3
<1>2. \A c \in Contexts : Ahead(c) => Ahead(c)'
  BY DEF Ahead, Current, ClosedIn, Unwalked, list, walk
<1> QED
  BY <1>1, <1>2 DEF Marking, Unwalked, walk

LEMMA OneCollector ==
  ASSUME TypeOK, NEW c \in Contexts, NEW d \in Contexts,
         pc[c] \in {"mark", "sweep"}, pc[d] \in {"gc_locked", "mark", "sweep"}
  PROVE  c = d
BY DEF TypeOK

LEMMA AppendWalks ==
  ASSUME TypeOK, Where, Linked, Walkable, Marking,
         NEW d \in Contexts \ Listed, AppendLink(d), Listed' = Listed \cup {d}
  PROVE  Walkable' /\ Marking'
<1> USE ContextsAssumption DEF ContextsAssumption
<1>1. /\ prev[Root] \in Listed \cup {Root} /\ next[prev[Root]] = Root
      /\ next[d] = d /\ ~dying[d] /\ Listed \subseteq Contexts
  BY DEF Linked, Where, AppendLink, Goto, Making, Listed
<1>2. /\ next' = [next EXCEPT ![prev[Root]] = d, ![d] = Root]
      /\ next \in [Contexts \cup {Root} -> Contexts \cup {Root}]
      /\ pc' = [pc EXCEPT ![d] = "run"] /\ pc \in [Contexts -> PCs]
      /\ UNCHANGED <<dying, iter, vetoed, members, marked>>
  BY DEF AppendLink, Goto, TypeOK, locals, walk
<1>3. \A c \in Contexts : pc'[c] \in {"mark", "sweep"} => pc[c] = pc'[c]
  BY <1>2
<1>4. Walkable'
  <2> SUFFICES ASSUME ~vetoed', NEW c \in Contexts, pc'[c] = "mark"
               PROVE  \E W \in SUBSET Contexts : Meets(c, W)'
    BY DEF Walkable
  <2>1. PICK W \in SUBSET Contexts : Meets(c, W)
    BY <1>2, <1>3 DEF Walkable
  <2>2. ClosedIn(W \cup {d})'
    BY <1>1, <1>2, <2>1 DEF ClosedIn, Meets
  <2>3. \A w \in (W \cup {d}) \ Listed' : Protected(w)'
    BY <1>1, <1>2, <2>1 DEF Meets, Protected
  <2>4. Meets(c, W \cup {d})'
    BY <1>2, <2>1, <2>2, <2>3 DEF Meets
  <2> QED
    BY <2>4
<1>5. ASSUME NEW c \in Contexts, Ahead(c) PROVE Ahead(c)'
  <2> SUFFICES ASSUME NEW S \in SUBSET Contexts, Current(c)' \in S \cup {Root}, ClosedIn(S)'
               PROVE  members \ marked \subseteq S
    BY <1>2 DEF Ahead
  <2>1. ClosedIn(S)
    BY <1>1, <1>2 DEF ClosedIn
  <2>2. Current(c) \in S \cup {Root}
    BY <1>1, <1>2 DEF Current
  <2> QED
    BY <1>5, <2>1, <2>2 DEF Ahead
<1> QED
  BY <1>2, <1>3, <1>4, <1>5 DEF Marking

LEMMA RemoveWalks ==
  ASSUME TypeOK, Where, Linked, Walkable, Marking,
         NEW d \in Listed, RemoveLink(d), Listed' = Listed \ {d}
  PROVE  Walkable' /\ Marking'
<1> USE ContextsAssumption DEF ContextsAssumption
<1>1. /\ prev[d] \in Listed \cup {Root} /\ next[prev[d]] = d
      /\ next[d] \in Listed \cup {Root} /\ Listed \subseteq Contexts
  BY DEF Linked, Listed
<1>2. /\ next' = [next EXCEPT ![prev[d]] = next[d]]
      /\ next \in [Contexts \cup {Root} -> Contexts \cup {Root}]
      /\ pc' = [pc EXCEPT ![d] = "removed"] /\ pc \in [Contexts -> PCs]
      /\ dying' = [dying EXCEPT ![d] = TRUE] /\ dying \in [Contexts -> BOOLEAN]
      /\ members' = members \ {d}
      /\ UNCHANGED <<iter, vetoed, marked>>
  BY DEF RemoveLink, Goto, TypeOK
<1>3. \A c \in Contexts : pc'[c] \in {"mark", "sweep"} => pc[c] = pc'[c]
  BY <1>2
<1>4. Walkable'
  <2> SUFFICES ASSUME ~vetoed', NEW c \in Contexts, pc'[c] = "mark"
               PROVE  \E W \in SUBSET Contexts : Meets(c, W)'
    BY DEF Walkable
  <2>1. PICK W \in SUBSET Contexts : Meets(c, W)
    BY <1>2, <1>3 DEF Walkable
  <2>2. ClosedIn(W)'
    BY <1>1, <1>2, <2>1 DEF ClosedIn, Meets
  <2>3. \A w \in W \ Listed' : Protected(w)'
    BY <1>1, <1>2, <2>1 DEF Meets, Protected
  <2>4. Meets(c, W)'
    BY <1>2, <2>1, <2>2, <2>3 DEF Meets
  <2> QED
    BY <2>4
<1>5. ASSUME NEW c \in Contexts, Ahead(c) PROVE Ahead(c)'
  <2> SUFFICES ASSUME NEW S \in SUBSET Contexts, Current(c)' \in S \cup {Root}, ClosedIn(S)'
               PROVE  members' \ marked \subseteq S
    BY <1>2 DEF Ahead
  <2>1. CASE prev[d] \in S \/ (prev[d] = Root /\ iter[c] = NoContext)
    <3>1. next[d] \in S \cup {Root}
      BY <1>1, <1>2, <2>1 DEF ClosedIn, Current
    <3>2. ClosedIn(S \cup {d})
      BY <1>1, <1>2, <3>1 DEF ClosedIn
    <3>3. Current(c) \in (S \cup {d}) \cup {Root}
      BY <1>1, <1>2 DEF Current
    <3>4. S \cup {d} \in SUBSET Contexts
      BY <1>1
    <3>5. members \ marked \subseteq S \cup {d}
      BY <1>5, <3>2, <3>3, <3>4 DEF Ahead
    <3> QED
      BY <1>2, <3>5
  <2>2. CASE prev[d] \notin S /\ ~(prev[d] = Root /\ iter[c] = NoContext)
    <3>1. ClosedIn(S)
      BY <1>2, <2>2 DEF ClosedIn
    <3>2. Current(c) \in S \cup {Root}
      BY <1>2, <2>2 DEF Current
    <3> QED
      BY <1>2, <1>5, <3>1, <3>2 DEF Ahead
  <2> QED
    BY <2>1, <2>2
<1> QED
  BY <1>2, <1>3, <1>4, <1>5 DEF Marking

LEMMA FreeWalks ==
  ASSUME TypeOK, Where, Linked, Walkable, Marking,
         NEW d \in Contexts \ Listed, Free(d), Listed' = Listed
  PROVE  Walkable' /\ Marking'
<1> USE ContextsAssumption DEF ContextsAssumption
<1>1. /\ next' = [next EXCEPT ![d] = d]
      /\ next \in [Contexts \cup {Root} -> Contexts \cup {Root}]
      /\ pc[d] = "free" /\ pc' = [pc EXCEPT ![d] = "none"] /\ pc \in [Contexts -> PCs]
      /\ dying' = [dying EXCEPT ![d] = FALSE] /\ dying \in [Contexts -> BOOLEAN]
      /\ UNCHANGED <<iter, vetoed, members, marked>>
  BY DEF Free, Goto, TypeOK, walk
<1>2. \A c \in Contexts : pc'[c] \in {"mark", "sweep"} => pc[c] = pc'[c]
  BY <1>1
<1>3. ASSUME NEW c \in Contexts, NEW W \in SUBSET Contexts, Meets(c, W)
      PROVE  d \notin W /\ Meets(c, W)'
  <2>1. d \notin W
    BY <1>1, <1>3 DEF Meets, Protected
  <2>2. ClosedIn(W)'
    BY <1>1, <1>3, <2>1 DEF Meets, ClosedIn
  <2>3. \A w \in W \ Listed' : Protected(w)'
    BY <1>1, <1>3, <2>1 DEF Meets, Protected
  <2>4. Meets(c, W)'
    BY <1>1, <1>3, <2>2, <2>3 DEF Meets
  <2> QED
    BY <2>1, <2>4
<1>4. Walkable'
  BY <1>1, <1>2, <1>3 DEF Walkable
<1>5. ASSUME NEW c \in Contexts, NEW W \in SUBSET Contexts, Meets(c, W), Ahead(c) PROVE Ahead(c)'
  <2> SUFFICES ASSUME NEW S \in SUBSET Contexts, Current(c)' \in S \cup {Root}, ClosedIn(S)'
               PROVE  members \ marked \subseteq S
    BY <1>1 DEF Ahead
  <2>1. d \notin W
    BY <1>3, <1>5
  <2>2. ClosedIn(S \cap W)
    BY <1>1, <1>5, <2>1 DEF Meets, ClosedIn
  <2>3. Current(c) = Current(c)'
    BY <1>1 DEF Current
  <2>4. Current(c) \in W \cup {Root}
    BY <1>5 DEF Current, Meets, Linked
  <2>5. members \ marked \subseteq S \cap W
    BY <1>5, <2>2, <2>3, <2>4 DEF Ahead
  <2> QED
    BY <2>5
<1>6. ~vetoed' => \A c \in Contexts : pc'[c] = "mark" => Ahead(c)'
  BY <1>1, <1>2, <1>5 DEF Marking, Walkable
<1> QED
  BY <1>1, <1>2, <1>4, <1>6 DEF Marking

LEMMA StartMarkWalks ==
  ASSUME TypeOK, Where, Linked, Connected, Stale, Walkable, Marking,
         NEW d \in Contexts, StartMark(d), UNCHANGED list /\ Listed' = Listed
  PROVE  Walkable' /\ Marking'
<1> USE ContextsAssumption DEF ContextsAssumption
<1>1. /\ gcLock = NoContext /\ iter' = [iter EXCEPT ![d] = NoContext]
      /\ iter \in [Contexts -> Contexts \cup {Root, NoContext}]
      /\ members' = InList /\ marked' = {}
      /\ pc' = [pc EXCEPT ![d] = "mark"] /\ pc \in [Contexts -> PCs]
      /\ UNCHANGED <<next, prev>>
  BY DEF StartMark, Goto, TypeOK, list
<1>2. \A c \in Contexts : pc'[c] \in {"mark", "sweep"} => c = d
  BY <1>1 DEF TypeOK
<1>3. members' = Listed'
  BY <1>1, InListIsListed
<1>4. Meets(d, Listed)'
  BY <1>1 DEF Meets, ClosedIn, Linked
<1>5. Listed \in SUBSET Contexts
  BY DEF Listed
<1>6. Walkable'
  BY <1>2, <1>4, <1>5 DEF Walkable
<1>7. Ahead(d)'
  <2> SUFFICES ASSUME NEW S \in SUBSET Contexts, Current(d)' \in S \cup {Root}, ClosedIn(S)'
               PROVE  Listed \subseteq S
    BY <1>1, <1>3 DEF Ahead
  <2>1. next[Root] \in S \cup {Root} /\ ClosedIn(S)
    BY <1>1 DEF Current, ClosedIn
  <2> QED
    BY <2>1, AllAhead
<1>8. pc'[d] # "sweep"
  BY <1>1
<1> QED
  BY <1>2, <1>3, <1>6, <1>7, <1>8 DEF Marking

LEMMA MarkWalks ==
  ASSUME TypeOK, Where, Linked, Walkable, Marking,
         NEW d \in Contexts, Mark(d), UNCHANGED list /\ Listed' = Listed
  PROVE  Walkable' /\ Marking'
<1> USE ContextsAssumption DEF ContextsAssumption
<1> DEFINE acx == Current(d)
<1>1. /\ pc[d] = "mark" /\ acx \in alive /\ acx \in Contexts
      /\ iter' = [iter EXCEPT ![d] = next[acx]]
      /\ iter \in [Contexts -> Contexts \cup {Root, NoContext}]
      /\ marked' = marked \cup {acx}
      /\ UNCHANGED <<next, prev, pc, dying, vetoed, members>>
  BY DEF Mark, TypeOK, list, locals
<1>2. \A c \in Contexts : pc'[c] \in {"mark", "sweep"} => c = d
  BY <1>1, OneCollector
<1>3. ASSUME ~vetoed' PROVE \E W \in SUBSET Contexts : Meets(d, W)'
  <2>1. PICK W \in SUBSET Contexts : Meets(d, W)
    BY <1>1, <1>3 DEF Walkable
  <2>2. acx \in W
    BY <1>1, <2>1 DEF Current, Meets, Linked
  <2>3. next[acx] \in W \cup {Root}
    BY <2>1, <2>2 DEF Meets, ClosedIn
  <2>4. Meets(d, W)'
    BY <1>1, <2>1, <2>3 DEF Meets, ClosedIn, Protected
  <2> QED
    BY <2>4
<1>4. ASSUME ~vetoed' PROVE Ahead(d)'
  <2> SUFFICES ASSUME NEW S \in SUBSET Contexts, Current(d)' \in S \cup {Root}, ClosedIn(S)'
               PROVE  members' \ marked' \subseteq S
    BY DEF Ahead
  <2>1. next[acx] \in Contexts \cup {Root}
    BY <1>1 DEF TypeOK
  <2>2. Current(d)' = next[acx]
    BY <1>1, <2>1 DEF Current
  <2>3. ClosedIn(S \cup {acx})
    BY <1>1, <2>2 DEF ClosedIn
  <2>4. members \ marked \subseteq S \cup {acx}
    BY <1>1, <1>4, <2>3 DEF Marking, Ahead
  <2> QED
    BY <1>1, <2>4
<1>5. Walkable'
  BY <1>2, <1>3 DEF Walkable
<1> QED
  BY <1>1, <1>2, <1>4, <1>5 DEF Marking

LEMMA MarkEndsWalks ==
  ASSUME TypeOK, Where, Linked, Walkable, Marking,
         NEW d \in Contexts, MarkEnds(d), UNCHANGED list /\ Listed' = Listed
  PROVE  Walkable' /\ Marking'
<1>1. /\ pc[d] = "mark" /\ pc' = [pc EXCEPT ![d] = "sweep"] /\ pc \in [Contexts -> PCs]
      /\ Current(d) = Root
      /\ UNCHANGED <<vetoed, members, marked>>
  BY DEF MarkEnds, Goto, TypeOK, locals, walk
<1>2. \A c \in Contexts : pc'[c] \in {"mark", "sweep"} => c = d /\ pc'[c] = "sweep"
  BY <1>1, OneCollector
<1>3. ASSUME ~vetoed PROVE members \subseteq marked
  <2>1. ClosedIn({})
    BY DEF ClosedIn
  <2>2. members \ marked \subseteq {}
    BY <1>1, <1>3, <2>1 DEF Marking, Ahead
  <2> QED
    BY <2>2
<1> QED
  BY <1>1, <1>2, <1>3 DEF Walkable, Marking

LEMMA SweepWalks ==
  ASSUME TypeOK, Where, Linked, Walkable, Marking,
         NEW d \in Contexts, Sweep(d), UNCHANGED list /\ Listed' = Listed
  PROVE  Walkable' /\ Marking'
<1>1. /\ pc[d] = "sweep" /\ pc' = [pc EXCEPT ![d] = "finalize"] /\ pc \in [Contexts -> PCs]
      /\ members' = {}
  BY DEF Sweep, Goto, TypeOK
<1>2. \A c \in Contexts : pc'[c] \notin {"mark", "sweep"}
  BY <1>1, OneCollector
<1> QED
  BY <1>1, <1>2 DEF Walkable, Marking

LEMMA WalkInit == Init => Walkable /\ Marking
BY DEF Init, Walkable, Marking

LEMMA WalkStep ==
  ASSUME TypeOK, Where, Linked, Connected, Stale, Walkable, Marking, [Next]_vars
  PROVE  Walkable' /\ Marking'
<1> DEFINE Still == UNCHANGED list /\ Listed' = Listed
<1>1. ASSUME Still PROVE Walkable' /\ Marking'
  <2> USE DEF TypeOK, Where, Goto, walk, locals, gc
  <2>1. ASSUME NEW c \in Contexts, NewContext(c) PROVE Unwalked
    BY <1>1, <2>1 DEF NewContext, Unwalked, Protected, Empty
  <2>2. ASSUME NEW c \in Contexts, InitAtomState(c) PROVE Unwalked
    BY <1>1, <2>2 DEF InitAtomState, Unwalked, Protected
  <2>3. ASSUME NEW c \in Contexts, FillAtomState(c) PROVE Unwalked
    BY <1>1, <2>3 DEF FillAtomState, Unwalked, Protected
  <2>4. ASSUME NEW c \in Contexts, Unpin(c) PROVE Unwalked
    BY <1>1, <2>4 DEF Unpin, Unwalked, Protected
  <2>5. ASSUME NEW c \in Contexts, ForceGC(c) PROVE Unwalked
    BY <1>1, <2>5 DEF ForceGC, Unwalked, Protected
  <2>6. ASSUME NEW c \in Contexts, FreeAtomState(c) PROVE Unwalked
    BY <1>1, <2>6 DEF FreeAtomState, Unwalked, Protected
  <2>7. ASSUME NEW c \in Contexts, CallGC(c) PROVE Unwalked
    BY <1>1, <2>7 DEF CallGC, Unwalked, Protected
  <2>8. ASSUME NEW c \in Contexts, Deferred(c) PROVE Unwalked
    BY <1>1, <2>8 DEF Deferred, Unwalked, Protected
  <2>9. ASSUME NEW c \in Contexts, LockGC(c) PROVE Unwalked
    <3>1. \A d \in Contexts : pc[d] # "mark"
      BY <2>9, ContextsAssumption DEF LockGC, ContextsAssumption
    <3> QED
      BY <1>1, <2>9, <3>1 DEF LockGC, Unwalked
  <2>10. ASSUME NEW c \in Contexts, Enter(c) PROVE Unwalked
    BY <1>1, <2>10 DEF Enter, Unwalked, Protected
  <2>11. ASSUME NEW c \in Contexts, GCDone(c) PROVE Unwalked
    BY <1>1, <2>11 DEF GCDone, Unwalked, Protected
  <2>12. ASSUME NEW c \in Contexts, MarkFreed(c) PROVE Unwalked
    BY <1>1, <2>12 DEF MarkFreed, Unwalked, Protected
  <2>13. ASSUME NEW c \in Contexts, Finish(c) PROVE Unwalked
    BY <1>1, <2>13 DEF Finish, Unwalked, Protected
  <2>14. ASSUME NEW c \in Contexts, Resume(c) PROVE Unwalked
    BY <1>1, <2>14 DEF Resume, Unwalked, Protected
  <2>15. ASSUME UNCHANGED vars PROVE Unwalked
    <3>1. UNCHANGED <<list, walk, pc, dying, vetoed>>
      BY <2>15 DEF vars, list
    <3>2. \A d \in Contexts : Protected(d) => Protected(d)'
      BY <3>1 DEF Protected
    <3> QED
      BY <1>1, <3>1, <3>2 DEF Unwalked
  <2>16. ASSUME NEW c \in Contexts, AppendLink(c) \/ RemoveLink(c) \/ Free(c) PROVE Walkable' /\ Marking'
    BY <2>16, ListedChanges, AppendWalks, RemoveWalks, FreeWalks
  <2> QED
    BY <1>1, <2>1, <2>2, <2>3, <2>4, <2>5, <2>6, <2>7, <2>8, <2>9, <2>10, <2>11, <2>12, <2>13, <2>14, <2>15, <2>16, UnwalkedStep,
       StartMarkWalks, MarkWalks, MarkEndsWalks, SweepWalks DEF Next, Work
<1> QED
  BY <1>1, ListedStep, ListedChanges, AppendWalks, RemoveWalks, FreeWalks
-----------------------------------------------------------------------------
(***************************************************************************)
(* The invariant, and what follows from it.                                *)
(***************************************************************************)
LEMMA InvInit == Init => Inv
BY TypeInit, WhereInit, ListInit, WalkInit DEF Inv

LEMMA InvStep == Inv /\ [Next]_vars => Inv'
BY TypeStep, WhereStep, ListStep, WalkStep DEF Inv

LEMMA InvImpliesListSafe == Inv => ListSafe
<1> SUFFICES ASSUME Inv PROVE ListSafe
  OBVIOUS
<1> USE ContextsAssumption DEF ContextsAssumption, Inv
<1>1. ListExact
  <2>1. next[Root] = Root => Listed = {}
    <3>1. next[Root] = Root => next[Root] \in {} \cup {Root} /\ ClosedIn({})
      BY DEF ClosedIn
    <3> QED
      BY <3>1, AllAhead
  <2>2. Listed = {} => next[Root] = Root
    BY DEF Linked
  <2>3. \A c \in Listed \cup {Root} : next[c] \in Listed \cup {Root} /\ prev[next[c]] = c
    BY DEF Linked
  <2> QED
    BY <2>1, <2>2, <2>3 DEF ListExact
<1>2. NoFreedContext
  <2> SUFFICES ASSUME ~vetoed, NEW c \in Contexts, pc[c] = "mark"
               PROVE  Current(c) \in alive \cup {Root}
    BY DEF NoFreedContext
  <2>1. PICK W \in SUBSET Contexts : Meets(c, W)
    BY DEF Walkable
  <2>2. Listed \subseteq alive
    BY DEF Listed, Where
  <2>3. W \subseteq alive
    BY <2>1, <2>2 DEF Meets, Protected, Where
  <2> QED
    BY <2>1, <2>2, <2>3 DEF Current, Meets, Linked
<1> QED
  BY <1>1, <1>2 DEF ListSafe

\* The inductive invariant holds in every state: the list is doubly linked and
\* whole although removed contexts keep their links (jscntxt.c).
THEOREM InvCorrect == Spec => []Inv
BY InvInit, InvStep, PTL DEF Spec

\* The list of contexts can be walked at any moment, and no collector's
\* iterator points to a freed context unless the embedding has put off the
\* collection of a js_DestroyContext.
THEOREM ListCorrect == Spec => []ListSafe
BY InvCorrect, InvImpliesListSafe, PTL

\* When marking ends the roots of every context have been marked that was in
\* the list all the while, whatever contexts came and went under the iterator.
THEOREM MarkCorrect == Spec => []MarkVisitsAll
<1>1. Inv => MarkVisitsAll
  BY DEF Inv, Marking, MarkVisitsAll
<1> QED
  BY <1>1, InvCorrect, PTL

-----------------------------------------------------------------------------
\* The frames, and the exceptions of either language.
CallFrames == [lang : {"js"}, from : {"host"}, cx : JSContexts]
                \cup [lang : {"js"}, from : {"java"}, cx : JSContexts, saved : {"own", "capture"}, method : DOMAIN Entries,
                      result : {"unset", "null", "void"}]
                \cup [lang : {"java"}, from : {"js"}, cx : JSContexts, old : JSContexts]
                \cup [lang : {"java"}, from : {"host"}]
OwnExceptions == [is : {"own", "error"}, of : Nat]
JSExceptions == [is : {"js"}, of : Nat] \cup [is : {"java"}, of : OwnExceptions]
JavaExceptions == OwnExceptions \cup [is : {"value"}, of : JSExceptions]

CallStates ==
  [stack : Seq(CallFrames), state : {"run", "fail", "thrown", "crashed", "noreport"}, flying : JavaExceptions \cup {None},
   env : JSContexts \cup {0}, errors : Seq([by : Nat, java : JavaExceptions \cup {None}]),
   pending : [JSContexts -> JSExceptions \cup {None}], reporter : [JSContexts -> {"own", "capture"}], clean : BOOLEAN,
   exit : {None} \cup [wrong : BOOLEAN, result : {"unset", "null", "void", "object"}]]

IsEntry(i) == java.stack[i].lang = "js" /\ java.stack[i].from = "java"
IsInvoke(i) == java.stack[i].lang = "java" /\ java.stack[i].from = "js"

\* Who may have called whom, and what the innermost frame is in each state.
StackShape ==
  \A i \in 1 .. Depth :
    /\ IsEntry(i) => i > 1 /\ java.stack[i - 1].lang = "java"
    /\ IsInvoke(i) => i > 1 /\ java.stack[i - 1].lang = "js" /\ java.stack[i - 1].cx = java.stack[i].cx
    /\ java.stack[i].from = "host" /\ i > 1 => java.stack[i].lang = "js" /\ java.stack[i - 1].lang = "js"
StateShape ==
  /\ java.state = "fail" => Depth > 0 /\ TopCall.lang = "js"
  /\ java.state = "thrown" => Depth > 0 /\ TopCall.lang = "java" /\ java.flying # None
  /\ java.state = "crashed" => Depth > 0 /\ IsEntry(Depth) /\ java.env = 0 /\ ~ java.clean
  /\ java.state = "noreport" => Depth > 0 /\ TopCall.from # "host"

\* One context serves all frames that cross, as long as nothing went astray.
OneDefault ==
  /\ java.env = 0 => \A i \in 1 .. Depth : ~ IsInvoke(i)
  /\ \A i \in 1 .. Depth : IsInvoke(i) => java.stack[i].old = java.stack[i].cx
  /\ java.clean => \A i \in 1 .. Depth : IsInvoke(i) \/ IsEntry(i) => java.stack[i].cx = DefaultContext(java)

\* An error that is kept is one of a call that has not returned to Java yet.
ErrorsWithin ==
  java.clean => \A k \in 1 .. Len(java.errors), i \in 1 .. Depth : IsEntry(i) =>
                  /\ java.errors[k].by >= i
                  /\ java.errors[k].java # None => By(java.errors[k].java) >= i

\* What failed says why.
FailureKnown ==
  java.clean /\ java.state = "fail" /\ (\E i \in 1 .. Depth : IsEntry(i)) => java.pending[TopCall.cx] # None \/ java.errors # <<>>

CallsInv == /\ java \in CallStates
            /\ StackShape /\ StateShape /\ OneDefault /\ ReporterExact /\ ErrorsWithin /\ FailureKnown
            /\ ExceptionsOnTheirWay /\ ThrownToJava

-----------------------------------------------------------------------------
LEMMA EntriesOfMethods ==
  ASSUME NEW m \in DOMAIN Entries
  PROVE  /\ Entries[m].result \in {"unset", "null", "void"}
         /\ Entries[m].named \in BOOLEAN /\ Entries[m].fallback \in BOOLEAN
<1>1. m \in {"getMember", "getSlot", "setMember", "setSlot", "removeMember", "call", "eval", "toString", "getWindow"}
  BY DEF Entries
<1> DEFINE Kind == [named : BOOLEAN, result : {"unset", "null", "void"}, fallback : BOOLEAN]
<1>2. \A n \in BOOLEAN, r \in {"unset", "null", "void"} : Entry(n, r) \in Kind
  BY DEF Entry
<1>3. [Entry(FALSE, "null") EXCEPT !.fallback = TRUE] \in Kind
  BY <1>2
<1> HIDE DEF Kind
<1>4. /\ Entries.getMember = Entry(TRUE, "unset") /\ Entries.getSlot = Entry(FALSE, "unset") /\ Entries.setMember = Entry(TRUE, "void")
      /\ Entries.setSlot = Entry(FALSE, "void") /\ Entries.removeMember = Entry(TRUE, "void") /\ Entries.call = Entry(TRUE, "null")
      /\ Entries.eval = Entry(TRUE, "null") /\ Entries.toString = [Entry(FALSE, "null") EXCEPT !.fallback = TRUE]
      /\ Entries.getWindow = Entry(FALSE, "null")
  BY DEF Entries
<1>5. Entries[m] \in Kind
  BY <1>1, <1>2, <1>3, <1>4
<1> QED
  BY <1>5 DEF Kind

\* Whom an exception is of does not change as it crosses.
LEMMA ExceptionsCross ==
  /\ \A p \in JSExceptions : By(p) \in Nat /\ p # None /\ Thrown("value", p) \in JavaExceptions /\ By(Thrown("value", p)) = By(p)
  /\ \A e \in JavaExceptions : By(e) \in Nat /\ e # None /\ ValueOf(e) \in JSExceptions /\ By(ValueOf(e)) = By(e)
  /\ \A n \in Nat : /\ Thrown("js", n) \in JSExceptions /\ By(Thrown("js", n)) = n
                    /\ Thrown("own", n) \in JavaExceptions /\ By(Thrown("own", n)) = n
                    /\ Thrown("error", n) \in JavaExceptions /\ By(Thrown("error", n)) = n
<1> USE DEF By, Unwrapped, Thrown, None, JSExceptions, JavaExceptions, OwnExceptions, ValueOf
<1>1. ASSUME NEW p \in JSExceptions
      PROVE  By(p) \in Nat /\ p # None /\ Thrown("value", p) \in JavaExceptions /\ By(Thrown("value", p)) = By(p)
  <2>1. CASE p \in [is : {"js"}, of : Nat]
    BY <2>1
  <2>2. CASE p \in [is : {"java"}, of : OwnExceptions]
    BY <2>2
  <2> QED
    BY <2>1, <2>2
<1>2. ASSUME NEW e \in JavaExceptions
      PROVE  By(e) \in Nat /\ e # None /\ ValueOf(e) \in JSExceptions /\ By(ValueOf(e)) = By(e)
  <2>1. CASE e \in OwnExceptions
    BY <2>1
  <2>2. CASE e \in [is : {"value"}, of : JSExceptions]
    <3>1. e.is = "value" /\ e.of \in JSExceptions /\ e # None /\ ValueOf(e) = e.of
      BY <2>2
    <3>2. By(e) = By(e.of)
      <4>1. CASE e.of \in [is : {"js"}, of : Nat]
        BY <3>1, <4>1
      <4>2. CASE e.of \in [is : {"java"}, of : OwnExceptions]
        BY <3>1, <4>2
      <4> QED
        BY <3>1, <4>1, <4>2
    <3> QED
      BY <1>1, <3>1, <3>2
  <2> QED
    BY <2>1, <2>2
<1>3. \A n \in Nat : /\ Thrown("js", n) \in JSExceptions /\ By(Thrown("js", n)) = n
                     /\ Thrown("own", n) \in JavaExceptions /\ By(Thrown("own", n)) = n
                     /\ Thrown("error", n) \in JavaExceptions /\ By(Thrown("error", n)) = n
  OBVIOUS
<1> QED
  BY <1>1, <1>2, <1>3

\* What reporting an error changes.
LEMMA ErrorReported ==
  ASSUME NEW j \in CallStates, NEW cx \in JSContexts, NEW depth \in Nat
  PROVE  LET r == JS_ReportError(j, cx, depth)
         IN /\ r \in CallStates
            /\ r.stack = j.stack /\ r.state = j.state /\ r.pending = j.pending /\ r.reporter = j.reporter /\ r.exit = j.exit
            /\ j.reporter[cx] = "capture" =>
                 /\ r.errors = <<[by |-> depth, java |-> j.flying]>> \o j.errors /\ r.flying = None /\ r.env = cx
                 /\ r.clean = (j.clean /\ (InJava(j) => cx = DefaultContext(j)))
            /\ j.reporter[cx] # "capture" =>
                 /\ r.errors = j.errors /\ r.flying = j.flying /\ r.env = j.env
                 /\ r.clean = (j.clean /\ \A c \in JSContexts : j.reporter[c] = "own")
<1> DEFINE r == JS_ReportError(j, cx, depth)
<1>1. CASE j.reporter[cx] = "capture"
  <2> DEFINE m == jsj_MapJSContextToJSJThread(j, cx)
             error == [by |-> depth, java |-> j.flying]
  <2>1. m = [j EXCEPT !.env = cx, !.clean = @ /\ (InJava(j) => cx = DefaultContext(j))]
    BY DEF jsj_MapJSContextToJSJThread
  <2>2. r = [m EXCEPT !.errors = <<error>> \o m.errors, !.flying = None]
    BY <1>1, <2>1 DEF JS_ReportError, capture_js_error_reports_for_java, Captured, CallStates
  <2>3. /\ m \in CallStates /\ m.errors = j.errors /\ m.stack = j.stack /\ m.state = j.state /\ m.pending = j.pending
        /\ m.reporter = j.reporter /\ m.exit = j.exit /\ m.env = cx
        /\ m.clean = (j.clean /\ (InJava(j) => cx = DefaultContext(j)))
    BY <2>1 DEF CallStates
  <2>4. <<error>> \o m.errors \in Seq([by : Nat, java : JavaExceptions \cup {None}])
    BY <2>3 DEF CallStates
  <2> HIDE DEF m, error
  <2>5. /\ r \in CallStates /\ r.errors = <<error>> \o m.errors /\ r.flying = None /\ r.stack = m.stack /\ r.state = m.state
        /\ r.pending = m.pending /\ r.reporter = m.reporter /\ r.exit = m.exit /\ r.env = m.env /\ r.clean = m.clean
    BY <2>2, <2>3, <2>4 DEF CallStates
  <2> QED
    BY <1>1, <2>3, <2>5 DEF error
<1>2. CASE j.reporter[cx] # "capture"
  BY <1>2 DEF JS_ReportError, CallStates
<1> QED
  BY <1>1, <1>2

-----------------------------------------------------------------------------
LEMMA FrameForms ==
  ASSUME NEW f \in CallFrames
  PROVE  /\ f.lang \in {"js", "java"} /\ f.from \in {"js", "java", "host"} /\ f.from # f.lang
         /\ f.lang = "js" => f.cx \in JSContexts
         /\ f.lang = "js" /\ f.from = "java" => /\ f.saved \in {"own", "capture"} /\ f.method \in DOMAIN Entries
                                                /\ f.result \in {"unset", "null", "void"}
         /\ f.lang = "java" /\ f.from = "js" => f.cx \in JSContexts /\ f.old \in JSContexts
BY DEF CallFrames

\* The frames that stay, an entry perhaps with another result.
Alike(n) ==
  \A i \in 1 .. n :
    \/ java'.stack[i] = java.stack[i]
    \/ /\ java.stack[i].lang = "js" /\ java'.stack[i].lang = "js" /\ java.stack[i].from = "java" /\ java'.stack[i].from = "java"
       /\ java'.stack[i].cx = java.stack[i].cx /\ java'.stack[i].saved = java.stack[i].saved

LEMMA FramesAlike ==
  ASSUME NEW n \in Nat, Alike(n)
  PROVE  /\ \A i \in 1 .. n : (IsEntry(i)' <=> IsEntry(i)) /\ (IsInvoke(i)' <=> IsInvoke(i))
         /\ \A c \in JSContexts, m \in 0 .. n : (Entering(c, m)' <=> Entering(c, m)) /\ ReporterWithin(c, m)' = ReporterWithin(c, m)
<1>1. \A i \in 1 .. n : (IsEntry(i)' <=> IsEntry(i)) /\ (IsInvoke(i)' <=> IsInvoke(i))
  BY DEF IsEntry, IsInvoke, Alike
<1>2. \A c \in JSContexts, m \in 0 .. n : Entering(c, m)' <=> Entering(c, m)
  BY DEF Entering, Alike
<1>3. \A c \in JSContexts, m \in 0 .. n : ReporterWithin(c, m)' = ReporterWithin(c, m)
  BY <1>2 DEF ReporterWithin
<1> QED
  BY <1>1, <1>2, <1>3

LEMMA SavedKept ==
  ASSUME CallsInv, NEW n \in Nat, n <= Depth, Alike(n), NEW i \in 1 .. n, java'.stack[i].lang = "js", java'.stack[i].from = "java"
  PROVE  (java.stack[i].saved = ReporterWithin(java.stack[i].cx, i - 1))'
<1>0. Depth \in Nat /\ Depth = Len(java.stack) /\ i \in 1 .. Depth
  BY DEF CallsInv, CallStates, Depth
<1>1. /\ java.stack[i].lang = "js" /\ java.stack[i].from = "java" /\ java'.stack[i].cx = java.stack[i].cx
      /\ java'.stack[i].saved = java.stack[i].saved
  BY DEF Alike
<1>2. PICK c \in JSContexts : c = java.stack[i].cx
  BY <1>0, <1>1, FrameForms DEF CallsInv, CallStates
<1>3. java.stack[i].saved = ReporterWithin(c, i - 1)
  BY <1>0, <1>1, <1>2 DEF CallsInv, ReporterExact
<1>4. ReporterWithin(c, i - 1)' = ReporterWithin(c, i - 1)
  BY FramesAlike
<1>5. ReporterWithin(java.stack[i].cx, i - 1)' = ReporterWithin(c, i - 1)'
  BY <1>1, <1>2 DEF ReporterWithin, Entering
<1> QED
  BY <1>1, <1>3, <1>4, <1>5

LEMMA StackKept ==
  ASSUME CallsInv, java' \in CallStates, Depth' = Depth, Alike(Depth), java'.reporter = java.reporter
  PROVE  StackShape' /\ ReporterExact'
<1>1. Depth \in Nat /\ Depth = Len(java.stack)
  BY DEF CallsInv, CallStates, Depth
<1>2. /\ \A i \in 1 .. Depth : (IsEntry(i)' <=> IsEntry(i)) /\ (IsInvoke(i)' <=> IsInvoke(i))
      /\ \A c \in JSContexts, m \in 0 .. Depth : ReporterWithin(c, m)' = ReporterWithin(c, m)
  BY <1>1, FramesAlike
<1>3. StackShape'
  BY <1>1, <1>2 DEF CallsInv, StackShape, Alike
<1>4. \A cx \in JSContexts : java'.reporter[cx] = ReporterWithin(cx, Depth)'
  BY <1>1, <1>2 DEF CallsInv, ReporterExact
<1> QED
  BY <1>1, <1>3, <1>4, SavedKept DEF ReporterExact

\* A frame is left, and an entry gives back the reporter it found.
LEMMA StackPopped ==
  ASSUME CallsInv, java' \in CallStates, Depth > 0, java'.stack = Front(java.stack),
         java'.reporter = IF IsEntry(Depth) THEN [java.reporter EXCEPT ![TopCall.cx] = TopCall.saved] ELSE java.reporter
  PROVE  /\ Depth \in Nat /\ Depth' = Depth - 1 /\ Alike(Depth - 1)
         /\ \A i \in 1 .. Depth - 1 : java'.stack[i] = java.stack[i]
         /\ StackShape' /\ ReporterExact'
<1>1. Depth \in Nat /\ Depth = Len(java.stack) /\ java.stack \in Seq(CallFrames)
  BY DEF CallsInv, CallStates, Depth
<1>2. /\ Len(java'.stack) = Depth - 1
      /\ \A i \in 1 .. Depth - 1 : java'.stack[i] = java.stack[i]
  BY <1>1, SubSeqProperties DEF Front
<1>3. Depth' = Depth - 1 /\ Alike(Depth - 1)
  BY <1>2 DEF Depth, Alike
<1>4. /\ \A i \in 1 .. Depth - 1 : (IsEntry(i)' <=> IsEntry(i)) /\ (IsInvoke(i)' <=> IsInvoke(i))
      /\ \A c \in JSContexts, m \in 0 .. Depth - 1 : ReporterWithin(c, m)' = ReporterWithin(c, m)
  BY <1>1, <1>3, FramesAlike
<1>5. StackShape'
  <2> SUFFICES ASSUME NEW i \in 1 .. Depth - 1
               PROVE  (/\ IsEntry(i) => i > 1 /\ java.stack[i - 1].lang = "java"
                       /\ IsInvoke(i) => i > 1 /\ java.stack[i - 1].lang = "js" /\ java.stack[i - 1].cx = java.stack[i].cx
                       /\ java.stack[i].from = "host" /\ i > 1 => java.stack[i].lang = "js" /\ java.stack[i - 1].lang = "js")'
    BY <1>3 DEF StackShape
  <2>1. i \in 1 .. Depth /\ (i > 1 => i - 1 \in 1 .. Depth - 1)
    BY <1>1
  <2>2. java'.stack[i] = java.stack[i] /\ (i > 1 => java'.stack[i - 1] = java.stack[i - 1])
    BY <1>2, <2>1
  <2> QED
    BY <1>4, <2>1, <2>2 DEF CallsInv, StackShape
<1>6. ASSUME NEW c \in JSContexts
      PROVE  (java.reporter[c] = ReporterWithin(c, Depth))'
  <2>1. ReporterWithin(c, Depth)' = ReporterWithin(c, Depth - 1)
    BY <1>1, <1>3, <1>4
  <2>2. TopCall \in CallFrames /\ TopCall = java.stack[Depth]
    BY <1>1 DEF TopCall
  <2>3. java.reporter[c] = ReporterWithin(c, Depth) /\ java.reporter \in [JSContexts -> {"own", "capture"}]
    BY DEF CallsInv, ReporterExact, CallStates
  <2>4. CASE IsEntry(Depth) /\ TopCall.cx = c
    <3>1. TopCall.saved = ReporterWithin(c, Depth - 1)
      BY <1>1, <2>2, <2>4 DEF CallsInv, ReporterExact, IsEntry
    <3> QED
      BY <2>1, <2>3, <2>4, <3>1
  <2>5. CASE ~ (IsEntry(Depth) /\ TopCall.cx = c)
    <3>1. Entering(c, Depth) <=> Entering(c, Depth - 1)
      BY <1>1, <2>2, <2>5 DEF Entering, IsEntry
    <3>2. ReporterWithin(c, Depth) = ReporterWithin(c, Depth - 1)
      BY <3>1 DEF ReporterWithin
    <3>3. java'.reporter[c] = java.reporter[c]
      BY <2>3, <2>5
    <3> QED
      BY <2>1, <2>3, <3>2, <3>3
  <2> QED
    BY <2>4, <2>5
<1>7. ASSUME NEW i \in 1 .. Depth - 1, java'.stack[i].lang = "js", java'.stack[i].from = "java"
      PROVE  (java.stack[i].saved = ReporterWithin(java.stack[i].cx, i - 1))'
  <2>0. Depth - 1 \in Nat
    BY <1>1
  <2>1. PICK n \in Nat : n = Depth - 1
    BY <2>0
  <2>2. n <= Depth /\ Alike(n) /\ i \in 1 .. n
    BY <1>1, <1>3, <2>1
  <2> QED
    BY <1>7, <2>2, SavedKept
<1>8. ReporterExact'
  BY <1>3, <1>6, <1>7 DEF ReporterExact
<1> QED
  BY <1>1, <1>2, <1>3, <1>5, <1>8

\* A frame is entered; an entry from Java has the errors kept.
LEMMA StackPushed ==
  ASSUME CallsInv, java' \in CallStates, NEW f \in CallFrames, java'.stack = Append(java.stack, f),
         f.lang = "js" /\ f.from = "java" => /\ Depth > 0 /\ TopCall.lang = "java" /\ f.saved = java.reporter[f.cx]
                                            /\ java'.reporter = [java.reporter EXCEPT ![f.cx] = "capture"],
         ~ (f.lang = "js" /\ f.from = "java") => java'.reporter = java.reporter,
         f.lang = "java" /\ f.from = "js" => Depth > 0 /\ TopCall.lang = "js" /\ f.cx = TopCall.cx,
         f.from = "host" /\ Depth > 0 => f.lang = "js" /\ TopCall.lang = "js"
  PROVE  /\ Depth \in Nat /\ Depth' = Depth + 1 /\ Alike(Depth)
         /\ (\A i \in 1 .. Depth : java'.stack[i] = java.stack[i]) /\ TopCall' = f
         /\ StackShape' /\ ReporterExact'
<1>1. Depth \in Nat /\ Depth = Len(java.stack) /\ java.stack \in Seq(CallFrames)
  BY DEF CallsInv, CallStates, Depth
<1>2. /\ Len(java'.stack) = Depth + 1 /\ java'.stack[Depth + 1] = f
      /\ \A i \in 1 .. Depth : java'.stack[i] = java.stack[i]
  BY <1>1, AppendProperties
<1>3. Depth' = Depth + 1 /\ Alike(Depth) /\ TopCall' = f
  BY <1>2 DEF Depth, Alike, TopCall
<1>4. /\ \A i \in 1 .. Depth : (IsEntry(i)' <=> IsEntry(i)) /\ (IsInvoke(i)' <=> IsInvoke(i))
      /\ \A c \in JSContexts, m \in 0 .. Depth : ReporterWithin(c, m)' = ReporterWithin(c, m)
  BY <1>1, <1>3, FramesAlike
<1>n. PICK n \in Nat : n = Depth + 1
  BY <1>1
<1>5. IsEntry(n)' <=> f.lang = "js" /\ f.from = "java"
  BY <1>1, <1>2, <1>n DEF IsEntry
<1>6. IsInvoke(n)' <=> f.lang = "java" /\ f.from = "js"
  BY <1>1, <1>2, <1>n DEF IsInvoke
<1>7. StackShape'
  <2> SUFFICES ASSUME NEW i \in 1 .. Depth + 1
               PROVE  (/\ IsEntry(i) => i > 1 /\ java.stack[i - 1].lang = "java"
                       /\ IsInvoke(i) => i > 1 /\ java.stack[i - 1].lang = "js" /\ java.stack[i - 1].cx = java.stack[i].cx
                       /\ java.stack[i].from = "host" /\ i > 1 => java.stack[i].lang = "js" /\ java.stack[i - 1].lang = "js")'
    BY <1>3 DEF StackShape
  <2>1. CASE i \in 1 .. Depth
    BY <1>1, <1>2, <1>4, <2>1 DEF CallsInv, StackShape
  <2>2. CASE i = Depth + 1
    <3>1. i = n /\ (i > 1 => java'.stack[i - 1] = TopCall /\ Depth > 0) /\ java'.stack[i] = f
      BY <1>1, <1>2, <1>n, <2>2 DEF TopCall
    <3>2. (IsEntry(i)' => f.lang = "js" /\ f.from = "java") /\ (IsInvoke(i)' => f.lang = "java" /\ f.from = "js")
      BY <1>5, <1>6, <3>1
    <3>3. Depth > 0 => i > 1
      BY <1>1, <2>2
    <3> QED
      BY <3>1, <3>2, <3>3
  <2> QED
    BY <1>1, <2>1, <2>2
<1>8. ASSUME NEW c \in JSContexts
      PROVE  (java.reporter[c] = ReporterWithin(c, Depth))'
  <2>1. java.reporter[c] = ReporterWithin(c, Depth) /\ java.reporter \in [JSContexts -> {"own", "capture"}]
    BY DEF CallsInv, ReporterExact, CallStates
  <2>2. Entering(c, Depth)' <=> Entering(c, Depth) \/ (f.lang = "js" /\ f.from = "java" /\ f.cx = c)
    BY <1>1, <1>2, <1>3 DEF Entering
  <2> QED
    BY <2>1, <2>2 DEF ReporterWithin
<1>9. ASSUME NEW i \in 1 .. Depth', java'.stack[i].lang = "js", java'.stack[i].from = "java"
      PROVE  (java.stack[i].saved = ReporterWithin(java.stack[i].cx, i - 1))'
  <2>1. CASE i \in 1 .. Depth
    BY <1>1, <1>3, <1>9, <2>1, SavedKept
  <2>2. CASE i = Depth + 1
    <3>1. PICK c \in JSContexts : c = f.cx
      BY <1>2, <1>9, <2>2, FrameForms
    <3>2. java'.stack[i].saved = java.reporter[c] /\ java'.stack[i].cx = c
      BY <1>2, <1>9, <2>2, <3>1
    <3>3. java.reporter[c] = ReporterWithin(c, Depth)
      BY DEF CallsInv, ReporterExact
    <3>4. ReporterWithin(c, i - 1)' = ReporterWithin(c, Depth)
      BY <1>1, <1>4, <2>2
    <3>5. ReporterWithin(java.stack[i].cx, i - 1)' = ReporterWithin(c, i - 1)'
      BY <3>2 DEF ReporterWithin, Entering
    <3> QED
      BY <3>2, <3>3, <3>4, <3>5
  <2> QED
    BY <1>1, <1>3, <2>1, <2>2
<1> QED
  BY <1>1, <1>2, <1>3, <1>7, <1>8, <1>9 DEF ReporterExact

\* The default context stays right when it stays, or when nothing that is
\* called through Java finds it changed.
LEMMA DefaultBelow ==
  ASSUME CallsInv, java' \in CallStates, NEW n \in Nat, n <= Depth, Alike(n), java'.clean => java.clean,
         \/ java'.env = java.env
         \/ /\ java'.env \in JSContexts
            /\ java'.clean => ((\E i \in 1 .. n : java.stack[i].lang = "java") => java'.env = DefaultContext(java))
  PROVE  /\ java'.env = 0 => \A i \in 1 .. n : ~ IsInvoke(i)'
         /\ \A i \in 1 .. n : IsInvoke(i)' => java'.stack[i].old = java'.stack[i].cx
         /\ java'.clean => \A i \in 1 .. n : IsInvoke(i)' \/ IsEntry(i)' => java'.stack[i].cx = DefaultContext(java')
<1>1. \A i \in 1 .. n : (IsEntry(i)' <=> IsEntry(i)) /\ (IsInvoke(i)' <=> IsInvoke(i))
  BY FramesAlike
<1>2. \A i \in 1 .. n : i \in 1 .. Depth
  BY DEF CallsInv, CallStates, Depth
<1>3. java'.env = 0 => \A i \in 1 .. n : ~ IsInvoke(i)'
  BY <1>1, <1>2, CallsAssumption DEF CallsInv, OneDefault
<1>4. \A i \in 1 .. n : IsInvoke(i)' => java'.stack[i].old = java'.stack[i].cx
  BY <1>1, <1>2 DEF CallsInv, OneDefault, Alike, IsInvoke
<1>5. ASSUME java'.clean, NEW i \in 1 .. n, IsInvoke(i)' \/ IsEntry(i)'
      PROVE  java'.stack[i].cx = DefaultContext(java')
  <2>1. java'.stack[i].cx = DefaultContext(java)
    BY <1>1, <1>2, <1>5 DEF CallsInv, OneDefault, Alike
  <2>2. \E k \in 1 .. n : java.stack[k].lang = "java"
    <3>1. CASE IsInvoke(i)
      BY <3>1 DEF IsInvoke
    <3>2. CASE IsEntry(i)
      <4>1. i > 1 /\ java.stack[i - 1].lang = "java"
        BY <1>2, <3>2 DEF CallsInv, StackShape
      <4> QED
        BY <4>1
    <3> QED
      BY <1>1, <1>5, <3>1, <3>2
  <2>3. java'.env = java.env \/ (java'.env \in JSContexts /\ java'.env = DefaultContext(java))
    BY <1>5, <2>2
  <2> QED
    BY <2>1, <2>3, CallsAssumption DEF DefaultContext
<1> QED
  BY <1>3, <1>4, <1>5

LEMMA DefaultKept ==
  ASSUME CallsInv, java' \in CallStates, NEW n \in Nat, n <= Depth, Depth' = n, Alike(n), java'.clean => java.clean,
         \/ java'.env = java.env
         \/ /\ java'.env \in JSContexts
            /\ java'.clean => ((\E i \in 1 .. n : java.stack[i].lang = "java") => java'.env = DefaultContext(java))
  PROVE  OneDefault'
<1>1. DefaultContext(java)' = DefaultContext(java')
  BY DEF DefaultContext
<1> QED
  BY <1>1, DefaultBelow DEF OneDefault

\* The errors kept are those kept before, or of the innermost frame.
LEMMA ErrorsKept ==
  ASSUME CallsInv, java' \in CallStates, NEW n \in Nat, n <= Depth, Depth' = n, Alike(n), java'.clean => java.clean,
         java'.clean => \A k \in 1 .. Len(java'.errors) :
                          \/ \E m \in 1 .. Len(java.errors) : java'.errors[k] = java.errors[m]
                          \/ java'.errors[k].by >= n /\ (java'.errors[k].java # None => By(java'.errors[k].java) >= n)
  PROVE  ErrorsWithin'
<1>1. \A i \in 1 .. n : IsEntry(i)' => IsEntry(i) /\ i \in 1 .. Depth
  BY FramesAlike DEF CallsInv, CallStates, Depth
<1> SUFFICES ASSUME java'.clean, NEW k \in 1 .. Len(java'.errors), NEW i \in 1 .. n, IsEntry(i)'
             PROVE  (/\ java.errors[k].by >= i
                     /\ java.errors[k].java # None => By(java.errors[k].java) >= i)'
  BY DEF ErrorsWithin
<1>2. CASE \E m \in 1 .. Len(java.errors) : java'.errors[k] = java.errors[m]
  BY <1>1, <1>2 DEF CallsInv, ErrorsWithin, By, Unwrapped
<1>3. CASE java'.errors[k].by >= n /\ (java'.errors[k].java # None => By(java'.errors[k].java) >= n)
  <2>0. java'.errors \in Seq([by : Nat, java : JavaExceptions \cup {None}])
    BY DEF CallStates
  <2>1. java'.errors[k] \in [by : Nat, java : JavaExceptions \cup {None}]
    BY <2>0, ElementOfSeq
  <2>2. java'.errors[k].java # None => By(java'.errors[k].java) \in Nat
    BY <2>1, ExceptionsCross
  <2>3. By(java.errors[k].java)' = By(java'.errors[k].java)
    BY DEF By, Unwrapped
  <2> QED
    BY <1>3, <2>1, <2>2, <2>3
<1> QED
  BY <1>2, <1>3

-----------------------------------------------------------------------------
\* What is known of every state.
LEMMA StateForms ==
  ASSUME CallsInv
  PROVE  /\ java \in CallStates /\ Depth \in Nat /\ Depth = Len(java.stack) /\ java.stack \in Seq(CallFrames)
         /\ java.state \in {"run", "fail", "thrown", "crashed", "noreport"} /\ java.flying \in JavaExceptions \cup {None}
         /\ java.env \in JSContexts \cup {0} /\ java.clean \in BOOLEAN /\ DefaultContext(java) \in JSContexts
         /\ java.pending \in [JSContexts -> JSExceptions \cup {None}] /\ java.reporter \in [JSContexts -> {"own", "capture"}]
         /\ Depth > 0 => TopCall \in CallFrames /\ TopCall = java.stack[Depth]
         /\ Depth > 0 /\ TopCall.lang = "js" => TopCall.cx \in JSContexts
BY CallsAssumption, FrameForms DEF CallsInv, CallStates, Depth, TopCall, DefaultContext

\* What goes on in the innermost frame leaves most as it is.
LEMMA FrameGoesOn ==
  ASSUME CallsInv, java' \in CallStates, java'.stack = java.stack, java'.reporter = java.reporter, java'.errors = java.errors,
         java'.env = java.env, java'.clean => java.clean
  PROVE  /\ StackShape' /\ ReporterExact' /\ OneDefault' /\ ErrorsWithin' /\ Depth' = Depth /\ TopCall' = TopCall
         /\ \A c \in JSContexts : Entering(c, Depth)' <=> Entering(c, Depth)
         /\ \A i \in 1 .. Depth : IsEntry(i)' <=> IsEntry(i)
<1>1. Depth' = Depth /\ TopCall' = TopCall /\ Alike(Depth) /\ Depth \in Nat
  BY StateForms DEF Depth, TopCall, Alike
<1>2. PICK n \in Nat : n = Depth
  BY <1>1
<1>3. StackShape' /\ ReporterExact'
  BY <1>1, StackKept
<1>4. OneDefault' /\ ErrorsWithin'
  <2>1. \A k \in 1 .. Len(java'.errors) : \E m \in 1 .. Len(java.errors) : java'.errors[k] = java.errors[m]
    OBVIOUS
  <2>2. Depth' = n /\ n <= Depth /\ Alike(n)
    BY <1>1, <1>2
  <2> QED
    BY <1>3, <2>1, <2>2, DefaultKept, ErrorsKept
<1>5. \A c \in JSContexts : Entering(c, Depth)' <=> Entering(c, Depth)
  BY <1>1 DEF Entering
<1>6. \A i \in 1 .. Depth : IsEntry(i)' <=> IsEntry(i)
  BY DEF IsEntry
<1> QED
  BY <1>1, <1>3, <1>4, <1>5, <1>6

LEMMA ScriptThrows == CallsInv /\ Throw => CallsInv'
<1> SUFFICES ASSUME CallsInv, Throw PROVE CallsInv'
  OBVIOUS
<1>0. /\ Depth \in Nat /\ Depth > 0 /\ TopCall.lang = "js" /\ java.state = "run" /\ TopCall.cx \in JSContexts
      /\ java' = [java EXCEPT !.pending[TopCall.cx] = Thrown("js", Depth), !.state = "fail", !.exit = None]
  BY StateForms DEF Throw, In, Goes
<1>1. /\ java' \in CallStates /\ java'.stack = java.stack /\ java'.reporter = java.reporter /\ java'.errors = java.errors
      /\ java'.env = java.env /\ java'.clean = java.clean /\ java'.flying = java.flying /\ java'.state = "fail"
      /\ java'.pending = [java.pending EXCEPT ![TopCall.cx] = Thrown("js", Depth)] /\ java'.exit = None
  BY <1>0, ExceptionsCross, StateForms DEF CallStates
<1>2. /\ StackShape' /\ ReporterExact' /\ OneDefault' /\ ErrorsWithin' /\ Depth' = Depth /\ TopCall' = TopCall
      /\ \A c \in JSContexts : Entering(c, Depth)' <=> Entering(c, Depth)
  BY <1>1, FrameGoesOn
<1>3. StateShape'
  BY <1>0, <1>1, <1>2 DEF StateShape
<1>4. java'.pending[TopCall.cx] = Thrown("js", Depth) /\ Thrown("js", Depth) # None /\ By(Thrown("js", Depth)) = Depth
  BY <1>0, <1>1, ExceptionsCross, StateForms
<1>5. FailureKnown'
  BY <1>2, <1>4 DEF FailureKnown
<1>6. ExceptionsOnTheirWay'
  <2> SUFFICES ASSUME java'.clean
               PROVE  /\ java'.errors # <<>> => \E cx \in JSContexts : Entering(cx, Depth)'
                      /\ \A cx \in JSContexts : java'.pending[cx] # None => TopCall.cx = cx /\ By(java'.pending[cx]) >= Depth
                      /\ java'.flying = None
    BY <1>1, <1>2 DEF ExceptionsOnTheirWay, By, Unwrapped
  <2>1. /\ java.errors # <<>> => \E cx \in JSContexts : Entering(cx, Depth)
        /\ \A cx \in JSContexts : java.pending[cx] = None
        /\ java.flying = None
    BY <1>0, <1>1 DEF CallsInv, ExceptionsOnTheirWay
  <2> QED
    BY <1>0, <1>1, <1>2, <1>4, <2>1, StateForms
<1>7. ThrownToJava'
  BY <1>1 DEF ThrownToJava
<1> QED
  BY <1>1, <1>2, <1>3, <1>5, <1>6, <1>7 DEF CallsInv

LEMMA ScriptCatches == CallsInv /\ Catch => CallsInv'
<1> SUFFICES ASSUME CallsInv, Catch PROVE CallsInv'
  OBVIOUS
<1>0. /\ Depth \in Nat /\ Depth > 0 /\ TopCall.lang = "js" /\ java.state = "fail" /\ TopCall.cx \in JSContexts
      /\ java' = [java EXCEPT !.pending[TopCall.cx] = None, !.state = "run", !.exit = None]
  BY StateForms DEF Catch, In, Goes
<1>1. /\ java' \in CallStates /\ java'.stack = java.stack /\ java'.reporter = java.reporter /\ java'.errors = java.errors
      /\ java'.env = java.env /\ java'.clean = java.clean /\ java'.flying = java.flying /\ java'.state = "run"
      /\ java'.pending = [java.pending EXCEPT ![TopCall.cx] = None] /\ java'.exit = None
  BY <1>0, StateForms DEF CallStates
<1>2. /\ StackShape' /\ ReporterExact' /\ OneDefault' /\ ErrorsWithin' /\ Depth' = Depth /\ TopCall' = TopCall
      /\ \A c \in JSContexts : Entering(c, Depth)' <=> Entering(c, Depth)
  BY <1>1, FrameGoesOn
<1>3. StateShape' /\ FailureKnown' /\ ThrownToJava'
  BY <1>1 DEF StateShape, FailureKnown, ThrownToJava
<1>4. ExceptionsOnTheirWay'
  <2> SUFFICES ASSUME java'.clean
               PROVE  /\ java'.errors # <<>> => \E cx \in JSContexts : Entering(cx, Depth)'
                      /\ \A cx \in JSContexts : java'.pending[cx] = None
                      /\ java'.flying = None
    BY <1>1 DEF ExceptionsOnTheirWay
  <2>1. /\ java.errors # <<>> => \E cx \in JSContexts : Entering(cx, Depth)
        /\ \A cx \in JSContexts : java.pending[cx] # None => cx = TopCall.cx
        /\ java.flying = None
    BY <1>0, <1>1 DEF CallsInv, ExceptionsOnTheirWay
  <2> QED
    BY <1>0, <1>1, <1>2, <2>1, StateForms
<1> QED
  BY <1>1, <1>2, <1>3, <1>4 DEF CallsInv

LEMMA JavaGoesOn == CallsInv /\ (JavaThrows \/ JavaCatches) => CallsInv'
<1> SUFFICES ASSUME CallsInv, JavaThrows \/ JavaCatches PROVE CallsInv'
  OBVIOUS
<1>0. /\ Depth \in Nat /\ Depth > 0 /\ TopCall.lang = "java" /\ java.state \in {"run", "thrown"}
      /\ \/ java' = [java EXCEPT !.state = "thrown", !.flying = Thrown("own", Depth), !.exit = None]
         \/ java' = [java EXCEPT !.state = "run", !.flying = None, !.exit = None]
  BY StateForms DEF JavaThrows, JavaCatches, In, Goes, Throwing
<1>1. /\ java' \in CallStates /\ java'.stack = java.stack /\ java'.reporter = java.reporter /\ java'.errors = java.errors
      /\ java'.env = java.env /\ java'.clean = java.clean /\ java'.pending = java.pending /\ java'.exit = None
      /\ \/ java'.state = "thrown" /\ java'.flying = Thrown("own", Depth)
         \/ java'.state = "run" /\ java'.flying = None
  BY <1>0, ExceptionsCross, StateForms DEF CallStates
<1>2. /\ StackShape' /\ ReporterExact' /\ OneDefault' /\ ErrorsWithin' /\ Depth' = Depth /\ TopCall' = TopCall
      /\ \A c \in JSContexts : Entering(c, Depth)' <=> Entering(c, Depth)
  BY <1>1, FrameGoesOn
<1>3. StateShape' /\ FailureKnown' /\ ThrownToJava'
  BY <1>0, <1>1, <1>2, ExceptionsCross DEF StateShape, FailureKnown, ThrownToJava
<1>4. ExceptionsOnTheirWay'
  <2> SUFFICES ASSUME java'.clean
               PROVE  /\ java'.errors # <<>> => \E cx \in JSContexts : Entering(cx, Depth)'
                      /\ \A cx \in JSContexts : java'.pending[cx] = None
                      /\ java'.state = "thrown" => By(java'.flying) >= Depth
                      /\ java'.state # "thrown" => java'.flying = None
    BY <1>1, <1>2 DEF ExceptionsOnTheirWay, By, Unwrapped
  <2>1. /\ java.errors # <<>> => \E cx \in JSContexts : Entering(cx, Depth)
        /\ \A cx \in JSContexts : java.pending[cx] = None
    BY <1>0, <1>1 DEF CallsInv, ExceptionsOnTheirWay
  <2>2. By(Thrown("own", Depth)) = Depth
    BY <1>0, ExceptionsCross
  <2> QED
    BY <1>0, <1>1, <1>2, <2>1, <2>2
<1> QED
  BY <1>1, <1>2, <1>3, <1>4 DEF CallsInv

LEMMA NoDefault == CallsInv /\ Crash => CallsInv'
<1> SUFFICES ASSUME CallsInv, Crash PROVE CallsInv'
  OBVIOUS
<1>0. /\ Depth \in Nat /\ Depth > 0 /\ TopCall.lang = "js" /\ TopCall.from = "java" /\ TopCall.cx \in JSContexts
      /\ java.env = 0 /\ java' = [java EXCEPT !.state = "crashed", !.clean = FALSE]
  BY StateForms DEF Crash, Returning
<1>1. /\ java' \in CallStates /\ java'.stack = java.stack /\ java'.reporter = java.reporter /\ java'.errors = java.errors
      /\ java'.env = java.env /\ ~ java'.clean /\ java'.state = "crashed"
  BY <1>0, StateForms DEF CallStates
<1>2. /\ StackShape' /\ ReporterExact' /\ OneDefault' /\ ErrorsWithin' /\ Depth' = Depth /\ TopCall' = TopCall
      /\ \A i \in 1 .. Depth : IsEntry(i)' <=> IsEntry(i)
  BY <1>1, FrameGoesOn
<1>3. StateShape'
  <2>1. IsEntry(Depth)'
    BY <1>0, <1>2, <1>1 DEF IsEntry, TopCall
  <2> QED
    BY <1>0, <1>1, <1>2, <2>1 DEF StateShape
<1>4. FailureKnown' /\ ThrownToJava' /\ ExceptionsOnTheirWay'
  BY <1>1 DEF FailureKnown, ThrownToJava, ExceptionsOnTheirWay
<1> QED
  BY <1>1, <1>2, <1>3, <1>4 DEF CallsInv

LEMMA ReportMissing == CallsInv /\ NoReport => CallsInv'
<1> SUFFICES ASSUME CallsInv, NoReport PROVE CallsInv'
  OBVIOUS
<1>0. /\ Depth \in Nat /\ Depth > 0 /\ TopCall.from \in {"java", "js"} /\ java.state \in {"run", "thrown"}
      /\ java' = [java EXCEPT !.state = "noreport", !.flying = None, !.exit = None]
  BY StateForms DEF NoReport, Nameless, In, Goes
<1>1. /\ java' \in CallStates /\ java'.stack = java.stack /\ java'.reporter = java.reporter /\ java'.errors = java.errors
      /\ java'.env = java.env /\ java'.clean = java.clean /\ java'.pending = java.pending /\ java'.exit = None
      /\ java'.state = "noreport" /\ java'.flying = None
  BY <1>0, StateForms DEF CallStates
<1>2. /\ StackShape' /\ ReporterExact' /\ OneDefault' /\ ErrorsWithin' /\ Depth' = Depth /\ TopCall' = TopCall
      /\ \A c \in JSContexts : Entering(c, Depth)' <=> Entering(c, Depth)
  BY <1>1, FrameGoesOn
<1>3. StateShape' /\ FailureKnown' /\ ThrownToJava'
  BY <1>0, <1>1, <1>2 DEF StateShape, FailureKnown, ThrownToJava
<1>4. ExceptionsOnTheirWay'
  BY <1>0, <1>1, <1>2 DEF CallsInv, ExceptionsOnTheirWay
<1> QED
  BY <1>1, <1>2, <1>3, <1>4 DEF CallsInv

\* The reporters tell where errors are kept.
LEMMA ReportersTell ==
  ASSUME CallsInv
  PROVE  /\ \A c \in JSContexts : java.reporter[c] = "capture" <=> Entering(c, Depth)
         /\ \A i \in 1 .. Depth : IsEntry(i) => java.stack[i].cx \in JSContexts /\ java.reporter[java.stack[i].cx] = "capture"
<1>1. \A c \in JSContexts : java.reporter[c] = "capture" <=> Entering(c, Depth)
  BY DEF CallsInv, ReporterExact, ReporterWithin
<1>2. ASSUME NEW i \in 1 .. Depth, IsEntry(i)
      PROVE  java.stack[i].cx \in JSContexts /\ java.reporter[java.stack[i].cx] = "capture"
  <2>1. java.stack[i] \in CallFrames
    BY StateForms
  <2>2. java.stack[i].cx \in JSContexts
    BY <1>2, <2>1, FrameForms DEF IsEntry
  <2>3. Entering(java.stack[i].cx, Depth)
    BY <1>2 DEF Entering, IsEntry
  <2> QED
    BY <1>1, <2>2, <2>3
<1> QED
  BY <1>1, <1>2

\* A script reports an error and fails.
LEMMA ReportsAndFails ==
  ASSUME CallsInv, NEW r, r = JS_ReportError(java, TopCall.cx, Depth), Depth > 0, TopCall.lang = "js", java.state = "run",
         java' \in CallStates, Depth' = Depth, Alike(Depth), java'.reporter = r.reporter, java'.errors = r.errors, java'.env = r.env,
         java'.clean = r.clean, java'.flying = r.flying, java'.pending = r.pending, java'.state = "fail", java'.exit = None
  PROVE  CallsInv'
<1>0. /\ Depth \in Nat /\ Depth > 0 /\ java \in CallStates /\ TopCall \in CallFrames /\ TopCall = java.stack[Depth]
      /\ TopCall.cx \in JSContexts /\ java.reporter \in [JSContexts -> {"own", "capture"}]
  BY StateForms
<1>1. PICK n \in Nat : n = Depth
  BY <1>0
<1>2. PICK cx \in JSContexts : cx = TopCall.cx
  BY <1>0
<1>3. /\ r.pending = java.pending /\ r.reporter = java.reporter
      /\ java.reporter[cx] = "capture" =>
           /\ r.errors = <<[by |-> n, java |-> java.flying]>> \o java.errors /\ r.flying = None /\ r.env = cx
           /\ r.clean = (java.clean /\ (InJava(java) => cx = DefaultContext(java)))
      /\ java.reporter[cx] # "capture" =>
           /\ r.errors = java.errors /\ r.flying = java.flying /\ r.env = java.env
           /\ r.clean = (java.clean /\ \A c \in JSContexts : java.reporter[c] = "own")
  BY <1>0, <1>1, <1>2, ErrorReported
<1>4. r.clean => java.clean
  BY <1>3
<1>5. java.clean => java.flying = None /\ (\A c \in JSContexts : java.pending[c] = None)
                    /\ (java.errors # <<>> => \E c \in JSContexts : Entering(c, Depth))
  BY DEF CallsInv, ExceptionsOnTheirWay
<1>6. StackShape' /\ ReporterExact'
  BY <1>3, StackKept
<1>7. Depth' = n /\ n <= Depth /\ Alike(n)
  BY <1>0, <1>1
<1>8. \/ java'.env = java.env
      \/ /\ java'.env \in JSContexts
         /\ java'.clean => ((\E i \in 1 .. n : java.stack[i].lang = "java") => java'.env = DefaultContext(java))
  <2>1. InJava(java) <=> \E i \in 1 .. n : java.stack[i].lang = "java"
    <3>1. DOMAIN java.stack = 1 .. n
      BY <1>1, StateForms
    <3> QED
      BY <3>1 DEF InJava
  <2>2. CASE java.reporter[cx] = "capture"
    BY <1>3, <2>1, <2>2
  <2>3. CASE java.reporter[cx] # "capture"
    BY <1>3, <2>3
  <2> QED
    BY <2>2, <2>3
<1>9. OneDefault'
  BY <1>4, <1>6, <1>7, <1>8, DefaultKept
<1>10. ErrorsWithin'
  <2>1. ASSUME java'.clean, NEW k \in 1 .. Len(java'.errors)
        PROVE  \/ \E m \in 1 .. Len(java.errors) : java'.errors[k] = java.errors[m]
               \/ java'.errors[k].by >= n /\ (java'.errors[k].java # None => By(java'.errors[k].java) >= n)
    <3>1. CASE java.reporter[cx] = "capture"
      <4>1. java.errors \in Seq([by : Nat, java : JavaExceptions \cup {None}]) /\ java.flying = None
        BY <1>0, <1>4, <1>5, <2>1 DEF CallStates
      <4>2. java'.errors = <<[by |-> n, java |-> None]>> \o java.errors
        BY <1>3, <3>1, <4>1
      <4>3. k = 1 \/ (k - 1 \in 1 .. Len(java.errors) /\ java'.errors[k] = java.errors[k - 1])
        BY <2>1, <4>1, <4>2
      <4>4. java'.errors[1] = [by |-> n, java |-> None]
        BY <4>1, <4>2
      <4> QED
        BY <4>3, <4>4
    <3>2. CASE java.reporter[cx] # "capture"
      BY <1>3, <2>1, <3>2
    <3> QED
      BY <3>1, <3>2
  <2> QED
    BY <1>4, <1>7, <2>1, ErrorsKept
<1>11. StateShape'
  <2>1. (TopCall.lang = "js")'
    BY <1>0, <1>1, <1>7 DEF TopCall, Alike
  <2> QED
    BY <1>0, <2>1 DEF StateShape
<1>12. \A c \in JSContexts : Entering(c, Depth)' <=> Entering(c, Depth)
  <2>1. \A c \in JSContexts, m \in 0 .. n : Entering(c, m)' <=> Entering(c, m)
    BY <1>7, FramesAlike
  <2> QED
    BY <1>1, <1>7, <2>1 DEF Entering
<1>13. FailureKnown'
  <2> SUFFICES ASSUME java'.clean, NEW i \in 1 .. n, IsEntry(i)' PROVE java'.errors # <<>>
    BY <1>7 DEF FailureKnown
  <2>1. IsEntry(i) /\ i \in 1 .. Depth
    BY <1>1, <1>7, FramesAlike
  <2>2. java.reporter[cx] = "capture"
    BY <1>3, <2>1, ReportersTell
  <2>3. java.errors \in Seq([by : Nat, java : JavaExceptions \cup {None}])
    BY <1>0 DEF CallStates
  <2> QED
    BY <1>3, <2>2, <2>3
<1>14. ExceptionsOnTheirWay'
  <2> SUFFICES ASSUME java'.clean
               PROVE  /\ java'.errors # <<>> => \E c \in JSContexts : Entering(c, Depth)'
                      /\ \A c \in JSContexts : java'.pending[c] = None
                      /\ java'.flying = None
    BY DEF ExceptionsOnTheirWay
  <2>1. java'.errors # <<>> => \E c \in JSContexts : Entering(c, Depth)
    BY <1>2, <1>3, <1>4, <1>5, ReportersTell
  <2> QED
    BY <1>3, <1>4, <1>5, <1>12, <2>1
<1>15. ThrownToJava'
  BY DEF ThrownToJava
<1> QED
  BY <1>6, <1>9, <1>10, <1>11, <1>13, <1>14, <1>15 DEF CallsInv

LEMMA ScriptFails == CallsInv /\ (Fail \/ NullName) => CallsInv'
<1> SUFFICES ASSUME CallsInv, Fail \/ NullName PROVE CallsInv'
  OBVIOUS
<1> PICK r : r = JS_ReportError(java, TopCall.cx, Depth)
  OBVIOUS
<1>1. /\ Depth \in Nat /\ Depth > 0 /\ TopCall.lang = "js" /\ java.state = "run" /\ java \in CallStates
      /\ TopCall = java.stack[Depth] /\ TopCall \in CallFrames /\ TopCall.cx \in JSContexts /\ java.stack \in Seq(CallFrames)
  BY StateForms DEF Fail, NullName, Nameless, In
<1>2. r \in CallStates /\ r.stack = java.stack
  BY <1>1, ErrorReported
<1>3. CASE Fail
  <2>1. java' = [r EXCEPT !.state = "fail", !.exit = None]
    BY <1>2, <1>3 DEF Fail, Goes, CallStates
  <2>2. /\ java' \in CallStates /\ java'.stack = java.stack /\ java'.reporter = r.reporter /\ java'.errors = r.errors /\ java'.env = r.env
        /\ java'.clean = r.clean /\ java'.flying = r.flying /\ java'.pending = r.pending /\ java'.state = "fail" /\ java'.exit = None
    BY <1>2, <2>1 DEF CallStates
  <2>3. Depth' = Depth /\ Alike(Depth)
    BY <2>2 DEF Depth, Alike
  <2> QED
    BY <1>1, <2>2, <2>3, ReportsAndFails
<1>4. CASE NullName
  <2>1. PICK f \in CallFrames :
          /\ f = [TopCall EXCEPT !.result = IF @ = "unset" THEN "null" ELSE @]
          /\ f.lang = "js" /\ f.from = "java" /\ f.cx = TopCall.cx /\ f.saved = TopCall.saved
    <3> DEFINE f == [TopCall EXCEPT !.result = IF @ = "unset" THEN "null" ELSE @]
    <3>1. TopCall \in [lang : {"js"}, from : {"java"}, cx : JSContexts, saved : {"own", "capture"}, method : DOMAIN Entries,
                       result : {"unset", "null", "void"}]
      BY <1>1, <1>4 DEF NullName, Nameless, CallFrames
    <3>2. f \in [lang : {"js"}, from : {"java"}, cx : JSContexts, saved : {"own", "capture"}, method : DOMAIN Entries,
                 result : {"unset", "null", "void"}]
      BY <3>1
    <3>3. f.lang = "js" /\ f.from = "java" /\ f.cx = TopCall.cx /\ f.saved = TopCall.saved
      BY <3>1
    <3> QED
      BY <3>2, <3>3 DEF CallFrames
  <2>2. java' = [r EXCEPT !.state = "fail", !.stack = [r.stack EXCEPT ![Depth] = f], !.exit = None]
    <3>1. java' = [[r EXCEPT !.state = "fail", !.stack[Depth].result = IF @ = "unset" THEN "null" ELSE @] EXCEPT !.exit = None]
      BY <1>4 DEF NullName, Goes
    <3>2. r.stack[Depth] = TopCall
      BY <1>1, <1>2
    <3> QED
      BY <1>2, <2>1, <3>1, <3>2 DEF CallStates
  <2>3. [r.stack EXCEPT ![Depth] = f] \in Seq(CallFrames) /\ Len([r.stack EXCEPT ![Depth] = f]) = Len(java.stack)
    <3>1. r.stack \in Seq(CallFrames) /\ Depth \in 1 .. Len(r.stack) /\ r.stack = java.stack
      BY <1>1, <1>2 DEF Depth
    <3> QED
      BY <2>1, <3>1, ExceptSeq
  <2>4. /\ java' \in CallStates /\ java'.stack = [r.stack EXCEPT ![Depth] = f] /\ java'.reporter = r.reporter /\ java'.errors = r.errors
        /\ java'.env = r.env /\ java'.clean = r.clean /\ java'.flying = r.flying /\ java'.pending = r.pending
        /\ java'.state = "fail" /\ java'.exit = None
    BY <1>2, <2>2, <2>3 DEF CallStates
  <2>5. Depth' = Depth
    BY <2>3, <2>4 DEF Depth
  <2>6. Alike(Depth)
    <3>1. Depth = Len(java.stack) /\ TopCall.lang = "js" /\ TopCall.from = "java"
      BY <1>4 DEF NullName, Nameless, In, Depth
    <3> QED
      BY <1>1, <1>2, <2>1, <2>4, <3>1 DEF Alike
  <2> QED
    BY <1>1, <2>4, <2>5, <2>6, ReportsAndFails
<1> QED
  BY <1>3, <1>4

-----------------------------------------------------------------------------
\* A frame is entered while nothing is wrong.
LEMMA FrameEntered ==
  ASSUME CallsInv, java' \in CallStates, NEW f \in CallFrames, java'.stack = Append(java.stack, f),
         f.lang = "js" /\ f.from = "java" => /\ Depth > 0 /\ TopCall.lang = "java" /\ f.saved = java.reporter[f.cx]
                                            /\ java'.reporter = [java.reporter EXCEPT ![f.cx] = "capture"]
                                            /\ f.cx = DefaultContext(java) /\ java'.env = java.env
                                            /\ (java'.clean => java.errors = <<>>),
         ~ (f.lang = "js" /\ f.from = "java") => java'.reporter = java.reporter,
         f.lang = "java" /\ f.from = "js" => /\ Depth > 0 /\ TopCall.lang = "js" /\ f.cx = TopCall.cx /\ f.old = f.cx
                                            /\ java'.env = f.cx,
         f.from = "host" /\ Depth > 0 => f.lang = "js" /\ TopCall.lang = "js",
         java'.env = java.env \/ (java'.env \in JSContexts /\ (java'.clean => (InJava(java) => java'.env = DefaultContext(java)))),
         java'.clean => java.clean, java.state = "run", java'.state = "run", java'.flying = java.flying, java'.errors = java.errors,
         java'.pending = java.pending, java'.exit = None
  PROVE  CallsInv'
<1>1. /\ Depth \in Nat /\ Depth' = Depth + 1 /\ Alike(Depth)
      /\ (\A i \in 1 .. Depth : java'.stack[i] = java.stack[i]) /\ TopCall' = f
      /\ StackShape' /\ ReporterExact'
  BY StackPushed
<1>2. PICK n \in Nat : n = Depth
  BY <1>1
<1>3. Depth' = n + 1 /\ Alike(n) /\ n <= Depth /\ java'.stack[n + 1] = f
  <2>1. java'.stack[n + 1] = f
    BY <1>2, StateForms, AppendProperties
  <2> QED
    BY <1>1, <1>2, <2>1
<1>4. /\ \A i \in 1 .. n : (IsEntry(i)' <=> IsEntry(i)) /\ (IsInvoke(i)' <=> IsInvoke(i))
      /\ \A c \in JSContexts, m \in 0 .. n : Entering(c, m)' <=> Entering(c, m)
  BY <1>3, FramesAlike
<1>5. PICK m \in Nat : m = n + 1
  OBVIOUS
<1>6. (IsEntry(m)' <=> f.lang = "js" /\ f.from = "java") /\ (IsInvoke(m)' <=> f.lang = "java" /\ f.from = "js")
  BY <1>3, <1>5 DEF IsEntry, IsInvoke
<1>7. java.clean => java.flying = None /\ (\A c \in JSContexts : java.pending[c] = None)
                    /\ (java.errors # <<>> => \E c \in JSContexts : Entering(c, n))
  BY <1>2 DEF CallsInv, ExceptionsOnTheirWay
<1>8. StateShape' /\ FailureKnown' /\ ThrownToJava'
  BY DEF StateShape, FailureKnown, ThrownToJava
<1>9. OneDefault'
  <2>1. InJava(java) <=> \E i \in 1 .. n : java.stack[i].lang = "java"
    <3>1. DOMAIN java.stack = 1 .. n
      BY <1>2, StateForms
    <3> QED
      BY <3>1 DEF InJava
  <2>2. /\ java'.env = 0 => \A i \in 1 .. n : ~ IsInvoke(i)'
        /\ \A i \in 1 .. n : IsInvoke(i)' => java'.stack[i].old = java'.stack[i].cx
        /\ java'.clean => \A i \in 1 .. n : IsInvoke(i)' \/ IsEntry(i)' => java'.stack[i].cx = DefaultContext(java')
    BY <1>3, <2>1, DefaultBelow
  <2>3. /\ java'.env = 0 => ~ IsInvoke(m)'
        /\ IsInvoke(m)' => java'.stack[m].old = java'.stack[m].cx
        /\ IsInvoke(m)' \/ IsEntry(m)' => java'.stack[m].cx = DefaultContext(java')
    <3>1. f.lang = "java" /\ f.from = "js" => f.cx \in JSContexts
      BY FrameForms
    <3> QED
      BY <1>3, <1>5, <1>6, <3>1, CallsAssumption DEF DefaultContext
  <2>4. \A i \in 1 .. m : i \in 1 .. n \/ i = m
    BY <1>5
  <2>5. DefaultContext(java)' = DefaultContext(java')
    BY DEF DefaultContext
  <2> QED
    BY <1>3, <1>5, <2>2, <2>3, <2>4, <2>5 DEF OneDefault
<1>10. ErrorsWithin'
  <2> SUFFICES ASSUME java'.clean, NEW k \in 1 .. Len(java.errors), NEW i \in 1 .. m, IsEntry(i)'
               PROVE  (/\ java.errors[k].by >= i
                       /\ java.errors[k].java # None => By(java.errors[k].java) >= i)'
    BY <1>3, <1>5 DEF ErrorsWithin
  <2>1. i # m
    BY <1>6
  <2>2. i \in 1 .. n /\ IsEntry(i) /\ i \in 1 .. Depth
    BY <1>2, <1>4, <1>5, <2>1
  <2> QED
    BY <2>2 DEF CallsInv, ErrorsWithin, By, Unwrapped
<1>11. ExceptionsOnTheirWay'
  <2> SUFFICES ASSUME java'.clean
               PROVE  /\ java'.errors # <<>> => \E c \in JSContexts : Entering(c, m)'
                      /\ \A c \in JSContexts : java'.pending[c] = None
                      /\ java'.flying = None
    BY <1>3, <1>5 DEF ExceptionsOnTheirWay, Entering
  <2>1. \A c \in JSContexts : Entering(c, n)' => Entering(c, m)'
    <3>1. \A i \in 1 .. n : i \in 1 .. m
      BY <1>5
    <3> QED
      BY <3>1 DEF Entering
  <2> QED
    BY <1>4, <1>7, <2>1
<1> QED
  BY <1>1, <1>8, <1>9, <1>10, <1>11 DEF CallsInv

LEMMA CallEntered == CallsInv /\ ((\E cx \in JSContexts : RunScript(cx)) \/ RunJava \/ invoke_java_method \/ jsj_enter_js) => CallsInv'
<1> SUFFICES ASSUME CallsInv, (\E cx \in JSContexts : RunScript(cx)) \/ RunJava \/ invoke_java_method \/ jsj_enter_js PROVE CallsInv'
  OBVIOUS
<1>0. /\ Depth \in Nat /\ java \in CallStates /\ java.stack \in Seq(CallFrames)
      /\ Depth > 0 /\ TopCall.lang = "js" => TopCall.cx \in JSContexts
      /\ DefaultContext(java) \in JSContexts /\ java.reporter \in [JSContexts -> {"own", "capture"}]
  BY StateForms
<1>1. ASSUME NEW cx \in JSContexts, RunScript(cx) PROVE CallsInv'
  <2> DEFINE f == ScriptFrame(cx)
  <2>1. f \in CallFrames /\ f.lang = "js" /\ f.from = "host"
    BY DEF ScriptFrame, CallFrames
  <2>2. java' = [java EXCEPT !.stack = Append(java.stack, f), !.exit = None] /\ java.state = "run" /\ (Depth > 0 => TopCall.lang = "js")
    BY <1>0, <1>1 DEF RunScript, Goes, CallStates
  <2> HIDE DEF f
  <2>3. Append(java.stack, f) \in Seq(CallFrames)
    BY <1>0, <2>1, AppendProperties
  <2>4. /\ java' \in CallStates /\ java'.stack = Append(java.stack, f) /\ java'.env = java.env /\ java'.clean = java.clean
        /\ java'.state = "run" /\ java'.flying = java.flying /\ java'.errors = java.errors /\ java'.pending = java.pending
        /\ java'.exit = None /\ java'.reporter = java.reporter
    BY <1>0, <2>2, <2>3 DEF CallStates
  <2> QED
    BY <2>1, <2>2, <2>4, FrameEntered
<1>2. CASE RunJava
  <2> DEFINE f == [lang |-> "java", from |-> "host"]
  <2>1. f \in CallFrames /\ f.lang = "java" /\ f.from = "host"
    BY DEF CallFrames
  <2>2. Depth = 0 /\ java.stack = <<>>
    BY <1>0, <1>2, StateForms DEF RunJava
  <2>3. java' = [java EXCEPT !.stack = Append(java.stack, f), !.exit = None]
    <3>1. Append(java.stack, f) = <<f>>
      BY <2>2
    <3> QED
      BY <1>0, <1>2, <3>1 DEF RunJava, Goes, CallStates
  <2>4. java.state = "run"
    BY <2>2, StateForms DEF CallsInv, StateShape
  <2> HIDE DEF f
  <2>5. Append(java.stack, f) \in Seq(CallFrames)
    BY <1>0, <2>1, AppendProperties
  <2>6. /\ java' \in CallStates /\ java'.stack = Append(java.stack, f) /\ java'.env = java.env /\ java'.clean = java.clean
        /\ java'.state = "run" /\ java'.flying = java.flying /\ java'.errors = java.errors /\ java'.pending = java.pending
        /\ java'.exit = None /\ java'.reporter = java.reporter
    BY <1>0, <2>3, <2>4, <2>5 DEF CallStates
  <2> QED
    BY <2>1, <2>2, <2>4, <2>6, FrameEntered
<1>3. CASE invoke_java_method
  <2>1. PICK cx \in JSContexts : cx = TopCall.cx
    BY <1>0, <1>3 DEF invoke_java_method, In
  <2>2. PICK m : m = jsj_MapJSContextToJSJThread(java, cx)
    OBVIOUS
  <2>3. /\ m \in CallStates /\ m.stack = java.stack /\ m.env = cx /\ m.errors = java.errors /\ m.state = java.state
        /\ m.flying = java.flying /\ m.pending = java.pending /\ m.reporter = java.reporter
        /\ m.clean = (java.clean /\ (InJava(java) => cx = DefaultContext(java)))
    BY <1>0, <2>2 DEF jsj_MapJSContextToJSJThread, CallStates
  <2> DEFINE f == InvokeFrame(m, cx)
  <2>4. f = [lang |-> "java", from |-> "js", cx |-> cx, old |-> cx] /\ f \in CallFrames
    BY <2>3 DEF InvokeFrame, CallFrames
  <2>5. java' = [m EXCEPT !.stack = Append(java.stack, f), !.env = cx, !.exit = None]
    <3>1. java' = [Invoking(m, cx) EXCEPT !.exit = None]
      BY <1>3, <2>1, <2>2 DEF invoke_java_method, Goes
    <3> HIDE DEF f
    <3>2. Invoking(m, cx) = [m EXCEPT !.stack = Append(java.stack, f), !.env = cx]
      BY <2>3 DEF Invoking, f, CallStates
    <3> QED
      BY <2>3, <3>1, <3>2 DEF CallStates
  <2> HIDE DEF f
  <2>6. Append(java.stack, f) \in Seq(CallFrames)
    BY <1>0, <2>4, AppendProperties
  <2>7. /\ java' \in CallStates /\ java'.stack = Append(java.stack, f) /\ java'.env = cx /\ java'.clean = m.clean
        /\ java'.state = m.state /\ java'.flying = java.flying /\ java'.errors = java.errors /\ java'.pending = java.pending
        /\ java'.exit = None /\ java'.reporter = java.reporter
    BY <2>3, <2>5, <2>6 DEF CallStates
  <2>8. java.state = "run" /\ Depth > 0 /\ TopCall.lang = "js"
    BY <1>3 DEF invoke_java_method, In
  <2> QED
    BY <2>1, <2>3, <2>4, <2>7, <2>8, FrameEntered
<1>4. CASE jsj_enter_js
  <2>1. PICK cx \in JSContexts : cx = DefaultContext(java)
    BY <1>0
  <2>2. PICK method \in DOMAIN Entries : Goes(Entered(java, cx, method))
    BY <1>4, <2>1, CallsAssumption DEF jsj_enter_js
  <2> DEFINE f == EntryFrame(java, cx, method)
  <2>3. /\ f.lang = "js" /\ f.from = "java" /\ f.cx = cx /\ f.saved = java.reporter[cx] /\ f.result = Entries[method].result
        /\ f \in CallFrames
    BY <1>0, EntriesOfMethods DEF EntryFrame, CallFrames
  <2>4. java' = [java EXCEPT !.stack = Append(java.stack, f), !.reporter = [java.reporter EXCEPT ![cx] = "capture"],
                             !.clean = java.clean /\ java.errors = <<>>, !.exit = None]
    <3> HIDE DEF f
    <3>1. Entered(java, cx, method) = [java EXCEPT !.stack = Append(java.stack, f), !.reporter = [java.reporter EXCEPT ![cx] = "capture"],
                             !.clean = java.clean /\ java.errors = <<>>]
      BY <1>0 DEF Entered, f, CallStates
    <3> QED
      BY <1>0, <2>2, <3>1 DEF Goes, CallStates
  <2> HIDE DEF f
  <2>5. Append(java.stack, f) \in Seq(CallFrames)
    BY <1>0, <2>3, AppendProperties
  <2>6. /\ java' \in CallStates /\ java'.stack = Append(java.stack, f) /\ java'.env = java.env
        /\ java'.clean = (java.clean /\ java.errors = <<>>)
        /\ java'.state = java.state /\ java'.flying = java.flying /\ java'.errors = java.errors /\ java'.pending = java.pending
        /\ java'.exit = None /\ java'.reporter = [java.reporter EXCEPT ![cx] = "capture"]
    BY <1>0, <2>4, <2>5 DEF CallStates
  <2>7. java.state = "run" /\ Depth > 0 /\ TopCall.lang = "java"
    BY <1>4 DEF jsj_enter_js, In
  <2> QED
    BY <2>1, <2>3, <2>6, <2>7, FrameEntered
<1> QED
  BY <1>1, <1>2, <1>3, <1>4

-----------------------------------------------------------------------------
\* A frame is left.
LEMMA FrameLeft ==
  ASSUME CallsInv, java' \in CallStates, Depth > 0, java'.stack = Front(java.stack), java'.clean => java.clean,
         java'.reporter = IF IsEntry(Depth) THEN [java.reporter EXCEPT ![TopCall.cx] = TopCall.saved] ELSE java.reporter,
         java'.env = java.env \/ (java'.env \in JSContexts /\ (java'.clean /\ InJava(java) => java'.env = DefaultContext(java))),
         java'.clean => \A k \in 1 .. Len(java'.errors) :
                          \/ \E m \in 1 .. Len(java.errors) : java'.errors[k] = java.errors[m]
                          \/ /\ java'.errors[k].by >= Depth - 1
                             /\ java'.errors[k].java # None => By(java'.errors[k].java) >= Depth - 1
  PROVE  /\ Depth' = Depth - 1 /\ Depth' \in Nat /\ (Depth > 1 => TopCall' = java.stack[Depth - 1])
         /\ StackShape' /\ ReporterExact' /\ OneDefault' /\ ErrorsWithin'
         /\ \A i \in 1 .. Depth - 1 : IsEntry(i)' <=> IsEntry(i)
         /\ ~ IsEntry(Depth) => \A c \in JSContexts : Entering(c, Depth)' <=> Entering(c, Depth)
<1>1. /\ Depth \in Nat /\ Depth' = Depth - 1 /\ Alike(Depth - 1)
      /\ \A i \in 1 .. Depth - 1 : java'.stack[i] = java.stack[i]
      /\ StackShape' /\ ReporterExact'
  BY StackPopped
<1>2. PICK n \in Nat : n = Depth - 1
  BY <1>1
<1>3. Depth' = n /\ n <= Depth /\ Alike(n) /\ Depth = n + 1
  BY <1>1, <1>2
<1>4. (\E i \in 1 .. n : java.stack[i].lang = "java") => InJava(java)
  BY <1>3, StateForms DEF InJava
<1>5. OneDefault'
  BY <1>3, <1>4, DefaultKept
<1>6. ErrorsWithin'
  BY <1>2, <1>3, ErrorsKept
<1>7. /\ \A i \in 1 .. n : IsEntry(i)' <=> IsEntry(i)
      /\ \A c \in JSContexts, m \in 0 .. n : Entering(c, m)' <=> Entering(c, m)
  BY <1>3, FramesAlike
<1>8. ASSUME ~ IsEntry(Depth), NEW c \in JSContexts PROVE Entering(c, Depth)' <=> Entering(c, Depth)
  <2>1. Entering(c, n)' <=> Entering(c, n)
    BY <1>7
  <2>2. Entering(c, Depth)' <=> Entering(c, n)'
    BY <1>3 DEF Entering
  <2>3. Entering(c, Depth) <=> Entering(c, n)
    BY <1>3, <1>8 DEF Entering, IsEntry
  <2> QED
    BY <2>1, <2>2, <2>3
<1>9. Depth > 1 => TopCall' = java.stack[Depth - 1]
  BY <1>1 DEF TopCall
<1> QED
  BY <1>1, <1>2, <1>5, <1>6, <1>7, <1>8, <1>9

LEMMA JavaLeaves == CallsInv /\ (JavaReturns \/ JavaDies) => CallsInv'
<1> SUFFICES ASSUME CallsInv, JavaReturns \/ JavaDies PROVE CallsInv'
  OBVIOUS
<1>0. /\ Depth \in Nat /\ Depth > 0 /\ TopCall.lang = "java" /\ java.state \in {"run", "thrown"} /\ java \in CallStates
      /\ TopCall = java.stack[Depth] /\ TopCall \in CallFrames /\ Depth \in 1 .. Depth /\ java.stack \in Seq(CallFrames)
  BY StateForms DEF JavaReturns, JavaDies, In
<1>1. Front(java.stack) \in Seq(CallFrames)
  BY <1>0, StateForms, SubSeqProperties DEF Front
<1>2. PICK env \in JSContexts \cup {0}, flying \in {java.flying, None} :
        /\ java' = [java EXCEPT !.stack = Front(java.stack), !.env = env, !.flying = flying, !.state = "run", !.exit = None]
        /\ java.clean => flying = None
        /\ env = java.env \/ (env \in JSContexts /\ (java.clean => env = DefaultContext(java)))
  <2>1. CASE JavaReturns
    <3> DEFINE env == IF TopCall.from = "js" THEN TopCall.old ELSE java.env
    <3>1. java.state = "run"
      BY <2>1 DEF JavaReturns, In
    <3>2. java' = [java EXCEPT !.stack = Front(java.stack), !.env = env, !.exit = None]
      BY <1>0, <1>1, <2>1 DEF JavaReturns, Goes, Popped, CallStates
    <3>3. TopCall.from = "js" => IsInvoke(Depth)
      BY <1>0 DEF IsInvoke
    <3>4. TopCall.from = "js" => TopCall.old = TopCall.cx /\ TopCall.old \in JSContexts /\ (java.clean => TopCall.cx = DefaultContext(java))
      BY <1>0, <3>3, FrameForms DEF CallsInv, OneDefault
    <3>5. env \in JSContexts \cup {0}
      BY <3>4, StateForms
    <3>6. env = java.env \/ (env \in JSContexts /\ (java.clean => env = DefaultContext(java)))
      BY <3>4
    <3> HIDE DEF env
    <3>7. java.clean => java.flying = None
      BY <3>1 DEF CallsInv, ExceptionsOnTheirWay
    <3>8. java' = [java EXCEPT !.stack = Front(java.stack), !.env = env, !.flying = java.flying, !.state = "run", !.exit = None]
      BY <1>0, <1>1, <3>1, <3>2 DEF CallStates
    <3> QED
      BY <3>5, <3>6, <3>7, <3>8
  <2>2. CASE JavaDies
    <3>1. java' = [java EXCEPT !.stack = Front(java.stack), !.env = java.env, !.flying = None, !.state = "run", !.exit = None]
      BY <1>0, <1>1, <2>2 DEF JavaDies, Goes, Popped, CallStates
    <3> QED
      BY <3>1, StateForms
  <2> QED
    BY <2>1, <2>2
<1>3. /\ java' \in CallStates /\ java'.stack = Front(java.stack) /\ java'.env = env /\ java'.flying = flying /\ java'.state = "run"
      /\ java'.exit = None /\ java'.errors = java.errors /\ java'.pending = java.pending /\ java'.reporter = java.reporter
      /\ java'.clean = java.clean
  BY <1>0, <1>1, <1>2, StateForms DEF CallStates
<1>4. ~ IsEntry(Depth)
  BY <1>0 DEF IsEntry
<1>5. /\ StackShape' /\ ReporterExact' /\ OneDefault' /\ ErrorsWithin'
      /\ \A c \in JSContexts : Entering(c, Depth)' <=> Entering(c, Depth)
  BY <1>0, <1>2, <1>3, <1>4, FrameLeft
<1>6. StateShape' /\ FailureKnown' /\ ThrownToJava'
  BY <1>3 DEF StateShape, FailureKnown, ThrownToJava
<1>7. ExceptionsOnTheirWay'
  <2> SUFFICES ASSUME java'.clean
               PROVE  /\ java'.errors # <<>> => \E c \in JSContexts : Entering(c, Depth)'
                      /\ \A c \in JSContexts : java'.pending[c] = None
    BY <1>2, <1>3 DEF ExceptionsOnTheirWay
  <2> QED
    BY <1>0, <1>3, <1>5 DEF CallsInv, ExceptionsOnTheirWay
<1> QED
  BY <1>3, <1>5, <1>6, <1>7 DEF CallsInv

LEMMA ScriptLeaves == CallsInv /\ (ScriptEnds \/ ScriptPasses \/ JS_ClearPendingException) => CallsInv'
<1> SUFFICES ASSUME CallsInv, ScriptEnds \/ ScriptPasses \/ JS_ClearPendingException PROVE CallsInv'
  OBVIOUS
<1>0. /\ Depth \in Nat /\ Depth > 0 /\ TopCall.lang = "js" /\ TopCall.from = "host" /\ java \in CallStates
      /\ TopCall = java.stack[Depth] /\ TopCall.cx \in JSContexts /\ Depth \in 1 .. Depth /\ java.stack \in Seq(CallFrames)
      /\ java.pending \in [JSContexts -> JSExceptions \cup {None}]
  BY StateForms DEF ScriptEnds, ScriptPasses, JS_ClearPendingException, Ending
<1>1. ~ IsEntry(Depth) /\ java.state \in {"run", "fail"} /\ (Depth > 1 => java.stack[Depth - 1].lang = "js" /\ Below = java.stack[Depth - 1])
  <2>1. ~ IsEntry(Depth)
    BY <1>0 DEF IsEntry
  <2>2. java.state \in {"run", "fail"}
    BY <1>0, <2>1, StateForms DEF CallsInv, StateShape
  <2> QED
    BY <1>0, <2>1, <2>2 DEF CallsInv, StackShape, Below
<1>2. Front(java.stack) \in Seq(CallFrames)
  BY <1>0, StateForms, SubSeqProperties DEF Front
<1>3. PICK cx \in JSContexts : cx = TopCall.cx
  BY <1>0
<1>4. Uncaught <=> java.state = "fail" /\ java.pending[cx] # None
  BY <1>3 DEF Uncaught
\* The exception of the script goes on to its caller, is cleared, or there
\* is none, as long as nothing goes astray.
<1>5. PICK state \in {"run", "fail"}, clean \in BOOLEAN, pending \in [JSContexts -> JSExceptions \cup {None}] :
        /\ java' = [java EXCEPT !.stack = Front(java.stack), !.state = state, !.pending = pending, !.clean = clean, !.exit = None]
        /\ clean => java.clean
        /\ \/ state = "fail" /\ java.state = "fail" /\ Depth > 1 /\ pending = java.pending /\ (clean /\ Uncaught => Below.cx = cx)
           \/ state = "run" /\ pending = java.pending /\ (clean => ~ Uncaught)
           \/ state = "run" /\ pending = [java.pending EXCEPT ![cx] = None]
  <2>1. CASE ScriptEnds
    <3> DEFINE clean == java.clean /\ ~ Uncaught
    <3>1. java' = [java EXCEPT !.stack = Front(java.stack), !.state = "run", !.pending = java.pending, !.clean = clean, !.exit = None]
      BY <1>0, <2>1 DEF ScriptEnds, Goes, Popped, CallStates
    <3>2. clean \in BOOLEAN /\ (clean => java.clean /\ ~ Uncaught)
      OBVIOUS
    <3> HIDE DEF clean
    <3> QED
      BY <1>0, <3>1, <3>2
  <2>2. CASE ScriptPasses
    <3> DEFINE clean == java.clean /\ (Uncaught => Below.cx = TopCall.cx)
    <3>1. java.state = "fail" /\ Depth > 1
      BY <2>2 DEF ScriptPasses
    <3>2. java' = [java EXCEPT !.stack = Front(java.stack), !.state = "fail", !.pending = java.pending, !.clean = clean, !.exit = None]
      BY <1>0, <2>2, <3>1 DEF ScriptPasses, Goes, Popped, CallStates
    <3>3. clean \in BOOLEAN /\ (clean => java.clean) /\ (clean /\ Uncaught => Below.cx = cx)
      BY <1>3
    <3> HIDE DEF clean
    <3> QED
      BY <1>0, <3>1, <3>2, <3>3
  <2>3. CASE JS_ClearPendingException
    <3> DEFINE pending == [java.pending EXCEPT ![cx] = None]
    <3>1. java' = [java EXCEPT !.stack = Front(java.stack), !.state = "run", !.pending = pending, !.clean = java.clean, !.exit = None]
      BY <1>0, <1>3, <2>3 DEF JS_ClearPendingException, Goes, Popped, CallStates
    <3>2. pending \in [JSContexts -> JSExceptions \cup {None}] /\ java.clean \in BOOLEAN
      BY <1>0, StateForms
    <3> HIDE DEF pending
    <3> QED
      BY <3>1, <3>2 DEF pending
  <2> QED
    BY <2>1, <2>2, <2>3
<1>6. /\ java' \in CallStates /\ java'.stack = Front(java.stack) /\ java'.env = java.env /\ java'.flying = java.flying
      /\ java'.state = state /\ java'.exit = None /\ java'.errors = java.errors /\ java'.pending = pending
      /\ java'.reporter = java.reporter /\ java'.clean = clean
  BY <1>0, <1>2, <1>5 DEF CallStates
<1>7. java.clean => /\ java.flying = None /\ (java.errors # <<>> => \E c \in JSContexts : Entering(c, Depth))
                    /\ \A c \in JSContexts : java.pending[c] # None => java.state = "fail" /\ c = cx /\ By(java.pending[c]) >= Depth
  BY <1>1, <1>3 DEF CallsInv, ExceptionsOnTheirWay
<1>8. /\ Depth' = Depth - 1 /\ Depth' \in Nat /\ (Depth > 1 => TopCall' = java.stack[Depth - 1])
      /\ StackShape' /\ ReporterExact' /\ OneDefault' /\ ErrorsWithin'
      /\ \A i \in 1 .. Depth - 1 : IsEntry(i)' <=> IsEntry(i)
      /\ \A c \in JSContexts : Entering(c, Depth)' <=> Entering(c, Depth)
  BY <1>0, <1>1, <1>5, <1>6, FrameLeft
<1>9. StateShape' /\ ThrownToJava'
  BY <1>0, <1>1, <1>5, <1>6, <1>8 DEF StateShape, ThrownToJava
<1>10. FailureKnown'
  <2> SUFFICES ASSUME java'.clean, java'.state = "fail", NEW i \in 1 .. Depth - 1, IsEntry(i)'
               PROVE  java'.pending[TopCall'.cx] # None \/ java'.errors # <<>>
    BY <1>8 DEF FailureKnown
  <2>1. i \in 1 .. Depth /\ IsEntry(i) /\ java.clean /\ java.state = "fail"
    BY <1>0, <1>5, <1>6, <1>8
  <2>2. java.pending[cx] # None \/ java.errors # <<>>
    BY <1>3, <2>1 DEF CallsInv, FailureKnown
  <2>3. java.pending[cx] # None => TopCall'.cx = cx
    BY <1>1, <1>4, <1>5, <1>6, <1>8, <2>1
  <2> QED
    BY <1>5, <1>6, <2>2, <2>3
<1>11. ExceptionsOnTheirWay'
  <2> SUFFICES ASSUME java'.clean
               PROVE  /\ java'.errors # <<>> => \E c \in JSContexts : Entering(c, Depth)'
                      /\ \A c \in JSContexts : java'.pending[c] # None =>
                           java'.state = "fail" /\ TopCall'.cx = c /\ By(java'.pending[c]) >= Depth'
                      /\ java'.flying = None
    BY <1>5, <1>6 DEF ExceptionsOnTheirWay, By, Unwrapped
  <2>1. java.clean
    BY <1>5, <1>6
  <2>2. ASSUME NEW c \in JSContexts, java'.pending[c] # None
        PROVE  java'.state = "fail" /\ TopCall'.cx = c /\ By(java'.pending[c]) >= Depth'
    <3>1. java'.pending[c] = java.pending[c]
      BY <1>0, <1>5, <1>6, <2>2
    <3>2. c = cx /\ Uncaught /\ By(java.pending[c]) >= Depth
      BY <1>4, <1>7, <2>1, <2>2, <3>1
    <3>3. java'.state = "fail" /\ TopCall'.cx = cx
      BY <1>0, <1>1, <1>5, <1>6, <1>8, <2>2, <3>2
    <3>4. By(java.pending[c]) \in Nat
      BY <2>2, <3>1, StateForms, ExceptionsCross
    <3> QED
      BY <1>0, <1>8, <3>1, <3>2, <3>3, <3>4
  <2> QED
    BY <1>6, <1>7, <1>8, <2>1, <2>2
<1> QED
  BY <1>6, <1>8, <1>9, <1>10, <1>11 DEF CallsInv

\* What an exception of Java that its caller sees makes of state j there.
SeenByCaller(j, cx, n, v) ==
  /\ v \in CallStates /\ v.stack = j.stack /\ v.reporter = j.reporter /\ v.flying = None /\ (v.clean => j.clean)
  /\ \/ v.pending = [j.pending EXCEPT ![cx] = ValueOf(j.flying)] /\ v.errors = j.errors
     \/ /\ v.pending = j.pending
        /\ \/ /\ j.reporter[cx] = "capture"
              /\ v.errors = <<[by |-> n, java |-> None]>> \o (<<[by |-> n, java |-> j.flying]>> \o j.errors)
           \/ v.errors = j.errors /\ (v.clean => \A c \in JSContexts : j.reporter[c] = "own")

LEMMA JavaErrorReported ==
  ASSUME NEW j \in CallStates, NEW cx \in JSContexts, NEW n \in Nat, j.flying \in JavaExceptions
  PROVE  /\ SeenByCaller(j, cx, n, vreport_java_error(j, cx, n, TRUE))
         /\ SeenByCaller(j, cx, n, vreport_java_error(j, cx, n, FALSE))
<1> SUFFICES ASSUME NEW v, v = vreport_java_error(j, cx, n, TRUE) \/ v = vreport_java_error(j, cx, n, FALSE)
             PROVE  SeenByCaller(j, cx, n, v)
  OBVIOUS
<1>1. CASE v = vreport_java_error(j, cx, n, TRUE)
  <2> DEFINE clean == j.clean /\ (InJava(j) => cx = DefaultContext(j))
             pending == [j.pending EXCEPT ![cx] = ValueOf(j.flying)]
  <2>1. v = [j EXCEPT !.env = cx, !.clean = clean, !.pending = pending, !.flying = None]
    BY <1>1 DEF vreport_java_error, jsj_MapJSContextToJSJThread, CallStates
  <2>2. pending \in [JSContexts -> JSExceptions \cup {None}] /\ clean \in BOOLEAN /\ (clean => j.clean)
    BY ExceptionsCross DEF CallStates
  <2> HIDE DEF clean, pending
  <2>3. /\ v \in CallStates /\ v.stack = j.stack /\ v.reporter = j.reporter /\ v.flying = None /\ (v.clean => j.clean)
        /\ v.pending = pending /\ v.errors = j.errors
    BY <2>1, <2>2 DEF CallStates
  <2> QED
    BY <2>3 DEF pending, SeenByCaller
<1>2. CASE v = vreport_java_error(j, cx, n, FALSE)
  <2>1. PICK a : a = JS_ReportError(j, cx, n)
    OBVIOUS
  <2>2. /\ a \in CallStates /\ a.stack = j.stack /\ a.pending = j.pending /\ a.reporter = j.reporter
        /\ j.reporter[cx] = "capture" =>
             /\ a.errors = <<[by |-> n, java |-> j.flying]>> \o j.errors /\ a.flying = None
             /\ a.clean = (j.clean /\ (InJava(j) => cx = DefaultContext(j)))
        /\ j.reporter[cx] # "capture" =>
             /\ a.errors = j.errors /\ a.clean = (j.clean /\ \A c \in JSContexts : j.reporter[c] = "own")
    BY <2>1, ErrorReported
  <2>3. PICK b : b = JS_ReportError(a, cx, n)
    OBVIOUS
  <2>4. /\ b \in CallStates /\ b.stack = a.stack /\ b.pending = a.pending /\ b.reporter = a.reporter
        /\ a.reporter[cx] = "capture" =>
             /\ b.errors = <<[by |-> n, java |-> a.flying]>> \o a.errors
             /\ b.clean = (a.clean /\ (InJava(a) => cx = DefaultContext(a)))
        /\ a.reporter[cx] # "capture" =>
             /\ b.errors = a.errors /\ b.clean = (a.clean /\ \A c \in JSContexts : a.reporter[c] = "own")
    BY <2>2, <2>3, ErrorReported
  <2>5. v = [b EXCEPT !.flying = None]
    BY <1>2, <2>1, <2>3 DEF vreport_java_error
  <2>6. /\ v \in CallStates /\ v.flying = None /\ v.stack = b.stack /\ v.pending = b.pending /\ v.reporter = b.reporter
        /\ v.errors = b.errors /\ v.clean = b.clean
    BY <2>4, <2>5 DEF CallStates
  <2>7. CASE j.reporter[cx] = "capture"
    <3>1. /\ a.clean => j.clean
          /\ b.clean => a.clean
          /\ b.errors = <<[by |-> n, java |-> None]>> \o (<<[by |-> n, java |-> j.flying]>> \o j.errors)
      BY <2>2, <2>4, <2>7
    <3> QED
      BY <2>2, <2>4, <2>6, <2>7, <3>1 DEF SeenByCaller
  <2>8. CASE j.reporter[cx] # "capture"
    <3>1. /\ a.clean => j.clean /\ \A c \in JSContexts : j.reporter[c] = "own"
          /\ b.clean => a.clean
          /\ b.errors = j.errors
      BY <2>2, <2>4, <2>8
    <3> QED
      BY <2>2, <2>4, <2>6, <3>1 DEF SeenByCaller
  <2> QED
    BY <2>7, <2>8
<1> QED
  BY <1>1, <1>2

LEMMA JavaFailsInCaller == CallsInv /\ JavaFails => CallsInv'
<1> SUFFICES ASSUME CallsInv, JavaFails PROVE CallsInv'
  OBVIOUS
<1>0. /\ Depth \in Nat /\ Depth > 0 /\ TopCall.lang = "java" /\ TopCall.from = "js" /\ java \in CallStates /\ java.state = "thrown"
      /\ TopCall = java.stack[Depth] /\ TopCall \in CallFrames /\ Depth \in 1 .. Depth /\ java.stack \in Seq(CallFrames)
      /\ java.reporter \in [JSContexts -> {"own", "capture"}]
  BY StateForms DEF JavaFails, In
<1>1. IsInvoke(Depth) /\ ~ IsEntry(Depth)
  BY <1>0 DEF IsInvoke, IsEntry
<1>2. /\ Depth > 1 /\ java.stack[Depth - 1].lang = "js" /\ java.stack[Depth - 1].cx = TopCall.cx /\ Below = java.stack[Depth - 1]
      /\ TopCall.old = TopCall.cx /\ TopCall.cx \in JSContexts /\ (java.clean => TopCall.cx = DefaultContext(java))
  BY <1>0, <1>1, FrameForms DEF CallsInv, StackShape, OneDefault, Below
<1>3. PICK cx \in JSContexts, n \in Nat : cx = TopCall.cx /\ n = Depth - 1
  BY <1>0, <1>2
<1>4. Front(java.stack) \in Seq(CallFrames)
  BY <1>0, <1>2, StateForms, SubSeqProperties DEF Front
<1>5. /\ Popped(java) \in CallStates /\ Popped(java).stack = Front(java.stack) /\ Popped(java).reporter = java.reporter
      /\ Popped(java).clean = java.clean /\ Popped(java).flying = java.flying /\ Popped(java).errors = java.errors
      /\ Popped(java).pending = java.pending
  BY <1>0, <1>4 DEF Popped, CallStates
<1>6. java.flying \in JavaExceptions
  BY <1>0, StateForms DEF CallsInv, StateShape
<1>7. \E wrapped \in BOOLEAN : Goes([vreport_java_error(Popped(java), cx, n, wrapped) EXCEPT !.state = "fail", !.env = cx])
  BY <1>2, <1>3 DEF JavaFails
<1>8. PICK v : /\ v = vreport_java_error(Popped(java), cx, n, TRUE) \/ v = vreport_java_error(Popped(java), cx, n, FALSE)
               /\ Goes([v EXCEPT !.state = "fail", !.env = cx])
  BY <1>7
<1>9. /\ v \in CallStates /\ v.stack = Front(java.stack) /\ v.reporter = java.reporter /\ v.flying = None /\ (v.clean => java.clean)
      /\ \/ v.pending = [java.pending EXCEPT ![cx] = ValueOf(java.flying)] /\ v.errors = java.errors
         \/ /\ v.pending = java.pending
            /\ \/ /\ java.reporter[cx] = "capture"
                  /\ v.errors = <<[by |-> n, java |-> None]>> \o (<<[by |-> n, java |-> java.flying]>> \o java.errors)
               \/ v.errors = java.errors /\ (v.clean => \A c \in JSContexts : java.reporter[c] = "own")
  <2>1. PICK j : j = Popped(java)
    OBVIOUS
  <2>2. j \in CallStates /\ j.flying \in JavaExceptions
    BY <1>5, <1>6, <2>1
  <2>3. SeenByCaller(j, cx, n, v)
    BY <1>8, <2>1, <2>2, JavaErrorReported
  <2> QED
    BY <1>5, <2>1, <2>3 DEF SeenByCaller
<1>10. java' = [v EXCEPT !.state = "fail", !.env = cx, !.exit = None]
  BY <1>8, <1>9 DEF Goes, CallStates
<1>11. /\ java' \in CallStates /\ java'.stack = Front(java.stack) /\ java'.env = cx /\ java'.flying = None /\ java'.state = "fail"
       /\ java'.exit = None /\ java'.errors = v.errors /\ java'.pending = v.pending /\ java'.reporter = java.reporter
       /\ java'.clean = v.clean
  BY <1>9, <1>10 DEF CallStates
<1>12. java.clean => /\ (java.errors # <<>> => \E c \in JSContexts : Entering(c, Depth))
                     /\ \A c \in JSContexts : java.pending[c] = None
                     /\ By(java.flying) >= Depth
  BY <1>0 DEF CallsInv, ExceptionsOnTheirWay
<1>13. java.errors \in Seq([by : Nat, java : JavaExceptions \cup {None}])
  BY <1>0 DEF CallStates
<1>14. By(java.flying) \in Nat /\ ValueOf(java.flying) # None /\ By(ValueOf(java.flying)) = By(java.flying)
  BY <1>6, ExceptionsCross
<1>15. ASSUME java'.clean, NEW k \in 1 .. Len(java'.errors)
       PROVE  \/ \E m \in 1 .. Len(java.errors) : java'.errors[k] = java.errors[m]
              \/ /\ java'.errors[k].by >= Depth - 1
                 /\ java'.errors[k].java # None => By(java'.errors[k].java) >= Depth - 1
  <2>1. CASE java'.errors = java.errors
    BY <1>15, <2>1
  <2>2. CASE java'.errors = <<[by |-> n, java |-> None]>> \o (<<[by |-> n, java |-> java.flying]>> \o java.errors)
    <3>1. \/ k = 1 \/ k = 2
          \/ (k - 2 \in 1 .. Len(java.errors) /\ java'.errors[k] = java.errors[k - 2])
      <4>1. PICK rest : rest = <<[by |-> n, java |-> java.flying]>> \o java.errors
        OBVIOUS
      <4>2. /\ rest \in Seq([by : Nat, java : JavaExceptions \cup {None}]) /\ Len(rest) = Len(java.errors) + 1
            /\ \A m \in 1 .. Len(java.errors) : rest[m + 1] = java.errors[m]
        BY <1>6, <1>13, <4>1
      <4>3. k = 1 \/ (k - 1 \in 1 .. Len(rest) /\ java'.errors[k] = rest[k - 1])
        BY <1>15, <2>2, <4>1, <4>2
      <4>4. CASE k - 1 \in 1 .. Len(rest) /\ k # 2 /\ java'.errors[k] = rest[k - 1]
        <5>1. k \in Int /\ Len(java.errors) \in Nat
          BY <1>13
        <5>2. k - 2 \in 1 .. Len(java.errors) /\ (k - 2) + 1 = k - 1
          BY <4>2, <4>4, <5>1
        <5>3. rest[(k - 2) + 1] = java.errors[k - 2]
          BY <4>2, <5>2
        <5> QED
          BY <4>4, <5>2, <5>3
      <4> QED
        BY <4>3, <4>4
    <3>2. java'.errors[1] = [by |-> n, java |-> None] /\ java'.errors[2] = [by |-> n, java |-> java.flying]
      BY <1>13, <2>2
    <3>3. By(java.flying) >= n
      BY <1>0, <1>3, <1>9, <1>11, <1>12, <1>14, <1>15
    <3>4. CASE k = 1
      BY <1>3, <3>2, <3>4
    <3>5. CASE k = 2
      BY <1>3, <3>2, <3>3, <3>5
    <3> QED
      BY <3>1, <3>4, <3>5
  <2> QED
    BY <1>9, <1>11, <2>1, <2>2
<1>16. /\ Depth' = Depth - 1 /\ Depth' \in Nat /\ TopCall' = java.stack[Depth - 1]
       /\ StackShape' /\ ReporterExact' /\ OneDefault' /\ ErrorsWithin'
       /\ \A i \in 1 .. Depth - 1 : IsEntry(i)' <=> IsEntry(i)
       /\ \A c \in JSContexts : Entering(c, Depth)' <=> Entering(c, Depth)
  <2>1. java'.env = java.env \/ (java'.env \in JSContexts /\ (java'.clean /\ InJava(java) => java'.env = DefaultContext(java)))
    BY <1>2, <1>3, <1>9, <1>11
  <2> QED
    BY <1>0, <1>1, <1>2, <1>9, <1>11, <1>15, <2>1, FrameLeft
<1>17. StateShape' /\ ThrownToJava' /\ TopCall'.cx = cx
  BY <1>0, <1>2, <1>3, <1>11, <1>16 DEF StateShape, ThrownToJava
<1>18. FailureKnown'
  <2> SUFFICES ASSUME java'.clean, NEW i \in 1 .. Depth - 1, IsEntry(i)'
               PROVE  java'.pending[cx] # None \/ java'.errors # <<>>
    BY <1>16, <1>17 DEF FailureKnown
  <2>1. i \in 1 .. Depth /\ IsEntry(i)
    BY <1>0, <1>16
  <2>2. ~ \A c \in JSContexts : java.reporter[c] = "own"
    BY <2>1, ReportersTell
  <2>3. CASE v.pending = [java.pending EXCEPT ![cx] = ValueOf(java.flying)]
    BY <1>11, <1>14, <2>3, StateForms
  <2>4. CASE v.errors = <<[by |-> n, java |-> None]>> \o (<<[by |-> n, java |-> java.flying]>> \o java.errors)
    BY <1>11, <1>13, <2>4
  <2> QED
    BY <1>9, <1>11, <2>2, <2>3, <2>4
<1>19. ExceptionsOnTheirWay'
  <2> SUFFICES ASSUME java'.clean
               PROVE  /\ java'.errors # <<>> => \E c \in JSContexts : Entering(c, Depth)'
                      /\ \A c \in JSContexts : java'.pending[c] # None => cx = c /\ By(java'.pending[c]) >= Depth'
    BY <1>11, <1>17 DEF ExceptionsOnTheirWay, By, Unwrapped
  <2>1. java.clean
    BY <1>9, <1>11
  <2>2. java'.errors # <<>> => \E c \in JSContexts : Entering(c, Depth)
    BY <1>9, <1>11, <1>12, <2>1, ReportersTell
  <2>3. ASSUME NEW c \in JSContexts, java'.pending[c] # None
        PROVE  cx = c /\ By(java'.pending[c]) >= Depth'
    <3>1. v.pending = [java.pending EXCEPT ![cx] = ValueOf(java.flying)] /\ c = cx
      BY <1>9, <1>11, <1>12, <2>1, <2>3, StateForms
    <3>2. java'.pending[c] = ValueOf(java.flying)
      BY <1>11, <3>1, StateForms
    <3> QED
      BY <1>0, <1>12, <1>14, <1>16, <2>1, <3>1, <3>2
  <2> QED
    BY <1>16, <2>2, <2>3
<1> QED
  BY <1>11, <1>16, <1>17, <1>18, <1>19 DEF CallsInv

\* What the end of a call from Java makes of state j: an exception or an
\* error is thrown, or nothing.
ThrownAtExit(j, out) ==
  \/ /\ j.pending[j.env] # None
     /\ \/ /\ out.state = "thrown" /\ out.flying = Thrown("value", j.pending[j.env]) /\ out.errors = j.errors
           /\ out.pending = [j.pending EXCEPT ![j.env] = None] /\ (out.clean => j.clean /\ j.errors = <<>>)
        \/ out.state = "run" /\ out.flying = j.flying /\ out.errors = <<>> /\ out.pending = j.pending /\ ~ out.clean
  \/ /\ j.pending[j.env] = None /\ out.pending = j.pending /\ out.errors = <<>> /\ (out.clean => j.clean)
     /\ \/ j.errors = <<>> /\ out.state = "run" /\ out.flying = j.flying
        \/ /\ j.errors # <<>> /\ out.state = "thrown"
           /\ \/ Oldest(j.errors).java # None /\ out.flying = Oldest(j.errors).java
              \/ out.flying = Thrown("error", Oldest(j.errors).by)

LEMMA CallThrows ==
  ASSUME NEW j \in CallStates, j.env \in JSContexts
  PROVE  \A wrapped \in BOOLEAN :
           LET out == throw_any_pending_js_error_as_a_java_exception(j, wrapped)
           IN /\ out \in CallStates /\ out.stack = j.stack /\ out.reporter = j.reporter /\ out.env = j.env
              /\ out.state = "thrown" => out.flying # None
              /\ ThrownAtExit(j, out)
<1> SUFFICES ASSUME NEW wrapped \in BOOLEAN, NEW out, out = throw_any_pending_js_error_as_a_java_exception(j, wrapped)
             PROVE  /\ out \in CallStates /\ out.stack = j.stack /\ out.reporter = j.reporter /\ out.env = j.env
                    /\ out.state = "thrown" => out.flying # None
                    /\ ThrownAtExit(j, out)
  OBVIOUS
<1>1. j.pending[j.env] \in JSExceptions \cup {None} /\ j.errors \in Seq([by : Nat, java : JavaExceptions \cup {None}])
      /\ <<>> \in Seq([by : Nat, java : JavaExceptions \cup {None}])
  BY DEF CallStates
<1>2. CASE j.pending[j.env] # None /\ wrapped
  <2> DEFINE clean == j.clean /\ j.errors = <<>>
             exception == Thrown("value", j.pending[j.env])
             pending == [j.pending EXCEPT ![j.env] = None]
  <2>1. out = [j EXCEPT !.state = "thrown", !.flying = exception, !.pending = pending, !.clean = clean]
    BY <1>2 DEF throw_any_pending_js_error_as_a_java_exception, ThrowException, Throwing, CallStates
  <2>2. /\ exception \in JavaExceptions /\ exception # None /\ pending \in [JSContexts -> JSExceptions \cup {None}]
        /\ clean \in BOOLEAN /\ (clean => j.clean /\ j.errors = <<>>)
    BY <1>1, <1>2, ExceptionsCross DEF CallStates
  <2> HIDE DEF clean, exception, pending
  <2>3. /\ out \in CallStates /\ out.stack = j.stack /\ out.reporter = j.reporter /\ out.env = j.env
        /\ out.state = "thrown" /\ out.flying = exception /\ out.errors = j.errors /\ out.pending = pending /\ out.clean = clean
    BY <2>1, <2>2 DEF CallStates
  <2> QED
    BY <1>2, <2>2, <2>3 DEF exception, pending, ThrownAtExit
<1>3. CASE j.pending[j.env] # None /\ ~ wrapped
  <2>1. out = [j EXCEPT !.errors = <<>>, !.state = "run", !.clean = FALSE]
    BY <1>3 DEF throw_any_pending_js_error_as_a_java_exception, ThrowException
  <2>2. /\ out \in CallStates /\ out.stack = j.stack /\ out.reporter = j.reporter /\ out.env = j.env
        /\ out.state = "run" /\ out.flying = j.flying /\ out.errors = <<>> /\ out.pending = j.pending /\ ~ out.clean
    BY <1>1, <2>1 DEF CallStates
  <2> QED
    BY <1>3, <2>2 DEF ThrownAtExit
<1>4. CASE j.pending[j.env] = None /\ j.errors = <<>>
  <2>1. out = [j EXCEPT !.state = "run"]
    BY <1>4 DEF throw_any_pending_js_error_as_a_java_exception, ThrowError
  <2>2. /\ out \in CallStates /\ out.stack = j.stack /\ out.reporter = j.reporter /\ out.env = j.env
        /\ out.state = "run" /\ out.flying = j.flying /\ out.errors = <<>> /\ out.pending = j.pending /\ out.clean = j.clean
    BY <1>4, <2>1 DEF CallStates
  <2> QED
    BY <1>4, <2>2 DEF ThrownAtExit
<1>5. CASE j.pending[j.env] = None /\ j.errors # <<>>
  <2> DEFINE error == Oldest(j.errors)
             exception == IF error.java # None THEN error.java ELSE Thrown("error", error.by)
  <2>1. out = [j EXCEPT !.state = "thrown", !.flying = exception, !.errors = <<>>]
    BY <1>5 DEF throw_any_pending_js_error_as_a_java_exception, ThrowError, Throwing
  <2>2. error \in [by : Nat, java : JavaExceptions \cup {None}]
    <3>1. Len(j.errors) \in 1 .. Len(j.errors)
      BY <1>1, <1>5
    <3> QED
      BY <1>1, <3>1, ElementOfSeq DEF Oldest
  <2>3. exception \in JavaExceptions /\ exception # None
    BY <2>2, ExceptionsCross
  <2>4. (error.java # None /\ exception = error.java) \/ exception = Thrown("error", error.by)
    OBVIOUS
  <2> HIDE DEF exception
  <2>5. /\ out \in CallStates /\ out.stack = j.stack /\ out.reporter = j.reporter /\ out.env = j.env
        /\ out.state = "thrown" /\ out.flying = exception /\ out.errors = <<>> /\ out.pending = j.pending /\ out.clean = j.clean
    BY <1>1, <2>1, <2>3 DEF CallStates
  <2> QED
    BY <1>5, <2>3, <2>4, <2>5 DEF ThrownAtExit
<1> QED
  BY <1>2, <1>3, <1>4, <1>5

LEMMA EntryLeaves == CallsInv /\ jsj_exit_js => CallsInv'
<1> SUFFICES ASSUME CallsInv, jsj_exit_js PROVE CallsInv'
  OBVIOUS
<1>0. /\ Depth \in Nat /\ Depth > 0 /\ TopCall.lang = "js" /\ TopCall.from = "java" /\ java \in CallStates
      /\ TopCall = java.stack[Depth] /\ TopCall \in CallFrames /\ TopCall.cx \in JSContexts /\ Depth \in 1 .. Depth
      /\ java.stack \in Seq(CallFrames) /\ Depth = Len(java.stack)
      /\ java.reporter \in [JSContexts -> {"own", "capture"}] /\ java.pending \in [JSContexts -> JSExceptions \cup {None}]
      /\ java.errors \in Seq([by : Nat, java : JavaExceptions \cup {None}])
      /\ java.env # 0 /\ java.env \in JSContexts /\ java.state \in {"run", "fail"}
  BY StateForms DEF jsj_exit_js, Returning, CallStates
<1>1. /\ IsEntry(Depth) /\ Depth > 1 /\ java.stack[Depth - 1].lang = "java" /\ TopCall.saved \in {"own", "capture"}
      /\ TopCall.method \in DOMAIN Entries /\ TopCall.result \in {"unset", "null", "void"}
      /\ java.reporter[TopCall.cx] = "capture" /\ (java.clean => TopCall.cx = DefaultContext(java))
  <2>1. IsEntry(Depth)
    BY <1>0 DEF IsEntry
  <2> QED
    BY <1>0, <2>1, FrameForms, ReportersTell DEF CallsInv, StackShape, OneDefault
<1>2. Front(java.stack) \in Seq(CallFrames) /\ Len(Front(java.stack)) = Depth - 1
  BY <1>0, SubSeqProperties DEF Front
<1> PICK f : f = TopCall
  OBVIOUS
<1>3. PICK n \in Nat, cx \in JSContexts : f = TopCall /\ n = Depth /\ cx = f.cx
  BY <1>0
<1>4. PICK j : j = [Popped(java) EXCEPT !.reporter[f.cx] = f.saved]
  OBVIOUS
<1>5. /\ j \in CallStates /\ j.stack = Front(java.stack) /\ j.reporter = [java.reporter EXCEPT ![TopCall.cx] = TopCall.saved]
      /\ j.env = java.env /\ j.errors = java.errors /\ j.flying = java.flying /\ j.pending = java.pending /\ j.clean = java.clean
  <2> DEFINE reporter == [java.reporter EXCEPT ![TopCall.cx] = TopCall.saved]
  <2>1. j = [java EXCEPT !.stack = Front(java.stack), !.reporter = reporter]
    BY <1>0, <1>3, <1>4 DEF Popped, CallStates
  <2>2. reporter \in [JSContexts -> {"own", "capture"}]
    BY <1>0, <1>1
  <2> HIDE DEF reporter
  <2>3. /\ j \in CallStates /\ j.stack = Front(java.stack) /\ j.reporter = reporter /\ j.env = java.env /\ j.errors = java.errors
        /\ j.flying = java.flying /\ j.pending = java.pending /\ j.clean = java.clean
    BY <1>0, <1>2, <2>1, <2>2 DEF CallStates
  <2> QED
    BY <2>3 DEF reporter
<1>6. j.env \in JSContexts
  BY <1>0, <1>5
<1>7. PICK out \in CallStates :
        /\ out.stack = j.stack /\ out.reporter = j.reporter /\ out.env = j.env /\ (out.state = "thrown" => out.flying # None)
        /\ ThrownAtExit(j, out)
        /\ java' = Exited(java, out, f, java.state = "run")
  <2>1. \E wrapped \in BOOLEAN : java' = Exit(java, TopCall, java.state = "run", wrapped)
    BY DEF jsj_exit_js
  <2>2. PICK wrapped \in BOOLEAN :
          java' = Exited(java, throw_any_pending_js_error_as_a_java_exception(j, wrapped), f, java.state = "run")
    BY <1>3, <1>4, <2>1 DEF Exit
  <2> QED
    BY <1>5, <1>6, <2>2, CallThrows
<1>8. PICK wrong \in BOOLEAN, result \in {"unset", "null", "void", "object"} :
         /\ java' = [out EXCEPT !.exit = [wrong |-> wrong, result |-> result]]
         /\ wrong <=> java.state # "run" \/ java.errors # <<>>
         /\ java.state = "run" => result # "unset"
  <2> DEFINE wrong == ~ (java.state = "run") \/ java.errors # <<>>
             result == ResultOf(f, java.state = "run")
  <2>1. java' = [out EXCEPT !.exit = [wrong |-> wrong, result |-> result]]
    BY <1>7 DEF Exited
  <2>2. result \in {"unset", "null", "void", "object"}
    BY <1>1, <1>3 DEF ResultOf
  <2>3. java.state = "run" => result # "unset"
    BY <1>1, <1>3 DEF ResultOf
  <2>4. wrong \in BOOLEAN
    OBVIOUS
  <2> HIDE DEF result
  <2>5. wrong <=> java.state # "run" \/ java.errors # <<>>
    OBVIOUS
  <2> HIDE DEF wrong
  <2> QED
    BY <2>1, <2>2, <2>3, <2>4, <2>5
<1>9. /\ java' \in CallStates /\ java'.stack = Front(java.stack) /\ java'.reporter = [java.reporter EXCEPT ![TopCall.cx] = TopCall.saved]
       /\ java'.env = java.env /\ java'.state = out.state /\ java'.flying = out.flying /\ java'.errors = out.errors
       /\ java'.pending = out.pending /\ java'.clean = out.clean /\ java'.exit = [wrong |-> wrong, result |-> result]
  <2> DEFINE exit == [wrong |-> wrong, result |-> result]
  <2>1. exit \in [wrong : BOOLEAN, result : {"unset", "null", "void", "object"}]
    OBVIOUS
  <2>2. java' = [out EXCEPT !.exit = exit]
    BY <1>8
  <2> HIDE DEF exit
  <2>3. /\ java' \in CallStates /\ java'.stack = out.stack /\ java'.reporter = out.reporter /\ java'.env = out.env
        /\ java'.state = out.state /\ java'.flying = out.flying /\ java'.errors = out.errors /\ java'.pending = out.pending
        /\ java'.clean = out.clean /\ java'.exit = exit
    BY <2>1, <2>2 DEF CallStates
  <2> QED
    BY <1>5, <1>7, <2>3 DEF exit
<1>10. java'.clean => java'.errors = <<>> /\ java.clean
  BY <1>5, <1>7, <1>9 DEF ThrownAtExit
<1>11. java.clean => /\ java.flying = None
                     /\ \A c \in JSContexts : java.pending[c] # None => java.state = "fail" /\ c = cx /\ By(java.pending[c]) >= Depth
  BY <1>0, <1>3 DEF CallsInv, ExceptionsOnTheirWay
<1>12. java.clean => java.env = cx
  BY <1>0, <1>1, <1>3 DEF DefaultContext
<1>13. /\ Depth' = Depth - 1 /\ Depth' \in Nat /\ TopCall' = java.stack[Depth - 1]
       /\ StackShape' /\ ReporterExact' /\ OneDefault' /\ ErrorsWithin'
  <2>1. java'.env = java.env \/ (java'.env \in JSContexts /\ (java'.clean /\ InJava(java) => java'.env = DefaultContext(java)))
    BY <1>9
  <2>2. java'.clean => \A k \in 1 .. Len(java'.errors) :
                          \/ \E m \in 1 .. Len(java.errors) : java'.errors[k] = java.errors[m]
                          \/ /\ java'.errors[k].by >= Depth - 1
                             /\ java'.errors[k].java # None => By(java'.errors[k].java) >= Depth - 1
    BY <1>10
  <2> QED
    BY <1>0, <1>1, <1>9, <1>10, <2>1, <2>2, FrameLeft
<1>14. StateShape' /\ FailureKnown'
  <2>1. java'.state \in {"run", "thrown"} /\ (java'.state = "thrown" => java'.flying # None)
    BY <1>7, <1>9 DEF ThrownAtExit
  <2> QED
    BY <1>0, <1>1, <1>13, <2>1 DEF StateShape, FailureKnown
<1>15. ASSUME java'.clean
       PROVE  /\ \A c \in JSContexts : java'.pending[c] = None
              /\ java'.state = "thrown" <=> wrong
              /\ java'.state = "thrown" => By(java'.flying) \in Nat /\ By(java'.flying) >= Depth
              /\ java'.state # "thrown" => java'.flying = None /\ java.state = "run"
  <2>0. /\ java.clean /\ java'.errors = <<>> /\ j.env = cx
        /\ \A c \in JSContexts : java.pending[c] # None => java.state = "fail" /\ c = cx /\ By(java.pending[c]) >= Depth
    BY <1>5, <1>10, <1>11, <1>12, <1>15
  <2>1. CASE java.pending[cx] # None
    <3>1. /\ out.state = "thrown" /\ out.flying = Thrown("value", java.pending[cx]) /\ out.pending = [java.pending EXCEPT ![cx] = None]
      BY <1>5, <1>7, <1>9, <1>15, <2>0, <2>1 DEF ThrownAtExit
    <3>2. By(java.pending[cx]) \in Nat /\ By(Thrown("value", java.pending[cx])) = By(java.pending[cx])
      BY <1>0, <2>1, ExceptionsCross
    <3>3. java.state = "fail" /\ By(java.pending[cx]) >= Depth
      BY <2>0, <2>1
    <3> QED
      BY <1>0, <1>8, <1>9, <2>0, <3>1, <3>2, <3>3
  <2>2. CASE java.pending[cx] = None
    <3>1. /\ out.pending = java.pending /\ java.flying = None
          /\ \A c \in JSContexts : java.pending[c] = None
      BY <1>5, <1>7, <1>11, <2>0, <2>2 DEF ThrownAtExit
    <3>2. CASE java.errors = <<>>
      <4>1. out.state = "run" /\ out.flying = None
        BY <1>5, <1>7, <2>0, <2>2, <3>1, <3>2 DEF ThrownAtExit
      <4>2. java.state = "run"
        BY <1>0, <1>1, <1>3, <1>11, <2>0, <2>2, <3>2 DEF CallsInv, FailureKnown
      <4> QED
        BY <1>8, <1>9, <3>1, <3>2, <4>1, <4>2
    <3>3. CASE java.errors # <<>>
      <4>1. PICK error : error = Oldest(java.errors)
        OBVIOUS
      <4>2. /\ out.state = "thrown"
            /\ \/ error.java # None /\ out.flying = error.java
               \/ out.flying = Thrown("error", error.by)
        BY <1>5, <1>7, <2>0, <2>2, <3>1, <3>3, <4>1 DEF ThrownAtExit
      <4>3. Len(java.errors) \in 1 .. Len(java.errors) /\ error = java.errors[Len(java.errors)]
        BY <1>0, <3>3, <4>1 DEF Oldest
      <4>4. error \in [by : Nat, java : JavaExceptions \cup {None}]
        BY <1>0, <4>3, ElementOfSeq
      <4>5. error.by >= Depth /\ (error.java # None => By(error.java) >= Depth)
        BY <1>0, <1>1, <2>0, <4>3 DEF CallsInv, ErrorsWithin
      <4>6. By(out.flying) \in Nat /\ By(out.flying) >= Depth
        <5>1. By(Thrown("error", error.by)) = error.by /\ error.by \in Nat
          BY <4>4, ExceptionsCross
        <5>2. error.java # None => By(error.java) \in Nat
          BY <4>4, ExceptionsCross
        <5> QED
          BY <4>2, <4>5, <5>1, <5>2
      <4> QED
        BY <1>8, <1>9, <3>1, <3>3, <4>2, <4>6
    <3> QED
      BY <3>2, <3>3
  <2> QED
    BY <2>1, <2>2
<1>16. ExceptionsOnTheirWay'
  <2> SUFFICES ASSUME java'.clean
               PROVE  /\ java'.errors = <<>>
                      /\ \A c \in JSContexts : java'.pending[c] = None
                      /\ java'.state = "thrown" => By(java'.flying) >= Depth'
                      /\ java'.state # "thrown" => java'.flying = None
    BY DEF ExceptionsOnTheirWay, By, Unwrapped
  <2> QED
    BY <1>0, <1>10, <1>13, <1>15
<1>17. ThrownToJava'
  <2> SUFFICES ASSUME java'.clean
               PROVE  /\ wrong <=> java'.state = "thrown"
                      /\ java'.state = "thrown" => By(java'.flying) > Depth'
                      /\ result = "unset" => java'.state = "thrown"
    BY <1>9 DEF ThrownToJava, By, Unwrapped
  <2> QED
    BY <1>0, <1>8, <1>13, <1>15
<1> QED
  BY <1>9, <1>13, <1>14, <1>16, <1>17 DEF CallsInv

-----------------------------------------------------------------------------
LEMMA CallsBegin == (\E env \in {0, 1} : java = [CallsStart EXCEPT !.env = env]) => CallsInv
<1> SUFFICES ASSUME NEW env \in {0, 1}, java = [CallsStart EXCEPT !.env = env] PROVE CallsInv
  OBVIOUS
<1>1. env \in JSContexts \cup {0}
  BY CallsAssumption
<1>2. /\ java.stack = <<>> /\ java.state = "run" /\ java.flying = None /\ java.env = env /\ java.errors = <<>>
      /\ java.pending = [c \in JSContexts |-> None] /\ java.reporter = [c \in JSContexts |-> "own"] /\ java.clean = TRUE /\ java.exit = None
  BY DEF CallsStart
<1>3. <<>> \in Seq(CallFrames) /\ <<>> \in Seq([by : Nat, java : JavaExceptions \cup {None}]) /\ Len(<<>>) = 0
  OBVIOUS
<1>4. java \in CallStates
  BY <1>1, <1>3 DEF CallsStart, CallStates
<1>5. Depth = 0
  BY <1>2, <1>3 DEF Depth
<1>6. /\ StackShape /\ StateShape /\ OneDefault /\ ErrorsWithin /\ FailureKnown /\ ExceptionsOnTheirWay /\ ThrownToJava
  BY <1>2, <1>3, <1>5 DEF StackShape, StateShape, OneDefault, ErrorsWithin, FailureKnown, ExceptionsOnTheirWay, ThrownToJava
<1>7. ReporterExact
  <2>1. \A c \in JSContexts : ~ Entering(c, 0)
    BY DEF Entering
  <2> QED
    BY <1>2, <1>5, <2>1 DEF ReporterExact, ReporterWithin
<1> QED
  BY <1>4, <1>6, <1>7 DEF CallsInv

LEMMA CallsStep == CallsInv /\ [CallsNext]_java => CallsInv'
<1> SUFFICES ASSUME CallsInv, [CallsNext]_java PROVE CallsInv'
  OBVIOUS
<1>1. CASE UNCHANGED java
  BY <1>1 DEF CallsInv, CallStates, StackShape, StateShape, OneDefault, ReporterExact, ErrorsWithin, FailureKnown,
              ExceptionsOnTheirWay, ThrownToJava, Depth, TopCall, IsEntry, IsInvoke, Entering, ReporterWithin, DefaultContext,
              By, Unwrapped
<1>2. CASE (\E cx \in JSContexts : RunScript(cx)) \/ RunJava \/ invoke_java_method \/ jsj_enter_js
  BY <1>2, CallEntered
<1>3. CASE ScriptEnds \/ ScriptPasses \/ JS_ClearPendingException
  BY <1>3, ScriptLeaves
<1>4. CASE Throw
  BY <1>4, ScriptThrows
<1>5. CASE Catch
  BY <1>5, ScriptCatches
<1>6. CASE Fail \/ NullName
  BY <1>6, ScriptFails
<1>7. CASE JavaReturns \/ JavaDies
  BY <1>7, JavaLeaves
<1>8. CASE JavaThrows \/ JavaCatches
  BY <1>8, JavaGoesOn
<1>9. CASE JavaFails
  BY <1>9, JavaFailsInCaller
<1>10. CASE jsj_exit_js
  BY <1>10, EntryLeaves
<1>11. CASE Crash
  BY <1>11, NoDefault
<1>12. CASE NoReport
  BY <1>12, ReportMissing
<1> QED
  BY <1>1, <1>2, <1>3, <1>4, <1>5, <1>6, <1>7, <1>8, <1>9, <1>10, <1>11, <1>12 DEF CallsNext

LEMMA CallsInvSound == CallsInv => CallsSound
<1> SUFFICES ASSUME CallsInv PROVE DefaultRight
  BY DEF CallsSound, CallsInv
<1>1. Depth \in Nat /\ (Depth > 0 => TopCall = java.stack[Depth])
  BY StateForms
<1>2. ASSUME java.clean, In("java", "run"), TopCall.from = "js" PROVE java.env = TopCall.cx
  <2>1. IsInvoke(Depth) /\ Depth \in 1 .. Depth
    BY <1>1, <1>2 DEF In, IsInvoke
  <2>2. java.env # 0 /\ TopCall.cx = DefaultContext(java)
    BY <1>1, <1>2, <2>1 DEF CallsInv, OneDefault
  <2> QED
    BY <2>2 DEF DefaultContext
\* Without a default context Java was not called by a script.
<1>3. ASSUME java.state = "crashed" PROVE java.stack[1].lang = "java"
  <2>1. Depth > 0 /\ IsEntry(Depth) /\ java.env = 0
    BY <1>3 DEF CallsInv, StateShape
  <2>2. Depth > 1 /\ java.stack[Depth - 1].lang = "java" /\ Depth - 1 \in 1 .. Depth
    BY <1>1, <2>1 DEF CallsInv, StackShape
  <2>3. java.stack[Depth - 1].from = "host"
    <3>1. java.stack[Depth - 1] \in CallFrames
      BY <2>2, StateForms
    <3>2. ~ IsInvoke(Depth - 1)
      BY <2>1, <2>2 DEF CallsInv, OneDefault
    <3> QED
      BY <2>2, <3>1, <3>2, FrameForms DEF IsInvoke
  <2>4. Depth - 1 = 1
    BY <1>1, <2>2, <2>3 DEF CallsInv, StackShape
  <2> QED
    BY <2>2, <2>4
<1> QED
  BY <1>2, <1>3 DEF DefaultRight

\* However deep calls between JavaScript and Java nest on a thread, and
\* whatever fails, throws or catches on the way: every call from Java gives
\* back the error reporter it found, and a context that is NULL is asked for
\* an exception only in a thread of Java's own.  As long as nothing has gone
\* astray (java.clean: no exception was left by a script whose caller goes on
\* without clearing it, or cannot be converted; no error was reported on a
\* context that Java did not call, was left over by an exception, or waits
\* while Java calls again; no script on another context took the default over
\* from one that waits for Java) also the default context is that of the
\* script that called, an exception is on its way to a frame that still runs
\* or nowhere, and what goes wrong in a call from Java is thrown there
\* (jsj_MapJSContextToJSJThread, jsj_enter_js, jsj_exit_js,
\* vreport_java_error, throw_any_pending_js_error_as_a_java_exception).
THEOREM CallsCorrect == CallsSpec => []CallsSound
<1>1. (\E env \in {0, 1} : java = [CallsStart EXCEPT !.env = env]) => CallsInv
  BY CallsBegin
<1>2. CallsInv /\ [CallsNext]_java => CallsInv'
  BY CallsStep
<1>3. CallsInv => CallsSound
  BY CallsInvSound
<1> QED
  BY <1>1, <1>2, <1>3, PTL DEF CallsSpec

-----------------------------------------------------------------------------
\* The activations there can be.
Values == AssignedValues \cup {FirstArgument, UndefinedValue}
CallProps == UNION {[D -> [val : Values, at : BOOLEAN]] : D \in SUBSET Names}
ArgsProps == UNION {[D -> Values \cup Nat] : D \in SUBSET Nat}
ActivationSet ==
  [argc : Nat, argv : Seq(Values), v : Values, scope : Seq({"with", "fun", "call"}), withs : Nat,
   overrides : SUBSET {"length", "arguments", "callee", "caller"},
   call : [state : {"none", "linked", "put"}, props : CallProps, arguments : AssignedValues \cup {Object}],
   args : [state : {"none", "linked", "put"}, props : ArgsProps],
   closed : BOOLEAN, last : [Names -> Values], behind : SUBSET Names, len : Nat]

\* What is known of an activation whose frame is there, and what of one
\* that has been left.
Running(a) ==
  /\ a \in ActivationSet /\ Len(a.argv) >= 2 /\ a.argc <= Len(a.argv) /\ ScopeExact(a)
  /\ a.call.state # "put" /\ a.args.state # "put"
  /\ \A x \in Names : GetSlot(a, x) = a.last[x]
  /\ \A x \in DOMAIN a.call.props : Split(a, x) \/ x \in a.behind \/ a.call.props[x].val = a.last[x]
  /\ a.call.state = "none" => DOMAIN a.call.props = {}
  /\ a.argc <= a.len
  /\ "length" \notin a.overrides => a.len = a.argc
  /\ "length" \in a.overrides => a.args.state = "linked" /\ 0 \in DOMAIN a.args.props /\ a.args.props[0] = a.len
  /\ a.call.arguments = Object => "arguments" \notin a.overrides
  /\ a.closed => a.call.state # "none"
Left(a) ==
  /\ a \in ActivationSet /\ Len(a.argv) >= 2 /\ ScopeExact(a) /\ KeptWhenLeft(a)
  /\ a.closed => a.call.state = "put"

-----------------------------------------------------------------------------
LEMMA NamesOfSlots ==
  /\ Names = {"a", "b", "v"} /\ Formals = <<"a", "b">> /\ Len(Formals) = 2
  /\ Position("a") = 1 /\ Position("b") = 2 /\ Formals[1] = "a" /\ Formals[2] = "b"
  /\ \A x \in Names : x # "v" => Position(x) \in {1, 2} /\ Formals[Position(x)] = x
BY DEF Names, Formals, Position

LEMMA RunningSame ==
  ASSUME NEW a, Running(a)
  PROVE  SameWhileRunning(a)
<1>1. a \in ActivationSet
  BY DEF Running
<1>2. \A x \in DOMAIN a.call.props : x \in Names
  BY <1>1 DEF ActivationSet, CallProps
<1>3. ASSUME NEW x \in Names, x \in DOMAIN a.call.props, ~ Split(a, x)
      PROVE  call_getProperty(a, x) = a.last[x]
  <2>1. a.call.state = "linked"
    BY <1>1, <1>3 DEF Running, ActivationSet
  <2>2. Reaches(a, x)
    BY <1>3, <2>1 DEF Reaches, Split
  <2> QED
    BY <2>2 DEF call_getProperty, Running
<1>4. ASSUME a.args.state = "linked"
      PROVE  args_getProperty(a, 0) = a.len /\ \A i \in 1 .. a.argc : args_getProperty(a, i) = a.argv[i]
  <2>1. a.argc \in Nat /\ 0 \notin 1 .. a.argc
    BY <1>1 DEF ActivationSet
  <2>2. args_getProperty(a, 0) = a.len
    <3>1. CASE "length" \notin a.overrides
      BY <1>4, <3>1 DEF args_getProperty, Running
    <3>2. CASE "length" \in a.overrides
      BY <1>4, <2>1, <3>2 DEF args_getProperty, Running
    <3> QED
      BY <3>1, <3>2
  <2>3. ASSUME NEW i \in 1 .. a.argc PROVE args_getProperty(a, i) = a.argv[i]
    <3>1. i # 0
      BY <2>1
    <3> QED
      BY <1>4, <3>1 DEF args_getProperty
  <2> QED
    BY <2>2, <2>3
<1> QED
  BY <1>3, <1>4 DEF SameWhileRunning, Running

LEMMA ScopeKept ==
  ASSUME NEW a, NEW b, ScopeExact(a), b.scope = a.scope, b.withs = a.withs, (b.call.state = "none") <=> (a.call.state = "none")
  PROVE  ScopeExact(b)
BY DEF ScopeExact

\* A variable is assigned to in its slot.
LEMMA SlotAssigned ==
  ASSUME NEW a, Running(a), NEW x \in Names, NEW w \in Values,
         NEW p, p = PutSlot(a, x, w)
  PROVE  /\ p \in ActivationSet /\ p.argc = a.argc /\ Len(p.argv) = Len(a.argv) /\ p.scope = a.scope /\ p.withs = a.withs
         /\ p.overrides = a.overrides /\ p.call = a.call /\ p.args = a.args /\ p.closed = a.closed /\ p.last = a.last
         /\ p.behind = a.behind /\ p.len = a.len
         /\ GetSlot(p, x) = w /\ \A y \in Names : y # x => GetSlot(p, y) = GetSlot(a, y)
<1>1. a \in ActivationSet /\ Len(a.argv) >= 2 /\ a.argv \in Seq(Values)
  BY DEF Running, ActivationSet
<1>2. CASE x = "v"
  <2>1. p = [a EXCEPT !.v = w]
    BY <1>2 DEF PutSlot
  <2>2. /\ p \in ActivationSet /\ p.argc = a.argc /\ p.argv = a.argv /\ p.scope = a.scope /\ p.withs = a.withs
        /\ p.overrides = a.overrides /\ p.call = a.call /\ p.args = a.args /\ p.closed = a.closed /\ p.last = a.last
        /\ p.behind = a.behind /\ p.len = a.len /\ p.v = w
    BY <1>1, <2>1 DEF ActivationSet
  <2> QED
    BY <1>2, <2>2 DEF GetSlot
<1>3. CASE x # "v"
  <2>1. Position(x) \in 1 .. Len(a.argv)
    BY <1>1, <1>3, NamesOfSlots
  <2> DEFINE argv == [a.argv EXCEPT ![Position(x)] = w]
  <2>2. argv \in Seq(Values) /\ Len(argv) = Len(a.argv) /\ argv[Position(x)] = w
        /\ \A j \in 1 .. Len(a.argv) : j # Position(x) => argv[j] = a.argv[j]
    BY <1>1, <2>1, ExceptSeq
  <2>3. p = [a EXCEPT !.argv = argv]
    BY <1>1, <1>3 DEF PutSlot, ActivationSet
  <2> HIDE DEF argv
  <2>4. /\ p \in ActivationSet /\ p.argc = a.argc /\ p.argv = argv /\ p.scope = a.scope /\ p.withs = a.withs
        /\ p.overrides = a.overrides /\ p.call = a.call /\ p.args = a.args /\ p.closed = a.closed /\ p.last = a.last
        /\ p.behind = a.behind /\ p.len = a.len /\ p.v = a.v
    BY <1>1, <2>2, <2>3 DEF ActivationSet
  <2>5. \A y \in Names : y # x /\ y # "v" => Position(y) \in 1 .. Len(a.argv) /\ Position(y) # Position(x)
    BY <1>1, <1>3, NamesOfSlots
  <2> QED
    BY <1>3, <2>2, <2>4, <2>5 DEF GetSlot
<1> QED
  BY <1>2, <1>3

\* What is left to do is to note it.
LEMMA AssignedRunning ==
  ASSUME NEW a, Running(a), NEW x \in Names, NEW w \in Values,
         NEW p \in ActivationSet, p.argc = a.argc, Len(p.argv) = Len(a.argv), p.scope = a.scope, p.withs = a.withs,
         p.overrides = a.overrides, p.call = a.call, p.args.state = a.args.state, p.closed = a.closed, p.last = a.last,
         p.behind = a.behind, p.len = a.len,
         0 \in DOMAIN a.args.props => 0 \in DOMAIN p.args.props /\ p.args.props[0] = a.args.props[0],
         GetSlot(p, x) = w, \A y \in Names : y # x => GetSlot(p, y) = GetSlot(a, y)
  PROVE  Running(Assigned(p, x, w))
<1> DEFINE last == [p.last EXCEPT ![x] = w]
           behind == IF x \in DOMAIN p.call.props THEN p.behind \cup {x} ELSE p.behind
<1> PICK b : b = Assigned(p, x, w)
  OBVIOUS
<1>1. b = [p EXCEPT !.last = last, !.behind = behind]
  BY DEF Assigned, ActivationSet
<1>2. last \in [Names -> Values] /\ behind \in SUBSET Names /\ last[x] = w /\ \A y \in Names : y # x => last[y] = a.last[y]
  BY DEF ActivationSet
<1>3. p.behind \subseteq behind /\ (x \in DOMAIN a.call.props => x \in behind)
  OBVIOUS
<1> HIDE DEF last, behind
<1>4. /\ b \in ActivationSet /\ b.argc = p.argc /\ b.argv = p.argv /\ b.v = p.v /\ b.scope = p.scope /\ b.withs = p.withs
      /\ b.overrides = p.overrides /\ b.call = p.call /\ b.args = p.args /\ b.closed = p.closed /\ b.last = last
      /\ b.behind = behind /\ b.len = p.len
  BY <1>1, <1>2 DEF ActivationSet
<1>5. ScopeExact(b)
  BY <1>4, ScopeKept DEF Running
<1>6. \A y \in Names : GetSlot(b, y) = b.last[y]
  <2>1. \A y \in Names : GetSlot(b, y) = GetSlot(p, y)
    BY <1>4 DEF GetSlot
  <2> QED
    BY <1>2, <1>4, <2>1 DEF Running
<1>7. ASSUME NEW y \in DOMAIN b.call.props PROVE Split(b, y) \/ y \in b.behind \/ b.call.props[y].val = b.last[y]
  <2>1. y \in DOMAIN a.call.props /\ y \in Names /\ (Split(b, y) <=> Split(a, y))
    BY <1>4 DEF Split, InFrame, ActivationSet, CallProps
  <2>2. CASE y = x
    BY <1>3, <1>4, <2>1, <2>2
  <2>3. CASE y # x
    BY <1>2, <1>3, <1>4, <2>1, <2>3 DEF Running
  <2> QED
    BY <2>2, <2>3
<1> QED
  BY <1>4, <1>5, <1>6, <1>7 DEF Running

LEMMA SlotRunning ==
  ASSUME NEW a, Running(a), NEW x \in Names, NEW w \in Values
  PROVE  Running(Assigned(PutSlot(a, x, w), x, w))
<1> PICK p : p = PutSlot(a, x, w)
  OBVIOUS
<1>1. /\ p \in ActivationSet /\ p.argc = a.argc /\ Len(p.argv) = Len(a.argv) /\ p.scope = a.scope /\ p.withs = a.withs
      /\ p.overrides = a.overrides /\ p.call = a.call /\ p.args = a.args /\ p.closed = a.closed /\ p.last = a.last
      /\ p.behind = a.behind /\ p.len = a.len
      /\ GetSlot(p, x) = w /\ \A y \in Names : y # x => GetSlot(p, y) = GetSlot(a, y)
  BY SlotAssigned
<1> QED
  BY <1>1, AssignedRunning

-----------------------------------------------------------------------------
\* The Arguments object of an activation that runs.  A step that leaves the
\* slots and the Call object alone:
LEMMA ArgumentsChanged ==
  ASSUME NEW a, Running(a), NEW b \in ActivationSet, b.argv = a.argv, b.v = a.v, b.scope = a.scope, b.withs = a.withs,
         b.call = a.call, b.closed = a.closed, b.last = a.last, b.behind = a.behind, b.argc <= a.argc,
         b.args.state # "put", b.argc <= b.len, "arguments" \in b.overrides => "arguments" \in a.overrides,
         "length" \notin b.overrides => b.len = b.argc,
         "length" \in b.overrides => b.args.state = "linked" /\ 0 \in DOMAIN b.args.props /\ b.args.props[0] = b.len
  PROVE  Running(b)
<1>1. ScopeExact(b)
  BY ScopeKept DEF Running
<1>2. \A y \in Names : GetSlot(b, y) = b.last[y]
  BY DEF GetSlot, Running
<1>3. ASSUME NEW y \in DOMAIN b.call.props PROVE Split(b, y) \/ y \in b.behind \/ b.call.props[y].val = b.last[y]
  <2>1. y \in DOMAIN a.call.props /\ y \in Names
    BY DEF ActivationSet, CallProps
  <2>2. a.argc \in Nat /\ b.argc \in Nat /\ (y # "v" => Position(y) \in Nat)
    BY <2>1, NamesOfSlots DEF ActivationSet, Running
  <2>3. Split(a, y) => Split(b, y)
    BY <2>1, <2>2 DEF Split, InFrame
  <2> QED
    BY <2>1, <2>3 DEF Running
<1>4. Len(b.argv) >= 2 /\ b.argc <= Len(b.argv)
  BY DEF Running, ActivationSet
<1> QED
  BY <1>1, <1>2, <1>3, <1>4 DEF Running

LEMMA AskedRunning ==
  ASSUME NEW a, Running(a)
  PROVE  Running(GetArgsObject(a)) /\ GetArgsObject(a).args.state = "linked"
<1>1. a \in ActivationSet
  BY DEF Running
<1>2. CASE a.args.state = "linked"
  BY <1>2 DEF GetArgsObject
<1>3. CASE a.args.state # "linked"
  <2>1. PICK b : b = GetArgsObject(a)
    OBVIOUS
  <2> DEFINE args == [state |-> "linked", props |-> NoProps]
  <2>2. b = [a EXCEPT !.args = args]
    BY <1>3, <2>1 DEF GetArgsObject
  <2>3. args \in [state : {"none", "linked", "put"}, props : ArgsProps] /\ args.state = "linked"
    BY DEF NoProps, ArgsProps
  <2> HIDE DEF args
  <2>4. /\ b \in ActivationSet /\ b.argv = a.argv /\ b.v = a.v /\ b.scope = a.scope /\ b.withs = a.withs
        /\ b.call = a.call /\ b.closed = a.closed /\ b.last = a.last /\ b.behind = a.behind /\ b.argc = a.argc
        /\ b.args = args /\ b.len = a.len /\ b.overrides = a.overrides
    BY <1>1, <2>2, <2>3 DEF ActivationSet
  <2>5. "length" \notin a.overrides /\ a.len = a.argc
    BY <1>3 DEF Running
  <2>6. b.argc <= a.argc /\ b.argc <= b.len
    BY <1>1, <2>4, <2>5 DEF ActivationSet
  <2>7. Running(b)
    BY <2>3, <2>4, <2>5, <2>6, ArgumentsChanged
  <2> QED
    BY <2>1, <2>3, <2>4, <2>7
<1> QED
  BY <1>2, <1>3

\* Properties of an Arguments object are set.
ArgsPropOnly(a, i, w, b) ==
  /\ b \in ActivationSet /\ b.argv = a.argv /\ b.v = a.v /\ b.scope = a.scope /\ b.withs = a.withs
  /\ b.call = a.call /\ b.closed = a.closed /\ b.last = a.last /\ b.behind = a.behind /\ b.argc = a.argc
  /\ b.len = a.len /\ b.overrides = a.overrides /\ b.args.state = a.args.state
  /\ DOMAIN b.args.props = DOMAIN a.args.props \cup {i} /\ b.args.props[i] = w
  /\ \A j \in DOMAIN a.args.props : j # i => b.args.props[j] = a.args.props[j]

LEMMA ArgsPropSet ==
  ASSUME NEW a \in ActivationSet, NEW i \in Nat, NEW w \in Values \cup Nat
  PROVE  ArgsPropOnly(a, i, w, Own(a, i, w))
<1> PICK b : b = Own(a, i, w)
  OBVIOUS
<1> DEFINE props == With(a.args.props, i, w)
<1>1. PICK D \in SUBSET Nat : a.args.props \in [D -> Values \cup Nat]
  BY DEF ActivationSet, ArgsProps
<1>2. /\ props \in [D \cup {i} -> Values \cup Nat] /\ D \cup {i} \in SUBSET Nat /\ props[i] = w
      /\ \A j \in D : j # i => props[j] = a.args.props[j]
  BY <1>1 DEF With
<1>3. props \in ArgsProps
  BY <1>2 DEF ArgsProps
<1>4. b = [a EXCEPT !.args = [a.args EXCEPT !.props = props]]
  BY DEF ActivationSet, Own
<1> HIDE DEF props
<1>5. /\ b \in ActivationSet /\ b.argv = a.argv /\ b.v = a.v /\ b.scope = a.scope /\ b.withs = a.withs
      /\ b.call = a.call /\ b.closed = a.closed /\ b.last = a.last /\ b.behind = a.behind /\ b.argc = a.argc
      /\ b.len = a.len /\ b.overrides = a.overrides /\ b.args = [a.args EXCEPT !.props = props]
  BY <1>3, <1>4 DEF ActivationSet
<1>6. b.args.state = a.args.state /\ b.args.props = props
  BY <1>5 DEF ActivationSet
<1> QED
  BY <1>1, <1>2, <1>5, <1>6 DEF ArgsPropOnly

LEMMA ElementAssigned ==
  ASSUME NEW a, Running(a), a.args.state = "linked", NEW i \in Nat \ {0}, NEW w \in Values
  PROVE  Running(SetElement(a, i, w))
<1>0. a \in ActivationSet /\ Len(a.argv) >= 2 /\ a.argv \in Seq(Values) /\ a.argc \in Nat /\ a.argc <= Len(a.argv)
  BY DEF Running, ActivationSet
<1>1. PICK own : own = Own(a, i, w)
  OBVIOUS
<1>a. i \in Nat /\ i # 0 /\ w \in Values \cup Nat /\ a.args.state = "linked"
  OBVIOUS
<1>2. /\ own \in ActivationSet /\ own.argv = a.argv /\ own.v = a.v /\ own.scope = a.scope /\ own.withs = a.withs
      /\ own.call = a.call /\ own.closed = a.closed /\ own.last = a.last /\ own.behind = a.behind /\ own.argc = a.argc
      /\ own.len = a.len /\ own.overrides = a.overrides /\ own.args.state = "linked"
      /\ DOMAIN own.args.props = DOMAIN a.args.props \cup {i}
      /\ \A j \in DOMAIN a.args.props : j # i => own.args.props[j] = a.args.props[j]
  <2>1. ArgsPropOnly(a, i, w, own)
    BY <1>0, <1>1, <1>a, ArgsPropSet
  <2> QED
    BY <1>a, <2>1 DEF ArgsPropOnly
<1>3. 0 \in DOMAIN a.args.props => 0 \in DOMAIN own.args.props /\ own.args.props[0] = a.args.props[0]
  BY <1>2
<1>4. CASE i \notin 1 .. a.argc
  <2>1. SetElement(a, i, w) = own
    BY <1>1, <1>4 DEF SetElement
  <2>2. Running(own)
    BY <1>0, <1>2, <1>3, ArgumentsChanged DEF Running
  <2> QED
    BY <2>1, <2>2
<1>5. CASE i \in 1 .. a.argc
  <2> DEFINE argv == [a.argv EXCEPT ![i] = w]
  <2>1. PICK slot : slot = [own EXCEPT !.argv[i] = w]
    OBVIOUS
  <2>2. slot = [own EXCEPT !.argv = argv]
    BY <1>2, <2>1
  <2>3. argv \in Seq(Values) /\ Len(argv) = Len(a.argv) /\ argv[i] = w /\ \A j \in 1 .. Len(a.argv) : j # i => argv[j] = a.argv[j]
    <3>1. i \in 1 .. Len(a.argv)
      BY <1>0, <1>5
    <3> QED
      BY <1>0, <3>1, ExceptSeq
  <2> HIDE DEF argv
  <2>4. /\ slot \in ActivationSet /\ slot.argv = argv /\ slot.v = a.v /\ slot.scope = a.scope /\ slot.withs = a.withs
        /\ slot.call = a.call /\ slot.closed = a.closed /\ slot.last = a.last /\ slot.behind = a.behind /\ slot.argc = a.argc
        /\ slot.len = a.len /\ slot.overrides = a.overrides /\ slot.args = own.args
    BY <1>2, <2>2, <2>3 DEF ActivationSet
  <2>5. \A y \in Names : y # "v" => Position(y) \in 1 .. Len(a.argv)
    BY <1>0, NamesOfSlots
  <2>6. CASE i <= Len(Formals)
    <3>1. PICK x \in Names : x = Formals[i] /\ x # "v" /\ Position(x) = i
      BY <1>5, <2>6, NamesOfSlots
    <3>2. SetElement(a, i, w) = Assigned(slot, x, w)
      BY <1>1, <1>5, <2>1, <2>6, <3>1 DEF SetElement
    <3>3. GetSlot(slot, x) = w /\ \A y \in Names : y # x => GetSlot(slot, y) = GetSlot(a, y)
      <4>1. \A y \in Names : y # x /\ y # "v" => Position(y) # i
        BY <3>1, NamesOfSlots
      <4> QED
        BY <2>3, <2>4, <2>5, <3>1, <4>1 DEF GetSlot
    <3>4. Running(Assigned(slot, x, w))
      BY <1>2, <1>3, <2>3, <2>4, <3>3, AssignedRunning
    <3> QED
      BY <3>2, <3>4
  <2>7. CASE ~ (i <= Len(Formals))
    <3>1. SetElement(a, i, w) = slot
      BY <1>1, <1>5, <2>1, <2>7 DEF SetElement
    <3>2. \A y \in Names : GetSlot(slot, y) = slot.last[y]
      <4>1. \A y \in Names : y # "v" => Position(y) # i
        BY <2>7, NamesOfSlots
      <4> QED
        BY <2>3, <2>4, <2>5, <4>1 DEF GetSlot, Running
    <3>3. ScopeExact(slot)
      BY <2>4, ScopeKept DEF Running
    <3>4. ASSUME NEW y \in DOMAIN slot.call.props PROVE Split(slot, y) \/ y \in slot.behind \/ slot.call.props[y].val = slot.last[y]
      <4>1. Split(slot, y) <=> Split(a, y)
        BY <2>4 DEF Split, InFrame
      <4> QED
        BY <2>4, <4>1 DEF Running
    <3>5. Running(slot)
      BY <1>0, <1>2, <1>3, <2>3, <2>4, <3>2, <3>3, <3>4 DEF Running
    <3> QED
      BY <3>1, <3>5
  <2> QED
    BY <2>6, <2>7
<1> QED
  BY <1>4, <1>5

LEMMA ArgsReplaced ==
  ASSUME NEW a, Running(a), NEW props \in ArgsProps, 0 \in DOMAIN a.args.props => 0 \in DOMAIN props /\ props[0] = a.args.props[0]
  PROVE  Running([a EXCEPT !.args.props = props])
<1>1. a \in ActivationSet
  BY DEF Running
<1>2. PICK b : b = [a EXCEPT !.args.props = props]
  OBVIOUS
<1>3. /\ b \in ActivationSet /\ b.argv = a.argv /\ b.v = a.v /\ b.scope = a.scope /\ b.withs = a.withs
      /\ b.call = a.call /\ b.closed = a.closed /\ b.last = a.last /\ b.behind = a.behind /\ b.argc = a.argc
      /\ b.len = a.len /\ b.overrides = a.overrides /\ b.args.state = a.args.state /\ b.args.props = props
  BY <1>1, <1>2 DEF ActivationSet
<1>4. /\ b.args.state # "put" /\ b.argc <= b.len /\ b.argc <= a.argc
      /\ "length" \notin b.overrides => b.len = b.argc
      /\ "length" \in b.overrides => b.args.state = "linked" /\ 0 \in DOMAIN b.args.props /\ b.args.props[0] = b.len
  BY <1>1, <1>3 DEF Running, ActivationSet
<1>5. Running(b)
  BY <1>3, <1>4, ArgumentsChanged
<1> QED
  BY <1>2, <1>5

\* What there is of an Arguments object.
LEMMA ArgsHas ==
  ASSUME NEW a \in ActivationSet, a.argc <= Len(a.argv)
  PROVE  /\ a.argc \in Nat /\ \A i \in 1 .. a.argc : a.argv[i] \in Values
         /\ \A i \in DOMAIN a.args.props : i \in Nat /\ a.args.props[i] \in Values \cup Nat
         /\ \A i \in Nat : args_getProperty(a, i) \in Values \cup Nat
<1>1. /\ a.argc \in Nat /\ \A i \in 1 .. a.argc : a.argv[i] \in Values
  <2>1. a.argv \in Seq(Values) /\ a.argc \in Nat
    BY DEF ActivationSet
  <2>2. \A i \in 1 .. a.argc : i \in 1 .. Len(a.argv)
    BY <2>1
  <2> QED
    BY <2>1, <2>2, ElementOfSeq
<1>2. \A i \in DOMAIN a.args.props : i \in Nat /\ a.args.props[i] \in Values \cup Nat
  <2>1. a.args.props \in ArgsProps
    BY DEF ActivationSet
  <2>2. PICK D \in SUBSET Nat : a.args.props \in [D -> Values \cup Nat]
    BY <2>1 DEF ArgsProps
  <2> QED
    BY <2>2
<1>3. \A i \in Nat : args_getProperty(a, i) \in Values \cup Nat
  BY <1>1, <1>2 DEF args_getProperty, Values
<1> QED
  BY <1>1, <1>2, <1>3

LEMMA ElementUsed ==
  ASSUME NEW a, Running(a), NEW i \in Nat \ {0}
  PROVE  Running(GetElement(a, i))
<1>1. CASE i \notin DOMAIN a.args.props
  BY <1>1 DEF GetElement
<1>2. CASE i \in DOMAIN a.args.props
  <2>1. a \in ActivationSet /\ args_getProperty(a, i) \in Values \cup Nat
    BY ArgsHas DEF Running
  <2> DEFINE props == [a.args.props EXCEPT ![i] = args_getProperty(a, i)]
  <2>2. PICK D \in SUBSET Nat : a.args.props \in [D -> Values \cup Nat]
    BY <2>1 DEF ActivationSet, ArgsProps
  <2>3. props \in [D -> Values \cup Nat] /\ (0 \in D => props[0] = a.args.props[0])
    BY <2>1, <2>2
  <2>4. props \in ArgsProps /\ (0 \in DOMAIN a.args.props => 0 \in DOMAIN props /\ props[0] = a.args.props[0])
    BY <2>2, <2>3 DEF ArgsProps
  <2>5. GetElement(a, i) = [a EXCEPT !.args.props = props]
    BY <1>2, <2>1 DEF GetElement, ActivationSet
  <2> HIDE DEF props
  <2> QED
    BY <2>4, <2>5, ArgsReplaced
<1> QED
  BY <1>1, <1>2

LEMMA Enumerated ==
  ASSUME NEW a, Running(a), a.args.state = "linked"
  PROVE  /\ Running(args_enumerate(a))
         /\ LET e == args_enumerate(a)
            IN /\ e.argc = a.argc /\ e.argv = a.argv /\ e.len = a.len /\ e.overrides = a.overrides /\ e.call = a.call
               /\ e.args.state = "linked" /\ e.scope = a.scope /\ e.withs = a.withs /\ e.closed = a.closed /\ e.last = a.last
               /\ e.behind = a.behind /\ e.v = a.v
               /\ \A i \in 1 .. a.argc : i \in DOMAIN e.args.props /\ e.args.props[i] = a.argv[i]
<1>1. /\ a \in ActivationSet /\ a.argc \in Nat /\ \A i \in 1 .. a.argc : a.argv[i] \in Values
      /\ \A i \in DOMAIN a.args.props : i \in Nat /\ a.args.props[i] \in Values \cup Nat
  BY ArgsHas DEF Running
<1> DEFINE D == 1 .. a.argc \cup DOMAIN a.args.props
           props == [i \in D |-> IF i \in 1 .. a.argc THEN a.argv[i] ELSE a.args.props[i]]
<1>2. D \in SUBSET Nat /\ props \in [D -> Values \cup Nat]
  BY <1>1
<1>3. props \in ArgsProps
  BY <1>2 DEF ArgsProps
<1>4. /\ 0 \in DOMAIN a.args.props => 0 \in DOMAIN props /\ props[0] = a.args.props[0]
      /\ \A i \in 1 .. a.argc : i \in DOMAIN props /\ props[i] = a.argv[i]
  BY <1>1
<1>5. args_enumerate(a) = [a EXCEPT !.args.props = props]
  BY <1>1 DEF args_enumerate, ActivationSet
<1> HIDE DEF props
<1>6. Running([a EXCEPT !.args.props = props])
  BY <1>3, <1>4, ArgsReplaced
<1>7. PICK e : e = args_enumerate(a)
  OBVIOUS
<1>8. /\ e.argc = a.argc /\ e.argv = a.argv /\ e.len = a.len /\ e.overrides = a.overrides /\ e.call = a.call
      /\ e.args.state = "linked" /\ e.scope = a.scope /\ e.withs = a.withs /\ e.closed = a.closed /\ e.last = a.last
      /\ e.behind = a.behind /\ e.v = a.v /\ e.args.props = props
  BY <1>1, <1>5, <1>7 DEF ActivationSet
<1> QED
  BY <1>4, <1>5, <1>6, <1>7, <1>8

LEMMA LengthAssigned ==
  ASSUME NEW a, Running(a), a.args.state = "linked", NEW n \in Nat
  PROVE  /\ Running(SetLength(a, n))
         /\ LET b == SetLength(a, n)
            IN /\ b.argv = a.argv /\ b.len = n /\ b.argc = (IF n < a.argc THEN n ELSE a.argc)
               /\ b.overrides = a.overrides \cup {"length"} /\ b.args.state = "linked" /\ b.call = a.call
               /\ b.scope = a.scope /\ b.withs = a.withs /\ b.closed = a.closed /\ b.last = a.last /\ b.behind = a.behind
               /\ 0 \in DOMAIN b.args.props /\ b.args.props[0] = n
               /\ \A i \in DOMAIN a.args.props : i # 0 => i \in DOMAIN b.args.props /\ b.args.props[i] = a.args.props[i]
<1>1. a \in ActivationSet /\ a.argc \in Nat
  BY DEF Running, ActivationSet
<1>2. PICK own : own = Own(a, 0, n)
  OBVIOUS
<1>3. ArgsPropOnly(a, 0, n, own)
  BY <1>1, <1>2, ArgsPropSet
<1> DEFINE argc == IF n < a.argc THEN n ELSE a.argc
<1>4. PICK b : b = SetLength(a, n)
  OBVIOUS
<1>5. own \in ActivationSet /\ own.argc = a.argc /\ own.overrides = a.overrides /\ own.args.state = "linked"
  BY <1>3 DEF ArgsPropOnly
<1>6. b = [own EXCEPT !.argc = argc, !.overrides = a.overrides \cup {"length"}, !.len = n]
  BY <1>2, <1>4, <1>5 DEF SetLength
<1>7. argc \in Nat /\ argc <= a.argc /\ argc <= n
  BY <1>1
<1> HIDE DEF argc
<1>8. /\ b \in ActivationSet /\ b.argc = argc /\ b.argv = own.argv /\ b.v = own.v /\ b.scope = own.scope /\ b.withs = own.withs
      /\ b.overrides = a.overrides \cup {"length"} /\ b.call = own.call /\ b.args = own.args /\ b.closed = own.closed
      /\ b.last = own.last /\ b.behind = own.behind /\ b.len = n
  BY <1>5, <1>6, <1>7 DEF ActivationSet
<1>9. /\ b.argv = a.argv /\ b.v = a.v /\ b.scope = a.scope /\ b.withs = a.withs /\ b.call = a.call /\ b.closed = a.closed
      /\ b.last = a.last /\ b.behind = a.behind /\ 0 \in DOMAIN b.args.props /\ b.args.props[0] = n
      /\ \A i \in DOMAIN a.args.props : i # 0 => i \in DOMAIN b.args.props /\ b.args.props[i] = a.args.props[i]
  BY <1>3, <1>8 DEF ArgsPropOnly
<1>10. Running(b)
  BY <1>5, <1>7, <1>8, <1>9, ArgumentsChanged
<1> QED
  BY <1>4, <1>5, <1>8, <1>9, <1>10 DEF argc

-----------------------------------------------------------------------------
\* The scope chain and the Call object of an activation that runs.
LEMMA ScopeForms ==
  ASSUME NEW a \in ActivationSet
  PROVE  ScopeExact(a) <=>
           /\ Len(a.scope) = a.withs + 1
           /\ \A i \in 1 .. a.withs + 1 : a.scope[i] = IF i <= a.withs THEN "with" ELSE IF a.call.state = "none" THEN "fun" ELSE "call"
<1> DEFINE S == {"with", "fun", "call"}
           exact == [i \in 1 .. a.withs + 1 |-> IF i <= a.withs THEN "with" ELSE IF a.call.state = "none" THEN "fun" ELSE "call"]
<1>1. a.scope \in Seq(S) /\ a.withs \in Nat /\ a.withs + 1 \in Nat
  BY DEF ActivationSet
<1>2. exact \in Seq(S) /\ Len(exact) = a.withs + 1
  <2>1. exact \in [1 .. a.withs + 1 -> S]
    OBVIOUS
  <2> HIDE DEF exact, S
  <2> QED
    BY <1>1, <2>1
<1>3. \A i \in 1 .. a.withs + 1 : exact[i] = IF i <= a.withs THEN "with" ELSE IF a.call.state = "none" THEN "fun" ELSE "call"
  OBVIOUS
<1>4. ScopeExact(a) <=> a.scope = exact
  BY DEF ScopeExact
<1> HIDE DEF exact, S
<1>5. ASSUME Len(a.scope) = a.withs + 1,
             \A i \in 1 .. a.withs + 1 : a.scope[i] = IF i <= a.withs THEN "with" ELSE IF a.call.state = "none" THEN "fun" ELSE "call"
      PROVE  a.scope = exact
  <2>1. \A i \in 1 .. Len(a.scope) : a.scope[i] = exact[i]
    BY <1>3, <1>5
  <2> QED
    BY <1>1, <1>2, <1>5, <2>1, SeqEqual
<1> QED
  BY <1>2, <1>3, <1>4, <1>5

LEMMA WithEntered ==
  ASSUME NEW a, Running(a)
  PROVE  /\ Running([a EXCEPT !.withs = @ + 1, !.scope = <<"with">> \o @])
         /\ a.withs > 0 => Running([a EXCEPT !.withs = @ - 1, !.scope = Tail(@)])
<1>1. a \in ActivationSet /\ a.scope \in Seq({"with", "fun", "call"}) /\ a.withs \in Nat
  BY DEF Running, ActivationSet
<1>2. /\ Len(a.scope) = a.withs + 1
      /\ \A i \in 1 .. a.withs + 1 : a.scope[i] = IF i <= a.withs THEN "with" ELSE IF a.call.state = "none" THEN "fun" ELSE "call"
  BY <1>1, ScopeForms DEF Running
<1>3. ASSUME NEW scope \in Seq({"with", "fun", "call"}), NEW withs \in Nat, Len(scope) = withs + 1,
             \A i \in 1 .. withs + 1 : scope[i] = IF i <= withs THEN "with" ELSE IF a.call.state = "none" THEN "fun" ELSE "call"
      PROVE  Running([a EXCEPT !.withs = withs, !.scope = scope])
  <2>1. PICK b : b = [a EXCEPT !.withs = withs, !.scope = scope]
    OBVIOUS
  <2>2. /\ b \in ActivationSet /\ b.argc = a.argc /\ b.argv = a.argv /\ b.v = a.v /\ b.scope = scope /\ b.withs = withs
        /\ b.overrides = a.overrides /\ b.call = a.call /\ b.args = a.args /\ b.closed = a.closed /\ b.last = a.last
        /\ b.behind = a.behind /\ b.len = a.len
    BY <1>1, <2>1 DEF ActivationSet
  <2>3. ScopeExact(b)
    BY <1>3, <2>2, ScopeForms
  <2>4. \A y \in Names : GetSlot(b, y) = b.last[y]
    BY <2>2 DEF GetSlot, Running
  <2>5. \A y \in DOMAIN b.call.props : Split(b, y) <=> Split(a, y)
    BY <2>2 DEF Split, InFrame
  <2>6. Running(b)
    BY <2>2, <2>3, <2>4, <2>5 DEF Running
  <2> QED
    BY <2>1, <2>6
<1>4. Running([a EXCEPT !.withs = @ + 1, !.scope = <<"with">> \o @])
  <2>1. PICK scope : scope = <<"with">> \o a.scope
    OBVIOUS
  <2>2. PICK withs \in Nat : withs = a.withs + 1
    BY <1>1
  <2>3. scope \in Seq({"with", "fun", "call"}) /\ Len(scope) = withs + 1
    BY <1>1, <1>2, <2>1, <2>2
  <2>4. ASSUME NEW i \in 1 .. withs + 1
        PROVE  scope[i] = IF i <= withs THEN "with" ELSE IF a.call.state = "none" THEN "fun" ELSE "call"
    <3>1. CASE i = 1
      BY <1>1, <2>1, <2>2, <3>1
    <3>2. CASE i # 1
      <4>1. scope[i] = a.scope[i - 1] /\ i - 1 \in 1 .. a.withs + 1 /\ (i - 1 <= a.withs <=> i <= withs)
        BY <1>1, <1>2, <2>1, <2>2, <3>2
      <4> QED
        BY <1>2, <4>1
    <3> QED
      BY <3>1, <3>2
  <2>5. Running([a EXCEPT !.withs = withs, !.scope = scope])
    BY <1>3, <2>3, <2>4
  <2> QED
    BY <2>1, <2>2, <2>5
<1>5. ASSUME a.withs > 0 PROVE Running([a EXCEPT !.withs = @ - 1, !.scope = Tail(@)])
  <2>1. PICK scope : scope = Tail(a.scope)
    OBVIOUS
  <2>0. a.withs - 1 \in Nat
    BY <1>1, <1>5
  <2>2. PICK withs \in Nat : withs = a.withs - 1
    BY <2>0
  <2>3. scope \in Seq({"with", "fun", "call"}) /\ Len(scope) = withs + 1 /\ \A i \in 1 .. withs + 1 : scope[i] = a.scope[i + 1]
    BY <1>1, <1>2, <1>5, <2>1, <2>2, HeadTailProperties
  <2>4. ASSUME NEW i \in 1 .. withs + 1
        PROVE  scope[i] = IF i <= withs THEN "with" ELSE IF a.call.state = "none" THEN "fun" ELSE "call"
    <3>1. scope[i] = a.scope[i + 1] /\ i + 1 \in 1 .. a.withs + 1 /\ (i + 1 <= a.withs <=> i <= withs)
      BY <1>1, <2>2, <2>3
    <3> QED
      BY <1>2, <3>1
  <2>5. Running([a EXCEPT !.withs = withs, !.scope = scope])
    BY <1>3, <2>3, <2>4
  <2> QED
    BY <2>1, <2>2, <2>5
<1> QED
  BY <1>4, <1>5

LEMMA CallAsked ==
  ASSUME NEW a, Running(a)
  PROVE  Running(GetCallObject(a)) /\ GetCallObject(a).call.state = "linked"
<1>1. a \in ActivationSet /\ a.scope \in Seq({"with", "fun", "call"}) /\ a.withs \in Nat
  BY DEF Running, ActivationSet
<1>2. CASE a.call.state = "linked"
  BY <1>2 DEF GetCallObject
<1>3. CASE a.call.state # "linked"
  <2>1. /\ Len(a.scope) = a.withs + 1
        /\ \A i \in 1 .. a.withs + 1 : a.scope[i] = IF i <= a.withs THEN "with" ELSE IF a.call.state = "none" THEN "fun" ELSE "call"
    BY <1>1, ScopeForms DEF Running
  <2>2. PICK b : b = GetCallObject(a)
    OBVIOUS
  <2> DEFINE scope == [a.scope EXCEPT ![Len(a.scope)] = "call"]
             call == [a.call EXCEPT !.state = "linked"]
  <2>3. b = [a EXCEPT !.call = call, !.scope = scope]
    BY <1>1, <1>3, <2>2 DEF GetCallObject, ActivationSet
  <2>4. /\ scope \in Seq({"with", "fun", "call"}) /\ Len(scope) = a.withs + 1 /\ scope[a.withs + 1] = "call"
        /\ \A i \in 1 .. a.withs + 1 : i # a.withs + 1 => scope[i] = a.scope[i]
    <3>1. Len(a.scope) \in 1 .. Len(a.scope) /\ "call" \in {"with", "fun", "call"}
      BY <1>1, <2>1
    <3> QED
      BY <1>1, <2>1, <3>1, ExceptSeq
  <2>5. /\ call \in [state : {"none", "linked", "put"}, props : CallProps, arguments : AssignedValues \cup {Object}]
        /\ call.state = "linked" /\ call.props = a.call.props /\ call.arguments = a.call.arguments
    BY <1>1 DEF ActivationSet
  <2> HIDE DEF scope, call
  <2>6. /\ b \in ActivationSet /\ b.argc = a.argc /\ b.argv = a.argv /\ b.v = a.v /\ b.scope = scope /\ b.withs = a.withs
        /\ b.overrides = a.overrides /\ b.call = call /\ b.args = a.args /\ b.closed = a.closed /\ b.last = a.last
        /\ b.behind = a.behind /\ b.len = a.len
    BY <1>1, <2>3, <2>4, <2>5 DEF ActivationSet
  <2>7. ScopeExact(b)
    <3>1. \A i \in 1 .. a.withs + 1 : i <= a.withs <=> i # a.withs + 1
      BY <1>1
    <3>2. \A i \in 1 .. b.withs + 1 : b.scope[i] = IF i <= b.withs THEN "with" ELSE IF b.call.state = "none" THEN "fun" ELSE "call"
      BY <1>1, <2>1, <2>4, <2>5, <2>6, <3>1
    <3> QED
      BY <2>4, <2>6, <3>2, ScopeForms
  <2>8. \A y \in Names : GetSlot(b, y) = b.last[y]
    BY <2>6 DEF GetSlot, Running
  <2>9. \A y \in DOMAIN b.call.props : Split(b, y) <=> Split(a, y)
    BY <2>5, <2>6 DEF Split, InFrame
  <2>10. b.call.props = a.call.props /\ b.call.state = "linked" /\ b.call.arguments = a.call.arguments
    BY <2>5, <2>6
  <2>11. Running(b)
    BY <2>6, <2>7, <2>8, <2>9, <2>10 DEF Running
  <2> QED
    BY <2>2, <2>10, <2>11
<1> QED
  BY <1>2, <1>3

LEMMA ClosureMade ==
  ASSUME NEW a, Running(a), a.call.state = "linked"
  PROVE  Running([a EXCEPT !.closed = TRUE])
<1>1. a \in ActivationSet
  BY DEF Running
<1>2. PICK b : b = [a EXCEPT !.closed = TRUE]
  OBVIOUS
<1>3. /\ b \in ActivationSet /\ b.argc = a.argc /\ b.argv = a.argv /\ b.v = a.v /\ b.scope = a.scope /\ b.withs = a.withs
      /\ b.overrides = a.overrides /\ b.call = a.call /\ b.args = a.args /\ b.closed /\ b.last = a.last
      /\ b.behind = a.behind /\ b.len = a.len
  BY <1>1, <1>2 DEF ActivationSet
<1>4. ScopeExact(b)
  BY <1>3, ScopeKept DEF Running
<1>5. \A y \in Names : GetSlot(b, y) = b.last[y]
  BY <1>3 DEF GetSlot, Running
<1>6. \A y \in DOMAIN b.call.props : Split(b, y) <=> Split(a, y)
  BY <1>3 DEF Split, InFrame
<1>7. Running(b)
  BY <1>3, <1>4, <1>5, <1>6 DEF Running
<1> QED
  BY <1>2, <1>7

LEMMA ArgumentsAssigned ==
  ASSUME NEW a, Running(a), NEW w \in AssignedValues
  PROVE  Running([a EXCEPT !.call.arguments = w, !.overrides = @ \cup {"arguments"}])
<1>1. a \in ActivationSet
  BY DEF Running
<1>2. PICK b : b = [a EXCEPT !.call.arguments = w, !.overrides = @ \cup {"arguments"}]
  OBVIOUS
<1> DEFINE call == [a.call EXCEPT !.arguments = w]
<1>3. b = [a EXCEPT !.call = call, !.overrides = a.overrides \cup {"arguments"}]
  BY <1>1, <1>2 DEF ActivationSet
<1>4. /\ call \in [state : {"none", "linked", "put"}, props : CallProps, arguments : AssignedValues \cup {Object}]
      /\ call.state = a.call.state /\ call.props = a.call.props /\ call.arguments = w
  BY <1>1 DEF ActivationSet
<1> HIDE DEF call
<1>5. /\ b \in ActivationSet /\ b.argc = a.argc /\ b.argv = a.argv /\ b.v = a.v /\ b.scope = a.scope /\ b.withs = a.withs
      /\ b.overrides = a.overrides \cup {"arguments"} /\ b.call = call /\ b.args = a.args /\ b.closed = a.closed /\ b.last = a.last
      /\ b.behind = a.behind /\ b.len = a.len
  BY <1>1, <1>3, <1>4 DEF ActivationSet
<1>6. ScopeExact(b)
  BY <1>4, <1>5, ScopeKept DEF Running
<1>7. \A y \in Names : GetSlot(b, y) = b.last[y]
  BY <1>5 DEF GetSlot, Running
<1>8. \A y \in DOMAIN b.call.props : Split(b, y) <=> Split(a, y)
  BY <1>4, <1>5 DEF Split, InFrame
<1>9. b.call.props = a.call.props /\ b.call.state = a.call.state /\ b.call.arguments # Object
  BY <1>4, <1>5, FramesAssumption
<1>10. "length" \in b.overrides <=> "length" \in a.overrides
  BY <1>5
<1>11. Running(b)
  BY <1>5, <1>6, <1>7, <1>8, <1>9, <1>10 DEF Running
<1> QED
  BY <1>2, <1>11

\* The Call object's properties, everything else left alone.
WithProps(a, props) == [a EXCEPT !.call.props = props]
CallPropsOnly(a, props, b) ==
  /\ b \in ActivationSet /\ b.argc = a.argc /\ b.argv = a.argv /\ b.v = a.v /\ b.scope = a.scope /\ b.withs = a.withs
  /\ b.overrides = a.overrides /\ b.args = a.args /\ b.closed = a.closed /\ b.last = a.last /\ b.behind = a.behind /\ b.len = a.len
  /\ b.call.state = a.call.state /\ b.call.arguments = a.call.arguments /\ b.call.props = props

LEMMA CallPropsReplaced ==
  ASSUME NEW a \in ActivationSet, NEW props \in CallProps
  PROVE  CallPropsOnly(a, props, WithProps(a, props))
BY DEF CallPropsOnly, WithProps, ActivationSet

LEMMA NameResolved ==
  ASSUME NEW a, Running(a), NEW x \in Names
  PROVE  LET r == call_resolve(a, x)
         IN /\ Running(r) /\ r.call.state = a.call.state /\ DOMAIN a.call.props \subseteq DOMAIN r.call.props
            /\ a.call.state = "linked" => x \in DOMAIN r.call.props
            /\ r.withs = a.withs
<1> PICK r : r = call_resolve(a, x)
  OBVIOUS
<1>1. CASE a.call.state # "linked" \/ x \in DOMAIN a.call.props
  BY <1>1 DEF call_resolve
<1>2. CASE a.call.state = "linked" /\ x \notin DOMAIN a.call.props
  <2> DEFINE prop == [val |-> IF InFrame(a, x) THEN GetSlot(a, x) ELSE UndefinedValue, at |-> InFrame(a, x)]
             props == With(a.call.props, x, prop)
  <2>1. a \in ActivationSet
    BY DEF Running
  <2>2. a.last[x] \in Values /\ GetSlot(a, x) = a.last[x]
    BY <2>1 DEF Running, ActivationSet
  <2>3. prop \in [val : Values, at : BOOLEAN] /\ (prop.at => prop.val = a.last[x])
    BY <2>2 DEF InFrame, Values
  <2>4. PICK D \in SUBSET Names : a.call.props \in [D -> [val : Values, at : BOOLEAN]]
    <3>1. a.call.props \in CallProps
      BY <2>1 DEF ActivationSet
    <3> QED
      BY <3>1 DEF CallProps
  <2>5. r = WithProps(a, props)
    BY <1>2 DEF call_resolve, WithProps
  <2>6. prop.at <=> InFrame(a, x)
    OBVIOUS
  <2> HIDE DEF prop
  <2>7. /\ props \in [D \cup {x} -> [val : Values, at : BOOLEAN]] /\ D \cup {x} \in SUBSET Names /\ props[x] = prop
        /\ \A y \in D : props[y] = a.call.props[y]
    BY <1>2, <2>3, <2>4 DEF With
  <2> HIDE DEF props
  <2>8. props \in CallProps
    BY <2>7 DEF CallProps
  <2>9. CallPropsOnly(a, props, r)
    BY <2>1, <2>5, <2>8, CallPropsReplaced
  <2>10. /\ r \in ActivationSet /\ r.argc = a.argc /\ r.argv = a.argv /\ r.v = a.v /\ r.scope = a.scope /\ r.withs = a.withs
         /\ r.overrides = a.overrides /\ r.args = a.args /\ r.closed = a.closed /\ r.last = a.last /\ r.behind = a.behind /\ r.len = a.len
         /\ r.call.state = a.call.state /\ r.call.arguments = a.call.arguments /\ r.call.props = props
    BY <2>9 DEF CallPropsOnly
  <2>11. ScopeExact(r)
    BY <2>10, ScopeKept DEF Running
  <2>12. \A y \in Names : GetSlot(r, y) = r.last[y]
    BY <2>10 DEF GetSlot, Running
  <2>13. ASSUME NEW y \in DOMAIN r.call.props PROVE Split(r, y) \/ y \in r.behind \/ r.call.props[y].val = r.last[y]
    <3>1. CASE y = x
      <4>1. ~ prop.at => Split(r, y)
        BY <2>7, <2>10, <3>1 DEF Split
      <4> QED
        BY <2>3, <2>7, <2>10, <3>1, <4>1
    <3>2. CASE y # x
      <4>1. y \in D /\ props[y] = a.call.props[y] /\ y \in DOMAIN a.call.props
        BY <2>4, <2>7, <2>10, <3>2
      <4>2. Split(r, y) <=> Split(a, y)
        BY <2>7, <2>10, <4>1 DEF Split, InFrame
      <4> QED
        BY <2>10, <4>1, <4>2 DEF Running
    <3> QED
      BY <3>1, <3>2
  <2>14. Running(r)
    BY <1>2, <2>10, <2>11, <2>12, <2>13 DEF Running
  <2> QED
    BY <2>4, <2>7, <2>10, <2>14
<1> QED
  BY <1>1, <1>2

\* A name is used or assigned to by the Call object's property of it: the
\* property's value is set, what was last assigned is noted.
Noted(p, x, w, l) == [p EXCEPT !.call.props[x].val = w, !.last[x] = l, !.behind = @ \ {x}]
NotedOnly(p, x, w, l, b) ==
  /\ b \in ActivationSet /\ b.argc = p.argc /\ b.argv = p.argv /\ b.v = p.v /\ b.scope = p.scope /\ b.withs = p.withs
  /\ b.overrides = p.overrides /\ b.args = p.args /\ b.closed = p.closed /\ b.len = p.len
  /\ b.call.state = p.call.state /\ b.call.arguments = p.call.arguments /\ DOMAIN b.call.props = DOMAIN p.call.props
  /\ \A y \in DOMAIN p.call.props : b.call.props[y].at = p.call.props[y].at /\ (y # x => b.call.props[y].val = p.call.props[y].val)
  /\ b.call.props[x].val = w /\ b.last[x] = l /\ (\A y \in Names : y # x => b.last[y] = p.last[y])
  /\ (\A y \in Names : y # x /\ y \in p.behind => y \in b.behind)

LEMMA PropsOf ==
  ASSUME NEW a \in ActivationSet
  PROVE  \E D \in SUBSET Names : a.call.props \in [D -> [val : Values, at : BOOLEAN]]
<1>1. a.call.props \in CallProps
  BY DEF ActivationSet
<1> QED
  BY <1>1 DEF CallProps

LEMMA NotedFields ==
  ASSUME NEW p \in ActivationSet, NEW x \in DOMAIN p.call.props, NEW w \in Values, NEW l \in Values
  PROVE  NotedOnly(p, x, w, l, Noted(p, x, w, l))
<1> DEFINE prop == [p.call.props[x] EXCEPT !.val = w]
           props == [p.call.props EXCEPT ![x] = prop]
           call == [p.call EXCEPT !.props = props]
           last == [p.last EXCEPT ![x] = l]
<1> PICK b : b = Noted(p, x, w, l)
  OBVIOUS
<1>1. PICK D \in SUBSET Names : p.call.props \in [D -> [val : Values, at : BOOLEAN]]
  BY PropsOf
<1>2. x \in D /\ x \in Names
  BY <1>1
<1>3. prop \in [val : Values, at : BOOLEAN] /\ prop.val = w /\ prop.at = p.call.props[x].at
  BY <1>1, <1>2
<1>4. b = [p EXCEPT !.call = call, !.last = last, !.behind = p.behind \ {x}]
  BY <1>1, <1>2 DEF ActivationSet, Noted
<1> HIDE DEF prop
<1>5. props \in [D -> [val : Values, at : BOOLEAN]] /\ props[x] = prop /\ \A y \in D : y # x => props[y] = p.call.props[y]
  BY <1>1, <1>2, <1>3
<1> HIDE DEF props
<1>6. props \in CallProps
  BY <1>5 DEF CallProps
<1>7. /\ call \in [state : {"none", "linked", "put"}, props : CallProps, arguments : AssignedValues \cup {Object}]
      /\ call.state = p.call.state /\ call.arguments = p.call.arguments /\ call.props = props
  BY <1>6 DEF ActivationSet
<1>8. last \in [Names -> Values] /\ last[x] = l /\ \A y \in Names : y # x => last[y] = p.last[y]
  BY <1>2 DEF ActivationSet
<1> HIDE DEF call, last
<1>9. p.behind \ {x} \in SUBSET Names
  BY DEF ActivationSet
<1>10. /\ b \in ActivationSet /\ b.argc = p.argc /\ b.argv = p.argv /\ b.v = p.v /\ b.scope = p.scope /\ b.withs = p.withs
       /\ b.overrides = p.overrides /\ b.args = p.args /\ b.closed = p.closed /\ b.len = p.len
       /\ b.call = call /\ b.last = last /\ b.behind = p.behind \ {x}
  BY <1>4, <1>7, <1>8, <1>9 DEF ActivationSet
<1>11. \A y \in DOMAIN p.call.props : props[y].at = p.call.props[y].at /\ (y # x => props[y].val = p.call.props[y].val)
  BY <1>1, <1>3, <1>5
<1> QED
  BY <1>1, <1>3, <1>5, <1>7, <1>8, <1>10, <1>11 DEF NotedOnly

LEMMA NotedRunning ==
  ASSUME NEW r, Running(r), r.call.state = "linked", NEW x \in DOMAIN r.call.props, x \in Names, NEW w \in Values, NEW l \in Values,
         NEW p \in ActivationSet, p.argc = r.argc, Len(p.argv) = Len(r.argv), p.scope = r.scope, p.withs = r.withs,
         p.overrides = r.overrides, p.call = r.call, p.args = r.args, p.closed = r.closed, p.last = r.last,
         p.behind = r.behind, p.len = r.len,
         GetSlot(p, x) = l, \A y \in Names : y # x => GetSlot(p, y) = GetSlot(r, y),
         Split(r, x) \/ w = l
  PROVE  Running(Noted(p, x, w, l))
<1> PICK b : b = Noted(p, x, w, l)
  OBVIOUS
<1>1. NotedOnly(p, x, w, l, b)
  BY NotedFields
<1>2. ScopeExact(b)
  BY <1>1, ScopeKept DEF Running, NotedOnly
<1>3. \A y \in Names : GetSlot(b, y) = b.last[y]
  <2>1. \A y \in Names : GetSlot(b, y) = GetSlot(p, y)
    BY <1>1 DEF GetSlot, NotedOnly
  <2> QED
    BY <1>1, <2>1 DEF Running, NotedOnly
<1>4. ASSUME NEW y \in DOMAIN b.call.props PROVE Split(b, y) \/ y \in b.behind \/ b.call.props[y].val = b.last[y]
  <2>1. y \in DOMAIN r.call.props /\ (Split(b, y) <=> Split(r, y))
    BY <1>1 DEF Split, InFrame, NotedOnly
  <2>2. y \in Names
    BY <2>1, PropsOf DEF Running
  <2>3. CASE y = x
    BY <1>1, <2>1, <2>3 DEF NotedOnly
  <2>4. CASE y # x
    BY <1>1, <2>1, <2>2, <2>4 DEF Running, NotedOnly
  <2> QED
    BY <2>3, <2>4
<1>5. b.argc <= Len(b.argv) /\ Len(b.argv) >= 2 /\ b.args.state # "put" /\ b.argc <= b.len
  BY <1>1 DEF Running, NotedOnly
<1> QED
  BY <1>1, <1>2, <1>3, <1>4, <1>5 DEF Running, NotedOnly

LEMMA NameUsed ==
  ASSUME NEW a, Running(a), a.call.state = "linked", NEW x \in Names
  PROVE  Running(GetName(a, x))
<1> PICK r : r = call_resolve(a, x)
  OBVIOUS
<1>1. Running(r) /\ r.call.state = "linked" /\ x \in DOMAIN r.call.props
  BY NameResolved
<1>2. r \in ActivationSet
  BY <1>1 DEF Running
<1>3. PICK w : w = call_getProperty(r, x)
  OBVIOUS
<1>4. PICK l : l = r.last[x]
  OBVIOUS
<1>5. l \in Values /\ GetSlot(r, x) = l /\ r.last = [r.last EXCEPT ![x] = l]
  BY <1>1, <1>2, <1>4 DEF Running, ActivationSet
<1>6. w \in Values /\ (Split(r, x) \/ w = l)
  <2>1. CASE Reaches(r, x)
    BY <1>3, <1>5, <2>1 DEF call_getProperty
  <2>2. CASE ~ Reaches(r, x)
    <3>1. PICK D \in SUBSET Names : r.call.props \in [D -> [val : Values, at : BOOLEAN]]
      BY <1>2, PropsOf
    <3>2. w = r.call.props[x].val /\ w \in Values
      BY <1>1, <1>3, <2>2, <3>1 DEF call_getProperty
    <3> QED
      BY <1>1, <2>2, <3>2 DEF Reaches, Split
  <2> QED
    BY <2>1, <2>2
<1>7. Running(Noted(r, x, w, l))
  BY <1>1, <1>2, <1>5, <1>6, NotedRunning
<1>8. GetName(a, x) = [r EXCEPT !.call.props[x].val = w, !.behind = @ \ {x}]
  BY <1>1, <1>3 DEF GetName
<1>9. r = [r EXCEPT !.last = r.last]
  BY <1>2 DEF ActivationSet
<1>10. [r EXCEPT !.call.props[x].val = w, !.behind = @ \ {x}] = Noted(r, x, w, l)
  BY <1>2, <1>5, <1>9 DEF Noted, ActivationSet
<1> QED
  BY <1>7, <1>8, <1>10

LEMMA NameAssigned ==
  ASSUME NEW a, Running(a), a.call.state = "linked", NEW x \in Names, NEW w \in Values
  PROVE  Running(SetName(a, x, w))
<1> PICK r : r = call_resolve(a, x)
  OBVIOUS
<1>1. Running(r) /\ r.call.state = "linked" /\ x \in DOMAIN r.call.props
  BY NameResolved
<1>2. r \in ActivationSet
  BY <1>1 DEF Running
<1>3. CASE Reaches(r, x)
  <2>1. PICK p : p = PutSlot(r, x, w)
    OBVIOUS
  <2>2. /\ p \in ActivationSet /\ p.argc = r.argc /\ Len(p.argv) = Len(r.argv) /\ p.scope = r.scope /\ p.withs = r.withs
        /\ p.overrides = r.overrides /\ p.call = r.call /\ p.args = r.args /\ p.closed = r.closed /\ p.last = r.last
        /\ p.behind = r.behind /\ p.len = r.len
        /\ GetSlot(p, x) = w /\ \A y \in Names : y # x => GetSlot(p, y) = GetSlot(r, y)
    BY <1>1, <2>1, SlotAssigned
  <2>3. ~ Split(r, x)
    BY <1>3 DEF Split, Reaches
  <2>4. SetName(a, x, w) = Noted(p, x, w, w)
    BY <1>3, <2>1, <2>3 DEF SetName, Noted
  <2> QED
    BY <1>1, <2>2, <2>4, NotedRunning
<1>4. CASE ~ Reaches(r, x)
  <2>1. Split(r, x)
    BY <1>1, <1>4 DEF Split, Reaches
  <2>2. PICK l : l = r.last[x]
    OBVIOUS
  <2>3. l \in Values /\ GetSlot(r, x) = l
    BY <1>1, <1>2, <2>2 DEF Running, ActivationSet
  <2>4. SetName(a, x, w) = Noted(r, x, w, l)
    BY <1>1, <1>4, <2>1, <2>2 DEF SetName, Noted
  <2> QED
    BY <1>1, <1>2, <2>1, <2>3, <2>4, NotedRunning
<1> QED
  BY <1>3, <1>4

\* After the function has returned its closures have the properties.
LEMMA LeftUsed ==
  ASSUME NEW a, Left(a), a.closed, NEW x \in Names, NEW w \in Values
  PROVE  Left(GetName(a, x)) /\ Left(SetName(a, x, w))
<1>1. a \in ActivationSet /\ a.call.state = "put" /\ x \in DOMAIN a.call.props
  BY DEF Left, KeptWhenLeft
<1>2. call_resolve(a, x) = a /\ ~ Reaches(a, x)
  BY <1>1 DEF call_resolve, Reaches
<1>3. GetName(a, x) = a
  <2>1. GetName(a, x) = [a EXCEPT !.call.props[x].val = a.call.props[x].val, !.behind = a.behind]
    BY <1>1, <1>2 DEF GetName, call_getProperty
  <2>2. PICK D \in SUBSET Names : a.call.props \in [D -> [val : Values, at : BOOLEAN]]
    BY <1>1, PropsOf
  <2>3. [a.call.props EXCEPT ![x].val = a.call.props[x].val] = a.call.props
    BY <1>1, <2>2
  <2>4. [a.call EXCEPT !.props = a.call.props] = a.call /\ [a EXCEPT !.call = a.call, !.behind = a.behind] = a
    BY <1>1 DEF ActivationSet
  <2>5. [a EXCEPT !.call.props[x].val = a.call.props[x].val, !.behind = a.behind]
        = [a EXCEPT !.call = [a.call EXCEPT !.props = [a.call.props EXCEPT ![x].val = a.call.props[x].val]], !.behind = a.behind]
    BY <1>1 DEF ActivationSet
  <2> QED
    BY <2>1, <2>3, <2>4, <2>5
<1>4. PICK b : b = Noted(a, x, w, w)
  OBVIOUS
<1>5. SetName(a, x, w) = b
  BY <1>1, <1>2, <1>4 DEF SetName, Noted
<1>6. NotedOnly(a, x, w, w, b)
  BY <1>1, <1>4, NotedFields
<1>7. ScopeExact(b)
  BY <1>6, ScopeKept DEF Left, NotedOnly
<1>8. ASSUME NEW y \in Names
      PROVE  y \in DOMAIN b.call.props /\ (Split(b, y) \/ y \in b.behind \/ b.call.props[y].val = b.last[y])
  <2>1. y \in DOMAIN a.call.props /\ (Split(a, y) \/ y \in a.behind \/ a.call.props[y].val = a.last[y])
    BY <1>1 DEF Left, KeptWhenLeft
  <2>2. Split(b, y) <=> Split(a, y)
    BY <1>6, <2>1 DEF Split, InFrame, NotedOnly
  <2> QED
    BY <1>6, <2>1, <2>2 DEF NotedOnly
<1>9. b.args = a.args /\ b.argc = a.argc /\ b.argv = a.argv /\ b.len = a.len /\ b.call.state = "put" /\ b.call.arguments = a.call.arguments
  BY <1>1, <1>6 DEF NotedOnly
<1>10. KeptWhenLeft(b)
  BY <1>8, <1>9 DEF Left, KeptWhenLeft
<1>11. Left(b)
  BY <1>6, <1>7, <1>9, <1>10 DEF Left, NotedOnly
<1> QED
  BY <1>3, <1>5, <1>11

-----------------------------------------------------------------------------
\* A frame is left: the Arguments object gets properties of its own,
PutOnly(a, b) ==
  /\ b \in ActivationSet /\ b.argc = a.argc /\ b.argv = a.argv /\ b.v = a.v /\ b.scope = a.scope /\ b.withs = a.withs
  /\ b.call = a.call /\ b.closed = a.closed /\ b.last = a.last /\ b.behind = a.behind /\ b.len = a.len
  /\ b.args.state = (IF a.args.state = "linked" THEN "put" ELSE "none")
  /\ b.args.state = "put" => b.args.props[0] = a.len /\ \A i \in 1 .. a.argc : i \in DOMAIN b.args.props /\ b.args.props[i] = a.argv[i]

LEMMA ArgumentsPut ==
  ASSUME NEW a \in ActivationSet, a.argc <= Len(a.argv), a.argc <= a.len, a.args.state # "put",
         a.args.state = "linked" => args_getProperty(a, 0) = a.len
  PROVE  PutOnly(a, PutArgsObject(a))
<1>1. CASE a.args.state # "linked"
  <2>1. PutArgsObject(a) = a
    BY <1>1 DEF PutArgsObject
  <2>2. a.args.state = "none"
    BY <1>1 DEF ActivationSet
  <2> QED
    BY <2>1, <2>2 DEF PutOnly
<1>2. CASE a.args.state = "linked"
  <2>1. /\ a.argc \in Nat /\ \A i \in 1 .. a.argc : a.argv[i] \in Values
        /\ \A i \in DOMAIN a.args.props : i \in Nat /\ a.args.props[i] \in Values \cup Nat
    BY ArgsHas
  <2>2. a.len \in Nat
    BY DEF ActivationSet
  <2> DEFINE D == 1 .. a.argc \cup DOMAIN a.args.props
             props == [i \in D |-> IF i \in 1 .. a.argc THEN a.argv[i] ELSE a.args.props[i]]
  <2>3. D \in SUBSET Nat /\ props \in [D -> Values \cup Nat]
    BY <2>1
  <2>4. props \in ArgsProps
    BY <2>3 DEF ArgsProps
  <2>5. \A i \in 1 .. a.argc : i \in DOMAIN props /\ props[i] = a.argv[i]
    BY <2>1
  <2>6. PICK e : e = args_enumerate(a)
    OBVIOUS
  <2>7. e = [a EXCEPT !.args = [a.args EXCEPT !.props = props]]
    BY <1>2, <2>1, <2>6 DEF args_enumerate, ActivationSet
  <2> HIDE DEF props
  <2>8. /\ e \in ActivationSet /\ e.argc = a.argc /\ e.argv = a.argv /\ e.v = a.v /\ e.scope = a.scope /\ e.withs = a.withs
        /\ e.overrides = a.overrides /\ e.call = a.call /\ e.closed = a.closed /\ e.last = a.last /\ e.behind = a.behind
        /\ e.len = a.len /\ e.args = [a.args EXCEPT !.props = props]
    BY <2>4, <2>7 DEF ActivationSet
  <2>9. e.args.state = "linked" /\ e.args.props = props
    BY <1>2, <2>8 DEF ActivationSet
  <2>10. PICK own : own = Own(e, 0, a.len)
    OBVIOUS
  <2>11. ArgsPropOnly(e, 0, a.len, own)
    BY <2>2, <2>8, <2>10, ArgsPropSet
  <2>12. own \in ActivationSet /\ own.args.state = "linked" /\ own.argc = a.argc /\ own.overrides = a.overrides
    BY <2>8, <2>9, <2>11 DEF ArgsPropOnly
  <2>13. PICK s : s = SetLength(e, a.len)
    OBVIOUS
  <2>14. s = [own EXCEPT !.argc = a.argc, !.overrides = a.overrides \cup {"length"}, !.len = a.len]
    <3>1. s = [own EXCEPT !.argc = IF a.len < @ THEN a.len ELSE @, !.overrides = @ \cup {"length"}, !.len = a.len]
      BY <2>9, <2>10, <2>13 DEF SetLength
    <3>2. ~ (a.len < own.argc)
      BY <2>1, <2>2, <2>12
    <3> QED
      BY <2>12, <3>1, <3>2
  <2>15. /\ s \in ActivationSet /\ s.argc = a.argc /\ s.argv = own.argv /\ s.v = own.v /\ s.scope = own.scope /\ s.withs = own.withs
         /\ s.overrides = a.overrides \cup {"length"} /\ s.call = own.call /\ s.closed = own.closed /\ s.last = own.last
         /\ s.behind = own.behind /\ s.len = a.len /\ s.args = own.args
    BY <2>1, <2>2, <2>12, <2>14 DEF ActivationSet
  <2>16. PICK b : b = PutArgsObject(a)
    OBVIOUS
  <2> DEFINE args == [own.args EXCEPT !.state = "put"]
             overrides == s.overrides \cup {"callee", "caller"}
  <2>17. b = [s EXCEPT !.args = args, !.overrides = overrides]
    BY <1>2, <2>6, <2>13, <2>15, <2>16 DEF PutArgsObject, ActivationSet
  <2>18. /\ args \in [state : {"none", "linked", "put"}, props : ArgsProps] /\ args.state = "put" /\ args.props = own.args.props
         /\ overrides \in SUBSET {"length", "arguments", "callee", "caller"}
    BY <2>12, <2>15 DEF ActivationSet
  <2> HIDE DEF args, overrides
  <2>19. /\ b \in ActivationSet /\ b.argc = s.argc /\ b.argv = s.argv /\ b.v = s.v /\ b.scope = s.scope /\ b.withs = s.withs
         /\ b.call = s.call /\ b.closed = s.closed /\ b.last = s.last /\ b.behind = s.behind /\ b.len = s.len /\ b.args = args
    BY <2>15, <2>17, <2>18 DEF ActivationSet
  <2>20. own.args.props[0] = a.len /\ \A i \in 1 .. a.argc : i \in DOMAIN own.args.props /\ own.args.props[i] = a.argv[i]
    BY <2>1, <2>5, <2>9, <2>11 DEF ArgsPropOnly
  <2>21. /\ own.argv = a.argv /\ own.v = a.v /\ own.scope = a.scope /\ own.withs = a.withs /\ own.call = a.call
         /\ own.closed = a.closed /\ own.last = a.last /\ own.behind = a.behind
    BY <2>8, <2>11 DEF ArgsPropOnly
  <2> QED
    BY <1>2, <2>15, <2>16, <2>18, <2>19, <2>20, <2>21 DEF PutOnly
<1> QED
  BY <1>1, <1>2

\* then the Call object.
LEMMA CallEnumerated ==
  ASSUME NEW a, Running(a), a.call.state = "linked"
  PROVE  LET e == call_enumerate(a)
         IN Running(e) /\ e.call.state = "linked" /\ Names \subseteq DOMAIN e.call.props /\ e.withs = a.withs
<1>1. PICK p : p = call_resolve(a, "a")
  OBVIOUS
<1>2. Running(p) /\ p.call.state = "linked" /\ "a" \in DOMAIN p.call.props /\ p.withs = a.withs
  BY <1>1, NameResolved, NamesOfSlots
<1>3. PICK q : q = call_resolve(p, "b")
  OBVIOUS
<1>4. /\ Running(q) /\ q.call.state = "linked" /\ "b" \in DOMAIN q.call.props /\ q.withs = p.withs
      /\ DOMAIN p.call.props \subseteq DOMAIN q.call.props
  BY <1>2, <1>3, NameResolved, NamesOfSlots
<1>5. PICK r : r = call_resolve(q, "v")
  OBVIOUS
<1>6. /\ Running(r) /\ r.call.state = "linked" /\ "v" \in DOMAIN r.call.props /\ r.withs = q.withs
      /\ DOMAIN q.call.props \subseteq DOMAIN r.call.props
  BY <1>4, <1>5, NameResolved, NamesOfSlots
<1>7. call_enumerate(a) = r
  BY <1>1, <1>3, <1>5 DEF call_enumerate
<1> QED
  BY <1>2, <1>4, <1>6, <1>7, NamesOfSlots

LEMMA ArgumentsWith ==
  ASSUME NEW a, Running(a)
  PROVE  LET w == WithArguments(a)
         IN /\ Running(w) /\ w.call = a.call
            /\ a.call.arguments = Object => w.args.state = "linked"
            /\ w.withs = a.withs
<1>1. CASE "arguments" \in a.overrides
  BY <1>1 DEF WithArguments, Running
<1>2. CASE "arguments" \notin a.overrides
  <2>1. WithArguments(a) = GetArgsObject(a)
    BY <1>2 DEF WithArguments
  <2>2. GetArgsObject(a).call = a.call /\ GetArgsObject(a).withs = a.withs
    BY DEF GetArgsObject, Running, ActivationSet
  <2> QED
    BY <2>1, <2>2, AskedRunning
<1> QED
  BY <1>1, <1>2

LEMMA ActivationLeft ==
  ASSUME NEW a, Running(a)
  PROVE  Left(PutArgsObject(PutCallObject(a)))
<1>1. ASSUME NEW c, Running(c) PROVE /\ c \in ActivationSet /\ c.argc <= Len(c.argv) /\ c.argc <= c.len /\ c.args.state # "put"
                                     /\ c.args.state = "linked" => args_getProperty(c, 0) = c.len
  BY <1>1, RunningSame DEF Running, SameWhileRunning
<1>2. CASE a.call.state # "linked"
  <2>1. PICK b : b = PutArgsObject(a)
    OBVIOUS
  <2>2. PutOnly(a, b)
    BY <1>1, <2>1, ArgumentsPut
  <2>3. a.call.state = "none" /\ ~ a.closed
    BY <1>2 DEF Running, ActivationSet
  <2>4. ScopeExact(b)
    BY <2>2, ScopeKept DEF Running, PutOnly
  <2>5. KeptWhenLeft(b)
    BY <2>2, <2>3 DEF KeptWhenLeft, PutOnly
  <2>6. Left(b)
    BY <2>2, <2>3, <2>4, <2>5 DEF Left, Running, PutOnly
  <2> QED
    BY <1>2, <2>1, <2>6 DEF PutCallObject
<1>3. CASE a.call.state = "linked"
  <2>1. PICK e : e = call_enumerate(a)
    OBVIOUS
  <2>2. Running(e) /\ e.call.state = "linked" /\ Names \subseteq DOMAIN e.call.props
    BY <1>3, <2>1, CallEnumerated
  <2>3. PICK w : w = WithArguments(e)
    OBVIOUS
  <2>4. Running(w) /\ w.call = e.call /\ (e.call.arguments = Object => w.args.state = "linked")
    BY <2>2, <2>3, ArgumentsWith
  <2>5. /\ w \in ActivationSet /\ w.argc <= Len(w.argv) /\ w.argc <= w.len /\ w.args.state # "put"
        /\ w.args.state = "linked" => args_getProperty(w, 0) = w.len
    BY <1>1, <2>4
  <2>6. PICK o : o = [w EXCEPT !.overrides = @ \cup {"arguments"}]
    OBVIOUS
  <2>7. /\ o \in ActivationSet /\ o.argc = w.argc /\ o.argv = w.argv /\ o.v = w.v /\ o.scope = w.scope /\ o.withs = w.withs
        /\ o.call = w.call /\ o.args = w.args /\ o.closed = w.closed /\ o.last = w.last /\ o.behind = w.behind /\ o.len = w.len
        /\ ("length" \in o.overrides <=> "length" \in w.overrides)
    BY <2>5, <2>6 DEF ActivationSet
  <2>8. args_getProperty(o, 0) = args_getProperty(w, 0)
    BY <2>7 DEF args_getProperty
  <2>9. PICK p : p = PutArgsObject(o)
    OBVIOUS
  <2>10. PutOnly(o, p)
    BY <2>5, <2>7, <2>8, <2>9, ArgumentsPut
  <2>11. PICK b : b = [p EXCEPT !.call.state = "put"]
    OBVIOUS
  <2> DEFINE call == [p.call EXCEPT !.state = "put"]
  <2>12. p \in ActivationSet /\ b = [p EXCEPT !.call = call]
    BY <2>10, <2>11 DEF PutOnly, ActivationSet
  <2>13. /\ call \in [state : {"none", "linked", "put"}, props : CallProps, arguments : AssignedValues \cup {Object}]
         /\ call.state = "put" /\ call.props = w.call.props /\ call.arguments = w.call.arguments
    BY <2>7, <2>10, <2>12 DEF PutOnly, ActivationSet
  <2> HIDE DEF call
  <2>14. /\ b \in ActivationSet /\ b.argc = p.argc /\ b.argv = p.argv /\ b.v = p.v /\ b.scope = p.scope /\ b.withs = p.withs
         /\ b.call = call /\ b.args = p.args /\ b.closed = p.closed /\ b.last = p.last /\ b.behind = p.behind /\ b.len = p.len
    BY <2>12, <2>13 DEF ActivationSet
  <2>15. /\ b.argc = w.argc /\ b.argv = w.argv /\ b.v = w.v /\ b.scope = w.scope /\ b.withs = w.withs
         /\ b.closed = w.closed /\ b.last = w.last /\ b.behind = w.behind /\ b.len = w.len
         /\ b.args.state = (IF w.args.state = "linked" THEN "put" ELSE "none")
         /\ b.args.state = "put" => b.args.props[0] = w.len /\ \A i \in 1 .. w.argc : i \in DOMAIN b.args.props /\ b.args.props[i] = w.argv[i]
    BY <2>7, <2>10, <2>14 DEF PutOnly
  <2>16. ScopeExact(b)
    BY <2>2, <2>4, <2>13, <2>14, <2>15, ScopeKept DEF Running
  <2>17. ASSUME NEW y \in Names
         PROVE  y \in DOMAIN b.call.props /\ (Split(b, y) \/ y \in b.behind \/ b.call.props[y].val = b.last[y])
    <3>1. y \in DOMAIN w.call.props /\ (Split(w, y) \/ y \in w.behind \/ w.call.props[y].val = w.last[y])
      BY <2>2, <2>4 DEF Running
    <3>2. Split(b, y) <=> Split(w, y)
      BY <2>13, <2>14, <2>15 DEF Split, InFrame
    <3> QED
      BY <2>13, <2>14, <2>15, <3>1, <3>2
  <2>18. b.call.state = "put" /\ b.args.state # "linked" /\ (b.call.arguments = Object => b.args.state = "put")
    BY <2>4, <2>13, <2>14, <2>15
  <2>19. KeptWhenLeft(b)
    BY <2>15, <2>17, <2>18 DEF KeptWhenLeft
  <2>20. Left(b)
    BY <2>4, <2>14, <2>15, <2>16, <2>18, <2>19 DEF Left, Running
  <2>21. PutCallObject(a) = b
    BY <1>3, <2>1, <2>3, <2>6, <2>9, <2>11 DEF PutCallObject, CallPut
  <2>22. PutArgsObject(b) = b
    BY <2>18 DEF PutArgsObject
  <2> QED
    BY <2>20, <2>21, <2>22
<1> QED
  BY <1>2, <1>3

\* Whether a closure was made does not change.
ClosedIs(r, c) == "closed" \in DOMAIN r /\ r.closed = c

LEMMA ClosedBySteps ==
  ASSUME NEW r, NEW c, ClosedIs(r, c), NEW y, NEW z
  PROVE  /\ ClosedIs(PutSlot(r, y, z), c) /\ ClosedIs(Assigned(r, y, z), c) /\ ClosedIs(Own(r, y, z), c)
         /\ ClosedIs([r EXCEPT !.argv[y] = z], c)
         /\ ClosedIs(GetArgsObject(r), c) /\ ClosedIs(GetElement(r, y), c) /\ ClosedIs(args_enumerate(r), c)
         /\ ClosedIs(GetCallObject(r), c) /\ ClosedIs(call_resolve(r, y), c) /\ ClosedIs([r EXCEPT !.call.state = "put"], c)
         /\ ClosedIs([r EXCEPT !.argc = IF z < @ THEN z ELSE @, !.overrides = @ \cup {"length"}, !.len = z], c)
         /\ ClosedIs([r EXCEPT !.args.state = "put", !.overrides = @ \cup {"callee", "caller"}], c)
         /\ ClosedIs([r EXCEPT !.overrides = @ \cup {"arguments"}], c)
         /\ ClosedIs([r EXCEPT !.call.arguments = y, !.overrides = @ \cup {"arguments"}], c)
         /\ ClosedIs([r EXCEPT !.withs = y, !.scope = z], c)
<1>1. ClosedIs(PutSlot(r, y, z), c)
  BY DEF PutSlot, ClosedIs
<1>2. ClosedIs(Assigned(r, y, z), c)
  BY DEF Assigned, ClosedIs
<1>3. ClosedIs(Own(r, y, z), c) /\ ClosedIs([r EXCEPT !.argv[y] = z], c)
  BY DEF Own, ClosedIs
<1>4. ClosedIs(GetArgsObject(r), c) /\ ClosedIs(GetElement(r, y), c) /\ ClosedIs(args_enumerate(r), c)
  BY DEF GetArgsObject, GetElement, args_enumerate, ClosedIs
<1>5. ClosedIs(GetCallObject(r), c) /\ ClosedIs(call_resolve(r, y), c) /\ ClosedIs([r EXCEPT !.call.state = "put"], c)
  BY DEF GetCallObject, call_resolve, ClosedIs
<1>6. /\ ClosedIs([r EXCEPT !.argc = IF z < @ THEN z ELSE @, !.overrides = @ \cup {"length"}, !.len = z], c)
      /\ ClosedIs([r EXCEPT !.args.state = "put", !.overrides = @ \cup {"callee", "caller"}], c)
      /\ ClosedIs([r EXCEPT !.overrides = @ \cup {"arguments"}], c)
  BY DEF ClosedIs
<1>7. /\ ClosedIs([r EXCEPT !.call.arguments = y, !.overrides = @ \cup {"arguments"}], c)
      /\ ClosedIs([r EXCEPT !.withs = y, !.scope = z], c)
  BY DEF ClosedIs
<1> QED
  BY <1>1, <1>2, <1>3, <1>4, <1>5, <1>6, <1>7

LEMMA ClosedKept ==
  ASSUME NEW r, NEW c, ClosedIs(r, c)
  PROVE  /\ \A i, w : ClosedIs(SetElement(r, i, w), c)
         /\ \A n : ClosedIs(SetLength(r, n), c)
         /\ \A x : ClosedIs(GetName(r, x), c)
         /\ \A x, w : ClosedIs(SetName(r, x, w), c)
         /\ \A x, w : ClosedIs(Assigned(PutSlot(r, x, w), x, w), c)
         /\ ClosedIs(PutArgsObject(PutCallObject(r)), c)
<1>1. ASSUME NEW i, NEW w PROVE ClosedIs(SetElement(r, i, w), c)
  <2>1. PICK own : own = Own(r, i, w)
    OBVIOUS
  <2>2. PICK slot : slot = IF i \in 1 .. r.argc THEN [own EXCEPT !.argv[i] = w] ELSE own
    OBVIOUS
  <2>3. ClosedIs(own, c) /\ ClosedIs(slot, c)
    BY <2>1, <2>2, ClosedBySteps
  <2>4. ClosedIs(Assigned(slot, Formals[i], w), c)
    BY <2>3, ClosedBySteps
  <2>5. SetElement(r, i, w) \in {own, slot, Assigned(slot, Formals[i], w)}
    BY <2>1, <2>2 DEF SetElement
  <2> QED
    BY <2>3, <2>4, <2>5
<1>2. ASSUME NEW q, ClosedIs(q, c), NEW n PROVE ClosedIs(SetLength(q, n), c)
  <2>1. PICK own : own = Own(q, 0, n)
    OBVIOUS
  <2>2. ClosedIs(own, c)
    BY <1>2, <2>1, ClosedBySteps
  <2>3. SetLength(q, n) \in {own, [own EXCEPT !.argc = IF n < @ THEN n ELSE @, !.overrides = @ \cup {"length"}, !.len = n]}
    BY <2>1 DEF SetLength
  <2>4. ClosedIs([own EXCEPT !.argc = IF n < @ THEN n ELSE @, !.overrides = @ \cup {"length"}, !.len = n], c)
    BY <2>2, ClosedBySteps
  <2> QED
    BY <2>2, <2>3, <2>4
<1>3. ASSUME NEW x PROVE ClosedIs(GetName(r, x), c)
  <2>1. PICK q : q = call_resolve(r, x)
    OBVIOUS
  <2>2. ClosedIs(q, c)
    BY <2>1, ClosedBySteps
  <2>3. PICK behind : behind = IF q.call.state = "linked" THEN q.behind \ {x} ELSE q.behind
    OBVIOUS
  <2>4. GetName(r, x) = [q EXCEPT !.call.props[x].val = call_getProperty(q, x), !.behind = behind]
    BY <2>1, <2>3 DEF GetName
  <2> QED
    BY <2>2, <2>4 DEF ClosedIs
<1>4. ASSUME NEW x, NEW w PROVE ClosedIs(SetName(r, x, w), c)
  <2>1. PICK q : q = call_resolve(r, x)
    OBVIOUS
  <2>2. PICK s : s = IF Reaches(q, x) THEN PutSlot(q, x, w) ELSE q
    OBVIOUS
  <2>3. ClosedIs(s, c)
    <3>1. ClosedIs(q, c)
      BY <2>1, ClosedBySteps
    <3>2. ClosedIs(PutSlot(q, x, w), c)
      BY <3>1, ClosedBySteps
    <3> QED
      BY <2>2, <3>1, <3>2
  <2>4. PICK l : l = IF Split(q, x) /\ q.call.state = "linked" THEN s.last[x] ELSE w
    OBVIOUS
  <2>5. SetName(r, x, w) = [s EXCEPT !.call.props[x].val = w, !.last[x] = l, !.behind = @ \ {x}]
    BY <2>1, <2>2, <2>4 DEF SetName
  <2> QED
    BY <2>3, <2>5 DEF ClosedIs
<1>5. ASSUME NEW x, NEW w PROVE ClosedIs(Assigned(PutSlot(r, x, w), x, w), c)
  <2>1. ClosedIs(PutSlot(r, x, w), c)
    BY ClosedBySteps
  <2> QED
    BY <2>1, ClosedBySteps
<1>6. ASSUME NEW q, ClosedIs(q, c) PROVE ClosedIs(PutArgsObject(q), c)
  <2>1. PICK e : e = args_enumerate(q)
    OBVIOUS
  <2>2. ClosedIs(e, c)
    BY <1>6, <2>1, ClosedBySteps
  <2>3. PICK s : s = SetLength(e, args_getProperty(q, 0))
    OBVIOUS
  <2>4. ClosedIs(s, c)
    BY <1>2, <2>2, <2>3
  <2>5. ClosedIs([s EXCEPT !.args.state = "put", !.overrides = @ \cup {"callee", "caller"}], c)
    BY <2>4, ClosedBySteps
  <2> QED
    BY <1>6, <2>1, <2>3, <2>5 DEF PutArgsObject
<1>7. ClosedIs(PutCallObject(r), c)
  <2>1. PICK e : e = call_enumerate(r)
    OBVIOUS
  <2>2. ClosedIs(e, c)
    <3>1. ClosedIs(call_resolve(r, "a"), c)
      BY ClosedBySteps
    <3>2. ClosedIs(call_resolve(call_resolve(r, "a"), "b"), c)
      BY <3>1, ClosedBySteps
    <3> QED
      BY <2>1, <3>2, ClosedBySteps DEF call_enumerate
  <2>3. PICK w : w = WithArguments(e)
    OBVIOUS
  <2>4. ClosedIs(w, c)
    BY <2>2, <2>3, ClosedBySteps DEF WithArguments
  <2>5. PICK o : o = [w EXCEPT !.overrides = @ \cup {"arguments"}]
    OBVIOUS
  <2>6. ClosedIs(o, c)
    BY <2>4, <2>5, ClosedBySteps
  <2>7. ClosedIs([PutArgsObject(o) EXCEPT !.call.state = "put"], c)
    BY <1>6, <2>6, ClosedBySteps
  <2>8. PutCallObject(r) \in {r, [PutArgsObject(o) EXCEPT !.call.state = "put"]}
    BY <2>1, <2>3, <2>5 DEF PutCallObject, CallPut
  <2> QED
    BY <2>7, <2>8
<1> QED
  BY <1>1, <1>2, <1>3, <1>4, <1>5, <1>6, <1>7

\* A frame is entered.
LEMMA ActivationEntered ==
  ASSUME NEW argc \in Nat
  PROVE  Running(Activation(argc))
<1> PICK a : a = Activation(argc)
  OBVIOUS
<1>1. PICK k \in Nat : k = Longer(argc, 2) /\ k >= 2 /\ argc <= k
  BY DEF Longer
<1> DEFINE argv == [i \in 1 .. k |-> IF i <= argc THEN FirstArgument ELSE UndefinedValue]
           last == [x \in Names |-> IF x = "v" THEN UndefinedValue ELSE argv[Position(x)]]
<1>2. argv \in Seq(Values) /\ Len(argv) = k /\ \A i \in 1 .. k : argv[i] \in Values
  BY DEF Values
<1>3. last \in [Names -> Values]
  <2>1. \A x \in Names : x # "v" => Position(x) \in 1 .. k
    BY <1>1, NamesOfSlots
  <2> HIDE DEF argv
  <2> QED
    BY <1>2, <2>1 DEF Values
<1>4. a = [argc |-> argc, argv |-> argv, v |-> UndefinedValue, scope |-> <<"fun">>, withs |-> 0, overrides |-> {},
           call |-> [state |-> "none", props |-> NoProps, arguments |-> Object],
           args |-> [state |-> "none", props |-> NoProps], closed |-> FALSE,
           last |-> last, behind |-> {}, len |-> argc]
  BY <1>1, NamesOfSlots DEF Activation
<1>5. \A x \in Names : last[x] = IF x = "v" THEN UndefinedValue ELSE argv[Position(x)]
  OBVIOUS
<1> HIDE DEF argv, last
<1>6. /\ a.argc = argc /\ a.argv = argv /\ a.v = UndefinedValue /\ a.scope = <<"fun">> /\ a.withs = 0 /\ a.overrides = {}
      /\ a.call = [state |-> "none", props |-> NoProps, arguments |-> Object]
      /\ a.args = [state |-> "none", props |-> NoProps] /\ a.closed = FALSE /\ a.last = last /\ a.behind = {} /\ a.len = argc
  BY <1>4
<1>7. NoProps \in CallProps /\ NoProps \in ArgsProps /\ DOMAIN NoProps = {}
  <2>1. NoProps \in [{} -> [val : Values, at : BOOLEAN]] /\ NoProps \in [{} -> Values \cup Nat] /\ DOMAIN NoProps = {}
    BY DEF NoProps
  <2>2. {} \in SUBSET Names /\ {} \in SUBSET Nat
    OBVIOUS
  <2> QED
    BY <2>1, <2>2 DEF CallProps, ArgsProps
<1>8. a \in ActivationSet
  <2>1. /\ UndefinedValue \in Values /\ <<"fun">> \in Seq({"with", "fun", "call"}) /\ 0 \in Nat /\ FALSE \in BOOLEAN
        /\ {} \in SUBSET {"length", "arguments", "callee", "caller"} /\ {} \in SUBSET Names
        /\ [state |-> "none", props |-> NoProps, arguments |-> Object] \in
              [state : {"none", "linked", "put"}, props : CallProps, arguments : AssignedValues \cup {Object}]
        /\ [state |-> "none", props |-> NoProps] \in [state : {"none", "linked", "put"}, props : ArgsProps]
    BY <1>7 DEF Values
  <2> QED
    BY <1>2, <1>3, <1>4, <2>1 DEF ActivationSet
<1>9. ScopeExact(a)
  <2>1. Len(a.scope) = 1 /\ a.scope[1] = "fun" /\ a.withs = 0 /\ a.call.state = "none"
    BY <1>6
  <2>2. \A i \in 1 .. a.withs + 1 : a.scope[i] = IF i <= a.withs THEN "with" ELSE IF a.call.state = "none" THEN "fun" ELSE "call"
    BY <2>1
  <2>3. Len(a.scope) = a.withs + 1
    BY <2>1
  <2> QED
    BY <1>8, <2>2, <2>3, ScopeForms
<1>10. \A x \in Names : GetSlot(a, x) = a.last[x]
  BY <1>5, <1>6 DEF GetSlot
<1>11. a.call.state = "none" /\ DOMAIN a.call.props = {} /\ a.args.state = "none" /\ a.closed = FALSE
  BY <1>6, <1>7
<1>12. Running(a)
  BY <1>1, <1>2, <1>6, <1>8, <1>9, <1>10, <1>11 DEF Running
<1> QED
  BY <1>12

LEMMA BaseOf ==
  ASSUME NEW a \in ActivationSet, ScopeExact(a)
  PROVE  Base(a) = IF a.call.state = "none" THEN "fun" ELSE "call"
<1>1. a.withs \in Nat
  BY DEF ActivationSet
<1>2. a.withs + 1 \in 1 .. a.withs + 1 /\ ~ (a.withs + 1 <= a.withs)
  BY <1>1
<1> QED
  BY <1>2, ScopeForms DEF Base

-----------------------------------------------------------------------------
\* The invariant: the activations and the stack of frames.
FrameSet == [act : Nat, closure : BOOLEAN]
IsLive(st, n) == \E i \in 1 .. Len(st) : st[i].act = n /\ st[i].closure = FALSE
ActsAndFrames(av, st) ==
  /\ av \in Seq(ActivationSet)
  /\ st \in Seq(FrameSet)
  /\ \A i \in 1 .. Len(st) : st[i].act \in 1 .. Len(av) /\ (st[i].closure = TRUE => av[st[i].act].closed = TRUE)
  /\ \A i, j \in 1 .. Len(st) : st[i].closure = FALSE /\ st[j].closure = FALSE /\ st[i].act = st[j].act => i = j
  /\ \A n \in 1 .. Len(av) : (IsLive(st, n) => Running(av[n])) /\ (~ IsLive(st, n) => Left(av[n]))
FramesInv ==
  /\ mix \in CallMixes /\ frames = [acts |-> acts, stack |-> stack, mix |-> mix]
  /\ ActsAndFrames(acts, stack)

LEMMA LiveFrames ==
  ASSUME NEW st, stack = st, st \in Seq(FrameSet), NEW n
  PROVE  Live(n) <=> IsLive(st, n)
<1>1. DOMAIN st = 1 .. Len(st) /\ \A i \in DOMAIN st : st[i] \in FrameSet
  <2>1. DOMAIN st = 1 .. Len(st)
    OBVIOUS
  <2> QED
    BY <2>1, ElementOfSeq
<1>2. \A i \in DOMAIN st : st[i] = [act |-> n, closure |-> FALSE] <=> st[i].act = n /\ st[i].closure = FALSE
  BY <1>1 DEF FrameSet
<1>3. Frames(n) = {i \in DOMAIN st : st[i] = [act |-> n, closure |-> FALSE]}
  BY DEF Frames
<1>4. DOMAIN st = 1 .. Len(st)
  OBVIOUS
<1> QED
  BY <1>2, <1>3, <1>4 DEF Live, IsLive

\* One activation changes.
LEMMA OneChanges ==
  ASSUME NEW av, NEW st, ActsAndFrames(av, st), NEW n \in 1 .. Len(av), NEW b,
         IsLive(st, n) => Running(b), ~ IsLive(st, n) => Left(b), b.closed \in {TRUE, av[n].closed}
  PROVE  ActsAndFrames([av EXCEPT ![n] = b], st)
<1>1. av \in Seq(ActivationSet) /\ b \in ActivationSet
  BY DEF ActsAndFrames, Running, Left
<1>2. PICK bs : bs = [av EXCEPT ![n] = b]
  OBVIOUS
<1>3. bs \in Seq(ActivationSet) /\ Len(bs) = Len(av) /\ bs[n] = b /\ \A j \in 1 .. Len(av) : j # n => bs[j] = av[j]
  BY <1>1, <1>2, ExceptSeq
<1>4. ASSUME NEW i \in 1 .. Len(st) PROVE st[i].act \in 1 .. Len(bs) /\ (st[i].closure = TRUE => bs[st[i].act].closed = TRUE)
  <2>1. st[i].act \in 1 .. Len(av) /\ (st[i].closure = TRUE => av[st[i].act].closed = TRUE)
    BY DEF ActsAndFrames
  <2>2. CASE st[i].act = n
    BY <1>3, <2>1, <2>2
  <2>3. CASE st[i].act # n
    BY <1>3, <2>1, <2>3
  <2> QED
    BY <2>2, <2>3
<1>5. ASSUME NEW m \in 1 .. Len(bs) PROVE (IsLive(st, m) => Running(bs[m])) /\ (~ IsLive(st, m) => Left(bs[m]))
  <2>1. CASE m = n
    BY <1>3, <2>1
  <2>2. CASE m # n
    BY <1>3, <2>2 DEF ActsAndFrames
  <2> QED
    BY <2>1, <2>2
<1> QED
  BY <1>2, <1>3, <1>4, <1>5 DEF ActsAndFrames

\* A frame is pushed: that of a new activation, or of a closure.
LEMMA ActivationPushed ==
  ASSUME NEW av, NEW st, ActsAndFrames(av, st), NEW argc \in Nat
  PROVE  ActsAndFrames(Append(av, Activation(argc)), Append(st, [act |-> Len(av) + 1, closure |-> FALSE]))
<1>1. av \in Seq(ActivationSet) /\ st \in Seq(FrameSet) /\ Len(av) \in Nat /\ Len(st) \in Nat
  <2>1. av \in Seq(ActivationSet) /\ st \in Seq(FrameSet)
    BY DEF ActsAndFrames
  <2> QED
    BY <2>1
<1>2. PICK b : b = Activation(argc)
  OBVIOUS
<1>3. Running(b) /\ b \in ActivationSet
  BY <1>2, ActivationEntered DEF Running
<1>4. PICK f : f = [act |-> Len(av) + 1, closure |-> FALSE]
  OBVIOUS
<1>5. f \in FrameSet /\ f.act = Len(av) + 1 /\ f.closure = FALSE
  BY <1>1, <1>4 DEF FrameSet
<1>6. PICK bs : bs = Append(av, b)
  OBVIOUS
<1>7. bs \in Seq(ActivationSet) /\ Len(bs) = Len(av) + 1 /\ bs[Len(av) + 1] = b /\ \A i \in 1 .. Len(av) : bs[i] = av[i]
  BY <1>1, <1>3, <1>6, AppendProperties
<1>8. PICK ft : ft = Append(st, f)
  OBVIOUS
<1>9. ft \in Seq(FrameSet) /\ Len(ft) = Len(st) + 1 /\ ft[Len(st) + 1] = f /\ \A i \in 1 .. Len(st) : ft[i] = st[i]
  BY <1>1, <1>5, <1>8, AppendProperties
<1>10. \A i \in 1 .. Len(st) : st[i].act \in 1 .. Len(av) /\ (st[i].closure = TRUE => av[st[i].act].closed = TRUE)
  BY DEF ActsAndFrames
<1>11. \A i \in 1 .. Len(ft) : i # Len(st) + 1 => i \in 1 .. Len(st)
  BY <1>1, <1>9
<1>12. ASSUME NEW i \in 1 .. Len(ft) PROVE ft[i].act \in 1 .. Len(bs) /\ (ft[i].closure = TRUE => bs[ft[i].act].closed = TRUE)
  <2>1. CASE i = Len(st) + 1
    BY <1>1, <1>5, <1>7, <1>9, <2>1
  <2>2. CASE i # Len(st) + 1
    <3>1. ft[i] = st[i] /\ st[i].act \in 1 .. Len(av) /\ (st[i].closure = TRUE => av[st[i].act].closed = TRUE)
      BY <1>9, <1>10, <1>11, <2>2
    <3>2. st[i].act \in 1 .. Len(bs) /\ bs[st[i].act] = av[st[i].act]
      BY <1>1, <1>7, <3>1
    <3> QED
      BY <3>1, <3>2
  <2> QED
    BY <2>1, <2>2
<1>13. ASSUME NEW i \in 1 .. Len(ft), NEW j \in 1 .. Len(ft), ft[i].closure = FALSE, ft[j].closure = FALSE, ft[i].act = ft[j].act
       PROVE  i = j
  <2>1. \A k \in 1 .. Len(st) : ft[k].act # Len(av) + 1
    BY <1>1, <1>9, <1>10
  <2>2. CASE i = Len(st) + 1 \/ j = Len(st) + 1
    BY <1>5, <1>9, <1>11, <1>13, <2>1, <2>2
  <2>3. CASE i # Len(st) + 1 /\ j # Len(st) + 1
    BY <1>9, <1>11, <1>13, <2>3 DEF ActsAndFrames
  <2> QED
    BY <2>2, <2>3
<1>14. ASSUME NEW m \in 1 .. Len(bs) PROVE (IsLive(ft, m) => Running(bs[m])) /\ (~ IsLive(ft, m) => Left(bs[m]))
  <2>1. CASE m = Len(av) + 1
    <3>1. IsLive(ft, m)
      BY <1>1, <1>5, <1>9, <2>1 DEF IsLive
    <3> QED
      BY <1>3, <1>7, <2>1, <3>1
  <2>2. CASE m # Len(av) + 1
    <3>1. m \in 1 .. Len(av) /\ bs[m] = av[m]
      BY <1>1, <1>7, <2>2
    <3>2. IsLive(ft, m) <=> IsLive(st, m)
      BY <1>1, <1>5, <1>9, <1>11, <2>2 DEF IsLive
    <3> QED
      BY <3>1, <3>2 DEF ActsAndFrames
  <2> QED
    BY <2>1, <2>2
<1> QED
  BY <1>2, <1>4, <1>6, <1>7, <1>8, <1>9, <1>12, <1>13, <1>14 DEF ActsAndFrames

LEMMA ClosurePushed ==
  ASSUME NEW av, NEW st, ActsAndFrames(av, st), NEW n \in 1 .. Len(av), av[n].closed = TRUE
  PROVE  ActsAndFrames(av, Append(st, [act |-> n, closure |-> TRUE]))
<1>1. av \in Seq(ActivationSet) /\ st \in Seq(FrameSet) /\ Len(av) \in Nat /\ Len(st) \in Nat
  <2>1. av \in Seq(ActivationSet) /\ st \in Seq(FrameSet)
    BY DEF ActsAndFrames
  <2> QED
    BY <2>1
<1>2. PICK f : f = [act |-> n, closure |-> TRUE]
  OBVIOUS
<1>3. f \in FrameSet /\ f.act = n /\ f.closure = TRUE
  BY <1>1, <1>2 DEF FrameSet
<1>4. PICK ft : ft = Append(st, f)
  OBVIOUS
<1>5. ft \in Seq(FrameSet) /\ Len(ft) = Len(st) + 1 /\ ft[Len(st) + 1] = f /\ \A i \in 1 .. Len(st) : ft[i] = st[i]
  BY <1>1, <1>3, <1>4, AppendProperties
<1>6. \A i \in 1 .. Len(ft) : i # Len(st) + 1 => i \in 1 .. Len(st)
  BY <1>1, <1>5
<1>7. ASSUME NEW i \in 1 .. Len(ft) PROVE ft[i].act \in 1 .. Len(av) /\ (ft[i].closure = TRUE => av[ft[i].act].closed = TRUE)
  <2>1. CASE i = Len(st) + 1
    BY <1>3, <1>5, <2>1
  <2>2. CASE i # Len(st) + 1
    BY <1>5, <1>6, <2>2 DEF ActsAndFrames
  <2> QED
    BY <2>1, <2>2
<1>8. ASSUME NEW i \in 1 .. Len(ft), NEW j \in 1 .. Len(ft), ft[i].closure = FALSE, ft[j].closure = FALSE, ft[i].act = ft[j].act
      PROVE  i = j
  <2>1. i \in 1 .. Len(st) /\ j \in 1 .. Len(st)
    BY <1>3, <1>5, <1>6, <1>8
  <2> QED
    BY <1>5, <1>8, <2>1 DEF ActsAndFrames
<1>9. \A m : IsLive(ft, m) <=> IsLive(st, m)
  BY <1>1, <1>3, <1>5, <1>6 DEF IsLive
<1> QED
  BY <1>2, <1>4, <1>5, <1>7, <1>8, <1>9 DEF ActsAndFrames

\* The innermost frame is popped: that of a closure, or of an activation
\* which has been put in order.
LEMMA FramePopped ==
  ASSUME NEW av, NEW st, ActsAndFrames(av, st), st # <<>>, NEW bs,
         LET n == st[Len(st)].act
         IN IF st[Len(st)].closure = TRUE THEN bs = av
            ELSE bs = [av EXCEPT ![n] = PutArgsObject(PutCallObject(av[n]))]
  PROVE  ActsAndFrames(bs, SubSeq(st, 1, Len(st) - 1))
<1>1. av \in Seq(ActivationSet) /\ st \in Seq(FrameSet) /\ Len(av) \in Nat /\ Len(st) \in Nat /\ Len(st) # 0
  <2>1. av \in Seq(ActivationSet) /\ st \in Seq(FrameSet)
    BY DEF ActsAndFrames
  <2> QED
    BY <2>1
<1>2. PICK k \in Nat : k = Len(st) - 1 /\ Len(st) = k + 1
  <2>1. Len(st) - 1 \in Nat
    BY <1>1
  <2> QED
    BY <1>1, <2>1
<1>3. PICK dn : dn = SubSeq(st, 1, k)
  OBVIOUS
<1>4. PICK f : f = st[k + 1]
  OBVIOUS
<1>5. f \in FrameSet /\ k + 1 \in 1 .. Len(st)
  BY <1>1, <1>2, <1>4, ElementOfSeq
<1>6. dn \in Seq(FrameSet) /\ Len(dn) = k /\ \A i \in 1 .. k : dn[i] = st[i] /\ i \in 1 .. Len(st)
  <2>1. \A i \in 1 .. k : st[i] \in FrameSet
    BY <1>1, <1>2, ElementOfSeq
  <2>2. k \in Int /\ 1 \in Int /\ k - 1 + 1 = k
    OBVIOUS
  <2>3. /\ SubSeq(st, 1, k) \in Seq(FrameSet) /\ Len(SubSeq(st, 1, k)) = IF 1 <= k THEN k - 1 + 1 ELSE 0
        /\ \A i \in 1 .. k - 1 + 1 : SubSeq(st, 1, k)[i] = st[1 + i - 1]
    BY <2>1, <2>2, SubSeqProperties
  <2>4. \A i \in 1 .. k : 1 + i - 1 = i /\ i \in 1 .. Len(st)
    BY <1>2
  <2> QED
    BY <1>3, <2>2, <2>3, <2>4
<1>7. \A i \in 1 .. Len(st) : i # k + 1 => i \in 1 .. k
  BY <1>2
<1>8. \A i \in 1 .. k : st[i].act \in 1 .. Len(av) /\ (st[i].closure = TRUE => av[st[i].act].closed = TRUE)
  BY <1>6 DEF ActsAndFrames
<1>9. ASSUME NEW i \in 1 .. Len(dn), NEW j \in 1 .. Len(dn), dn[i].closure = FALSE, dn[j].closure = FALSE, dn[i].act = dn[j].act
      PROVE  i = j
  BY <1>6, <1>9 DEF ActsAndFrames
<1>10. CASE f.closure = TRUE
  <2>1. bs = av
    BY <1>2, <1>4, <1>10
  <2>2. \A m : IsLive(dn, m) <=> IsLive(st, m)
    BY <1>4, <1>6, <1>7, <1>10 DEF IsLive
  <2>3. ActsAndFrames(bs, dn)
    BY <1>6, <1>8, <1>9, <2>1, <2>2 DEF ActsAndFrames
  <2> QED
    BY <1>2, <1>3, <2>3
<1>11. CASE f.closure = FALSE
  <2>1. PICK n \in 1 .. Len(av) : n = f.act
    BY <1>4, <1>5 DEF ActsAndFrames
  <2>2. PICK b : b = PutArgsObject(PutCallObject(av[n]))
    OBVIOUS
  <2>3. bs = [av EXCEPT ![n] = b]
    BY <1>2, <1>4, <1>11, <2>1, <2>2
  <2>4. IsLive(st, n) /\ Running(av[n])
    BY <1>4, <1>5, <1>11, <2>1 DEF IsLive, ActsAndFrames
  <2>5. Left(b) /\ b \in ActivationSet
    BY <2>2, <2>4, ActivationLeft DEF Left
  <2>6. b.closed \in {TRUE, av[n].closed}
    <3>1. ClosedIs(av[n], av[n].closed)
      BY <2>4 DEF ClosedIs, Running, ActivationSet
    <3> QED
      BY <2>2, <3>1, ClosedKept DEF ClosedIs
  <2>7. bs \in Seq(ActivationSet) /\ Len(bs) = Len(av) /\ bs[n] = b /\ \A j \in 1 .. Len(av) : j # n => bs[j] = av[j]
    BY <1>1, <2>3, <2>5, ExceptSeq
  <2>8. ~ IsLive(dn, n)
    <3>1. ASSUME NEW i \in 1 .. k, st[i].act = n, st[i].closure = FALSE PROVE FALSE
      <4>1. i = k + 1
        BY <1>4, <1>5, <1>6, <1>11, <2>1, <3>1 DEF ActsAndFrames
      <4> QED
        BY <4>1
    <3> QED
      BY <1>6, <3>1 DEF IsLive
  <2>9. \A m : m # n => (IsLive(dn, m) <=> IsLive(st, m))
    BY <1>4, <1>6, <1>7, <2>1 DEF IsLive
  <2>10. ASSUME NEW i \in 1 .. Len(dn) PROVE dn[i].act \in 1 .. Len(bs) /\ (dn[i].closure = TRUE => bs[dn[i].act].closed = TRUE)
    <3>1. dn[i].act \in 1 .. Len(av) /\ (dn[i].closure = TRUE => av[dn[i].act].closed = TRUE)
      BY <1>6, <1>8
    <3>2. CASE dn[i].act = n
      BY <2>6, <2>7, <3>1, <3>2
    <3>3. CASE dn[i].act # n
      BY <2>7, <3>1, <3>3
    <3> QED
      BY <3>2, <3>3
  <2>11. ASSUME NEW m \in 1 .. Len(bs) PROVE (IsLive(dn, m) => Running(bs[m])) /\ (~ IsLive(dn, m) => Left(bs[m]))
    <3>1. CASE m = n
      BY <2>5, <2>7, <2>8, <3>1
    <3>2. CASE m # n
      BY <2>7, <2>9, <3>2 DEF ActsAndFrames
    <3> QED
      BY <3>1, <3>2
  <2>12. ActsAndFrames(bs, dn)
    BY <1>6, <1>9, <2>7, <2>10, <2>11 DEF ActsAndFrames
  <2> QED
    BY <1>2, <1>3, <2>12
<1> QED
  BY <1>5, <1>10, <1>11 DEF FrameSet

\* F's topmost activation is one of a frame that is there.
LEMMA TopmostLive ==
  ASSUME NEW st, stack = st, st \in Seq(FrameSet), FFrames # {}
  PROVE  IsLive(st, Topmost)
<1>1. Len(st) \in Nat /\ DOMAIN st = 1 .. Len(st)
  OBVIOUS
<1>2. PICK F : F = FFrames
  OBVIOUS
<1>3. F \subseteq 1 .. Len(st) /\ F # {} /\ \A i \in F : ~ st[i].closure
  BY <1>1, <1>2 DEF FFrames
<1> DEFINE T == {Len(st) - i : i \in F}
<1>4. T \in SUBSET Nat /\ T # {}
  <2>1. \A i \in F : Len(st) - i \in Nat
    BY <1>1, <1>3
  <2>2. T # {}
    BY <1>3
  <2> QED
    BY <2>1, <2>2
<1>5. PICK k \in T : \A j \in T : k <= j
  <2> HIDE DEF T
  <2> QED
    BY <1>4, LeastNumber
<1>6. PICK i \in F : k = Len(st) - i
  BY <1>5
<1>7. \A j \in F : j <= i
  <2>1. ASSUME NEW j \in F PROVE j <= i
    <3>1. k <= Len(st) - j
      BY <1>5
    <3> QED
      BY <1>1, <1>3, <1>6, <3>1
  <2> QED
    BY <2>1
<1>8. PICK c : c = CHOOSE h \in F : \A j \in F : j <= h
  OBVIOUS
<1>9. c \in F
  BY <1>7, <1>8
<1>10. Topmost = st[c].act
  BY <1>2, <1>8 DEF Topmost
<1>11. c \in 1 .. Len(st) /\ st[c].closure = FALSE
  <2>1. st[c].closure \in BOOLEAN
    <3>1. st[c] \in FrameSet
      BY <1>3, <1>9, ElementOfSeq
    <3> QED
      BY <3>1 DEF FrameSet
  <2> QED
    BY <1>3, <1>9, <2>1
<1> QED
  BY <1>10, <1>11 DEF IsLive

LEMMA FramesInductive ==
  FramesInv /\ [FramesNext]_frames => FramesInv'
<1> SUFFICES ASSUME FramesInv, [FramesNext]_frames PROVE FramesInv'
  OBVIOUS
<1> PICK av : av = acts
  OBVIOUS
<1> PICK st : st = stack
  OBVIOUS
<1> PICK m : m = mix
  OBVIOUS
<1>1. /\ m \in CallMixes /\ frames = [acts |-> av, stack |-> st, mix |-> m] /\ ActsAndFrames(av, st)
      /\ av \in Seq(ActivationSet) /\ st \in Seq(FrameSet)
  BY DEF FramesInv, ActsAndFrames
<1>2. Len(av) \in Nat /\ DOMAIN av = 1 .. Len(av) /\ Len(st) \in Nat /\ DOMAIN st = 1 .. Len(st) /\ (st # <<>> => Len(st) \in 1 .. Len(st))
  BY <1>1
<1>3. ASSUME NEW bv, NEW ft, ActsAndFrames(bv, ft), frames' = [acts |-> bv, stack |-> ft, mix |-> m]
      PROVE  FramesInv'
  BY <1>1, <1>3 DEF FramesInv, acts, stack, mix
<1>4. ASSUME NEW n \in 1 .. Len(av), NEW b, IsLive(st, n) => Running(b), ~ IsLive(st, n) => Left(b), b.closed \in {TRUE, av[n].closed},
             frames' = Update(n, b)
      PROVE  FramesInv'
  <2>1. PICK bv : bv = [av EXCEPT ![n] = b]
    OBVIOUS
  <2>2. frames' = [acts |-> bv, stack |-> st, mix |-> m]
    BY <1>1, <1>4, <2>1 DEF Update
  <2>3. ActsAndFrames(bv, st)
    BY <1>1, <1>4, <2>1, OneChanges
  <2> QED
    BY <1>3, <2>2, <2>3
<1>5. ASSUME NEW n \in 1 .. Len(av)
      PROVE  /\ (IsLive(st, n) => Running(av[n])) /\ (~ IsLive(st, n) => Left(av[n])) /\ av[n] \in ActivationSet
             /\ ClosedIs(av[n], av[n].closed)
  <2>1. (IsLive(st, n) => Running(av[n])) /\ (~ IsLive(st, n) => Left(av[n]))
    BY <1>1 DEF ActsAndFrames
  <2>2. av[n] \in ActivationSet
    BY <1>1, ElementOfSeq
  <2> QED
    BY <2>1, <2>2 DEF ClosedIs, ActivationSet
<1>6. ASSUME st # <<>>
      PROVE  /\ TopFrame.act \in 1 .. Len(av) /\ TopFrame.act = st[Len(st)].act
             /\ InF => IsLive(st, TopFrame.act)
             /\ ~ InF => av[TopFrame.act].closed = TRUE
  <2>1. PICK f : f = st[Len(st)]
    OBVIOUS
  <2>2. f = TopFrame /\ f.closure \in BOOLEAN
    <3>1. f \in FrameSet
      BY <1>1, <1>2, <1>6, <2>1, ElementOfSeq
    <3> QED
      BY <2>1, <3>1 DEF TopFrame, FrameSet
  <2>3. f.act \in 1 .. Len(av) /\ (f.closure = TRUE => av[f.act].closed = TRUE)
    BY <1>1, <1>2, <1>6, <2>1 DEF ActsAndFrames
  <2>4. InF <=> f.closure = FALSE
    BY <1>6, <2>2 DEF InF
  <2>5. f.closure = FALSE => IsLive(st, f.act)
    BY <1>2, <1>6, <2>1 DEF IsLive
  <2> QED
    BY <2>1, <2>2, <2>3, <2>4, <2>5
<1>7. InF => st # <<>>
  BY DEF InF
<1>8. /\ m.actuals \subseteq Nat /\ m.names \subseteq Names /\ m.elements \subseteq Nat \ {0} /\ AssignedValues \subseteq Values
  BY <1>1, FramesAssumption DEF Values
<1>9. ASSUME NEW argc \in Nat, Invoke(argc) PROVE FramesInv'
  <2>1. PICK bv : bv = Append(av, Activation(argc))
    OBVIOUS
  <2>2. PICK ft : ft = Append(st, [act |-> Len(av) + 1, closure |-> FALSE])
    OBVIOUS
  <2>3. frames' = [acts |-> bv, stack |-> ft, mix |-> m]
    BY <1>1, <1>9, <2>1, <2>2 DEF Invoke, Push
  <2>4. ActsAndFrames(bv, ft)
    BY <1>1, <2>1, <2>2, ActivationPushed
  <2> QED
    BY <1>3, <2>3, <2>4
<1>10. ASSUME NEW n \in DOMAIN acts, InvokeClosure(n) PROVE FramesInv'
  <2>1. n \in 1 .. Len(av) /\ av[n].closed = TRUE
    <3>1. n \in 1 .. Len(av) /\ av[n].closed
      BY <1>2, <1>10 DEF InvokeClosure
    <3>2. av[n].closed \in BOOLEAN
      BY <1>5, <3>1 DEF ActivationSet
    <3> QED
      BY <3>1, <3>2
  <2>2. PICK ft : ft = Append(st, [act |-> n, closure |-> TRUE])
    OBVIOUS
  <2>3. frames' = [acts |-> av, stack |-> ft, mix |-> m]
    BY <1>1, <1>10, <2>2 DEF InvokeClosure, Push
  <2>4. ActsAndFrames(av, ft)
    BY <1>1, <2>1, <2>2, ClosurePushed
  <2> QED
    BY <1>3, <2>3, <2>4
<1>11. ASSUME NEW n \in DOMAIN acts, CallObject(n) PROVE FramesInv'
  <2>1. n \in 1 .. Len(av) /\ Frames(n) # {}
    BY <1>2, <1>11 DEF CallObject
  <2>2. IsLive(st, n)
    BY <1>1, <2>1, LiveFrames DEF Live
  <2>3. PICK b : b = GetCallObject(av[n])
    OBVIOUS
  <2>4. Running(b) /\ b.closed = av[n].closed
    <3>1. Running(b)
      BY <1>5, <2>1, <2>2, <2>3, CallAsked
    <3>2. ClosedIs(b, av[n].closed)
      BY <1>5, <2>1, <2>3, ClosedBySteps
    <3> QED
      BY <3>1, <3>2 DEF ClosedIs
  <2>5. frames' = Update(n, b)
    BY <1>11, <2>3 DEF CallObject
  <2> QED
    BY <1>4, <2>1, <2>2, <2>4, <2>5
\* What is done in a frame of F's:
<1>12. ASSUME InF PROVE TopFrame.act \in 1 .. Len(av) /\ IsLive(st, TopFrame.act) /\ Running(av[TopFrame.act])
  BY <1>5, <1>6, <1>7, <1>12
<1>13. ASSUME NEW b, InF, Running(b), ClosedIs(b, TRUE) \/ ClosedIs(b, av[TopFrame.act].closed), frames' = Update(TopFrame.act, b)
       PROVE  FramesInv'
  <2>1. PICK n \in 1 .. Len(av) : n = TopFrame.act /\ IsLive(st, n)
    BY <1>12, <1>13
  <2>2. b.closed \in {TRUE, av[n].closed} /\ frames' = Update(n, b)
    BY <1>13, <2>1 DEF ClosedIs
  <2> QED
    BY <1>4, <1>13, <2>1, <2>2
<1>14. ASSUME NEW x \in Names, NEW w \in Values, SetSlot(x, w) PROVE FramesInv'
  <2>1. PICK a : a = av[TopFrame.act]
    OBVIOUS
  <2>2. InF /\ frames' = Update(TopFrame.act, Assigned(PutSlot(a, x, w), x, w))
    BY <1>14, <2>1 DEF SetSlot
  <2>3. Running(a) /\ ClosedIs(a, a.closed)
    BY <1>5, <1>12, <2>1, <2>2
  <2>4. Running(Assigned(PutSlot(a, x, w), x, w)) /\ ClosedIs(Assigned(PutSlot(a, x, w), x, w), a.closed)
    BY <2>3, SlotRunning, ClosedKept
  <2> QED
    BY <1>13, <2>1, <2>2, <2>4
<1>15. ASSUME EnterWith \/ LeaveWith PROVE FramesInv'
  <2>1. PICK a : a = av[TopFrame.act]
    OBVIOUS
  <2>2. InF
    BY <1>15 DEF EnterWith, LeaveWith
  <2>3. Running(a) /\ ClosedIs(a, a.closed)
    BY <1>5, <1>12, <2>1, <2>2
  <2>4. CASE EnterWith
    <3>1. PICK b : b = [a EXCEPT !.withs = @ + 1, !.scope = <<"with">> \o @]
      OBVIOUS
    <3>2. Running(b) /\ ClosedIs(b, a.closed)
      BY <2>3, <3>1, WithEntered, ClosedBySteps
    <3>3. frames' = Update(TopFrame.act, b)
      BY <2>1, <2>4, <3>1 DEF EnterWith
    <3> QED
      BY <1>13, <2>1, <2>2, <3>2, <3>3
  <2>5. CASE LeaveWith
    <3>1. PICK b : b = [a EXCEPT !.withs = @ - 1, !.scope = Tail(@)]
      OBVIOUS
    <3>2. a.withs > 0 /\ frames' = Update(TopFrame.act, b)
      BY <2>1, <2>5, <3>1 DEF LeaveWith
    <3>3. Running(b) /\ ClosedIs(b, a.closed)
      BY <2>3, <3>1, <3>2, WithEntered, ClosedBySteps
    <3> QED
      BY <1>13, <2>1, <2>2, <3>2, <3>3
  <2> QED
    BY <1>15, <2>4, <2>5
<1>16. ASSUME Closure PROVE FramesInv'
  <2>1. PICK a : a = GetCallObject(av[TopFrame.act])
    OBVIOUS
  <2>2. PICK b : b = [a EXCEPT !.closed = TRUE]
    OBVIOUS
  <2>3. InF /\ frames' = Update(TopFrame.act, b)
    BY <1>16, <2>1, <2>2 DEF Closure
  <2>4. Running(a) /\ a.call.state = "linked"
    BY <1>12, <2>1, <2>3, CallAsked
  <2>5. Running(b) /\ ClosedIs(b, TRUE)
    <3>1. Running(b)
      BY <2>2, <2>4, ClosureMade
    <3>2. ClosedIs(b, TRUE)
      BY <2>2, <2>4 DEF ClosedIs, Running, ActivationSet
    <3> QED
      BY <3>1, <3>2
  <2> QED
    BY <1>13, <2>3, <2>5
<1>17. ASSUME NEW w \in AssignedValues, AssignArguments(w) PROVE FramesInv'
  <2>1. PICK a : a = GetCallObject(av[TopFrame.act])
    OBVIOUS
  <2>2. PICK b : b = [a EXCEPT !.call.arguments = w, !.overrides = @ \cup {"arguments"}]
    OBVIOUS
  <2>3. InF /\ frames' = Update(TopFrame.act, b)
    BY <1>17, <2>1, <2>2 DEF AssignArguments
  <2>4. Running(a) /\ ClosedIs(a, av[TopFrame.act].closed)
    BY <1>5, <1>12, <2>1, <2>3, CallAsked, ClosedBySteps
  <2>5. Running(b) /\ ClosedIs(b, av[TopFrame.act].closed)
    BY <2>2, <2>4, ArgumentsAssigned, ClosedBySteps
  <2> QED
    BY <1>13, <2>3, <2>5
\* What is done by name:
<1>18. ASSUME NEW a \in ActivationSet, Running(a) \/ Left(a)
       PROVE  /\ Base(a) = IF a.call.state = "none" THEN "fun" ELSE "call"
              /\ Running(a) /\ Base(a) # "fun" => a.call.state = "linked"
              /\ a.closed = TRUE => Base(a) = "call"
  <2>1. Base(a) = IF a.call.state = "none" THEN "fun" ELSE "call"
    BY <1>18, BaseOf DEF Running, Left
  <2>2. Running(a) => a.call.state \in {"none", "linked"}
    BY DEF Running, ActivationSet
  <2>3. a.closed = TRUE => a.call.state # "none"
    BY <1>18 DEF Running, Left
  <2> QED
    BY <2>1, <2>2, <2>3
<1>19. ASSUME NEW x \in Names, UseName(x) \/ \E w \in Values : AssignName(x, w) PROVE FramesInv'
  <2>1. st # <<>>
    BY <1>19 DEF UseName, AssignName
  <2>2. PICK n \in 1 .. Len(av) : n = TopFrame.act /\ (InF => IsLive(st, n)) /\ (~ InF => av[n].closed = TRUE)
    BY <1>6, <2>1
  <2>3. PICK a \in ActivationSet : a = av[n]
    BY <1>5
  <2>4. /\ (IsLive(st, n) => Running(a)) /\ (~ IsLive(st, n) => Left(a)) /\ ClosedIs(a, a.closed)
        /\ (~ IsLive(st, n) => a.closed = TRUE)
    BY <1>5, <2>2, <2>3
  <2>5. /\ Base(a) = IF a.call.state = "none" THEN "fun" ELSE "call"
        /\ Running(a) /\ Base(a) # "fun" => a.call.state = "linked"
        /\ a.closed = TRUE => Base(a) = "call"
    BY <1>18, <2>4
  <2>6. CASE UseName(x)
    <3>1. PICK b : b = GetName(a, x)
      OBVIOUS
    <3>2. Base(a) = "call" /\ frames' = Update(n, b)
      BY <2>2, <2>3, <2>6, <3>1 DEF UseName
    <3>3. ClosedIs(b, a.closed)
      BY <2>4, <3>1, ClosedKept
    <3>4. IsLive(st, n) => Running(b)
      BY <2>4, <2>5, <3>1, <3>2, NameUsed
    <3>5. ~ IsLive(st, n) => Left(b)
      <4>1. PICK w : w \in Values
        BY DEF Values
      <4> QED
        BY <2>4, <3>1, <4>1, LeftUsed
    <3> QED
      BY <1>4, <2>3, <3>2, <3>3, <3>4, <3>5 DEF ClosedIs
  <2>7. ASSUME NEW w \in Values, AssignName(x, w) PROVE FramesInv'
    <3>1. CASE Base(a) = "fun"
      <4>1. PICK b : b = Assigned(PutSlot(a, x, w), x, w)
        OBVIOUS
      <4>2. frames' = Update(n, b)
        BY <2>2, <2>3, <2>7, <3>1, <4>1 DEF AssignName
      <4>3. IsLive(st, n) /\ Running(b)
        BY <2>4, <2>5, <3>1, <4>1, SlotRunning
      <4>4. ClosedIs(b, a.closed)
        BY <2>4, <4>1, ClosedKept
      <4> QED
        BY <1>4, <2>3, <4>2, <4>3, <4>4 DEF ClosedIs
    <3>2. CASE Base(a) # "fun"
      <4>1. PICK b : b = SetName(a, x, w)
        OBVIOUS
      <4>2. frames' = Update(n, b)
        BY <2>2, <2>3, <2>7, <3>2, <4>1 DEF AssignName
      <4>3. ClosedIs(b, a.closed)
        BY <2>4, <4>1, ClosedKept
      <4>4. IsLive(st, n) => Running(b)
        BY <2>4, <2>5, <3>2, <4>1, NameAssigned
      <4>5. ~ IsLive(st, n) => Left(b)
        BY <2>4, <4>1, LeftUsed
      <4> QED
        BY <1>4, <2>3, <4>2, <4>3, <4>4, <4>5 DEF ClosedIs
    <3> QED
      BY <3>1, <3>2
  <2> QED
    BY <1>19, <2>6, <2>7
\* F.arguments:
<1>20. ASSUME NEW b, FFrames # {} => Running(b) /\ ClosedIs(b, av[Topmost].closed), Arguments(b) PROVE FramesInv'
  <2>1. FFrames # {} /\ frames' = Update(Topmost, b)
    BY <1>20 DEF Arguments
  <2>2. IsLive(st, Topmost)
    BY <1>1, <2>1, TopmostLive
  <2>3. PICK n \in 1 .. Len(av) : n = Topmost
    BY <1>1, <2>2 DEF IsLive, ActsAndFrames
  <2>4. Running(b) /\ b.closed = av[n].closed
    BY <1>20, <2>1, <2>3 DEF ClosedIs
  <2> QED
    BY <1>4, <2>1, <2>2, <2>3, <2>4
<1>21. PICK a : a = Asked
  OBVIOUS
<1>22. FFrames # {} => Running(a) /\ a.args.state = "linked" /\ ClosedIs(a, av[Topmost].closed)
  <2>1. SUFFICES ASSUME FFrames # {} PROVE Running(a) /\ a.args.state = "linked" /\ ClosedIs(a, av[Topmost].closed)
    OBVIOUS
  <2>2. IsLive(st, Topmost)
    BY <1>1, <2>1, TopmostLive
  <2>3. PICK n \in 1 .. Len(av) : n = Topmost
    BY <1>1, <2>2 DEF IsLive, ActsAndFrames
  <2>4. Running(av[n]) /\ ClosedIs(av[n], av[n].closed) /\ a = GetArgsObject(av[n])
    BY <1>5, <1>21, <2>2, <2>3 DEF Asked
  <2> QED
    BY <2>3, <2>4, AskedRunning, ClosedBySteps
<1>23. ASSUME NEW i \in Nat \ {0}, UseElement(i) \/ \E w \in Values : AssignElement(i, w) PROVE FramesInv'
  <2>1. CASE UseElement(i)
    <3>1. PICK b : b = GetElement(a, i)
      OBVIOUS
    <3>2. Arguments(b)
      BY <1>21, <2>1, <3>1 DEF UseElement
    <3>3. FFrames # {} => Running(b) /\ ClosedIs(b, av[Topmost].closed)
      BY <1>22, <3>1, ElementUsed, ClosedBySteps
    <3> QED
      BY <1>20, <3>2, <3>3
  <2>2. ASSUME NEW w \in Values, AssignElement(i, w) PROVE FramesInv'
    <3>1. PICK b : b = SetElement(a, i, w)
      OBVIOUS
    <3>2. Arguments(b)
      BY <1>21, <2>2, <3>1 DEF AssignElement
    <3>3. FFrames # {} => Running(b) /\ ClosedIs(b, av[Topmost].closed)
      BY <1>22, <3>1, ElementAssigned, ClosedKept
    <3> QED
      BY <1>20, <3>2, <3>3
  <2> QED
    BY <1>23, <2>1, <2>2
<1>24. ASSUME Enumerate \/ \E n \in Nat : AssignLength(n) PROVE FramesInv'
  <2>1. CASE Enumerate
    <3>1. PICK b : b = args_enumerate(a)
      OBVIOUS
    <3>2. Arguments(b)
      BY <1>21, <2>1, <3>1 DEF Enumerate
    <3>3. FFrames # {} => Running(b) /\ ClosedIs(b, av[Topmost].closed)
      BY <1>22, <3>1, Enumerated, ClosedBySteps
    <3> QED
      BY <1>20, <3>2, <3>3
  <2>2. ASSUME NEW n \in Nat, AssignLength(n) PROVE FramesInv'
    <3>1. PICK b : b = SetLength(a, n)
      OBVIOUS
    <3>2. Arguments(b)
      BY <1>21, <2>2, <3>1 DEF AssignLength
    <3>3. FFrames # {} => Running(b) /\ ClosedIs(b, av[Topmost].closed)
      BY <1>22, <3>1, LengthAssigned, ClosedKept
    <3> QED
      BY <1>20, <3>2, <3>3
  <2> QED
    BY <1>24, <2>1, <2>2
<1>25. ASSUME Leave PROVE FramesInv'
  <2>1. st # <<>>
    BY <1>25 DEF Leave
  <2>2. PICK f : f = st[Len(st)]
    OBVIOUS
  <2>3. f = TopFrame /\ f.closure \in BOOLEAN
    <3>1. f \in FrameSet
      BY <1>1, <1>2, <2>1, <2>2, ElementOfSeq
    <3> QED
      BY <2>2, <3>1 DEF TopFrame, FrameSet
  <2>4. PICK bv : bv = IF f.closure THEN av ELSE [av EXCEPT ![f.act] = PutArgsObject(PutCallObject(av[f.act]))]
    OBVIOUS
  <2>5. PICK dn : dn = SubSeq(st, 1, Len(st) - 1)
    OBVIOUS
  <2>6. ActsAndFrames(bv, dn)
    <3>1. CASE f.closure = TRUE
      <4>1. bv = av /\ st[Len(st)].closure = TRUE
        BY <2>2, <2>4, <3>1
      <4> QED
        BY <1>1, <2>1, <2>5, <4>1, FramePopped
    <3>2. CASE f.closure = FALSE
      <4>1. /\ bv = [av EXCEPT ![st[Len(st)].act] = PutArgsObject(PutCallObject(av[st[Len(st)].act]))]
            /\ ~ (st[Len(st)].closure = TRUE)
        BY <2>2, <2>4, <3>2
      <4> QED
        BY <1>1, <2>1, <2>5, <4>1, FramePopped
    <3> QED
      BY <2>3, <3>1, <3>2
  <2>7. PICK d : d = dn[Len(dn)]
    OBVIOUS
  <2>8. CASE frames' = [acts |-> bv, stack |-> dn, mix |-> m]
    BY <1>3, <2>6, <2>8
  <2>9. CASE dn # <<>> /\ ~ d.closure /\ frames' = [acts |-> [bv EXCEPT ![d.act] = GetArgsObject(@)], stack |-> dn, mix |-> m]
    <3>1. dn \in Seq(FrameSet) /\ Len(dn) \in 1 .. Len(dn)
      <4>1. dn \in Seq(FrameSet)
        BY <2>6 DEF ActsAndFrames
      <4> QED
        BY <2>9, <4>1
    <3>2. d \in FrameSet /\ d.closure = FALSE
      <4>1. d \in FrameSet
        BY <2>7, <3>1, ElementOfSeq
      <4> QED
        BY <2>9, <4>1 DEF FrameSet
    <3>3. PICK n \in 1 .. Len(bv) : n = d.act
      BY <2>6, <2>7, <3>1 DEF ActsAndFrames
    <3>4. IsLive(dn, n)
      BY <2>7, <3>1, <3>2, <3>3 DEF IsLive
    <3>5. Running(bv[n]) /\ ClosedIs(bv[n], bv[n].closed)
      BY <2>6, <3>4 DEF ActsAndFrames, Running, ClosedIs, ActivationSet
    <3>6. PICK b : b = GetArgsObject(bv[n])
      OBVIOUS
    <3>7. Running(b) /\ b.closed = bv[n].closed
      <4>1. ClosedIs(b, bv[n].closed)
        BY <3>5, <3>6, ClosedBySteps
      <4> QED
        BY <3>5, <3>6, <4>1, AskedRunning DEF ClosedIs
    <3>8. PICK cv : cv = [bv EXCEPT ![n] = b]
      OBVIOUS
    <3>9. ActsAndFrames(cv, dn)
      BY <2>6, <3>4, <3>7, <3>8, OneChanges
    <3>10. frames' = [acts |-> cv, stack |-> dn, mix |-> m]
      BY <2>9, <3>3, <3>6, <3>8
    <3> QED
      BY <1>3, <3>9, <3>10
  <2>10. \/ frames' = [acts |-> bv, stack |-> dn, mix |-> m]
         \/ dn # <<>> /\ ~ d.closure /\ frames' = [acts |-> [bv EXCEPT ![d.act] = GetArgsObject(@)], stack |-> dn, mix |-> m]
    BY <1>1, <1>25, <2>3, <2>4, <2>5, <2>7 DEF Leave
  <2> QED
    BY <2>8, <2>9, <2>10
<1>26. CASE UNCHANGED frames
  BY <1>26 DEF FramesInv, acts, stack, mix
<1>27. CASE FramesNext
  <2>1. \A w \in AssignedValues : w \in Values
    BY <1>8
  <2>2. (\E n \in 0 .. 1 : AssignLength(n)) => \E n \in Nat : AssignLength(n)
    OBVIOUS
  <2>3. (\E argc \in mix.actuals : Invoke(argc)) => FramesInv'
    BY <1>8, <1>9
  <2>4. (\E n \in DOMAIN acts : InvokeClosure(n) \/ (Does("call") /\ CallObject(n))) => FramesInv'
    BY <1>10, <1>11
  <2>5. (\E x \in mix.names : UseName(x) \/ \E w \in AssignedValues : SetSlot(x, w) \/ AssignName(x, w)) => FramesInv'
    BY <1>8, <1>14, <1>19, <2>1
  <2>6. (\E i \in mix.elements : UseElement(i) \/ \E w \in AssignedValues : AssignElement(i, w)) => FramesInv'
    BY <1>8, <1>23, <2>1
  <2> QED
    BY <1>15, <1>16, <1>17, <1>24, <1>25, <1>27, <2>2, <2>3, <2>4, <2>5, <2>6 DEF FramesNext
<1> QED
  BY <1>26, <1>27

\* js_Invoke, the Call and the Arguments objects (jsinterp.c, jsfun.c):
\* whatever a function and its closures do in whatever order, while an
\* activation's frame is there its variables are the same by slot, by name
\* and as elements of arguments; when it has been left its objects have the
\* last values; and its scope chain is exactly the with objects entered over
\* the Call object or the function - for any number of activations, any
\* values and any mix of operations.
THEOREM FramesCorrect == FramesSpec => []FramesSound
<1>1. ASSUME frames \in FramesStart PROVE FramesInv
  <2>1. PICK m \in CallMixes : frames = [acts |-> <<>>, stack |-> <<>>, mix |-> m]
    BY <1>1 DEF FramesStart
  <2>2. acts = <<>> /\ stack = <<>> /\ mix = m
    BY <2>1 DEF acts, stack, mix
  <2>3. ActsAndFrames(<<>>, <<>>)
    BY EmptySeq DEF ActsAndFrames
  <2> QED
    BY <2>1, <2>2, <2>3 DEF FramesInv
<1>2. FramesInv => FramesSound
  <2> SUFFICES ASSUME FramesInv, NEW n \in DOMAIN acts
               PROVE  ScopeExact(acts[n]) /\ (IF Live(n) THEN SameWhileRunning(acts[n]) ELSE KeptWhenLeft(acts[n]))
    BY DEF FramesSound
  <2>1. PICK av : av = acts
    OBVIOUS
  <2>2. PICK st : st = stack
    OBVIOUS
  <2>3. ActsAndFrames(av, st) /\ av \in Seq(ActivationSet) /\ st \in Seq(FrameSet)
    BY <2>1, <2>2 DEF FramesInv, ActsAndFrames
  <2>4. n \in 1 .. Len(av)
    BY <2>1, <2>3
  <2>5. (IsLive(st, n) => Running(av[n])) /\ (~ IsLive(st, n) => Left(av[n]))
    BY <2>3, <2>4 DEF ActsAndFrames
  <2>6. Live(n) <=> IsLive(st, n)
    BY <2>2, <2>3, LiveFrames
  <2>7. CASE IsLive(st, n)
    BY <2>1, <2>5, <2>6, <2>7, RunningSame DEF Running
  <2>8. CASE ~ IsLive(st, n)
    BY <2>1, <2>5, <2>6, <2>8 DEF Left
  <2> QED
    BY <2>7, <2>8
<1>3. FramesSpec => []FramesInv
  BY <1>1, FramesInductive, PTL DEF FramesSpec
<1> QED
  BY <1>2, <1>3, PTL
=============================================================================
