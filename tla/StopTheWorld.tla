---------------------------- MODULE StopTheWorld ----------------------------
(***************************************************************************)
(* What the request model of jsapi.c promises an embedding: a collection   *)
(* runs only while no context is inside a request, and no context gets     *)
(* into one before the collection has ended.                               *)
(***************************************************************************)
CONSTANTS Contexts, NoContext

VARIABLES
  running,    \* the contexts that execute inside a request
  collector   \* the context that collects, or NoContext

Init == running = {} /\ collector = NoContext

\* Begin a request, or go on with one after having waited for a collection.
Enter(c) ==
  /\ collector = NoContext
  /\ running' = running \cup {c}
  /\ UNCHANGED collector

\* End a request, or stop for the time of a collection.
Leave(c) ==
  /\ running' = running \ {c}
  /\ UNCHANGED collector

Collect(c) ==
  /\ collector = NoContext
  /\ running \subseteq {c}
  /\ collector' = c
  /\ running' = {}

Finish(c) ==
  /\ collector = c
  /\ collector' = NoContext
  /\ running' \in {running, running \cup {c}}

Next == \E c \in Contexts : Enter(c) \/ Leave(c) \/ Collect(c) \/ Finish(c)

Spec == Init /\ [][Next]_<<running, collector>>
=============================================================================
