------------------------------- MODULE Mutex -------------------------------
(***************************************************************************)
(* What jslock.c promises its callers: a set of mutual-exclusion locks.    *)
(* A free lock goes to one thread, and only that thread gives it back.     *)
(***************************************************************************)
CONSTANTS Threads, Locks, NoThread

VARIABLE holder  \* holder[p]: the thread inside p, or NoThread

Init == holder = [p \in Locks |-> NoThread]

Acquire(t, p) ==
  /\ holder[p] = NoThread
  /\ holder' = [holder EXCEPT ![p] = t]

Release(t, p) ==
  /\ holder[p] = t
  /\ holder' = [holder EXCEPT ![p] = NoThread]

Next == \E t \in Threads, p \in Locks : Acquire(t, p) \/ Release(t, p)

Spec == Init /\ [][Next]_holder
=============================================================================
