---------------------------- MODULE FatLockPool ----------------------------
(***************************************************************************)
(* What allocateFatlock and deallocateFatlock promise the thin locks: a    *)
(* fat lock that nobody has, until it is given back.                       *)
(***************************************************************************)
CONSTANTS
  Users, \* the thin locks' code, one thread each
  None   \* no fat lock

VARIABLES
  pool,  \* the fat locks that can be handed out
  held   \* held[u]: the fat lock that u has, or None

Init == held = [u \in Users |-> None]

Allocate(u) ==
  /\ held[u] = None
  /\ \E m \in pool : pool' = pool \ {m} /\ held' = [held EXCEPT ![u] = m]

Deallocate(u) ==
  /\ held[u] # None
  /\ pool' = pool \cup {held[u]}
  /\ held' = [held EXCEPT ![u] = None]

\* js_SetupLocks and js_CleanupLocks, when nobody has a fat lock.
Renew == \A u \in Users : held[u] = None /\ held'[u] = None

Next == Renew \/ \E u \in Users : Allocate(u) \/ Deallocate(u)

Spec == Init /\ [][Next]_<<pool, held>>
=============================================================================
