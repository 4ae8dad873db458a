------------------------------ MODULE Interning ------------------------------
(***************************************************************************)
(* What the atom table promises: one atom for equal contents, for as long  *)
(* as the atom is reachable.                                               *)
(***************************************************************************)
CONSTANTS Contents, Atoms, NoAtom

VARIABLES
  atomOf,  \* atomOf[c]: the atom of c, if it has one
  rooted   \* the atoms that the program can reach

Init == atomOf = [c \in Contents |-> NoAtom] /\ rooted = {}

\* Find or create the atom; the caller keeps it or does not.
Intern(c) ==
  /\ \E a \in Atoms :
       /\ \/ a = atomOf[c]
          \/ atomOf[c] = NoAtom /\ \A d \in Contents : atomOf[d] # a
       /\ atomOf' = [atomOf EXCEPT ![c] = a]
       /\ rooted' \in {rooted, rooted \cup {a}}

Release(a) == rooted' = rooted \ {a} /\ UNCHANGED atomOf

Collect ==
  /\ \E C \in SUBSET {c \in Contents : atomOf[c] \notin rooted} :
       atomOf' = [c \in Contents |-> IF c \in C THEN NoAtom ELSE atomOf[c]]
  /\ UNCHANGED rooted

Next == Collect \/ (\E c \in Contents : Intern(c)) \/ (\E a \in Atoms : Release(a))

Spec == Init /\ [][Next]_<<atomOf, rooted>>
=============================================================================
