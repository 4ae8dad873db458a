---------------------------- MODULE MCAtomTable ----------------------------
\* Instances of AtomTable: all keys but the third stay in one chain however
\* large the table gets; the third leaves it when the table doubles.
EXTENDS AtomTable, TLC

CONSTANT k3

MCHash == [k \in Keys |-> IF k = k3 THEN 2 ELSE 0]

Symmetry == Permutations(Threads) \cup Permutations(Atoms) \cup Permutations(Buffers)
              \cup Permutations(Keys \ {k3})
\* Bounds: after a failed add has changed the table's size there are only the
\* steps to the first use of the table that goes wrong; one thread at a time
\* pins or gives its characters away, and it does one of them.
Bounded ==
  /\ moved => ~Sound(table)
  /\ Cardinality({t \in Threads : flags[t] # {}}) < 2
  /\ \A t \in Threads : flags[t] # {"Pin", "NoCopy"}
=============================================================================
