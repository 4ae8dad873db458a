------------------------------ MODULE MCGCHeap ------------------------------
\* Instances of GCHeap: the contexts are interchangeable.
EXTENDS GCHeap, TLC

\* An object and a string in each arena.
ObjectPlaces == {<<a, 1>> : a \in 1..MaxArenas}

Symmetry == Permutations(Contexts)
=============================================================================
