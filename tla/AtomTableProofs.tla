--------------------------- MODULE AtomTableProofs ---------------------------
(***************************************************************************)
(* Proofs about the atom table: its chains hold every atom once, where a   *)
(* lookup finds it, for every number of threads and every size and hash    *)
(* function of the table, and it implements interning.                     *)
(***************************************************************************)
EXTENDS AtomTable, SequenceLemmas

\* The recursion of Power.
LEMMA PowerSteps ==
  /\ Power[0] = 1
  /\ \A n \in Nat : Power[n] \in Nat \ {0} /\ Power[n + 1] = 2 * Power[n]
<1> DEFINE G == [n \in Nat |-> [x \in Nat |-> 2 * x]]
<1>1. Steps(Nat, G)
  BY DEF Steps
<1>2. \A n, x \in Nat : G[n][x] = 2 * x
  OBVIOUS
<1> HIDE DEF G
<1>3. PICK f : Recursive(f, Nat, 1, G)
  BY <1>1, Recursion
<1>4. f \in [Nat -> Nat] /\ f[0] = 1 /\ \A n \in Nat : f[n + 1] = 2 * f[n]
  BY <1>2, <1>3 DEF Recursive
<1>5. f = [n \in Nat |-> IF n = 0 THEN 1 ELSE 2 * f[n - 1]]
  <2>1. ASSUME NEW n \in Nat, n # 0 PROVE f[n] = 2 * f[n - 1]
    <3>1. n - 1 \in Nat /\ (n - 1) + 1 = n
      BY <2>1
    <3> QED
      BY <1>4, <3>1
  <2> QED
    BY <1>4, <2>1
<1>6. Power = [n \in Nat |-> IF n = 0 THEN 1 ELSE 2 * Power[n - 1]]
  BY <1>5 DEF Power
<1>7. ASSUME NEW n \in Nat PROVE Power[n + 1] = 2 * Power[n]
  BY <1>6
<1>8. Power[0] = 1
  BY <1>6
<1> DEFINE T == {n \in Nat : Power[n] \in Nat \ {0}}
<1>9. 0 \in T
  BY <1>8
<1>10. ASSUME NEW n \in T PROVE n + 1 \in T
  BY <1>7
<1> HIDE DEF T
<1>11. T = Nat
  BY <1>9, <1>10, Induction DEF T
<1> QED
  BY <1>7, <1>8, <1>11 DEF T

LEMMA PowerSum ==
  ASSUME NEW m \in Nat, NEW n \in Nat
  PROVE  Power[m + n] = Power[m] * Power[n]
<1> DEFINE T == {k \in Nat : Power[m + k] = Power[m] * Power[k]}
<1>1. 0 \in T
  <2>1. m + 0 = m /\ Power[m] \in Nat /\ Power[0] = 1
    BY PowerSteps
  <2> QED
    BY <2>1
<1>2. ASSUME NEW k \in T PROVE k + 1 \in T
  <2>1. k \in Nat /\ m + k \in Nat /\ m + (k + 1) = (m + k) + 1 /\ Power[m + k] = Power[m] * Power[k]
    OBVIOUS
  <2>2. Power[m + (k + 1)] = 2 * (Power[m] * Power[k]) /\ Power[k + 1] = 2 * Power[k]
    BY <2>1, PowerSteps
  <2>3. \A p, q \in Nat : 2 * (p * q) = p * (2 * q)
    OBVIOUS
  <2>4. Power[m] \in Nat /\ Power[k] \in Nat
    BY <2>1, PowerSteps
  <2> QED
    BY <2>1, <2>2, <2>3, <2>4
<1> HIDE DEF T
<1>3. T = Nat
  BY <1>1, <1>2, Induction DEF T
<1>4. n \in T
  BY <1>3
<1> QED
  BY <1>4 DEF T

\* The bucket that a hash code chooses is in the array.
LEMMA IndexInTable ==
  ASSUME NEW k \in Keys, NEW log \in 0..HashBits
  PROVE  Index(k, log) \in 0..(Power[log] - 1)
<1>1. HashBits \in Nat /\ log \in Nat /\ HashBits - log \in Nat /\ (HashBits - log) + log = HashBits
  BY HashTableAssumption DEF HashTableAssumption
<1>2. Power[HashBits] = Power[HashBits - log] * Power[log]
  BY <1>1, PowerSum
<1>3. Hash[k] \in 0..(Power[HashBits] - 1)
  BY HashTableAssumption DEF HashTableAssumption
<1>4. Power[log] \in Nat \ {0} /\ Power[HashBits - log] \in Nat \ {0}
  BY <1>1, PowerSteps
<1>5. \A h \in Nat, q, s \in Nat \ {0} : h < q * s => h \div q \in 0..(s - 1)
  OBVIOUS
<1>6. Hash[k] \in Nat /\ Hash[k] < Power[HashBits - log] * Power[log]
  BY <1>2, <1>3, <1>4
<1> QED
  BY <1>4, <1>5, <1>6 DEF Index
-----------------------------------------------------------------------------
\* Only keeps the members of S and nothing else.
LEMMA OnlyElements ==
  ASSUME NEW A, NEW s \in Seq(A), NEW S
  PROVE  /\ Only(s, S) \in Seq(A)
         /\ ToSet(Only(s, S)) = ToSet(s) \cap S
         /\ IsInjective(s) => IsInjective(Only(s, S))
<1>1. Only(s, S) = Chosen(s, S)
  BY DEF Only, Chosen
<1> QED
  BY <1>1, ChosenElements
-----------------------------------------------------------------------------
\* A table of entries in A whose array has the size that log says.
IsTable(T, A) ==
  /\ T = [log |-> T.log, buckets |-> T.buckets]
  /\ T.log \in MinLog..HashBits
  /\ T.buckets \in [0..(Power[T.log] - 1) -> Seq(A)]

\* Every entry is once in its chain and in no other chain.
WellPlaced(T, k) ==
  \A i \in DOMAIN T.buckets :
    /\ IsInjective(T.buckets[i])
    /\ \A e \in ToSet(T.buckets[i]) : Index(k[e], T.log) = i

\* Where an entry can be added to chain i.
CellsOf(T, i) == {Bucket(i)} \cup {NextCell(e) : e \in ToSet(T.buckets[i])}

\* U has the chains of T, each perhaps in another order.
SameChains(T, U) ==
  /\ U.log = T.log
  /\ DOMAIN U.buckets = DOMAIN T.buckets
  /\ \A i \in DOMAIN T.buckets :
       /\ ToSet(U.buckets[i]) = ToSet(T.buckets[i])
       /\ IsInjective(T.buckets[i]) => IsInjective(U.buckets[i])

LEMMA SameElements ==
  ASSUME NEW T, NEW U, SameChains(T, U)
  PROVE  /\ Entries(U) = Entries(T)
         /\ \A i \in DOMAIN T.buckets : CellsOf(U, i) = CellsOf(T, i)
         /\ \A k : WellPlaced(T, k) => WellPlaced(U, k)
<1>1. \A k : WellPlaced(T, k) => WellPlaced(U, k)
  BY DEF SameChains, WellPlaced
<1>2. \A i \in DOMAIN T.buckets : CellsOf(U, i) = CellsOf(T, i)
  BY DEF SameChains, CellsOf
<1>3. Entries(U) = Entries(T)
  BY DEF SameChains, Entries
<1> QED
  BY <1>1, <1>2, <1>3

LEMMA MoveToFrontSame ==
  ASSUME NEW A, NEW T, IsTable(T, A), NEW i \in DOMAIN T.buckets, NEW e \in ToSet(T.buckets[i])
  PROVE  IsTable(MoveToFront(T, i, e), A) /\ SameChains(T, MoveToFront(T, i, e))
<1> DEFINE s == T.buckets[i]
           rest == Only(s, ToSet(s) \ {e})
           one == <<e>>
           new == one \o rest
           M == MoveToFront(T, i, e)
<1>1. s \in Seq(A) /\ e \in A
  <2>1. s \in Seq(A)
    BY DEF IsTable
  <2> QED
    BY <2>1 DEF ToSet
<1>2. rest \in Seq(A) /\ ToSet(rest) = ToSet(s) \ {e} /\ (IsInjective(s) => IsInjective(rest))
  BY <1>1, OnlyElements
<1>3. one \in Seq(A) /\ ToSet(one) = {e} /\ IsInjective(one)
  BY <1>1 DEF ToSet, IsInjective
<1>4. M = [log |-> T.log, buckets |-> [T.buckets EXCEPT ![i] = new]]
  <2>1. M = [T EXCEPT !.buckets[i] = new]
    BY DEF MoveToFront
  <2> HIDE DEF M, new
  <2>2. T = [log |-> T.log, buckets |-> T.buckets]
    BY DEF IsTable
  <2> QED
    BY <2>1, <2>2
<1> HIDE DEF M, rest, one
<1>5. new \in Seq(A) /\ ToSet(new) = ToSet(s) /\ (IsInjective(s) => IsInjective(new))
  <2>1. /\ new \in Seq(A) /\ ToSet(new) = {e} \cup ToSet(rest)
        /\ (IsInjective(rest) /\ {e} \cap ToSet(rest) = {} => IsInjective(new))
    BY <1>2, <1>3, ConcatElements
  <2>2. {e} \cap ToSet(rest) = {} /\ {e} \cup ToSet(rest) = ToSet(s)
    BY <1>2
  <2> HIDE DEF new
  <2> QED
    BY <1>2, <2>1, <2>2
<1> HIDE DEF new
<1>6. /\ M.log = T.log /\ DOMAIN M.buckets = DOMAIN T.buckets
      /\ \A j \in DOMAIN T.buckets : M.buckets[j] = IF j = i THEN new ELSE T.buckets[j]
  BY <1>4 DEF IsTable
<1>7. IsTable(M, A)
  BY <1>4, <1>5 DEF IsTable
<1>8. SameChains(T, M)
  BY <1>5, <1>6 DEF SameChains
<1> QED
  BY <1>7, <1>8 DEF M

\* A cell is a bucket's head or the next field of one entry.
LEMMA CellsDistinct ==
  /\ \A d, e : NextCell(d) = NextCell(e) => d = e
  /\ \A i, j : Bucket(i) = Bucket(j) => i = j
  /\ \A e, i : NextCell(e) # Bucket(i)
<1>1. \A e, i : NextCell(e).entry = e /\ Bucket(i).bucket = i
  BY DEF NextCell, Bucket
<1>2. \A e, i : DOMAIN NextCell(e) = {"entry"} /\ DOMAIN Bucket(i) = {"bucket"}
  BY DEF NextCell, Bucket
<1> QED
  BY <1>1, <1>2

\* The address a lookup that finds nothing returns is in the chain of the key.
LEMMA TailCellInChain ==
  ASSUME NEW A, NEW T, IsTable(T, A), NEW k \in Keys
  PROVE  /\ Index(k, T.log) \in DOMAIN T.buckets
         /\ TailCell(T, k) \in CellsOf(T, Index(k, T.log))
<1> DEFINE i == Index(k, T.log)
<1>1. T.log \in 0..HashBits
  BY HashTableAssumption DEF HashTableAssumption, IsTable
<1>2. i \in DOMAIN T.buckets /\ T.buckets[i] \in Seq(A)
  BY <1>1, IndexInTable DEF IsTable
<1> HIDE DEF i
<1>3. ASSUME T.buckets[i] # <<>> PROVE T.buckets[i][Len(T.buckets[i])] \in ToSet(T.buckets[i])
  BY <1>2, <1>3 DEF ToSet
<1> QED
  BY <1>2, <1>3 DEF TailCell, CellsOf, i

\* Insert changes the chain the cell is in, and no other.
LEMMA InsertInBucket ==
  ASSUME NEW A, NEW T, IsTable(T, A), NEW cell, NEW e \in A, NEW j \in DOMAIN T.buckets
  PROVE  LET s == T.buckets[j]
             r == Insert(T, cell, e).buckets[j] IN
         /\ r \in Seq(A)
         /\ cell \in CellsOf(T, j) => ToSet(r) = ToSet(s) \cup {e}
         /\ cell \notin CellsOf(T, j) => r = s
         /\ IsInjective(s) /\ e \notin ToSet(s) => IsInjective(r)
<1>0. T.buckets[j] \in Seq(A)
  BY DEF IsTable
<1> DEFINE s == T.buckets[j]
           r == Insert(T, cell, e).buckets[j]
           p == SelectInSeq(s, LAMBDA x : cell = NextCell(x))
           I == {n \in 1..Len(s) : cell = NextCell(s[n])}
           one == <<e>>
<1>1. s \in Seq(A) /\ DOMAIN s = 1..Len(s) /\ Len(s) \in Nat
  BY <1>0
<1>2. r = IF cell = Bucket(j) THEN one \o s
          ELSE IF p = 0 THEN s ELSE InsertAt(s, p + 1, e)
  <2>1. T = [log |-> T.log, buckets |-> T.buckets]
    BY DEF IsTable
  <2>2. Insert(T, cell, e) =
          [T EXCEPT !.buckets = [i \in DOMAIN T.buckets |->
             IF cell = Bucket(i) THEN <<e>> \o T.buckets[i]
             ELSE LET q == SelectInSeq(T.buckets[i], LAMBDA x : cell = NextCell(x)) IN
                  IF q = 0 THEN T.buckets[i] ELSE InsertAt(T.buckets[i], q + 1, e)]]
    BY DEF Insert
  <2> QED
    BY <2>1, <2>2
<1>3. p = IF I # {} THEN Min(I) ELSE 0
  BY DEF SelectInSeq
<1>4. one \in Seq(A) /\ ToSet(one) = {e} /\ IsInjective(one)
  BY DEF ToSet, IsInjective
<1>5. (\E x \in ToSet(s) : cell = NextCell(x)) <=> I # {}
  BY <1>1 DEF ToSet
<1> HIDE DEF r, s, p, one
<1>6. I # {} => p \in 1..Len(s)
  <2> SUFFICES ASSUME I # {} PROVE p \in I
    OBVIOUS
  <2>1. I \in SUBSET Nat
    BY <1>1
  <2>2. \E n \in I : \A m \in I : n <= m
    BY <2>1, LeastNumber
  <2> HIDE DEF I
  <2> QED
    BY <1>3, <2>2 DEF Min
<1>7. cell \in CellsOf(T, j) <=> cell = Bucket(j) \/ I # {}
  BY <1>5 DEF CellsOf, s
<1> HIDE DEF I
<1>8. CASE cell = Bucket(j)
  <2>1. /\ r = one \o s /\ cell \in CellsOf(T, j)
        /\ r \in Seq(A) /\ ToSet(r) = ToSet(one) \cup ToSet(s)
        /\ IsInjective(one) /\ IsInjective(s) /\ ToSet(one) \cap ToSet(s) = {} => IsInjective(r)
    BY <1>1, <1>2, <1>4, <1>7, <1>8, ConcatElements
  <2> QED
    BY <1>4, <2>1 DEF r, s
<1>9. CASE cell # Bucket(j) /\ I # {}
  <2>1. p \in 1..Len(s) /\ p # 0 /\ p + 1 \in 1..(Len(s) + 1)
    BY <1>1, <1>6, <1>9
  <2>2. r = InsertAt(s, p + 1, e) /\ cell \in CellsOf(T, j)
    BY <1>2, <1>7, <1>9, <2>1
  <2>3. /\ r \in Seq(A) /\ ToSet(r) = ToSet(s) \cup {e}
        /\ IsInjective(s) /\ e \notin ToSet(s) => IsInjective(r)
    BY <1>1, <2>1, <2>2, InsertElements
  <2> QED
    BY <2>2, <2>3 DEF r, s
<1>10. CASE cell # Bucket(j) /\ I = {}
  <2>1. r = s /\ cell \notin CellsOf(T, j)
    BY <1>2, <1>3, <1>7, <1>10
  <2> QED
    BY <1>1, <2>1 DEF r, s
<1> QED
  BY <1>8, <1>9, <1>10

\* A new entry, through a cell of any chain; well placed when that is the
\* chain of its key.
LEMMA InsertElement ==
  ASSUME NEW A, NEW T, IsTable(T, A), NEW i \in DOMAIN T.buckets, NEW cell \in CellsOf(T, i),
         NEW e \in A, e \notin Entries(T)
  PROVE  LET U == Insert(T, cell, e) IN
         /\ IsTable(U, A)
         /\ U.log = T.log
         /\ Entries(U) = Entries(T) \cup {e}
         /\ \A k : WellPlaced(T, k) /\ Index(k[e], T.log) = i => WellPlaced(U, k)
<1> DEFINE U == Insert(T, cell, e)
<1>1. T = [log |-> T.log, buckets |-> T.buckets] /\ DOMAIN T.buckets = 0..(Power[T.log] - 1)
  BY DEF IsTable
<1>2. /\ U = [log |-> T.log, buckets |-> U.buckets]
      /\ U.buckets = [j \in DOMAIN T.buckets |-> U.buckets[j]]
  <2> DEFINE V(j) == IF cell = Bucket(j) THEN <<e>> \o T.buckets[j]
                     ELSE LET q == SelectInSeq(T.buckets[j], LAMBDA x : cell = NextCell(x)) IN
                          IF q = 0 THEN T.buckets[j] ELSE InsertAt(T.buckets[j], q + 1, e)
  <2>1. U = [T EXCEPT !.buckets = [j \in DOMAIN T.buckets |-> V(j)]]
    BY DEF Insert
  <2> HIDE DEF U, V
  <2> QED
    BY <1>1, <2>1
<1> HIDE DEF U
<1>3. ASSUME NEW j \in DOMAIN T.buckets
      PROVE  /\ U.buckets[j] \in Seq(A)
             /\ cell \in CellsOf(T, j) => ToSet(U.buckets[j]) = ToSet(T.buckets[j]) \cup {e}
             /\ cell \notin CellsOf(T, j) => U.buckets[j] = T.buckets[j]
             /\ IsInjective(T.buckets[j]) => IsInjective(U.buckets[j])
  <2>1. e \notin ToSet(T.buckets[j])
    BY DEF Entries
  <2>2. /\ U.buckets[j] \in Seq(A)
        /\ cell \in CellsOf(T, j) => ToSet(U.buckets[j]) = ToSet(T.buckets[j]) \cup {e}
        /\ cell \notin CellsOf(T, j) => U.buckets[j] = T.buckets[j]
        /\ IsInjective(T.buckets[j]) /\ e \notin ToSet(T.buckets[j]) => IsInjective(U.buckets[j])
    BY InsertInBucket, Zenon DEF U
  <2> QED
    BY <2>1, <2>2
<1>4. U.log = T.log /\ DOMAIN U.buckets = DOMAIN T.buckets
  BY <1>2
<1>5. IsTable(U, A)
  <2>1. U.buckets \in [DOMAIN T.buckets -> Seq(A)]
    BY <1>2, <1>3
  <2> QED
    BY <1>1, <1>2, <1>4, <2>1 DEF IsTable
<1>6. Entries(U) = Entries(T) \cup {e}
  <2>1. ASSUME NEW j \in DOMAIN T.buckets
        PROVE  ToSet(U.buckets[j]) = ToSet(T.buckets[j]) \/ ToSet(U.buckets[j]) = ToSet(T.buckets[j]) \cup {e}
    BY <1>3
  <2>2. ToSet(U.buckets[i]) = ToSet(T.buckets[i]) \cup {e}
    BY <1>3
  <2> QED
    BY <1>4, <2>1, <2>2 DEF Entries
<1>7. ASSUME NEW k, WellPlaced(T, k), Index(k[e], T.log) = i PROVE WellPlaced(U, k)
  <2> SUFFICES ASSUME NEW j \in DOMAIN T.buckets
               PROVE  /\ IsInjective(U.buckets[j])
                      /\ \A d \in ToSet(U.buckets[j]) : Index(k[d], T.log) = j
    BY <1>4 DEF WellPlaced
  <2>1. IsInjective(T.buckets[j]) /\ \A d \in ToSet(T.buckets[j]) : Index(k[d], T.log) = j
    BY <1>7 DEF WellPlaced
  <2>2. CASE cell \in CellsOf(T, j)
    <3>1. j = i
      <4>1. CASE cell = Bucket(j)
        BY <4>1, CellsDistinct DEF CellsOf
      <4>2. CASE cell # Bucket(j)
        <5>1. PICK d \in ToSet(T.buckets[j]) : cell = NextCell(d)
          BY <2>2, <4>2 DEF CellsOf
        <5>2. d \in ToSet(T.buckets[i])
          BY <5>1, CellsDistinct DEF CellsOf
        <5> QED
          BY <1>7, <2>1, <5>1, <5>2 DEF WellPlaced
      <4> QED
        BY <4>1, <4>2
    <3> QED
      BY <1>3, <1>7, <2>1, <2>2, <3>1
  <2>3. CASE cell \notin CellsOf(T, j)
    BY <1>3, <2>1, <2>3
  <2> QED
    BY <2>2, <2>3
<1> QED
  BY <1>4, <1>5, <1>6, <1>7 DEF U

\* Another size: the same entries, each in the chain of its key.
LEMMA RehashElements ==
  ASSUME NEW A, NEW T, IsTable(T, A), NEW k, \A e \in Entries(T) : k[e] \in Keys,
         NEW log \in MinLog..HashBits
  PROVE  LET R == Rehash(T, k, log) IN
         /\ IsTable(R, A)
         /\ R.log = log
         /\ Entries(R) = Entries(T)
         /\ WellPlaced(T, k) => WellPlaced(R, k)
<1> DEFINE R == Rehash(T, k, log)
           ss == [i \in 1..Power[T.log] |-> T.buckets[i - 1]]
           all == FlattenSeq(ss)
           Of(j) == {e \in ToSet(all) : Index(k[e], log) = j}
<1>1. PICK n \in Nat : Power[T.log] = n + 1
  <2>1. T.log \in Nat
    BY HashTableAssumption DEF HashTableAssumption, IsTable
  <2>2. Power[T.log] \in Nat \ {0}
    BY <2>1, PowerSteps
  <2>3. Power[T.log] - 1 \in Nat /\ Power[T.log] = (Power[T.log] - 1) + 1
    BY <2>2
  <2> QED
    BY <2>3
<1>2. ss \in [1..(n + 1) -> Seq(A)] /\ DOMAIN ss = 1..(n + 1) /\ DOMAIN T.buckets = 0..n
  <2>1. T.buckets \in [0..n -> Seq(A)]
    BY <1>1 DEF IsTable
  <2>2. \A i \in 1..(n + 1) : i - 1 \in 0..n
    OBVIOUS
  <2>3. \A i \in 1..(n + 1) : T.buckets[i - 1] \in Seq(A)
    BY <2>1, <2>2
  <2> QED
    BY <1>1, <2>1, <2>3
<1>3. \A i \in 1..(n + 1) : i - 1 \in DOMAIN T.buckets /\ ss[i] = T.buckets[i - 1]
  BY <1>1, <1>2
<1>4. \A j \in DOMAIN T.buckets : j + 1 \in 1..(n + 1) /\ ss[j + 1] = T.buckets[j]
  BY <1>2, <1>3
<1> HIDE DEF ss
<1>5. all \in Seq(A) /\ ToSet(all) = UNION {ToSet(ss[i]) : i \in DOMAIN ss}
      /\ ((\A i \in DOMAIN ss : IsInjective(ss[i])) /\ Disjoint(ss) => IsInjective(all))
  BY <1>2, FlattenElements
<1>6. R = [log |-> log, buckets |-> [j \in 0..(Power[log] - 1) |-> Only(all, Of(j))]]
  BY DEF Rehash, ss
<1> HIDE DEF all, R
<1>7. ToSet(all) = Entries(T)
  <2>1. UNION {ToSet(ss[i]) : i \in DOMAIN ss} \subseteq Entries(T)
    BY <1>2, <1>3 DEF Entries
  <2>2. Entries(T) \subseteq UNION {ToSet(ss[i]) : i \in DOMAIN ss}
    BY <1>2, <1>4 DEF Entries
  <2> QED
    BY <1>5, <2>1, <2>2
<1>8. ASSUME WellPlaced(T, k) PROVE IsInjective(all)
  <2>1. \A i \in DOMAIN ss : IsInjective(ss[i])
    BY <1>2, <1>3, <1>8 DEF WellPlaced
  <2>2. ASSUME NEW i \in DOMAIN ss, NEW j \in DOMAIN ss, NEW e, e \in ToSet(ss[i]), e \in ToSet(ss[j])
        PROVE  i = j
    <3>1. Index(k[e], T.log) = i - 1 /\ Index(k[e], T.log) = j - 1
      BY <1>2, <1>3, <1>8, <2>2 DEF WellPlaced
    <3> QED
      BY <1>2, <3>1
  <2>3. Disjoint(ss)
    BY <2>2 DEF Disjoint
  <2> QED
    BY <1>5, <2>1, <2>3
<1>9. ASSUME NEW j
      PROVE  /\ Only(all, Of(j)) \in Seq(A)
             /\ ToSet(Only(all, Of(j))) = {e \in Entries(T) : Index(k[e], log) = j}
             /\ WellPlaced(T, k) => IsInjective(Only(all, Of(j)))
  <2>1. /\ Only(all, Of(j)) \in Seq(A) /\ ToSet(Only(all, Of(j))) = ToSet(all) \cap Of(j)
        /\ IsInjective(all) => IsInjective(Only(all, Of(j)))
    BY <1>5, OnlyElements
  <2> QED
    BY <1>7, <1>8, <2>1
<1> DEFINE P(j) == Only(all, Of(j))
<1> HIDE DEF P
<1>10. /\ R.log = log /\ DOMAIN R.buckets = 0..(Power[log] - 1)
       /\ R = [log |-> R.log, buckets |-> R.buckets]
       /\ \A j \in 0..(Power[log] - 1) : R.buckets[j] = P(j)
       /\ R.buckets = [j \in 0..(Power[log] - 1) |-> P(j)]
  BY <1>6 DEF P
<1>11. \A j : /\ P(j) \in Seq(A)
              /\ ToSet(P(j)) = {e \in Entries(T) : Index(k[e], log) = j}
              /\ WellPlaced(T, k) => IsInjective(P(j))
  BY <1>9 DEF P
<1>12. IsTable(R, A)
  BY <1>10, <1>11 DEF IsTable
<1>13. Entries(R) = Entries(T)
  <2>1. \A e \in Entries(T) : Index(k[e], log) \in 0..(Power[log] - 1)
    <3>1. log \in 0..HashBits
      BY HashTableAssumption DEF HashTableAssumption
    <3> QED
      BY <3>1, IndexInTable
  <2>2. \A j \in DOMAIN R.buckets : ToSet(R.buckets[j]) = {e \in Entries(T) : Index(k[e], log) = j}
    BY <1>10, <1>11
  <2>3. ASSUME NEW e \in Entries(T) PROVE e \in Entries(R)
    <3>1. Index(k[e], log) \in DOMAIN R.buckets
      BY <1>10, <2>1
    <3>2. e \in ToSet(R.buckets[Index(k[e], log)])
      BY <2>2, <3>1
    <3> QED
      BY <3>1, <3>2 DEF Entries
  <2>4. ASSUME NEW e \in Entries(R) PROVE e \in Entries(T)
    <3>1. PICK j \in DOMAIN R.buckets : e \in ToSet(R.buckets[j])
      BY DEF Entries
    <3> QED
      BY <2>2, <3>1
  <2> QED
    BY <2>3, <2>4
<1>14. WellPlaced(T, k) => WellPlaced(R, k)
  BY <1>10, <1>11 DEF WellPlaced
<1> QED
  BY <1>10, <1>12, <1>13, <1>14 DEF R

\* Freeing d of n entries leaves the size of the table between the smallest
\* and the one it had.
LEMMA ShrunkLogRange ==
  ASSUME NEW log \in MinLog..HashBits, NEW n \in Nat, NEW d \in Nat, d <= n
  PROVE  /\ ShrunkLog(log, n, d) \in MinLog..log
         /\ d = 0 => ShrunkLog(log, n, d) = log
<1>1. MinLog \in Nat /\ HashBits \in Nat /\ log \in Nat
  BY HashTableAssumption DEF HashTableAssumption
<1> DEFINE next(i, x) == IF n - i < Underloaded(Power[x]) THEN x - 1 ELSE x
           G == [i \in Nat |-> [x \in Int |-> next(i + 1, x)]]
           step == CHOOSE s : s = [i \in 0..d |-> IF i = 0 THEN log ELSE
                     IF n - i < Underloaded(Power[s[i - 1]]) THEN s[i - 1] - 1 ELSE s[i - 1]]
<1>2. ShrunkLog(log, n, d) = step[d]
  BY DEF ShrunkLog
<1>3. step = [i \in 0..d |-> IF i = 0 THEN log ELSE next(i, step[i - 1])]
  <2>1. Steps(Int, G)
    BY DEF Steps
  <2>2. \A i \in Nat, x \in Int : G[i][x] = next(i + 1, x)
    OBVIOUS
  <2> HIDE DEF G
  <2>3. PICK f : Recursive(f, Int, log, G)
    <3>1. log \in Int
      BY <1>1
    <3> QED
      BY <2>1, <3>1, Recursion
  <2>4. f \in [Nat -> Int] /\ f[0] = log /\ \A i \in Nat : f[i + 1] = G[i][f[i]]
    BY <2>3 DEF Recursive
  <2>5. ASSUME NEW i \in 1..d PROVE f[i] = next(i, f[i - 1])
    <3>1. i - 1 \in Nat /\ (i - 1) + 1 = i
      OBVIOUS
    <3>2. f[i] = G[i - 1][f[i - 1]] /\ f[i - 1] \in Int
      BY <2>4, <3>1
    <3> HIDE DEF next
    <3> QED
      BY <2>2, <3>1, <3>2
  <2> DEFINE g == [i \in 0..d |-> f[i]]
  <2> HIDE DEF next
  <2>6. g = [i \in 0..d |-> IF i = 0 THEN log ELSE next(i, g[i - 1])]
    <3>1. ASSUME NEW i \in 0..d, i # 0 PROVE i \in 1..d /\ i - 1 \in 0..d /\ g[i - 1] = f[i - 1]
      BY <3>1
    <3> QED
      BY <2>4, <2>5, <3>1
  <2> HIDE DEF g
  <2> QED
    BY <2>6 DEF next
<1> HIDE DEF step, G
<1>4. ASSUME NEW i \in 1..d, NEW x \in MinLog..log PROVE next(i, x) \in MinLog..log
  <2>1. n - i \in Nat /\ x \in Nat
    BY <1>1
  <2>2. Power[x] \in Nat /\ Power[MinLog] \in Nat
    BY <1>1, <2>1, PowerSteps
  <2>3. n - i < Underloaded(Power[x]) => x # MinLog
    BY <2>1, <2>2 DEF Underloaded
  <2> QED
    BY <1>1, <2>1, <2>3
<1> HIDE DEF next
<1> DEFINE T == {i \in Nat : i <= d => step[i] \in MinLog..log}
<1>5. 0 \in T
  BY <1>1, <1>3
<1>6. ASSUME NEW i \in T PROVE i + 1 \in T
  <2> SUFFICES ASSUME i + 1 <= d PROVE step[i + 1] \in MinLog..log
    OBVIOUS
  <2>1. i + 1 \in 1..d /\ i + 1 \in 0..d /\ i + 1 # 0 /\ (i + 1) - 1 = i /\ i <= d
    OBVIOUS
  <2>2. step[i + 1] = next(i + 1, step[i])
    BY <1>3, <2>1
  <2>3. step[i] \in MinLog..log
    BY <2>1
  <2> QED
    BY <1>4, <2>1, <2>2, <2>3
<1> HIDE DEF T
<1>7. T = Nat
  BY <1>5, <1>6, Induction DEF T
<1>8. step[d] \in MinLog..log
  BY <1>7 DEF T
<1>9. d = 0 => step[d] = log
  BY <1>3
<1> QED
  BY <1>2, <1>8, <1>9

\* Dead entries leave their chains, and the table may get smaller.
LEMMA SweptElements ==
  ASSUME NEW A, NEW T, IsTable(T, A), NEW k, \A e \in Entries(T) : k[e] \in Keys,
         NEW n \in Nat, NEW Dead, IsFiniteSet(Dead), Cardinality(Dead) <= n
  PROVE  LET S == Swept(T, k, n, Dead) IN
         /\ IsTable(S, A)
         /\ Entries(S) = Entries(T) \ Dead
         /\ WellPlaced(T, k) => WellPlaced(S, k)
         /\ Dead = {} => SameChains(T, S)
<1> DEFINE new == [i \in DOMAIN T.buckets |-> Only(T.buckets[i], ToSet(T.buckets[i]) \ Dead)]
           left == [T EXCEPT !.buckets = new]
           log == ShrunkLog(T.log, n, Cardinality(Dead))
           S == Swept(T, k, n, Dead)
<1>1. S = IF log = T.log THEN left ELSE Rehash(left, k, log)
  BY DEF Swept
<1>2. /\ T = [log |-> T.log, buckets |-> T.buckets] /\ T.log \in MinLog..HashBits
      /\ DOMAIN T.buckets = 0..(Power[T.log] - 1) /\ \A i \in DOMAIN T.buckets : T.buckets[i] \in Seq(A)
  BY DEF IsTable
<1>3. Cardinality(Dead) \in Nat
  BY FS_CardinalityType
<1>4. log \in MinLog..T.log /\ (Cardinality(Dead) = 0 => log = T.log)
  BY <1>2, <1>3, ShrunkLogRange
<1>5. log \in MinLog..HashBits
  BY <1>2, <1>4, HashTableAssumption DEF HashTableAssumption
<1> HIDE DEF S, log
<1>6. left = [log |-> T.log, buckets |-> new]
  <2> HIDE DEF new
  <2> QED
    BY <1>2
<1>7. \A i \in DOMAIN T.buckets :
        /\ new[i] \in Seq(A)
        /\ ToSet(new[i]) = ToSet(T.buckets[i]) \ Dead
        /\ IsInjective(T.buckets[i]) => IsInjective(new[i])
  BY <1>2, OnlyElements
<1>8. new = [i \in DOMAIN T.buckets |-> new[i]]
  OBVIOUS
<1> HIDE DEF new, left
<1>9. left.log = T.log /\ left.buckets = new /\ DOMAIN left.buckets = DOMAIN T.buckets
  BY <1>6, <1>8
<1>10. IsTable(left, A)
  BY <1>2, <1>6, <1>7, <1>8, <1>9 DEF IsTable
<1>11. Entries(left) = Entries(T) \ Dead
  BY <1>7, <1>9 DEF Entries
<1>12. WellPlaced(T, k) => WellPlaced(left, k)
  BY <1>7, <1>9 DEF WellPlaced
<1>13. Dead = {} => SameChains(T, left)
  BY <1>7, <1>9 DEF SameChains
<1>14. Dead = {} => log = T.log
  BY <1>4, FS_EmptySet
<1>15. CASE log = T.log
  BY <1>1, <1>10, <1>11, <1>12, <1>13, <1>15 DEF S
<1>16. CASE log # T.log
  <2>1. S = Rehash(left, k, log)
    BY <1>1, <1>16
  <2>2. \A e \in Entries(left) : k[e] \in Keys
    BY <1>11
  <2>3. IsTable(S, A) /\ Entries(S) = Entries(left) /\ (WellPlaced(left, k) => WellPlaced(S, k))
    BY <1>5, <1>10, <2>1, <2>2, RehashElements, Zenon
  <2> QED
    BY <1>11, <1>12, <1>14, <1>16, <2>3 DEF S
<1> QED
  BY <1>15, <1>16

\* What the table is when an entry is added to n others.
LEMMA GrownElements ==
  ASSUME NEW A, NEW T, IsTable(T, A), NEW k, \A e \in Entries(T) : k[e] \in Keys,
         NEW n \in Nat, n < Overloaded(Power[HashBits])
  PROVE  LET G == Grown(T, k, n) IN
         /\ IsTable(G, A)
         /\ Entries(G) = Entries(T)
         /\ WellPlaced(T, k) => WellPlaced(G, k)
         /\ G.log = T.log => G = T
         /\ G.log \in {T.log, T.log + 1}
<1> DEFINE G == Grown(T, k, n)
<1>1. T.log \in MinLog..HashBits /\ MinLog \in Nat /\ HashBits \in Nat
  BY HashTableAssumption DEF HashTableAssumption, IsTable
<1>2. CASE n >= Overloaded(Power[T.log])
  <2>1. T.log # HashBits
    <3>1. Power[HashBits] \in Nat
      BY <1>1, PowerSteps
    <3>2. Overloaded(Power[HashBits]) \in Int
      BY <3>1 DEF Overloaded
    <3> QED
      BY <1>2, <3>2
  <2>2. T.log + 1 \in MinLog..HashBits
    BY <1>1, <2>1
  <2>3. G = Rehash(T, k, T.log + 1)
    BY <1>2 DEF Grown
  <2> HIDE DEF G
  <2>4. IsTable(G, A) /\ G.log = T.log + 1 /\ Entries(G) = Entries(T) /\ (WellPlaced(T, k) => WellPlaced(G, k))
    BY <2>2, <2>3, RehashElements, Zenon
  <2> QED
    BY <1>1, <2>4 DEF G
<1>3. CASE ~(n >= Overloaded(Power[T.log]))
  BY <1>3 DEF Grown
<1> QED
  BY <1>2, <1>3
-----------------------------------------------------------------------------
(***************************************************************************)
(* The inductive invariant.  TableSound alone is not kept by the step that *)
(* adds an atom through an address another section has found: that address *)
(* must still be one in the chain of the key, and the key not there yet.   *)
(***************************************************************************)
Cells == {NextCell(a) : a \in Live} \cup {Bucket(i) : i \in DOMAIN table.buckets}

TableInv ==
  /\ moved \in BOOLEAN
  /\ table = [log |-> table.log, buckets |-> table.buckets]
  /\ table.log \in MinLog..HashBits
  /\ \E log \in MinLog..table.log : table.buckets \in [0..(Power[log] - 1) -> Seq(Atoms)]
  /\ Sound(table) \/ moved
  /\ key \in [Atoms -> Keys \cup {NoKey}]
  /\ Entries(table) = Live
  /\ nentries = Cardinality(Live)
  /\ ~moved => WellPlaced(table, key)
  /\ ~moved => \A a, b \in Live : key[a] = key[b] => a = b

MemoryInv ==
  /\ chars \in [Atoms -> Buffers \cup {NoBuffer}]
  /\ \A a \in Live : chars[a] \in Buffers
  /\ pinned \subseteq Live /\ rooted \subseteq Live
  /\ strings \subseteq Buffers /\ malloced \subseteq Buffers

CallsType ==
  /\ pc \in [Threads -> {"run", "new", "add", "wild"}]
  /\ arg \in [Threads -> Keys \cup {NoKey}]
  /\ flags \in [Threads -> SUBSET {"Pin", "NoCopy"}]
  /\ own \in [Threads -> Buffers \cup {NoBuffer}]
  /\ str \in [Threads -> Buffers \cup {NoBuffer}]

LocalsType ==
  /\ CallsType
  /\ same \in [Threads -> BOOLEAN]
  /\ hep = [t \in Threads |-> hep[t]]

LocalsInv(t) ==
  /\ hep[t] \in {NoCell, FreedCell} \cup Cells
  /\ pc[t] \in {"new", "add"} => /\ arg[t] \in Keys
                                 /\ hep[t] \in {FreedCell} \cup Cells
                                 /\ "NoCopy" \in flags[t] => own[t] \in Buffers
  /\ pc[t] = "add" => str[t] \in Buffers

IInv ==
  /\ TableInv
  /\ MemoryInv
  /\ LocalsType /\ \A t \in Threads : LocalsInv(t)
  /\ ~moved => HepValid

LEMMA TableInvSound ==
  ASSUME TableInv, Sound(table)
  PROVE  /\ IsTable(table, Atoms)
         /\ \A e \in Entries(table) : key[e] \in Keys
         /\ IsFiniteSet(Live) /\ nentries \in Nat
         /\ nentries < Overloaded(Power[HashBits])
<1>1. IsTable(table, Atoms)
  <2>1. PICK log : table.buckets \in [0..(Power[log] - 1) -> Seq(Atoms)]
    BY DEF TableInv
  <2>2. DOMAIN table.buckets = 0..(Power[table.log] - 1)
    BY DEF Sound
  <2>3. table.buckets \in [DOMAIN table.buckets -> Seq(Atoms)]
    BY <2>1
  <2> QED
    BY <2>2, <2>3 DEF TableInv, IsTable
<1>2. \A e \in Entries(table) : key[e] \in Keys
  BY DEF TableInv, Live
<1>3. IsFiniteSet(Live) /\ Cardinality(Live) <= Cardinality(Atoms)
  <2>1. Live \in SUBSET Atoms
    BY DEF Live
  <2> QED
    BY <2>1, AtomTableAssumption, FS_Subset DEF AtomTableAssumption
<1>4. Cardinality(Live) \in Nat /\ Cardinality(Atoms) \in Nat
  BY <1>3, AtomTableAssumption, FS_CardinalityType DEF AtomTableAssumption
<1>5. Overloaded(Power[HashBits]) \in Int
  <2>1. HashBits \in Nat
    BY HashTableAssumption DEF HashTableAssumption
  <2>2. Power[HashBits] \in Nat
    BY <2>1, PowerSteps
  <2> QED
    BY <2>2 DEF Overloaded
<1>6. Cardinality(Atoms) < Overloaded(Power[HashBits])
  BY AtomTableAssumption DEF AtomTableAssumption
<1>7. nentries = Cardinality(Live)
  BY DEF TableInv
<1> QED
  BY <1>1, <1>2, <1>3, <1>4, <1>5, <1>6, <1>7

\* A sound table of the live atoms satisfies the parts of TableInv about it.
LEMMA IsTableInv ==
  ASSUME NEW T, IsTable(T, Atoms)
  PROVE  /\ T = [log |-> T.log, buckets |-> T.buckets]
         /\ T.log \in MinLog..HashBits
         /\ \E log \in MinLog..T.log : T.buckets \in [0..(Power[log] - 1) -> Seq(Atoms)]
         /\ Sound(T)
<1>1. T.log \in MinLog..HashBits /\ MinLog \in Int
  BY HashTableAssumption DEF HashTableAssumption, IsTable
<1>2. T.log \in MinLog..T.log
  BY <1>1
<1>3. T.buckets \in [0..(Power[T.log] - 1) -> Seq(Atoms)]
  BY DEF IsTable
<1> QED
  BY <1>1, <1>2, <1>3 DEF IsTable, Sound

\* A lookup finds every atom of its key.
LEMMA FoundAll ==
  ASSUME TableInv, ~moved, NEW k \in Keys
  PROVE  FoundIn(table, key, k) = {a \in Live : key[a] = k}
<1>1. FoundIn(table, key, k) \subseteq {a \in Live : key[a] = k}
  <2>1. IsTable(table, Atoms)
    BY TableInvSound DEF TableInv
  <2>2. Index(k, table.log) \in DOMAIN table.buckets
    BY <2>1, TailCellInChain
  <2>3. ToSet(table.buckets[Index(k, table.log)]) \subseteq Entries(table)
    BY <2>2 DEF Entries
  <2> QED
    BY <2>3 DEF FoundIn, TableInv
<1>2. ASSUME NEW a \in Live, key[a] = k PROVE a \in FoundIn(table, key, k)
  <2>1. PICK i \in DOMAIN table.buckets : a \in ToSet(table.buckets[i])
    BY DEF TableInv, Entries
  <2>2. Index(key[a], table.log) = i
    BY <2>1 DEF TableInv, WellPlaced
  <2> QED
    BY <1>2, <2>1, <2>2 DEF FoundIn
<1> QED
  BY <1>1, <1>2

\* Only the keys of entries matter.
LEMMA WellPlacedAgree ==
  ASSUME NEW T, NEW j, NEW k, WellPlaced(T, j), \A e \in Entries(T) : k[e] = j[e]
  PROVE  WellPlaced(T, k)
BY DEF WellPlaced, Entries

\* An address that is not freed is one of the table's still.
LEMMA DanglingCells ==
  ASSUME NEW Dead, NEW resized, NEW u \in Threads, Live \ Dead \subseteq Live',
         ~resized => DOMAIN table.buckets \subseteq DOMAIN table'.buckets
  PROVE  \/ Dangling(Dead, resized)[u] = FreedCell
         \/ /\ Dangling(Dead, resized)[u] = hep[u]
            /\ hep[u] \in Cells => hep[u] \in Cells'
<1>1. CASE \/ \E a \in Dead : hep[u] = NextCell(a)
           \/ resized /\ \E i \in DOMAIN table.buckets : hep[u] = Bucket(i)
  BY <1>1 DEF Dangling
<1>2. CASE ~(\/ \E a \in Dead : hep[u] = NextCell(a)
             \/ resized /\ \E i \in DOMAIN table.buckets : hep[u] = Bucket(i))
  <2>1. Dangling(Dead, resized)[u] = hep[u]
    BY <1>2 DEF Dangling
  <2>2. ASSUME NEW a \in Live, hep[u] = NextCell(a) PROVE hep[u] \in Cells'
    <3>1. a \in Live'
      BY <1>2, <2>2
    <3> QED
      BY <2>2, <3>1 DEF Cells
  <2>3. ASSUME NEW i \in DOMAIN table.buckets, hep[u] = Bucket(i) PROVE hep[u] \in Cells'
    <3>1. i \in DOMAIN table'.buckets
      BY <1>2, <2>3
    <3> QED
      BY <2>3, <3>1 DEF Cells
  <2> QED
    BY <2>1, <2>2, <2>3 DEF Cells
<1> QED
  BY <1>1, <1>2

\* What RawAdd does with the cell of a lookup of its key, or any other once
\* the table has been moved.
LEMMA RawAddEffect ==
  ASSUME TableInv, Sound(table), LocalsType,
         NEW t \in Threads, NEW k \in Keys, NEW b, NEW pin,
         NEW i \in DOMAIN table.buckets, NEW cell \in CellsOf(table, i),
         ~moved => FoundIn(table, key, k) = {} /\ i = Index(k, table.log),
         RawAdd(t, table, cell, k, b, pin), moved' = moved
  PROVE  /\ TableInv'
         /\ \E a \in Atoms \ Live : /\ Live' = Live \cup {a}
                                    /\ key' = [key EXCEPT ![a] = k]
                                    /\ chars' = [chars EXCEPT ![a] = b]
                                    /\ pinned' = Pinned(a, pin)
                                    /\ Return(a)
         /\ hep' = [u \in Threads |-> hep'[u]] /\ hep'[t] = NoCell
         /\ \A u \in Threads \ {t} :
              \/ hep'[u] = FreedCell
              \/ hep'[u] = hep[u] /\ (hep[u] \in Cells => hep[u] \in Cells')
<1>1. /\ IsTable(table, Atoms) /\ \A e \in Entries(table) : key[e] \in Keys
      /\ IsFiniteSet(Live) /\ nentries \in Nat /\ nentries < Overloaded(Power[HashBits])
  BY TableInvSound
<1> DEFINE G == Grown(table, key, nentries)
           resized == G.log # table.log
           c == IF resized THEN TailCell(G, k) ELSE cell
           j == IF resized THEN Index(k, G.log) ELSE i
<1>2. PICK a \in Atoms \ Live :
        /\ table' = Insert(G, c, a)
        /\ nentries' = nentries + 1
        /\ key' = [key EXCEPT ![a] = k]
        /\ chars' = [chars EXCEPT ![a] = b]
        /\ pinned' = Pinned(a, pin)
        /\ hep' = [Dangling({}, resized) EXCEPT ![t] = NoCell]
        /\ NextGeneration
        /\ Return(a)
  BY DEF RawAdd
<1>3. /\ IsTable(G, Atoms) /\ Entries(G) = Entries(table)
      /\ WellPlaced(table, key) => WellPlaced(G, key)
      /\ ~resized => G = table
  BY <1>1, GrownElements, Zenon
<1> HIDE DEF G
<1>4. j \in DOMAIN G.buckets /\ c \in CellsOf(G, j)
  <2>1. CASE resized
    BY <1>3, <2>1, TailCellInChain
  <2>2. CASE ~resized
    BY <1>3, <2>2
  <2> QED
    BY <2>1, <2>2
<1>5. ~moved => j = Index(k, G.log)
  BY <1>3
<1> HIDE DEF c, j
<1>6. Live' = Live \cup {a} /\ key \in [Atoms -> Keys \cup {NoKey}]
      /\ key' \in [Atoms -> Keys \cup {NoKey}]
      /\ key'[a] = k /\ \A e \in Live : key'[e] = key[e]
  <2>1. key \in [Atoms -> Keys \cup {NoKey}] /\ k # NoKey
    BY AtomTableAssumption DEF TableInv, AtomTableAssumption
  <2> QED
    BY <1>2, <2>1 DEF Live
<1>7. Entries(table) = Live /\ a \notin Entries(G)
  BY <1>2, <1>3 DEF TableInv
<1>8. /\ IsTable(table', Atoms) /\ table'.log = G.log
      /\ Entries(table') = Entries(G) \cup {a}
      /\ \A f : WellPlaced(G, f) /\ Index(f[a], G.log) = j => WellPlaced(table', f)
  <2>1. a \in Atoms /\ a \notin Entries(G) /\ IsTable(G, Atoms) /\ j \in DOMAIN G.buckets /\ c \in CellsOf(G, j)
    BY <1>3, <1>4, <1>7
  <2> DEFINE U == Insert(G, c, a)
  <2>2. /\ IsTable(U, Atoms) /\ U.log = G.log
        /\ Entries(U) = Entries(G) \cup {a}
        /\ \A f : WellPlaced(G, f) /\ Index(f[a], G.log) = j => WellPlaced(U, f)
    BY <2>1, InsertElement
  <2> QED
    BY <1>2, <2>2
<1>9. ASSUME ~moved PROVE WellPlaced(table', key')
  <2>1. WellPlaced(G, key)
    BY <1>3, <1>9 DEF TableInv
  <2>2. \A e \in Entries(G) : key'[e] = key[e]
    BY <1>3, <1>6, <1>7
  <2>3. WellPlaced(G, key')
    BY <2>1, <2>2, WellPlacedAgree
  <2> QED
    BY <1>5, <1>6, <1>8, <1>9, <2>3
<1>10. ASSUME ~moved PROVE \A d, e \in Live' : key'[d] = key'[e] => d = e
  <2>1. \A d, e \in Live : key[d] = key[e] => d = e
    BY <1>10 DEF TableInv
  <2>2. \A e \in Live : key[e] # k
    BY <1>10, FoundAll
  <2> QED
    BY <1>6, <2>1, <2>2
<1>11. nentries' = Cardinality(Live')
  <2>1. a \notin Live /\ nentries = Cardinality(Live)
    BY <1>2 DEF TableInv
  <2>2. Cardinality(Live \cup {a}) = Cardinality(Live) + 1
    BY <1>1, <2>1, FS_AddElement
  <2> QED
    BY <1>2, <1>6, <2>1, <2>2
<1>12. TableInv'
  <2>1. Entries(table') = Live'
    BY <1>3, <1>6, <1>7, <1>8
  <2>2. moved' \in BOOLEAN
    BY DEF TableInv
  <2> HIDE DEF resized
  <2> QED
    BY <1>6, <1>8, <1>9, <1>10, <1>11, <2>1, <2>2, IsTableInv DEF TableInv
<1>13. Dangling({}, resized) = [u \in Threads |-> Dangling({}, resized)[u]]
  BY DEF Dangling
<1>14. /\ hep' = [u \in Threads |-> hep'[u]] /\ hep'[t] = NoCell
       /\ \A u \in Threads \ {t} : hep'[u] = Dangling({}, resized)[u]
  <2> HIDE DEF resized
  <2> QED
    BY <1>2, <1>13
<1>15. ~resized => DOMAIN table.buckets \subseteq DOMAIN table'.buckets
  BY <1>1, <1>3, <1>8 DEF IsTable
<1>16. ASSUME NEW u \in Threads \ {t}
       PROVE  \/ hep'[u] = FreedCell
              \/ hep'[u] = hep[u] /\ (hep[u] \in Cells => hep[u] \in Cells')
  <2>1. Live \ {} \subseteq Live'
    BY <1>6
  <2> HIDE DEF resized
  <2> QED
    BY <1>14, <1>15, <2>1, DanglingCells
<1> QED
  BY <1>2, <1>6, <1>12, <1>14, <1>16
-----------------------------------------------------------------------------
\* HepValid of one thread.
HepAt(t) ==
  pc[t] \in {"new", "add"} /\ same[t] =>
    /\ FoundIn(table, key, arg[t]) = {}
    /\ hep[t] \in CellsOf(table, Index(arg[t], table.log))

LEMMA HepValidAt ==
  /\ HepValid <=> \A t \in Threads : HepAt(t)
  /\ HepValid' <=> \A t \in Threads : HepAt(t)'
BY DEF HepValid, HepAt, CellsOf

LEMMA InitInv == Init => IInv
<1> SUFFICES ASSUME Init PROVE IInv
  OBVIOUS
<1>1. Live = {} /\ \A a \in Atoms : key[a] = NoKey
  BY DEF Init, Live
<1>2. MinLog \in MinLog..HashBits /\ MinLog \in Nat
  BY HashTableAssumption DEF HashTableAssumption
<1>3. \A i \in DOMAIN table.buckets : table.buckets[i] = <<>>
  BY DEF Init, EmptyTable
<1>4. IsTable(table, Atoms)
  BY <1>2 DEF Init, EmptyTable, IsTable
<1>5. Entries(table) = {}
  BY <1>3 DEF Entries, ToSet
<1>6. TableInv
  <2>1. WellPlaced(table, key)
    BY <1>3 DEF WellPlaced, ToSet, IsInjective
  <2>2. nentries = Cardinality(Live)
    BY <1>1, FS_EmptySet DEF Init
  <2>3. key \in [Atoms -> Keys \cup {NoKey}] /\ moved \in BOOLEAN
    BY DEF Init
  <2> QED
    BY <1>1, <1>4, <1>5, <2>1, <2>2, <2>3, IsTableInv DEF TableInv
<1>7. MemoryInv
  BY <1>1 DEF Init, MemoryInv
<1>8. LocalsType /\ \A t \in Threads : LocalsInv(t) /\ HepAt(t)
  BY DEF Init, LocalsType, CallsType, LocalsInv, HepAt
<1> QED
  BY <1>6, <1>7, <1>8, HepValidAt DEF IInv

\* A thread that does not move keeps its invariant when its address is freed
\* or still one of the table's.
LEMMA LocalsKept ==
  ASSUME NEW u \in Threads, LocalsInv(u),
         pc'[u] = pc[u], arg'[u] = arg[u], flags'[u] = flags[u], own'[u] = own[u], str'[u] = str[u],
         \/ hep'[u] = FreedCell
         \/ hep'[u] = hep[u] /\ (hep[u] \in Cells => hep[u] \in Cells')
  PROVE  LocalsInv(u)'
BY DEF LocalsInv

\* A lookup changes the order of a chain and nothing else.
LEMMA ReorderedTable ==
  ASSUME TableInv, Sound(table), IsTable(table', Atoms), SameChains(table, table'),
         UNCHANGED <<nentries, key, moved>>
  PROVE  /\ TableInv'
         /\ Live' = Live /\ Cells' = Cells
         /\ \A k \in Keys : /\ FoundIn(table', key', k) = FoundIn(table, key, k)
                            /\ CellsOf(table', Index(k, table'.log)) = CellsOf(table, Index(k, table.log))
<1>1. /\ Entries(table') = Entries(table)
      /\ \A i \in DOMAIN table.buckets : CellsOf(table', i) = CellsOf(table, i)
      /\ \A k : WellPlaced(table, k) => WellPlaced(table', k)
  BY SameElements
<1>2. Live' = Live
  BY DEF Live
<1>3. TableInv'
  <2>1. /\ moved' \in BOOLEAN /\ key' \in [Atoms -> Keys \cup {NoKey}]
        /\ nentries' = Cardinality(Live')
        /\ Entries(table') = Live'
        /\ ~moved' => WellPlaced(table', key')
        /\ ~moved' => \A a, b \in Live' : key'[a] = key'[b] => a = b
    BY <1>1, <1>2 DEF TableInv
  <2>2. /\ table' = [log |-> table'.log, buckets |-> table'.buckets]
        /\ table'.log \in MinLog..HashBits
        /\ \E log \in MinLog..table'.log : table'.buckets \in [0..(Power[log] - 1) -> Seq(Atoms)]
        /\ Sound(table')
    BY IsTableInv
  <2> QED
    BY <2>1, <2>2 DEF TableInv
<1>4. Cells' = Cells
  BY <1>2 DEF Cells, SameChains
<1>5. \A k \in Keys : Index(k, table.log) \in DOMAIN table.buckets
  BY TableInvSound, TailCellInChain
<1>6. \A k \in Keys : FoundIn(table', key', k) = FoundIn(table, key, k)
  BY <1>5 DEF FoundIn, SameChains
<1>7. \A k \in Keys : CellsOf(table', Index(k, table'.log)) = CellsOf(table, Index(k, table.log))
  BY <1>1, <1>5 DEF SameChains
<1> QED
  BY <1>2, <1>3, <1>4, <1>6, <1>7

\* The lookups that find an atom.
LEMMA FoundTable ==
  ASSUME TableInv, Sound(table), NEW k \in Keys, NEW a \in FoundIn(table, key, k),
         table' = MoveToFront(table, Index(k, table.log), a)
  PROVE  /\ IsTable(table', Atoms) /\ SameChains(table, table')
         /\ a \in Live /\ key[a] = k
<1>1. IsTable(table, Atoms)
  BY TableInvSound
<1>2. Index(k, table.log) \in DOMAIN table.buckets
  BY <1>1, TailCellInChain
<1>3. a \in ToSet(table.buckets[Index(k, table.log)]) /\ key[a] = k
  BY DEF FoundIn
<1>4. IsTable(table', Atoms) /\ SameChains(table, table')
  BY <1>1, <1>2, <1>3, MoveToFrontSame
<1>5. a \in Live
  BY <1>2, <1>3 DEF TableInv, Entries
<1> QED
  BY <1>3, <1>4, <1>5

LEMMA FoundInv ==
  ASSUME IInv, NEW t \in Threads, NEW k \in Keys, NEW pin, Found(t, k, pin)
  PROVE  IInv'
<1>1. /\ Sound(table)
      /\ UNCHANGED <<nentries, key, chars, memory, locals, pc, hep, same, moved>>
  BY DEF Found
<1>2. PICK a \in FoundIn(table, key, k) :
        /\ table' = MoveToFront(table, Index(k, table.log), a)
        /\ pinned' = Pinned(a, pin)
        /\ Return(a)
  BY DEF Found
<1>3. TableInv /\ IsTable(table', Atoms) /\ SameChains(table, table') /\ a \in Live
  BY <1>1, <1>2, FoundTable DEF IInv
<1>4. /\ TableInv' /\ Live' = Live /\ Cells' = Cells
      /\ \A j \in Keys : /\ FoundIn(table', key', j) = FoundIn(table, key, j)
                         /\ CellsOf(table', Index(j, table'.log)) = CellsOf(table, Index(j, table.log))
  BY <1>1, <1>3, ReorderedTable
<1>5. MemoryInv'
  <2>1. pinned' \subseteq Live /\ rooted' \subseteq Live
    BY <1>2, <1>3 DEF IInv, MemoryInv, Pinned, Return
  <2> QED
    BY <1>1, <1>4, <2>1 DEF IInv, MemoryInv, memory
<1>6. LocalsType' /\ \A u \in Threads : LocalsInv(u)'
  BY <1>1, <1>4 DEF IInv, LocalsType, CallsType, LocalsInv, locals
<1>7. ASSUME ~moved', NEW u \in Threads PROVE HepAt(u)'
  <2>1. HepAt(u) /\ LocalsInv(u)
    BY <1>1, <1>7, HepValidAt DEF IInv
  <2> QED
    BY <1>1, <1>4, <2>1 DEF HepAt, LocalsInv, locals
<1>8. ~moved' => HepValid'
  BY <1>7, HepValidAt
<1> QED
  BY <1>4, <1>5, <1>6, <1>8 DEF IInv

\* The calls of the threads but t go on as they were.
Others(t) ==
  \A u \in Threads \ {t} :
    /\ pc'[u] = pc[u] /\ arg'[u] = arg[u] /\ flags'[u] = flags[u]
    /\ own'[u] = own[u] /\ str'[u] = str[u]

\* A call that ends.
LEMMA ResetCall ==
  ASSUME CallsType, NEW t \in Threads, NEW from, Goto(t, from, "run"), Reset(t)
  PROVE  CallsType' /\ Others(t) /\ pc'[t] = "run"
BY DEF CallsType, Goto, Reset, Others

LEMMA RawAddInv ==
  ASSUME IInv, Sound(table), NEW t \in Threads, NEW k \in Keys, NEW b \in Buffers, NEW pin,
         NEW i \in DOMAIN table.buckets, NEW cell \in CellsOf(table, i),
         ~moved => FoundIn(table, key, k) = {} /\ i = Index(k, table.log),
         RawAdd(t, table, cell, k, b, pin),
         strings' \subseteq Buffers, malloced' \subseteq Buffers,
         CallsType', Others(t), pc'[t] = "run", moved' = moved
  PROVE  IInv'
<1>1. TableInv /\ MemoryInv /\ LocalsType /\ \A u \in Threads : LocalsInv(u)
  BY DEF IInv
<1>2. /\ TableInv'
      /\ \E a \in Atoms \ Live : /\ Live' = Live \cup {a}
                                 /\ key' = [key EXCEPT ![a] = k]
                                 /\ chars' = [chars EXCEPT ![a] = b]
                                 /\ pinned' = Pinned(a, pin)
                                 /\ Return(a)
      /\ hep' = [u \in Threads |-> hep'[u]] /\ hep'[t] = NoCell
      /\ \A u \in Threads \ {t} :
           \/ hep'[u] = FreedCell
           \/ hep'[u] = hep[u] /\ (hep[u] \in Cells => hep[u] \in Cells')
  BY <1>1, RawAddEffect, Zenon
<1>3. PICK a \in Atoms \ Live : /\ Live' = Live \cup {a}
                                /\ chars' = [chars EXCEPT ![a] = b]
                                /\ pinned' = Pinned(a, pin)
                                /\ Return(a)
  BY <1>2
<1>4. MemoryInv'
  <2>1. pinned' \subseteq Live' /\ rooted' \subseteq Live'
    BY <1>1, <1>3 DEF MemoryInv, Pinned, Return
  <2>2. chars' \in [Atoms -> Buffers \cup {NoBuffer}] /\ \A e \in Live' : chars'[e] \in Buffers
    BY <1>1, <1>3 DEF MemoryInv, Live
  <2> QED
    BY <2>1, <2>2 DEF MemoryInv
<1>5. same' = [u \in Threads |-> FALSE]
  BY DEF RawAdd, NextGeneration
<1>6. LocalsType'
  BY <1>2, <1>5 DEF LocalsType
<1>7. ASSUME NEW u \in Threads PROVE LocalsInv(u)'
  <2>1. CASE u = t
    BY <1>2, <2>1 DEF LocalsInv
  <2>2. CASE u # t
    BY <1>1, <1>2, <2>2, LocalsKept DEF Others
  <2> QED
    BY <2>1, <2>2
<1>8. HepValid'
  BY <1>5, HepValidAt DEF HepAt
<1> QED
  BY <1>2, <1>4, <1>6, <1>7, <1>8 DEF IInv

LEMMA NotFoundInv ==
  ASSUME IInv, NEW t \in Threads, NEW k \in Keys, NEW f \in SUBSET {"Pin", "NoCopy"}, NotFound(t, k, f)
  PROVE  IInv'
<1>1. /\ Goto(t, "run", "new") /\ Sound(table)
      /\ FoundIn(table, key, k) = {}
      /\ arg' = [arg EXCEPT ![t] = k]
      /\ flags' = [flags EXCEPT ![t] = f]
      /\ hep' = [hep EXCEPT ![t] = TailCell(table, k)]
      /\ same' = [same EXCEPT ![t] = TRUE]
      /\ UNCHANGED <<atoms, strings, rooted, str, moved>>
  BY DEF NotFound
<1>2. /\ "NoCopy" \in f => \E b \in Buffers : own' = [own EXCEPT ![t] = b] /\ malloced' = malloced \cup {b}
      /\ "NoCopy" \notin f => UNCHANGED <<own, malloced>>
  BY DEF NotFound
<1>3. TableInv /\ MemoryInv /\ LocalsType /\ CallsType /\ \A u \in Threads : LocalsInv(u)
  BY DEF IInv, LocalsType
<1>4. TableInv' /\ Cells' = Cells /\ Live' = Live
  BY <1>1, <1>3 DEF TableInv, Cells, Live, Sound, atoms
<1>5. MemoryInv'
  BY <1>1, <1>2, <1>3, <1>4 DEF MemoryInv, atoms
<1>6. /\ own' \in [Threads -> Buffers \cup {NoBuffer}]
      /\ "NoCopy" \in f => own'[t] \in Buffers
      /\ \A u \in Threads \ {t} : own'[u] = own[u]
  BY <1>2, <1>3 DEF CallsType
<1>7. CallsType' /\ Others(t) /\ pc'[t] = "new" /\ arg'[t] = k /\ flags'[t] = f
  BY <1>1, <1>3, <1>6 DEF CallsType, Goto, Others
<1>8. /\ LocalsType' /\ hep'[t] = TailCell(table, k)
      /\ \A u \in Threads \ {t} : hep'[u] = hep[u] /\ same'[u] = same[u]
  BY <1>1, <1>3, <1>7 DEF LocalsType
<1>9. /\ Index(k, table.log) \in DOMAIN table.buckets
      /\ TailCell(table, k) \in CellsOf(table, Index(k, table.log))
  BY <1>1, <1>3, TableInvSound, TailCellInChain
<1>10. TailCell(table, k) \in Cells
  BY <1>3, <1>9 DEF CellsOf, Cells, TableInv, Entries
<1>11. ASSUME NEW u \in Threads PROVE LocalsInv(u)'
  <2>1. CASE u = t
    BY <1>4, <1>6, <1>7, <1>8, <1>10, <2>1 DEF LocalsInv
  <2>2. CASE u # t
    BY <1>3, <1>4, <1>7, <1>8, <2>2, LocalsKept DEF Others
  <2> QED
    BY <2>1, <2>2
<1>12. ASSUME ~moved', NEW u \in Threads PROVE HepAt(u)'
  <2>1. HepAt(u)
    BY <1>1, <1>12, HepValidAt DEF IInv
  <2>2. CASE u = t
    BY <1>1, <1>7, <1>8, <1>9, <2>2 DEF HepAt, atoms
  <2>3. CASE u # t
    BY <1>1, <1>7, <1>8, <2>1, <2>3 DEF HepAt, atoms, Others
  <2> QED
    BY <2>2, <2>3
<1>13. ~moved' => HepValid'
  BY <1>12, HepValidAt
<1> QED
  BY <1>4, <1>5, <1>8, <1>11, <1>13 DEF IInv

LEMMA AddStringInv ==
  ASSUME IInv, NEW t \in Threads, NEW k \in Keys, AddString(t, k)
  PROVE  IInv'
<1>1. PICK b \in Buffers \ malloced :
        /\ malloced' = malloced \cup {b}
        /\ strings' = strings \cup {b}
        /\ RawAdd(t, table, TailCell(table, k), k, b, FALSE)
  BY DEF AddString
<1>2. /\ pc[t] = "run" /\ Sound(table) /\ FoundIn(table, key, k) = {}
      /\ UNCHANGED <<locals, pc, moved>>
  BY DEF AddString
<1>3. TableInv /\ MemoryInv /\ CallsType
  BY DEF IInv, LocalsType
<1>4. /\ Index(k, table.log) \in DOMAIN table.buckets
      /\ TailCell(table, k) \in CellsOf(table, Index(k, table.log))
  BY <1>2, <1>3, TableInvSound, TailCellInChain
<1>5. strings' \subseteq Buffers /\ malloced' \subseteq Buffers
  BY <1>1, <1>3 DEF MemoryInv
<1>6. CallsType' /\ Others(t) /\ pc'[t] = "run" /\ moved' = moved
  BY <1>2, <1>3 DEF CallsType, Others, locals
<1> QED
  BY <1>1, <1>2, <1>4, <1>5, <1>6, RawAddInv

\* Steps that leave the table alone, outside the second section.
LEMMA SameTableInv ==
  ASSUME IInv, NEW t \in Threads, UNCHANGED <<atoms, rooted, moved>>,
         strings' \subseteq Buffers, malloced' \subseteq Buffers,
         CallsType', Others(t), LocalsType',
         \A u \in Threads \ {t} : hep'[u] = hep[u] /\ same'[u] = same[u],
         Cells' = Cells /\ LocalsInv(t) => LocalsInv(t)',
         HepAt(t) => HepAt(t)'
  PROVE  IInv'
<1>1. TableInv /\ MemoryInv /\ \A u \in Threads : LocalsInv(u)
  BY DEF IInv
<1>2. TableInv' /\ Cells' = Cells /\ Live' = Live
  BY <1>1 DEF TableInv, Cells, Live, Sound, atoms
<1>3. MemoryInv'
  BY <1>1, <1>2 DEF MemoryInv, atoms
<1>4. ASSUME NEW u \in Threads PROVE LocalsInv(u)'
  <2>1. CASE u = t
    BY <1>1, <1>2, <2>1
  <2>2. CASE u # t
    BY <1>1, <1>2, <2>2, LocalsKept DEF Others
  <2> QED
    BY <2>1, <2>2
<1>5. ASSUME ~moved', NEW u \in Threads PROVE HepAt(u)'
  <2>1. HepAt(u)
    BY <1>5, HepValidAt DEF IInv
  <2>2. CASE u = t
    BY <2>1, <2>2
  <2>3. CASE u # t
    BY <2>1, <2>3 DEF HepAt, atoms, Others
  <2> QED
    BY <2>2, <2>3
<1>6. ~moved' => HepValid'
  BY <1>5, HepValidAt
<1> QED
  BY <1>2, <1>3, <1>4, <1>6 DEF IInv

LEMMA NewStringInv ==
  ASSUME IInv, NEW t \in Threads, NewString(t)
  PROVE  IInv'
<1>1. PICK b \in (IF "NoCopy" \in flags[t] THEN {own[t]} ELSE Buffers \ malloced) :
        /\ malloced' = malloced \cup {b}
        /\ strings' = strings \cup {b}
        /\ str' = [str EXCEPT ![t] = b]
  BY DEF NewString
<1>2. Goto(t, "new", "add") /\ UNCHANGED <<atoms, arg, flags, own, rooted, hep, same, moved>>
  BY DEF NewString
<1>3. LocalsInv(t) /\ CallsType /\ LocalsType /\ MemoryInv
  BY DEF IInv, LocalsType
<1>4. b \in Buffers
  BY <1>1, <1>2, <1>3 DEF LocalsInv, Goto
<1>5. CallsType' /\ Others(t) /\ pc'[t] = "add" /\ str'[t] = b
  BY <1>1, <1>2, <1>3, <1>4 DEF CallsType, Goto, Others
<1>6. LocalsType'
  BY <1>2, <1>3, <1>5 DEF LocalsType
<1>7. Cells' = Cells => LocalsInv(t)'
  BY <1>2, <1>3, <1>4, <1>5 DEF LocalsInv, Goto
<1>8. HepAt(t) => HepAt(t)'
  BY <1>2 DEF HepAt, Goto, atoms
<1>9. strings' \subseteq Buffers /\ malloced' \subseteq Buffers
  BY <1>1, <1>3, <1>4 DEF MemoryInv
<1> QED
  BY <1>2, <1>5, <1>6, <1>7, <1>8, <1>9, SameTableInv

LEMMA NewStringFailsInv ==
  ASSUME IInv, NEW t \in Threads, NewStringFails(t)
  PROVE  IInv'
<1>1. /\ Goto(t, "new", "run") /\ Reset(t)
      /\ malloced' = malloced \ {own[t]}
      /\ hep' = [hep EXCEPT ![t] = NoCell]
      /\ same' = [same EXCEPT ![t] = FALSE]
      /\ UNCHANGED <<atoms, strings, rooted, moved>>
  BY DEF NewStringFails
<1>2. LocalsInv(t) /\ CallsType /\ LocalsType /\ MemoryInv
  BY DEF IInv, LocalsType
<1>3. CallsType' /\ Others(t) /\ pc'[t] = "run"
  BY <1>1, <1>2, ResetCall
<1>4. /\ LocalsType' /\ hep'[t] = NoCell
      /\ \A u \in Threads \ {t} : hep'[u] = hep[u] /\ same'[u] = same[u]
  BY <1>1, <1>2, <1>3 DEF LocalsType
<1>5. LocalsInv(t)' /\ HepAt(t)'
  BY <1>3, <1>4 DEF LocalsInv, HepAt
<1>6. strings' \subseteq Buffers /\ malloced' \subseteq Buffers
  BY <1>1, <1>2 DEF MemoryInv
<1> QED
  BY <1>1, <1>3, <1>4, <1>5, <1>6, SameTableInv

LEMMA WildInv ==
  ASSUME IInv, NEW t \in Threads, Wild(t)
  PROVE  IInv'
<1>1. /\ pc' = [pc EXCEPT ![t] = "wild"]
      /\ UNCHANGED <<atoms, memory, locals, rooted, hep, same, moved>>
  BY DEF Wild
<1>2. LocalsInv(t) /\ CallsType /\ LocalsType /\ MemoryInv
  BY DEF IInv, LocalsType
<1>3. CallsType' /\ Others(t) /\ pc'[t] = "wild"
  BY <1>1, <1>2 DEF CallsType, Others, locals
<1>4. LocalsType'
  BY <1>1, <1>2, <1>3 DEF LocalsType
<1>5. (Cells' = Cells => LocalsInv(t)') /\ HepAt(t)'
  BY <1>1, <1>2, <1>3 DEF LocalsInv, HepAt
<1>6. strings' \subseteq Buffers /\ malloced' \subseteq Buffers
  BY <1>1, <1>2 DEF MemoryInv, memory
<1> QED
  BY <1>1, <1>3, <1>4, <1>5, <1>6, SameTableInv

\* The address is in the chain of the key, where the key is not, as long as
\* the generation has not changed; the second section is the first one otherwise.
LEMMA AddInv ==
  ASSUME IInv, NEW t \in Threads, Add(t) \/ AddAgain(t)
  PROVE  IInv'
<1>1. /\ Goto(t, "add", "run") /\ Reset(t) /\ Sound(table)
      /\ UNCHANGED <<memory, moved>>
  BY DEF Add, AddAgain
<1>2. TableInv /\ MemoryInv /\ CallsType /\ LocalsInv(t)
  BY DEF IInv, LocalsType
<1>3. arg[t] \in Keys /\ str[t] \in Buffers /\ pc[t] = "add"
  BY <1>1, <1>2 DEF LocalsInv, Goto
<1>4. CallsType' /\ Others(t) /\ pc'[t] = "run"
  BY <1>1, <1>2, ResetCall
<1>5. strings' \subseteq Buffers /\ malloced' \subseteq Buffers /\ moved' = moved
  BY <1>1, <1>2 DEF MemoryInv, memory
<1>6. \E i \in DOMAIN table.buckets : \E cell \in CellsOf(table, i) :
         /\ ~moved => FoundIn(table, key, arg[t]) = {} /\ i = Index(arg[t], table.log)
         /\ RawAdd(t, table, cell, arg[t], str[t], "Pin" \in flags[t])
  <2>1. IsTable(table, Atoms)
    BY <1>1, <1>2, TableInvSound
  <2>2. Index(arg[t], table.log) \in DOMAIN table.buckets
        /\ TailCell(table, arg[t]) \in CellsOf(table, Index(arg[t], table.log))
    BY <1>3, <2>1, TailCellInChain
  <2>3. CASE Add(t)
    <3>1. same[t] /\ hep[t] \in Cells /\ RawAdd(t, table, hep[t], arg[t], str[t], "Pin" \in flags[t])
      BY <1>2, <1>3, <2>3 DEF Add, LocalsInv
    <3>2. CASE moved
      <4>1. \E i \in DOMAIN table.buckets : hep[t] \in CellsOf(table, i)
        BY <1>2, <3>1 DEF Cells, CellsOf, TableInv, Entries
      <4> QED
        BY <3>1, <3>2, <4>1
    <3>3. CASE ~moved
      <4>1. HepAt(t)
        BY <3>3, HepValidAt DEF IInv
      <4>2. FoundIn(table, key, arg[t]) = {} /\ hep[t] \in CellsOf(table, Index(arg[t], table.log))
        BY <1>3, <3>1, <4>1 DEF HepAt
      <4> QED
        BY <2>2, <3>1, <4>2
    <3> QED
      BY <3>2, <3>3
  <2>4. CASE AddAgain(t)
    <3>1. /\ FoundIn(table, key, arg[t]) = {}
          /\ RawAdd(t, table, TailCell(table, arg[t]), arg[t], str[t], "Pin" \in flags[t])
      BY <2>4 DEF AddAgain
    <3> QED
      BY <2>2, <3>1
  <2> QED
    BY <2>3, <2>4
<1> QED
  BY <1>1, <1>3, <1>4, <1>5, <1>6, RawAddInv

LEMMA FoundAgainInv ==
  ASSUME IInv, NEW t \in Threads, FoundAgain(t)
  PROVE  IInv'
<1>1. /\ Goto(t, "add", "run") /\ Reset(t) /\ Sound(table)
      /\ malloced' = malloced \ {own[t]}
      /\ hep' = [hep EXCEPT ![t] = NoCell]
      /\ UNCHANGED <<nentries, key, chars, pinned, strings, same, moved>>
  BY DEF FoundAgain
<1>2. PICK a \in FoundIn(table, key, arg[t]) :
        table' = MoveToFront(table, Index(arg[t], table.log), a) /\ Return(a)
  BY DEF FoundAgain
<1>3. TableInv /\ MemoryInv /\ LocalsType /\ CallsType /\ \A u \in Threads : LocalsInv(u)
  BY DEF IInv, LocalsType
<1>4. arg[t] \in Keys
  BY <1>1, <1>3 DEF LocalsInv, Goto
<1>5. IsTable(table', Atoms) /\ SameChains(table, table') /\ a \in Live
  BY <1>1, <1>2, <1>3, <1>4, FoundTable
<1>6. /\ TableInv' /\ Live' = Live /\ Cells' = Cells
      /\ \A j \in Keys : /\ FoundIn(table', key', j) = FoundIn(table, key, j)
                         /\ CellsOf(table', Index(j, table'.log)) = CellsOf(table, Index(j, table.log))
  BY <1>1, <1>3, <1>5, ReorderedTable
<1>7. MemoryInv'
  <2>1. rooted' \subseteq Live
    BY <1>2, <1>3, <1>5 DEF MemoryInv, Return
  <2> QED
    BY <1>1, <1>3, <1>6, <2>1 DEF MemoryInv
<1>8. CallsType' /\ Others(t) /\ pc'[t] = "run"
  BY <1>1, <1>3, ResetCall
<1>9. /\ LocalsType' /\ hep'[t] = NoCell
      /\ \A u \in Threads \ {t} : hep'[u] = hep[u]
  BY <1>1, <1>3, <1>8 DEF LocalsType
<1>10. ASSUME NEW u \in Threads PROVE LocalsInv(u)'
  <2>1. CASE u = t
    BY <1>8, <1>9, <2>1 DEF LocalsInv
  <2>2. CASE u # t
    BY <1>3, <1>6, <1>8, <1>9, <2>2, LocalsKept DEF Others
  <2> QED
    BY <2>1, <2>2
<1>11. ASSUME ~moved', NEW u \in Threads PROVE HepAt(u)'
  <2>1. HepAt(u) /\ LocalsInv(u)
    BY <1>1, <1>11, HepValidAt DEF IInv
  <2>2. CASE u = t
    BY <1>8, <2>2 DEF HepAt
  <2>3. CASE u # t
    BY <1>1, <1>6, <1>8, <1>9, <2>1, <2>3 DEF HepAt, LocalsInv, Others
  <2> QED
    BY <2>2, <2>3
<1>12. ~moved' => HepValid'
  BY <1>11, HepValidAt
<1> QED
  BY <1>6, <1>7, <1>9, <1>10, <1>12 DEF IInv

\* When the table does not get another size nothing has changed in it;
\* otherwise the lookups that follow may go wrong, but no entry is lost.
LEMMA AddFailsInv ==
  ASSUME IInv, NEW t \in Threads, AddFails(t)
  PROVE  IInv'
<1> DEFINE G == Grown(table, key, nentries)
           resized == G.log # table.log
<1>1. /\ Goto(t, "add", "run") /\ Reset(t) /\ Sound(table)
      /\ malloced' = malloced \ {own[t]}
      /\ same' = [same EXCEPT ![t] = FALSE]
      /\ moved' = (moved \/ resized)
      /\ UNCHANGED <<nentries, key, chars, pinned, strings, rooted>>
  BY DEF AddFails
<1>2. \/ /\ resized
         /\ table' = [table EXCEPT !.log = @ + 1]
         /\ hep' = [hep EXCEPT ![t] = NoCell]
      \/ /\ table' = G
         /\ hep' = [Dangling({}, resized) EXCEPT ![t] = NoCell]
  BY DEF AddFails
<1>3. TableInv /\ MemoryInv /\ LocalsType /\ CallsType /\ \A u \in Threads : LocalsInv(u)
  BY DEF IInv, LocalsType
<1>4. /\ IsTable(table, Atoms) /\ \A e \in Entries(table) : key[e] \in Keys
      /\ nentries \in Nat /\ nentries < Overloaded(Power[HashBits])
  BY <1>1, <1>3, TableInvSound
<1>5. /\ IsTable(G, Atoms) /\ Entries(G) = Entries(table)
      /\ ~resized => G = table
      /\ G.log \in {table.log, table.log + 1}
  BY <1>4, GrownElements, Zenon
<1> HIDE DEF G
<1>6. /\ table' = [log |-> table'.log, buckets |-> table'.buckets]
      /\ table'.log \in MinLog..HashBits
      /\ \E log \in MinLog..table'.log : table'.buckets \in [0..(Power[log] - 1) -> Seq(Atoms)]
      /\ Entries(table') = Entries(table)
      /\ Sound(table') \/ resized
      /\ ~resized => table' = table /\ hep' = [Dangling({}, FALSE) EXCEPT ![t] = NoCell]
  <2>1. CASE /\ resized
             /\ table' = [table EXCEPT !.log = @ + 1]
    <3>1. table = [log |-> table.log, buckets |-> table.buckets]
      BY <1>4 DEF IsTable
    <3>2. table' = [log |-> table.log + 1, buckets |-> table.buckets]
      BY <2>1, <3>1
    <3>3. table'.log = G.log /\ table'.buckets = table.buckets
      BY <1>5, <2>1, <3>2
    <3>4. /\ table.log \in MinLog..HashBits /\ G.log \in MinLog..HashBits
          /\ G.log \in {table.log, table.log + 1}
      BY <1>4, <1>5 DEF IsTable
    <3>5. MinLog \in Int /\ HashBits \in Int
      BY HashTableAssumption DEF HashTableAssumption
    <3>6. table.log \in MinLog..table'.log
      <4>1. table.log \in Int /\ MinLog <= table.log
        BY <3>4, <3>5
      <4>2. table'.log \in Int /\ table.log <= table'.log
        BY <3>3, <3>4, <3>5, <4>1
      <4> QED
        BY <3>5, <4>1, <4>2
    <3>7. table'.buckets \in [0..(Power[table.log] - 1) -> Seq(Atoms)]
      BY <1>4, <3>3 DEF IsTable
    <3>8. Entries(table') = Entries(table)
      BY <3>3 DEF Entries
    <3>9. /\ table' = [log |-> table'.log, buckets |-> table'.buckets]
          /\ table'.log \in MinLog..HashBits
      BY <3>2, <3>3, <3>4
    <3> HIDE DEF resized
    <3> QED
      BY <2>1, <3>6, <3>7, <3>8, <3>9
  <2>2. CASE /\ table' = G
             /\ hep' = [Dangling({}, resized) EXCEPT ![t] = NoCell]
    <3>1. resized \in BOOLEAN
      OBVIOUS
    <3> HIDE DEF resized
    <3>2. ~resized => resized = FALSE
      BY <3>1
    <3> QED
      BY <1>5, <2>2, <3>2, IsTableInv
  <2> QED
    BY <1>2, <2>1, <2>2
<1>7. Live' = Live
  BY <1>1 DEF Live
<1>8. TableInv'
  <2>1. moved' \in BOOLEAN
    BY <1>1, <1>3 DEF TableInv
  <2>2. /\ ~moved' => WellPlaced(table', key')
        /\ ~moved' => \A a, b \in Live' : key'[a] = key'[b] => a = b
    BY <1>1, <1>3, <1>6, <1>7 DEF TableInv
  <2>3. /\ key' \in [Atoms -> Keys \cup {NoKey}] /\ Entries(table') = Live'
        /\ nentries' = Cardinality(Live')
    BY <1>1, <1>3, <1>6, <1>7 DEF TableInv
  <2> HIDE DEF resized
  <2>4. Sound(table') \/ moved'
    BY <1>1, <1>6
  <2> QED
    BY <1>6, <2>1, <2>2, <2>3, <2>4 DEF TableInv
<1>9. MemoryInv'
  BY <1>1, <1>3, <1>7 DEF MemoryInv
<1>10. CallsType' /\ Others(t) /\ pc'[t] = "run"
  BY <1>1, <1>3, ResetCall
<1>11. ASSUME NEW u \in Threads \ {t}
       PROVE  /\ \/ hep'[u] = FreedCell
                 \/ hep'[u] = hep[u] /\ (hep[u] \in Cells => hep[u] \in Cells')
              /\ same'[u] = same[u]
              /\ ~resized => hep'[u] = hep[u]
  <2>1. same'[u] = same[u]
    BY <1>1, <1>3 DEF LocalsType
  <2>2. CASE resized /\ table' = [table EXCEPT !.log = @ + 1] /\ hep' = [hep EXCEPT ![t] = NoCell]
    <3>1. DOMAIN table'.buckets = DOMAIN table.buckets
      BY <1>4, <2>2 DEF IsTable
    <3>2. Cells' = Cells
      BY <1>7, <3>1 DEF Cells
    <3>3. hep'[u] = hep[u]
      BY <1>3, <2>2 DEF LocalsType
    <3> QED
      BY <2>1, <3>2, <3>3
  <2>3. CASE table' = G /\ hep' = [Dangling({}, resized) EXCEPT ![t] = NoCell]
    <3>1. Dangling({}, resized) = [v \in Threads |-> Dangling({}, resized)[v]]
      BY DEF Dangling
    <3>2. hep'[u] = Dangling({}, resized)[u]
      <4> HIDE DEF resized
      <4> QED
        BY <2>3, <3>1
    <3>3. ~resized => hep'[u] = hep[u]
      BY <3>2 DEF Dangling
    <3>4. ~resized => DOMAIN table.buckets \subseteq DOMAIN table'.buckets
      BY <1>6
    <3>5. Live \ {} \subseteq Live'
      BY <1>7
    <3> HIDE DEF resized
    <3>6. \/ Dangling({}, resized)[u] = FreedCell
          \/ /\ Dangling({}, resized)[u] = hep[u]
             /\ hep[u] \in Cells => hep[u] \in Cells'
      BY <3>4, <3>5, DanglingCells
    <3> QED
      BY <2>1, <3>2, <3>3, <3>6
  <2> QED
    BY <1>2, <2>2, <2>3
<1>12. LocalsType' /\ hep'[t] = NoCell
  <2>1. \/ hep' = [hep EXCEPT ![t] = NoCell]
        \/ hep' = [Dangling({}, resized) EXCEPT ![t] = NoCell]
    BY <1>2
  <2>2. Dangling({}, resized) = [v \in Threads |-> Dangling({}, resized)[v]]
    BY DEF Dangling
  <2> HIDE DEF resized
  <2>3. hep' = [v \in Threads |-> hep'[v]] /\ hep'[t] = NoCell
    BY <1>3, <2>1, <2>2 DEF LocalsType
  <2> QED
    BY <1>1, <1>3, <1>10, <2>3 DEF LocalsType
<1> HIDE DEF resized
<1>13. ASSUME NEW u \in Threads PROVE LocalsInv(u)'
  <2>1. CASE u = t
    BY <1>10, <1>12, <2>1 DEF LocalsInv
  <2>2. CASE u # t
    BY <1>3, <1>10, <1>11, <2>2, LocalsKept DEF Others
  <2> QED
    BY <2>1, <2>2
<1>14. ASSUME ~moved', NEW u \in Threads PROVE HepAt(u)'
  <2>1. ~resized /\ ~moved
    BY <1>1, <1>3, <1>14 DEF TableInv
  <2>2. HepAt(u)
    BY <2>1, HepValidAt DEF IInv
  <2>3. CASE u = t
    BY <1>10, <2>3 DEF HepAt
  <2>4. CASE u # t
    BY <1>1, <1>6, <1>10, <1>11, <2>1, <2>2, <2>4 DEF HepAt, Others
  <2> QED
    BY <2>3, <2>4
<1>15. ~moved' => HepValid'
  BY <1>14, HepValidAt
<1> QED
  BY <1>8, <1>9, <1>12, <1>13, <1>15 DEF IInv

\* A collection: what is not pinned and not rooted is freed, and nothing else.
LEMMA CollectTable ==
  ASSUME IInv, Collect
  PROVE  LET Dead == Live \ (rooted \cup pinned) IN
         /\ TableInv' /\ Sound(table) /\ IsTable(table, Atoms) /\ IsTable(table', Atoms)
         /\ Live' = Live \ Dead
         /\ \A a \in Live' : key'[a] = key[a]
         /\ Dead = {} => SameChains(table, table') /\ UNCHANGED <<nentries, key, moved>>
<1> DEFINE Dead == Live \ (rooted \cup pinned)
<1>1. /\ Sound(table)
      /\ table' = Swept(table, key, nentries, Dead)
      /\ nentries' = nentries - Cardinality(Dead)
      /\ key' = [a \in Atoms |-> IF a \in Dead THEN NoKey ELSE key[a]]
      /\ moved' = moved
  BY DEF Collect
<1>2. TableInv
  BY DEF IInv
<1>3. /\ IsTable(table, Atoms) /\ \A e \in Entries(table) : key[e] \in Keys
      /\ IsFiniteSet(Live) /\ nentries \in Nat
      /\ key \in [Atoms -> Keys \cup {NoKey}] /\ nentries = Cardinality(Live) /\ Entries(table) = Live
  BY <1>1, <1>2, TableInvSound DEF TableInv
<1>4. Dead \in SUBSET Live
  OBVIOUS
<1> HIDE DEF Dead
<1>5. IsFiniteSet(Dead) /\ Cardinality(Dead) <= nentries
  BY <1>3, <1>4, FS_Subset
<1> DEFINE S == Swept(table, key, nentries, Dead)
<1>6. /\ IsTable(S, Atoms)
      /\ Entries(S) = Entries(table) \ Dead
      /\ WellPlaced(table, key) => WellPlaced(S, key)
      /\ Dead = {} => SameChains(table, S)
  BY <1>3, <1>5, SweptElements
<1> HIDE DEF S
<1>7. table' = S
  BY <1>1 DEF S
<1>8. Live' = Live \ Dead /\ \A a \in Live' : key'[a] = key[a]
  BY <1>1, <1>3, <1>4 DEF Live
<1>9. key' \in [Atoms -> Keys \cup {NoKey}]
  BY <1>1, <1>3
<1>10. nentries' = Cardinality(Live')
  <2>1. Live \cap Dead = Dead
    BY <1>4
  <2>2. Cardinality(Live \ Dead) = Cardinality(Live) - Cardinality(Live \cap Dead)
    BY <1>3, FS_Difference
  <2> QED
    BY <1>1, <1>3, <1>8, <2>1, <2>2
<1>11. TableInv'
  <2>1. Entries(table') = Live'
    BY <1>3, <1>6, <1>7, <1>8
  <2>2. ASSUME ~moved' PROVE WellPlaced(table', key')
    <3>1. WellPlaced(S, key)
      BY <1>1, <1>2, <1>6, <2>2 DEF TableInv
    <3>2. \A e \in Entries(S) : key'[e] = key[e]
      BY <1>7, <1>8, <2>1
    <3> QED
      BY <1>7, <3>1, <3>2, WellPlacedAgree
  <2>3. ~moved' => \A a, b \in Live' : key'[a] = key'[b] => a = b
    BY <1>1, <1>2, <1>8 DEF TableInv
  <2>4. moved' \in BOOLEAN
    BY <1>1, <1>2 DEF TableInv
  <2>5. IsTable(table', Atoms)
    BY <1>6, <1>7
  <2>6. /\ table' = [log |-> table'.log, buckets |-> table'.buckets]
        /\ table'.log \in MinLog..HashBits
        /\ \E log \in MinLog..table'.log : table'.buckets \in [0..(Power[log] - 1) -> Seq(Atoms)]
        /\ Sound(table')
    BY <2>5, IsTableInv
  <2> QED
    BY <1>9, <1>10, <2>1, <2>2, <2>3, <2>4, <2>6 DEF TableInv
<1>12. ASSUME Dead = {} PROVE SameChains(table, table') /\ UNCHANGED <<nentries, key, moved>>
  <2>1. Cardinality(Dead) = 0
    BY <1>12, FS_EmptySet
  <2>2. nentries' = nentries
    BY <1>1, <1>3, <2>1
  <2>3. key' = key
    BY <1>1, <1>3, <1>12
  <2> QED
    BY <1>1, <1>6, <1>7, <1>12, <2>2, <2>3
<1> QED
  BY <1>1, <1>3, <1>6, <1>7, <1>8, <1>11, <1>12 DEF Dead

LEMMA CollectInv ==
  ASSUME IInv, Collect
  PROVE  IInv'
<1> DEFINE Dead == Live \ (rooted \cup pinned)
           resized == table'.log # table.log
<1>1. /\ chars' = [a \in Atoms |-> IF a \in Dead THEN NoBuffer ELSE chars[a]]
      /\ strings' = {chars[a] : a \in Live \ Dead}
      /\ malloced' = malloced \ (strings \ strings')
      /\ hep' = Dangling(Dead, resized)
      /\ IF Dead = {} THEN UNCHANGED same ELSE NextGeneration
      /\ UNCHANGED <<pinned, rooted, pc, locals, moved>>
  BY DEF Collect
<1>2. TableInv /\ MemoryInv /\ LocalsType /\ CallsType /\ \A u \in Threads : LocalsInv(u)
  BY DEF IInv, LocalsType
<1>3. /\ TableInv' /\ Sound(table) /\ IsTable(table, Atoms) /\ IsTable(table', Atoms)
      /\ Live' = Live \ Dead
      /\ Dead = {} => SameChains(table, table') /\ UNCHANGED <<nentries, key, moved>>
  BY CollectTable, Zenon
<1>4. MemoryInv'
  <2>1. pinned' \subseteq Live' /\ rooted' \subseteq Live'
    BY <1>1, <1>2, <1>3 DEF MemoryInv
  <2>2. Live \subseteq Atoms
    BY DEF Live
  <2> HIDE DEF Dead
  <2>3. chars' \in [Atoms -> Buffers \cup {NoBuffer}] /\ \A a \in Live' : chars'[a] \in Buffers
    BY <1>1, <1>2, <1>3, <2>2 DEF MemoryInv
  <2>4. strings' \subseteq Buffers /\ malloced' \subseteq Buffers
    BY <1>1, <1>2 DEF MemoryInv
  <2> QED
    BY <2>1, <2>3, <2>4 DEF MemoryInv
<1>5. LocalsType'
  <2>1. same' \in [Threads -> BOOLEAN]
    BY <1>1, <1>2 DEF LocalsType, NextGeneration
  <2>2. Dangling(Dead, resized) = [u \in Threads |-> Dangling(Dead, resized)[u]]
    BY DEF Dangling
  <2>3. CallsType'
    BY <1>1, <1>2 DEF CallsType, locals
  <2> HIDE DEF Dead, resized
  <2> QED
    BY <1>1, <2>1, <2>2, <2>3 DEF LocalsType
<1>6. ~resized => DOMAIN table.buckets \subseteq DOMAIN table'.buckets
  BY <1>3 DEF IsTable
<1>7. ASSUME NEW u \in Threads PROVE LocalsInv(u)'
  <2> HIDE DEF Dead, resized
  <2>1. \/ hep'[u] = FreedCell
        \/ hep'[u] = hep[u] /\ (hep[u] \in Cells => hep[u] \in Cells')
    BY <1>1, <1>3, <1>6, DanglingCells
  <2> QED
    BY <1>1, <1>2, <2>1, LocalsKept DEF locals
<1>8. ASSUME ~moved', NEW u \in Threads PROVE HepAt(u)'
  <2>1. CASE Dead # {}
    <3>1. ~same'[u]
      BY <1>1, <2>1 DEF NextGeneration
    <3> QED
      BY <3>1 DEF HepAt
  <2>2. CASE Dead = {}
    <3>1. /\ SameChains(table, table') /\ UNCHANGED <<nentries, key, moved>>
          /\ same' = same /\ ~resized
      BY <1>1, <1>3, <2>2 DEF SameChains
    <3>2. \A j \in Keys : /\ FoundIn(table', key', j) = FoundIn(table, key, j)
                          /\ CellsOf(table', Index(j, table'.log)) = CellsOf(table, Index(j, table.log))
      BY <1>2, <1>3, <3>1, ReorderedTable
    <3>3. hep'[u] = hep[u]
      BY <1>1, <2>2, <3>1 DEF Dangling
    <3>4. HepAt(u) /\ LocalsInv(u)
      BY <1>2, <1>8, <3>1, HepValidAt DEF IInv
    <3> QED
      BY <1>1, <3>1, <3>2, <3>3, <3>4 DEF HepAt, LocalsInv, locals
  <2> QED
    BY <2>1, <2>2
<1>9. ~moved' => HepValid'
  BY <1>8, HepValidAt
<1> QED
  BY <1>3, <1>4, <1>5, <1>7, <1>9 DEF IInv

LEMMA ReleaseInv ==
  ASSUME IInv, NEW a \in Atoms, Release(a)
  PROVE  IInv'
<1>1. rooted' = rooted \ {a} /\ UNCHANGED <<atoms, memory, locals, pc, hep, same, moved>>
  BY DEF Release
<1> QED
  BY <1>1 DEF IInv, TableInv, MemoryInv, LocalsType, CallsType, LocalsInv, HepValid, Cells, Live, Sound,
     FoundIn, atoms, memory, locals

LEMMA StutterInv ==
  ASSUME IInv, UNCHANGED vars
  PROVE  IInv'
BY DEF IInv, TableInv, MemoryInv, LocalsType, CallsType, LocalsInv, HepValid, Cells, Live, Sound,
   FoundIn, atoms, memory, locals, vars

LEMMA NextInv == IInv /\ [Next]_vars => IInv'
<1> SUFFICES ASSUME IInv, [Next]_vars PROVE IInv'
  OBVIOUS
<1>1. CASE UNCHANGED vars
  BY <1>1, StutterInv
<1>2. CASE Collect
  BY <1>2, CollectInv
<1>3. ASSUME NEW a \in Atoms, Release(a) PROVE IInv'
  BY <1>3, ReleaseInv
<1>4. ASSUME NEW t \in Threads, Atomize(t) PROVE IInv'
  <2>1. ASSUME NEW k \in Keys, NEW pin, Found(t, k, pin) PROVE IInv'
    BY <2>1, FoundInv
  <2>2. ASSUME NEW k \in Keys, NEW f \in SUBSET (Ops \cap {"Pin", "NoCopy"}), NotFound(t, k, f) PROVE IInv'
    <3>1. f \in SUBSET {"Pin", "NoCopy"}
      OBVIOUS
    <3> QED
      BY <2>2, <3>1, NotFoundInv
  <2>3. ASSUME NEW k \in Keys, AddString(t, k) PROVE IInv'
    BY <2>3, AddStringInv
  <2>4. NewString(t) => IInv'
    BY NewStringInv
  <2>5. NewStringFails(t) => IInv'
    BY NewStringFailsInv
  <2>6. Add(t) \/ AddAgain(t) => IInv'
    BY AddInv
  <2>7. FoundAgain(t) => IInv'
    BY FoundAgainInv
  <2>8. AddFails(t) => IInv'
    BY AddFailsInv
  <2>9. Wild(t) => IInv'
    BY WildInv
  <2> QED
    BY <1>4, <2>1, <2>2, <2>3, <2>4, <2>5, <2>6, <2>7, <2>8, <2>9 DEF Atomize
<1> QED
  BY <1>1, <1>2, <1>3, <1>4 DEF Next

THEOREM Inductive == Spec => []IInv
BY InitInv, NextInv, PTL DEF Spec
-----------------------------------------------------------------------------
\* Type correctness and interning (AtomTable!TableSound): every atom is in
\* exactly one place of the table, in the chain of its key's hash code, no two
\* have equal characters, and nentries counts them, whatever the threads do
\* between their two sections.
THEOREM TableCorrect == Spec => []TableSound
<1>1. IInv => TypeOK
  <2> SUFFICES ASSUME IInv PROVE TypeOK
    OBVIOUS
  <2>1. nentries \in Nat
    <3>1. Live \in SUBSET Atoms
      BY DEF Live
    <3>2. IsFiniteSet(Live)
      BY <3>1, AtomTableAssumption, FS_Subset DEF AtomTableAssumption
    <3> QED
      BY <3>2, FS_CardinalityType DEF IInv, TableInv
  <2>2. \A t \in Threads : hep[t] \in {NoCell, FreedCell} \cup {NextCell(a) : a \in Live}
                                        \cup {Bucket(i) : i \in DOMAIN table.buckets}
    BY DEF IInv, LocalsInv, Cells
  <2> QED
    BY <2>1, <2>2 DEF IInv, TableInv, MemoryInv, LocalsType, CallsType, TypeOK
<1>2. IInv => Interned
  <2> SUFFICES ASSUME IInv PROVE Interned
    OBVIOUS
  <2>1. TableInv
    BY DEF IInv
  <2>2. ASSUME ~moved, NEW i \in DOMAIN table.buckets,
               NEW p \in DOMAIN table.buckets[i], NEW q \in DOMAIN table.buckets[i]
        PROVE  /\ Index(key[table.buckets[i][p]], table.log) = i
               /\ key[table.buckets[i][p]] = key[table.buckets[i][q]] => p = q
    <3>1. table.buckets[i][p] \in ToSet(table.buckets[i]) /\ table.buckets[i][q] \in ToSet(table.buckets[i])
      BY DEF ToSet
    <3>2. table.buckets[i][p] \in Live /\ table.buckets[i][q] \in Live
      BY <2>1, <3>1 DEF TableInv, Entries
    <3>3. IsInjective(table.buckets[i]) /\ Index(key[table.buckets[i][p]], table.log) = i
      BY <2>1, <2>2, <3>1 DEF TableInv, WellPlaced
    <3>4. key[table.buckets[i][p]] = key[table.buckets[i][q]] => table.buckets[i][p] = table.buckets[i][q]
      BY <2>1, <2>2, <3>2 DEF TableInv
    <3> QED
      BY <3>3, <3>4 DEF IsInjective
  <2> QED
    BY <2>1, <2>2 DEF Interned, TableInv
<1> QED
  BY <1>1, <1>2, Inductive, PTL DEF TableSound

\* As long as no failed add has changed the table's size, the address a thread
\* keeps across the unlocked section is one in the chain of its key, where the
\* key is not, unless the generation says otherwise.
THEOREM HepCorrect == Spec => [](moved \/ HepValid)
<1>1. IInv => moved \/ HepValid
  BY DEF IInv
<1> QED
  BY <1>1, Inductive, PTL

\* The abstract atom of a key is the live atom that has it.
AtomsOfKeys ==
  \A k \in Keys : /\ \A a \in Live : key[a] = k => AtomFor(k) = a
                  /\ (\A a \in Live : key[a] # k) => AtomFor(k) = NoAtom
                  /\ AtomFor(k) \in Live => key[AtomFor(k)] = k
                  /\ AtomFor(k) \in Live \cup {NoAtom}

LEMMA AtomsFound == IInv /\ ~moved => AtomsOfKeys
<1> SUFFICES ASSUME IInv, ~moved, NEW k \in Keys
             PROVE  /\ \A a \in Live : key[a] = k => AtomFor(k) = a
                    /\ (\A a \in Live : key[a] # k) => AtomFor(k) = NoAtom
                    /\ AtomFor(k) \in Live => key[AtomFor(k)] = k
                    /\ AtomFor(k) \in Live \cup {NoAtom}
  BY DEF AtomsOfKeys
<1>1. TableInv
  BY DEF IInv
<1>2. FoundIn(table, key, k) = {a \in Live : key[a] = k}
  BY <1>1, FoundAll
<1>3. \A a, b \in Live : key[a] = key[b] => a = b
  BY <1>1 DEF TableInv
<1>4. NoAtom \notin Live
  BY AtomTableAssumption DEF AtomTableAssumption, Live
<1>5. CASE FoundIn(table, key, k) = {}
  BY <1>2, <1>4, <1>5 DEF AtomFor
<1>6. CASE FoundIn(table, key, k) # {}
  <2>1. AtomFor(k) \in FoundIn(table, key, k)
    BY <1>6 DEF AtomFor
  <2> QED
    BY <1>2, <1>3, <2>1
<1> QED
  BY <1>5, <1>6

\* A new atom, for a key that has none.
LEMMA AddInterns ==
  ASSUME IInv, ~moved, AtomsOfKeys, AtomsOfKeys', NEW k \in Keys, \A e \in Live : key[e] # k,
         NEW a \in Atoms \ Live, key' = [key EXCEPT ![a] = k], Return(a)
  PROVE  Abstract!Intern(k)
<1>1. key \in [Atoms -> Keys \cup {NoKey}] /\ k # NoKey
  BY AtomTableAssumption DEF IInv, TableInv, AtomTableAssumption
<1>2. Live' = Live \cup {a} /\ key'[a] = k /\ \A e \in Live : key'[e] = key[e]
  BY <1>1 DEF Live
<1>3. AtomFor(k) = NoAtom /\ AtomFor(k)' = a
  BY <1>2 DEF AtomsOfKeys
<1>4. ASSUME NEW j \in Keys, j # k PROVE AtomFor(j)' = AtomFor(j)
  <2>1. CASE AtomFor(j) \in Live
    BY <1>2, <2>1 DEF AtomsOfKeys
  <2>2. CASE AtomFor(j) \notin Live
    <3>1. AtomFor(j) = NoAtom /\ \A e \in Live : key[e] # j
      BY <2>2 DEF AtomsOfKeys
    <3>2. \A e \in Live' : key'[e] # j
      BY <1>2, <1>4, <3>1
    <3> QED
      BY <3>1, <3>2 DEF AtomsOfKeys
  <2> QED
    BY <2>1, <2>2
<1>5. \A j \in Keys : AtomFor(j) # a
  BY AtomTableAssumption DEF AtomsOfKeys, AtomTableAssumption
<1> QED
  BY <1>3, <1>4, <1>5 DEF Abstract!Intern, Return

\* The atom of a key that has one.
LEMMA FindInterns ==
  ASSUME IInv, ~moved, AtomsOfKeys, AtomsOfKeys', NEW k \in Keys, NEW a \in Live, key[a] = k,
         UNCHANGED key, Return(a)
  PROVE  Abstract!Intern(k)
<1>1. Live' = Live
  BY DEF Live
<1>2. \A j \in Keys : AtomFor(j)' = AtomFor(j)
  BY <1>1 DEF AtomsOfKeys
<1>3. AtomFor(k) = a /\ a \in Atoms
  BY DEF AtomsOfKeys, Live
<1> QED
  BY <1>2, <1>3 DEF Abstract!Intern, Return

\* What is collected is not reachable.
LEMMA CollectInterned ==
  ASSUME IInv, ~moved, AtomsOfKeys, AtomsOfKeys', Collect
  PROVE  Abstract!Collect
<1> DEFINE Dead == Live \ (rooted \cup pinned)
           C == {j \in Keys : AtomFor(j) \in Dead}
<1>1. Live' = Live \ Dead /\ (\A a \in Live' : key'[a] = key[a])
  BY CollectTable, Zenon
<1>2. rooted' = rooted
  BY DEF Collect
<1>3. ASSUME NEW j \in Keys PROVE AtomFor(j)' = IF j \in C THEN NoAtom ELSE AtomFor(j)
  <2> HIDE DEF Dead
  <2>1. CASE AtomFor(j) \in Live \ Dead
    BY <1>1, <2>1 DEF AtomsOfKeys
  <2>2. CASE AtomFor(j) \notin Live \ Dead
    <3>1. \A a \in Live' : key'[a] # j
      BY <1>1, <2>2 DEF AtomsOfKeys
    <3> QED
      BY <2>2, <3>1 DEF AtomsOfKeys
  <2> QED
    BY <2>1, <2>2
<1>4. C \in SUBSET {j \in Keys : AtomFor(j) \notin rooted}
  OBVIOUS
<1> HIDE DEF C, Dead
<1> QED
  BY <1>2, <1>3, <1>4 DEF Abstract!Collect

LEMMA StepInterns ==
  ASSUME IInv, ~moved, ~moved', AtomsOfKeys, AtomsOfKeys', Next
  PROVE  Abstract!Next \/ UNCHANGED <<table, key, rooted>>
<1>1. TableInv
  BY DEF IInv
<1>2. CASE Collect
  BY <1>2, CollectInterned DEF Abstract!Next
<1>3. ASSUME NEW a \in Atoms, Release(a) PROVE Abstract!Release(a)
  <2>1. rooted' = rooted \ {a} /\ UNCHANGED <<table, key>>
    BY <1>3 DEF Release, atoms
  <2>2. \A k \in Keys : AtomFor(k)' = AtomFor(k)
    BY <2>1 DEF AtomFor, FoundIn
  <2> QED
    BY <2>1, <2>2 DEF Abstract!Release
<1>4. ASSUME NEW t \in Threads, NEW k \in Keys, NEW T, NEW cell, NEW b, NEW pin,
             RawAdd(t, T, cell, k, b, pin), FoundIn(table, key, k) = {}
      PROVE  Abstract!Intern(k)
  <2>1. PICK a \in Atoms \ Live : key' = [key EXCEPT ![a] = k] /\ Return(a)
    BY <1>4 DEF RawAdd
  <2>2. \A e \in Live : key[e] # k
    BY <1>1, <1>4, FoundAll
  <2> QED
    BY <2>1, <2>2, AddInterns
<1>5. ASSUME Sound(table), NEW k \in Keys, NEW a \in FoundIn(table, key, k), UNCHANGED key, Return(a),
             table' = MoveToFront(table, Index(k, table.log), a)
      PROVE  Abstract!Intern(k)
  <2>1. a \in Live /\ key[a] = k
    BY <1>1, <1>5, FoundTable
  <2> QED
    BY <1>5, <2>1, FindInterns
<1>6. ASSUME NEW t \in Threads, pc[t] = "add" PROVE arg[t] \in Keys
  BY <1>6 DEF IInv, LocalsInv
<1>7. ASSUME NEW t \in Threads, Atomize(t)
      PROVE  (\E k \in Keys : Abstract!Intern(k)) \/ UNCHANGED <<table, key, rooted>>
  <2>1. ASSUME NEW k \in Keys, NEW pin, Found(t, k, pin) PROVE Abstract!Intern(k)
    BY <1>5, <2>1 DEF Found
  <2>2. ASSUME NEW k \in Keys, NEW f, NotFound(t, k, f) PROVE UNCHANGED <<table, key, rooted>>
    BY <2>2 DEF NotFound, atoms
  <2>3. ASSUME NEW k \in Keys, AddString(t, k) PROVE Abstract!Intern(k)
    BY <1>4, <2>3 DEF AddString
  <2>4. NewString(t) \/ NewStringFails(t) \/ Wild(t) => UNCHANGED <<table, key, rooted>>
    BY DEF NewString, NewStringFails, Wild, atoms
  <2>5. ASSUME Add(t) PROVE Abstract!Intern(arg[t])
    <3>1. pc[t] = "add" /\ same[t] /\ RawAdd(t, table, hep[t], arg[t], str[t], "Pin" \in flags[t])
      BY <2>5 DEF Add, Goto
    <3>2. FoundIn(table, key, arg[t]) = {}
      BY <3>1, HepValidAt DEF IInv, HepAt
    <3> QED
      BY <1>4, <1>6, <3>1, <3>2
  <2>6. ASSUME AddAgain(t) PROVE Abstract!Intern(arg[t])
    BY <1>4, <1>6, <2>6 DEF AddAgain, Goto
  <2>7. ASSUME FoundAgain(t) PROVE Abstract!Intern(arg[t])
    BY <1>5, <1>6, <2>7 DEF FoundAgain, Goto
  <2>8. ASSUME AddFails(t) PROVE UNCHANGED <<table, key, rooted>>
    <3> DEFINE G == Grown(table, key, nentries)
    <3>1. /\ Sound(table) /\ G.log = table.log
          /\ table' = G
          /\ UNCHANGED <<key, rooted>>
      BY <2>8 DEF AddFails
    <3>2. G = table
      BY <1>1, <3>1, TableInvSound, GrownElements
    <3> QED
      BY <3>1, <3>2
  <2>9. arg[t] \in Keys \/ pc[t] # "add"
    BY <1>6
  <2>10. Add(t) \/ AddAgain(t) \/ FoundAgain(t) => arg[t] \in Keys
    BY <2>9 DEF Add, AddAgain, FoundAgain, Goto
  <2> QED
    BY <1>7, <2>1, <2>2, <2>3, <2>4, <2>5, <2>6, <2>7, <2>8, <2>10 DEF Atomize
<1> QED
  BY <1>2, <1>3, <1>7 DEF Next, Abstract!Next

\* The atom table is an implementation of interning (AtomTable!ImplementsInterning),
\* until a failed add has changed the table's size: there is one atom for
\* equal characters as long as it is reachable.
THEOREM InterningCorrect == Spec => ImplementsInterning
<1>1. Init => Abstract!Init
  <2> SUFFICES ASSUME Init PROVE Abstract!Init
    OBVIOUS
  <2>1. IInv /\ ~moved /\ rooted = {} /\ Live = {}
    BY InitInv DEF Init, Live
  <2>2. \A k \in Keys : AtomFor(k) = NoAtom
    BY <2>1, AtomsFound DEF AtomsOfKeys
  <2> QED
    BY <2>1, <2>2 DEF Abstract!Init
<1>2. (IInv /\ ~moved => AtomsOfKeys)'
  BY AtomsFound, PTL
<1>3. IInv /\ IInv' /\ [Next]_vars => [moved' \/ Abstract!Next]_<<table, key, rooted>>
  <2> SUFFICES ASSUME IInv, IInv', [Next]_vars, ~moved'
               PROVE  Abstract!Next \/ UNCHANGED <<table, key, rooted>>
    OBVIOUS
  <2>1. CASE UNCHANGED vars
    BY <2>1 DEF vars, atoms
  <2>2. CASE Next
    <3>1. ~moved
      BY <2>2 DEF Next, Atomize, Found, NotFound, AddString, NewString, NewStringFails, Add, AddAgain,
         FoundAgain, AddFails, Wild, Collect, Release
    <3>2. AtomsOfKeys /\ AtomsOfKeys'
      BY <1>2, <3>1, AtomsFound
    <3> QED
      BY <2>2, <3>1, <3>2, StepInterns
  <2> QED
    BY <2>1, <2>2
<1> QED
  BY <1>1, <1>3, Inductive, PTL DEF Spec, ImplementsInterning
=============================================================================
