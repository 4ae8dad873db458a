--------------------------- MODULE SequenceLemmas ---------------------------
(***************************************************************************)
(* Lemmas the proofs about tables and pools share: induction and recursion *)
(* over the natural numbers, stated for sets and functions, and what       *)
(* appending, inserting and flattening do to the elements of a sequence.   *)
(***************************************************************************)
EXTENDS SequencesExt, SequenceTheorems, FiniteSetTheorems, WellFoundedInduction, TLAPS

\* The least-number principle.
LEMMA LeastNumber ==
  ASSUME NEW T \in SUBSET Nat, T # {}
  PROVE  \E k \in T : \A j \in T : k <= j
<1> DEFINE R == OpToRel(<, Nat)
<1>1. IsWellFoundedOn(R, Nat)
  BY NatLessThanWellFounded
<1>2. \A j, k \in Nat : j < k => <<j, k>> \in R
  BY DEF OpToRel
<1> HIDE DEF R
<1>3. PICK k \in T : \A j \in T : ~ (<<j, k>> \in R)
  BY <1>1, WFMin
<1>4. \A j \in T : ~ (j < k)
  BY <1>2, <1>3
<1> QED
  BY <1>4

\* Induction: a set of numbers with 0 and the successors of its members.
LEMMA Induction ==
  ASSUME NEW T \in SUBSET Nat, 0 \in T, \A n \in T : n + 1 \in T
  PROVE  T = Nat
<1> SUFFICES ASSUME Nat \ T # {} PROVE FALSE
  OBVIOUS
<1>1. PICK k \in Nat \ T : \A j \in Nat \ T : k <= j
  BY LeastNumber
<1>2. k # 0 /\ k - 1 \in Nat /\ ~ (k <= k - 1)
  BY <1>1
<1>3. k - 1 \in T
  BY <1>1, <1>2
<1> QED
  BY <1>1, <1>2, <1>3

\* Primitive recursion: G[n][x] follows x at n.
Steps(S, G) == \A n \in Nat, x \in S : G[n][x] \in S
Recursive(f, S, z, G) == f \in [Nat -> S] /\ f[0] = z /\ \A n \in Nat : f[n + 1] = G[n][f[n]]

LEMMA Recursion ==
  ASSUME NEW S, NEW z \in S, NEW G, Steps(S, G)
  PROVE  \E f : Recursive(f, S, z, G)
<1> USE DEF Steps
<1> DEFINE P(n, g) == g[0] = z /\ \A i \in Nat : i < n => g[i + 1] = G[i][g[i]]
<1>1. \A n \in Nat : \E g \in [0..n -> S] : P(n, g)
  <2> DEFINE T == {n \in Nat : \E g \in [0..n -> S] : P(n, g)}
  <2>1. 0 \in T
    <3> DEFINE g == [i \in 0..0 |-> z]
    <3>1. g \in [0..0 -> S] /\ P(0, g)
      OBVIOUS
    <3> QED
      BY <3>1
  <2>2. ASSUME NEW n \in T PROVE n + 1 \in T
    <3>1. PICK g \in [0..n -> S] : P(n, g)
      BY <2>2
    <3> DEFINE h == [i \in 0..(n + 1) |-> IF i <= n THEN g[i] ELSE G[n][g[n]]]
    <3>2. h \in [0..(n + 1) -> S] /\ P(n + 1, h)
      BY <3>1
    <3> HIDE DEF h
    <3> QED
      BY <3>2
  <2> HIDE DEF T
  <2>3. T = Nat
    BY <2>1, <2>2, Induction DEF T
  <2> QED
    BY <2>3 DEF T
<1>2. \A i, m, n \in Nat : \A g \in [0..m -> S], h \in [0..n -> S] :
        P(m, g) /\ P(n, h) /\ i <= m /\ i <= n => g[i] = h[i]
  <2> DEFINE T == {i \in Nat : \A m, n \in Nat : \A g \in [0..m -> S], h \in [0..n -> S] :
                     P(m, g) /\ P(n, h) /\ i <= m /\ i <= n => g[i] = h[i]}
  <2>1. 0 \in T
    OBVIOUS
  <2>2. ASSUME NEW i \in T PROVE i + 1 \in T
    <3> SUFFICES ASSUME NEW m \in Nat, NEW n \in Nat, NEW g \in [0..m -> S], NEW h \in [0..n -> S],
                        P(m, g), P(n, h), i + 1 <= m, i + 1 <= n
                 PROVE  g[i + 1] = h[i + 1]
      BY <2>2
    <3>1. i \in Nat /\ i < m /\ i < n /\ i <= m /\ i <= n
      OBVIOUS
    <3>2. g[i] = h[i]
      BY <3>1
    <3>3. g[i + 1] = G[i][g[i]] /\ h[i + 1] = G[i][h[i]]
      BY <3>1
    <3> QED
      BY <3>2, <3>3
  <2> HIDE DEF T
  <2>3. T = Nat
    BY <2>1, <2>2, Induction DEF T
  <2> QED
    BY <2>3 DEF T
<1> DEFINE C(n) == CHOOSE g \in [0..n -> S] : P(n, g)
<1>3. \A n \in Nat : C(n) \in [0..n -> S] /\ P(n, C(n))
  BY <1>1
<1> HIDE DEF C, P
<1> DEFINE f == [n \in Nat |-> C(n)[n]]
<1>4. f \in [Nat -> S] /\ f[0] = z
  BY <1>3 DEF P
<1>5. ASSUME NEW n \in Nat PROVE f[n + 1] = G[n][f[n]]
  <2>1. C(n + 1)[n] = C(n)[n]
    BY <1>2, <1>3
  <2>2. C(n + 1)[n + 1] = G[n][C(n + 1)[n]]
    BY <1>3 DEF P
  <2> QED
    BY <2>1, <2>2
<1> HIDE DEF f
<1> QED
  BY <1>4, <1>5 DEF Recursive
-----------------------------------------------------------------------------
LEMMA AppendElements ==
  ASSUME NEW A, NEW s \in Seq(A), NEW x \in A
  PROVE  /\ Append(s, x) \in Seq(A)
         /\ ToSet(Append(s, x)) = ToSet(s) \cup {x}
         /\ IsInjective(s) /\ x \notin ToSet(s) => IsInjective(Append(s, x))
<1> DEFINE r == Append(s, x)
<1>1. /\ r \in Seq(A) /\ Len(r) = Len(s) + 1 /\ DOMAIN r = 1..(Len(s) + 1) /\ DOMAIN s = 1..Len(s)
      /\ Len(s) \in Nat
      /\ r[Len(s) + 1] = x
      /\ \A i \in 1..Len(s) : r[i] = s[i]
  OBVIOUS
<1> HIDE DEF r
<1>2. ToSet(r) = ToSet(s) \cup {x}
  BY <1>1 DEF ToSet
<1>3. IsInjective(s) /\ x \notin ToSet(s) => IsInjective(r)
  BY <1>1 DEF IsInjective, ToSet
<1> QED
  BY <1>1, <1>2, <1>3 DEF r

LEMMA TailElements ==
  ASSUME NEW A, NEW s \in Seq(A), s # <<>>, IsInjective(s)
  PROVE  /\ Head(s) \in A /\ Head(s) \in ToSet(s)
         /\ Tail(s) \in Seq(A) /\ IsInjective(Tail(s)) /\ Len(Tail(s)) = Len(s) - 1
         /\ ToSet(Tail(s)) = ToSet(s) \ {Head(s)}
<1> DEFINE r == Tail(s)
           n == Len(s)
<1>1. /\ n \in Nat /\ n # 0 /\ DOMAIN s = 1..n /\ DOMAIN r = 1..(n - 1) /\ Len(r) = n - 1 /\ r \in Seq(A)
      /\ Head(s) = s[1] /\ s[1] \in A
      /\ \A i \in 1..(n - 1) : r[i] = s[i + 1]
  OBVIOUS
<1> HIDE DEF r, n
<1>2. \A i \in 1..(n - 1) : i + 1 \in 1..n /\ i + 1 # 1
  BY <1>1
<1>3. 1 \in 1..n /\ \A i \in 1..n : i # 1 => i - 1 \in 1..(n - 1) /\ (i - 1) + 1 = i
  BY <1>1
<1>4. IsInjective(r)
  <2> SUFFICES ASSUME NEW i \in 1..(n - 1), NEW j \in 1..(n - 1), r[i] = r[j] PROVE i = j
    BY <1>1 DEF IsInjective
  <2>1. s[i + 1] = s[j + 1]
    BY <1>1
  <2>2. i + 1 = j + 1
    BY <1>1, <1>2, <2>1 DEF IsInjective
  <2> QED
    BY <1>1, <2>2
<1>5. \A i \in 1..(n - 1) : r[i] \in ToSet(s) /\ r[i] # s[1]
  BY <1>1, <1>2, <1>3 DEF ToSet, IsInjective
<1>6. \A i \in 1..n : s[i] # s[1] => s[i] \in ToSet(r)
  <2> SUFFICES ASSUME NEW i \in 1..n, i # 1 PROVE s[i] \in ToSet(r)
    OBVIOUS
  <2>1. i - 1 \in DOMAIN r /\ r[i - 1] = s[i]
    BY <1>1, <1>3
  <2> QED
    BY <2>1 DEF ToSet
<1>7. ToSet(r) = ToSet(s) \ {s[1]}
  BY <1>1, <1>5, <1>6 DEF ToSet
<1>8. s[1] \in ToSet(s)
  BY <1>1, <1>3 DEF ToSet
<1> QED
  BY <1>1, <1>4, <1>7, <1>8 DEF r, n

LEMMA ConcatElements ==
  ASSUME NEW A, NEW s \in Seq(A), NEW t \in Seq(A)
  PROVE  /\ s \o t \in Seq(A)
         /\ ToSet(s \o t) = ToSet(s) \cup ToSet(t)
         /\ IsInjective(s) /\ IsInjective(t) /\ ToSet(s) \cap ToSet(t) = {} => IsInjective(s \o t)
<1> DEFINE r == s \o t
<1>1. /\ r \in Seq(A) /\ DOMAIN r = 1..(Len(s) + Len(t)) /\ DOMAIN s = 1..Len(s) /\ DOMAIN t = 1..Len(t)
      /\ Len(s) \in Nat /\ Len(t) \in Nat
      /\ \A i \in 1..(Len(s) + Len(t)) : r[i] = IF i <= Len(s) THEN s[i] ELSE t[i - Len(s)]
  OBVIOUS
<1>2. \A i \in 1..Len(t) : r[Len(s) + i] = t[i]
  BY <1>1
<1> HIDE DEF r
<1>3. ToSet(r) = ToSet(s) \cup ToSet(t)
  <2>1. ASSUME NEW i \in DOMAIN r PROVE r[i] \in ToSet(s) \cup ToSet(t)
    <3>1. CASE i <= Len(s)
      BY <1>1, <3>1 DEF ToSet
    <3>2. CASE ~(i <= Len(s))
      <4>1. i - Len(s) \in DOMAIN t /\ r[i] = t[i - Len(s)]
        BY <1>1, <3>2
      <4> QED
        BY <4>1 DEF ToSet
    <3> QED
      BY <3>1, <3>2
  <2>2. ToSet(s) \subseteq ToSet(r)
    BY <1>1 DEF ToSet
  <2>3. ToSet(t) \subseteq ToSet(r)
    <3> SUFFICES ASSUME NEW i \in 1..Len(t) PROVE t[i] \in ToSet(r)
      BY <1>1 DEF ToSet
    <3>1. Len(s) + i \in DOMAIN r
      BY <1>1
    <3> QED
      BY <1>2, <3>1 DEF ToSet
  <2> QED
    BY <2>1, <2>2, <2>3 DEF ToSet
<1>4. ASSUME IsInjective(s), IsInjective(t), ToSet(s) \cap ToSet(t) = {} PROVE IsInjective(r)
  <2> SUFFICES ASSUME NEW i \in DOMAIN r, NEW j \in DOMAIN r, r[i] = r[j] PROVE i = j
    BY DEF IsInjective
  <2>1. CASE i <= Len(s) /\ j <= Len(s)
    BY <1>1, <1>4, <2>1 DEF IsInjective
  <2>2. CASE ~(i <= Len(s)) /\ ~(j <= Len(s))
    <3>1. i - Len(s) \in DOMAIN t /\ j - Len(s) \in DOMAIN t /\ t[i - Len(s)] = t[j - Len(s)]
      BY <1>1, <2>2
    <3>2. i - Len(s) = j - Len(s)
      BY <1>4, <3>1 DEF IsInjective
    <3> QED
      BY <1>1, <3>2
  <2>3. CASE i <= Len(s) /\ ~(j <= Len(s))
    <3>1. r[i] \in ToSet(s) /\ j - Len(s) \in DOMAIN t /\ r[j] = t[j - Len(s)]
      BY <1>1, <2>3 DEF ToSet
    <3> QED
      BY <1>4, <3>1 DEF ToSet
  <2>4. CASE ~(i <= Len(s)) /\ j <= Len(s)
    <3>1. r[j] \in ToSet(s) /\ i - Len(s) \in DOMAIN t /\ r[i] = t[i - Len(s)]
      BY <1>1, <2>4 DEF ToSet
    <3> QED
      BY <1>4, <3>1 DEF ToSet
  <2> QED
    BY <2>1, <2>2, <2>3, <2>4
<1> QED
  BY <1>1, <1>3, <1>4 DEF r

LEMMA InsertElements ==
  ASSUME NEW A, NEW s \in Seq(A), NEW x \in A, NEW i \in 1..(Len(s) + 1)
  PROVE  /\ InsertAt(s, i, x) \in Seq(A)
         /\ ToSet(InsertAt(s, i, x)) = ToSet(s) \cup {x}
         /\ IsInjective(s) /\ x \notin ToSet(s) => IsInjective(InsertAt(s, i, x))
<1> PICK n : n = Len(s)
  OBVIOUS
<1> DEFINE r == InsertAt(s, i, x)
<1>1. n \in Nat /\ DOMAIN s = 1..n /\ \A j \in 1..n : s[j] \in A
  OBVIOUS
<1>2. /\ r \in Seq(A) /\ DOMAIN r = 1..(n + 1)
      /\ \A j \in 1..(n + 1) : r[j] = IF j < i THEN s[j] ELSE IF j = i THEN x ELSE s[j - 1]
  <2> DEFINE a == SubSeq(s, 1, i - 1)
             b == SubSeq(s, i, n)
  <2>1. /\ a \in Seq(A) /\ Len(a) = i - 1 /\ \A j \in 1..(i - 1) : a[j] = s[j]
    BY <1>1, SubSeqProperties
  <2>2. /\ b \in Seq(A) /\ Len(b) = n + 1 - i /\ \A j \in 1..(n + 1 - i) : b[j] = s[i + j - 1]
    BY <1>1, SubSeqProperties
  <2>3. r = a \o <<x>> \o b
    BY DEF InsertAt
  <2> HIDE DEF a, b, r
  <2>4. <<x>> \in Seq(A) /\ Len(<<x>>) = 1 /\ <<x>>[1] = x
    OBVIOUS
  <2>5. /\ a \o <<x>> \in Seq(A) /\ Len(a \o <<x>>) = i
        /\ \A j \in 1..i : (a \o <<x>>)[j] = IF j < i THEN s[j] ELSE x
    BY <2>1, <2>4
  <2>6. /\ r \in Seq(A) /\ Len(r) = n + 1
        /\ \A j \in 1..(n + 1) : r[j] = IF j <= i THEN (a \o <<x>>)[j] ELSE b[j - i]
    BY <1>1, <2>2, <2>3, <2>5, ConcatProperties
  <2>7. ASSUME NEW j \in 1..(n + 1), j > i PROVE b[j - i] = s[j - 1]
    <3>1. j - i \in 1..(n + 1 - i) /\ i + (j - i) - 1 = j - 1
      BY <1>1, <2>7
    <3> PICK k \in 1..(n + 1 - i) : k = j - i
      BY <3>1
    <3>2. b[k] = s[i + k - 1]
      BY <2>2
    <3>3. i + k - 1 = j - 1
      BY <3>1
    <3> QED
      BY <3>2, <3>3
  <2>8. \A j \in 1..(n + 1) : r[j] = IF j < i THEN s[j] ELSE IF j = i THEN x ELSE s[j - 1]
    <3> SUFFICES ASSUME NEW j \in 1..(n + 1)
                 PROVE  r[j] = IF j < i THEN s[j] ELSE IF j = i THEN x ELSE s[j - 1]
      OBVIOUS
    <3>1. CASE j <= i
      <4>1. j \in 1..i
        BY <1>1, <3>1
      <4> DEFINE q == a \o <<x>>
      <4>2. q[j] = IF j < i THEN s[j] ELSE x
        BY <2>5, <4>1
      <4>3. r[j] = q[j]
        BY <2>6, <3>1
      <4> HIDE DEF q
      <4>4. ~(j < i) => j = i
        BY <1>1, <3>1
      <4> QED
        BY <4>2, <4>3, <4>4
    <3>2. CASE j > i
      BY <1>1, <2>6, <2>7, <3>2
    <3> QED
      BY <1>1, <3>1, <3>2
  <2> QED
    BY <2>6, <2>8
<1> HIDE DEF r
<1>3. ToSet(r) = ToSet(s) \cup {x}
  <2>1. ToSet(r) \subseteq ToSet(s) \cup {x}
    BY <1>1, <1>2 DEF ToSet
  <2>2. x \in ToSet(r)
    BY <1>1, <1>2 DEF ToSet
  <2>3. ASSUME NEW j \in 1..n PROVE s[j] \in ToSet(r)
    <3>1. CASE j < i
      BY <1>1, <1>2, <3>1 DEF ToSet
    <3>2. CASE ~(j < i)
      <4>1. j + 1 \in DOMAIN r /\ r[j + 1] = s[j]
        BY <1>1, <1>2, <3>2
      <4> QED
        BY <4>1 DEF ToSet
    <3> QED
      BY <3>1, <3>2
  <2> QED
    BY <1>1, <2>1, <2>2, <2>3 DEF ToSet
<1>4. ASSUME IsInjective(s), x \notin ToSet(s) PROVE IsInjective(r)
  <2>1. \A j \in 1..n : s[j] # x
    BY <1>1, <1>4 DEF ToSet
  <2>2. \A j, k \in 1..n : s[j] = s[k] => j = k
    BY <1>1, <1>4 DEF IsInjective
  <2> SUFFICES ASSUME NEW j \in 1..(n + 1), NEW k \in 1..(n + 1), r[j] = r[k] PROVE j = k
    BY <1>2 DEF IsInjective
  <2> QED
    BY <1>1, <1>2, <2>1, <2>2
<1> QED
  BY <1>2, <1>3, <1>4 DEF r

\* What the recursion in FlattenSeq computes: f[i] flattens the first i + 1.
Flattening(f, A, n, ss) ==
  /\ f \in [Nat -> Seq(A)]
  /\ f[0] = ss[1]
  /\ \A i \in 2..(n + 1) : f[i - 1] = f[i - 2] \o ss[i]
  /\ FlattenSeq(ss) = f[n]

LEMMA FlattenSteps ==
  ASSUME NEW A, NEW n \in Nat, NEW ss \in [1..(n + 1) -> Seq(A)]
  PROVE  \E f : Flattening(f, A, n, ss)
<1> DEFINE G == [i \in Nat |-> [x \in Seq(A) |-> IF i + 2 <= n + 1 THEN x \o ss[i + 2] ELSE x]]
<1>1. \A i \in Nat, x \in Seq(A) : G[i][x] \in Seq(A)
  <2> SUFFICES ASSUME NEW i \in Nat, NEW x \in Seq(A) PROVE G[i][x] \in Seq(A)
    OBVIOUS
  <2>1. CASE i + 2 <= n + 1
    <3>1. ss[i + 2] \in Seq(A)
      BY <2>1
    <3> QED
      BY <2>1, <3>1
  <2>2. CASE ~(i + 2 <= n + 1)
    BY <2>2
  <2> QED
    BY <2>1, <2>2
<1>2. \A i \in Nat, x \in Seq(A) : i + 2 <= n + 1 => G[i][x] = x \o ss[i + 2]
  OBVIOUS
<1>3. ss[1] \in Seq(A)
  OBVIOUS
<1> HIDE DEF G
<1>4. PICK f : Recursive(f, Seq(A), ss[1], G)
  BY <1>1, <1>3, Recursion DEF Steps
<1>5. f \in [Nat -> Seq(A)] /\ f[0] = ss[1] /\ \A i \in Nat : f[i + 1] = G[i][f[i]]
  BY <1>4 DEF Recursive
<1>6. ASSUME NEW i \in 2..(n + 1) PROVE f[i - 1] = f[i - 2] \o ss[i]
  <2>1. i - 2 \in Nat /\ (i - 2) + 1 = i - 1 /\ (i - 2) + 2 = i /\ i <= n + 1
    OBVIOUS
  <2>2. f[i - 2] \in Seq(A)
    BY <1>5, <2>1
  <2>3. f[i - 1] = G[i - 2][f[i - 2]]
    BY <1>5, <2>1
  <2> QED
    BY <1>2, <2>1, <2>2, <2>3
<1> DEFINE g == [i \in 1..(n + 1) |-> f[i - 1]]
           flatten == CHOOSE k : k = [i \in 1..(n + 1) |-> IF i = 1 THEN ss[i] ELSE k[i - 1] \o ss[i]]
<1>7. g = [i \in 1..(n + 1) |-> IF i = 1 THEN ss[i] ELSE g[i - 1] \o ss[i]]
  <2>1. ASSUME NEW i \in 1..(n + 1) PROVE f[i - 1] = IF i = 1 THEN ss[i] ELSE g[i - 1] \o ss[i]
    <3>1. CASE i = 1
      BY <1>5, <3>1
    <3>2. CASE i # 1
      <4>1. i \in 2..(n + 1) /\ i - 1 \in 1..(n + 1) /\ (i - 1) - 1 = i - 2
        BY <3>2
      <4>2. g[i - 1] = f[i - 2]
        BY <4>1
      <4> HIDE DEF g
      <4> QED
        BY <1>6, <3>2, <4>1, <4>2
    <3> QED
      BY <3>1, <3>2
  <2> QED
    BY <2>1
<1>8. flatten = [i \in 1..(n + 1) |-> IF i = 1 THEN ss[i] ELSE flatten[i - 1] \o ss[i]]
  <2> HIDE DEF g
  <2> QED
    BY <1>7
<1>9. Len(ss) = n + 1
  OBVIOUS
<1>10. FlattenSeq(ss) = flatten[n + 1]
  BY <1>9 DEF FlattenSeq
<1> HIDE DEF flatten
<1>11. ASSUME NEW i \in Nat, i <= n PROVE flatten[i + 1] = f[i]
  <2> DEFINE T == {j \in Nat : j <= n => flatten[j + 1] = f[j]}
  <2>1. 0 \in T
    BY <1>5, <1>8
  <2>2. ASSUME NEW j \in T PROVE j + 1 \in T
    <3> SUFFICES ASSUME j + 1 <= n PROVE flatten[j + 2] = f[j + 1]
      OBVIOUS
    <3>1. j + 2 \in 1..(n + 1) /\ j + 2 \in 2..(n + 1) /\ j + 2 # 1 /\ (j + 2) - 1 = j + 1 /\ (j + 2) - 2 = j
      OBVIOUS
    <3>2. flatten[j + 1] = f[j]
      OBVIOUS
    <3>3. flatten[j + 2] = flatten[j + 1] \o ss[j + 2]
      BY <1>8, <3>1
    <3>4. f[j + 1] = f[j] \o ss[j + 2]
      BY <1>6, <3>1
    <3> QED
      BY <3>2, <3>3, <3>4
  <2> HIDE DEF T
  <2>3. T = Nat
    BY <2>1, <2>2, Induction DEF T
  <2> QED
    BY <1>11, <2>3 DEF T
<1>12. FlattenSeq(ss) = f[n]
  BY <1>10, <1>11
<1> HIDE DEF g
<1>13. Flattening(f, A, n, ss)
  BY <1>5, <1>6, <1>12 DEF Flattening
<1> QED
  BY <1>13

\* The sequences of ss have no element in common.
Disjoint(ss) == \A i, j \in DOMAIN ss : i # j => ToSet(ss[i]) \cap ToSet(ss[j]) = {}

LEMMA FlattenElements ==
  ASSUME NEW A, NEW n \in Nat, NEW ss \in [1..(n + 1) -> Seq(A)]
  PROVE  /\ FlattenSeq(ss) \in Seq(A)
         /\ ToSet(FlattenSeq(ss)) = UNION {ToSet(ss[i]) : i \in DOMAIN ss}
         /\ (\A i \in DOMAIN ss : IsInjective(ss[i])) /\ Disjoint(ss) => IsInjective(FlattenSeq(ss))
<1>0. PICK f : Flattening(f, A, n, ss)
  BY FlattenSteps
<1>1. /\ f \in [Nat -> Seq(A)]
      /\ f[0] = ss[1]
      /\ \A i \in 2..(n + 1) : f[i - 1] = f[i - 2] \o ss[i]
      /\ FlattenSeq(ss) = f[n]
  BY <1>0 DEF Flattening
<1> DEFINE Parts(m) == UNION {ToSet(ss[j]) : j \in 1..m}
           Apart == (\A j \in 1..(n + 1) : IsInjective(ss[j])) /\ Disjoint(ss)
<1>2. Parts(1) = ToSet(ss[1])
  OBVIOUS
<1>3. ASSUME NEW m \in Nat PROVE Parts(m + 2) = Parts(m + 1) \cup ToSet(ss[m + 2])
  <2>1. \A j : j \in 1..(m + 2) <=> j \in 1..(m + 1) \/ j = m + 2
    BY <1>3
  <2> QED
    BY <2>1
<1>4. ASSUME NEW m \in Nat, m + 1 <= n, Apart
      PROVE  Parts(m + 1) \cap ToSet(ss[m + 2]) = {} /\ IsInjective(ss[m + 2])
  <2>1. m + 2 \in DOMAIN ss
    BY <1>4
  <2>2. \A j \in 1..(m + 1) : j \in DOMAIN ss /\ j # m + 2
    BY <1>4
  <2>3. \A j \in 1..(m + 1) : ToSet(ss[j]) \cap ToSet(ss[m + 2]) = {}
    BY <1>4, <2>1, <2>2 DEF Disjoint
  <2>4. Parts(m + 1) \cap ToSet(ss[m + 2]) = {}
    BY <2>3
  <2> QED
    BY <1>4, <2>1, <2>4
<1>5. ASSUME NEW m \in Nat, m + 1 <= n
      PROVE  f[m + 1] = f[m] \o ss[m + 2] /\ f[m] \in Seq(A) /\ ss[m + 2] \in Seq(A)
  <2>1. m + 2 \in 2..(n + 1) /\ m + 2 \in 1..(n + 1) /\ (m + 2) - 1 = m + 1 /\ (m + 2) - 2 = m
    BY <1>5
  <2> QED
    BY <1>1, <2>1
<1>6. Apart => IsInjective(ss[1])
  OBVIOUS
<1> HIDE DEF Parts, Apart
<1> DEFINE Q(m) == ToSet(f[m]) = Parts(m + 1) /\ (Apart => IsInjective(f[m]))
<1>7. Q(0)
  BY <1>1, <1>2, <1>6
<1>8. ASSUME NEW m \in Nat, m + 1 <= n, Q(m) PROVE Q(m + 1)
  <2>0. m \in Nat /\ m + 1 <= n /\ (m + 1) + 1 = m + 2
    BY <1>8
  <2>1. /\ f[m + 1] = f[m] \o ss[m + 2] /\ f[m] \in Seq(A) /\ ss[m + 2] \in Seq(A)
        /\ ToSet(f[m]) = Parts(m + 1) /\ (Apart => IsInjective(f[m]))
    BY <1>5, <1>8, <2>0
  <2>2. /\ ToSet(f[m + 1]) = ToSet(f[m]) \cup ToSet(ss[m + 2])
        /\ IsInjective(f[m]) /\ IsInjective(ss[m + 2]) /\ ToSet(f[m]) \cap ToSet(ss[m + 2]) = {}
             => IsInjective(f[m + 1])
    BY <2>1, ConcatElements
  <2>3. ToSet(f[m + 1]) = Parts(m + 2)
    BY <1>3, <2>0, <2>1, <2>2
  <2>4. Apart => IsInjective(f[m + 1])
    BY <1>4, <2>0, <2>1, <2>2
  <2> QED
    BY <2>0, <2>3, <2>4
<1> HIDE DEF Q
<1> DEFINE T == {m \in Nat : m <= n => Q(m)}
<1>9. 0 \in T
  BY <1>7
<1>10. ASSUME NEW m \in T PROVE m + 1 \in T
  <2>1. m \in Nat /\ (m <= n => Q(m))
    OBVIOUS
  <2>2. m + 1 <= n => m <= n
    BY <2>1
  <2>3. m + 1 <= n => Q(m + 1)
    BY <1>8, <2>1, <2>2
  <2> QED
    BY <2>1, <2>3
<1> HIDE DEF T
<1>11. T = Nat
  BY <1>9, <1>10, Induction DEF T
<1>12. Q(n)
  <2>1. n \in T
    BY <1>11
  <2> QED
    BY <2>1 DEF T
<1>13. ToSet(FlattenSeq(ss)) = Parts(n + 1) /\ (Apart => IsInjective(FlattenSeq(ss)))
  BY <1>1, <1>12 DEF Q
<1> QED
  BY <1>1, <1>13 DEF Parts, Apart
-----------------------------------------------------------------------------
\* Induction up to a number.
LEMMA UpTo ==
  ASSUME NEW n \in Nat, NEW T \in SUBSET Nat, 0 \in T, \A m \in T : m < n => m + 1 \in T
  PROVE  n \in T
<1> DEFINE U == {m \in Nat : m <= n => m \in T}
<1>1. 0 \in U
  OBVIOUS
<1>2. ASSUME NEW m \in U PROVE m + 1 \in U
  OBVIOUS
<1> HIDE DEF U
<1>3. U = Nat
  BY <1>1, <1>2, Induction DEF U
<1> QED
  BY <1>3 DEF U

\* The members of the sequence s that are in S, in order, and the steps that
\* choose them: f[n] is what is chosen of the first n.
Chosen(s, S) ==
  LET kept[n \in 0..Len(s)] ==
        IF n = 0 THEN <<>> ELSE IF s[n] \in S THEN Append(kept[n - 1], s[n]) ELSE kept[n - 1]
  IN kept[Len(s)]

Choosing(f, A, s, S) ==
  /\ f \in [Nat -> Seq(A)]
  /\ f[0] = <<>>
  /\ \A n \in 1..Len(s) : f[n] = IF s[n] \in S THEN Append(f[n - 1], s[n]) ELSE f[n - 1]
  /\ Chosen(s, S) = f[Len(s)]

LEMMA ChosenSteps ==
  ASSUME NEW A, NEW s \in Seq(A), NEW S
  PROVE  \E f : Choosing(f, A, s, S)
<1> PICK m \in Nat : m = Len(s)
  OBVIOUS
<1>1. DOMAIN s = 1..m /\ \A i \in 1..m : s[i] \in A
  OBVIOUS
<1> DEFINE G == [n \in Nat |-> [x \in Seq(A) |->
                   IF n + 1 \in 1..m /\ s[n + 1] \in S THEN Append(x, s[n + 1]) ELSE x]]
           kept == CHOOSE k : k = [n \in 0..m |->
                     IF n = 0 THEN <<>> ELSE IF s[n] \in S THEN Append(k[n - 1], s[n]) ELSE k[n - 1]]
<1>2. Chosen(s, S) = kept[m]
  BY DEF Chosen
<1>3. Steps(Seq(A), G)
  <2> SUFFICES ASSUME NEW n \in Nat, NEW x \in Seq(A) PROVE G[n][x] \in Seq(A)
    BY DEF Steps
  <2>1. CASE n + 1 \in 1..m /\ s[n + 1] \in S
    BY <1>1, <2>1
  <2>2. CASE ~(n + 1 \in 1..m /\ s[n + 1] \in S)
    BY <2>2
  <2> QED
    BY <2>1, <2>2
<1>4. \A n \in Nat, x \in Seq(A) :
        G[n][x] = IF n + 1 \in 1..m /\ s[n + 1] \in S THEN Append(x, s[n + 1]) ELSE x
  OBVIOUS
<1>5. <<>> \in Seq(A)
  OBVIOUS
<1> HIDE DEF G
<1>6. PICK f : Recursive(f, Seq(A), <<>>, G)
  BY <1>3, <1>5, Recursion
<1>7. f \in [Nat -> Seq(A)] /\ f[0] = <<>> /\ \A n \in Nat : f[n + 1] = G[n][f[n]]
  BY <1>6 DEF Recursive
<1>8. ASSUME NEW n \in 1..m
      PROVE  f[n] = IF s[n] \in S THEN Append(f[n - 1], s[n]) ELSE f[n - 1]
  <2>1. n - 1 \in Nat /\ (n - 1) + 1 = n
    OBVIOUS
  <2>2. f[n] = G[n - 1][f[n - 1]] /\ f[n - 1] \in Seq(A)
    BY <1>7, <2>1
  <2> QED
    BY <1>4, <2>1, <2>2
<1> DEFINE g == [n \in 0..m |-> f[n]]
<1>9. g = [n \in 0..m |->
             IF n = 0 THEN <<>> ELSE IF s[n] \in S THEN Append(g[n - 1], s[n]) ELSE g[n - 1]]
  <2>1. ASSUME NEW n \in 0..m, n # 0 PROVE n \in 1..m /\ n - 1 \in 0..m /\ g[n - 1] = f[n - 1]
    BY <2>1
  <2> QED
    BY <1>7, <1>8, <2>1
<1>10. g[m] = f[m]
  OBVIOUS
<1> HIDE DEF g
<1>11. kept = [n \in 0..m |->
                 IF n = 0 THEN <<>> ELSE IF s[n] \in S THEN Append(kept[n - 1], s[n]) ELSE kept[n - 1]]
  BY <1>9
<1> HIDE DEF kept
<1>12. m \in {n \in Nat : n <= m => kept[n] = f[n]}
  <2> DEFINE T == {n \in Nat : n <= m => kept[n] = f[n]}
  <2>1. 0 \in T
    BY <1>7, <1>11
  <2>2. ASSUME NEW n \in T, n < m PROVE n + 1 \in T
    <3>1. n + 1 \in 0..m /\ n + 1 # 0 /\ (n + 1) - 1 = n /\ n + 1 \in 1..m /\ kept[n] = f[n]
      BY <2>2
    <3>2. kept[n + 1] = IF s[n + 1] \in S THEN Append(kept[n], s[n + 1]) ELSE kept[n]
      BY <1>11, <3>1
    <3>3. f[n + 1] = IF s[n + 1] \in S THEN Append(f[n], s[n + 1]) ELSE f[n]
      BY <1>8, <3>1
    <3> QED
      BY <3>1, <3>2, <3>3
  <2> HIDE DEF T
  <2>3. T \in SUBSET Nat
    BY DEF T
  <2> QED
    BY <2>1, <2>2, <2>3, UpTo DEF T
<1>13. kept[m] = f[m]
  BY <1>12
<1> QED
  BY <1>2, <1>7, <1>8, <1>13 DEF Choosing

\* They are those, and each once if s has each once.
LEMMA ChosenElements ==
  ASSUME NEW A, NEW s \in Seq(A), NEW S
  PROVE  /\ Chosen(s, S) \in Seq(A)
         /\ ToSet(Chosen(s, S)) = ToSet(s) \cap S
         /\ IsInjective(s) => IsInjective(Chosen(s, S))
<1> PICK m \in Nat : m = Len(s)
  OBVIOUS
<1>1. DOMAIN s = 1..m /\ \A i \in 1..m : s[i] \in A
  OBVIOUS
<1>2. PICK f : Choosing(f, A, s, S)
  BY ChosenSteps
<1>3. /\ f \in [Nat -> Seq(A)] /\ f[0] = <<>> /\ Chosen(s, S) = f[m]
      /\ \A n \in 1..m : f[n] = IF s[n] \in S THEN Append(f[n - 1], s[n]) ELSE f[n - 1]
  BY <1>2 DEF Choosing
<1> DEFINE Q(n) == /\ f[n] \in Seq(A)
                   /\ ToSet(f[n]) = {s[i] : i \in 1..n} \cap S
                   /\ IsInjective(s) => IsInjective(f[n])
<1>4. Q(0)
  BY <1>3 DEF ToSet, IsInjective
<1>5. ASSUME NEW n \in Nat, n < m, Q(n) PROVE Q(n + 1)
  <2>1. /\ (n + 1) - 1 = n /\ n + 1 \in 1..m
        /\ \A i : i \in 1..(n + 1) <=> i \in 1..n \/ i = n + 1
    BY <1>5
  <2>2. f[n + 1] = IF s[n + 1] \in S THEN Append(f[n], s[n + 1]) ELSE f[n]
    BY <1>3, <2>1
  <2>3. {s[i] : i \in 1..(n + 1)} = {s[i] : i \in 1..n} \cup {s[n + 1]}
    BY <2>1
  <2>4. s[n + 1] \in A
    BY <1>1, <2>1
  <2>5. CASE s[n + 1] \in S
    <3>1. f[n + 1] \in Seq(A) /\ ToSet(f[n + 1]) = ToSet(f[n]) \cup {s[n + 1]}
          /\ (IsInjective(f[n]) /\ s[n + 1] \notin ToSet(f[n]) => IsInjective(f[n + 1]))
      BY <1>5, <2>2, <2>4, <2>5, AppendElements
    <3>2. ASSUME IsInjective(s) PROVE s[n + 1] \notin {s[i] : i \in 1..n}
      <4> SUFFICES ASSUME NEW i \in 1..n, s[i] = s[n + 1] PROVE FALSE
        OBVIOUS
      <4>1. i \in DOMAIN s /\ n + 1 \in DOMAIN s /\ i # n + 1
        BY <1>1, <2>1
      <4> QED
        BY <3>2, <4>1 DEF IsInjective
    <3> QED
      BY <1>5, <2>3, <2>5, <3>1, <3>2
  <2>6. CASE s[n + 1] \notin S
    BY <1>5, <2>2, <2>3, <2>6
  <2> QED
    BY <2>5, <2>6
<1> HIDE DEF Q
<1> DEFINE T == {n \in Nat : n <= m => Q(n)}
<1>6. 0 \in T
  BY <1>4
<1>7. ASSUME NEW n \in T, n < m PROVE n + 1 \in T
  BY <1>5, <1>7
<1>8. T \in SUBSET Nat
  OBVIOUS
<1> HIDE DEF T
<1>9. m \in T
  BY <1>6, <1>7, <1>8, UpTo
<1>10. Q(m)
  BY <1>9 DEF T
<1>11. {s[i] : i \in 1..m} = ToSet(s)
  BY <1>1 DEF ToSet
<1> QED
  BY <1>3, <1>10, <1>11 DEF Q

\* Two sequences of which the members at the same places are chosen.
ChoiceAlike(A, B, s, t, S, T) ==
  /\ s \in Seq(A) /\ t \in Seq(B) /\ Len(t) = Len(s)
  /\ \A k \in 1..Len(s) : s[k] \in S <=> t[k] \in T

ChosenAlike(s, t, S, T) ==
  /\ Len(Chosen(t, T)) = Len(Chosen(s, S))
  /\ \A m \in 1..Len(Chosen(s, S)) : \E k \in 1..Len(s) :
       Chosen(s, S)[m] = s[k] /\ Chosen(t, T)[m] = t[k]

LEMMA ChosenAlong ==
  ASSUME NEW A, NEW B, NEW s, NEW t, NEW S, NEW T, ChoiceAlike(A, B, s, t, S, T)
  PROVE  ChosenAlike(s, t, S, T)
<1>a. s \in Seq(A) /\ t \in Seq(B) /\ Len(t) = Len(s)
  BY DEF ChoiceAlike
<1> PICK n \in Nat : n = Len(s)
  BY <1>a
<1>1. \A k \in 1..n : s[k] \in A /\ t[k] \in B /\ (s[k] \in S <=> t[k] \in T)
  BY <1>a DEF ChoiceAlike
<1>2. PICK f : Choosing(f, A, s, S)
  BY <1>a, ChosenSteps
<1>3. PICK g : Choosing(g, B, t, T)
  BY <1>a, ChosenSteps
<1>4. /\ f \in [Nat -> Seq(A)] /\ f[0] = <<>> /\ Chosen(s, S) = f[n]
      /\ \A k \in 1..n : f[k] = IF s[k] \in S THEN Append(f[k - 1], s[k]) ELSE f[k - 1]
  BY <1>2 DEF Choosing
<1>5. /\ g \in [Nat -> Seq(B)] /\ g[0] = <<>> /\ Chosen(t, T) = g[n]
      /\ \A k \in 1..n : g[k] = IF t[k] \in T THEN Append(g[k - 1], t[k]) ELSE g[k - 1]
  BY <1>a, <1>3 DEF Choosing
<1> DEFINE Q(j) == /\ Len(g[j]) = Len(f[j])
                   /\ \A m \in 1..Len(f[j]) : \E k \in 1..n : f[j][m] = s[k] /\ g[j][m] = t[k]
<1>6. Q(0)
  BY <1>4, <1>5
<1>7. ASSUME NEW j \in Nat, j < n, Q(j) PROVE Q(j + 1)
  <2>1. j + 1 \in 1..n /\ (j + 1) - 1 = j
    BY <1>7
  <2>2. CASE s[j + 1] \in S
    <3>1. f[j + 1] = Append(f[j], s[j + 1]) /\ g[j + 1] = Append(g[j], t[j + 1])
      BY <1>1, <1>4, <1>5, <2>1, <2>2
    <3>2. f[j] \in Seq(A) /\ g[j] \in Seq(B) /\ s[j + 1] \in A /\ t[j + 1] \in B
      BY <1>1, <1>4, <1>5, <2>1
    <3> DEFINE a == f[j]
               b == g[j]
    <3>3. /\ Len(f[j + 1]) = Len(a) + 1 /\ Len(g[j + 1]) = Len(b) + 1 /\ Len(a) \in Nat
          /\ f[j + 1][Len(a) + 1] = s[j + 1] /\ g[j + 1][Len(b) + 1] = t[j + 1]
          /\ \A m \in 1..Len(a) : f[j + 1][m] = a[m]
          /\ \A m \in 1..Len(b) : g[j + 1][m] = b[m]
      BY <3>1, <3>2
    <3>4. Len(b) = Len(a) /\ \A m \in 1..Len(a) : \E k \in 1..n : a[m] = s[k] /\ b[m] = t[k]
      BY <1>7
    <3> HIDE DEF a, b
    <3>5. \A m \in 1..(Len(a) + 1) : m \in 1..Len(a) \/ m = Len(a) + 1
      BY <3>3
    <3>6. Len(g[j + 1]) = Len(f[j + 1]) /\ Len(f[j + 1]) = Len(a) + 1
      BY <3>3, <3>4
    <3>7. ASSUME NEW m \in 1..Len(f[j + 1])
          PROVE  \E k \in 1..n : f[j + 1][m] = s[k] /\ g[j + 1][m] = t[k]
      <4>1. CASE m \in 1..Len(a)
        <5>1. f[j + 1][m] = a[m] /\ g[j + 1][m] = b[m]
          BY <3>3, <3>4, <4>1
        <5> QED
          BY <3>4, <4>1, <5>1
      <4>2. CASE m = Len(a) + 1
        BY <2>1, <3>3, <3>4, <4>2
      <4> QED
        BY <3>5, <3>6, <4>1, <4>2
    <3> QED
      BY <3>6, <3>7
  <2>3. CASE s[j + 1] \notin S
    <3>1. f[j + 1] = f[j] /\ g[j + 1] = g[j]
      BY <1>1, <1>4, <1>5, <2>1, <2>3
    <3> QED
      BY <1>7, <3>1
  <2> QED
    BY <2>2, <2>3
<1> HIDE DEF Q
<1> DEFINE U == {j \in Nat : j <= n => Q(j)}
<1>8. 0 \in U
  BY <1>6
<1>9. ASSUME NEW j \in U, j < n PROVE j + 1 \in U
  BY <1>7, <1>9
<1>10. U \in SUBSET Nat
  OBVIOUS
<1> HIDE DEF U
<1>11. n \in U
  BY <1>8, <1>9, <1>10, UpTo
<1>12. Q(n)
  BY <1>11 DEF U
<1> QED
  BY <1>4, <1>5, <1>12 DEF Q, ChosenAlike

\* One more to choose from.
LEMMA ChosenAppend ==
  ASSUME NEW A, NEW s \in Seq(A), NEW x \in A, NEW S
  PROVE  Chosen(Append(s, x), S) = IF x \in S THEN Append(Chosen(s, S), x) ELSE Chosen(s, S)
<1> PICK n \in Nat : n = Len(s)
  OBVIOUS
<1> DEFINE r == Append(s, x)
<1>0. r \in Seq(A)
  OBVIOUS
<1>1. Len(r) = n + 1 /\ r[n + 1] = x /\ \A k \in 1..n : r[k] = s[k]
  OBVIOUS
<1> HIDE DEF r
<1>2. PICK f : Choosing(f, A, r, S)
  BY <1>0, ChosenSteps
<1>3. PICK g : Choosing(g, A, s, S)
  BY ChosenSteps
<1>4. /\ f \in [Nat -> Seq(A)] /\ f[0] = <<>> /\ Chosen(r, S) = f[n + 1]
      /\ \A k \in 1..(n + 1) : f[k] = IF r[k] \in S THEN Append(f[k - 1], r[k]) ELSE f[k - 1]
  BY <1>1, <1>2 DEF Choosing
<1>5. /\ g \in [Nat -> Seq(A)] /\ g[0] = <<>> /\ Chosen(s, S) = g[n]
      /\ \A k \in 1..n : g[k] = IF s[k] \in S THEN Append(g[k - 1], s[k]) ELSE g[k - 1]
  BY <1>3 DEF Choosing
<1> DEFINE U == {j \in Nat : j <= n => f[j] = g[j]}
<1>6. 0 \in U
  BY <1>4, <1>5
<1>7. ASSUME NEW j \in U, j < n PROVE j + 1 \in U
  <2>1. j + 1 \in 1..n /\ j + 1 \in 1..(n + 1) /\ (j + 1) - 1 = j /\ f[j] = g[j]
    BY <1>7
  <2>2. f[j + 1] = IF r[j + 1] \in S THEN Append(f[j], r[j + 1]) ELSE f[j]
    BY <1>4, <2>1
  <2>3. g[j + 1] = IF s[j + 1] \in S THEN Append(g[j], s[j + 1]) ELSE g[j]
    BY <1>5, <2>1
  <2>4. r[j + 1] = s[j + 1]
    BY <1>1, <2>1
  <2> QED
    BY <2>1, <2>2, <2>3, <2>4
<1>8. U \in SUBSET Nat
  OBVIOUS
<1> HIDE DEF U
<1>9. n \in U
  BY <1>6, <1>7, <1>8, UpTo
<1>10. f[n] = g[n]
  BY <1>9 DEF U
<1>11. f[n + 1] = IF x \in S THEN Append(f[n], x) ELSE f[n]
  <2>1. n + 1 \in 1..(n + 1) /\ (n + 1) - 1 = n
    OBVIOUS
  <2> QED
    BY <1>1, <1>4, <2>1
<1> QED
  BY <1>4, <1>5, <1>10, <1>11 DEF r

\* Two sequences of sequences of the same lengths, flattened.
AlikeIn(A, B, n, ss, tt) ==
  /\ ss \in [1..(n + 1) -> Seq(A)] /\ tt \in [1..(n + 1) -> Seq(B)]
  /\ \A k \in 1..(n + 1) : Len(tt[k]) = Len(ss[k])

FlatAlike(n, ss, tt) ==
  /\ Len(FlattenSeq(tt)) = Len(FlattenSeq(ss))
  /\ \A m \in 1..Len(FlattenSeq(ss)) : \E k \in 1..(n + 1) : \E i \in 1..Len(ss[k]) :
       FlattenSeq(ss)[m] = ss[k][i] /\ FlattenSeq(tt)[m] = tt[k][i]

LEMMA ConcatAt ==
  ASSUME NEW A, NEW s \in Seq(A), NEW t \in Seq(A)
  PROVE  /\ Len(s) \in Nat /\ Len(t) \in Nat /\ Len(s \o t) = Len(s) + Len(t)
         /\ \A m \in 1..(Len(s) + Len(t)) : (s \o t)[m] = IF m <= Len(s) THEN s[m] ELSE t[m - Len(s)]
  OBVIOUS

LEMMA FlattenAlong ==
  ASSUME NEW A, NEW B, NEW n \in Nat, NEW ss, NEW tt, AlikeIn(A, B, n, ss, tt)
  PROVE  FlatAlike(n, ss, tt)
<1>a. /\ ss \in [1..(n + 1) -> Seq(A)] /\ tt \in [1..(n + 1) -> Seq(B)]
      /\ \A k \in 1..(n + 1) : Len(tt[k]) = Len(ss[k])
  BY DEF AlikeIn
<1>1. PICK f : Flattening(f, A, n, ss)
  BY <1>a, FlattenSteps
<1>2. PICK g : Flattening(g, B, n, tt)
  BY <1>a, FlattenSteps
<1>3. /\ f \in [Nat -> Seq(A)] /\ f[0] = ss[1] /\ FlattenSeq(ss) = f[n]
      /\ \A i \in 2..(n + 1) : f[i - 1] = f[i - 2] \o ss[i]
  BY <1>1 DEF Flattening
<1>4. /\ g \in [Nat -> Seq(B)] /\ g[0] = tt[1] /\ FlattenSeq(tt) = g[n]
      /\ \A i \in 2..(n + 1) : g[i - 1] = g[i - 2] \o tt[i]
  BY <1>2 DEF Flattening
<1> DEFINE Both(a, b) == \E k \in 1..(n + 1) : \E i \in 1..Len(ss[k]) : a = ss[k][i] /\ b = tt[k][i]
           Q(j) == Len(g[j]) = Len(f[j]) /\ \A m \in 1..Len(f[j]) : Both(f[j][m], g[j][m])
<1>5. ASSUME NEW k \in 1..(n + 1), NEW i \in 1..Len(ss[k]) PROVE Both(ss[k][i], tt[k][i])
  OBVIOUS
<1> HIDE DEF Both
<1>6. Q(0)
  <2>1. 1 \in 1..(n + 1)
    OBVIOUS
  <2> QED
    BY <1>a, <1>3, <1>4, <1>5, <2>1
<1>7. ASSUME NEW j \in Nat, j < n, Q(j) PROVE Q(j + 1)
  <2> DEFINE k == j + 2
  <2>1. k \in 2..(n + 1) /\ k \in 1..(n + 1) /\ k - 1 = j + 1 /\ k - 2 = j
    BY <1>7
  <2> DEFINE a == f[j]
             b == g[j]
             c == ss[k]
             d == tt[k]
  <2>2. f[j + 1] = a \o c /\ g[j + 1] = b \o d
    BY <1>3, <1>4, <2>1
  <2>3. a \in Seq(A) /\ b \in Seq(B) /\ c \in Seq(A) /\ d \in Seq(B) /\ Len(b) = Len(a) /\ Len(d) = Len(c)
    BY <1>a, <1>3, <1>4, <1>7, <2>1
  <2>4. \A m \in 1..Len(a) : Both(a[m], b[m])
    BY <1>7
  <2>5. \A i \in 1..Len(c) : Both(c[i], d[i])
    BY <1>5, <2>1
  <2> HIDE DEF a, b, c, d, k
  <2>8. /\ Len(a) \in Nat /\ Len(c) \in Nat
        /\ Len(a \o c) = Len(a) + Len(c)
        /\ \A m \in 1..(Len(a) + Len(c)) : (a \o c)[m] = IF m <= Len(a) THEN a[m] ELSE c[m - Len(a)]
    BY <2>3, ConcatAt
  <2>9. /\ Len(b \o d) = Len(b) + Len(d)
        /\ \A m \in 1..(Len(b) + Len(d)) : (b \o d)[m] = IF m <= Len(b) THEN b[m] ELSE d[m - Len(b)]
    BY <2>3, ConcatAt
  <2>6. /\ Len(a \o c) = Len(a) + Len(c) /\ Len(b \o d) = Len(a) + Len(c)
        /\ Len(a) \in Nat /\ Len(c) \in Nat
        /\ \A m \in 1..(Len(a) + Len(c)) : (a \o c)[m] = IF m <= Len(a) THEN a[m] ELSE c[m - Len(a)]
        /\ \A m \in 1..(Len(a) + Len(c)) : (b \o d)[m] = IF m <= Len(a) THEN b[m] ELSE d[m - Len(a)]
    BY <2>3, <2>8, <2>9
  <2>7. ASSUME NEW m \in 1..(Len(a) + Len(c)) PROVE Both((a \o c)[m], (b \o d)[m])
    <3>1. CASE m <= Len(a)
      <4>1. m \in 1..Len(a)
        BY <2>6, <3>1
      <4>2. (a \o c)[m] = a[m] /\ (b \o d)[m] = b[m]
        BY <2>6, <3>1
      <4> QED
        BY <2>4, <4>1, <4>2
    <3>2. CASE ~(m <= Len(a))
      <4>1. m - Len(a) \in 1..Len(c)
        BY <2>6, <3>2
      <4>2. (a \o c)[m] = c[m - Len(a)] /\ (b \o d)[m] = d[m - Len(a)]
        BY <2>6, <3>2
      <4> QED
        BY <2>5, <4>1, <4>2
    <3> QED
      BY <3>1, <3>2
  <2> QED
    BY <2>2, <2>6, <2>7
<1> HIDE DEF Q
<1> DEFINE U == {j \in Nat : j <= n => Q(j)}
<1>8. 0 \in U
  BY <1>6
<1>9. ASSUME NEW j \in U, j < n PROVE j + 1 \in U
  BY <1>7, <1>9
<1>10. U \in SUBSET Nat
  OBVIOUS
<1> HIDE DEF U
<1>11. n \in U
  BY <1>8, <1>9, <1>10, UpTo
<1>12. Q(n)
  BY <1>11 DEF U
<1> QED
  BY <1>3, <1>4, <1>12 DEF Q, Both, FlatAlike

\* An empty sequence at the end adds nothing.
EmptyLast(A, n, ss, tt) ==
  /\ ss \in [1..(n + 1) -> Seq(A)] /\ tt \in [1..(n + 2) -> Seq(A)]
  /\ \A k \in 1..(n + 1) : tt[k] = ss[k]
  /\ tt[n + 2] = <<>>

LEMMA FlattenEmptyLast ==
  ASSUME NEW A, NEW n \in Nat, NEW ss, NEW tt, EmptyLast(A, n, ss, tt)
  PROVE  FlattenSeq(tt) = FlattenSeq(ss)
<1>a. /\ ss \in [1..(n + 1) -> Seq(A)] /\ tt \in [1..(n + 2) -> Seq(A)]
      /\ \A k \in 1..(n + 1) : tt[k] = ss[k]
      /\ tt[n + 2] = <<>>
  BY DEF EmptyLast
<1>1. PICK f : Flattening(f, A, n, ss)
  BY <1>a, FlattenSteps
<1>2. n + 1 \in Nat /\ (n + 1) + 1 = n + 2
  OBVIOUS
<1>3. PICK g : Flattening(g, A, n + 1, tt)
  BY <1>a, <1>2, FlattenSteps
<1>4. /\ f \in [Nat -> Seq(A)] /\ f[0] = ss[1] /\ FlattenSeq(ss) = f[n]
      /\ \A i \in 2..(n + 1) : f[i - 1] = f[i - 2] \o ss[i]
  BY <1>1 DEF Flattening
<1>5. /\ g \in [Nat -> Seq(A)] /\ g[0] = tt[1] /\ FlattenSeq(tt) = g[n + 1]
      /\ \A i \in 2..(n + 2) : g[i - 1] = g[i - 2] \o tt[i]
  BY <1>2, <1>3 DEF Flattening
<1> DEFINE U == {j \in Nat : j <= n => g[j] = f[j]}
<1>6. 0 \in U
  BY <1>a, <1>4, <1>5
<1>7. ASSUME NEW j \in U, j < n PROVE j + 1 \in U
  <2> DEFINE k == j + 2
  <2>1. k \in 2..(n + 1) /\ k \in 2..(n + 2) /\ k \in 1..(n + 1) /\ k - 1 = j + 1 /\ k - 2 = j /\ g[j] = f[j]
    BY <1>7
  <2> HIDE DEF k
  <2>2. g[j + 1] = g[j] \o tt[k] /\ f[j + 1] = f[j] \o ss[k] /\ tt[k] = ss[k]
    BY <1>a, <1>4, <1>5, <2>1
  <2>3. g[j + 1] = f[j + 1] /\ j + 1 \in Nat
    BY <2>1, <2>2
  <2> QED
    BY <2>3
<1>8. U \in SUBSET Nat
  OBVIOUS
<1> HIDE DEF U
<1>9. n \in U
  BY <1>6, <1>7, <1>8, UpTo
<1>10. g[n] = f[n] /\ f[n] \in Seq(A)
  BY <1>4, <1>9 DEF U
<1>11. g[n + 1] = g[n] \o <<>>
  <2> DEFINE k == n + 2
  <2>1. k \in 2..(n + 2) /\ k - 1 = n + 1 /\ k - 2 = n /\ tt[k] = <<>>
    BY <1>a
  <2> HIDE DEF k
  <2> QED
    BY <1>5, <2>1
<1> QED
  BY <1>4, <1>5, <1>10, <1>11

\* A sequence that has each of its members once is as long as they are many.
LEMMA InjectiveLength ==
  ASSUME NEW A, NEW s \in Seq(A), IsInjective(s)
  PROVE  IsFiniteSet(ToSet(s)) /\ Cardinality(ToSet(s)) = Len(s)
<1>1. s \in Bijection(1..Len(s), ToSet(s))
  BY DEF IsInjective, ToSet, Bijection, Injection, Surjection
<1> QED
  BY <1>1, FS_NatBijection, FS_CountingElements DEF ExistsBijection
=============================================================================
