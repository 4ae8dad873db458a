----------------------------- MODULE GCHeapProofs -----------------------------
(***************************************************************************)
(* Proofs about GCHeap, for any number of contexts, any arenas and any     *)
(* limits, of callers that lock strings alone and one at a time            *)
(* (Disciplined).                                                          *)
(*                                                                         *)
(* As long as memory has not run out half-way the two pools are in step,   *)
(* so that a walk through both pairs the i-th unit of the k-th arena of    *)
(* one with the same of the other; from there on the proofs are about the  *)
(* set of pairs.                                                           *)
(*                                                                         *)
(* At the end, proofs about JavaWrappers, for any two heaps.               *)
(***************************************************************************)
EXTENDS GCHeap, JavaWrappers, SequenceLemmas, FiniteSetTheorems, TLAPS

Disciplined == Ops \cap {"LockObjects", "LockRace"} = {}

Apart(p) == \A j, k \in DOMAIN p : p[j].arena = p[k].arena => j = k

InStep(p, q) ==
  /\ q # <<>>
  /\ Len(q) \in {Len(p), Len(p) - 1}
  /\ \A k \in DOMAIN p : p[k].used = IF k \in DOMAIN q THEN q[k].used ELSE 0
  /\ Apart(p) /\ Apart(q)

NoMarks == \A f \in Addresses : ~byte[f].mark

Dying == {final[n].thing : n \in DOMAIN final}
Safe == InUse \ Dying

FreeInv ==
  /\ IsInjective(freelist)
  /\ ToSet(freelist) \subseteq ToSet(Pairs) \ Used
  /\ Collecting = {} => ToSet(freelist) = ToSet(Pairs) \ Used

FinalInv ==
  /\ IsInjective(final)
  /\ ToSet(final) \subseteq Used
  /\ final # <<>> => \E c \in Contexts : pc[c] = "finalize"
  /\ gcBytes = Cardinality(InUse) - Len(final)

\* Nothing refers to what is free or dying.
ReachInv ==
  /\ Atom \in roots
  /\ Roots \subseteq Safe
  /\ \A t \in Safe : slot[t] \in Safe \cup {Nothing}
  /\ \A t \in Addresses \ Objects : slot[t] = Nothing

\* The count of a thing is its locks, and one more while it is being unlocked.
Pending(t) == IF \E c \in Contexts : pc[c] = "unlock" /\ rmw[c].thing = t THEN 1 ELSE 0
LockInv ==
  /\ \A t \in Addresses : held[t] > 0 => t \in Safe \ Objects
  /\ \A c \in Contexts : rmw[c] # Nothing =>
       rmw[c].thing \in Safe \ Objects /\ rmw[c].was = byte[FlagsOf(rmw[c].thing)]
  /\ \A c, d \in Contexts : rmw[c] # Nothing /\ rmw[d] # Nothing => c = d
  /\ \A x \in Used : \/ byte[x.flagp].locks = LockMask /\ x.thing \notin Objects
                     \/ byte[x.flagp].locks = held[x.thing] + Pending(x.thing)

Control == \A c, d \in Contexts : c \in Collecting /\ d # c => pc[d] \in {"run", "wait"}

HeapInv == InStep(things, flags) /\ NoMarks /\ FreeInv /\ FinalInv /\ ReachInv /\ LockInv

\* The inductive invariant.
IInv == TypeOK /\ Control /\ (~broken => HeapInv)
-----------------------------------------------------------------------------
(***************************************************************************)
(* A pool, and the walk through two pools in step.                         *)
(***************************************************************************)
Arena == [arena : 1..MaxArenas, used : 0..Per]
Pair == [thing : Addresses, flagp : Addresses]
Rows(p) == [k \in DOMAIN p |-> [i \in 1..p[k].used |-> <<p[k].arena, i - 1>>]]
Walk(p, q) ==
  LET ts == InOrder(p) fs == InOrder(q) IN
  [n \in DOMAIN ts \cap DOMAIN fs |-> [thing |-> ts[n], flagp |-> fs[n]]]

LEMMA RowsType ==
  ASSUME NEW p \in Seq(Arena), NEW k \in DOMAIN p
  PROVE  /\ Rows(p)[k] \in Seq(Addresses)
         /\ Len(Rows(p)[k]) = p[k].used
         /\ \A i \in 1..p[k].used : Rows(p)[k][i] = <<p[k].arena, i - 1>>
         /\ p[k].used \in 0..Per
<1>1. p[k] \in Arena
  OBVIOUS
<1>2. p[k].used \in 0..Per /\ p[k].arena \in 1..MaxArenas
  BY <1>1 DEF Arena
<1> DEFINE r == [i \in 1..p[k].used |-> <<p[k].arena, i - 1>>]
<1>3. \A i \in 1..p[k].used : <<p[k].arena, i - 1>> \in Addresses
  BY <1>2, GCHeapAssumption DEF GCHeapAssumption, Addresses
<1>4. r \in Seq(Addresses) /\ Len(r) = p[k].used
  BY <1>2, <1>3
<1>5. Rows(p)[k] = r
  BY DEF Rows
<1> QED
  BY <1>2, <1>4, <1>5

LEMMA InOrderElements ==
  ASSUME NEW p \in Seq(Arena), p # <<>>
  PROVE  /\ InOrder(p) \in Seq(Addresses)
         /\ \A a : a \in ToSet(InOrder(p)) <=>
                     \E k \in DOMAIN p : \E i \in 1..p[k].used : a = <<p[k].arena, i - 1>>
         /\ Apart(p) => IsInjective(InOrder(p))
<1> PICK n \in Nat : n + 1 = Len(p)
  <2>1. Len(p) \in Nat /\ Len(p) # 0
    OBVIOUS
  <2>2. Len(p) - 1 \in Nat /\ (Len(p) - 1) + 1 = Len(p)
    BY <2>1
  <2> QED
    BY <2>2
<1>1. DOMAIN p = 1..(n + 1)
  OBVIOUS
<1> DEFINE ss == Rows(p)
<1>2. ss \in [1..(n + 1) -> Seq(Addresses)]
  <2>1. ss = [k \in 1..(n + 1) |-> ss[k]]
    BY <1>1 DEF Rows
  <2> QED
    BY <1>1, <2>1, RowsType
<1>3. InOrder(p) = FlattenSeq(ss)
  BY DEF InOrder, Rows
<1>4. \A k \in DOMAIN p : DOMAIN ss[k] = 1..p[k].used /\ \A i \in 1..p[k].used : ss[k][i] = <<p[k].arena, i - 1>>
  BY DEF Rows
<1> HIDE DEF ss
<1>5. \A k \in DOMAIN p : ToSet(ss[k]) = {<<p[k].arena, i - 1>> : i \in 1..p[k].used}
  BY <1>4 DEF ToSet
<1>6. /\ InOrder(p) \in Seq(Addresses)
      /\ ToSet(InOrder(p)) = UNION {ToSet(ss[k]) : k \in DOMAIN ss}
      /\ (\A k \in DOMAIN ss : IsInjective(ss[k])) /\ Disjoint(ss) => IsInjective(InOrder(p))
  BY <1>2, <1>3, FlattenElements
<1>7. DOMAIN ss = DOMAIN p
  BY <1>1, <1>2
<1>8. \A k \in DOMAIN ss : IsInjective(ss[k])
  <2> SUFFICES ASSUME NEW k \in DOMAIN ss, NEW i \in 1..p[k].used, NEW j \in 1..p[k].used,
                      ss[k][i] = ss[k][j]
               PROVE  i = j
    BY <1>4, <1>7 DEF IsInjective
  <2>1. i - 1 = j - 1
    BY <1>4, <1>7
  <2> QED
    BY <2>1
<1>9. Apart(p) => Disjoint(ss)
  BY <1>5, <1>7 DEF Apart, Disjoint
<1> QED
  BY <1>5, <1>6, <1>7, <1>8, <1>9

\* An arena of which nothing is in use adds nothing.
LEMMA InOrderEmptyLast ==
  ASSUME NEW p \in Seq(Arena), NEW r \in Seq(Arena), p # <<>>, Len(r) = Len(p) + 1,
         \A k \in DOMAIN p : r[k] = p[k], r[Len(r)].used = 0
  PROVE  InOrder(r) = InOrder(p)
<1> PICK n \in Nat : n + 1 = Len(p)
  <2>1. Len(p) \in Nat /\ Len(p) # 0
    OBVIOUS
  <2>2. Len(p) - 1 \in Nat /\ (Len(p) - 1) + 1 = Len(p)
    BY <2>1
  <2> QED
    BY <2>2
<1>1. DOMAIN p = 1..(n + 1) /\ DOMAIN r = 1..(n + 2) /\ Len(r) = n + 2
  OBVIOUS
<1>2. InOrder(p) = FlattenSeq(Rows(p)) /\ InOrder(r) = FlattenSeq(Rows(r))
  BY DEF InOrder, Rows
<1>3. Rows(p) \in [1..(n + 1) -> Seq(Addresses)]
  <2>1. Rows(p) = [k \in 1..(n + 1) |-> Rows(p)[k]]
    BY <1>1 DEF Rows
  <2> QED
    BY <1>1, <2>1, RowsType
<1>4. Rows(r) \in [1..(n + 2) -> Seq(Addresses)]
  <2>1. Rows(r) = [k \in 1..(n + 2) |-> Rows(r)[k]]
    BY <1>1 DEF Rows
  <2> QED
    BY <1>1, <2>1, RowsType
<1>5. \A k \in 1..(n + 1) : Rows(r)[k] = Rows(p)[k]
  <2> SUFFICES ASSUME NEW k \in 1..(n + 1) PROVE Rows(r)[k] = Rows(p)[k]
    OBVIOUS
  <2>1. k \in DOMAIN p /\ k \in DOMAIN r /\ r[k] = p[k]
    BY <1>1
  <2> QED
    BY <2>1 DEF Rows
<1>6. Rows(r)[n + 2] = <<>>
  <2>1. n + 2 \in DOMAIN r /\ r[n + 2].used = 0
    BY <1>1
  <2>2. Rows(r)[n + 2] \in Seq(Addresses) /\ Len(Rows(r)[n + 2]) = 0
    BY <2>1, RowsType
  <2> QED
    BY <2>2
<1>7. EmptyLast(Addresses, n, Rows(p), Rows(r))
  BY <1>3, <1>4, <1>5, <1>6 DEF EmptyLast
<1> QED
  BY <1>2, <1>7, FlattenEmptyLast

\* The i-th unit of the k-th arena of each pool.
PairAt(p, q, k, i) == [thing |-> <<p[k].arena, i - 1>>, flagp |-> <<q[k].arena, i - 1>>]

PairOf(p, q, x) == \E k \in DOMAIN q : \E i \in 1..q[k].used : x = PairAt(p, q, k, i)

LEMMA WalkElements ==
  ASSUME NEW p \in Seq(Arena), NEW q \in Seq(Arena), InStep(p, q)
  PROVE  /\ Walk(p, q) \in Seq(Pair)
         /\ DOMAIN Walk(p, q) = DOMAIN InOrder(p)
         /\ DOMAIN Walk(p, q) = DOMAIN InOrder(q)
         /\ \A m \in DOMAIN Walk(p, q) : \E k \in DOMAIN q : \E i \in 1..q[k].used :
              Walk(p, q)[m] = PairAt(p, q, k, i)
<1>1. PICK n \in Nat : n + 1 = Len(q)
  <2>1. Len(q) \in Nat /\ Len(q) # 0
    BY DEF InStep
  <2>2. Len(q) - 1 \in Nat /\ (Len(q) - 1) + 1 = Len(q)
    BY <2>1
  <2> QED
    BY <2>2
<1>2. PICK r \in Seq(Arena) : /\ Len(r) = n + 1 /\ InOrder(r) = InOrder(p)
                              /\ \A k \in 1..(n + 1) : r[k] = p[k] /\ k \in DOMAIN p /\ k \in DOMAIN q
                                                       /\ r[k].used = q[k].used
  <2>1. CASE Len(p) = n + 1
    BY <1>1, <2>1 DEF InStep
  <2>2. CASE Len(p) # n + 1
    <3>1. Len(p) = n + 2
      BY <1>1, <2>2 DEF InStep
    <3> DEFINE r == SubSeq(p, 1, n + 1)
    <3>2. r \in Seq(Arena) /\ Len(r) = n + 1 /\ \A k \in 1..(n + 1) : r[k] = p[k]
      BY <3>1
    <3> HIDE DEF r
    <3>3. r # <<>> /\ Len(p) = Len(r) + 1 /\ \A k \in DOMAIN r : p[k] = r[k]
      BY <3>1, <3>2
    <3>4. n + 2 \in DOMAIN p /\ n + 2 \notin DOMAIN q
      BY <1>1, <3>1
    <3>5. p[Len(p)].used = 0
      BY <3>1, <3>4 DEF InStep
    <3>6. InOrder(p) = InOrder(r)
      BY <3>2, <3>3, <3>5, InOrderEmptyLast
    <3>7. \A k \in 1..(n + 1) : k \in DOMAIN p /\ k \in DOMAIN q /\ p[k].used = q[k].used
      BY <1>1, <3>1 DEF InStep
    <3> QED
      BY <3>2, <3>6, <3>7
  <2> QED
    BY <2>1, <2>2
<1>3. DOMAIN q = 1..(n + 1) /\ DOMAIN r = 1..(n + 1)
  BY <1>1, <1>2
<1>4. Rows(r) \in [1..(n + 1) -> Seq(Addresses)]
  <2>1. Rows(r) = [k \in 1..(n + 1) |-> Rows(r)[k]]
    BY <1>3 DEF Rows
  <2> QED
    BY <1>3, <2>1, RowsType
<1>5. Rows(q) \in [1..(n + 1) -> Seq(Addresses)]
  <2>1. Rows(q) = [k \in 1..(n + 1) |-> Rows(q)[k]]
    BY <1>3 DEF Rows
  <2> QED
    BY <1>3, <2>1, RowsType
<1>6. \A k \in 1..(n + 1) : Len(Rows(r)[k]) = q[k].used /\ Len(Rows(q)[k]) = q[k].used
  BY <1>2, <1>3, RowsType
<1>7. \A k \in 1..(n + 1) : Len(Rows(q)[k]) = Len(Rows(r)[k])
  BY <1>6
<1>8. /\ FlattenSeq(Rows(r)) = InOrder(p) /\ FlattenSeq(Rows(q)) = InOrder(q)
      /\ FlattenSeq(Rows(r)) \in Seq(Addresses) /\ FlattenSeq(Rows(q)) \in Seq(Addresses)
  <2>1. FlattenSeq(Rows(r)) = InOrder(r) /\ FlattenSeq(Rows(q)) = InOrder(q)
    BY DEF InOrder, Rows
  <2>2. r # <<>> /\ q # <<>>
    BY <1>1, <1>2
  <2> QED
    BY <1>2, <2>1, <2>2, InOrderElements
<1>20. AlikeIn(Addresses, Addresses, n, Rows(r), Rows(q))
  BY <1>4, <1>5, <1>7 DEF AlikeIn
<1> DEFINE ss == Rows(r)
           tt == Rows(q)
<1>9. ss \in [1..(n + 1) -> Seq(Addresses)] /\ tt \in [1..(n + 1) -> Seq(Addresses)]
  BY <1>4, <1>5
<1>10. \A k \in 1..(n + 1) : Len(tt[k]) = Len(ss[k])
  BY <1>7
<1>19. FlatAlike(n, Rows(r), Rows(q))
  BY <1>20, FlattenAlong
<1>11. /\ Len(FlattenSeq(tt)) = Len(FlattenSeq(ss))
       /\ \A m \in 1..Len(FlattenSeq(ss)) : \E k \in 1..(n + 1) : \E i \in 1..Len(ss[k]) :
              FlattenSeq(ss)[m] = ss[k][i] /\ FlattenSeq(tt)[m] = tt[k][i]
  BY <1>19 DEF ss, tt, FlatAlike
<1> HIDE DEF ss, tt
<1> DEFINE ts == InOrder(p)
           fs == InOrder(q)
<1>12. /\ ts \in Seq(Addresses) /\ fs \in Seq(Addresses) /\ Len(ts) = Len(fs)
       /\ \A m \in 1..Len(ts) : \E k \in 1..(n + 1) : \E i \in 1..Len(ss[k]) :
              ts[m] = ss[k][i] /\ fs[m] = tt[k][i]
  BY <1>8, <1>11 DEF ss, tt
<1>13. Walk(p, q) = [m \in DOMAIN ts \cap DOMAIN fs |-> [thing |-> ts[m], flagp |-> fs[m]]]
  BY DEF Walk
<1> HIDE DEF ts, fs
<1>14. DOMAIN ts = 1..Len(ts) /\ DOMAIN fs = 1..Len(ts) /\ Len(ts) \in Nat
  BY <1>12
<1>15. Walk(p, q) = [m \in 1..Len(ts) |-> [thing |-> ts[m], flagp |-> fs[m]]]
  BY <1>13, <1>14
<1>16. \A m \in 1..Len(ts) : ts[m] \in Addresses /\ fs[m] \in Addresses
  BY <1>12
<1>17. Walk(p, q) \in Seq(Pair) /\ DOMAIN Walk(p, q) = 1..Len(ts)
  BY <1>14, <1>15, <1>16 DEF Pair
<1>18. ASSUME NEW m \in 1..Len(ts)
       PROVE  \E k \in DOMAIN q : \E i \in 1..q[k].used : Walk(p, q)[m] = PairAt(p, q, k, i)
  <2>1. PICK k \in 1..(n + 1) : \E i \in 1..Len(ss[k]) : ts[m] = ss[k][i] /\ fs[m] = tt[k][i]
    BY <1>12
  <2>2. PICK i \in 1..Len(ss[k]) : ts[m] = ss[k][i] /\ fs[m] = tt[k][i]
    BY <2>1
  <2>3. i \in 1..q[k].used
    BY <1>6 DEF ss
  <2>4. k \in DOMAIN q /\ k \in DOMAIN r /\ r[k] = p[k] /\ r[k].used = q[k].used
    BY <1>2, <1>3
  <2>5. ss[k][i] = <<p[k].arena, i - 1>>
    BY <2>3, <2>4, RowsType DEF ss
  <2>6. tt[k][i] = <<q[k].arena, i - 1>>
    BY <2>3, <2>4, RowsType DEF tt
  <2>7. Walk(p, q)[m] = [thing |-> ts[m], flagp |-> fs[m]]
    BY <1>15
  <2>8. Walk(p, q)[m] = PairAt(p, q, k, i)
    BY <2>2, <2>5, <2>6, <2>7 DEF PairAt
  <2> QED
    BY <2>3, <2>4, <2>8
<1> QED
  BY <1>14, <1>17, <1>18 DEF ts, fs

OneToOne(P) == \A x, y \in P : x.thing = y.thing \/ x.flagp = y.flagp => x = y

LEMMA WalkPairs ==
  ASSUME NEW p \in Seq(Arena), NEW q \in Seq(Arena), InStep(p, q)
  PROVE  /\ ToSet(Walk(p, q)) \subseteq Pair
         /\ \A x : x \in ToSet(Walk(p, q)) <=> PairOf(p, q, x)
         /\ {x.thing : x \in ToSet(Walk(p, q))} = ToSet(InOrder(p))
         /\ {x.flagp : x \in ToSet(Walk(p, q))} = ToSet(InOrder(q))
         /\ OneToOne(ToSet(Walk(p, q)))
         /\ IsInjective(Walk(p, q))
<1> DEFINE w == Walk(p, q)
           ts == InOrder(p)
           fs == InOrder(q)
<1>1. /\ w \in Seq(Pair)
      /\ DOMAIN w = DOMAIN ts
      /\ DOMAIN w = DOMAIN fs
      /\ \A m \in DOMAIN w : \E k \in DOMAIN q : \E i \in 1..q[k].used : w[m] = PairAt(p, q, k, i)
  BY WalkElements
<1>2. \A m \in DOMAIN w : w[m].thing = ts[m] /\ w[m].flagp = fs[m]
  BY DEF Walk
<1>3. /\ q # <<>> /\ p # <<>> /\ Apart(p) /\ Apart(q)
      /\ \A k \in DOMAIN q : k \in DOMAIN p /\ p[k].used = q[k].used
  <2>1. q # <<>> /\ Len(q) \in Nat /\ Len(p) \in Nat /\ Len(q) \in {Len(p), Len(p) - 1}
    BY DEF InStep
  <2>2. DOMAIN p = 1..Len(p) /\ DOMAIN q = 1..Len(q)
    OBVIOUS
  <2>3. Len(q) # 0
    BY <2>1
  <2> DEFINE m == Len(q)
             n == Len(p)
  <2>6. m \in Nat /\ n \in Nat /\ (m = n \/ m = n - 1) /\ m # 0
    BY <2>1, <2>3
  <2>7. DOMAIN p = 1..n /\ DOMAIN q = 1..m
    BY <2>2
  <2> HIDE DEF m, n
  <2>8. n # 0 /\ \A k \in 1..m : k \in 1..n
    BY <2>6
  <2>4. p # <<>> /\ \A k \in DOMAIN q : k \in DOMAIN p
    BY <2>7, <2>8 DEF n
  <2>5. \A k \in DOMAIN p : p[k].used = IF k \in DOMAIN q THEN q[k].used ELSE 0
    BY DEF InStep
  <2>9. \A k \in DOMAIN q : k \in DOMAIN p /\ p[k].used = q[k].used
    BY <2>4, <2>5
  <2> QED
    BY <2>1, <2>4, <2>9 DEF InStep
<1>4. /\ \A a : a \in ToSet(ts) <=> \E k \in DOMAIN p : \E i \in 1..p[k].used : a = <<p[k].arena, i - 1>>
      /\ IsInjective(ts)
  BY <1>3, InOrderElements
<1>5. /\ \A a : a \in ToSet(fs) <=> \E k \in DOMAIN q : \E i \in 1..q[k].used : a = <<q[k].arena, i - 1>>
      /\ IsInjective(fs)
  BY <1>3, InOrderElements
<1> HIDE DEF w, ts, fs
<1>6. ToSet(w) \subseteq Pair
  BY <1>1 DEF ToSet
<1>7. {x.thing : x \in ToSet(w)} = ToSet(ts)
  <2>1. ASSUME NEW m \in DOMAIN ts PROVE \E x \in ToSet(w) : x.thing = ts[m]
    <3>1. w[m] \in ToSet(w) /\ w[m].thing = ts[m]
      BY <1>1, <1>2 DEF ToSet
    <3> QED
      BY <3>1
  <2>2. ASSUME NEW x \in ToSet(w) PROVE x.thing \in ToSet(ts)
    BY <1>1, <1>2 DEF ToSet
  <2>3. ASSUME NEW a \in ToSet(ts) PROVE \E x \in ToSet(w) : x.thing = a
    <3>1. PICK m \in DOMAIN ts : a = ts[m]
      BY DEF ToSet
    <3> QED
      BY <2>1, <3>1
  <2> QED
    BY <2>2, <2>3
<1>8. {x.flagp : x \in ToSet(w)} = ToSet(fs)
  <2>1. ASSUME NEW m \in DOMAIN fs PROVE \E x \in ToSet(w) : x.flagp = fs[m]
    <3>1. w[m] \in ToSet(w) /\ w[m].flagp = fs[m]
      BY <1>1, <1>2 DEF ToSet
    <3> QED
      BY <3>1
  <2>2. ASSUME NEW x \in ToSet(w) PROVE x.flagp \in ToSet(fs)
    BY <1>1, <1>2 DEF ToSet
  <2>3. ASSUME NEW a \in ToSet(fs) PROVE \E x \in ToSet(w) : x.flagp = a
    <3>1. PICK m \in DOMAIN fs : a = fs[m]
      BY DEF ToSet
    <3> QED
      BY <2>1, <3>1
  <2> QED
    BY <2>2, <2>3
<1>9. ASSUME NEW m \in DOMAIN w, NEW n \in DOMAIN w, w[m].thing = w[n].thing \/ w[m].flagp = w[n].flagp
      PROVE  m = n
  <2>1. ts[m] = ts[n] \/ fs[m] = fs[n]
    BY <1>2, <1>9
  <2> QED
    BY <1>1, <1>4, <1>5, <2>1 DEF IsInjective
<1>10. OneToOne(ToSet(w))
  <2> SUFFICES ASSUME NEW x \in ToSet(w), NEW y \in ToSet(w), x.thing = y.thing \/ x.flagp = y.flagp
               PROVE  x = y
    BY DEF OneToOne
  <2>1. PICK m \in DOMAIN w : x = w[m]
    BY DEF ToSet
  <2>2. PICK n \in DOMAIN w : y = w[n]
    BY DEF ToSet
  <2> QED
    BY <1>9, <2>1, <2>2
<1>11. IsInjective(w)
  <2> SUFFICES ASSUME NEW m \in DOMAIN w, NEW n \in DOMAIN w, w[m] = w[n] PROVE m = n
    BY DEF IsInjective
  <2> QED
    BY <1>9
<1>12. ASSUME NEW x \in ToSet(w)
       PROVE  \E k \in DOMAIN q : \E i \in 1..q[k].used : x = PairAt(p, q, k, i)
  BY <1>1 DEF ToSet
<1>13. ASSUME NEW k \in DOMAIN q, NEW i \in 1..q[k].used
       PROVE  PairAt(p, q, k, i) \in ToSet(w)
  <2> DEFINE a == <<p[k].arena, i - 1>>
  <2>1. a \in ToSet(ts)
    BY <1>3, <1>4
  <2>2. PICK x \in ToSet(w) : x.thing = a
    BY <1>7, <2>1
  <2>3. PICK j \in DOMAIN q : \E h \in 1..q[j].used : x = PairAt(p, q, j, h)
    BY <1>12
  <2>4. PICK h \in 1..q[j].used : x = PairAt(p, q, j, h)
    BY <2>3
  <2>5. <<p[j].arena, h - 1>> = <<p[k].arena, i - 1>>
    BY <2>2, <2>4 DEF PairAt
  <2>6. p[j].arena = p[k].arena /\ h - 1 = i - 1
    BY <2>5
  <2>7. j = k
    BY <1>3, <2>6 DEF Apart
  <2>8. h = i
    BY <2>6
  <2> QED
    BY <2>4, <2>7, <2>8
<1>14. \A x : x \in ToSet(w) <=> PairOf(p, q, x)
  BY <1>12, <1>13 DEF PairOf
<1> QED
  BY <1>6, <1>7, <1>8, <1>10, <1>11, <1>14 DEF w, ts, fs
-----------------------------------------------------------------------------
(***************************************************************************)
(* Room in a pool.                                                         *)
(***************************************************************************)
LEMMA RoomFirst ==
  ASSUME NEW p \in Seq(Arena)
  PROVE  /\ Room(p) \in 0..Len(p)
         /\ Room(p) # 0 => Room(p) \in DOMAIN p /\ p[Room(p)].used < Per
         /\ \A j \in DOMAIN p : Room(p) = 0 \/ j < Room(p) => p[j].used = Per
<1> DEFINE I == {i \in 1..Len(p) : p[i].used < Per}
<1>1. \A j \in DOMAIN p : p[j].used \in 0..Per
  <2> SUFFICES ASSUME NEW j \in DOMAIN p PROVE p[j].used \in 0..Per
    OBVIOUS
  <2>1. p[j] \in Arena
    OBVIOUS
  <2> QED
    BY <2>1 DEF Arena
<1>2. DOMAIN p = 1..Len(p) /\ Len(p) \in Nat /\ Per \in Nat /\ I \in SUBSET Nat
  BY GCHeapAssumption DEF GCHeapAssumption
<1>3. Room(p) = IF I # {} THEN Min(I) ELSE 0
  BY DEF Room, SelectInSeq
<1>4. \A j \in DOMAIN p : j \notin I => p[j].used = Per
  BY <1>1, <1>2
<1>5. \A j \in I : j \in DOMAIN p /\ p[j].used < Per /\ j \in 1..Len(p)
  BY <1>2
<1> HIDE DEF I
<1>6. CASE I = {}
  BY <1>2, <1>3, <1>4, <1>6
<1>7. CASE I # {}
  <2>1. \E k \in I : \A j \in I : k <= j
    BY <1>2, <1>7, LeastNumber
  <2>2. Min(I) \in I /\ \A j \in I : Min(I) <= j
    BY <2>1 DEF Min
  <2>3. Room(p) = Min(I)
    BY <1>3, <1>7
  <2> DEFINE k == Min(I)
  <2>4. k \in I /\ (\A j \in I : k <= j) /\ Room(p) = k
    BY <2>2, <2>3
  <2> HIDE DEF k
  <2>5. k \in 1..Len(p) /\ k \in DOMAIN p /\ p[k].used < Per
    BY <1>5, <2>4
  <2>6. \A j \in DOMAIN p : j < k => p[j].used = Per
    <3> SUFFICES ASSUME NEW j \in DOMAIN p, j < k PROVE p[j].used = Per
      OBVIOUS
    <3>1. j \in Nat /\ k \in Nat /\ ~(k <= j)
      BY <1>2, <2>5
    <3>2. j \notin I
      BY <2>4, <3>1
    <3> QED
      BY <1>4, <3>2
  <2>7. k # 0 /\ k \in 0..Len(p)
    BY <1>2, <2>5
  <2> QED
    BY <2>4, <2>5, <2>6, <2>7
<1> QED
  BY <1>6, <1>7

LEMMA RoomIs ==
  ASSUME NEW p \in Seq(Arena), NEW k \in DOMAIN p, p[k].used < Per,
         \A j \in DOMAIN p : j < k => p[j].used = Per
  PROVE  Room(p) = k
<1> DEFINE m == Room(p)
<1>1. /\ m \in 0..Len(p)
      /\ m # 0 => m \in DOMAIN p /\ p[m].used < Per
      /\ \A j \in DOMAIN p : m = 0 \/ j < m => p[j].used = Per
  BY RoomFirst
<1>2. k \in Nat /\ m \in Nat /\ p[k].used # Per
  <2>1. p[k] \in Arena /\ Per \in Nat
    BY GCHeapAssumption DEF GCHeapAssumption
  <2> QED
    BY <1>1, <2>1 DEF Arena
<1> HIDE DEF m
<1>3. m # 0 /\ ~(k < m)
  BY <1>1, <1>2
<1>4. m \in DOMAIN p /\ p[m].used # Per
  <2>1. m \in DOMAIN p /\ p[m].used < Per
    BY <1>1, <1>3
  <2>2. p[m] \in Arena /\ Per \in Nat
    BY <2>1, GCHeapAssumption DEF GCHeapAssumption
  <2> QED
    BY <2>1, <2>2 DEF Arena
<1>5. ~(m < k)
  BY <1>4
<1> QED
  BY <1>2, <1>3, <1>5 DEF m

LEMMA UnusedFirst ==
  ASSUME NEW p \in Seq(Arena), Unused(p) # {}
  PROVE  (CHOOSE a \in Unused(p) : \A b \in Unused(p) : a <= b) \in Unused(p)
<1>1. Unused(p) \in SUBSET Nat
  BY DEF Unused
<1>2. \E a \in Unused(p) : \A b \in Unused(p) : a <= b
  BY <1>1, LeastNumber
<1> QED
  BY <1>2

LEMMA WithArenaIs ==
  ASSUME NEW p \in Seq(Arena), p # <<>>, MayGet(p)
  PROVE  /\ WithArena(p) \in Seq(Arena)
         /\ Room(p) # 0 => WithArena(p) = p
         /\ Room(p) = 0 => /\ Len(WithArena(p)) = Len(p) + 1
                           /\ WithArena(p)[Len(p) + 1].used = 0
                           /\ \A k \in DOMAIN p : WithArena(p)[k] = p[k]
                           /\ Room(WithArena(p)) = Len(p) + 1
         /\ Apart(p) => Apart(WithArena(p))
         /\ InOrder(WithArena(p)) = InOrder(p)
<1>1. Room(p) \in Nat
  BY RoomFirst
<1>2. CASE Room(p) # 0
  BY <1>1, <1>2 DEF WithArena
<1>3. CASE Room(p) = 0
  <2> DEFINE a == CHOOSE a \in Unused(p) : \A b \in Unused(p) : a <= b
             x == [arena |-> a, used |-> 0]
             r == Append(p, x)
  <2>1. WithArena(p) = r
    BY <1>3 DEF WithArena
  <2>2. a \in Unused(p)
    BY <1>3, UnusedFirst DEF MayGet
  <2> HIDE DEF a
  <2>3. a \in 1..MaxArenas /\ \A k \in DOMAIN p : p[k].arena # a
    BY <2>2 DEF Unused
  <2>4. x \in Arena /\ x.used = 0 /\ x.arena = a
    BY <2>3, GCHeapAssumption DEF Arena, GCHeapAssumption
  <2> HIDE DEF x
  <2>5. /\ r \in Seq(Arena) /\ Len(r) = Len(p) + 1 /\ Len(p) \in Nat
        /\ DOMAIN r = 1..(Len(p) + 1) /\ DOMAIN p = 1..Len(p)
        /\ r[Len(p) + 1] = x /\ \A k \in 1..Len(p) : r[k] = p[k]
    BY <2>4
  <2> HIDE DEF r
  <2>6. Apart(p) => Apart(r)
    <3> SUFFICES ASSUME Apart(p), NEW j \in DOMAIN r, NEW k \in DOMAIN r, r[j].arena = r[k].arena
                 PROVE  j = k
      BY DEF Apart
    <3>1. CASE j \in DOMAIN p /\ k \in DOMAIN p
      BY <2>5, <3>1 DEF Apart
    <3>2. CASE j \in DOMAIN p /\ k \notin DOMAIN p
      <4>1. k = Len(p) + 1
        BY <2>5, <3>2
      <4> QED
        BY <2>3, <2>4, <2>5, <3>2, <4>1
    <3>3. CASE j \notin DOMAIN p /\ k \in DOMAIN p
      <4>1. j = Len(p) + 1
        BY <2>5, <3>3
      <4> QED
        BY <2>3, <2>4, <2>5, <3>3, <4>1
    <3>4. CASE j \notin DOMAIN p /\ k \notin DOMAIN p
      BY <2>5, <3>4
    <3> QED
      BY <3>1, <3>2, <3>3, <3>4
  <2>7. Room(r) = Len(p) + 1
    <3>1. Per \in Nat /\ Per # 0
      BY GCHeapAssumption DEF GCHeapAssumption
    <3>2. Len(p) + 1 \in DOMAIN r /\ r[Len(p) + 1].used < Per
      BY <2>4, <2>5, <3>1
    <3>3. \A j \in DOMAIN p : p[j].used = Per
      BY <1>3, RoomFirst
    <3>4. \A j \in DOMAIN r : j < Len(p) + 1 => r[j].used = Per
      BY <2>5, <3>3
    <3> QED
      BY <2>5, <3>2, <3>4, RoomIs
  <2>8. InOrder(r) = InOrder(p)
    BY <2>4, <2>5, InOrderEmptyLast
  <2> QED
    BY <1>3, <2>1, <2>4, <2>5, <2>6, <2>7, <2>8
<1> QED
  BY <1>2, <1>3

LEMMA InStepLengths ==
  ASSUME NEW p \in Seq(Arena), NEW q \in Seq(Arena)
  PROVE  InStep(p, q) <=>
           /\ Len(q) # 0 /\ (Len(p) = Len(q) \/ Len(p) = Len(q) + 1)
           /\ \A k \in 1..Len(q) : p[k].used = q[k].used
           /\ Len(p) = Len(q) + 1 => p[Len(q) + 1].used = 0
           /\ Apart(p) /\ Apart(q)
<1> DEFINE m == Len(q)
           n == Len(p)
<1>1. m \in Nat /\ n \in Nat /\ DOMAIN p = 1..n /\ DOMAIN q = 1..m /\ (q # <<>> <=> m # 0)
  OBVIOUS
<1>3. InStep(p, q) <=> /\ m # 0 /\ m \in {n, n - 1}
                       /\ \A k \in 1..n : p[k].used = IF k \in 1..m THEN q[k].used ELSE 0
                       /\ Apart(p) /\ Apart(q)
  <2>1. InStep(p, q) <=> /\ q # <<>> /\ m \in {n, n - 1}
                         /\ \A k \in DOMAIN p : p[k].used = IF k \in DOMAIN q THEN q[k].used ELSE 0
                         /\ Apart(p) /\ Apart(q)
    BY DEF InStep
  <2> HIDE DEF m, n
  <2>2. (\A k \in DOMAIN p : p[k].used = IF k \in DOMAIN q THEN q[k].used ELSE 0) <=>
          \A k \in 1..n : p[k].used = IF k \in 1..m THEN q[k].used ELSE 0
    BY <1>1
  <2> QED
    BY <1>1, <2>1, <2>2
<1> HIDE DEF m, n
<1>2. m \in {n, n - 1} <=> n = m \/ n = m + 1
  BY <1>1
<1>4. ASSUME n = m
      PROVE  (\A k \in 1..n : p[k].used = IF k \in 1..m THEN q[k].used ELSE 0) <=>
               \A k \in 1..m : p[k].used = q[k].used
  BY <1>1, <1>4
<1>5. ASSUME n = m + 1
      PROVE  (\A k \in 1..n : p[k].used = IF k \in 1..m THEN q[k].used ELSE 0) <=>
               (\A k \in 1..m : p[k].used = q[k].used) /\ p[m + 1].used = 0
  <2>1. \A k : k \in 1..n <=> k \in 1..m \/ k = m + 1
    BY <1>1, <1>5
  <2>2. m + 1 \notin 1..m
    BY <1>1
  <2> QED
    BY <2>1, <2>2
<1>6. m # m + 1
  BY <1>1
<1> QED
  BY <1>2, <1>3, <1>4, <1>5, <1>6 DEF m, n

\* Getting an arena for a thing and one for its flags.
LEMMA StepRoom ==
  ASSUME NEW p \in Seq(Arena), NEW q \in Seq(Arena), InStep(p, q), MayGet(p), MayGet(q)
  PROVE  /\ WithArena(p) \in Seq(Arena) /\ WithArena(q) \in Seq(Arena)
         /\ InStep(WithArena(p), WithArena(q))
         /\ Walk(WithArena(p), WithArena(q)) = Walk(p, q)
         /\ Room(WithArena(p)) = Room(WithArena(q))
         /\ Room(WithArena(q)) \in DOMAIN WithArena(q)
         /\ Room(WithArena(q)) \in DOMAIN WithArena(p)
         /\ WithArena(q)[Room(WithArena(q))].used < Per
<1> DEFINE r == WithArena(p)
           s == WithArena(q)
           m == Len(q)
           n == Len(p)
<1>1. /\ m # 0 /\ (n = m \/ n = m + 1)
      /\ \A k \in 1..m : p[k].used = q[k].used
      /\ n = m + 1 => p[m + 1].used = 0
      /\ Apart(p) /\ Apart(q)
  BY InStepLengths
<1>2. m \in Nat /\ n \in Nat /\ DOMAIN p = 1..n /\ DOMAIN q = 1..m /\ Per \in Nat /\ Per # 0
  BY GCHeapAssumption DEF GCHeapAssumption
<1>3. p # <<>> /\ q # <<>>
  <2> HIDE DEF m, n
  <2>1. n # 0
    BY <1>1, <1>2
  <2> QED
    BY <1>1, <2>1 DEF m, n
<1>4. /\ r \in Seq(Arena)
      /\ Room(p) # 0 => r = p
      /\ Room(p) = 0 => /\ Len(r) = n + 1 /\ r[n + 1].used = 0
                        /\ \A k \in DOMAIN p : r[k] = p[k]
                        /\ Room(r) = n + 1
      /\ Apart(r)
      /\ InOrder(r) = InOrder(p)
  BY <1>1, <1>3, WithArenaIs
<1>5. /\ s \in Seq(Arena)
      /\ Room(q) # 0 => s = q
      /\ Room(q) = 0 => /\ Len(s) = m + 1 /\ s[m + 1].used = 0
                        /\ \A k \in DOMAIN q : s[k] = q[k]
                        /\ Room(s) = m + 1
      /\ Apart(s)
      /\ InOrder(s) = InOrder(q)
  BY <1>1, <1>3, WithArenaIs
<1>6. Walk(r, s) = Walk(p, q)
  BY <1>4, <1>5 DEF Walk
<1>7. /\ Room(q) \in 0..m
      /\ Room(q) # 0 => Room(q) \in DOMAIN q /\ q[Room(q)].used < Per
      /\ \A j \in DOMAIN q : Room(q) = 0 \/ j < Room(q) => q[j].used = Per
  BY RoomFirst
<1>8. /\ Room(p) \in 0..n
      /\ Room(p) # 0 => Room(p) \in DOMAIN p /\ p[Room(p)].used < Per
  BY RoomFirst
<1> HIDE DEF r, s, m, n
<1>9. InStep(r, s) /\ Room(r) = Room(s) /\ Room(s) \in DOMAIN s /\ Room(s) \in DOMAIN r /\ s[Room(s)].used < Per
  <2>1. CASE Room(q) # 0
    <3> PICK k \in Nat : k = Room(q)
      BY <1>2, <1>7
    <3>1. k \in 1..m /\ k \in 1..n /\ q[k].used < Per /\ p[k].used < Per /\ s = q
      BY <1>1, <1>2, <1>5, <1>7, <2>1
    <3>2. \A j \in DOMAIN p : j < k => p[j].used = Per
      BY <1>1, <1>2, <1>7, <3>1
    <3>3. Room(p) = k
      BY <1>2, <3>1, <3>2, RoomIs
    <3>4. r = p
      BY <1>4, <2>1, <3>3
    <3> QED
      BY <1>2, <3>1, <3>3, <3>4
  <2>2. CASE Room(q) = 0
    <3>1. \A j \in 1..m : q[j].used = Per /\ p[j].used = Per
      BY <1>1, <1>2, <1>7, <2>2
    <3>2. Len(s) = m + 1 /\ s[m + 1].used = 0 /\ Room(s) = m + 1 /\ \A k \in 1..m : s[k] = q[k]
      BY <1>2, <1>5, <2>2
    <3>3. Len(r) = m + 1 /\ r[m + 1].used = 0 /\ Room(r) = m + 1 /\ \A k \in 1..m : r[k] = p[k]
      <4>1. CASE n = m
        <5>1. Room(p) = 0
          BY <1>2, <1>8, <3>1, <4>1
        <5> QED
          BY <1>2, <1>4, <4>1, <5>1
      <4>2. CASE n = m + 1
        <5>1. m + 1 \in DOMAIN p /\ p[m + 1].used < Per /\ \A j \in DOMAIN p : j < m + 1 => p[j].used = Per
          BY <1>1, <1>2, <3>1, <4>2
        <5>2. Room(p) = m + 1
          BY <5>1, RoomIs
        <5>3. r = p
          BY <1>2, <1>4, <5>2
        <5> QED
          BY <1>1, <4>2, <5>2, <5>3 DEF n
      <4> QED
        BY <1>1, <4>1, <4>2
    <3>4. \A k \in 1..(m + 1) : r[k].used = s[k].used
      <4>1. \A k \in 1..(m + 1) : k \in 1..m \/ k = m + 1
        BY <1>2
      <4> QED
        BY <1>1, <3>2, <3>3, <4>1
    <3>5. InStep(r, s)
      <4>1. Len(s) # 0 /\ Len(r) = Len(s) /\ Len(r) # Len(s) + 1
        BY <1>2, <3>2, <3>3
      <4>2. \A k \in 1..Len(s) : r[k].used = s[k].used
        BY <3>2, <3>4
      <4> QED
        BY <1>4, <1>5, <4>1, <4>2, InStepLengths
    <3>6. m + 1 \in DOMAIN s /\ m + 1 \in DOMAIN r
      BY <1>2, <1>4, <1>5, <3>2, <3>3
    <3> QED
      BY <1>2, <3>2, <3>3, <3>5, <3>6
  <2> QED
    BY <2>1, <2>2
<1> QED
  BY <1>4, <1>5, <1>6, <1>9 DEF r, s

\* Getting one for a thing when there is none for its flags.
LEMMA StepThings ==
  ASSUME NEW p \in Seq(Arena), NEW q \in Seq(Arena), InStep(p, q), MayGet(p), Room(q) = 0
  PROVE  /\ WithArena(p) \in Seq(Arena)
         /\ InStep(WithArena(p), q)
         /\ Walk(WithArena(p), q) = Walk(p, q)
<1> DEFINE r == WithArena(p)
           m == Len(q)
           n == Len(p)
<1>1. /\ m # 0 /\ (n = m \/ n = m + 1)
      /\ \A k \in 1..m : p[k].used = q[k].used
      /\ n = m + 1 => p[m + 1].used = 0
      /\ Apart(p) /\ Apart(q)
  BY InStepLengths
<1>2. m \in Nat /\ n \in Nat /\ DOMAIN p = 1..n /\ DOMAIN q = 1..m /\ Per \in Nat /\ Per # 0
  BY GCHeapAssumption DEF GCHeapAssumption
<1>3. p # <<>>
  <2> HIDE DEF m, n
  <2>1. n # 0
    BY <1>1, <1>2
  <2> QED
    BY <2>1 DEF n
<1>4. /\ r \in Seq(Arena)
      /\ Room(p) # 0 => r = p
      /\ Room(p) = 0 => /\ Len(r) = n + 1 /\ r[n + 1].used = 0
                        /\ \A k \in DOMAIN p : r[k] = p[k]
      /\ Apart(r)
      /\ InOrder(r) = InOrder(p)
  BY <1>1, <1>3, WithArenaIs
<1>5. Walk(r, q) = Walk(p, q)
  BY <1>4 DEF Walk
<1>6. Room(p) = 0 => \A j \in DOMAIN p : p[j].used = Per
  BY RoomFirst
<1> HIDE DEF r, m, n
<1>7. CASE Room(p) # 0
  BY <1>4, <1>5, <1>7 DEF r
<1>8. CASE Room(p) = 0
  <2>1. n = m
    <3> SUFFICES ASSUME n = m + 1 PROVE FALSE
      BY <1>1
    <3>1. m + 1 \in DOMAIN p
      BY <1>2
    <3> QED
      BY <1>1, <1>2, <1>6, <1>8, <3>1
  <2>2. Len(r) = m + 1 /\ r[m + 1].used = 0 /\ \A k \in 1..m : r[k].used = q[k].used
    BY <1>1, <1>2, <1>4, <1>8, <2>1
  <2>3. InStep(r, q)
    BY <1>1, <1>4, <2>2, InStepLengths DEF m
  <2> QED
    BY <1>4, <1>5, <2>3 DEF r
<1> QED
  BY <1>7, <1>8

\* Taking the next unit of the k-th arena of each.
Taking(p, q, k, r, s, x) ==
  /\ InStep(p, q)
  /\ k \in DOMAIN p /\ k \in DOMAIN q /\ q[k].used < Per
  /\ r = [p EXCEPT ![k].used = @ + 1] /\ s = [q EXCEPT ![k].used = @ + 1]
  /\ x = [thing |-> <<p[k].arena, p[k].used>>, flagp |-> <<q[k].arena, q[k].used>>]

LEMMA StepBump ==
  ASSUME NEW p \in Seq(Arena), NEW q \in Seq(Arena), NEW k, NEW r, NEW s, NEW x,
         Taking(p, q, k, r, s, x)
  PROVE  /\ r \in Seq(Arena) /\ s \in Seq(Arena) /\ InStep(r, s)
         /\ x \in Pair
         /\ \A y \in ToSet(Walk(p, q)) : y.thing # x.thing /\ y.flagp # x.flagp
         /\ ToSet(Walk(r, s)) = ToSet(Walk(p, q)) \cup {x}
<1> USE DEF Taking
<1> DEFINE m == Len(q)
           n == Len(p)
<1>1. /\ m # 0 /\ (n = m \/ n = m + 1)
      /\ \A j \in 1..m : p[j].used = q[j].used
      /\ n = m + 1 => p[m + 1].used = 0
      /\ Apart(p) /\ Apart(q)
  BY InStepLengths
<1>2. m \in Nat /\ n \in Nat /\ DOMAIN p = 1..n /\ DOMAIN q = 1..m /\ Per \in Nat
  BY GCHeapAssumption DEF GCHeapAssumption
<1>3. /\ \A j \in DOMAIN p : p[j].arena \in 1..MaxArenas /\ p[j].used \in 0..Per /\ p[j] \in Arena
      /\ \A j \in DOMAIN q : q[j].arena \in 1..MaxArenas /\ q[j].used \in 0..Per /\ q[j] \in Arena
  <2>1. (\A j \in DOMAIN p : p[j] \in Arena) /\ (\A j \in DOMAIN q : q[j] \in Arena)
    OBVIOUS
  <2> QED
    BY <2>1 DEF Arena
<1>4. p[k].used = q[k].used
  BY <1>1, <1>2
<1>18. p[k] \in Arena /\ p[k].used + 1 \in 0..Per /\ q[k] \in Arena /\ q[k].used + 1 \in 0..Per
  <2>1. p[k].used \in 0..Per /\ q[k].used \in 0..Per /\ p[k].used < Per /\ q[k].used < Per
    BY <1>3, <1>4
  <2> QED
    BY <1>2, <1>3, <2>1
<1> HIDE DEF m, n
<1>5. /\ r \in Seq(Arena) /\ Len(r) = n
      /\ \A j \in 1..n : r[j].arena = p[j].arena /\ r[j].used = IF j = k THEN p[j].used + 1 ELSE p[j].used
  <2>1. [p[k] EXCEPT !.used = @ + 1] \in Arena
    BY <1>18 DEF Arena
  <2>2. \A j \in DOMAIN p : r[j] = IF j = k THEN [p[k] EXCEPT !.used = @ + 1] ELSE p[j]
    OBVIOUS
  <2>3. r \in Seq(Arena) /\ Len(r) = Len(p)
    BY <2>1
  <2>4. [p[k] EXCEPT !.used = @ + 1].arena = p[k].arena /\ [p[k] EXCEPT !.used = @ + 1].used = p[k].used + 1
    BY <1>3 DEF Arena
  <2> QED
    BY <1>2, <2>2, <2>3, <2>4 DEF m, n
<1>6. /\ s \in Seq(Arena) /\ Len(s) = m
      /\ \A j \in 1..m : s[j].arena = q[j].arena /\ s[j].used = IF j = k THEN q[j].used + 1 ELSE q[j].used
  <2>1. [q[k] EXCEPT !.used = @ + 1] \in Arena
    BY <1>18 DEF Arena
  <2>2. \A j \in DOMAIN q : s[j] = IF j = k THEN [q[k] EXCEPT !.used = @ + 1] ELSE q[j]
    OBVIOUS
  <2>3. s \in Seq(Arena) /\ Len(s) = Len(q)
    BY <2>1
  <2>4. [q[k] EXCEPT !.used = @ + 1].arena = q[k].arena /\ [q[k] EXCEPT !.used = @ + 1].used = q[k].used + 1
    BY <1>3 DEF Arena
  <2> QED
    BY <1>2, <2>2, <2>3, <2>4 DEF m, n
<1>7. x \in Pair /\ x.thing = <<p[k].arena, p[k].used>> /\ x.flagp = <<q[k].arena, q[k].used>>
  <2>1. p[k].used \in 0..(Per - 1) /\ q[k].used \in 0..(Per - 1)
    BY <1>2, <1>3, <1>4
  <2>2. <<p[k].arena, p[k].used>> \in Addresses /\ <<q[k].arena, q[k].used>> \in Addresses
    BY <1>3, <2>1 DEF Addresses
  <2> QED
    BY <2>2 DEF Pair
<1>8. /\ DOMAIN r = 1..n /\ DOMAIN s = 1..m
      /\ k \in 1..m /\ k \in 1..n
  BY <1>2, <1>5, <1>6
<1>9. InStep(r, s)
  <2>1. Apart(r) /\ Apart(s)
    BY <1>1, <1>2, <1>5, <1>6, <1>8 DEF Apart
  <2>2. \A j \in 1..m : r[j].used = s[j].used
    BY <1>1, <1>2, <1>5, <1>6
  <2>3. n = m + 1 => r[m + 1].used = 0
    BY <1>1, <1>2, <1>5, <1>8
  <2>4. /\ Len(s) # 0 /\ (Len(r) = Len(s) \/ Len(r) = Len(s) + 1)
        /\ \A j \in 1..Len(s) : r[j].used = s[j].used
        /\ Len(r) = Len(s) + 1 => r[Len(s) + 1].used = 0
    BY <1>1, <1>5, <1>6, <2>2, <2>3
  <2>5. r \in Seq(Arena) /\ s \in Seq(Arena)
    BY <1>5, <1>6
  <2> QED
    BY <2>1, <2>4, <2>5, InStepLengths
<1>10. \A j \in 1..m : \A i : PairAt(r, s, j, i) = PairAt(p, q, j, i)
  <2>1. \A j \in 1..m : j \in 1..n
    BY <1>1, <1>2
  <2> QED
    BY <1>5, <1>6, <2>1 DEF PairAt
<1>11. /\ \A y : y \in ToSet(Walk(p, q)) <=> PairOf(p, q, y)
       /\ OneToOne(ToSet(Walk(p, q)))
  BY WalkPairs
<1>12. \A y : y \in ToSet(Walk(r, s)) <=> PairOf(r, s, y)
  BY <1>5, <1>6, <1>9, WalkPairs
<1>13. x = PairAt(p, q, k, q[k].used + 1)
  <2>1. q[k].used = (q[k].used + 1) - 1
    BY <1>2, <1>3
  <2> QED
    BY <1>4, <2>1 DEF PairAt
<1>14. ASSUME NEW y \in ToSet(Walk(p, q)) PROVE y.thing # x.thing /\ y.flagp # x.flagp
  <2>1. PICK j \in DOMAIN q : \E i \in 1..q[j].used : y = PairAt(p, q, j, i)
    BY <1>11 DEF PairOf
  <2>2. PICK i \in 1..q[j].used : y = PairAt(p, q, j, i)
    BY <2>1
  <2>3. y.thing = <<p[j].arena, i - 1>> /\ y.flagp = <<q[j].arena, i - 1>>
    BY <2>2 DEF PairAt
  <2>4. j \in DOMAIN p
    BY <1>1, <1>2
  <2>5. j # k \/ i - 1 # q[k].used
    BY <1>2, <1>3
  <2> QED
    BY <1>1, <1>4, <1>7, <2>3, <2>4, <2>5 DEF Apart
<1>15. ASSUME NEW y, y \in ToSet(Walk(r, s)) PROVE y \in ToSet(Walk(p, q)) \cup {x}
  <2>1. PICK j \in DOMAIN s : \E i \in 1..s[j].used : y = PairAt(r, s, j, i)
    <3>1. PairOf(r, s, y)
      BY <1>12, <1>15
    <3> QED
      BY <3>1 DEF PairOf
  <2>2. PICK i \in 1..s[j].used : y = PairAt(r, s, j, i)
    BY <2>1
  <2>3. y = PairAt(p, q, j, i) /\ j \in DOMAIN q /\ j \in 1..m
    BY <1>2, <1>8, <1>10, <2>2
  <2>4. CASE i \in 1..q[j].used
    BY <1>11, <2>3, <2>4 DEF PairOf
  <2>5. CASE i \notin 1..q[j].used
    <3>1. j = k /\ i = q[k].used + 1
      BY <1>2, <1>3, <1>6, <2>3, <2>5
    <3> QED
      BY <1>13, <2>3, <3>1
  <2> QED
    BY <2>4, <2>5
<1>16. ASSUME NEW y \in ToSet(Walk(p, q)) PROVE y \in ToSet(Walk(r, s))
  <2>1. PICK j \in DOMAIN q : \E i \in 1..q[j].used : y = PairAt(p, q, j, i)
    BY <1>11 DEF PairOf
  <2>2. PICK i \in 1..q[j].used : y = PairAt(p, q, j, i)
    BY <2>1
  <2>4. j \in 1..m /\ q[j].used \in 0..Per
    BY <1>2, <1>3
  <2>5. i \in 1..s[j].used
    BY <1>6, <2>4
  <2>3. i \in 1..s[j].used /\ j \in DOMAIN s /\ y = PairAt(r, s, j, i)
    BY <1>8, <1>10, <2>2, <2>4, <2>5
  <2> QED
    BY <1>12, <2>3 DEF PairOf
<1>17. x \in ToSet(Walk(r, s))
  <2>1. q[k].used + 1 \in 1..s[k].used /\ k \in DOMAIN s
    BY <1>2, <1>3, <1>6, <1>8
  <2>2. x = PairAt(r, s, k, q[k].used + 1)
    BY <1>8, <1>10, <1>13
  <2> QED
    BY <1>12, <2>1, <2>2 DEF PairOf
<1> QED
  BY <1>5, <1>6, <1>7, <1>9, <1>14, <1>15, <1>16, <1>17

\* A thing and its flags from arenas.
LEMMA StepAlloc ==
  ASSUME NEW p \in Seq(Arena), NEW q \in Seq(Arena), InStep(p, q), MayGet(p), MayGet(q),
         NEW x, x = [thing |-> NextIn(p), flagp |-> NextIn(q)]
  PROVE  /\ Bumped(p) \in Seq(Arena) /\ Bumped(q) \in Seq(Arena) /\ InStep(Bumped(p), Bumped(q))
         /\ x \in Pair
         /\ \A y \in ToSet(Walk(p, q)) : y.thing # x.thing /\ y.flagp # x.flagp
         /\ ToSet(Walk(Bumped(p), Bumped(q))) = ToSet(Walk(p, q)) \cup {x}
<1> DEFINE r == WithArena(p)
           s == WithArena(q)
           k == Room(s)
<1>1. /\ r \in Seq(Arena) /\ s \in Seq(Arena) /\ InStep(r, s)
      /\ Walk(r, s) = Walk(p, q)
      /\ Room(r) = k /\ k \in DOMAIN s /\ k \in DOMAIN r /\ s[k].used < Per
  BY StepRoom
<1>2. /\ Bumped(p) = [r EXCEPT ![Room(r)].used = @ + 1] /\ Bumped(q) = [s EXCEPT ![k].used = @ + 1]
      /\ x = [thing |-> <<r[Room(r)].arena, r[Room(r)].used>>, flagp |-> <<s[k].arena, s[k].used>>]
  BY DEF Bumped, NextIn
<1> HIDE DEF r, s, k
<1>3. /\ Bumped(p) = [r EXCEPT ![k].used = @ + 1]
      /\ x = [thing |-> <<r[k].arena, r[k].used>>, flagp |-> <<s[k].arena, s[k].used>>]
  BY <1>1, <1>2
<1>5. Taking(r, s, k, Bumped(p), Bumped(q), x)
  BY <1>1, <1>2, <1>3 DEF Taking
<1>4. /\ Bumped(p) \in Seq(Arena) /\ Bumped(q) \in Seq(Arena) /\ InStep(Bumped(p), Bumped(q))
      /\ x \in Pair
      /\ \A y \in ToSet(Walk(r, s)) : y.thing # x.thing /\ y.flagp # x.flagp
      /\ ToSet(Walk(Bumped(p), Bumped(q))) = ToSet(Walk(r, s)) \cup {x}
  BY <1>1, <1>5, StepBump
<1> QED
  BY <1>1, <1>4

\* Destroying the arenas that have something in use and are not in S, of the
\* things, and in T, of the flags.
Alike(p, q, S, T) == \A x \in ToSet(Walk(p, q)) : x.thing[1] \in S <=> x.flagp[1] \in T

LEMMA ApartInjective ==
  ASSUME NEW p \in Seq(Arena), Apart(p), NEW K
  PROVE  /\ Only(p, K) \in Seq(Arena)
         /\ ToSet(Only(p, K)) = ToSet(p) \cap K
         /\ Apart(Only(p, K))
<1> DEFINE r == Only(p, K)
<1>1. IsInjective(p)
  BY DEF IsInjective, Apart
<1>2. r \in Seq(Arena) /\ ToSet(r) = ToSet(p) \cap K /\ IsInjective(r)
  BY <1>1, ChosenElements DEF Only, Chosen
<1> HIDE DEF r
<1>3. Apart(r)
  <2> SUFFICES ASSUME NEW j \in DOMAIN r, NEW k \in DOMAIN r, r[j].arena = r[k].arena PROVE j = k
    BY DEF Apart
  <2>1. r[j] \in ToSet(p) /\ r[k] \in ToSet(p)
    BY <1>2 DEF ToSet
  <2>2. PICK h \in DOMAIN p : r[j] = p[h]
    BY <2>1 DEF ToSet
  <2>3. PICK i \in DOMAIN p : r[k] = p[i]
    BY <2>1 DEF ToSet
  <2>4. h = i
    BY <2>2, <2>3 DEF Apart
  <2> QED
    BY <1>2, <2>2, <2>3, <2>4 DEF IsInjective
<1> QED
  BY <1>2, <1>3 DEF r

LEMMA StepKept ==
  ASSUME NEW p \in Seq(Arena), NEW q \in Seq(Arena), InStep(p, q), NEW S, NEW T, Alike(p, q, S, T),
         \E x \in ToSet(Walk(p, q)) : x.thing[1] \in S
  PROVE  /\ Kept(p, S) \in Seq(Arena) /\ Kept(q, T) \in Seq(Arena) /\ InStep(Kept(p, S), Kept(q, T))
         /\ \A x : x \in ToSet(Walk(Kept(p, S), Kept(q, T))) <=>
                     x \in ToSet(Walk(p, q)) /\ x.thing[1] \in S
<1> DEFINE m == Len(q)
           n == Len(p)
           K == {a \in ToSet(p) : a.used = 0 \/ a.arena \in S}
           L == {a \in ToSet(q) : a.used = 0 \/ a.arena \in T}
           r == Kept(p, S)
           s == Kept(q, T)
<1>1. /\ m # 0 /\ (n = m \/ n = m + 1)
      /\ \A j \in 1..m : p[j].used = q[j].used
      /\ n = m + 1 => p[m + 1].used = 0
      /\ Apart(p) /\ Apart(q)
  BY InStepLengths
<1>2. m \in Nat /\ n \in Nat /\ DOMAIN p = 1..n /\ DOMAIN q = 1..m
  OBVIOUS
<1>3. /\ \A a : a \in K <=> a \in ToSet(p) /\ (a.used = 0 \/ a.arena \in S)
      /\ \A a : a \in L <=> a \in ToSet(q) /\ (a.used = 0 \/ a.arena \in T)
  OBVIOUS
<1>4. r = Only(p, K) /\ s = Only(q, L)
  BY DEF Kept
<1> HIDE DEF m, n, K, L, r, s
<1>5. /\ r \in Seq(Arena) /\ ToSet(r) = ToSet(p) \cap K /\ Apart(r)
      /\ s \in Seq(Arena) /\ ToSet(s) = ToSet(q) \cap L /\ Apart(s)
  BY <1>1, <1>4, ApartInjective
<1>6. /\ \A y : y \in ToSet(Walk(p, q)) <=> PairOf(p, q, y)
      /\ OneToOne(ToSet(Walk(p, q)))
  BY WalkPairs
<1>7. \A k \in 1..m : k \in DOMAIN p /\ k \in DOMAIN q /\ p[k] \in ToSet(p) /\ q[k] \in ToSet(q)
  BY <1>1, <1>2 DEF ToSet
<1>8. \A k \in 1..m : p[k].used \in Nat /\ q[k].used \in Nat
  <2> SUFFICES ASSUME NEW k \in 1..m PROVE p[k].used \in Nat /\ q[k].used \in Nat
    OBVIOUS
  <2>1. p[k] \in Arena /\ q[k] \in Arena
    BY <1>7
  <2> QED
    BY <2>1 DEF Arena
<1>9. ASSUME NEW k \in 1..m, q[k].used # 0 PROVE p[k].arena \in S <=> q[k].arena \in T
  <2>1. 1 \in 1..q[k].used
    BY <1>8, <1>9
  <2>2. PairAt(p, q, k, 1) \in ToSet(Walk(p, q))
    BY <1>6, <1>7, <2>1 DEF PairOf
  <2>3. PairAt(p, q, k, 1).thing[1] = p[k].arena /\ PairAt(p, q, k, 1).flagp[1] = q[k].arena
    BY DEF PairAt
  <2> QED
    BY <2>2, <2>3 DEF Alike
<1>10. \A k \in 1..m : p[k] \in K <=> q[k] \in L
  BY <1>1, <1>3, <1>7, <1>9
<1>11. /\ Len(s) # 0 => TRUE
       /\ Len(r) = Len(s) \/ (Len(r) = Len(s) + 1 /\ r[Len(s) + 1].used = 0)
       /\ \A j \in 1..Len(s) : \E k \in 1..m : r[j] = p[k] /\ s[j] = q[k]
  <2> DEFINE t == SubSeq(p, 1, m)
  <2>1. t \in Seq(Arena) /\ Len(t) = m /\ \A k \in 1..m : t[k] = p[k]
    BY <1>1, <1>2 DEF n
  <2>2. n = m => p = t
    BY <1>2, <2>1
  <2>3. n = m + 1 => p = Append(t, p[m + 1])
    BY <1>2, <2>1
  <2> HIDE DEF t
  <2>4. ChoiceAlike(Arena, Arena, t, q, K, L)
    BY <1>10, <2>1 DEF ChoiceAlike, m
  <2>5. ChosenAlike(t, q, K, L)
    BY <2>4, ChosenAlong
  <2>6. s = Chosen(q, L) /\ r = Chosen(p, K)
    BY <1>4 DEF Only, Chosen
  <2> DEFINE u == Chosen(t, K)
  <2>7. /\ Len(s) = Len(u)
        /\ \A j \in 1..Len(u) : \E k \in 1..m : u[j] = t[k] /\ s[j] = q[k]
    BY <2>1, <2>5, <2>6 DEF ChosenAlike
  <2>8. u \in Seq(Arena)
    BY <2>1, ChosenElements
  <2>9. CASE n = m
    BY <2>1, <2>2, <2>6, <2>7, <2>9
  <2>10. CASE n = m + 1
    <3>1. m + 1 \in DOMAIN p /\ p[m + 1] \in Arena /\ p[m + 1] \in ToSet(p)
      <4>1. m + 1 \in DOMAIN p
        BY <1>2, <2>10
      <4> QED
        BY <4>1 DEF ToSet
    <3>2. p[m + 1] \in K
      BY <1>1, <1>3, <2>10, <3>1
    <3> DEFINE x == p[m + 1]
    <3>3. p = Append(t, x) /\ x \in Arena /\ x \in K /\ x.used = 0
      BY <1>1, <2>3, <2>10, <3>1, <3>2
    <3> HIDE DEF x
    <3>7. Chosen(Append(t, x), K) = Append(u, x)
      BY <2>1, <3>3, ChosenAppend
    <3>4. r = Append(u, x) /\ x \in Arena /\ x.used = 0
      BY <2>6, <3>3, <3>7
    <3> HIDE DEF x, u
    <3>5. Len(r) = Len(u) + 1 /\ r[Len(u) + 1] = x /\ \A j \in 1..Len(u) : r[j] = u[j]
      BY <2>8, <3>4
    <3>6. \A j \in 1..Len(u) : \E k \in 1..m : r[j] = p[k] /\ s[j] = q[k]
      BY <2>1, <2>7, <3>5
    <3> QED
      BY <2>7, <3>4, <3>5, <3>6
  <2> QED
    BY <1>1, <2>9, <2>10
<1>12. DOMAIN r = 1..Len(r) /\ DOMAIN s = 1..Len(s) /\ Len(r) \in Nat /\ Len(s) \in Nat
  BY <1>5
<1>20. /\ \A j \in 1..Len(r) : r[j].used # 0 => j \in 1..Len(s)
       /\ \A j \in 1..Len(s) : j \in 1..Len(r)
  <2> DEFINE a == Len(r)
             b == Len(s)
  <2>1. a \in Nat /\ b \in Nat /\ (a = b \/ (a = b + 1 /\ r[b + 1].used = 0))
    BY <1>11, <1>12
  <2> HIDE DEF a, b
  <2>2. (\A j \in 1..a : r[j].used # 0 => j \in 1..b) /\ (\A j \in 1..b : j \in 1..a)
    BY <2>1
  <2> QED
    BY <2>2 DEF a, b
<1>13. ASSUME NEW y, y \in ToSet(Walk(p, q)), y.thing[1] \in S
       PROVE  \E j \in DOMAIN s : \E i \in 1..s[j].used : y = PairAt(r, s, j, i)
  <2>1. PICK h \in DOMAIN q : \E i \in 1..q[h].used : y = PairAt(p, q, h, i)
    BY <1>6, <1>13 DEF PairOf
  <2>2. PICK i \in 1..q[h].used : y = PairAt(p, q, h, i)
    BY <2>1
  <2>3. h \in 1..m /\ h \in DOMAIN p /\ p[h] \in ToSet(p) /\ q[h].used \in Nat /\ p[h].used = q[h].used
    BY <1>1, <1>2, <1>7, <1>8
  <2>4. p[h].arena \in S /\ p[h].used # 0
    BY <1>13, <2>2, <2>3 DEF PairAt
  <2>5. p[h] \in ToSet(r)
    BY <1>3, <1>5, <2>3, <2>4
  <2>6. PICK j \in DOMAIN r : r[j] = p[h]
    BY <2>5 DEF ToSet
  <2>7. j \in 1..Len(s)
    <3>1. j \in 1..Len(r) /\ r[j].used # 0
      BY <1>12, <2>4, <2>6
    <3> QED
      BY <1>20, <3>1
  <2>8. PICK k \in 1..m : r[j] = p[k] /\ s[j] = q[k]
    BY <1>11, <2>7
  <2>9. k = h
    BY <1>1, <1>7, <2>3, <2>6, <2>8 DEF Apart
  <2>10. s[j] = q[h]
    BY <2>8, <2>9
  <2>11. y = PairAt(r, s, j, i) /\ i \in 1..s[j].used
    BY <2>2, <2>6, <2>10 DEF PairAt
  <2> QED
    BY <1>12, <2>7, <2>11
<1>14. ASSUME NEW j \in DOMAIN s, NEW i \in 1..s[j].used
       PROVE  PairAt(r, s, j, i) \in ToSet(Walk(p, q)) /\ PairAt(r, s, j, i).thing[1] \in S
  <2>1. PICK k \in 1..m : r[j] = p[k] /\ s[j] = q[k]
    BY <1>11, <1>12
  <2>2. PairAt(r, s, j, i) = PairAt(p, q, k, i) /\ i \in 1..q[k].used
    BY <2>1 DEF PairAt
  <2>3. PairAt(r, s, j, i) \in ToSet(Walk(p, q))
    BY <1>6, <1>7, <2>2 DEF PairOf
  <2>4. p[k].used # 0 /\ j \in DOMAIN r
    <3>1. q[k].used \in Nat /\ p[k].used = q[k].used
      BY <1>1, <1>8
    <3>3. j \in 1..Len(r)
      BY <1>12, <1>20
    <3> QED
      BY <1>12, <2>2, <3>1, <3>3
  <2>5. p[k] \in K
    BY <1>5, <2>1, <2>4 DEF ToSet
  <2>6. p[k].arena \in S
    BY <1>3, <2>4, <2>5
  <2> QED
    BY <2>2, <2>3, <2>6 DEF PairAt
<1>15. Len(s) # 0
  <2>1. PICK y \in ToSet(Walk(p, q)) : y.thing[1] \in S
    OBVIOUS
  <2>2. \E j \in DOMAIN s : TRUE
    BY <1>13, <2>1
  <2> QED
    BY <1>12, <2>2
<1>16. \A k \in 1..Len(s) : r[k].used = s[k].used
  BY <1>1, <1>11
<1>17. InStep(r, s)
  BY <1>5, <1>11, <1>15, <1>16, InStepLengths
<1>18. \A y : y \in ToSet(Walk(r, s)) <=> PairOf(r, s, y)
  BY <1>5, <1>17, WalkPairs
<1>19. \A y : y \in ToSet(Walk(r, s)) <=> y \in ToSet(Walk(p, q)) /\ y.thing[1] \in S
  BY <1>13, <1>14, <1>18 DEF PairOf
<1> QED
  BY <1>5, <1>17, <1>19 DEF r, s
-----------------------------------------------------------------------------
(***************************************************************************)
(* The heap as a set of pairs.                                             *)
(***************************************************************************)
PairsOK ==
  /\ Pairs \in Seq(Pair) /\ IsInjective(Pairs)
  /\ ToSet(Pairs) \subseteq Pair
  /\ OneToOne(ToSet(Pairs))
  /\ {x.thing : x \in ToSet(Pairs)} = ToSet(InOrder(things))
  /\ {x.flagp : x \in ToSet(Pairs)} = ToSet(InOrder(flags))
  /\ \A x \in ToSet(Pairs) : FlagsOf(x.thing) = x.flagp
  /\ \A t : FlagsOf(t) # Nothing => \E x \in ToSet(Pairs) : x.thing = t

LEMMA PairsWalk == Pairs = Walk(things, flags)
  BY DEF Pairs, Walk

LEMMA PairsFacts ==
  things \in Seq(Arena) /\ flags \in Seq(Arena) /\ InStep(things, flags) => PairsOK
<1> SUFFICES ASSUME things \in Seq(Arena), flags \in Seq(Arena), InStep(things, flags) PROVE PairsOK
  OBVIOUS
<1>1. /\ Walk(things, flags) \in Seq(Pair)
      /\ ToSet(Walk(things, flags)) \subseteq Pair
      /\ {x.thing : x \in ToSet(Walk(things, flags))} = ToSet(InOrder(things))
      /\ {x.flagp : x \in ToSet(Walk(things, flags))} = ToSet(InOrder(flags))
      /\ OneToOne(ToSet(Walk(things, flags)))
      /\ IsInjective(Walk(things, flags))
  BY WalkElements, WalkPairs
<1>2. /\ Pairs \in Seq(Pair)
      /\ ToSet(Pairs) \subseteq Pair
      /\ {x.thing : x \in ToSet(Pairs)} = ToSet(InOrder(things))
      /\ {x.flagp : x \in ToSet(Pairs)} = ToSet(InOrder(flags))
      /\ OneToOne(ToSet(Pairs))
      /\ IsInjective(Pairs)
  BY <1>1, PairsWalk
<1>3. ASSUME NEW x \in ToSet(Pairs) PROVE FlagsOf(x.thing) = x.flagp
  <2> DEFINE found == {y \in ToSet(Pairs) : y.thing = x.thing}
  <2>1. found = {x}
    BY <1>2 DEF OneToOne
  <2>2. FlagsOf(x.thing) = IF found = {} THEN Nothing ELSE (CHOOSE y \in found : TRUE).flagp
    BY DEF FlagsOf
  <2> HIDE DEF found
  <2>3. found # {} /\ (CHOOSE y \in found : TRUE) = x
    BY <2>1
  <2> QED
    BY <2>2, <2>3
<1>4. ASSUME NEW t, FlagsOf(t) # Nothing PROVE \E x \in ToSet(Pairs) : x.thing = t
  BY <1>4 DEF FlagsOf
<1> QED
  BY <1>2, <1>3, <1>4 DEF PairsOK

LEMMA AddressesFinite == IsFiniteSet(Addresses) /\ Cardinality(Addresses) = MaxArenas * Per
<1>1. MaxArenas \in Nat /\ Per \in Nat /\ Per # 0
  BY GCHeapAssumption DEF GCHeapAssumption
<1>2. IsFiniteSet(1..MaxArenas) /\ Cardinality(1..MaxArenas) = MaxArenas
  BY <1>1, FS_Interval
<1>3. IsFiniteSet(0..(Per - 1)) /\ Cardinality(0..(Per - 1)) = Per
  <2>1. IsFiniteSet(0..(Per - 1)) /\ Cardinality(0..(Per - 1)) = IF 0 > Per - 1 THEN 0 ELSE (Per - 1) - 0 + 1
    BY <1>1, FS_Interval
  <2> QED
    BY <1>1, <2>1
<1> DEFINE A == 1..MaxArenas
           B == 0..(Per - 1)
<1>4. /\ IsFiniteSet(A) /\ Cardinality(A) = MaxArenas
      /\ IsFiniteSet(B) /\ Cardinality(B) = Per
  BY <1>2, <1>3
<1>5. Addresses = A \X B
  BY DEF Addresses
<1> HIDE DEF A, B
<1>6. IsFiniteSet(A \X B) /\ Cardinality(A \X B) = Cardinality(A) * Cardinality(B)
  BY <1>4, FS_Product
<1> QED
  BY <1>4, <1>5, <1>6

\* Of a set of pairs that is one-to-one the things are as many as the pairs.
LEMMA AsMany ==
  ASSUME NEW P, P \subseteq Pair, OneToOne(P)
  PROVE  /\ IsFiniteSet(P) /\ IsFiniteSet({x.thing : x \in P})
         /\ Cardinality(P) = Cardinality({x.thing : x \in P})
         /\ Cardinality(P) \in 0..(MaxArenas * Per)
<1> DEFINE T == {x.thing : x \in P}
           g == [t \in T |-> CHOOSE x \in P : x.thing = t]
<1>1. T \subseteq Addresses
  BY DEF Pair
<1>2. IsFiniteSet(T) /\ Cardinality(T) \in Nat /\ Cardinality(T) <= MaxArenas * Per
  BY <1>1, AddressesFinite, FS_Subset, FS_CardinalityType
<1>3. \A t \in T : g[t] \in P /\ g[t].thing = t
  OBVIOUS
<1>4. \A x \in P : x.thing \in T /\ g[x.thing] = x
  BY <1>3 DEF OneToOne
<1>8. g \in [T -> P]
  BY <1>3
<1> HIDE DEF g
<1>5. ExistsBijection(T, P)
  <2>1. g \in Injection(T, P)
    BY <1>3, <1>8 DEF Injection, IsInjective
  <2>2. g \in Surjection(T, P)
    BY <1>4, <1>8 DEF Surjection
  <2> QED
    BY <2>1, <2>2 DEF Bijection, ExistsBijection
<1> HIDE DEF T
<1>6. IsFiniteSet(P) /\ Cardinality(P) = Cardinality(T)
  BY <1>2, <1>5, FS_Bijection
<1>7. MaxArenas * Per \in Nat
  BY GCHeapAssumption DEF GCHeapAssumption
<1> QED
  BY <1>2, <1>6, <1>7 DEF T
-----------------------------------------------------------------------------
(***************************************************************************)
(* Allocation: x is the pair that becomes used.                            *)
(***************************************************************************)
Storing(c, x) ==
  /\ Allocating(c) /\ Store(c, x.thing, x.flagp)
  /\ x \in Pair /\ x \notin Used
  /\ ToSet(Pairs') = ToSet(Pairs) \cup {x}
  /\ things' \in Seq(Arena) /\ flags' \in Seq(Arena) /\ InStep(things, flags)'
  /\ freelist' \in Seq(Pair) /\ IsInjective(freelist')
  /\ ToSet(freelist') \subseteq ToSet(freelist) \ {x}
  /\ Collecting = {} => ToSet(freelist') = ToSet(freelist) \ {x}
  /\ UNCHANGED <<gcPoke, again, roots, final, locks, broken>>

LEMMA StoreUsed ==
  ASSUME IInv, ~broken, NEW c \in Contexts, NEW x, Storing(c, x)
  PROVE  /\ PairsOK /\ PairsOK'
         /\ Used' = Used \cup {x} /\ InUse' = InUse \cup {x.thing}
         /\ Safe' = Safe \cup {x.thing} /\ x.thing \notin InUse
         /\ \A y \in ToSet(Pairs) : y # x => y.thing # x.thing /\ y.flagp # x.flagp
         /\ \A y \in ToSet(Pairs) : y # x => byte'[y.flagp] = byte[y.flagp]
         /\ byte'[x.flagp] = Fresh
<1>1. PairsOK
  BY PairsFacts DEF IInv, HeapInv, TypeOK, Arena
<1>2. PairsOK'
  <2>1. (things \in Seq(Arena))' /\ (flags \in Seq(Arena))' /\ InStep(things, flags)'
    BY DEF Storing
  <2>2. (things \in Seq(Arena) /\ flags \in Seq(Arena) /\ InStep(things, flags) => PairsOK)'
    BY PairsFacts, PTL
  <2> QED
    BY <2>1, <2>2
<1>3. /\ x \in Pair /\ x \notin Used /\ ToSet(Pairs') = ToSet(Pairs) \cup {x}
      /\ byte' = [byte EXCEPT ![x.flagp] = Fresh] /\ final' = final
      /\ byte \in [Addresses -> Bytes]
  BY DEF Storing, Store, IInv, TypeOK
<1>4. \A y \in ToSet(Pairs) : y # x => y.thing # x.thing /\ y.flagp # x.flagp
  BY <1>2, <1>3 DEF PairsOK, OneToOne
<1>5. x.flagp \in Addresses /\ \A y \in ToSet(Pairs) : y.flagp \in Addresses
  BY <1>1, <1>3 DEF PairsOK, Pair
<1>6. /\ \A y \in ToSet(Pairs) : y # x => byte'[y.flagp] = byte[y.flagp]
      /\ byte'[x.flagp] = Fresh
  BY <1>3, <1>4, <1>5
<1>7. ~Fresh.final
  BY DEF Fresh
<1>8. Used' = Used \cup {x}
  <2>1. Used' = {y \in ToSet(Pairs') : ~byte'[y.flagp].final}
    BY DEF Used
  <2> QED
    BY <1>3, <1>6, <1>7, <2>1 DEF Used
<1>9. InUse' = InUse \cup {x.thing}
  <2>1. InUse' = {y.thing : y \in Used'}
    BY DEF InUse
  <2> QED
    BY <1>8, <2>1 DEF InUse
<1>10. x.thing \notin InUse
  BY <1>3, <1>4 DEF InUse, Used
<1>11. Dying \subseteq InUse /\ Dying' = Dying
  <2>1. ToSet(final) \subseteq Used
    BY DEF IInv, HeapInv, FinalInv
  <2>2. \A n \in DOMAIN final : final[n] \in Used
    BY <2>1 DEF ToSet
  <2> QED
    BY <1>3, <2>2 DEF Dying, InUse
<1>12. Safe' = Safe \cup {x.thing}
  BY <1>9, <1>10, <1>11 DEF Safe
<1> QED
  BY <1>1, <1>2, <1>4, <1>6, <1>8, <1>9, <1>10, <1>12

\* What a step that neither locks nor unlocks has to keep of LockInv.
LocksStay ==
  /\ UNCHANGED locks
  /\ \A u \in Contexts : pc'[u] = "unlock" <=> pc[u] = "unlock"
  /\ \A t \in Safe \ Objects : held[t] > 0 \/ (\E u \in Contexts : rmw[u] # Nothing /\ rmw[u].thing = t) =>
       t \in Safe'
  /\ \A u \in Contexts : rmw[u] # Nothing =>
       byte'[FlagsOf(rmw[u].thing)'] = byte[FlagsOf(rmw[u].thing)]
  /\ \A x \in Used' : \/ x \in Used /\ byte'[x.flagp].locks = byte[x.flagp].locks
                      \/ x.thing \in Addresses \ InUse /\ byte'[x.flagp].locks = 0

LEMMA LocksKept ==
  ASSUME TypeOK, LockInv, LocksStay
  PROVE  LockInv'
<1>1. held' = held /\ rmw' = rmw
  BY DEF LocksStay, locks
<1>2. ASSUME NEW t PROVE Pending(t)' = Pending(t)
  BY <1>1 DEF Pending, LocksStay
<1>3. Safe \subseteq InUse
  BY DEF Safe
<1>4. ASSUME NEW t \in Addresses, t \notin InUse PROVE held[t] = 0 /\ Pending(t) = 0
  <2>1. ~(held[t] > 0)
    BY <1>3, <1>4 DEF LockInv
  <2>2. held[t] \in Nat
    BY DEF TypeOK
  <2>3. ASSUME NEW u \in Contexts, pc[u] = "unlock" PROVE rmw[u].thing # t
    <3>1. rmw[u] # Nothing
      BY <2>3 DEF TypeOK
    <3> QED
      BY <1>3, <1>4, <3>1 DEF LockInv
  <2> QED
    BY <2>1, <2>2, <2>3 DEF Pending
<1>5. \A t \in Addresses : held'[t] > 0 => t \in Safe' \ Objects
  BY <1>1 DEF LockInv, LocksStay
<1>6. \A u \in Contexts : rmw'[u] # Nothing =>
        rmw'[u].thing \in Safe' \ Objects /\ rmw'[u].was = byte'[FlagsOf(rmw[u].thing)']
  <2> SUFFICES ASSUME NEW u \in Contexts, rmw[u] # Nothing
               PROVE  rmw[u].thing \in Safe' \ Objects /\ rmw[u].was = byte'[FlagsOf(rmw[u].thing)']
    BY <1>1, Zenon
  <2>1. rmw[u].thing \in Safe \ Objects /\ rmw[u].was = byte[FlagsOf(rmw[u].thing)]
    BY DEF LockInv
  <2>2. rmw[u].thing \in Safe'
    BY <2>1 DEF LocksStay
  <2>3. byte'[FlagsOf(rmw[u].thing)'] = byte[FlagsOf(rmw[u].thing)]
    BY DEF LocksStay
  <2> QED
    BY <2>1, <2>2, <2>3
<1>7. \A x \in Used' : \/ byte'[x.flagp].locks = LockMask /\ x.thing \notin Objects
                       \/ byte'[x.flagp].locks = held'[x.thing] + Pending(x.thing)'
  <2> SUFFICES ASSUME NEW x \in Used'
               PROVE  \/ byte'[x.flagp].locks = LockMask /\ x.thing \notin Objects
                      \/ byte'[x.flagp].locks = held'[x.thing] + Pending(x.thing)'
    OBVIOUS
  <2>1. CASE x \in Used /\ byte'[x.flagp].locks = byte[x.flagp].locks
    <3>1. Pending(x.thing)' = Pending(x.thing)
      BY <1>2
    <3> QED
      BY <1>1, <2>1, <3>1 DEF LockInv
  <2>2. CASE x.thing \in Addresses \ InUse /\ byte'[x.flagp].locks = 0
    <3>1. held[x.thing] = 0 /\ Pending(x.thing) = 0
      BY <1>4, <2>2
    <3>2. Pending(x.thing)' = 0
      BY <1>2, <3>1
    <3> QED
      BY <1>1, <2>2, <3>1, <3>2
  <2> QED
    BY <2>1, <2>2 DEF LocksStay
<1> QED
  BY <1>1, <1>5, <1>6, <1>7 DEF LockInv

LEMMA CollectingSame ==
  ASSUME NEW c \in Contexts, pc \in [Contexts -> PCs], NEW v, pc' = [pc EXCEPT ![c] = v],
         pc[c] \in {"mark", "finalize"} <=> v \in {"mark", "finalize"}
  PROVE  Collecting' = Collecting
  BY DEF Collecting

LEMMA GcBytesType ==
  PairsOK /\ FinalInv /\ final \in Seq(Pair) => gcBytes \in 0..(MaxArenas * Per)
<1> SUFFICES ASSUME PairsOK, FinalInv, final \in Seq(Pair) PROVE gcBytes \in 0..(MaxArenas * Per)
  OBVIOUS
<1>1. IsInjective(final) /\ ToSet(final) \subseteq Used /\ gcBytes = Cardinality(InUse) - Len(final)
  BY DEF FinalInv
<1>2. Used \subseteq Pair /\ OneToOne(Used)
  BY DEF PairsOK, Used, OneToOne
<1>3. /\ IsFiniteSet(Used) /\ Cardinality(Used) = Cardinality(InUse)
      /\ Cardinality(Used) \in 0..(MaxArenas * Per)
  BY <1>2, AsMany DEF InUse
<1>4. IsFiniteSet(ToSet(final)) /\ Cardinality(ToSet(final)) = Len(final)
  BY <1>1, InjectiveLength
<1>5. Cardinality(ToSet(final)) <= Cardinality(Used)
  BY <1>1, <1>3, FS_Subset
<1>6. Len(final) \in Nat /\ MaxArenas * Per \in Nat
  BY GCHeapAssumption DEF GCHeapAssumption
<1> DEFINE L == Len(final)
           C == Cardinality(InUse)
           M == MaxArenas * Per
<1>7. gcBytes = C - L /\ L <= C /\ C \in 0..M /\ L \in Nat /\ M \in Nat
  BY <1>1, <1>3, <1>4, <1>5, <1>6
<1> HIDE DEF L, C, M
<1>8. gcBytes \in 0..M
  BY <1>7
<1> QED
  BY <1>8 DEF M

LEMMA StoreKeeps ==
  ASSUME IInv, ~broken, NEW c \in Contexts, NEW x, Storing(c, x)
  PROVE  IInv'
<1>1. /\ PairsOK /\ PairsOK'
      /\ Used' = Used \cup {x} /\ InUse' = InUse \cup {x.thing}
      /\ Safe' = Safe \cup {x.thing} /\ x.thing \notin InUse
      /\ \A y \in ToSet(Pairs) : y # x => y.thing # x.thing /\ y.flagp # x.flagp
      /\ \A y \in ToSet(Pairs) : y # x => byte'[y.flagp] = byte[y.flagp]
      /\ byte'[x.flagp] = Fresh
  BY StoreUsed
<1>2. TypeOK /\ Control /\ InStep(things, flags) /\ NoMarks /\ FreeInv /\ FinalInv /\ ReachInv /\ LockInv
  BY DEF IInv, HeapInv
<1>3. /\ x \in Pair /\ x \notin Used /\ ToSet(Pairs') = ToSet(Pairs) \cup {x}
      /\ things' \in Seq(Arena) /\ flags' \in Seq(Arena) /\ InStep(things, flags)'
      /\ freelist' \in Seq(Pair) /\ IsInjective(freelist')
      /\ ToSet(freelist') \subseteq ToSet(freelist) \ {x}
      /\ Collecting = {} => ToSet(freelist') = ToSet(freelist) \ {x}
  BY DEF Storing
<1>4. /\ gcPoke' = gcPoke /\ again' = again /\ roots' = roots /\ final' = final
      /\ rmw' = rmw /\ held' = held /\ broken' = broken
  BY DEF Storing, locks
<1>5. /\ byte' = [byte EXCEPT ![x.flagp] = Fresh]
      /\ gcBytes' = gcBytes + 1
      /\ newborn' = [newborn EXCEPT ![<<c, x.thing \in Objects>>] = x.thing]
      /\ slot' = [slot EXCEPT ![x.thing] = Nothing]
      /\ pc' = [pc EXCEPT ![c] = IF pc[c] = "retry" THEN "run" ELSE pc[c]]
      /\ tried' = [tried EXCEPT ![c] = FALSE]
  BY DEF Storing, Store
<1>6. /\ x.thing \in Addresses /\ x.flagp \in Addresses
      /\ Fresh \in Bytes /\ ~Fresh.mark /\ ~Fresh.final /\ Fresh.locks = 0
  BY <1>3, GCHeapAssumption DEF Pair, Fresh, Bytes, GCHeapAssumption
<1>7. pc[c] \in {"run", "retry", "finalize"} /\ Running(c)
  BY DEF Storing, Allocating
<1>8. /\ byte \in [Addresses -> Bytes] /\ slot \in [Addresses -> Addresses \cup {Nothing}]
      /\ newborn \in [Contexts \X BOOLEAN -> Addresses \cup {Nothing}]
      /\ pc \in [Contexts -> PCs] /\ tried \in [Contexts -> BOOLEAN]
  BY <1>2 DEF TypeOK
<1>9. pc' \in [Contexts -> PCs]
  BY <1>5, <1>7, <1>8 DEF PCs
<1>10. Collecting' = Collecting
  BY <1>5, <1>7, <1>8, CollectingSame
<1>11. \A u \in Contexts : pc'[u] \in {"lock", "unlock"} <=> pc[u] \in {"lock", "unlock"}
  BY <1>5, <1>7, <1>8
<1>12. \A u \in Contexts : pc'[u] = "unlock" <=> pc[u] = "unlock"
  BY <1>5, <1>7, <1>8
<1>13. NoMarks'
  BY <1>2, <1>5, <1>6, <1>8 DEF NoMarks
<1>14. FreeInv'
  <2>1. IsInjective(freelist') /\ ToSet(freelist') \subseteq ToSet(Pairs') \ Used'
    BY <1>1, <1>2, <1>3 DEF FreeInv
  <2>2. Collecting' = {} => ToSet(freelist') = ToSet(Pairs') \ Used'
    BY <1>1, <1>2, <1>3, <1>10 DEF FreeInv
  <2> QED
    BY <2>1, <2>2 DEF FreeInv
<1>15. FinalInv'
  <2>1. IsFiniteSet(InUse)
    <3>1. Used \subseteq Pair /\ OneToOne(Used)
      BY <1>1 DEF PairsOK, Used, OneToOne
    <3> QED
      BY <3>1, AsMany DEF InUse
  <2>2. Cardinality(InUse') = Cardinality(InUse) + 1 /\ Cardinality(InUse) \in Nat
    BY <1>1, <2>1, FS_AddElement, FS_CardinalityType
  <2>3. gcBytes' = Cardinality(InUse') - Len(final')
    <3>1. gcBytes = Cardinality(InUse) - Len(final) /\ Len(final) \in Nat
      BY <1>2 DEF FinalInv, TypeOK
    <3> QED
      BY <1>4, <1>5, <2>2, <3>1
  <2>4. final' # <<>> => \E u \in Contexts : pc'[u] = "finalize"
    <3>1. \A u \in Contexts : pc[u] = "finalize" => pc'[u] = "finalize"
      BY <1>5, <1>8
    <3> QED
      BY <1>2, <1>4, <3>1 DEF FinalInv
  <2>5. IsInjective(final') /\ ToSet(final') \subseteq Used'
    BY <1>1, <1>2, <1>4 DEF FinalInv
  <2> QED
    BY <2>3, <2>4, <2>5 DEF FinalInv
<1>16. TypeOK'
  <2>1. gcBytes' \in 0..(MaxArenas * Per)
    <3>1. (PairsOK /\ FinalInv /\ final \in Seq(Pair) => gcBytes \in 0..(MaxArenas * Per))'
      BY GcBytesType, PTL
    <3>2. (final \in Seq(Pair))'
      BY <1>2, <1>4 DEF TypeOK, Pair
    <3> QED
      BY <1>1, <1>15, <3>1, <3>2
  <2>2. byte' \in [Addresses -> Bytes] /\ slot' \in [Addresses -> Addresses \cup {Nothing}]
    BY <1>5, <1>6, <1>8
  <2>3. newborn' \in [Contexts \X BOOLEAN -> Addresses \cup {Nothing}] /\ tried' \in [Contexts -> BOOLEAN]
    BY <1>5, <1>6, <1>8
  <2> QED
    BY <1>2, <1>3, <1>4, <1>9, <1>11, <2>1, <2>2, <2>3 DEF TypeOK, Arena, Pair
<1>17. Control'
  <2> SUFFICES ASSUME NEW d \in Contexts, NEW e \in Contexts, d \in Collecting', e # d
               PROVE  pc'[e] \in {"run", "wait"}
    BY DEF Control
  <2>1. pc[e] \in {"run", "wait"}
    BY <1>2, <1>10 DEF Control
  <2> QED
    BY <1>5, <1>8, <2>1
<1>18. ReachInv'
  <2>1. Roots' \subseteq Roots \cup {x.thing}
    <3>1. \A n \in Contexts \X BOOLEAN : newborn'[n] = newborn[n] \/ newborn'[n] = x.thing
      BY <1>5, <1>8
    <3> QED
      BY <1>4, <3>1 DEF Roots
  <2>2. Roots' \subseteq Safe'
    BY <1>1, <1>2, <2>1 DEF ReachInv
  <2>3. \A t \in Safe' : slot'[t] \in Safe' \cup {Nothing}
    <3>1. Safe \subseteq Addresses
      BY <1>1 DEF Safe, InUse, Used, PairsOK, Pair
    <3>2. slot'[x.thing] = Nothing /\ \A t \in Addresses : t # x.thing => slot'[t] = slot[t]
      BY <1>5, <1>6, <1>8
    <3> QED
      BY <1>1, <1>2, <3>1, <3>2 DEF ReachInv
  <2>4. \A t \in Addresses \ Objects : slot'[t] = Nothing
    BY <1>2, <1>5, <1>8 DEF ReachInv
  <2> QED
    BY <1>2, <1>4, <2>2, <2>3, <2>4 DEF ReachInv
<1>19. LockInv'
  <2>1. ASSUME NEW u \in Contexts, rmw[u] # Nothing
        PROVE  byte'[FlagsOf(rmw[u].thing)'] = byte[FlagsOf(rmw[u].thing)]
    <3>1. rmw[u].thing \in InUse
      BY <1>2, <2>1 DEF LockInv, Safe
    <3>2. PICK y \in Used : y.thing = rmw[u].thing
      BY <3>1 DEF InUse
    <3>3. y \in ToSet(Pairs) /\ y # x /\ y \in ToSet(Pairs')
      BY <1>3, <3>2 DEF Used
    <3>4. FlagsOf(y.thing) = y.flagp
      BY <1>1, <3>3 DEF PairsOK
    <3>5. FlagsOf(rmw[u].thing)' = y.flagp
      <4>1. \A z \in ToSet(Pairs') : (\A t : t = z.thing => FlagsOf(t)' = z.flagp)
        BY <1>1 DEF PairsOK
      <4> QED
        BY <1>4, <3>2, <3>3, <4>1
    <3> QED
      BY <1>1, <3>2, <3>3, <3>4, <3>5
  <2>2. LocksStay
    <3>1. \A y \in Used' : \/ y \in Used /\ byte'[y.flagp].locks = byte[y.flagp].locks
                           \/ y.thing \in Addresses \ InUse /\ byte'[y.flagp].locks = 0
      BY <1>1, <1>3, <1>6 DEF Used
    <3> QED
      BY <1>1, <1>4, <1>12, <2>1, <3>1 DEF LocksStay, locks
  <2> QED
    BY <1>2, <2>2, LocksKept
<1> QED
  BY <1>3, <1>13, <1>14, <1>15, <1>16, <1>17, <1>18, <1>19 DEF IInv, HeapInv

LEMMA AllocFromListKeeps ==
  ASSUME IInv, ~broken, NEW c \in Contexts, AllocFromList(c)
  PROVE  IInv'
<1> DEFINE x == Head(freelist)
<1>1. TypeOK /\ InStep(things, flags) /\ FreeInv
  BY DEF IInv, HeapInv
<1>2. freelist \in Seq(Pair) /\ freelist # <<>> /\ IsInjective(freelist)
  BY <1>1 DEF AllocFromList, TypeOK, FreeInv, Pair
<1>3. /\ x \in Pair /\ x \in ToSet(freelist) /\ Tail(freelist) \in Seq(Pair) /\ IsInjective(Tail(freelist))
      /\ ToSet(Tail(freelist)) = ToSet(freelist) \ {x}
  BY <1>2, TailElements
<1>4. x \in ToSet(Pairs) /\ x \notin Used
  BY <1>1, <1>3 DEF FreeInv
<1>5. /\ Allocating(c) /\ freelist' = Tail(freelist) /\ Store(c, x.thing, x.flagp)
      /\ things' = things /\ flags' = flags
      /\ UNCHANGED <<gcPoke, again, roots, final, locks, broken>>
  BY DEF AllocFromList, pools
<1>6. Pairs' = Pairs
  BY <1>5 DEF Pairs, InOrder
<1>7. things' \in Seq(Arena) /\ flags' \in Seq(Arena) /\ InStep(things, flags)'
  BY <1>1, <1>5 DEF TypeOK, Arena, InStep, Apart
<1> HIDE DEF x
<1>8. Storing(c, x)
  BY <1>3, <1>4, <1>5, <1>6, <1>7 DEF Storing
<1> QED
  BY <1>8, StoreKeeps

LEMMA AllocFromArenaKeeps ==
  ASSUME IInv, ~broken, NEW c \in Contexts, AllocFromArena(c)
  PROVE  IInv'
<1> DEFINE x == [thing |-> NextIn(things), flagp |-> NextIn(flags)]
<1>1. TypeOK /\ InStep(things, flags) /\ FreeInv
  BY DEF IInv, HeapInv
<1>2. /\ Allocating(c) /\ freelist = <<>> /\ freelist' = <<>>
      /\ MayGet(things) /\ MayGet(flags) /\ things' = Bumped(things) /\ flags' = Bumped(flags)
      /\ Store(c, NextIn(things), NextIn(flags))
      /\ UNCHANGED <<gcPoke, again, roots, final, locks, broken>>
  BY DEF AllocFromArena
<1>3. things \in Seq(Arena) /\ flags \in Seq(Arena)
  BY <1>1 DEF TypeOK, Arena
<1>4. x.thing = NextIn(things) /\ x.flagp = NextIn(flags) /\ x = [thing |-> NextIn(things), flagp |-> NextIn(flags)]
  OBVIOUS
<1> HIDE DEF x
<1>5. /\ Bumped(things) \in Seq(Arena) /\ Bumped(flags) \in Seq(Arena) /\ InStep(Bumped(things), Bumped(flags))
      /\ x \in Pair
      /\ \A y \in ToSet(Walk(things, flags)) : y.thing # x.thing /\ y.flagp # x.flagp
      /\ ToSet(Walk(Bumped(things), Bumped(flags))) = ToSet(Walk(things, flags)) \cup {x}
  BY <1>1, <1>2, <1>3, <1>4, StepAlloc
<1>6. Pairs = Walk(things, flags) /\ Pairs' = Walk(Bumped(things), Bumped(flags))
  BY <1>2 DEF Pairs, Walk, InOrder
<1>7. InStep(things, flags)'
  BY <1>2, <1>5 DEF InStep, Apart
<1>8. x \notin Used
  BY <1>5, <1>6 DEF Used
<1>9. ToSet(freelist) = {} /\ ToSet(freelist') = {} /\ freelist' \in Seq(Pair) /\ IsInjective(freelist')
  BY <1>2 DEF ToSet, IsInjective
<1>10. Storing(c, x)
  BY <1>2, <1>4, <1>5, <1>6, <1>7, <1>8, <1>9 DEF Storing
<1> QED
  BY <1>10, StoreKeeps
-----------------------------------------------------------------------------
(***************************************************************************)
(* Steps that leave every pair and every byte as it is.                    *)
(***************************************************************************)
Quiet ==
  /\ Pairs' = Pairs /\ InStep(things, flags)' /\ PairsOK
  /\ UNCHANGED <<byte, freelist, gcBytes, final>>
  /\ Collecting' = {} => Collecting = {}
  /\ (\E u \in Contexts : pc[u] = "finalize") => \E u \in Contexts : pc'[u] = "finalize"

LEMMA QuietHeap ==
  ASSUME HeapInv, Quiet
  PROVE  /\ Used' = Used /\ InUse' = InUse /\ Safe' = Safe
         /\ \A t : FlagsOf(t)' = FlagsOf(t)
         /\ InStep(things, flags)' /\ NoMarks' /\ FreeInv' /\ FinalInv'
<1>1. /\ Pairs' = Pairs /\ byte' = byte /\ freelist' = freelist /\ gcBytes' = gcBytes /\ final' = final
      /\ InStep(things, flags)'
  BY DEF Quiet
<1>2. Used' = Used
  BY <1>1 DEF Used
<1>3. InUse' = InUse
  BY <1>2 DEF InUse
<1>4. Safe' = Safe
  BY <1>1, <1>3 DEF Safe, Dying
<1>5. \A t : FlagsOf(t)' = FlagsOf(t)
  BY <1>1 DEF FlagsOf
<1>6. NoMarks'
  BY <1>1 DEF NoMarks, HeapInv
<1>7. FreeInv'
  BY <1>1, <1>2 DEF FreeInv, HeapInv, Quiet
<1>8. FinalInv'
  BY <1>1, <1>2, <1>3 DEF FinalInv, HeapInv, Quiet
<1> QED
  BY <1>1, <1>2, <1>3, <1>4, <1>5, <1>6, <1>7, <1>8

\* And that keep what is live alive, and every lock.
LEMMA QuietKeeps ==
  ASSUME TypeOK, HeapInv, Quiet, UNCHANGED locks,
         \A u \in Contexts : pc'[u] = "unlock" <=> pc[u] = "unlock",
         Atom \in roots', Roots' \subseteq Safe,
         \A t \in Safe : slot'[t] \in Safe \cup {Nothing},
         \A t \in Addresses \ Objects : slot'[t] = Nothing
  PROVE  HeapInv'
<1>1. /\ Used' = Used /\ InUse' = InUse /\ Safe' = Safe
      /\ \A t : FlagsOf(t)' = FlagsOf(t)
      /\ InStep(things, flags)' /\ NoMarks' /\ FreeInv' /\ FinalInv'
  BY QuietHeap
<1>2. ReachInv'
  BY <1>1 DEF ReachInv
<1>3. LockInv'
  <2>1. byte' = byte
    BY DEF Quiet
  <2>2. rmw' = rmw
    BY DEF locks
  <2>3. \A u \in Contexts : byte'[FlagsOf(rmw[u].thing)'] = byte[FlagsOf(rmw[u].thing)]
    <3> SUFFICES ASSUME NEW u \in Contexts
                 PROVE  FlagsOf(rmw[u].thing)' = FlagsOf(rmw[u].thing)
      BY <2>1
    <3>1. \A t : t = rmw[u].thing => FlagsOf(t)' = FlagsOf(rmw[u].thing)
      BY <1>1
    <3>2. rmw'[u].thing = rmw[u].thing
      BY <2>2
    <3>3. Pairs' = Pairs /\ byte' = byte
      BY DEF Quiet
    <3> QED
      BY <2>2, <3>3 DEF FlagsOf
  <2>4. LocksStay
    BY <1>1, <2>1, <2>3 DEF LocksStay
  <2> QED
    BY <2>4, LocksKept DEF HeapInv
<1> QED
  BY <1>1, <1>2, <1>3 DEF HeapInv

LEMMA PoolsStay ==
  ASSUME TypeOK, HeapInv, things' = things, flags' = flags
  PROVE  Pairs' = Pairs /\ InStep(things, flags)' /\ PairsOK
<1>1. Pairs' = Pairs
  BY DEF Pairs, InOrder
<1>2. InStep(things, flags)'
  BY DEF HeapInv, InStep, Apart
<1>3. PairsOK
  BY PairsFacts DEF TypeOK, HeapInv, Arena
<1> QED
  BY <1>1, <1>2, <1>3

\* Whatever the program can reach is neither free nor dying.
LEMMA ReachableSafe ==
  ASSUME TypeOK, PairsOK, ReachInv
  PROVE  /\ Safe \subseteq Addresses
         /\ Reachable \subseteq Safe
<1>1. Safe \subseteq Addresses
  BY DEF PairsOK, Safe, InUse, Used, Pair
<1>2. Roots \cap Addresses \subseteq Safe
  BY DEF ReachInv
<1>3. \A r \in Safe : slot[r] \in Addresses => slot[r] \in Safe
  BY GCHeapAssumption DEF ReachInv, GCHeapAssumption
<1> QED
  BY <1>1, <1>2, <1>3 DEF Reachable, Closure

LEMMA ControlMove ==
  ASSUME pc \in [Contexts -> PCs], Control, NEW c \in Contexts, NEW w, pc' = [pc EXCEPT ![c] = w],
         c \in Collecting \/ (Running(c) /\ w \notin {"mark", "finalize"})
  PROVE  Control'
<1> SUFFICES ASSUME NEW d \in Contexts, NEW e \in Contexts, pc'[d] \in {"mark", "finalize"}, e # d
             PROVE  pc'[e] \in {"run", "wait"}
  BY DEF Control, Collecting
<1>1. d = c
  <2> SUFFICES ASSUME d # c PROVE FALSE
    OBVIOUS
  <2>1. d \in Collecting
    BY DEF Collecting
  <2> QED
    BY <2>1 DEF Running, Control, Collecting
<1>2. c \in Collecting
  BY <1>1 DEF Collecting
<1>3. pc[e] \in {"run", "wait"} /\ pc'[e] = pc[e]
  BY <1>1, <1>2 DEF Control
<1> QED
  BY <1>3

LEMMA AssignKeeps ==
  ASSUME IInv, ~broken, NEW c \in Contexts, NEW t \in Reachable, NEW u \in Reachable \cup {Nothing},
         Assign(c, t, u)
  PROVE  IInv'
<1>1. TypeOK /\ Control /\ HeapInv /\ ReachInv /\ InStep(things, flags)
  BY DEF IInv, HeapInv
<1>2. /\ t \in Objects /\ slot' = [slot EXCEPT ![t] = u] /\ gcPoke' = TRUE
      /\ UNCHANGED <<things, flags, byte, freelist, gcBytes, again, roots, newborn, pc, tried, final, rmw, held, broken>>
  BY DEF Assign, heap, pools, locks
<1>3. Pairs' = Pairs /\ InStep(things, flags)' /\ PairsOK
  BY <1>1, <1>2, PoolsStay
<1>4. Safe \subseteq Addresses /\ t \in Safe /\ u \in Safe \cup {Nothing}
  BY <1>1, <1>3, ReachableSafe
<1>5. Quiet
  BY <1>2, <1>3 DEF Quiet, Collecting
<1>6. slot \in [Addresses -> Addresses \cup {Nothing}]
  BY <1>1 DEF TypeOK
<1>7. (\A s \in Safe : slot'[s] \in Safe \cup {Nothing}) /\ \A s \in Addresses \ Objects : slot'[s] = Nothing
  BY <1>1, <1>2, <1>4, <1>6 DEF ReachInv
<1>8. HeapInv'
  <2>1. Roots' = Roots
    BY <1>2 DEF Roots
  <2> QED
    BY <1>1, <1>2, <1>5, <1>7, <2>1, QuietKeeps DEF ReachInv, locks
<1>9. TypeOK'
  BY <1>1, <1>2, <1>4, <1>6 DEF TypeOK
<1>10. Control'
  BY <1>1, <1>2 DEF Control, Collecting
<1> QED
  BY <1>2, <1>8, <1>9, <1>10 DEF IInv

LEMMA AddRootKeeps ==
  ASSUME IInv, ~broken, NEW c \in Contexts,
         NEW t \in Reachable \cup {u \in Addresses : held[u] > 0}, AddRoot(c, t)
  PROVE  IInv'
<1>1. TypeOK /\ Control /\ HeapInv /\ ReachInv /\ LockInv /\ InStep(things, flags)
  BY DEF IInv, HeapInv
<1>2. /\ roots' = roots \cup {t}
      /\ UNCHANGED <<things, flags, byte, freelist, gcBytes, gcPoke, again, slot, newborn, pc, tried, final, rmw, held, broken>>
  BY DEF AddRoot, heap, pools, locks
<1>3. Pairs' = Pairs /\ InStep(things, flags)' /\ PairsOK
  BY <1>1, <1>2, PoolsStay
<1>4. Safe \subseteq Addresses /\ t \in Safe
  BY <1>1, <1>3, ReachableSafe DEF LockInv
<1>5. Quiet
  BY <1>2, <1>3 DEF Quiet, Collecting
<1>6. HeapInv'
  <2>1. Roots' = Roots \cup {t} /\ Atom \in roots'
    BY <1>1, <1>2 DEF Roots, ReachInv
  <2> QED
    BY <1>1, <1>2, <1>4, <1>5, <2>1, QuietKeeps DEF ReachInv, locks
<1>7. TypeOK'
  BY <1>1, <1>2, <1>4 DEF TypeOK
<1>8. Control'
  BY <1>1, <1>2 DEF Control, Collecting
<1> QED
  BY <1>2, <1>6, <1>7, <1>8 DEF IInv

LEMMA RemoveRootKeeps ==
  ASSUME IInv, ~broken, NEW c \in Contexts, NEW t \in Addresses, RemoveRoot(c, t)
  PROVE  IInv'
<1>1. TypeOK /\ Control /\ HeapInv /\ ReachInv /\ InStep(things, flags)
  BY DEF IInv, HeapInv
<1>2. /\ t # Atom /\ roots' = roots \ {t}
      /\ UNCHANGED <<things, flags, byte, freelist, gcBytes, gcPoke, again, slot, newborn, pc, tried, final, rmw, held, broken>>
  BY DEF RemoveRoot, heap, pools, locks
<1>3. Pairs' = Pairs /\ InStep(things, flags)' /\ PairsOK
  BY <1>1, <1>2, PoolsStay
<1>4. Quiet
  BY <1>2, <1>3 DEF Quiet, Collecting
<1>5. HeapInv'
  <2>1. Roots' \subseteq Roots /\ Atom \in roots'
    BY <1>1, <1>2 DEF Roots, ReachInv
  <2> QED
    BY <1>1, <1>2, <1>4, <2>1, QuietKeeps DEF ReachInv, locks
<1>6. TypeOK'
  BY <1>1, <1>2 DEF TypeOK
<1>7. Control'
  BY <1>1, <1>2 DEF Control, Collecting
<1> QED
  BY <1>2, <1>5, <1>6, <1>7 DEF IInv

\* ForceGC, EnterGC and Stopped: a context goes on to another place.
LEMMA MoveKeeps ==
  ASSUME IInv, ~broken, NEW c \in Contexts, NEW w, Control',
         w \in PCs \ {"lock", "unlock"}, pc[c] \notin {"lock", "unlock"}, pc' = [pc EXCEPT ![c] = w],
         pc[c] = "finalize" => w = "finalize", pc[c] = "mark" => w = "mark",
         gcPoke' \in BOOLEAN, again' \in BOOLEAN, newborn' \in [Contexts \X BOOLEAN -> Addresses \cup {Nothing}],
         \A n \in Contexts \X BOOLEAN : newborn'[n] \in {newborn[n], Nothing},
         UNCHANGED <<things, flags, byte, freelist, gcBytes, slot, roots, tried, final, rmw, held, broken>>
  PROVE  IInv'
<1>1. TypeOK /\ Control /\ HeapInv /\ ReachInv /\ InStep(things, flags) /\ pc \in [Contexts -> PCs]
  BY DEF IInv, HeapInv, TypeOK
<1>2. Pairs' = Pairs /\ InStep(things, flags)' /\ PairsOK
  BY <1>1, PoolsStay
<1>3. /\ \A u \in Contexts : pc'[u] \in {"lock", "unlock"} <=> pc[u] \in {"lock", "unlock"}
      /\ \A u \in Contexts : pc'[u] = "unlock" <=> pc[u] = "unlock"
      /\ \A u \in Contexts : pc[u] = "finalize" => pc'[u] = "finalize"
      /\ \A u \in Contexts : pc[u] = "mark" => pc'[u] = "mark"
      /\ pc' \in [Contexts -> PCs]
  BY <1>1
<1>4. Collecting \subseteq Collecting'
  BY <1>3 DEF Collecting
<1>5. Quiet
  BY <1>2, <1>3, <1>4 DEF Quiet
<1>6. HeapInv'
  <2>1. Roots' \subseteq Roots /\ Atom \in roots'
    BY <1>1 DEF Roots, ReachInv
  <2> QED
    BY <1>1, <1>3, <1>5, <2>1, QuietKeeps DEF ReachInv, locks
<1>7. TypeOK'
  BY <1>1, <1>3 DEF TypeOK
<1> QED
  BY <1>6, <1>7 DEF IInv

LEMMA ForceGCKeeps ==
  ASSUME IInv, ~broken, NEW c \in Contexts, ForceGC(c)
  PROVE  IInv'
<1>1. TypeOK /\ Control /\ pc \in [Contexts -> PCs] /\ newborn \in [Contexts \X BOOLEAN -> Addresses \cup {Nothing}]
  BY DEF IInv, TypeOK
<1>2. /\ Running(c)
      /\ newborn' = [newborn EXCEPT ![<<c, TRUE>>] = Nothing, ![<<c, FALSE>>] = Nothing]
      /\ UNCHANGED <<things, flags, byte, freelist, gcBytes, slot, roots, tried, final, rmw, held, broken>>
  BY DEF ForceGC, heap, pools, locks
<1>3. /\ newborn' \in [Contexts \X BOOLEAN -> Addresses \cup {Nothing}]
      /\ \A n \in Contexts \X BOOLEAN : newborn'[n] \in {newborn[n], Nothing}
  BY <1>1, <1>2
<1>4. CASE Goto(c, "run", "gc") /\ gcPoke' = TRUE /\ UNCHANGED again
  <2>1. pc[c] = "run" /\ pc' = [pc EXCEPT ![c] = "gc"] /\ again' \in BOOLEAN
    BY <1>1, <1>4 DEF Goto, TypeOK
  <2>2. Control'
    BY <1>1, <1>2, <2>1, ControlMove
  <2> QED
    BY <1>2, <1>3, <1>4, <2>1, <2>2, MoveKeeps DEF PCs
<1>5. CASE pc[c] = "finalize" /\ again' = TRUE /\ gcPoke' = FALSE /\ UNCHANGED pc
  <2>1. pc' = [pc EXCEPT ![c] = "finalize"]
    BY <1>1, <1>5
  <2>2. Control'
    BY <1>1, <1>5 DEF Control, Collecting
  <2> QED
    BY <1>2, <1>3, <1>5, <2>1, <2>2, MoveKeeps DEF PCs
<1> QED
  BY <1>4, <1>5 DEF ForceGC

LEMMA EnterGCKeeps ==
  ASSUME IInv, ~broken, NEW c \in Contexts, EnterGC(c)
  PROVE  IInv'
<1>1. TypeOK /\ Control /\ pc \in [Contexts -> PCs] /\ again \in BOOLEAN
      /\ newborn \in [Contexts \X BOOLEAN -> Addresses \cup {Nothing}]
  BY DEF IInv, TypeOK
<1>2. /\ Running(c) /\ gcPoke' = FALSE
      /\ UNCHANGED <<things, flags, byte, freelist, gcBytes, again, slot, roots, newborn, tried, final, rmw, held, broken>>
  BY DEF EnterGC, heap, pools, locks, program
<1>3. PICK w \in {"retry", "run", "wait", "stop"} : pc[c] = "gc" /\ pc' = [pc EXCEPT ![c] = w]
  BY DEF EnterGC, Goto, Return
<1>4. Control'
  BY <1>1, <1>2, <1>3, ControlMove
<1> QED
  BY <1>1, <1>2, <1>3, <1>4, MoveKeeps DEF PCs

LEMMA StoppedKeeps ==
  ASSUME IInv, ~broken, NEW c \in Contexts, Stopped(c)
  PROVE  IInv'
<1>1. TypeOK /\ Control /\ pc \in [Contexts -> PCs] /\ gcPoke \in BOOLEAN /\ again \in BOOLEAN
      /\ newborn \in [Contexts \X BOOLEAN -> Addresses \cup {Nothing}]
  BY DEF IInv, TypeOK
<1>2. /\ pc[c] = "stop" /\ pc' = [pc EXCEPT ![c] = "mark"]
      /\ \A u \in Contexts \ {c} : pc[u] \in {"run", "wait"}
      /\ UNCHANGED <<things, flags, byte, freelist, gcBytes, gcPoke, again, slot, roots, newborn, tried, final, rmw, held, broken>>
  BY DEF Stopped, Goto, heap, pools, locks, program
<1>3. Control'
  BY <1>1, <1>2 DEF Control, Collecting
<1> QED
  BY <1>1, <1>2, <1>3, MoveKeeps DEF PCs

LEMMA AllocFailsKeeps ==
  ASSUME IInv, ~broken, NEW c \in Contexts, AllocFails(c)
  PROVE  IInv'
<1>1. /\ TypeOK /\ Control /\ HeapInv /\ ReachInv /\ InStep(things, flags)
      /\ pc \in [Contexts -> PCs] /\ tried \in [Contexts -> BOOLEAN]
  BY DEF IInv, HeapInv, TypeOK
<1>2. /\ Allocating(c) /\ ArenasFail
      /\ UNCHANGED <<byte, freelist, gcBytes, gcPoke, again, slot, roots, newborn, final, rmw, held>>
  BY DEF AllocFails, locks, program
<1>3. PICK w \in {"gc", "run", "finalize"} :
        /\ pc' = [pc EXCEPT ![c] = w] /\ (w = "finalize" <=> pc[c] = "finalize")
        /\ pc[c] \in {"run", "retry", "finalize"} /\ tried' \in [Contexts -> BOOLEAN]
  <2>1. CASE Goto(c, "run", "gc") /\ tried' = [tried EXCEPT ![c] = TRUE]
    BY <1>1, <2>1 DEF Goto
  <2>2. CASE Goto(c, "retry", "run") /\ tried' = [tried EXCEPT ![c] = FALSE]
    BY <1>1, <2>2 DEF Goto
  <2>3. CASE pc[c] = "finalize" /\ UNCHANGED <<pc, tried>>
    BY <1>1, <2>3
  <2> QED
    BY <2>1, <2>2, <2>3 DEF AllocFails
<1>4. /\ \A u \in Contexts : pc'[u] \in {"lock", "unlock"} <=> pc[u] \in {"lock", "unlock"}
      /\ \A u \in Contexts : pc'[u] = "unlock" <=> pc[u] = "unlock"
      /\ \A u \in Contexts : pc[u] = "finalize" <=> pc'[u] = "finalize"
      /\ \A u \in Contexts : pc[u] = "mark" <=> pc'[u] = "mark"
      /\ pc' \in [Contexts -> PCs]
  BY <1>1, <1>3 DEF PCs
<1>5. Collecting' = Collecting
  BY <1>4 DEF Collecting
<1>6. Control'
  <2>1. pc[c] = "finalize" => c \in Collecting
    BY DEF Collecting
  <2>2. Running(c)
    BY <1>2 DEF Allocating
  <2> QED
    BY <1>1, <1>3, <2>1, <2>2, ControlMove
<1>7. PairsOK /\ things \in Seq(Arena) /\ flags \in Seq(Arena)
  BY <1>1, PairsFacts DEF TypeOK, Arena
<1>8. ASSUME things' \in Seq(Arena), flags' \in Seq(Arena), broken' \in BOOLEAN PROVE TypeOK'
  <2>1. \A p \in {things', flags'} : p \in Seq([arena : 1..MaxArenas, used : 0..Per])
    BY <1>8 DEF Arena
  <2> QED
    BY <1>1, <1>2, <1>3, <1>4, <1>8, <2>1 DEF TypeOK
<1>9. ASSUME Pairs' = Pairs, InStep(things, flags)', broken' = broken PROVE HeapInv'
  <2>1. Quiet
    BY <1>2, <1>4, <1>5, <1>7, <1>9 DEF Quiet
  <2>2. Roots' = Roots
    BY <1>2 DEF Roots
  <2> QED
    BY <1>1, <1>2, <1>4, <2>1, <2>2, QuietKeeps DEF ReachInv, locks
<1>10. CASE UNCHANGED <<pools, broken>>
  <2>1. things' = things /\ flags' = flags /\ broken' = broken
    BY <1>10 DEF pools
  <2>2. Pairs' = Pairs /\ InStep(things, flags)'
    BY <1>1, <2>1, PoolsStay
  <2>3. broken' \in BOOLEAN
    BY <1>1, <2>1 DEF TypeOK
  <2> QED
    BY <1>6, <1>7, <1>8, <1>9, <2>1, <2>2, <2>3 DEF IInv
<1>11. CASE /\ MayFail(flags)
            /\ things' \in (IF MayFail(things) THEN {things} ELSE {})
                              \cup (IF MayGet(things) THEN {WithArena(things)} ELSE {})
            /\ UNCHANGED <<flags, broken>>
  <2>1. CASE things' = things
    BY <1>10, <1>11, <2>1 DEF pools
  <2>2. CASE things' = WithArena(things) /\ MayGet(things)
    <3>1. Room(flags) = 0
      BY <1>11 DEF MayFail
    <3>2. /\ WithArena(things) \in Seq(Arena)
          /\ InStep(WithArena(things), flags)
          /\ Walk(WithArena(things), flags) = Walk(things, flags)
      BY <1>1, <1>7, <2>2, <3>1, StepThings
    <3>3. Pairs' = Pairs
      <4>1. Pairs' = Walk(things', flags')
        BY DEF Pairs, Walk
      <4> QED
        BY <1>11, <2>2, <3>2, <4>1, PairsWalk
    <3>4. InStep(things, flags)'
      BY <1>11, <2>2, <3>2 DEF InStep, Apart
    <3>5. broken' \in BOOLEAN
      BY <1>1, <1>11 DEF TypeOK
    <3>6. things' \in Seq(Arena) /\ flags' \in Seq(Arena)
      BY <1>7, <1>11, <2>2, <3>2
    <3> QED
      BY <1>6, <1>8, <1>9, <1>11, <3>3, <3>4, <3>5, <3>6 DEF IInv
  <2> QED
    BY <1>11, <2>1, <2>2
<1>12. CASE MayGet(flags) /\ flags' = Bumped(flags) /\ broken' = TRUE /\ UNCHANGED things
  <2>1. Bumped(flags) \in Seq(Arena)
    <3> DEFINE r == WithArena(flags)
               k == Room(r)
    <3>1. /\ flags # <<>> /\ Len(flags) \in Nat
          /\ Room(flags) \in 0..Len(flags)
          /\ Room(flags) # 0 => Room(flags) \in DOMAIN flags /\ flags[Room(flags)].used < Per
      BY <1>1, <1>7, RoomFirst DEF InStep
    <3>2. /\ r \in Seq(Arena)
          /\ Room(flags) # 0 => r = flags
          /\ Room(flags) = 0 => /\ Len(r) = Len(flags) + 1 /\ r[Len(flags) + 1].used = 0
                                /\ k = Len(flags) + 1
      BY <1>7, <1>12, <3>1, WithArenaIs
    <3>3. Bumped(flags) = [r EXCEPT ![k].used = @ + 1]
      BY DEF Bumped
    <3>4. Per \in Nat \ {0}
      BY GCHeapAssumption DEF GCHeapAssumption
    <3>5. k \in DOMAIN r /\ r[k].used < Per
      BY <3>1, <3>2, <3>4
    <3> HIDE DEF r, k
    <3>6. r[k] \in Arena
      BY <3>2, <3>5
    <3>7. [r[k] EXCEPT !.used = @ + 1] \in Arena
      BY <3>4, <3>5, <3>6 DEF Arena
    <3>8. [r EXCEPT ![k] = [r[k] EXCEPT !.used = @ + 1]] \in Seq(Arena)
      BY <3>2, <3>5, <3>7
    <3> QED
      BY <3>3, <3>8
  <2>2. things' \in Seq(Arena) /\ flags' \in Seq(Arena) /\ broken' \in BOOLEAN
    BY <1>7, <1>12, <2>1
  <2> QED
    BY <1>6, <1>8, <1>12, <2>2 DEF IInv
<1> QED
  BY <1>2, <1>10, <1>11, <1>12 DEF ArenasFail
-----------------------------------------------------------------------------
(***************************************************************************)
(* Locks of things.                                                        *)
(***************************************************************************)
LEMMA ModSmall ==
  ASSUME NEW m \in Nat, NEW a \in 0..m
  PROVE  a % (m + 1) = a
  OBVIOUS

\* js_LockGCThing and js_UnlockGCThing read the byte of t.
LEMMA ReadKeeps ==
  ASSUME Disciplined, IInv, ~broken, NEW c \in Contexts, NEW t \in Safe \ Objects, NEW w \in {"lock", "unlock"},
         Goto(c, "run", w), Running(c), Alone, ReadFlags(c, t),
         IF w = "lock" THEN held' = held ELSE held[t] > 0 /\ held' = [held EXCEPT ![t] = @ - 1],
         UNCHANGED <<things, flags, byte, freelist, gcBytes, gcPoke, again, slot, roots, newborn, tried, final, broken>>
  PROVE  IInv'
<1>1. /\ TypeOK /\ Control /\ HeapInv /\ ReachInv /\ LockInv /\ InStep(things, flags)
      /\ pc \in [Contexts -> PCs] /\ held \in [Addresses -> Nat]
  BY DEF IInv, HeapInv, TypeOK
<1>2. Pairs' = Pairs /\ InStep(things, flags)' /\ PairsOK
  BY <1>1, PoolsStay
<1>3. pc[c] = "run" /\ pc' = [pc EXCEPT ![c] = w]
  BY DEF Goto
<1>4. \A u \in Contexts : rmw[u] = Nothing
  BY DEF Alone, Disciplined
<1>5. PICK x \in Used : x.thing = t
  BY DEF Safe, InUse
<1>6. x \in ToSet(Pairs) /\ x.flagp \in Addresses /\ t \in Addresses /\ FlagsOf(t) = x.flagp
  BY <1>2, <1>5 DEF PairsOK, Used, Pair
<1>7. rmw' = [rmw EXCEPT ![c] = [thing |-> t, was |-> byte[FlagsOf(t)]]]
  BY DEF ReadFlags
<1>8. rmw \in [Contexts -> [thing : Addresses, was : Bytes] \cup {Nothing}] /\ byte \in [Addresses -> Bytes]
  BY <1>1 DEF TypeOK
<1> DEFINE r == [thing |-> t, was |-> byte[FlagsOf(t)]]
<1>9. r \in [thing : Addresses, was : Bytes] /\ r # Nothing /\ r.thing = t /\ r.was = byte[FlagsOf(t)]
  BY <1>6, <1>8, GCHeapAssumption DEF GCHeapAssumption
<1>10. rmw' = [rmw EXCEPT ![c] = r]
  BY <1>7
<1> HIDE DEF r
<1>11. /\ rmw' \in [Contexts -> [thing : Addresses, was : Bytes] \cup {Nothing}]
       /\ rmw'[c] = r /\ \A u \in Contexts : u # c => rmw'[u] = Nothing
  BY <1>4, <1>8, <1>9, <1>10
<1>12. /\ pc' \in [Contexts -> PCs] /\ pc'[c] = w
       /\ \A u \in Contexts : u # c => pc'[u] = pc[u] /\ pc[u] \notin {"lock", "unlock"}
  BY <1>1, <1>3, <1>4 DEF TypeOK, PCs
<1>13. held' \in [Addresses -> Nat]
  <2>1. CASE w = "lock"
    BY <1>1, <2>1
  <2>2. CASE w # "lock"
    <3>1. held[t] - 1 \in Nat /\ held' = [held EXCEPT ![t] = @ - 1]
      BY <1>1, <1>6, <2>2
    <3> QED
      BY <1>1, <3>1
  <2> QED
    BY <2>1, <2>2
<1>14. Quiet
  <2>1. Collecting \subseteq Collecting'
    BY <1>3, <1>12 DEF Collecting
  <2>2. \A u \in Contexts : pc[u] = "finalize" => pc'[u] = "finalize"
    BY <1>3, <1>12
  <2> QED
    BY <1>2, <2>1, <2>2 DEF Quiet
<1>15. /\ Used' = Used /\ InUse' = InUse /\ Safe' = Safe
       /\ \A s : FlagsOf(s)' = FlagsOf(s)
       /\ InStep(things, flags)' /\ NoMarks' /\ FreeInv' /\ FinalInv'
  BY <1>1, <1>14, QuietHeap
<1>16. ReachInv'
  <2>1. Roots' = Roots
    BY DEF Roots
  <2> QED
    BY <1>1, <1>15, <2>1 DEF ReachInv
<1>17. \A s : Pending(s) = 0
  BY <1>3, <1>12 DEF Pending
<1>18. \A s : Pending(s)' = IF w = "unlock" /\ s = t THEN 1 ELSE 0
  BY <1>9, <1>11, <1>12 DEF Pending
<1>19. LockInv'
  <2>1. \A s \in Addresses : held'[s] > 0 => s \in Safe' \ Objects
    <3>1. \A s \in Addresses : held'[s] > 0 => held[s] > 0
      BY <1>1
    <3> QED
      BY <1>1, <1>15, <3>1 DEF LockInv
  <2>2. \A u \in Contexts : rmw'[u] # Nothing =>
          rmw'[u].thing \in Safe' \ Objects /\ rmw'[u].was = byte'[FlagsOf(rmw[u].thing)']
    <3> SUFFICES ASSUME NEW u \in Contexts, rmw'[u] # Nothing
                 PROVE  rmw'[u].thing \in Safe' \ Objects /\ rmw'[u].was = byte'[FlagsOf(rmw[u].thing)']
      BY Zenon
    <3>1. u = c /\ rmw'[u].thing = t
      BY <1>9, <1>11
    <3>2. rmw'[u].was = byte[FlagsOf(t)]
      BY <1>9, <1>11, <3>1
    <3>3. FlagsOf(rmw[u].thing)' = FlagsOf(t)
      BY <1>2, <3>1 DEF FlagsOf
    <3> QED
      BY <1>15, <3>1, <3>2, <3>3
  <2>3. \A u, d \in Contexts : rmw'[u] # Nothing /\ rmw'[d] # Nothing => u = d
    BY <1>11
  <2>4. \A y \in Used' : \/ byte'[y.flagp].locks = LockMask /\ y.thing \notin Objects
                         \/ byte'[y.flagp].locks = held'[y.thing] + Pending(y.thing)'
    <3> SUFFICES ASSUME NEW y \in Used
                 PROVE  \/ byte[y.flagp].locks = LockMask /\ y.thing \notin Objects
                        \/ byte[y.flagp].locks = held'[y.thing] + Pending(y.thing)'
      BY <1>15
    <3>1. y.thing \in Addresses
      BY <1>2 DEF Used, PairsOK, Pair
    <3>2. \/ byte[y.flagp].locks = LockMask /\ y.thing \notin Objects
          \/ byte[y.flagp].locks = held[y.thing]
      BY <1>1, <1>17, <3>1 DEF LockInv
    <3>3. held'[y.thing] + Pending(y.thing)' = held[y.thing]
      <4>1. Pending(y.thing)' = IF w = "unlock" /\ y.thing = t THEN 1 ELSE 0
        BY <1>18
      <4>2. held'[y.thing] = IF w = "unlock" /\ y.thing = t THEN held[y.thing] - 1 ELSE held[y.thing]
        BY <1>1, <1>6, <3>1
      <4> QED
        BY <1>1, <3>1, <4>1, <4>2
    <3> QED
      BY <3>2, <3>3
  <2> QED
    BY <2>1, <2>2, <2>3, <2>4 DEF LockInv
<1>20. TypeOK'
  <2>1. \A u \in Contexts : rmw'[u] = Nothing <=> pc'[u] \notin {"lock", "unlock"}
    BY <1>9, <1>11, <1>12
  <2> QED
    BY <1>1, <1>11, <1>12, <1>13, <2>1 DEF TypeOK
<1>21. Control'
  BY <1>1, <1>3, ControlMove
<1> QED
  BY <1>15, <1>16, <1>19, <1>20, <1>21 DEF IInv, HeapInv

LEMMA CallLockKeeps ==
  ASSUME Disciplined, IInv, ~broken, NEW c \in Contexts, NEW t \in Reachable, CallLock(c, t)
  PROVE  IInv'
<1>1. TypeOK /\ PairsOK /\ ReachInv
  BY PairsFacts DEF IInv, HeapInv, TypeOK, Arena
<1>2. t \in Safe \ Objects
  BY <1>1, ReachableSafe DEF CallLock, Disciplined
<1>3. /\ Goto(c, "run", "lock") /\ Running(c) /\ Alone /\ ReadFlags(c, t)
      /\ held' = held
      /\ UNCHANGED <<things, flags, byte, freelist, gcBytes, gcPoke, again, slot, roots, newborn, tried, final, broken>>
  BY DEF CallLock, heap, pools, program
<1> QED
  BY <1>2, <1>3, ReadKeeps

LEMMA CallUnlockKeeps ==
  ASSUME Disciplined, IInv, ~broken, NEW c \in Contexts, NEW t \in Addresses, CallUnlock(c, t)
  PROVE  IInv'
<1>1. t \in Safe \ Objects
  BY DEF CallUnlock, IInv, HeapInv, LockInv
<1>2. /\ Goto(c, "run", "unlock") /\ Running(c) /\ Alone /\ ReadFlags(c, t)
      /\ held[t] > 0 /\ held' = [held EXCEPT ![t] = @ - 1]
      /\ UNCHANGED <<things, flags, byte, freelist, gcBytes, gcPoke, again, slot, roots, newborn, tried, final, broken>>
  BY DEF CallUnlock, heap, pools, program
<1> QED
  BY <1>1, <1>2, ReadKeeps

\* They write it.
LEMMA WriteKeeps ==
  ASSUME IInv, ~broken, NEW c \in Contexts, NEW w \in {"lock", "unlock"},
         Goto(c, w, "run"), Running(c), WriteFlags(c, IF w = "lock" THEN 1 ELSE -1),
         held' = IF w = "lock" THEN [held EXCEPT ![rmw[c].thing] = @ + 1] ELSE held,
         UNCHANGED <<things, flags, freelist, gcBytes, gcPoke, again, slot, roots, newborn, tried, final, broken>>
  PROVE  IInv'
<1> DEFINE t == rmw[c].thing
           was == rmw[c].was
           d == IF w = "lock" THEN 1 ELSE -1
<1>1. /\ TypeOK /\ Control /\ HeapInv /\ ReachInv /\ LockInv /\ InStep(things, flags)
      /\ pc \in [Contexts -> PCs] /\ held \in [Addresses -> Nat] /\ byte \in [Addresses -> Bytes]
      /\ rmw \in [Contexts -> [thing : Addresses, was : Bytes] \cup {Nothing}]
      /\ \A u \in Contexts : rmw[u] = Nothing <=> pc[u] \notin {"lock", "unlock"}
  BY DEF IInv, HeapInv, TypeOK
<1>2. Pairs' = Pairs /\ InStep(things, flags)' /\ PairsOK
  BY <1>1, PoolsStay
<1>3. pc[c] = w /\ pc' = [pc EXCEPT ![c] = "run"]
  BY DEF Goto
<1>4. rmw[c] # Nothing /\ \A u \in Contexts : u # c => rmw[u] = Nothing
  BY <1>1, <1>3 DEF LockInv
<1>5. t \in Safe \ Objects /\ was = byte[FlagsOf(t)] /\ was \in Bytes
  BY <1>1, <1>4 DEF LockInv
<1>6. PICK x \in Used : x.thing = t
  BY <1>5 DEF Safe, InUse
<1>7. x \in ToSet(Pairs) /\ x.flagp \in Addresses /\ t \in Addresses /\ FlagsOf(t) = x.flagp /\ was = byte[x.flagp]
  BY <1>2, <1>5, <1>6 DEF PairsOK, Used, Pair
<1>8. /\ byte' = IF was.locks = LockMask THEN byte
                 ELSE [byte EXCEPT ![FlagsOf(t)] = [was EXCEPT !.locks = (@ + d) % (LockMask + 1)]]
      /\ rmw' = [rmw EXCEPT ![c] = Nothing]
  BY DEF WriteFlags
<1>9. held' = IF w = "lock" THEN [held EXCEPT ![t] = @ + 1] ELSE held
  OBVIOUS
<1> HIDE DEF t, was
<1>10. \A u \in Contexts : rmw'[u] = Nothing
  BY <1>1, <1>4, <1>8
<1>11. /\ pc' \in [Contexts -> PCs] /\ pc'[c] = "run"
       /\ \A u \in Contexts : u # c => pc'[u] = pc[u] /\ pc[u] \notin {"lock", "unlock"}
  BY <1>1, <1>3, <1>4 DEF PCs
<1>12. held' \in [Addresses -> Nat] /\ \A s \in Addresses : held'[s] = IF w = "lock" /\ s = t THEN held[s] + 1 ELSE held[s]
  BY <1>1, <1>7, <1>9
<1>13. \A s : Pending(s)' = 0
  BY <1>11 DEF Pending
<1>14. \A s : Pending(s) = IF w = "unlock" /\ s = t THEN 1 ELSE 0
  BY <1>3, <1>11 DEF Pending, t
<1>15. was.locks = LockMask \/ was.locks = held[t] + Pending(t)
  BY <1>1, <1>6, <1>7 DEF LockInv
<1>16. was.locks \in 0..LockMask /\ LockMask \in Nat /\ held[t] \in Nat
  BY <1>1, <1>5, <1>7, GCHeapAssumption DEF Bytes, GCHeapAssumption
<1>17. was.locks # LockMask => was.locks + d \in 0..LockMask /\ was.locks + d = held'[t]
  <2>1. CASE w = "lock"
    <3>1. d = 1 /\ Pending(t) = 0 /\ held'[t] = held[t] + 1
      BY <1>7, <1>12, <1>14, <2>1
    <3> QED
      BY <1>15, <1>16, <3>1
  <2>2. CASE w = "unlock"
    <3>1. d = -1 /\ Pending(t) = 1 /\ held'[t] = held[t]
      BY <1>7, <1>12, <1>14, <2>2
    <3> QED
      BY <1>15, <1>16, <3>1
  <2> QED
    BY <2>1, <2>2
<1> DEFINE new == [was EXCEPT !.locks = (@ + d) % (LockMask + 1)]
<1>18. was.locks # LockMask => /\ new \in Bytes /\ new.locks = held'[t]
                               /\ new.mark = was.mark /\ new.final = was.final
  <2> SUFFICES ASSUME was.locks # LockMask
               PROVE  /\ new \in Bytes /\ new.locks = held'[t]
                      /\ new.mark = was.mark /\ new.final = was.final
    OBVIOUS
  <2> DEFINE a == was.locks + d
  <2>1. a \in 0..LockMask /\ a = held'[t]
    BY <1>17
  <2>2. new = [was EXCEPT !.locks = a % (LockMask + 1)]
    OBVIOUS
  <2> HIDE DEF a, new
  <2>3. a % (LockMask + 1) = a
    BY <1>16, <2>1, ModSmall
  <2>4. new = [was EXCEPT !.locks = a]
    BY <2>2, <2>3
  <2> QED
    BY <1>5, <2>1, <2>4 DEF Bytes
<1>19. /\ byte' \in [Addresses -> Bytes]
       /\ \A f \in Addresses : f # x.flagp => byte'[f] = byte[f]
       /\ byte'[x.flagp].mark = byte[x.flagp].mark /\ byte'[x.flagp].final = byte[x.flagp].final
       /\ was.locks = LockMask => byte'[x.flagp].locks = LockMask
       /\ was.locks # LockMask => byte'[x.flagp].locks = held'[t]
  <2>1. CASE was.locks = LockMask
    BY <1>1, <1>7, <1>8, <2>1
  <2>2. CASE was.locks # LockMask
    <3>1. byte' = [byte EXCEPT ![x.flagp] = new]
      BY <1>7, <1>8, <2>2
    <3>2. /\ new \in Bytes /\ new.locks = held'[t]
          /\ new.mark = was.mark /\ new.final = was.final
      BY <1>18, <2>2
    <3> HIDE DEF new
    <3> QED
      BY <1>1, <1>7, <2>2, <3>1, <3>2
  <2> QED
    BY <2>1, <2>2
<1> HIDE DEF new, d
<1>20. \A y \in ToSet(Pairs) : y.flagp \in Addresses /\ y.thing \in Addresses /\ (y # x => y.flagp # x.flagp)
  BY <1>2, <1>7 DEF PairsOK, Pair, OneToOne
<1>21. Used' = Used
  BY <1>2, <1>19, <1>20 DEF Used
<1>22. InUse' = InUse
  BY <1>21 DEF InUse
<1>23. Safe' = Safe
  BY <1>22 DEF Safe, Dying
<1>24. NoMarks'
  BY <1>1, <1>7, <1>19 DEF NoMarks, HeapInv
<1>25. Collecting' = Collecting
  BY <1>3, <1>11 DEF Collecting
<1>26. FreeInv'
  BY <1>1, <1>2, <1>21, <1>25 DEF FreeInv, HeapInv
<1>27. FinalInv'
  <2>1. \A u \in Contexts : pc[u] = "finalize" => pc'[u] = "finalize"
    BY <1>3, <1>11
  <2> QED
    BY <1>1, <1>21, <1>22, <2>1 DEF FinalInv, HeapInv
<1>28. ReachInv'
  <2>1. Roots' = Roots
    BY DEF Roots
  <2> QED
    BY <1>1, <1>23, <2>1 DEF ReachInv
<1>29. LockInv'
  <2>1. \A s \in Addresses : held'[s] > 0 => s \in Safe' \ Objects
    BY <1>1, <1>5, <1>12, <1>23 DEF LockInv
  <2>2. \A y \in Used' : \/ byte'[y.flagp].locks = LockMask /\ y.thing \notin Objects
                         \/ byte'[y.flagp].locks = held'[y.thing] + Pending(y.thing)'
    <3> SUFFICES ASSUME NEW y \in Used
                 PROVE  \/ byte'[y.flagp].locks = LockMask /\ y.thing \notin Objects
                        \/ byte'[y.flagp].locks = held'[y.thing] + Pending(y.thing)'
      BY <1>21
    <3>1. y \in ToSet(Pairs) /\ y.thing \in Addresses /\ y.flagp \in Addresses /\ Pending(y.thing)' = 0
      BY <1>13, <1>20 DEF Used
    <3>2. held'[y.thing] \in Nat /\ held[y.thing] \in Nat
      BY <1>1, <1>12, <3>1
    <3>3. CASE y = x
      BY <1>5, <1>6, <1>19, <3>1, <3>2, <3>3
    <3>4. CASE y # x
      <4>1. y.thing # t
        BY <1>2, <1>6, <1>7, <3>1, <3>4 DEF PairsOK, OneToOne
      <4>2. byte'[y.flagp] = byte[y.flagp] /\ held'[y.thing] = held[y.thing] /\ Pending(y.thing) = 0
        BY <1>12, <1>14, <1>19, <1>20, <3>1, <3>4, <4>1
      <4>3. \/ byte[y.flagp].locks = LockMask /\ y.thing \notin Objects
            \/ byte[y.flagp].locks = held[y.thing] + Pending(y.thing)
        BY <1>1 DEF LockInv
      <4> QED
        BY <3>1, <4>2, <4>3
    <3> QED
      BY <3>3, <3>4
  <2> QED
    BY <1>10, <2>1, <2>2 DEF LockInv
<1>30. TypeOK'
  <2>1. rmw' \in [Contexts -> [thing : Addresses, was : Bytes] \cup {Nothing}]
    BY <1>1, <1>8
  <2>2. \A u \in Contexts : rmw'[u] = Nothing <=> pc'[u] \notin {"lock", "unlock"}
    BY <1>10, <1>11
  <2> QED
    BY <1>1, <1>11, <1>12, <1>19, <2>1, <2>2 DEF TypeOK
<1>31. Control'
  BY <1>1, <1>3, ControlMove
<1> QED
  BY <1>2, <1>24, <1>26, <1>27, <1>28, <1>29, <1>30, <1>31 DEF IInv, HeapInv

LEMMA LockKeeps ==
  ASSUME IInv, ~broken, NEW c \in Contexts, Lock(c)
  PROVE  IInv'
<1>1. /\ Goto(c, "lock", "run") /\ Running(c) /\ WriteFlags(c, 1)
      /\ held' = [held EXCEPT ![rmw[c].thing] = @ + 1]
      /\ UNCHANGED <<things, flags, freelist, gcBytes, gcPoke, again, slot, roots, newborn, tried, final, broken>>
  BY DEF Lock, pools, program
<1> QED
  BY <1>1, WriteKeeps

LEMMA UnlockKeeps ==
  ASSUME IInv, ~broken, NEW c \in Contexts, Unlock(c)
  PROVE  IInv'
<1>1. /\ Goto(c, "unlock", "run") /\ Running(c) /\ WriteFlags(c, -1)
      /\ held' = held
      /\ UNCHANGED <<things, flags, freelist, gcBytes, gcPoke, again, slot, roots, newborn, tried, final, broken>>
  BY DEF Unlock, pools, program
<1> QED
  BY <1>1, WriteKeeps
-----------------------------------------------------------------------------
(***************************************************************************)
(* js_GC.                                                                  *)
(***************************************************************************)
LEMMA ClosureClosed ==
  ASSUME NEW S, NEW T
  PROVE  /\ Closure(S, T) \subseteq T /\ S \cap T \subseteq Closure(S, T)
         /\ \A t \in Closure(S, T) : slot[t] \in T => slot[t] \in Closure(S, T)
  BY DEF Closure

\* Nothing is marked between collections: gc_mark marks what it reaches.
LEMMA LiveIs ==
  ASSUME PairsOK, NoMarks
  PROVE  Live = Closure(Roots, InUse)
<1>1. \A y \in ToSet(Pairs) : ~byte[y.flagp].mark
  BY DEF PairsOK, NoMarks, Pair
<1>2. {y \in Used : ~byte[y.flagp].mark} = Used
  BY <1>1 DEF Used
<1>3. {y \in ToSet(Pairs) : byte[y.flagp].mark} = {}
  BY <1>1
<1>4. {x.thing : x \in {y \in Used : ~byte[y.flagp].mark}} = InUse
  BY <1>2 DEF InUse
<1>5. {x.thing : x \in {y \in ToSet(Pairs) : byte[y.flagp].mark}} = {}
  BY <1>3
<1> QED
  BY <1>4, <1>5 DEF Live

\* The collector is alone: the others are at rest, and nothing is dying yet.
LEMMA MarkAlone ==
  ASSUME TypeOK, Control, FinalInv, NEW c \in Contexts, pc[c] = "mark"
  PROVE  /\ \A u \in Contexts : u # c => pc[u] \in {"run", "wait"}
         /\ \A u \in Contexts : rmw[u] = Nothing
         /\ final = <<>> /\ Dying = {} /\ Safe = InUse
<1>1. \A u \in Contexts : u # c => pc[u] \in {"run", "wait"}
  BY DEF Control, Collecting
<1>2. \A u \in Contexts : rmw[u] = Nothing
  BY <1>1 DEF TypeOK
<1>3. final = <<>>
  BY <1>1 DEF FinalInv
<1>4. Dying = {}
  BY <1>3 DEF Dying
<1> QED
  BY <1>1, <1>2, <1>3, <1>4 DEF Safe

LEMMA DoomedIs ==
  ASSUME PairsOK, NEW L
  PROVE  /\ Doomed(L) \in Seq(Pair) /\ IsInjective(Doomed(L))
         /\ ToSet(Doomed(L)) = {x \in Used : x.thing \notin L /\ byte[x.flagp].locks = 0}
         /\ Len(Doomed(L)) \in 0..Cardinality(InUse)
<1> DEFINE D == {x \in Used : x.thing \notin L /\ byte[x.flagp].locks = 0}
           d == Doomed(L)
<1>1. Pairs \in Seq(Pair) /\ IsInjective(Pairs) /\ D \subseteq ToSet(Pairs)
  BY DEF PairsOK, Used
<1>2. d = Chosen(Pairs, D)
  BY DEF Doomed, Only, Chosen
<1> HIDE DEF d
<1>3. d \in Seq(Pair) /\ IsInjective(d) /\ ToSet(d) = D
  BY <1>1, <1>2, ChosenElements
<1>4. Used \subseteq Pair /\ OneToOne(Used)
  BY DEF PairsOK, Used, OneToOne
<1>5. IsFiniteSet(Used) /\ Cardinality(Used) = Cardinality(InUse) /\ Cardinality(Used) \in Nat
  BY <1>4, AsMany, FS_CardinalityType DEF InUse
<1>6. Cardinality(ToSet(d)) = Len(d)
  BY <1>3, InjectiveLength
<1>7. Cardinality(ToSet(d)) <= Cardinality(Used)
  BY <1>3, <1>5, FS_Subset
<1>8. Len(d) \in Nat
  BY <1>3
<1> QED
  BY <1>3, <1>5, <1>6, <1>7, <1>8 DEF d

LEMMA MarkAndSweepKeeps ==
  ASSUME IInv, ~broken, NEW c \in Contexts, MarkAndSweep(c)
  PROVE  IInv'
<1> DEFINE L == Live
           doomed == Doomed(L)
<1>1. /\ TypeOK /\ Control /\ HeapInv /\ ReachInv /\ LockInv /\ FinalInv /\ FreeInv /\ NoMarks /\ InStep(things, flags)
      /\ pc \in [Contexts -> PCs] /\ byte \in [Addresses -> Bytes] /\ held \in [Addresses -> Nat]
  BY DEF IInv, HeapInv, TypeOK
<1>2. /\ pc[c] = "mark" /\ pc' = [pc EXCEPT ![c] = "finalize"]
      /\ final' = doomed /\ byte' = Unmarked /\ gcBytes' = gcBytes - Len(doomed) /\ again' = FALSE
      /\ UNCHANGED <<things, flags, freelist, gcPoke, slot, roots, newborn, tried, rmw, held, broken>>
  BY DEF MarkAndSweep, SweepWith, Goto, pools, program, locks
<1>3. Pairs' = Pairs /\ InStep(things, flags)' /\ PairsOK
  BY <1>1, <1>2, PoolsStay
<1>4. byte' = byte
  <2>1. \A f \in Addresses : byte'[f] = [byte[f] EXCEPT !.mark = FALSE]
    BY <1>2 DEF Unmarked
  <2>2. \A f \in Addresses : byte[f] \in Bytes /\ byte[f].mark = FALSE
    BY <1>1 DEF NoMarks, Bytes
  <2>3. \A f \in Addresses : byte'[f] = byte[f]
    BY <2>1, <2>2 DEF Bytes
  <2>4. byte' = [f \in Addresses |-> byte'[f]]
    BY <1>2 DEF Unmarked
  <2> QED
    BY <1>1, <2>3, <2>4
<1>5. /\ \A u \in Contexts : u # c => pc[u] \in {"run", "wait"}
      /\ \A u \in Contexts : rmw[u] = Nothing
      /\ final = <<>> /\ Dying = {} /\ Safe = InUse
  BY <1>1, <1>2, MarkAlone
<1>6. L = Closure(Roots, InUse)
  BY <1>1, <1>3, LiveIs
<1>7. /\ doomed \in Seq(Pair) /\ IsInjective(doomed)
      /\ ToSet(doomed) = {x \in Used : x.thing \notin L /\ byte[x.flagp].locks = 0}
      /\ Len(doomed) \in 0..Cardinality(InUse)
  BY <1>3, DoomedIs
<1> HIDE DEF doomed, L
<1>8. Used' = Used
  BY <1>3, <1>4 DEF Used
<1>9. InUse' = InUse
  BY <1>8 DEF InUse
<1>10. /\ pc' \in [Contexts -> PCs] /\ pc'[c] = "finalize"
       /\ \A u \in Contexts : u # c => pc'[u] = pc[u]
  BY <1>1, <1>2 DEF PCs
<1>11. c \in Collecting /\ c \in Collecting'
  BY <1>2, <1>10 DEF Collecting
<1>12. Control'
  BY <1>1, <1>2, <1>11, ControlMove
<1>13. NoMarks'
  BY <1>1, <1>4 DEF NoMarks
<1>14. FreeInv'
  BY <1>1, <1>2, <1>3, <1>8, <1>11 DEF FreeInv
<1>15. FinalInv'
  <2>1. gcBytes' = Cardinality(InUse') - Len(final')
    <3>1. gcBytes = Cardinality(InUse) - Len(final) /\ Len(final) = 0
      BY <1>1, <1>5 DEF FinalInv
    <3>2. Cardinality(InUse) \in Nat
      <4>1. Used \subseteq Pair /\ OneToOne(Used)
        BY <1>3 DEF PairsOK, Used, OneToOne
      <4> QED
        BY <4>1, AsMany, FS_CardinalityType DEF InUse
    <3>3. gcBytes = Cardinality(InUse)
      BY <3>1, <3>2
    <3> QED
      BY <1>2, <1>9, <3>3
  <2> QED
    BY <1>2, <1>7, <1>8, <1>10, <2>1 DEF FinalInv
<1>16. /\ L \subseteq InUse /\ Roots \subseteq L
       /\ \A t \in L : slot[t] \in InUse => slot[t] \in L
  <2>1. Roots \subseteq InUse
    BY <1>1, <1>5 DEF ReachInv
  <2> QED
    BY <1>6, <2>1, ClosureClosed
<1>17. Safe' = {x.thing : x \in {y \in Used : y.thing \in L \/ byte[y.flagp].locks # 0}}
  <2>1. Dying' = {x.thing : x \in ToSet(doomed)}
    BY <1>2 DEF Dying, ToSet
  <2>2. \A x, y \in Used : x.thing = y.thing => x = y
    BY <1>3 DEF PairsOK, OneToOne, Used
  <2>3. Safe' = InUse \ Dying'
    BY <1>9 DEF Safe
  <2>4. ASSUME NEW t \in InUse \ Dying'
        PROVE  \E y \in Used : t = y.thing /\ (y.thing \in L \/ byte[y.flagp].locks # 0)
    <3>1. PICK y \in Used : y.thing = t
      BY DEF InUse
    <3>2. y \notin ToSet(doomed)
      BY <2>1, <3>1
    <3> QED
      BY <1>7, <3>1, <3>2
  <2>5. ASSUME NEW y \in Used, y.thing \in L \/ byte[y.flagp].locks # 0
        PROVE  y.thing \in InUse \ Dying'
    <3>1. y \notin ToSet(doomed)
      BY <1>7, <2>5
    <3>2. \A x \in ToSet(doomed) : x \in Used
      BY <1>7
    <3>3. y.thing \notin Dying'
      BY <2>1, <2>2, <3>1, <3>2
    <3> QED
      BY <3>3 DEF InUse
  <2> QED
    BY <2>3, <2>4, <2>5
<1>18. \A y \in Used : y.thing \in L \/ byte[y.flagp].locks # 0 => y.thing \in Safe'
  BY <1>17
<1>19. Safe' \subseteq InUse
  BY <1>9 DEF Safe
<1>20. ReachInv'
  <2>1. Roots' = Roots
    BY <1>2 DEF Roots
  <2>2. Roots' \subseteq Safe'
    <3>1. L \subseteq Safe'
      BY <1>16, <1>18 DEF InUse
    <3> QED
      BY <1>16, <2>1, <3>1
  <2>3. \A t \in Safe' : slot'[t] \in Safe' \cup {Nothing}
    <3> SUFFICES ASSUME NEW y \in Used, y.thing \in L \/ byte[y.flagp].locks # 0
                 PROVE  slot[y.thing] \in Safe' \cup {Nothing}
      BY <1>2, <1>17
    <3>1. y.thing \in InUse /\ slot[y.thing] \in InUse \cup {Nothing} /\ y.thing \in Addresses
      <4>1. y.thing \in InUse
        BY DEF InUse
      <4>2. y.thing \in Addresses
        BY <1>3 DEF PairsOK, Used, Pair
      <4> QED
        BY <1>1, <1>5, <4>1, <4>2 DEF ReachInv
    <3>2. CASE y.thing \in L
      <4>1. slot[y.thing] \in L \cup {Nothing}
        BY <1>16, <3>1, <3>2
      <4>2. L \subseteq Safe'
        BY <1>16, <1>18 DEF InUse
      <4> QED
        BY <4>1, <4>2
    <3>3. CASE byte[y.flagp].locks # 0
      <4>1. y.thing \notin Objects
        <5>1. Pending(y.thing) = 0
          BY <1>2, <1>5 DEF Pending
        <5>2. held[y.thing] \in Nat
          BY <1>1, <3>1
        <5>3. CASE byte[y.flagp].locks = LockMask /\ y.thing \notin Objects
          BY <5>3
        <5>4. CASE byte[y.flagp].locks = held[y.thing] + Pending(y.thing)
          <6>1. held[y.thing] > 0
            BY <3>3, <5>1, <5>2, <5>4
          <6> QED
            BY <1>1, <3>1, <6>1 DEF LockInv
        <5> QED
          BY <1>1, <5>3, <5>4 DEF LockInv
      <4> QED
        BY <1>1, <3>1, <4>1 DEF ReachInv
    <3> QED
      BY <3>2, <3>3
  <2>4. \A t \in Addresses \ Objects : slot'[t] = Nothing
    BY <1>1, <1>2 DEF ReachInv
  <2> QED
    BY <1>1, <1>2, <2>2, <2>3, <2>4 DEF ReachInv
<1>21. LockInv'
  <2>1. \A u \in Contexts : pc'[u] = "unlock" <=> pc[u] = "unlock"
    BY <1>2, <1>10
  <2>2. ASSUME NEW t \in Safe \ Objects, held[t] > 0 PROVE t \in Safe'
    <3>1. PICK y \in Used : y.thing = t
      BY <1>5 DEF InUse
    <3>2. byte[y.flagp].locks # 0
      <4>1. LockMask # 0 /\ Pending(t) = 0 /\ t \in Addresses /\ t \in InUse
        BY <1>2, <1>3, <1>5, <2>2, <3>1, GCHeapAssumption DEF Pending, GCHeapAssumption, PairsOK, Used, Pair
      <4>2. held[t] \in Nat
        BY <1>1, <4>1
      <4>3. CASE byte[y.flagp].locks = LockMask
        BY <4>1, <4>3
      <4>4. CASE byte[y.flagp].locks = held[t] + Pending(t)
        BY <2>2, <4>1, <4>2, <4>4
      <4> QED
        BY <1>1, <3>1, <4>3, <4>4 DEF LockInv
    <3> QED
      BY <1>18, <3>1, <3>2
  <2>3. LocksStay
    BY <1>2, <1>4, <1>5, <1>8, <2>1, <2>2 DEF LocksStay, locks
  <2> QED
    BY <1>1, <2>3, LocksKept
<1>22. TypeOK'
  <2>1. gcBytes' \in 0..(MaxArenas * Per)
    <3>1. (PairsOK /\ FinalInv /\ final \in Seq(Pair) => gcBytes \in 0..(MaxArenas * Per))'
      BY GcBytesType, PTL
    <3>2. PairsOK'
      <4>1. (things \in Seq(Arena) /\ flags \in Seq(Arena) /\ InStep(things, flags) => PairsOK)'
        BY PairsFacts, PTL
      <4>2. (things \in Seq(Arena))' /\ (flags \in Seq(Arena))'
        BY <1>1, <1>2 DEF TypeOK, Arena
      <4> QED
        BY <1>3, <4>1, <4>2
    <3> QED
      BY <1>2, <1>7, <1>15, <3>1, <3>2
  <2>2. \A u \in Contexts : rmw'[u] = Nothing <=> pc'[u] \notin {"lock", "unlock"}
    BY <1>2, <1>5, <1>10
  <2> QED
    BY <1>1, <1>2, <1>4, <1>7, <1>10, <2>1, <2>2 DEF TypeOK, Pair
<1> QED
  BY <1>3, <1>12, <1>13, <1>14, <1>15, <1>20, <1>21, <1>22 DEF IInv, HeapInv

\* The collector lets the others go on.
LEMMA DoneMoves ==
  ASSUME TypeOK, Control, NEW c \in Contexts, pc[c] \in {"mark", "finalize"}, Done(c)
  PROVE  /\ pc' \in [Contexts -> {"run", "retry"}] /\ Collecting' = {} /\ Control'
         /\ \A u \in Contexts : pc[u] \notin {"lock", "unlock"} /\ rmw[u] = Nothing
<1>1. /\ \A u \in Contexts : u # c => pc[u] \in {"run", "wait"}
      /\ \A u \in Contexts : rmw[u] = Nothing <=> pc[u] \notin {"lock", "unlock"}
  BY DEF Control, Collecting, TypeOK
<1>2. \A u \in Contexts : pc[u] \notin {"lock", "unlock"}
  BY <1>1
<1>3. \A u \in Contexts : Return(u) \in {"run", "retry"}
  BY DEF Return
<1>4. pc' = [u \in Contexts |-> IF u = c \/ pc[u] = "wait" THEN Return(u) ELSE pc[u]]
  BY DEF Done
<1>5. pc' \in [Contexts -> {"run", "retry"}]
  BY <1>1, <1>3, <1>4
<1>6. Collecting' = {}
  BY <1>5 DEF Collecting
<1> QED
  BY <1>1, <1>2, <1>5, <1>6 DEF Control

LEMMA SweepFailsKeeps ==
  ASSUME IInv, ~broken, NEW c \in Contexts, SweepFails(c)
  PROVE  IInv'
<1>1. /\ TypeOK /\ Control /\ FinalInv /\ InStep(things, flags) /\ HeapInv
      /\ byte \in [Addresses -> Bytes]
  BY DEF IInv, HeapInv, TypeOK
<1>2. /\ pc[c] = "mark" /\ Done(c) /\ broken' = TRUE /\ again' = FALSE
      /\ UNCHANGED <<things, flags, freelist, gcPoke, slot, roots, newborn, tried, final, rmw, held>>
      /\ \E n \in DOMAIN Doomed(Live) : gcBytes' = gcBytes - (n - 1)
      /\ \E W : byte' = [f \in Addresses |-> [byte[f] EXCEPT !.mark =
                    f \notin W /\ \E x \in ToSet(Pairs) : x.flagp = f /\ x.thing \in Live]]
  BY DEF SweepFails, pools, program, locks
<1>3. /\ pc' \in [Contexts -> {"run", "retry"}] /\ Control'
      /\ \A u \in Contexts : pc[u] \notin {"lock", "unlock"} /\ rmw[u] = Nothing
  BY <1>1, <1>2, DoneMoves
<1>4. PairsOK
  BY <1>1, <1>2, PoolsStay
<1>5. gcBytes' \in 0..(MaxArenas * Per)
  <2>1. /\ Len(Doomed(Live)) \in 0..Cardinality(InUse) /\ Doomed(Live) \in Seq(Pair)
    BY <1>4, DoomedIs
  <2>2. Cardinality(InUse) \in 0..(MaxArenas * Per)
    <3>1. Used \subseteq Pair /\ OneToOne(Used)
      BY <1>4 DEF PairsOK, Used, OneToOne
    <3> QED
      BY <3>1, AsMany DEF InUse
  <2>3. gcBytes = Cardinality(InUse)
    <3>1. final = <<>>
      BY <1>1, <1>2, MarkAlone
    <3>2. gcBytes = Cardinality(InUse) - Len(final) /\ Len(final) = 0
      BY <1>1, <3>1 DEF FinalInv
    <3> QED
      BY <2>2, <3>2
  <2>4. PICK n \in DOMAIN Doomed(Live) : gcBytes' = gcBytes - (n - 1)
    BY <1>2
  <2>5. n \in 1..Len(Doomed(Live))
    BY <2>1, <2>4
  <2> DEFINE L == Len(Doomed(Live))
             C == Cardinality(InUse)
             M == MaxArenas * Per
  <2>6. M \in Nat
    BY GCHeapAssumption DEF GCHeapAssumption
  <2>7. L \in 0..C /\ C \in 0..M /\ n \in 1..L /\ gcBytes' = C - (n - 1)
    BY <2>1, <2>2, <2>3, <2>4, <2>5
  <2> HIDE DEF L, C, M
  <2>8. gcBytes' \in 0..M
    BY <2>6, <2>7
  <2> QED
    BY <2>8 DEF M
<1>6. byte' \in [Addresses -> Bytes]
  <2>1. PICK W : byte' = [f \in Addresses |-> [byte[f] EXCEPT !.mark =
                    f \notin W /\ \E x \in ToSet(Pairs) : x.flagp = f /\ x.thing \in Live]]
    BY <1>2
  <2>2. \A f \in Addresses, b \in BOOLEAN : [byte[f] EXCEPT !.mark = b] \in Bytes
    BY <1>1 DEF Bytes
  <2>3. \A f \in Addresses : (f \notin W /\ \E x \in ToSet(Pairs) : x.flagp = f /\ x.thing \in Live) \in BOOLEAN
    OBVIOUS
  <2>4. \A f \in Addresses : [byte[f] EXCEPT !.mark =
                    f \notin W /\ \E x \in ToSet(Pairs) : x.flagp = f /\ x.thing \in Live] \in Bytes
    BY <2>2, <2>3
  <2> QED
    BY <2>1, <2>4
<1>7. TypeOK'
  <2>1. pc' \in [Contexts -> PCs] /\ \A u \in Contexts : rmw'[u] = Nothing <=> pc'[u] \notin {"lock", "unlock"}
    BY <1>2, <1>3 DEF PCs
  <2> QED
    BY <1>1, <1>2, <1>5, <1>6, <2>1 DEF TypeOK
<1> QED
  BY <1>2, <1>3, <1>7 DEF IInv

\* The next dying thing becomes free.
LEMMA FinalizeKeeps ==
  ASSUME IInv, ~broken, NEW c \in Contexts, Finalize(c)
  PROVE  IInv'
<1> DEFINE x == Head(final)
<1>1. /\ TypeOK /\ Control /\ HeapInv /\ ReachInv /\ LockInv /\ FinalInv /\ FreeInv /\ NoMarks /\ InStep(things, flags)
      /\ pc \in [Contexts -> PCs] /\ byte \in [Addresses -> Bytes] /\ final \in Seq(Pair)
      /\ slot \in [Addresses -> Addresses \cup {Nothing}]
  BY DEF IInv, HeapInv, TypeOK, Pair
<1>2. /\ pc[c] = "finalize" /\ final # <<>> /\ final' = Tail(final)
      /\ byte' = [byte EXCEPT ![x.flagp] = Final] /\ slot' = [slot EXCEPT ![x.thing] = Nothing]
      /\ UNCHANGED <<things, flags, freelist, gcBytes, gcPoke, again, roots, newborn, pc, tried, rmw, held, broken>>
  BY DEF Finalize, pools, locks
<1>3. Pairs' = Pairs /\ InStep(things, flags)' /\ PairsOK
  BY <1>1, <1>2, PoolsStay
<1>4. /\ x \in Pair /\ x \in ToSet(final)
      /\ Tail(final) \in Seq(Pair) /\ IsInjective(Tail(final)) /\ Len(Tail(final)) = Len(final) - 1
      /\ ToSet(Tail(final)) = ToSet(final) \ {x}
  BY <1>1, <1>2, TailElements DEF FinalInv
<1> HIDE DEF x
<1>5. x \in Used /\ x.thing \in Addresses /\ x.flagp \in Addresses
  BY <1>1, <1>4 DEF FinalInv, Pair
<1>6. /\ Final \in Bytes /\ ~Final.mark /\ Final.final /\ Final.locks = 0
  BY GCHeapAssumption DEF Final, Bytes, GCHeapAssumption
<1>7. /\ \A y \in ToSet(Pairs) : y # x => y.thing # x.thing /\ y.flagp # x.flagp
      /\ \A y \in ToSet(Pairs) : y \in Pair
      /\ Used \subseteq ToSet(Pairs)
  BY <1>3, <1>5 DEF PairsOK, OneToOne, Used
<1>8. /\ \A y \in ToSet(Pairs) : y # x => byte'[y.flagp] = byte[y.flagp]
      /\ byte'[x.flagp] = Final
      /\ \A t \in Addresses : t # x.thing => slot'[t] = slot[t]
      /\ slot'[x.thing] = Nothing
  BY <1>1, <1>2, <1>5, <1>7 DEF Pair
<1>9. Used' = Used \ {x}
  BY <1>3, <1>6, <1>8 DEF Used
<1>10. InUse' = InUse \ {x.thing} /\ x.thing \in InUse
  BY <1>5, <1>7, <1>9 DEF InUse
<1>11. Dying = {y.thing : y \in ToSet(final)} /\ Dying' = {y.thing : y \in ToSet(final')}
  BY DEF Dying, ToSet
<1>12. Dying' = Dying \ {x.thing} /\ x.thing \in Dying
  <2>1. ToSet(final) \subseteq ToSet(Pairs)
    BY <1>1, <1>7 DEF FinalInv
  <2> QED
    BY <1>2, <1>4, <1>7, <1>11, <2>1
<1>13. Safe' = Safe /\ x.thing \notin Safe
  BY <1>10, <1>12 DEF Safe
<1>14. NoMarks'
  BY <1>1, <1>2, <1>5, <1>6 DEF NoMarks
<1>15. c \in Collecting /\ Collecting' = Collecting
  BY <1>2 DEF Collecting
<1>16. Control'
  BY <1>1, <1>2, <1>15 DEF Control
<1>17. FreeInv'
  BY <1>1, <1>2, <1>3, <1>9, <1>15 DEF FreeInv
<1>18. FinalInv'
  <2>1. IsFiniteSet(InUse)
    <3>1. Used \subseteq Pair /\ OneToOne(Used)
      BY <1>3 DEF PairsOK, Used, OneToOne
    <3> QED
      BY <3>1, AsMany DEF InUse
  <2>2. Cardinality(InUse') = Cardinality(InUse) - 1 /\ Cardinality(InUse) \in Nat
    BY <1>10, <2>1, FS_RemoveElement, FS_CardinalityType
  <2>3. gcBytes' = Cardinality(InUse') - Len(final')
    <3>1. gcBytes = Cardinality(InUse) - Len(final) /\ Len(final) \in Nat
      BY <1>1 DEF FinalInv
    <3>2. gcBytes' = gcBytes /\ Len(final') = Len(final) - 1
      BY <1>2, <1>4
    <3> QED
      BY <2>2, <3>1, <3>2
  <2>4. IsInjective(final') /\ ToSet(final') \subseteq Used'
    BY <1>1, <1>2, <1>4, <1>9 DEF FinalInv
  <2>5. \E u \in Contexts : pc'[u] = "finalize"
    BY <1>2
  <2> QED
    BY <2>3, <2>4, <2>5 DEF FinalInv
<1>19. ReachInv'
  <2>1. Roots' = Roots
    BY <1>2 DEF Roots
  <2>2. \A t \in Safe' : slot'[t] \in Safe' \cup {Nothing}
    <3>1. Safe \subseteq Addresses
      BY <1>7 DEF Safe, InUse, Pair
    <3> QED
      BY <1>1, <1>8, <1>13, <3>1 DEF ReachInv
  <2>3. \A t \in Addresses \ Objects : slot'[t] = Nothing
    BY <1>1, <1>8 DEF ReachInv
  <2> QED
    BY <1>1, <1>2, <1>13, <2>1, <2>2, <2>3 DEF ReachInv
<1>20. LockInv'
  <2>1. \A u \in Contexts : rmw[u] = Nothing
    BY <1>1, <1>2 DEF Control, Collecting, TypeOK
  <2>2. \A y \in Used' : y \in Used /\ byte'[y.flagp].locks = byte[y.flagp].locks
    BY <1>7, <1>8, <1>9
  <2>3. LocksStay
    BY <1>2, <1>13, <2>1, <2>2 DEF LocksStay, locks
  <2> QED
    BY <1>1, <2>3, LocksKept
<1>21. TypeOK'
  <2>1. byte' \in [Addresses -> Bytes] /\ slot' \in [Addresses -> Addresses \cup {Nothing}]
    BY <1>1, <1>2, <1>5, <1>6
  <2> QED
    BY <1>1, <1>2, <1>4, <2>1 DEF TypeOK, Pair
<1> QED
  BY <1>3, <1>14, <1>16, <1>17, <1>18, <1>19, <1>20, <1>21 DEF IInv, HeapInv

\* An arena of things has something in use just if its flags have.
LEMMA UsedAlike ==
  ASSUME things \in Seq(Arena), flags \in Seq(Arena), InStep(things, flags)
  PROVE  Alike(things, flags, UsedThings, UsedFlags)
<1>1. \A x \in ToSet(Pairs) : \E k \in DOMAIN flags : /\ x.thing[1] = things[k].arena /\ x.flagp[1] = flags[k].arena
                                                      /\ k \in DOMAIN things
  <2> SUFFICES ASSUME NEW x \in ToSet(Pairs)
               PROVE  \E k \in DOMAIN flags : /\ x.thing[1] = things[k].arena /\ x.flagp[1] = flags[k].arena
                                              /\ k \in DOMAIN things
    OBVIOUS
  <2>1. PairOf(things, flags, x)
    BY PairsWalk, WalkPairs
  <2>2. PICK k \in DOMAIN flags : \E i \in 1..flags[k].used : x = PairAt(things, flags, k, i)
    BY <2>1 DEF PairOf
  <2>3. x.thing[1] = things[k].arena /\ x.flagp[1] = flags[k].arena
    BY <2>2 DEF PairAt
  <2>4. k \in DOMAIN things
    BY InStepLengths
  <2> QED
    BY <2>3, <2>4
<1>2. Apart(things) /\ Apart(flags)
  BY DEF InStep
<1>3. \A x, y \in ToSet(Pairs) : x.thing[1] = y.thing[1] <=> x.flagp[1] = y.flagp[1]
  <2> SUFFICES ASSUME NEW x \in ToSet(Pairs), NEW y \in ToSet(Pairs)
               PROVE  x.thing[1] = y.thing[1] <=> x.flagp[1] = y.flagp[1]
    OBVIOUS
  <2>1. PICK j \in DOMAIN flags : /\ x.thing[1] = things[j].arena /\ x.flagp[1] = flags[j].arena
                                  /\ j \in DOMAIN things
    BY <1>1
  <2>2. PICK k \in DOMAIN flags : /\ y.thing[1] = things[k].arena /\ y.flagp[1] = flags[k].arena
                                  /\ k \in DOMAIN things
    BY <1>1
  <2> QED
    BY <1>2, <2>1, <2>2 DEF Apart
<1>4. Used \subseteq ToSet(Pairs)
  BY DEF Used
<1>5. \A x \in ToSet(Pairs) : x.thing[1] \in UsedThings <=> \E y \in Used : y.thing[1] = x.thing[1]
  BY DEF UsedThings
<1>6. \A x \in ToSet(Pairs) : x.flagp[1] \in UsedFlags <=> \E y \in Used : y.flagp[1] = x.flagp[1]
  BY DEF UsedFlags
<1> QED
  BY <1>3, <1>4, <1>5, <1>6, PairsWalk DEF Alike

LEMMA RebuildKeeps ==
  ASSUME IInv, ~broken, NEW c \in Contexts, Rebuild(c)
  PROVE  IInv'
<1> DEFINE F == {x \in ToSet(Pairs) \ Used : x.thing[1] \in UsedThings}
<1>1. /\ TypeOK /\ Control /\ HeapInv /\ ReachInv /\ LockInv /\ FinalInv /\ FreeInv /\ NoMarks /\ InStep(things, flags)
      /\ pc \in [Contexts -> PCs] /\ byte \in [Addresses -> Bytes]
      /\ things \in Seq(Arena) /\ flags \in Seq(Arena)
  BY DEF IInv, HeapInv, TypeOK, Arena
<1>2. /\ pc[c] = "finalize" /\ final = <<>>
      /\ things' = Kept(things, UsedThings) /\ flags' = Kept(flags, UsedFlags)
      /\ freelist' = Only(Pairs, F)
      /\ byte' = [f \in Addresses |-> IF f \in ToSet(InOrder(flags')) THEN byte[f] ELSE Fresh]
      /\ IF again THEN Goto(c, "finalize", "mark") ELSE Done(c)
      /\ UNCHANGED <<gcBytes, gcPoke, again, slot, roots, newborn, tried, final, rmw, held, broken>>
  BY DEF Rebuild, RebuildWith, program, locks
<1>3. PairsOK
  BY <1>1, PairsFacts
<1>4. Dying = {} /\ Safe = InUse
  BY <1>2 DEF Dying, Safe
<1>5. Alike(things, flags, UsedThings, UsedFlags)
  BY <1>1, UsedAlike
<1>6. Pairs = Walk(things, flags) /\ Pairs' = Walk(things', flags')
  <2>1. Pairs' = Walk(things', flags')
    BY DEF Pairs, Walk
  <2> QED
    BY <2>1, PairsWalk
<1>7. /\ Used \subseteq ToSet(Pairs)
      /\ \A y \in Used : y.thing[1] \in UsedThings
  BY DEF Used, UsedThings
<1>8. \E x \in ToSet(Walk(things, flags)) : x.thing[1] \in UsedThings
  <2>1. Atom \in InUse
    BY <1>1, <1>4 DEF ReachInv, Roots
  <2>2. PICK y \in Used : y.thing = Atom
    BY <2>1 DEF InUse
  <2> QED
    BY <1>6, <1>7
<1>9. /\ things' \in Seq(Arena) /\ flags' \in Seq(Arena) /\ InStep(things', flags')
      /\ \A x : x \in ToSet(Pairs') <=> x \in ToSet(Pairs) /\ x.thing[1] \in UsedThings
  <2>1. /\ Kept(things, UsedThings) \in Seq(Arena) /\ Kept(flags, UsedFlags) \in Seq(Arena)
        /\ InStep(Kept(things, UsedThings), Kept(flags, UsedFlags))
        /\ \A x : x \in ToSet(Walk(Kept(things, UsedThings), Kept(flags, UsedFlags))) <=>
                    x \in ToSet(Walk(things, flags)) /\ x.thing[1] \in UsedThings
    BY <1>1, <1>5, <1>8, StepKept
  <2> QED
    BY <1>2, <1>6, <2>1
<1>10. InStep(things, flags)'
  BY <1>9 DEF InStep, Apart
<1>11. PairsOK'
  <2>1. (things \in Seq(Arena) /\ flags \in Seq(Arena) /\ InStep(things, flags) => PairsOK)'
    BY PairsFacts, PTL
  <2> QED
    BY <1>9, <1>10, <2>1
<1>12. \A x \in ToSet(Pairs') : byte'[x.flagp] = byte[x.flagp]
  <2> SUFFICES ASSUME NEW x \in ToSet(Pairs') PROVE byte'[x.flagp] = byte[x.flagp]
    OBVIOUS
  <2>1. x.flagp \in {y.flagp : y \in ToSet(Pairs')}
    OBVIOUS
  <2>2. x.flagp \in ToSet(InOrder(flags'))
    BY <1>11, <2>1 DEF PairsOK, InOrder
  <2>3. x.flagp \in Addresses
    BY <1>3, <1>9 DEF PairsOK, Pair
  <2> QED
    BY <1>2, <2>2, <2>3
<1>13. Used' = Used
  BY <1>7, <1>9, <1>12 DEF Used
<1>14. InUse' = InUse
  BY <1>13 DEF InUse
<1>15. Safe' = Safe
  BY <1>2, <1>4, <1>14 DEF Safe, Dying
<1>16. Fresh \in Bytes /\ ~Fresh.mark
  BY GCHeapAssumption DEF Fresh, Bytes, GCHeapAssumption
<1>17. byte' \in [Addresses -> Bytes] /\ NoMarks'
  <2>1. \A f \in Addresses : byte'[f] = byte[f] \/ byte'[f] = Fresh
    BY <1>2
  <2>2. \A f \in Addresses : byte'[f] \in Bytes /\ ~byte'[f].mark
    BY <1>1, <1>16, <2>1 DEF NoMarks
  <2>3. byte' = [f \in Addresses |-> byte'[f]]
    BY <1>2
  <2> QED
    BY <2>2, <2>3 DEF NoMarks
<1>18. /\ freelist' \in Seq(Pair) /\ IsInjective(freelist')
       /\ ToSet(freelist') = ToSet(Pairs') \ Used'
  <2>1. freelist' = Chosen(Pairs, F)
    BY <1>2 DEF Only, Chosen
  <2>2. Pairs \in Seq(Pair) /\ IsInjective(Pairs)
    BY <1>3 DEF PairsOK
  <2>3. freelist' \in Seq(Pair) /\ IsInjective(freelist') /\ ToSet(freelist') = ToSet(Pairs) \cap F
    BY <2>1, <2>2, ChosenElements
  <2>4. ToSet(Pairs) \cap F = ToSet(Pairs') \ Used'
    BY <1>7, <1>9, <1>13
  <2> QED
    BY <2>3, <2>4
<1>19. FreeInv'
  BY <1>18 DEF FreeInv
<1>20. FinalInv'
  BY <1>1, <1>2, <1>13, <1>14 DEF FinalInv
<1>21. \A u \in Contexts : rmw[u] = Nothing /\ pc[u] \notin {"lock", "unlock"}
  BY <1>1, <1>2 DEF Control, Collecting, TypeOK
<1>22. pc' \in [Contexts -> PCs] /\ Control' /\ \A u \in Contexts : pc'[u] \notin {"lock", "unlock"}
  <2>1. CASE again
    <3>1. pc' = [pc EXCEPT ![c] = "mark"]
      BY <1>2, <2>1 DEF Goto
    <3>2. c \in Collecting
      BY <1>2 DEF Collecting
    <3>3. Control'
      BY <1>1, <3>1, <3>2, ControlMove
    <3> QED
      BY <1>1, <1>21, <3>1, <3>3 DEF PCs
  <2>2. CASE ~again
    <3>1. Done(c)
      BY <1>2, <2>2
    <3>2. pc' \in [Contexts -> {"run", "retry"}] /\ Control'
      BY <1>1, <1>2, <3>1, DoneMoves
    <3> QED
      BY <3>2 DEF PCs
  <2> QED
    BY <2>1, <2>2
<1>23. ReachInv'
  <2>1. Roots' = Roots
    BY <1>2 DEF Roots
  <2> QED
    BY <1>1, <1>2, <1>15, <2>1 DEF ReachInv
<1>24. LockInv'
  <2>1. \A y \in Used' : y \in Used /\ byte'[y.flagp].locks = byte[y.flagp].locks
    <3>1. Used' \subseteq ToSet(Pairs')
      BY DEF Used
    <3> QED
      BY <1>12, <1>13, <3>1
  <2>2. LocksStay
    BY <1>2, <1>15, <1>21, <1>22, <2>1 DEF LocksStay, locks
  <2> QED
    BY <1>1, <2>2, LocksKept
<1>25. TypeOK'
  <2>1. freelist' \in Seq([thing : Addresses, flagp : Addresses])
    BY <1>18 DEF Pair
  <2>2. \A u \in Contexts : rmw'[u] = Nothing <=> pc'[u] \notin {"lock", "unlock"}
    BY <1>2, <1>21, <1>22
  <2> QED
    BY <1>1, <1>2, <1>9, <1>17, <1>22, <2>1, <2>2 DEF TypeOK, Arena
<1> QED
  BY <1>10, <1>17, <1>19, <1>20, <1>22, <1>23, <1>24, <1>25 DEF IInv, HeapInv
-----------------------------------------------------------------------------
(***************************************************************************)
(* The invariant.                                                          *)
(***************************************************************************)
LEMMA InitIInv == Init => IInv
<1> SUFFICES ASSUME Init PROVE IInv
  OBVIOUS
<1> DEFINE first == [arena |-> 1, used |-> 1]
           x == [thing |-> Atom, flagp |-> Atom]
<1>1. /\ MaxArenas \in Nat \ {0} /\ Per \in Nat \ {0} /\ LockMask \in Nat \ {0}
      /\ Objects \subseteq Addresses \ {<<1, 0>>}
      /\ Nothing \notin Addresses \cup [thing : Addresses, was : Bytes]
  BY GCHeapAssumption DEF GCHeapAssumption
<1>2. 1 \in 1..MaxArenas /\ 1 \in 0..Per /\ 0 \in 0..(Per - 1) /\ 0 \in 0..LockMask
  BY <1>1
<1>3. /\ things = <<first>> /\ flags = <<first>>
      /\ byte = [f \in Addresses |-> Fresh] /\ freelist = <<>> /\ final = <<>> /\ gcBytes = 1
      /\ gcPoke = FALSE /\ again = FALSE /\ broken = FALSE
      /\ slot = [t \in Addresses |-> Nothing] /\ roots = {Atom}
      /\ newborn = [n \in Contexts \X BOOLEAN |-> Nothing]
      /\ pc = [u \in Contexts |-> "run"] /\ tried = [u \in Contexts |-> FALSE]
      /\ rmw = [u \in Contexts |-> Nothing] /\ held = [t \in Addresses |-> 0]
  BY DEF Init
<1>4. first \in Arena /\ Fresh \in Bytes /\ Atom \in Addresses
  BY <1>2 DEF Arena, Fresh, Bytes, Atom, Addresses
<1>5. things \in Seq(Arena) /\ flags \in Seq(Arena)
  BY <1>3, <1>4
<1>6. InStep(things, flags)
  BY <1>3 DEF InStep, Apart
<1>7. PairsOK
  BY <1>5, <1>6, PairsFacts
<1>8. ToSet(Pairs) = {x}
  <2>1. \A y : y \in ToSet(Pairs) <=> PairOf(things, flags, y)
    BY <1>5, <1>6, WalkPairs, PairsWalk
  <2>2. DOMAIN flags = {1} /\ flags[1].used = 1 /\ things[1].arena = 1 /\ flags[1].arena = 1
    BY <1>3
  <2>3. 1..1 = {1} /\ 1 - 1 = 0
    OBVIOUS
  <2>4. PairAt(things, flags, 1, 1) = x
    BY <2>2, <2>3 DEF PairAt, Atom
  <2>5. \A y : PairOf(things, flags, y) <=> y = x
    BY <2>2, <2>3, <2>4 DEF PairOf
  <2> QED
    BY <2>1, <2>5
<1>9. Used = {x}
  BY <1>3, <1>4, <1>8 DEF Used, Fresh
<1>10. InUse = {Atom} /\ Dying = {} /\ Safe = {Atom}
  BY <1>3, <1>9 DEF InUse, Dying, Safe
<1>11. gcBytes \in 0..(MaxArenas * Per)
  <2>1. IsFiniteSet(Addresses) /\ Cardinality(Addresses) = MaxArenas * Per
    BY AddressesFinite
  <2>2. Cardinality({Atom}) <= Cardinality(Addresses) /\ Cardinality({Atom}) = 1
    BY <1>4, <2>1, FS_Subset, FS_Singleton
  <2>3. MaxArenas * Per \in Nat
    BY <1>1
  <2> DEFINE M == MaxArenas * Per
  <2> HIDE DEF M
  <2>4. M \in Nat /\ 1 <= M
    BY <2>1, <2>2, <2>3 DEF M
  <2>5. 1 \in 0..M
    BY <2>4
  <2> QED
    BY <1>3, <2>5 DEF M
<1>12. TypeOK
  <2>1. \A u \in Contexts : rmw[u] = Nothing <=> pc[u] \notin {"lock", "unlock"}
    BY <1>3
  <2>2. /\ byte \in [Addresses -> Bytes] /\ pc \in [Contexts -> PCs]
        /\ held \in [Addresses -> Nat] /\ roots \subseteq Addresses
    BY <1>3, <1>4 DEF PCs
  <2>3. freelist \in Seq(Pair) /\ final \in Seq(Pair)
    BY <1>3
  <2>4. gcPoke \in BOOLEAN /\ again \in BOOLEAN /\ broken \in BOOLEAN
    BY <1>3
  <2>5. slot \in [Addresses -> Addresses \cup {Nothing}]
    BY <1>3
  <2>6. newborn \in [Contexts \X BOOLEAN -> Addresses \cup {Nothing}]
    BY <1>3
  <2>7. tried \in [Contexts -> BOOLEAN]
    BY <1>3
  <2>8. rmw \in [Contexts -> [thing : Addresses, was : Bytes] \cup {Nothing}]
    BY <1>3
  <2> QED
    BY <1>5, <1>11, <2>1, <2>2, <2>3, <2>4, <2>5, <2>6, <2>7, <2>8 DEF TypeOK, Arena, Pair
<1>13. Collecting = {}
  BY <1>3 DEF Collecting
<1>14. NoMarks
  BY <1>3 DEF NoMarks, Fresh
<1>15. FreeInv
  BY <1>3, <1>8, <1>9 DEF FreeInv, IsInjective, ToSet
<1>16. FinalInv
  <2>1. Cardinality({Atom}) = 1
    BY FS_Singleton
  <2>2. gcBytes = Cardinality(InUse) - Len(final)
    BY <1>3, <1>10, <2>1
  <2>3. IsInjective(final) /\ ToSet(final) \subseteq Used /\ final = <<>>
    BY <1>3 DEF IsInjective, ToSet
  <2> QED
    BY <2>2, <2>3 DEF FinalInv
<1>17. ReachInv
  <2>1. Roots = {Atom}
    BY <1>3 DEF Roots
  <2> QED
    BY <1>3, <1>4, <1>10, <2>1 DEF ReachInv
<1>18. LockInv
  <2>1. Pending(Atom) = 0
    BY <1>3 DEF Pending
  <2>2. held[Atom] = 0 /\ byte[Atom].locks = 0
    BY <1>3, <1>4 DEF Fresh
  <2> QED
    BY <1>3, <1>9, <2>1, <2>2 DEF LockInv
<1> QED
  BY <1>6, <1>12, <1>13, <1>14, <1>15, <1>16, <1>17, <1>18 DEF IInv, HeapInv, Control

LEMMA NextIInv ==
  ASSUME Disciplined, IInv, [Next]_vars
  PROVE  IInv'
<1>1. CASE UNCHANGED vars
  <2>1. UNCHANGED <<things, flags, byte, freelist, gcBytes, gcPoke, again, slot, roots, newborn, pc, tried,
                    final, rmw, held, broken>>
    BY <1>1 DEF vars, heap, pools, program, locks
  <2>2. TypeOK'
    BY <2>1 DEF IInv, TypeOK
  <2>3. Collecting' = Collecting /\ Control'
    BY <2>1 DEF IInv, Control, Collecting
  <2>4. ASSUME ~broken PROVE HeapInv'
    <3>1. TypeOK /\ HeapInv /\ ReachInv
      BY <2>4 DEF IInv, HeapInv
    <3>2. Quiet
      BY <2>1, <2>3, <3>1, PoolsStay DEF Quiet
    <3>3. Roots' = Roots
      BY <2>1 DEF Roots
    <3> QED
      BY <2>1, <3>1, <3>2, <3>3, QuietKeeps DEF ReachInv, locks
  <2> QED
    BY <2>1, <2>2, <2>3, <2>4 DEF IInv
<1>2. CASE Next
  <2>1. ~broken
    BY <1>2 DEF Next
  <2>2. PICK c \in Contexts :
          \/ AllocFromList(c) \/ AllocFromArena(c) \/ AllocFails(c)
          \/ \E t \in Reachable :
               \/ \E u \in Reachable \cup {Nothing} : Assign(c, t, u)
               \/ CallLock(c, t)
          \/ \E t \in Reachable \cup {u \in Addresses : held[u] > 0} : AddRoot(c, t)
          \/ \E t \in Addresses : RemoveRoot(c, t) \/ CallUnlock(c, t)
          \/ Lock(c) \/ Unlock(c)
          \/ ForceGC(c) \/ EnterGC(c) \/ Stopped(c)
          \/ MarkAndSweep(c) \/ SweepFails(c) \/ Finalize(c) \/ Rebuild(c)
    BY <1>2 DEF Next
  <2>3. CASE AllocFromList(c) \/ AllocFromArena(c) \/ AllocFails(c)
    BY <2>1, <2>3, AllocFromListKeeps, AllocFromArenaKeeps, AllocFailsKeeps
  <2>4. CASE \E t \in Reachable : \E u \in Reachable \cup {Nothing} : Assign(c, t, u)
    BY <2>1, <2>4, AssignKeeps
  <2>5. CASE \E t \in Reachable : CallLock(c, t)
    BY <2>1, <2>5, CallLockKeeps
  <2>6. CASE \E t \in Reachable \cup {u \in Addresses : held[u] > 0} : AddRoot(c, t)
    BY <2>1, <2>6, AddRootKeeps
  <2>7. CASE \E t \in Addresses : RemoveRoot(c, t) \/ CallUnlock(c, t)
    BY <2>1, <2>7, RemoveRootKeeps, CallUnlockKeeps
  <2>8. CASE Lock(c) \/ Unlock(c)
    BY <2>1, <2>8, LockKeeps, UnlockKeeps
  <2>9. CASE ForceGC(c) \/ EnterGC(c) \/ Stopped(c)
    BY <2>1, <2>9, ForceGCKeeps, EnterGCKeeps, StoppedKeeps
  <2>10. CASE MarkAndSweep(c) \/ SweepFails(c)
    BY <2>1, <2>10, MarkAndSweepKeeps, SweepFailsKeeps
  <2>11. CASE Finalize(c) \/ Rebuild(c)
    BY <2>1, <2>11, FinalizeKeeps, RebuildKeeps
  <2> QED
    BY <2>2, <2>3, <2>4, <2>5, <2>6, <2>7, <2>8, <2>9, <2>10, <2>11
<1> QED
  BY <1>1, <1>2

\* The invariant of callers that lock strings alone and one at a time.
THEOREM Inductive == Disciplined => (Spec => []IInv)
<1> SUFFICES ASSUME Disciplined PROVE Spec => []IInv
  OBVIOUS
<1>1. IInv /\ [Next]_vars => IInv'
  BY NextIInv
<1> QED
  BY <1>1, InitIInv, PTL DEF Spec
-----------------------------------------------------------------------------
\* The pools stay in step, the freelist has every free thing once, and
\* rt->gcBytes counts the things in use, until memory has run out half-way
\* through an operation.
LEMMA IInvExact == IInv => HeapExact
<1> SUFFICES ASSUME IInv PROVE HeapExact
  OBVIOUS
<1>1. TypeOK
  BY DEF IInv
<1> SUFFICES ASSUME ~broken PROVE FlagsParallel /\ FreeListExact /\ BytesExact
  BY <1>1 DEF HeapExact, FlagsParallel, FreeListExact, BytesExact
<1>2. HeapInv /\ InStep(things, flags) /\ FreeInv /\ FinalInv /\ freelist \in Seq(Pair)
  BY <1>1 DEF IInv, HeapInv, TypeOK, Pair
<1>3. PairsOK
  BY <1>1, <1>2, PairsFacts DEF TypeOK, Arena
<1>4. \A n \in DOMAIN freelist : freelist[n] \in ToSet(Pairs) \ Used
  BY <1>2 DEF FreeInv, ToSet
<1>5. FlagsParallel
  BY <1>2, <1>3, <1>4 DEF FlagsParallel, InStep, PairsOK
<1> DEFINE listed == {freelist[n].thing : n \in DOMAIN freelist}
<1>6. listed = {x.thing : x \in ToSet(freelist)}
  BY DEF ToSet
<1>7. Cardinality(listed) = Len(freelist)
  <2>1. ToSet(freelist) \subseteq Pair /\ OneToOne(ToSet(freelist))
    BY <1>2, <1>3 DEF FreeInv, PairsOK, OneToOne
  <2>2. Cardinality(ToSet(freelist)) = Cardinality(listed)
    BY <1>6, <2>1, AsMany
  <2> QED
    BY <1>2, <2>2, InjectiveLength DEF FreeInv
<1>8. {x.thing : x \in ToSet(Pairs) \ Used} = ToSet(InOrder(things)) \ InUse
  BY <1>3 DEF PairsOK, OneToOne, Used, InUse
<1>9. listed \subseteq ToSet(InOrder(things)) \ InUse
  BY <1>2, <1>6, <1>8 DEF FreeInv
<1>10. Collecting = {} => listed = ToSet(InOrder(things)) \ InUse
  BY <1>2, <1>6, <1>8 DEF FreeInv
<1>11. FreeListExact
  BY <1>7, <1>9, <1>10 DEF FreeListExact
<1>12. BytesExact
  BY <1>2 DEF BytesExact, FinalInv
<1> QED
  BY <1>5, <1>11, <1>12

THEOREM HeapCorrect == Disciplined => (Spec => []HeapExact)
<1> SUFFICES ASSUME Disciplined PROVE Spec => []HeapExact
  OBVIOUS
<1>1. Spec => []IInv
  BY Inductive
<1> QED
  BY <1>1, IInvExact, PTL

\* Nothing that can be reached, and nothing locked, is freed or about to be.
LEMMA IInvKept == IInv => NothingLost
<1> SUFFICES ASSUME IInv, ~broken PROVE ReachableKept /\ LockedKept
  BY DEF NothingLost, ReachableKept, LockedKept
<1>1. TypeOK /\ HeapInv /\ InStep(things, flags) /\ ReachInv /\ LockInv
  BY DEF IInv, HeapInv
<1>2. PairsOK
  BY <1>1, PairsFacts DEF TypeOK, Arena
<1>3. Reachable \subseteq Safe
  BY <1>1, <1>2, ReachableSafe
<1>4. ReachableKept
  BY <1>3 DEF ReachableKept, Safe, Dying
<1>5. LockedKept
  BY <1>1 DEF LockedKept, LockInv, Safe
<1> QED
  BY <1>4, <1>5

THEOREM NothingLostCorrect == Disciplined => (Spec => []NothingLost)
<1> SUFFICES ASSUME Disciplined PROVE Spec => []NothingLost
  OBVIOUS
<1>1. Spec => []IInv
  BY Inductive
<1> QED
  BY <1>1, IInvKept, PTL
-----------------------------------------------------------------------------
\* While a context marks, nobody else does anything.
LEMMA OnlyMarks ==
  ASSUME IInv, Next, NEW c \in Contexts, pc[c] = "mark"
  PROVE  MarkAndSweep(c) \/ SweepFails(c)
<1>1. c \in Collecting /\ pc[c] \notin {"run", "retry", "finalize", "lock", "unlock", "gc", "stop"}
  BY DEF Collecting
<1>2. \A d \in Contexts : d # c => ~Running(d) /\ pc[d] \in {"run", "wait"}
  BY <1>1 DEF Running, IInv, Control
<1>3. \A d \in Contexts : ~Allocating(d)
  BY <1>1, <1>2 DEF Allocating
<1>4. \A d \in Contexts : ~AllocFromList(d) /\ ~AllocFromArena(d) /\ ~AllocFails(d)
  BY <1>3 DEF AllocFromList, AllocFromArena, AllocFails
<1>5. \A d \in Contexts : \A t, u : ~Assign(d, t, u)
  BY <1>1, <1>2 DEF Assign
<1>6. \A d \in Contexts : \A t : ~AddRoot(d, t) /\ ~RemoveRoot(d, t)
  BY <1>1, <1>2 DEF AddRoot, RemoveRoot
<1>7. \A d \in Contexts : \A t : ~CallLock(d, t) /\ ~CallUnlock(d, t)
  BY <1>1, <1>2 DEF CallLock, CallUnlock, Goto
<1>8. \A d \in Contexts : ~Lock(d) /\ ~Unlock(d)
  BY <1>1, <1>2 DEF Lock, Unlock, Goto
<1>9. \A d \in Contexts : ~ForceGC(d) /\ ~EnterGC(d)
  BY <1>1, <1>2 DEF ForceGC, EnterGC, Goto
<1>10. \A d \in Contexts : ~Stopped(d) /\ ~Finalize(d) /\ ~Rebuild(d)
  <2> SUFFICES ASSUME NEW d \in Contexts PROVE pc[d] \notin {"stop", "finalize"}
    BY DEF Stopped, Finalize, Rebuild, RebuildWith, Goto
  <2> QED
    BY <1>1, <1>2
<1>11. \A d \in Contexts : MarkAndSweep(d) \/ SweepFails(d) => d = c
  <2> SUFFICES ASSUME NEW d \in Contexts, pc[d] = "mark" PROVE d = c
    BY DEF MarkAndSweep, SweepWith, SweepFails, Goto
  <2> QED
    BY <1>2
<1> QED
  BY <1>4, <1>5, <1>6, <1>7, <1>8, <1>9, <1>10, <1>11 DEF Next

\* What is reached through things in use is reached.
LEMMA ReachedIs ==
  ASSUME TypeOK, PairsOK
  PROVE  Closure(Roots, InUse) \subseteq Reachable
<1>1. InUse \subseteq Addresses
  BY DEF PairsOK, InUse, Used, Pair
<1> SUFFICES ASSUME NEW t \in Closure(Roots, InUse), NEW R \in SUBSET Addresses,
                    Roots \cap Addresses \subseteq R,
                    \A r \in R : slot[r] \in Addresses => slot[r] \in R
             PROVE  t \in R
  BY <1>1 DEF Reachable, Closure
<1> DEFINE Q == R \cap InUse
<1>2. Roots \cap InUse \subseteq Q
  BY <1>1
<1>3. \A r \in Q : slot[r] \in InUse => slot[r] \in Q
  BY <1>1
<1>4. t \in Q
  BY <1>2, <1>3 DEF Closure
<1> QED
  BY <1>4

\* What a collection does not finalize can be reached or is locked.
LEMMA GarbageStep ==
  ASSUME IInv, Next, NEW c \in Contexts, pc[c] = "mark", pc'[c] = "finalize"
  PROVE  InUse' \subseteq Reachable' \cup Locked' \cup {final'[n].thing : n \in DOMAIN final'}
<1>1. /\ ~broken /\ TypeOK /\ Control /\ HeapInv /\ FinalInv /\ NoMarks /\ InStep(things, flags)
      /\ byte \in [Addresses -> Bytes]
  BY DEF IInv, Next, HeapInv, TypeOK
<1>2. ~SweepFails(c)
  <2> SUFFICES ASSUME Done(c) PROVE FALSE
    BY DEF SweepFails
  <2>1. pc'[c] \in {"run", "retry"}
    BY <1>1, DoneMoves
  <2> QED
    BY <2>1
<1>3. MarkAndSweep(c)
  BY <1>2, OnlyMarks
<1>4. /\ final' = Doomed(Live) /\ byte' = Unmarked
      /\ UNCHANGED <<things, flags, slot, roots, newborn>>
  BY <1>3 DEF MarkAndSweep, SweepWith, pools, program
<1>5. Pairs' = Pairs /\ PairsOK
  BY <1>1, <1>4, PoolsStay
<1>6. \A f \in Addresses : byte'[f].locks = byte[f].locks /\ byte'[f].final = byte[f].final
  BY <1>1, <1>4 DEF Unmarked, Bytes
<1>7. Used' = Used /\ Used \subseteq ToSet(Pairs) /\ \A x \in ToSet(Pairs) : x.flagp \in Addresses
  BY <1>5, <1>6 DEF Used, PairsOK, Pair
<1>8. ToSet(final') = {x \in Used : x.thing \notin Live /\ byte[x.flagp].locks = 0}
  BY <1>4, <1>5, DoomedIs
<1>9. Live \subseteq Reachable'
  <2>1. Live \subseteq Reachable
    BY <1>1, <1>5, LiveIs, ReachedIs
  <2>2. Reachable' = Reachable
    BY <1>4 DEF Reachable, Closure, Roots
  <2> QED
    BY <2>1, <2>2
<1> SUFFICES ASSUME NEW x \in Used
             PROVE  x.thing \in Reachable' \cup Locked' \cup {final'[n].thing : n \in DOMAIN final'}
  BY <1>7 DEF InUse
<1>10. CASE x.thing \in Live
  BY <1>9, <1>10
<1>11. CASE byte[x.flagp].locks # 0
  <2>1. byte[x.flagp].locks \in Nat /\ x.flagp \in Addresses
    BY <1>1, <1>7, GCHeapAssumption DEF Bytes, GCHeapAssumption
  <2>2. byte'[x.flagp].locks > 0
    BY <1>6, <1>11, <2>1
  <2>3. x.thing \in Locked'
    BY <1>5, <1>7, <2>2 DEF Locked
  <2> QED
    BY <2>3
<1>12. CASE x.thing \notin Live /\ byte[x.flagp].locks = 0
  <2>1. x \in ToSet(final')
    BY <1>8, <1>12
  <2> QED
    BY <2>1 DEF ToSet
<1> QED
  BY <1>10, <1>11, <1>12

THEOREM GarbageCorrect == Disciplined => (Spec => GarbageFreed)
<1> SUFFICES ASSUME Disciplined PROVE Spec => GarbageFreed
  OBVIOUS
<1>1. Spec => []IInv
  BY Inductive
<1>2. IInv /\ [Next]_vars =>
        [\A c \in Contexts : pc[c] = "mark" /\ pc'[c] = "finalize" =>
           InUse' \subseteq Reachable' \cup Locked' \cup {final'[n].thing : n \in DOMAIN final'}]_vars
  BY GarbageStep
<1> QED
  BY <1>1, <1>2, PTL DEF Spec, GarbageFreed

-----------------------------------------------------------------------------
(* JavaWrappers: the collected heap and that of Java.                      *)
CellStates == {Free} \cup [is : {"plain"}, prop : Cells \cup {NoRef}]
                     \cup [is : {"wrapper"}, of : Things \cup {NoRef, "missing"}]
ThingStates == {Free} \cup [is : {"plain"}, field : Things \cup {NoRef}] \cup [is : {"JSObject"}, js : Cells]

HeapsTypeOK ==
  heaps \in [linked : BOOLEAN, table : [Things -> Cells \cup {NoRef}], cells : [Cells -> CellStates],
             things : [Things -> ThingStates], refs : [Things -> Nat], roots : SUBSET (Things \X Cells),
             jsHeld : SUBSET Cells, javaHeld : SUBSET Things]

\* The entries of the table are the wrappers that have a Java object, and each
\* has one reference to it.
Wraps(c, t) == heaps.cells[c].is = "wrapper" /\ heaps.cells[c].of = t
EntriesExact ==
  \A t \in Things : /\ \A c \in Cells : Wraps(c, t) <=> heaps.table[t] = c
                    /\ heaps.refs[t] = IF heaps.table[t] = NoRef THEN 0 ELSE 1

RootsOfHandles ==
  \A t \in Things, c \in Cells :
    <<t, c>> \in heaps.roots <=> heaps.things[t].is = "JSObject" /\ heaps.things[t].js = c

\* Whatever is in use, reached or not, refers to what is in use.
UseClosed ==
  /\ \A c \in heaps.jsHeld : UsedCell(c)
  /\ \A c \in Cells : PropOf[c] # NoRef => UsedCell(PropOf[c])
  /\ \A t \in heaps.javaHeld : UsedThing(t)
  /\ \A t \in Things : FieldOf[t] # NoRef => UsedThing(FieldOf[t])
  /\ \A t \in Things : heaps.table[t] # NoRef => UsedThing(t)
  /\ \A t \in JSObjects : UsedCell(heaps.things[t].js)

WrappersInv == HeapsTypeOK /\ EntriesExact /\ RootsOfHandles /\ UseClosed

-----------------------------------------------------------------------------
LEMMA WrappersStartInv == heaps = WrappersStart => WrappersInv
<1> SUFFICES ASSUME heaps = WrappersStart PROVE WrappersInv
  OBVIOUS
<1> USE WrappersAssumption DEF WrappersAssumption
<1>1. HeapsTypeOK
  BY DEF WrappersStart, HeapsTypeOK, CellStates, ThingStates, Free
<1>2. /\ \A c \in Cells : heaps.cells[c].is = "free"
      /\ \A t \in Things : heaps.things[t].is = "free"
  BY DEF WrappersStart, Free
<1>3. EntriesExact
  BY <1>2 DEF WrappersStart, EntriesExact, Wraps
<1>4. RootsOfHandles
  BY <1>2 DEF WrappersStart, RootsOfHandles
<1>5. UseClosed
  BY <1>2 DEF WrappersStart, UseClosed, PropOf, FieldOf, JSObjects
<1> QED
  BY <1>1, <1>3, <1>4, <1>5 DEF WrappersInv

\* What is reached is closed and lies in every closed set that has the roots.
LEMMA ReachedClosed ==
  ASSUME NEW pointer, NEW S, S \subseteq DOMAIN pointer,
         \A a \in DOMAIN pointer : pointer[a] \in DOMAIN pointer \cup {NoRef}
  PROVE  /\ S \subseteq Reached(S, pointer)
         /\ Reached(S, pointer) \subseteq DOMAIN pointer
         /\ ClosedUnder(pointer, Reached(S, pointer))
<1>1. ASSUME NEW a \in Reached(S, pointer), pointer[a] # NoRef
      PROVE  pointer[a] \in Reached(S, pointer)
  BY <1>1 DEF Reached, ClosedUnder
<1> QED
  BY <1>1 DEF Reached, ClosedUnder

LEMMA ReachedLeast ==
  ASSUME NEW pointer, NEW S, NEW R \in SUBSET DOMAIN pointer, S \subseteq R, ClosedUnder(pointer, R)
  PROVE  Reached(S, pointer) \subseteq R
BY DEF Reached

LEMMA CellForms ==
  ASSUME HeapsTypeOK, NEW c \in Cells
  PROVE  /\ heaps.cells[c].is \in {"free", "plain", "wrapper"}
         /\ heaps.cells[c].is = "free" => heaps.cells[c] = Free
         /\ heaps.cells[c].is = "plain" => heaps.cells[c] = [is |-> "plain", prop |-> heaps.cells[c].prop]
                                           /\ heaps.cells[c].prop \in Cells \cup {NoRef}
         /\ heaps.cells[c].is = "wrapper" => heaps.cells[c] = Wrapper(heaps.cells[c].of)
                                             /\ heaps.cells[c].of \in Things \cup {NoRef, "missing"}
<1>1. heaps.cells[c] \in CellStates
  BY DEF HeapsTypeOK
<1> QED
  BY <1>1 DEF CellStates, Free, Wrapper

LEMMA ThingForms ==
  ASSUME HeapsTypeOK, NEW t \in Things
  PROVE  /\ heaps.things[t].is \in {"free", "plain", "JSObject"}
         /\ heaps.things[t].is = "free" => heaps.things[t] = Free
         /\ heaps.things[t].is = "plain" => heaps.things[t] = [is |-> "plain", field |-> heaps.things[t].field]
                                            /\ heaps.things[t].field \in Things \cup {NoRef}
         /\ heaps.things[t].is = "JSObject" => heaps.things[t] = [is |-> "JSObject", js |-> heaps.things[t].js]
                                               /\ heaps.things[t].js \in Cells
<1>1. heaps.things[t] \in ThingStates
  BY DEF HeapsTypeOK
<1> QED
  BY <1>1 DEF ThingStates, Free

LEMMA KeptClosed ==
  ASSUME HeapsTypeOK
  PROVE  /\ heaps.jsHeld \cup {r[2] : r \in heaps.roots} \subseteq KeptObjects
         /\ KeptObjects \subseteq Cells
         /\ \A c \in KeptObjects : PropOf[c] \in KeptObjects \cup {NoRef}
         /\ heaps.javaHeld \cup {t \in Things : heaps.refs[t] > 0} \subseteq KeptThings
         /\ KeptThings \subseteq Things
         /\ \A t \in KeptThings : FieldOf[t] \in KeptThings \cup {NoRef}
<1>1. /\ DOMAIN PropOf = Cells /\ DOMAIN FieldOf = Things
      /\ \A c \in Cells : PropOf[c] \in Cells \cup {NoRef}
      /\ \A t \in Things : FieldOf[t] \in Things \cup {NoRef}
  BY CellForms, ThingForms DEF PropOf, FieldOf
<1>2. /\ heaps.jsHeld \cup {r[2] : r \in heaps.roots} \subseteq Cells
      /\ heaps.javaHeld \cup {t \in Things : heaps.refs[t] > 0} \subseteq Things
  BY DEF HeapsTypeOK
<1> QED
  BY <1>1, <1>2, ReachedClosed DEF KeptObjects, KeptThings, ClosedUnder

LEMMA WrappersInvSound == WrappersInv => WrappersSound
<1> SUFFICES ASSUME WrappersInv PROVE WrappersSound
  OBVIOUS
<1> USE WrappersAssumption DEF WrappersAssumption, WrappersInv
<1>1. TableExact
  <2> SUFFICES ASSUME NEW t \in Things
               PROVE  Of(t) = {heaps.table[t]} \ {NoRef} /\ heaps.refs[t] = Cardinality(Of(t))
    BY DEF TableExact
  <2>1. heaps.table[t] \in Cells \cup {NoRef}
    BY DEF HeapsTypeOK
  <2>2. \A c \in Cells : heaps.cells[c] = Wrapper(t) <=> Wraps(c, t)
    <3> SUFFICES ASSUME NEW c \in Cells PROVE heaps.cells[c] = Wrapper(t) <=> Wraps(c, t)
      OBVIOUS
    <3>1. Wrapper(t).is = "wrapper" /\ Wrapper(t).of = t
      BY DEF Wrapper
    <3>2. Wraps(c, t) => heaps.cells[c] = Wrapper(t)
      BY CellForms DEF Wraps
    <3> QED
      BY <3>1, <3>2 DEF Wraps
  <2>3. Of(t) = {heaps.table[t]} \ {NoRef}
    BY <2>1, <2>2 DEF Of, EntriesExact
  <2>4. Of(t) = {} \/ Of(t) = {heaps.table[t]}
    BY <2>3
  <2> QED
    BY <2>1, <2>3, <2>4, FS_EmptySet, FS_Singleton DEF EntriesExact
<1>2. RootsExact
  <2>1. \A t \in JSObjects : heaps.things[t].js \in Cells
    BY ThingForms DEF JSObjects
  <2>2. heaps.roots \subseteq Things \X Cells
    BY DEF HeapsTypeOK
  <2> QED
    BY <2>1, <2>2 DEF RootsExact, RootsOfHandles, JSObjects
<1>3. \A c \in KeptObjects : UsedCell(c)
  <2> DEFINE R == {c \in Cells : UsedCell(c)}
  <2>1. R \in SUBSET DOMAIN PropOf /\ ClosedUnder(PropOf, R)
    <3>1. \A c \in Cells : PropOf[c] \in Cells \cup {NoRef}
      BY CellForms DEF PropOf
    <3> QED
      BY <3>1 DEF ClosedUnder, UseClosed, PropOf
  <2>2. heaps.jsHeld \cup {r[2] : r \in heaps.roots} \subseteq R
    <3>1. \A r \in heaps.roots : r = <<r[1], r[2]>> /\ r[1] \in Things /\ r[2] \in Cells
      BY DEF HeapsTypeOK
    <3> QED
      BY <3>1 DEF UseClosed, HeapsTypeOK, RootsOfHandles, JSObjects
  <2> QED
    BY <2>1, <2>2, ReachedLeast DEF KeptObjects
<1>4. \A t \in KeptThings : UsedThing(t)
  <2> DEFINE R == {t \in Things : UsedThing(t)}
  <2>1. R \in SUBSET DOMAIN FieldOf /\ ClosedUnder(FieldOf, R)
    <3>1. \A t \in Things : FieldOf[t] \in Things \cup {NoRef}
      BY ThingForms DEF FieldOf
    <3> QED
      BY <3>1 DEF ClosedUnder, UseClosed, FieldOf
  <2>2. heaps.javaHeld \cup {t \in Things : heaps.refs[t] > 0} \subseteq R
    BY DEF UseClosed, HeapsTypeOK, EntriesExact
  <2> QED
    BY <2>1, <2>2, ReachedLeast DEF KeptThings
<1>5. \A c \in Cells : heaps.cells[c].is = "wrapper" /\ heaps.cells[c].of \in Things => UsedThing(heaps.cells[c].of)
  BY DEF UseClosed, EntriesExact, Wraps
<1>6. NothingDangles
  BY <1>3, <1>4, <1>5, KeptClosed DEF NothingDangles, UseClosed
<1> QED
  BY <1>1, <1>2, <1>6 DEF WrappersSound

-----------------------------------------------------------------------------
\* What a step leaves alone.
LEMMA FreshCell ==
  ASSUME WrappersInv, FreeOf(heaps.cells) # {}
  PROVE  /\ NextFree(heaps.cells) \in Cells
         /\ heaps.cells[NextFree(heaps.cells)].is = "free"
BY DEF NextFree, FreeOf, WrappersInv, HeapsTypeOK

LEMMA FreshThing ==
  ASSUME WrappersInv, FreeOf(heaps.things) # {}
  PROVE  /\ NextFree(heaps.things) \in Things
         /\ heaps.things[NextFree(heaps.things)].is = "free"
BY DEF NextFree, FreeOf, WrappersInv, HeapsTypeOK

LEMMA SameRoots ==
  ASSUME RootsOfHandles, heaps'.roots = heaps.roots, heaps'.things = heaps.things
  PROVE  RootsOfHandles'
BY DEF RootsOfHandles

\* What a program comes to hold is in use.
LEMMA HoldObject ==
  ASSUME WrappersInv, NEW c \in Cells, UsedCell(c), heaps' = HeldByJS(heaps, c)
  PROVE  WrappersInv'
<1> USE WrappersAssumption DEF WrappersAssumption
<1>1. heaps' = [heaps EXCEPT !.jsHeld = heaps.jsHeld \cup {c}]
  <2>1. NoRef \notin heaps.jsHeld \cup {c}
    BY DEF WrappersInv, HeapsTypeOK
  <2> QED
    BY <2>1 DEF HeldByJS
<1>2. /\ heaps'.linked = heaps.linked /\ heaps'.table = heaps.table /\ heaps'.cells = heaps.cells
      /\ heaps'.things = heaps.things /\ heaps'.refs = heaps.refs /\ heaps'.roots = heaps.roots
      /\ heaps'.javaHeld = heaps.javaHeld /\ heaps'.jsHeld = heaps.jsHeld \cup {c}
  BY <1>1 DEF WrappersInv, HeapsTypeOK
<1>3. HeapsTypeOK'
  BY <1>1 DEF WrappersInv, HeapsTypeOK, CellStates, ThingStates
<1>4. EntriesExact' /\ RootsOfHandles'
  BY <1>2 DEF WrappersInv, EntriesExact, RootsOfHandles, Wraps
<1>5. UseClosed'
  BY <1>2 DEF WrappersInv, UseClosed, UsedCell, UsedThing, PropOf, FieldOf, JSObjects
<1> QED
  BY <1>3, <1>4, <1>5 DEF WrappersInv

LEMMA HoldThing ==
  ASSUME WrappersInv, NEW t \in Things, UsedThing(t), heaps' = HeldByJava(heaps, t)
  PROVE  WrappersInv'
<1> USE WrappersAssumption DEF WrappersAssumption
<1>1. heaps' = [heaps EXCEPT !.javaHeld = heaps.javaHeld \cup {t}]
  <2>1. NoRef \notin heaps.javaHeld \cup {t}
    BY DEF WrappersInv, HeapsTypeOK
  <2>2. (heaps.javaHeld \cup {t}) \ {NoRef} = heaps.javaHeld \cup {t}
    BY <2>1
  <2> QED
    BY <2>2 DEF HeldByJava
<1>2. /\ heaps'.linked = heaps.linked /\ heaps'.table = heaps.table /\ heaps'.cells = heaps.cells
      /\ heaps'.things = heaps.things /\ heaps'.refs = heaps.refs /\ heaps'.roots = heaps.roots
      /\ heaps'.jsHeld = heaps.jsHeld /\ heaps'.javaHeld = heaps.javaHeld \cup {t}
  BY <1>1 DEF WrappersInv, HeapsTypeOK
<1>3. HeapsTypeOK'
  BY <1>1 DEF WrappersInv, HeapsTypeOK, CellStates, ThingStates
<1>4. EntriesExact' /\ RootsOfHandles'
  BY <1>2 DEF WrappersInv, EntriesExact, RootsOfHandles, Wraps
<1>5. UseClosed'
  BY <1>2 DEF WrappersInv, UseClosed, UsedCell, UsedThing, PropOf, FieldOf, JSObjects
<1> QED
  BY <1>3, <1>4, <1>5 DEF WrappersInv

\* A new object, or the wrapper of nothing.
LEMMA NewCell ==
  ASSUME WrappersInv, NEW c \in Cells, heaps.cells[c].is = "free",
         NEW new \in {[is |-> "plain", prop |-> NoRef], Wrapper("missing"), Wrapper(NoRef)},
         NEW keeps \in {heaps.jsHeld, heaps.jsHeld \cup {c}},
         heaps' = [heaps EXCEPT !.cells = [heaps.cells EXCEPT ![c] = new], !.jsHeld = keeps]
  PROVE  WrappersInv'
<1> USE WrappersAssumption DEF WrappersAssumption
<1>1. /\ heaps'.linked = heaps.linked /\ heaps'.table = heaps.table /\ heaps'.things = heaps.things
      /\ heaps'.refs = heaps.refs /\ heaps'.roots = heaps.roots /\ heaps'.javaHeld = heaps.javaHeld
      /\ heaps'.jsHeld = keeps /\ heaps'.cells = [heaps.cells EXCEPT ![c] = new]
  BY DEF WrappersInv, HeapsTypeOK
<1>2. new \in CellStates /\ new.is \in {"plain", "wrapper"} /\ (new.is = "plain" => new.prop = NoRef)
      /\ (new.is = "wrapper" => new.of \notin Things)
  BY DEF CellStates, Wrapper
<1>3. HeapsTypeOK'
  BY <1>2 DEF WrappersInv, HeapsTypeOK
<1>4. /\ heaps'.cells[c] = new
      /\ \A d \in Cells \ {c} : heaps'.cells[d] = heaps.cells[d]
  BY <1>1 DEF WrappersInv, HeapsTypeOK
<1>5. \A d \in Cells, t \in Things : Wraps(d, t)' <=> Wraps(d, t)
  BY <1>2, <1>4 DEF Wraps
<1>6. EntriesExact' /\ RootsOfHandles'
  BY <1>1, <1>5 DEF WrappersInv, EntriesExact, RootsOfHandles
<1>7. \A d \in Cells : UsedCell(d) => UsedCell(d)'
  BY <1>2, <1>4 DEF UsedCell
<1>8. /\ UsedCell(c)' /\ PropOf'[c] = NoRef
      /\ \A d \in Cells \ {c} : PropOf'[d] = PropOf[d]
  BY <1>2, <1>4 DEF UsedCell, PropOf
<1>9. \A d \in Cells : PropOf[d] # NoRef => PropOf[d] \in Cells
  BY CellForms DEF PropOf, WrappersInv
<1>10. \A t \in JSObjects : t \in Things /\ heaps.things[t].js \in Cells
  BY ThingForms DEF JSObjects, WrappersInv
<1>11. JSObjects' = JSObjects /\ FieldOf' = FieldOf /\ \A t \in Things : UsedThing(t)' <=> UsedThing(t)
  BY <1>1 DEF JSObjects, FieldOf, UsedThing
<1>12. heaps.jsHeld \subseteq Cells
  BY DEF WrappersInv, HeapsTypeOK
<1>13. UseClosed'
  <2> USE DEF WrappersInv, UseClosed
  <2>1. \A d \in heaps'.jsHeld : UsedCell(d)'
    BY <1>1, <1>7, <1>8, <1>12
  <2>2. \A d \in Cells : PropOf'[d] # NoRef => UsedCell(PropOf[d])'
    BY <1>7, <1>8, <1>9
  <2>3. \A t \in JSObjects' : UsedCell(heaps.things[t].js)'
    BY <1>1, <1>7, <1>10, <1>11
  <2>4. \A t \in heaps'.javaHeld : UsedThing(t)'
    BY <1>1, <1>11 DEF HeapsTypeOK
  <2>5. \A t \in Things : FieldOf'[t] # NoRef => UsedThing(FieldOf[t])'
    BY <1>11, <1>1, ThingForms DEF UsedThing
  <2>6. \A t \in Things : heaps'.table[t] # NoRef => UsedThing(t)'
    BY <1>1, <1>11
  <2> QED
    BY <2>1, <2>2, <2>3, <2>4, <2>5, <2>6
<1> QED
  BY <1>3, <1>6, <1>13 DEF WrappersInv

LEMMA NewReflection ==
  ASSUME WrappersInv, NEW c \in Cells, heaps.cells[c].is = "free",
         NEW t \in Things, heaps.table[t] = NoRef, UsedThing(t),
         heaps' = Reflected(heaps, c, t)
  PROVE  WrappersInv'
<1> USE WrappersAssumption DEF WrappersAssumption
<1>0. (heaps.jsHeld \cup {c}) \ {NoRef} = heaps.jsHeld \cup {c}
  BY DEF WrappersInv, HeapsTypeOK
<1>1. heaps' = [heaps EXCEPT !.cells = [heaps.cells EXCEPT ![c] = Wrapper(t)],
                             !.refs = [heaps.refs EXCEPT ![t] = heaps.refs[t] + 1],
                             !.table = [heaps.table EXCEPT ![t] = c],
                             !.jsHeld = heaps.jsHeld \cup {c}]
  BY <1>0 DEF Reflected, HeldByJS, WrappersInv, HeapsTypeOK
<1>2. /\ heaps'.linked = heaps.linked /\ heaps'.table = [heaps.table EXCEPT ![t] = c] /\ heaps'.things = heaps.things
      /\ heaps'.refs = [heaps.refs EXCEPT ![t] = heaps.refs[t] + 1]
      /\ heaps'.roots = heaps.roots /\ heaps'.javaHeld = heaps.javaHeld
      /\ heaps'.jsHeld = heaps.jsHeld \cup {c} /\ heaps'.cells = [heaps.cells EXCEPT ![c] = Wrapper(t)]
  BY <1>1 DEF WrappersInv, HeapsTypeOK
<1>3. HeapsTypeOK'
  <2>1. Wrapper(t) \in CellStates
    BY DEF CellStates, Wrapper
  <2>2. /\ [heaps.cells EXCEPT ![c] = Wrapper(t)] \in [Cells -> CellStates]
        /\ [heaps.refs EXCEPT ![t] = heaps.refs[t] + 1] \in [Things -> Nat]
        /\ [heaps.table EXCEPT ![t] = c] \in [Things -> Cells \cup {NoRef}]
        /\ heaps.jsHeld \cup {c} \in SUBSET Cells
    BY <2>1 DEF WrappersInv, HeapsTypeOK
  <2> QED
    BY <1>1, <2>2 DEF WrappersInv, HeapsTypeOK
<1>4. /\ heaps'.cells[c].is = "wrapper" /\ heaps'.cells[c].of = t
      /\ \A d \in Cells \ {c} : heaps'.cells[d] = heaps.cells[d]
  BY <1>2 DEF WrappersInv, HeapsTypeOK, Wrapper
<1>5. /\ Wraps(c, t)'
      /\ \A u \in Things \ {t} : ~Wraps(c, u)'
      /\ \A d \in Cells \ {c}, u \in Things : Wraps(d, u)' <=> Wraps(d, u)
  BY <1>4 DEF Wraps
<1>6. /\ \A d \in Cells : ~Wraps(d, t)
      /\ \A u \in Things : ~Wraps(c, u)
  BY DEF WrappersInv, EntriesExact, Wraps
<1>7. EntriesExact'
  <2>1. heaps'.table[t] = c /\ heaps'.refs[t] = 1
    BY <1>2 DEF WrappersInv, EntriesExact, HeapsTypeOK
  <2>2. \A u \in Things \ {t} : heaps'.table[u] = heaps.table[u] /\ heaps'.refs[u] = heaps.refs[u]
    BY <1>2 DEF WrappersInv, HeapsTypeOK
  <2> QED
    BY <1>5, <1>6, <2>1, <2>2 DEF WrappersInv, EntriesExact
<1>8. RootsOfHandles'
  <2>1. heaps'.roots = heaps.roots /\ heaps'.things = heaps.things
    BY <1>2
  <2> QED
    BY <2>1, SameRoots DEF WrappersInv
<1>9. /\ \A d \in Cells : UsedCell(d) => UsedCell(d)'
      /\ UsedCell(c)' /\ PropOf'[c] = NoRef
      /\ \A d \in Cells \ {c} : PropOf'[d] = PropOf[d]
  BY <1>4 DEF UsedCell, PropOf
<1>10. /\ \A d \in Cells : PropOf[d] # NoRef => PropOf[d] \in Cells
       /\ \A u \in JSObjects : u \in Things /\ heaps.things[u].js \in Cells
       /\ heaps.jsHeld \subseteq Cells
  BY CellForms, ThingForms DEF PropOf, JSObjects, WrappersInv, HeapsTypeOK
<1>11. JSObjects' = JSObjects /\ FieldOf' = FieldOf /\ heaps'.things = heaps.things
  BY <1>2 DEF JSObjects, FieldOf
<1>12. UseClosed'
  <2> USE DEF WrappersInv, UseClosed
  <2>1. \A d \in heaps'.jsHeld : UsedCell(d)'
    BY <1>2, <1>9, <1>10
  <2>2. \A d \in Cells : PropOf'[d] # NoRef => UsedCell(PropOf[d])'
    BY <1>9, <1>10
  <2>3. \A u \in JSObjects' : UsedCell(heaps.things[u].js)'
    BY <1>9, <1>10, <1>11
  <2>4. /\ \A u \in heaps'.javaHeld : UsedThing(u)'
        /\ \A u \in Things : FieldOf'[u] # NoRef => UsedThing(FieldOf[u])'
    BY <1>2, <1>11 DEF UsedThing
  <2>5. \A u \in Things : heaps'.table[u] # NoRef => UsedThing(u)'
    BY <1>2, <1>11 DEF UsedThing, HeapsTypeOK
  <2> QED
    BY <2>1, <2>2, <2>3, <2>4, <2>5
<1> QED
  BY <1>3, <1>7, <1>8, <1>12 DEF WrappersInv

\* What the programs do with Java objects, a handle included.
LEMMA NewThingOf ==
  ASSUME WrappersInv, NEW t \in Things, heaps.things[t].is = "free",
         NEW new \in {[is |-> "plain", field |-> NoRef]} \cup [is : {"JSObject"}, js : Cells],
         new.is = "JSObject" => UsedCell(new.js),
         NEW rooted, rooted = heaps.roots \cup (IF new.is = "JSObject" THEN {<<t, new.js>>} ELSE {}),
         heaps' = [heaps EXCEPT !.things = [heaps.things EXCEPT ![t] = new], !.roots = rooted,
                                !.javaHeld = heaps.javaHeld \cup {t}]
  PROVE  WrappersInv'
<1> USE WrappersAssumption DEF WrappersAssumption
<1>1. /\ heaps'.linked = heaps.linked /\ heaps'.table = heaps.table /\ heaps'.cells = heaps.cells
      /\ heaps'.refs = heaps.refs /\ heaps'.roots = rooted /\ heaps'.jsHeld = heaps.jsHeld
      /\ heaps'.javaHeld = heaps.javaHeld \cup {t} /\ heaps'.things = [heaps.things EXCEPT ![t] = new]
  BY DEF WrappersInv, HeapsTypeOK
<1>2. /\ new \in ThingStates /\ new.is \in {"plain", "JSObject"}
      /\ new.is = "plain" => new.field = NoRef
      /\ new.is = "JSObject" => new.js \in Cells
  BY DEF ThingStates
<1>3. HeapsTypeOK'
  <2>1. rooted \in SUBSET (Things \X Cells)
    BY <1>2 DEF WrappersInv, HeapsTypeOK
  <2>2. [heaps.things EXCEPT ![t] = new] \in [Things -> ThingStates]
    BY <1>2 DEF WrappersInv, HeapsTypeOK
  <2>3. heaps.javaHeld \cup {t} \in SUBSET Things
    BY DEF WrappersInv, HeapsTypeOK
  <2> HIDE DEF ThingStates, CellStates
  <2> QED
    BY <2>1, <2>2, <2>3 DEF WrappersInv, HeapsTypeOK
<1>4. /\ heaps'.things[t] = new
      /\ \A u \in Things \ {t} : heaps'.things[u] = heaps.things[u]
  BY <1>1 DEF WrappersInv, HeapsTypeOK
<1>5. EntriesExact'
  BY <1>1 DEF WrappersInv, EntriesExact, Wraps
<1>6. RootsOfHandles'
  <2>1. \A c \in Cells : <<t, c>> \notin heaps.roots
    BY DEF WrappersInv, RootsOfHandles
  <2>2. \A u \in Things, c \in Cells :
          <<u, c>> \in rooted <=> <<u, c>> \in heaps.roots \/ (new.is = "JSObject" /\ u = t /\ c = new.js)
    OBVIOUS
  <2>3. SUFFICES ASSUME NEW u \in Things, NEW c \in Cells
                 PROVE  <<u, c>> \in heaps'.roots <=> heaps'.things[u].is = "JSObject" /\ heaps'.things[u].js = c
    BY DEF RootsOfHandles
  <2>4. CASE u = t
    BY <1>1, <1>4, <2>1, <2>2, <2>4
  <2>5. CASE u # t
    BY <1>1, <1>4, <2>2, <2>5 DEF WrappersInv, RootsOfHandles
  <2> QED
    BY <2>4, <2>5
<1>7. /\ \A u \in Things : UsedThing(u) => UsedThing(u)'
      /\ UsedThing(t)' /\ FieldOf'[t] = NoRef
      /\ \A u \in Things \ {t} : FieldOf'[u] = FieldOf[u]
      /\ \A u \in JSObjects' : (u \in JSObjects /\ u # t) \/ (u = t /\ new.is = "JSObject")
  BY <1>2, <1>4 DEF UsedThing, FieldOf, JSObjects
<1>8. /\ \A u \in Things : FieldOf[u] # NoRef => FieldOf[u] \in Things
      /\ heaps.javaHeld \subseteq Things
  BY ThingForms DEF FieldOf, WrappersInv, HeapsTypeOK
<1>9. PropOf' = PropOf /\ heaps'.cells = heaps.cells
  BY <1>1 DEF PropOf
<1>10. UseClosed'
  <2> USE DEF WrappersInv, UseClosed
  <2>1. /\ \A c \in heaps'.jsHeld : UsedCell(c)'
        /\ \A c \in Cells : PropOf'[c] # NoRef => UsedCell(PropOf[c])'
    BY <1>1, <1>9 DEF UsedCell
  <2>2. \A u \in heaps'.javaHeld : UsedThing(u)'
    BY <1>1, <1>7, <1>8
  <2>3. \A u \in Things : FieldOf'[u] # NoRef => UsedThing(FieldOf[u])'
    BY <1>7, <1>8
  <2>4. \A u \in Things : heaps'.table[u] # NoRef => UsedThing(u)'
    BY <1>1, <1>7
  <2>5. \A u \in JSObjects' : UsedCell(heaps.things[u].js)'
    BY <1>4, <1>7, <1>9 DEF UsedCell, JSObjects
  <2> QED
    BY <2>1, <2>2, <2>3, <2>4, <2>5
<1> QED
  BY <1>3, <1>5, <1>6, <1>10 DEF WrappersInv

\* A program assigns or forgets something it holds.
LEMMA AssignProperty ==
  ASSUME WrappersInv, SetProperty
  PROVE  WrappersInv'
<1> USE WrappersAssumption DEF WrappersAssumption
<1>1. PICK c \in heaps.jsHeld, d \in heaps.jsHeld :
        heaps.cells[c].is = "plain" /\ heaps' = [heaps EXCEPT !.cells[c].prop = d]
  BY DEF SetProperty
<1> DEFINE new == [heaps.cells[c] EXCEPT !.prop = d]
<1>2. /\ c \in Cells /\ d \in Cells /\ UsedCell(d)
      /\ new = [is |-> "plain", prop |-> d]
  <2>1. c \in Cells /\ d \in Cells /\ UsedCell(d)
    BY DEF WrappersInv, HeapsTypeOK, UseClosed
  <2>2. heaps.cells[c] = [is |-> "plain", prop |-> heaps.cells[c].prop]
    BY <1>1, <2>1, CellForms DEF WrappersInv
  <2> QED
    BY <2>1, <2>2
<1>3. heaps' = [heaps EXCEPT !.cells = [heaps.cells EXCEPT ![c] = new]]
  BY <1>1
<1> HIDE DEF new
<1>4. /\ heaps'.linked = heaps.linked /\ heaps'.table = heaps.table /\ heaps'.things = heaps.things
      /\ heaps'.refs = heaps.refs /\ heaps'.roots = heaps.roots /\ heaps'.javaHeld = heaps.javaHeld
      /\ heaps'.jsHeld = heaps.jsHeld /\ heaps'.cells = [heaps.cells EXCEPT ![c] = new]
  BY <1>3 DEF WrappersInv, HeapsTypeOK
<1>5. /\ heaps'.cells[c].is = "plain" /\ heaps'.cells[c].prop = d
      /\ \A a \in Cells \ {c} : heaps'.cells[a] = heaps.cells[a]
  BY <1>2, <1>4 DEF WrappersInv, HeapsTypeOK
<1>6. HeapsTypeOK'
  <2>1. new \in CellStates
    BY <1>2 DEF CellStates
  <2> QED
    BY <1>3, <2>1 DEF WrappersInv, HeapsTypeOK
<1>7. \A a \in Cells, t \in Things : Wraps(a, t)' <=> Wraps(a, t)
  BY <1>1, <1>5 DEF Wraps
<1>8. EntriesExact' /\ RootsOfHandles'
  BY <1>4, <1>7 DEF WrappersInv, EntriesExact, RootsOfHandles
<1>9. /\ \A a \in Cells : UsedCell(a) => UsedCell(a)'
      /\ PropOf'[c] = d
      /\ \A a \in Cells \ {c} : PropOf'[a] = PropOf[a]
  BY <1>2, <1>5 DEF UsedCell, PropOf
<1>10. /\ \A a \in Cells : PropOf[a] # NoRef => PropOf[a] \in Cells
       /\ \A u \in JSObjects : u \in Things /\ heaps.things[u].js \in Cells
       /\ heaps.jsHeld \subseteq Cells
  BY CellForms, ThingForms DEF PropOf, JSObjects, WrappersInv, HeapsTypeOK
<1>11. JSObjects' = JSObjects /\ FieldOf' = FieldOf /\ heaps'.things = heaps.things
  BY <1>4 DEF JSObjects, FieldOf
<1>12. UseClosed'
  <2> USE DEF WrappersInv, UseClosed
  <2>1. \A a \in heaps'.jsHeld : UsedCell(a)'
    BY <1>4, <1>9, <1>10
  <2>2. \A a \in Cells : PropOf'[a] # NoRef => UsedCell(PropOf[a])' 
    <3> SUFFICES ASSUME NEW a \in Cells, PropOf'[a] # NoRef
                 PROVE  heaps'.cells[PropOf'[a]].is # "free"
      BY DEF UsedCell
    <3>1. CASE a = c
      BY <1>2, <1>9, <3>1 DEF UsedCell
    <3>2. CASE a # c
      BY <1>9, <1>10, <3>2 DEF UsedCell
    <3> QED
      BY <3>1, <3>2
  <2>3. \A u \in JSObjects' : UsedCell(heaps.things[u].js)'
    BY <1>9, <1>10, <1>11 DEF UsedCell
  <2>4. /\ \A u \in heaps'.javaHeld : UsedThing(u)'
        /\ \A u \in Things : FieldOf'[u] # NoRef => UsedThing(FieldOf[u])'
        /\ \A u \in Things : heaps'.table[u] # NoRef => UsedThing(u)'
    BY <1>4, <1>11 DEF UsedThing
  <2> QED
    BY <2>1, <2>2, <2>3, <2>4
<1> QED
  BY <1>6, <1>8, <1>12 DEF WrappersInv

LEMMA AssignField ==
  ASSUME WrappersInv, SetField
  PROVE  WrappersInv'
<1> USE WrappersAssumption DEF WrappersAssumption
<1>1. PICK t \in heaps.javaHeld, v \in heaps.javaHeld :
        heaps.things[t].is = "plain" /\ heaps' = [heaps EXCEPT !.things[t].field = v]
  BY DEF SetField
<1> DEFINE new == [heaps.things[t] EXCEPT !.field = v]
<1>2. /\ t \in Things /\ v \in Things /\ UsedThing(v)
      /\ new = [is |-> "plain", field |-> v]
  <2>1. t \in Things /\ v \in Things /\ UsedThing(v)
    BY DEF WrappersInv, HeapsTypeOK, UseClosed
  <2>2. heaps.things[t] = [is |-> "plain", field |-> heaps.things[t].field]
    BY <1>1, <2>1, ThingForms DEF WrappersInv
  <2> QED
    BY <2>1, <2>2
<1>3. heaps' = [heaps EXCEPT !.things = [heaps.things EXCEPT ![t] = new]]
  BY <1>1
<1> HIDE DEF new
<1>4. /\ heaps'.linked = heaps.linked /\ heaps'.table = heaps.table /\ heaps'.cells = heaps.cells
      /\ heaps'.refs = heaps.refs /\ heaps'.roots = heaps.roots /\ heaps'.javaHeld = heaps.javaHeld
      /\ heaps'.jsHeld = heaps.jsHeld /\ heaps'.things = [heaps.things EXCEPT ![t] = new]
  BY <1>3 DEF WrappersInv, HeapsTypeOK
<1>5. /\ heaps'.things[t].is = "plain" /\ heaps'.things[t].field = v
      /\ \A a \in Things \ {t} : heaps'.things[a] = heaps.things[a]
  BY <1>2, <1>4 DEF WrappersInv, HeapsTypeOK
<1>6. HeapsTypeOK'
  <2>1. new \in ThingStates
    BY <1>2 DEF ThingStates
  <2> QED
    BY <1>3, <2>1 DEF WrappersInv, HeapsTypeOK
<1>7. EntriesExact'
  BY <1>4 DEF WrappersInv, EntriesExact, Wraps
<1>8. /\ JSObjects' = JSObjects /\ t \notin JSObjects
      /\ \A a \in JSObjects : heaps'.things[a] = heaps.things[a]
  BY <1>1, <1>5 DEF JSObjects
<1>9. RootsOfHandles'
  <2> SUFFICES ASSUME NEW u \in Things, NEW c \in Cells
               PROVE  <<u, c>> \in heaps'.roots <=> heaps'.things[u].is = "JSObject" /\ heaps'.things[u].js = c
    BY DEF RootsOfHandles
  <2>1. CASE u = t
    BY <1>1, <1>4, <1>5, <2>1 DEF WrappersInv, RootsOfHandles
  <2>2. CASE u # t
    BY <1>4, <1>5, <2>2 DEF WrappersInv, RootsOfHandles
  <2> QED
    BY <2>1, <2>2
<1>10. /\ \A a \in Things : UsedThing(a) => UsedThing(a)'
       /\ FieldOf'[t] = v
       /\ \A a \in Things \ {t} : FieldOf'[a] = FieldOf[a]
  BY <1>2, <1>5 DEF UsedThing, FieldOf
<1>11. /\ \A a \in Things : FieldOf[a] # NoRef => FieldOf[a] \in Things
       /\ heaps.javaHeld \subseteq Things
       /\ PropOf' = PropOf /\ heaps'.cells = heaps.cells
  <2>1. \A a \in Things : FieldOf[a] # NoRef => FieldOf[a] \in Things
    BY ThingForms DEF FieldOf, WrappersInv
  <2>2. PropOf' = PropOf /\ heaps'.cells = heaps.cells
    BY <1>4 DEF PropOf
  <2> QED
    BY <2>1, <2>2 DEF WrappersInv, HeapsTypeOK
<1>12. UseClosed'
  <2> USE DEF WrappersInv, UseClosed
  <2>1. /\ \A c \in heaps'.jsHeld : UsedCell(c)'
        /\ \A c \in Cells : PropOf'[c] # NoRef => UsedCell(PropOf[c])'
    BY <1>4, <1>11 DEF UsedCell
  <2>2. /\ \A u \in heaps'.javaHeld : UsedThing(u)'
        /\ \A u \in Things : heaps'.table[u] # NoRef => UsedThing(u)'
    BY <1>4, <1>10, <1>11
  <2>3. \A a \in Things : FieldOf'[a] # NoRef => UsedThing(FieldOf[a])'
    <3> SUFFICES ASSUME NEW a \in Things, FieldOf'[a] # NoRef
                 PROVE  heaps'.things[FieldOf'[a]].is # "free"
      BY DEF UsedThing
    <3>1. CASE a = t
      BY <1>2, <1>10, <3>1 DEF UsedThing
    <3>2. CASE a # t
      BY <1>10, <1>11, <3>2 DEF UsedThing
    <3> QED
      BY <3>1, <3>2
  <2>4. \A u \in JSObjects' : UsedCell(heaps.things[u].js)'
    BY <1>8, <1>11 DEF UsedCell
  <2> QED
    BY <2>1, <2>2, <2>3, <2>4
<1> QED
  BY <1>6, <1>7, <1>9, <1>12 DEF WrappersInv

LEMMA Forget ==
  ASSUME WrappersInv, DropObject \/ DropThing \/ Connect
  PROVE  WrappersInv'
<1>1. /\ heaps'.linked \in BOOLEAN /\ heaps'.table = heaps.table /\ heaps'.cells = heaps.cells
      /\ heaps'.things = heaps.things /\ heaps'.refs = heaps.refs /\ heaps'.roots = heaps.roots
      /\ heaps'.jsHeld \subseteq heaps.jsHeld /\ heaps'.javaHeld \subseteq heaps.javaHeld
  BY DEF DropObject, DropThing, Connect, WrappersInv, HeapsTypeOK
<1>2. HeapsTypeOK'
  BY DEF DropObject, DropThing, Connect, WrappersInv, HeapsTypeOK
<1>3. EntriesExact' /\ RootsOfHandles'
  BY <1>1 DEF WrappersInv, EntriesExact, RootsOfHandles, Wraps
<1>4. UseClosed'
  BY <1>1 DEF WrappersInv, UseClosed, UsedCell, UsedThing, PropOf, FieldOf, JSObjects
<1> QED
  BY <1>2, <1>3, <1>4 DEF WrappersInv

-----------------------------------------------------------------------------
\* A collection of JavaScript's heap takes nothing that is referred to, and the
\* entries and references of the wrappers it takes.
LEMMA ObjectsCollected ==
  ASSUME WrappersInv, CollectObjects
  PROVE  WrappersInv'
<1> USE WrappersAssumption DEF WrappersAssumption
<1> DEFINE dead == Cells \ KeptObjects
<1>1. heaps' = [heaps EXCEPT
                  !.cells = [c \in Cells |-> IF c \in dead THEN Free ELSE heaps.cells[c]],
                  !.table = [t \in Things |-> IF t \in Finalized(dead) THEN NoRef ELSE heaps.table[t]],
                  !.refs = [t \in Things |-> IF t \in Finalized(dead) THEN heaps.refs[t] - 1 ELSE heaps.refs[t]]]
  BY DEF CollectObjects, JavaObject_finalize, WrappersInv, HeapsTypeOK
<1>2. /\ heaps'.linked = heaps.linked /\ heaps'.things = heaps.things /\ heaps'.roots = heaps.roots
      /\ heaps'.javaHeld = heaps.javaHeld /\ heaps'.jsHeld = heaps.jsHeld
      /\ heaps'.cells = [c \in Cells |-> IF c \in dead THEN Free ELSE heaps.cells[c]]
      /\ heaps'.table = [t \in Things |-> IF t \in Finalized(dead) THEN NoRef ELSE heaps.table[t]]
      /\ heaps'.refs = [t \in Things |-> IF t \in Finalized(dead) THEN heaps.refs[t] - 1 ELSE heaps.refs[t]]
  BY <1>1 DEF WrappersInv, HeapsTypeOK
<1> HIDE DEF dead
<1>3. dead \subseteq Cells
  BY DEF dead
<1>4. \A t \in Things : /\ t \in Finalized(dead) <=> heaps.table[t] \in dead
                        /\ heaps.table[t] \in Cells \cup {NoRef}
  BY <1>3 DEF Finalized, WrappersInv, EntriesExact, Wraps, HeapsTypeOK
<1>5. HeapsTypeOK'
  <2>1. \A t \in Things : heaps.table[t] \in dead => heaps.refs[t] = 1
    BY <1>3 DEF WrappersInv, EntriesExact
  <2>2. /\ heaps'.cells \in [Cells -> CellStates]
        /\ heaps'.table \in [Things -> Cells \cup {NoRef}]
        /\ heaps'.refs \in [Things -> Nat]
    BY <1>2, <1>4, <2>1 DEF WrappersInv, HeapsTypeOK, CellStates
  <2> QED
    BY <1>1, <1>2, <2>2 DEF WrappersInv, HeapsTypeOK
<1>6. /\ \A c \in dead : heaps'.cells[c].is = "free"
      /\ \A c \in Cells \ dead : heaps'.cells[c] = heaps.cells[c]
  BY <1>2, <1>3 DEF Free
<1>7. EntriesExact'
  <2> SUFFICES ASSUME NEW t \in Things
               PROVE  /\ \A c \in Cells : Wraps(c, t)' <=> heaps'.table[t] = c
                      /\ heaps'.refs[t] = IF heaps'.table[t] = NoRef THEN 0 ELSE 1
    BY DEF EntriesExact
  <2>1. \A c \in Cells : Wraps(c, t)' <=> Wraps(c, t) /\ c \notin dead
    BY <1>6 DEF Wraps
  <2>2. CASE heaps.table[t] \in dead
    <3>1. heaps'.table[t] = NoRef /\ heaps'.refs[t] = 0
      BY <1>2, <1>3, <1>4, <2>2 DEF WrappersInv, EntriesExact
    <3> QED
      BY <2>1, <2>2, <3>1 DEF WrappersInv, EntriesExact
  <2>3. CASE heaps.table[t] \notin dead
    <3>1. heaps'.table[t] = heaps.table[t] /\ heaps'.refs[t] = heaps.refs[t]
      BY <1>2, <1>4, <2>3
    <3> QED
      BY <2>1, <2>3, <3>1 DEF WrappersInv, EntriesExact
  <2> QED
    BY <2>2, <2>3
<1>8. RootsOfHandles'
  BY <1>2, SameRoots DEF WrappersInv
<1>9. \A c \in Cells \ dead : c \in KeptObjects
  BY DEF dead
<1>10. UseClosed'
  <2> USE DEF WrappersInv, UseClosed
  <2>1. \A c \in Cells \ dead : UsedCell(c) => UsedCell(c)'
    BY <1>6 DEF UsedCell
  <2>2. KeptObjects \subseteq Cells /\ KeptObjects \cap dead = {}
    BY KeptClosed DEF dead
  <2>3. \A c \in heaps'.jsHeld : UsedCell(c)'
    BY <1>2, <2>1, <2>2, KeptClosed
  <2>4. \A c \in Cells : PropOf'[c] # NoRef => c \notin dead /\ PropOf'[c] = PropOf[c]
    BY <1>6 DEF PropOf
  <2>5. \A c \in Cells : PropOf'[c] # NoRef => UsedCell(PropOf[c])'
    <3> SUFFICES ASSUME NEW c \in Cells, PropOf'[c] # NoRef
                 PROVE  heaps'.cells[PropOf'[c]].is # "free"
      BY DEF UsedCell
    <3>1. PropOf[c] \in KeptObjects /\ UsedCell(PropOf[c])
      BY <1>9, <2>4, KeptClosed
    <3> QED
      BY <2>1, <2>2, <2>4, <3>1 DEF UsedCell
  <2>6. /\ JSObjects' = JSObjects /\ FieldOf' = FieldOf
        /\ \A t \in Things : UsedThing(t)' <=> UsedThing(t)
    BY <1>2 DEF JSObjects, FieldOf, UsedThing
  <2>7. \A t \in JSObjects' : UsedCell(heaps.things[t].js)'
    <3> SUFFICES ASSUME NEW t \in JSObjects
                 PROVE  heaps'.cells[heaps'.things[t].js].is # "free"
      BY <2>6 DEF UsedCell
    <3>1. t \in Things /\ heaps.things[t].js \in Cells /\ <<t, heaps.things[t].js>> \in heaps.roots
      BY ThingForms DEF JSObjects, RootsOfHandles
    <3>2. heaps.things[t].js \in KeptObjects
      <4> DEFINE r == <<t, heaps.things[t].js>>
      <4>1. r \in heaps.roots /\ r[2] = heaps.things[t].js
        BY <3>1
      <4> HIDE DEF r
      <4>2. r[2] \in {q[2] : q \in heaps.roots}
        BY <4>1
      <4> QED
        BY <4>1, <4>2, KeptClosed
    <3> QED
      BY <1>2, <2>1, <2>2, <3>2 DEF UsedCell
  <2>8. /\ \A t \in heaps'.javaHeld : UsedThing(t)'
        /\ \A t \in Things : heaps'.table[t] # NoRef => UsedThing(t)'
    BY <1>2, <2>6 DEF HeapsTypeOK
  <2>9. \A t \in Things : FieldOf'[t] # NoRef => UsedThing(FieldOf[t])'
    BY <1>2, <2>6 DEF UsedThing
  <2> QED
    BY <2>3, <2>5, <2>7, <2>8, <2>9
<1> QED
  BY <1>5, <1>7, <1>8, <1>10 DEF WrappersInv

\* One of Java's takes nothing that is referred to, and the roots of the
\* JSObjects it takes.
LEMMA ThingsCollected ==
  ASSUME WrappersInv, CollectThings
  PROVE  WrappersInv'
<1> USE WrappersAssumption DEF WrappersAssumption
<1> DEFINE dead == Things \ KeptThings
<1>1. heaps' = [heaps EXCEPT !.things = [t \in Things |-> IF t \in dead THEN Free ELSE heaps.things[t]],
                             !.roots = {r \in heaps.roots : r[1] \notin dead}]
  BY DEF CollectThings, JSObject_finalize, WrappersInv, HeapsTypeOK
<1>2. /\ heaps'.linked = heaps.linked /\ heaps'.table = heaps.table /\ heaps'.cells = heaps.cells
      /\ heaps'.refs = heaps.refs /\ heaps'.javaHeld = heaps.javaHeld /\ heaps'.jsHeld = heaps.jsHeld
      /\ heaps'.things = [t \in Things |-> IF t \in dead THEN Free ELSE heaps.things[t]]
      /\ heaps'.roots = {r \in heaps.roots : r[1] \notin dead}
  BY <1>1 DEF WrappersInv, HeapsTypeOK
<1> HIDE DEF dead
<1>3. dead \subseteq Things /\ \A t \in Things \ dead : t \in KeptThings
  BY DEF dead
<1>4. HeapsTypeOK'
  <2>1. /\ heaps'.things \in [Things -> ThingStates]
        /\ heaps'.roots \in SUBSET (Things \X Cells)
    BY <1>2 DEF WrappersInv, HeapsTypeOK, ThingStates
  <2> QED
    BY <1>1, <1>2, <2>1 DEF WrappersInv, HeapsTypeOK
<1>5. /\ \A t \in dead : heaps'.things[t].is = "free"
      /\ \A t \in Things \ dead : heaps'.things[t] = heaps.things[t]
  BY <1>2, <1>3 DEF Free
<1>6. EntriesExact'
  BY <1>2 DEF WrappersInv, EntriesExact, Wraps
<1>7. RootsOfHandles'
  <2> SUFFICES ASSUME NEW t \in Things, NEW c \in Cells
               PROVE  <<t, c>> \in heaps'.roots <=> heaps'.things[t].is = "JSObject" /\ heaps'.things[t].js = c
    BY DEF RootsOfHandles
  <2>1. <<t, c>> \in heaps'.roots <=> <<t, c>> \in heaps.roots /\ t \notin dead
    BY <1>2
  <2> QED
    BY <1>5, <2>1 DEF WrappersInv, RootsOfHandles
<1>8. UseClosed'
  <2> USE DEF WrappersInv, UseClosed
  <2>1. \A t \in Things \ dead : UsedThing(t) => UsedThing(t)'
    BY <1>5 DEF UsedThing
  <2>2. KeptThings \subseteq Things /\ KeptThings \cap dead = {}
    BY KeptClosed DEF dead
  <2>3. \A t \in heaps'.javaHeld : UsedThing(t)'
    BY <1>2, <2>1, <2>2, KeptClosed
  <2>4. \A t \in Things : FieldOf'[t] # NoRef => t \notin dead /\ FieldOf'[t] = FieldOf[t]
    BY <1>5 DEF FieldOf
  <2>5. \A t \in Things : FieldOf'[t] # NoRef => UsedThing(FieldOf[t])'
    <3> SUFFICES ASSUME NEW t \in Things, FieldOf'[t] # NoRef
                 PROVE  heaps'.things[FieldOf'[t]].is # "free"
      BY DEF UsedThing
    <3>1. FieldOf[t] \in KeptThings /\ UsedThing(FieldOf[t])
      BY <1>3, <2>4, KeptClosed
    <3> QED
      BY <2>1, <2>2, <2>4, <3>1 DEF UsedThing
  <2>6. \A t \in Things : heaps'.table[t] # NoRef => UsedThing(t)'
    <3> SUFFICES ASSUME NEW t \in Things, heaps'.table[t] # NoRef
                 PROVE  UsedThing(t)'
      OBVIOUS
    <3>1. heaps.refs[t] = 1 /\ UsedThing(t)
      BY <1>2 DEF EntriesExact
    <3>2. t \in KeptThings
      BY <3>1, KeptClosed
    <3> QED
      BY <2>1, <2>2, <3>1, <3>2
  <2>7. PropOf' = PropOf /\ heaps'.cells = heaps.cells /\ \A t \in JSObjects' : t \in JSObjects /\ heaps'.things[t] = heaps.things[t]
    BY <1>2, <1>5 DEF PropOf, JSObjects
  <2>8. /\ \A c \in heaps'.jsHeld : UsedCell(c)'
        /\ \A c \in Cells : PropOf'[c] # NoRef => UsedCell(PropOf[c])'
        /\ \A t \in JSObjects' : UsedCell(heaps.things[t].js)'
    BY <1>2, <2>7 DEF UsedCell
  <2> QED
    BY <2>3, <2>5, <2>6, <2>8
<1> QED
  BY <1>4, <1>6, <1>7, <1>8 DEF WrappersInv

LEMMA ReflectionsDiscarded ==
  ASSUME WrappersInv, Disconnect
  PROVE  WrappersInv'
<1> USE WrappersAssumption DEF WrappersAssumption
<1> DEFINE cells == [c \in Cells |-> IF Discarded(c) THEN Wrapper(NoRef) ELSE heaps.cells[c]]
           refs == [t \in Things |-> IF heaps.table[t] # NoRef THEN heaps.refs[t] - 1 ELSE heaps.refs[t]]
<1>1. heaps' = [heaps EXCEPT !.linked = FALSE, !.table = [t \in Things |-> NoRef], !.refs = refs, !.cells = cells]
  BY DEF Disconnect, jsj_DiscardJavaObjReflections, WrappersInv, HeapsTypeOK
<1>2. /\ heaps'.linked = FALSE /\ heaps'.things = heaps.things /\ heaps'.roots = heaps.roots
      /\ heaps'.javaHeld = heaps.javaHeld /\ heaps'.jsHeld = heaps.jsHeld
      /\ heaps'.cells = cells /\ heaps'.table = [t \in Things |-> NoRef] /\ heaps'.refs = refs
  BY <1>1 DEF WrappersInv, HeapsTypeOK
<1>3. \A t \in Things : heaps'.table[t] = NoRef /\ heaps'.refs[t] = 0
  BY <1>2 DEF WrappersInv, EntriesExact
<1>4. /\ \A c \in Cells : Discarded(c) => /\ heaps.cells[c].is = "wrapper"
                                          /\ heaps'.cells[c].is = "wrapper" /\ heaps'.cells[c].of = NoRef
      /\ \A c \in Cells : ~Discarded(c) => heaps'.cells[c] = heaps.cells[c]
  BY <1>2 DEF Discarded, Wrapper
<1>5. HeapsTypeOK'
  <2>1. cells \in [Cells -> CellStates]
    BY DEF WrappersInv, HeapsTypeOK, CellStates, Wrapper
  <2>2. \A t \in Things : refs[t] = 0
    BY <1>2, <1>3
  <2>3. refs \in [Things -> Nat]
    BY <2>2
  <2> HIDE DEF cells, refs
  <2> QED
    BY <1>1, <2>1, <2>3 DEF WrappersInv, HeapsTypeOK
<1> HIDE DEF cells, refs
<1>6. EntriesExact'
  <2>1. \A c \in Cells, t \in Things : ~Wraps(c, t)'
    <3> SUFFICES ASSUME NEW c \in Cells, NEW t \in Things, heaps'.cells[c].is = "wrapper", heaps'.cells[c].of = t
                 PROVE  FALSE
      BY DEF Wraps
    <3>1. ~Discarded(c)
      BY <1>4
    <3>2. Wraps(c, t)
      BY <1>4, <3>1 DEF Wraps
    <3> QED
      BY <3>1, <3>2 DEF WrappersInv, EntriesExact, Wraps, Discarded
  <2> QED
    BY <1>3, <2>1 DEF EntriesExact
<1>7. RootsOfHandles'
  BY <1>2, SameRoots DEF WrappersInv
<1>8. /\ \A c \in Cells : UsedCell(c) <=> UsedCell(c)'
      /\ PropOf' = PropOf
  BY <1>4 DEF UsedCell, PropOf
<1>9. /\ JSObjects' = JSObjects /\ FieldOf' = FieldOf /\ heaps'.things = heaps.things
      /\ \A t \in JSObjects : heaps.things[t].js \in Cells
      /\ \A c \in Cells : PropOf[c] # NoRef => PropOf[c] \in Cells
      /\ heaps.jsHeld \subseteq Cells
  <2>1. JSObjects' = JSObjects /\ FieldOf' = FieldOf /\ heaps'.things = heaps.things
    BY <1>2 DEF JSObjects, FieldOf
  <2>2. /\ \A t \in JSObjects : heaps.things[t].js \in Cells
        /\ \A c \in Cells : PropOf[c] # NoRef => PropOf[c] \in Cells
    BY CellForms, ThingForms DEF JSObjects, PropOf, WrappersInv
  <2> QED
    BY <2>1, <2>2 DEF WrappersInv, HeapsTypeOK
<1>10. UseClosed'
  <2> USE DEF WrappersInv, UseClosed
  <2>1. /\ \A c \in heaps'.jsHeld : UsedCell(c)'
        /\ \A c \in Cells : PropOf'[c] # NoRef => UsedCell(PropOf[c])'
        /\ \A t \in JSObjects' : UsedCell(heaps.things[t].js)'
    <3>1. \A c \in heaps'.jsHeld : UsedCell(c)'
      BY <1>2, <1>8, <1>9
    <3>2. \A c \in Cells : PropOf'[c] # NoRef => UsedCell(PropOf[c])'
      BY <1>8, <1>9 DEF UsedCell
    <3>3. \A t \in JSObjects' : UsedCell(heaps.things[t].js)'
      BY <1>8, <1>9 DEF UsedCell
    <3> QED
      BY <3>1, <3>2, <3>3
  <2>2. /\ \A t \in heaps'.javaHeld : UsedThing(t)'
        /\ \A t \in Things : heaps'.table[t] # NoRef => UsedThing(t)'
    BY <1>2, <1>3 DEF UsedThing
  <2>3. \A t \in Things : FieldOf'[t] # NoRef => UsedThing(FieldOf[t])'
    BY <1>9 DEF UsedThing
  <2> QED
    BY <2>1, <2>2, <2>3
<1> QED
  BY <1>5, <1>6, <1>7, <1>10 DEF WrappersInv

-----------------------------------------------------------------------------
LEMMA PassedToJS == WrappersInv /\ PassToJS => WrappersInv'
<1> SUFFICES ASSUME WrappersInv, PassToJS PROVE WrappersInv'
  OBVIOUS
<1> USE WrappersAssumption DEF WrappersAssumption
<1>1. PICK t \in heaps.javaHeld :
        heaps' \in IF heaps.things[t].is = "JSObject" THEN {HeldByJS(heaps, jsj_UnwrapJSObjectWrapper(t))}
                   ELSE jsj_WrapJavaObject(t)
  BY DEF PassToJS
<1>2. t \in Things /\ UsedThing(t) /\ heaps.table[t] \in Cells \cup {NoRef}
  BY DEF WrappersInv, HeapsTypeOK, UseClosed
<1>3. CASE heaps.things[t].is = "JSObject"
  <2>1. heaps' = HeldByJS(heaps, heaps.things[t].js)
    BY <1>1, <1>3 DEF jsj_UnwrapJSObjectWrapper
  <2>2. heaps.things[t].js \in Cells /\ UsedCell(heaps.things[t].js)
    BY <1>2, <1>3, ThingForms DEF WrappersInv, UseClosed, JSObjects
  <2> QED
    BY <2>1, <2>2, HoldObject
<1>4. CASE heaps.things[t].is # "JSObject" /\ heaps.table[t] # NoRef
  <2>1. heaps' = HeldByJS(heaps, heaps.table[t])
    BY <1>1, <1>4 DEF jsj_WrapJavaObject
  <2>2. UsedCell(heaps.table[t])
    BY <1>2, <1>4 DEF WrappersInv, EntriesExact, Wraps, UsedCell
  <2> QED
    BY <1>2, <1>4, <2>1, <2>2, HoldObject
<1>5. CASE heaps.things[t].is # "JSObject" /\ heaps.table[t] = NoRef
  <2>1. CASE heaps' = heaps
    BY <2>1 DEF WrappersInv, HeapsTypeOK, EntriesExact, RootsOfHandles, UseClosed, Wraps, UsedCell, UsedThing,
                PropOf, FieldOf, JSObjects
  <2>2. CASE heaps' # heaps
    <3> DEFINE c == NextFree(heaps.cells)
    <3>1. /\ FreeOf(heaps.cells) # {}
          /\ heaps' \in {NoPrivate(heaps, c), NoGlobalRef(heaps, c), Reflected(heaps, c, t)}
      BY <1>1, <1>5, <2>2 DEF jsj_WrapJavaObject, NoReflection
    <3>2. c \in Cells /\ heaps.cells[c].is = "free"
      BY <3>1, FreshCell
    <3> HIDE DEF c
    <3>3. (heaps.jsHeld \cup {c}) \ {NoRef} = heaps.jsHeld \cup {c}
      BY <3>2 DEF WrappersInv, HeapsTypeOK
    <3>4. CASE heaps' = NoPrivate(heaps, c)
      <4>1. heaps' = [heaps EXCEPT !.cells = [heaps.cells EXCEPT ![c] = Wrapper("missing")], !.jsHeld = heaps.jsHeld \cup {c}]
        BY <3>3, <3>4 DEF NoPrivate, HeldByJS, WrappersInv, HeapsTypeOK
      <4> QED
        BY <3>2, <4>1, NewCell
    <3>5. CASE heaps' = NoGlobalRef(heaps, c)
      <4>1. heaps' = [heaps EXCEPT !.cells = [heaps.cells EXCEPT ![c] = Wrapper(NoRef)], !.jsHeld = heaps.jsHeld]
        BY <3>5 DEF NoGlobalRef, WrappersInv, HeapsTypeOK
      <4> QED
        BY <3>2, <4>1, NewCell
    <3>6. CASE heaps' = Reflected(heaps, c, t)
      BY <1>2, <1>5, <3>2, <3>6, NewReflection
    <3> QED
      BY <3>1, <3>4, <3>5, <3>6
  <2> QED
    BY <2>1, <2>2
<1> QED
  BY <1>3, <1>4, <1>5

LEMMA PassedToJava == WrappersInv /\ PassToJava => WrappersInv'
<1> SUFFICES ASSUME WrappersInv, PassToJava PROVE WrappersInv'
  OBVIOUS
<1> USE WrappersAssumption DEF WrappersAssumption
<1>1. PICK c \in heaps.jsHeld :
        heaps' \in IF heaps.cells[c].is # "wrapper" THEN jsj_WrapJSObject(c)
                   ELSE IF heaps.cells[c].of = "missing" THEN {heaps} ELSE {HeldByJava(heaps, heaps.cells[c].of)}
  BY DEF PassToJava
<1>2. c \in Cells /\ UsedCell(c)
  BY DEF WrappersInv, HeapsTypeOK, UseClosed
<1>3. CASE heaps' = heaps
  BY <1>3 DEF WrappersInv, HeapsTypeOK, EntriesExact, RootsOfHandles, UseClosed, Wraps, UsedCell, UsedThing,
              PropOf, FieldOf, JSObjects
<1>4. CASE heaps' # heaps /\ heaps.cells[c].is = "wrapper"
  <2>1. heaps' = HeldByJava(heaps, heaps.cells[c].of) /\ heaps.cells[c].of # "missing"
    BY <1>1, <1>4
  <2>2. heaps.cells[c].of \in Things \cup {NoRef}
    BY <1>2, <1>4, <2>1, CellForms DEF WrappersInv
  <2>3. CASE heaps.cells[c].of = NoRef
    <3>1. (heaps.javaHeld \cup {NoRef}) \ {NoRef} = heaps.javaHeld
      BY DEF WrappersInv, HeapsTypeOK
    <3>2. heaps' = [heaps EXCEPT !.javaHeld = heaps.javaHeld]
      BY <2>1, <2>3, <3>1 DEF HeldByJava
    <3>3. heaps' = heaps
      BY <3>2 DEF WrappersInv, HeapsTypeOK
    <3> QED
      BY <1>4, <3>3
  <2>4. CASE heaps.cells[c].of \in Things
    <3>1. UsedThing(heaps.cells[c].of)
      BY <1>2, <1>4, <2>4 DEF WrappersInv, EntriesExact, UseClosed, Wraps
    <3> QED
      BY <2>1, <2>4, <3>1, HoldThing
  <2> QED
    BY <2>2, <2>3, <2>4
<1>5. CASE heaps' # heaps /\ heaps.cells[c].is # "wrapper"
  <2> DEFINE t == NextFree(heaps.things)
             new == [is |-> "JSObject", js |-> c]
  <2>1. /\ FreeOf(heaps.things) # {}
        /\ heaps' = HeldByJava([heaps EXCEPT !.things[t] = new, !.roots = @ \cup {<<t, c>>}], t)
    BY <1>1, <1>5 DEF jsj_WrapJSObject
  <2>2. t \in Things /\ heaps.things[t].is = "free"
    BY <2>1, FreshThing
  <2> HIDE DEF t
  <2>3. (heaps.javaHeld \cup {t}) \ {NoRef} = heaps.javaHeld \cup {t}
    BY <2>2 DEF WrappersInv, HeapsTypeOK
  <2>4. heaps' = [heaps EXCEPT !.things = [heaps.things EXCEPT ![t] = new], !.roots = heaps.roots \cup {<<t, c>>},
                               !.javaHeld = heaps.javaHeld \cup {t}]
    BY <2>1, <2>3 DEF HeldByJava, WrappersInv, HeapsTypeOK
  <2>5. /\ new \in {[is |-> "plain", field |-> NoRef]} \cup [is : {"JSObject"}, js : Cells]
        /\ new.is = "JSObject" /\ new.js = c
    BY <1>2
  <2> HIDE DEF new
  <2>6. heaps.roots \cup {<<t, c>>} = heaps.roots \cup (IF new.is = "JSObject" THEN {<<t, new.js>>} ELSE {})
    BY <2>5
  <2> QED
    BY <1>2, <2>2, <2>4, <2>5, <2>6, NewThingOf
<1> QED
  BY <1>3, <1>4, <1>5

LEMMA NewPlain == WrappersInv /\ (NewObject \/ NewThing) => WrappersInv'
<1> SUFFICES ASSUME WrappersInv, NewObject \/ NewThing PROVE WrappersInv'
  OBVIOUS
<1> USE WrappersAssumption DEF WrappersAssumption
<1>1. CASE NewObject
  <2> DEFINE c == NextFree(heaps.cells)
  <2>1. /\ FreeOf(heaps.cells) # {}
        /\ heaps' = HeldByJS([heaps EXCEPT !.cells[c] = [is |-> "plain", prop |-> NoRef]], c)
    BY <1>1 DEF NewObject
  <2>2. c \in Cells /\ heaps.cells[c].is = "free"
    BY <2>1, FreshCell
  <2> HIDE DEF c
  <2>3. (heaps.jsHeld \cup {c}) \ {NoRef} = heaps.jsHeld \cup {c}
    BY <2>2 DEF WrappersInv, HeapsTypeOK
  <2>4. heaps' = [heaps EXCEPT !.cells = [heaps.cells EXCEPT ![c] = [is |-> "plain", prop |-> NoRef]],
                               !.jsHeld = heaps.jsHeld \cup {c}]
    BY <2>1, <2>3 DEF HeldByJS, WrappersInv, HeapsTypeOK
  <2> QED
    BY <2>2, <2>4, NewCell
<1>2. CASE NewThing
  <2> DEFINE t == NextFree(heaps.things)
             new == [is |-> "plain", field |-> NoRef]
  <2>1. FreeOf(heaps.things) # {} /\ heaps' = HeldByJava([heaps EXCEPT !.things[t] = new], t)
    BY <1>2 DEF NewThing
  <2>2. t \in Things /\ heaps.things[t].is = "free"
    BY <2>1, FreshThing
  <2> HIDE DEF t
  <2>3. (heaps.javaHeld \cup {t}) \ {NoRef} = heaps.javaHeld \cup {t}
    BY <2>2 DEF WrappersInv, HeapsTypeOK
  <2>4. heaps' = [heaps EXCEPT !.things = [heaps.things EXCEPT ![t] = new], !.roots = heaps.roots,
                               !.javaHeld = heaps.javaHeld \cup {t}]
    BY <2>1, <2>3 DEF HeldByJava, WrappersInv, HeapsTypeOK
  <2>5. new \in {[is |-> "plain", field |-> NoRef]} \cup [is : {"JSObject"}, js : Cells] /\ new.is # "JSObject"
    OBVIOUS
  <2> HIDE DEF new
  <2>6. heaps.roots = heaps.roots \cup (IF new.is = "JSObject" THEN {<<t, new.js>>} ELSE {})
    BY <2>5
  <2> QED
    BY <2>2, <2>4, <2>5, <2>6, NewThingOf
<1> QED
  BY <1>1, <1>2

LEMMA WrappersStep == WrappersInv /\ [WrappersNext]_heaps => WrappersInv'
<1> SUFFICES ASSUME WrappersInv, [WrappersNext]_heaps PROVE WrappersInv'
  OBVIOUS
<1>1. CASE UNCHANGED heaps
  BY <1>1 DEF WrappersInv, HeapsTypeOK, EntriesExact, RootsOfHandles, UseClosed, Wraps, UsedCell, UsedThing,
              PropOf, FieldOf, JSObjects
<1>2. CASE WrappersNext
  BY <1>2, PassedToJS, PassedToJava, NewPlain, AssignProperty, AssignField, Forget, ObjectsCollected, ThingsCollected,
     ReflectionsDiscarded DEF WrappersNext
<1> QED
  BY <1>1, <1>2

\* The wrappers of Java objects and their entries and references, the JSObjects
\* and their roots, are exact for any two heaps, and neither collection takes
\* what the other heap still refers to.
THEOREM WrappersCorrect == WrappersSpec => []WrappersSound
<1>1. WrappersSpec => []WrappersInv
  BY WrappersStartInv, WrappersStep, PTL DEF WrappersSpec
<1> QED
  BY <1>1, WrappersInvSound, PTL
=============================================================================
