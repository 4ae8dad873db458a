------------------------------- MODULE Arrays -------------------------------
(***************************************************************************)
(* Arrays (jsarray.c): the length and the elements that go with it, and    *)
(* the methods, each a sequence of gets, sets and deletes of elements.     *)
(* An array is [length, els]: els has the indices that are there.  Numbers *)
(* stand for the values, text is a sequence of character codes, and        *)
(* unsigned integers wrap at WORD.                                         *)
(***************************************************************************)
EXTENDS Integers, Sequences, SequencesExt, FiniteSetsExt, Functions

CONSTANTS WORD, Undefined, Null    \* WORD is more than 10

MAXINDEX == WORD - 1
Nul == 0
Digit(c) == c \in 48 .. 57
At(s, i) == IF i < Len(s) THEN s[i + 1] ELSE Nul    \* what strings end with

RECURSIVE Decimal(_)
Decimal(n) == IF n < 10 THEN <<48 + n>> ELSE Append(Decimal(n \div 10), 48 + (n % 10))

-----------------------------------------------------------------------------
NoIndex == -1

(* The index that a string is; reading ends at the first that is no digit. *)
RECURSIVE ReadDigits(_, _, _, _, _)
ReadDigits(s, at, index, old, c) ==
  IF Digit(At(s, at)) THEN ReadDigits(s, at + 1, ((10 * index) + At(s, at) - 48) % WORD, index, At(s, at) - 48)
  ELSE IF At(s, at) = Nul /\ (old < MAXINDEX \div 10 \/ (old = MAXINDEX \div 10 /\ c < (MAXINDEX % 10))) THEN index
  ELSE NoIndex
IdIsIndex(s) ==
  IF ~ (Digit(At(s, 0)) /\ Len(s) < Len(Decimal(MAXINDEX)) + 1) THEN NoIndex
  ELSE IF At(s, 0) = 48 THEN IF At(s, 1) = Nul THEN 0 ELSE NoIndex
  ELSE ReadDigits(s, 1, At(s, 0) - 48, 0, 0)

-----------------------------------------------------------------------------
Empty == [length |-> 0, els |-> <<>>]
Get(a, i) == IF i \in DOMAIN a.els THEN a.els[i] ELSE Undefined
Delete(a, i) == [a EXCEPT !.els = Restrict(@, DOMAIN @ \ {i})]
SetLength(a, n) == [length |-> n, els |-> Restrict(a.els, {i \in DOMAIN a.els : ~ i \in n .. a.length - 1})]

(* A new element makes the array longer first. *)
Lengthened(a, i) == IF i < MAXINDEX /\ i >= a.length THEN SetLength(a, i + 1) ELSE a
Put(a, i, v) ==
  LET b == IF i \in DOMAIN a.els THEN a ELSE Lengthened(a, i)
  IN [b EXCEPT !.els = [k \in DOMAIN @ \cup {i} |-> IF k = i THEN v ELSE @[k]]]

Move(a, from, to) == Put(a, to, Get(a, from))
Over(a, indices, Step(_, _)) == FoldLeft(Step, a, indices)
Upward(m, n) == [k \in 1 .. n - m |-> m + k - 1]        \* m .. n - 1
Downward(m, n) == [k \in 1 .. n - m |-> n - k]

PutAll(a, at, vs) == Over(a, Upward(0, Len(vs)), LAMBDA b, k : Put(b, (at + k) % WORD, vs[k + 1]))
CopyInto(to, from, first, end) == Over(to, Upward(first, end), LAMBDA b, k : Put(b, k - first, Get(from, k)))

InitArrayObject(vector) == PutAll(Empty, 0, vector)

(* What is given back: the array, and the value of the call. *)
Gives(a, v) == [array |-> a, value |-> v]

(* One number for an argument is a length, but for version 1.2. *)
ConstructArray(args, version12) ==
  IF ~ version12 /\ Len(args) = 1 /\ args[1] \notin {Undefined, Null}
  THEN [length |-> args[1] % WORD, els |-> <<>>]
  ELSE InitArrayObject(args)

-----------------------------------------------------------------------------
(* array_join_sub: sep stands before every element but the first. *)
ToText(v) == IF v \in {Undefined, Null} THEN <<>> ELSE Decimal(v)
Comma == 44
Space == 32
Pieces(a, sep) ==
  FlattenSeq([k \in 1 .. a.length |-> (IF k = 1 THEN <<>> ELSE sep) \o ToText(Get(a, k - 1))])
Join(a, sep) == IF a.length = 0 THEN <<>> ELSE Pieces(a, sep)
ToSource(a) ==
  <<91>> \o Pieces(a, <<Comma, Space>>)
         \o (IF a.length > 0 /\ Get(a, a.length - 1) = Undefined THEN <<Comma, Space>> ELSE <<>>) \o <<93>>

Reverse1(a, i) == LET j == a.length - i - 1 IN Put(Put(a, i, Get(a, j)), j, Get(a, i))
ReverseArray(a) == Over(a, Upward(0, a.length \div 2), Reverse1)

-----------------------------------------------------------------------------
(* js_qsort_r.  A sort is [vec, wild]: wild when elements are read that    *)
(* are outside of the vector.                                              *)
Wild(q) == [q EXCEPT !.wild = TRUE]
Compare(q, cmp, i, pivot) == cmp[q.vec[i + 1], pivot]
Store(q, i, v) == [q EXCEPT !.vec[i + 1] = v]

RECURSIVE Down(_, _, _, _)
Down(q, cmp, j, pivot) ==    \* where the search from above stops; -1 below the vector
  IF j < 0 THEN -1 ELSE IF Compare(q, cmp, j, pivot) <= 0 THEN j ELSE Down(q, cmp, j - 1, pivot)
RECURSIVE Up(_, _, _, _, _)
Up(q, cmp, i, j, pivot) == IF i < j /\ Compare(q, cmp, i, pivot) <= 0 THEN Up(q, cmp, i + 1, j, pivot) ELSE i

(* Elements change sides until the searches meet, at the hole. *)
RECURSIVE Partition(_, _, _, _, _)
PartitionUp(q, cmp, i, j, pivot, a) == Partition(Store(q, j, q.vec[a + 1]), cmp, a, j, pivot)
PartitionDown(q, cmp, i, j, pivot) ==
  IF j < 0 THEN [q |-> Wild(q), hole |-> i]
  ELSE PartitionUp(Store(q, i, q.vec[j + 1]), cmp, i, j, pivot, Up(Store(q, i, q.vec[j + 1]), cmp, i, j, pivot))
Partition(q, cmp, i, j, pivot) ==
  IF i < j THEN PartitionDown(q, cmp, i, Down(q, cmp, j, pivot), pivot) ELSE [q |-> Store(q, i, pivot), hole |-> i]

(* The smaller side first, by recursion; the other in the loop. *)
RECURSIVE QSort(_, _, _, _)
QSortSides(p, cmp, lo, hi) ==
  IF p.q.wild THEN p.q
  ELSE IF p.hole - lo < hi - p.hole THEN QSort(QSort(p.q, cmp, lo, p.hole - 1), cmp, p.hole + 1, hi)
  ELSE QSort(QSort(p.q, cmp, p.hole + 1, hi), cmp, lo, p.hole - 1)
QSort(q, cmp, lo, hi) ==
  IF lo < hi THEN QSortSides(Partition(q, cmp, lo, hi, q.vec[lo + 1]), cmp, lo, hi) ELSE q

(* Holes become elements. *)
SortArray(a, cmp) ==
  QSort([vec |-> [k \in 1 .. a.length |-> Get(a, k - 1)], wild |-> FALSE], cmp, 0, a.length - 1)

-----------------------------------------------------------------------------
Push(a, args, version12) ==
  LET length == (a.length + Len(args)) % WORD
  IN Gives(SetLength(PutAll(a, a.length, args), length),
           IF ~ version12 THEN length ELSE IF args = <<>> THEN Undefined ELSE Last(args))
Pop(a) ==
  IF a.length = 0 THEN Gives(a, Undefined)
  ELSE Gives(SetLength(Delete(a, a.length - 1), a.length - 1), Get(a, a.length - 1))

Slid(a) == Over(a, Upward(1, a.length), LAMBDA b, i : Move(b, i, i - 1))
ShiftFrom(a, slid) == Gives(SetLength(Delete(slid, a.length - 1), a.length - 1), Get(a, 0))
Shift(a) == IF a.length = 0 THEN Gives(a, Undefined) ELSE ShiftFrom(a, Slid(a))

Unshift(a, args) ==
  IF args = <<>> THEN Gives(a, a.length)
  ELSE LET up == Over(a, Downward(0, a.length), LAMBDA b, i : Move(b, i, i + Len(args)))
       IN Gives(SetLength(PutAll(up, 0, args), a.length + Len(args)), a.length + Len(args))

(* A position counts from the end when it is negative. *)
Clamped(d, length) == IF d < 0 THEN Max({0, d + length}) ELSE Min({d, length})

(* The elements after the end move up or down for what is put in, the      *)
(* farthest first when they move up.  The mutant starts at the nearest.    *)
MakeWayUpward(a, end, count, n) ==
  Over(a, Upward(end, a.length), LAMBDA b, i : Move(b, i, i + n - count))
MakeWay(a, end, count, n) ==
  IF n > count THEN Over(a, Downward(end, a.length), LAMBDA b, i : Move(b, i, i + n - count))
  ELSE IF n < count THEN Over(a, Upward(end, a.length), LAMBDA b, i : Move(b, i, i + n - count))
  ELSE a
SpliceAt(a, begin, count, vs, version12) ==
  Gives(SetLength(PutAll(MakeWay(a, begin + count, count, Len(vs)), begin, vs), a.length + Len(vs) - count),
        IF version12 /\ count = 1 THEN Get(a, begin)
        ELSE IF version12 /\ count = 0 THEN Undefined
        ELSE CopyInto(Empty, a, begin, begin + count))
SpliceFrom(a, begin, args, version12) ==
  IF args = <<>> THEN SpliceAt(a, begin, a.length - begin, <<>>, version12)
  ELSE SpliceAt(a, begin, Min({Max({0, args[1]}), a.length - begin}), Tail(args), version12)
Splice(a, args, version12) ==
  IF args = <<>> THEN Gives(a, Undefined) ELSE SpliceFrom(a, Clamped(args[1], a.length), Tail(args), version12)

(* What has a number for a length is taken for an array: [is, array, v].   *)
Concat1(a, arg) == IF arg.is THEN PutAll(a, a.length, [k \in 1 .. arg.array.length |-> Get(arg.array, k - 1)])
                   ELSE Put(a, a.length, arg.v)
Concat(a, args) == FoldLeft(Concat1, CopyInto(Empty, a, 0, a.length), args)

Slice(a, args) ==
  CopyInto(Empty, a, IF args = <<>> THEN 0 ELSE Clamped(args[1], a.length),
                     IF Len(args) < 2 THEN a.length ELSE Clamped(args[2], a.length))

-----------------------------------------------------------------------------
(***************************************************************************)
(* Arrays against sequences: an array of some length, elements missing or  *)
(* not, is what its elements read as; a method gives the array and the     *)
(* value that the operation on sequences has.                              *)
(***************************************************************************)

Values == {1, 2}
Holed(n) == UNION {[I -> Values] : I \in SUBSET (0 .. n - 1)}
ArraysUpTo(n) == UNION {{[length |-> k, els |-> f] : f \in Holed(k)} : k \in 0 .. n}

Positions == {-4, -1, 0, 1, 2, 4}
Methods == {"construct", "push", "pop", "shift", "unshift", "splice", "concat", "slice", "reverse", "join", "length", "sort", "index"}

(* The arguments of a method: sequences of them. *)
Others == {[is |-> FALSE, v |-> 2], [is |-> TRUE, array |-> Empty], [is |-> TRUE, array |-> [length |-> 2, els |-> (1 :> 1)]]}
Arguments(method) ==
  CASE method \in {"construct", "push", "unshift"} -> SeqOf({1, 2, Undefined}, 2)
    [] method = "splice" -> {<<>>} \cup {<<d>> : d \in Positions}
                            \cup {<<d, n>> \o vs : d \in Positions, n \in {-1, 0, 1, 2, 5}, vs \in SeqOf({7}, 2)}
    [] method = "slice" -> SeqOf(Positions, 2)
    [] method = "concat" -> SeqOf(Others, 2)
    [] method = "length" -> {<<n>> : n \in 0 .. 5}
    [] OTHER -> {<<>>}
ArrayCases(method) ==
  CASE method = "sort" -> SeqOf({1, 2, 21, 3, Undefined}, 4) \X {"text", "down", "tens"}
    [] method = "index" -> SeqOf({48, 49, 54, 51, 97}, 3) \cup {Decimal(n) : n \in 0 .. 99}
    [] OTHER -> ArraysUpTo(3) \X Arguments(method) \X BOOLEAN

-----------------------------------------------------------------------------
ElementsOf(a) == [k \in 1 .. a.length |-> Get(a, k - 1)]
Within(a) == \A i \in DOMAIN a.els : i \in 0 .. a.length - 1

(* a reads as s, and has nothing past its length. *)
Reads(a, s) == ElementsOf(a) = s /\ Within(a)

From(d, n) == IF d < 0 THEN IF n + d > 0 THEN n + d ELSE 0 ELSE IF d > n THEN n ELSE d
Cut(s, args) == SubSeq(s, From(args[1], Len(s)) + 1, From(args[2], Len(s)))

SplicedOut(s, args) ==
  LET begin == From(args[1], Len(s))
      asked == IF Len(args) = 1 THEN Len(s) ELSE args[2]
      count == IF asked < 0 THEN 0 ELSE IF begin + asked > Len(s) THEN Len(s) - begin ELSE asked
  IN [before |-> SubSeq(s, 1, begin), out |-> SubSeq(s, begin + 1, begin + count), after |-> SubSeq(s, begin + count + 1, Len(s))]
SpliceRight(r, parts, args, version12) ==
  /\ Reads(r.array, parts.before \o SubSeq(args, 3, Len(args)) \o parts.after)
  /\ IF version12 /\ Len(parts.out) = 1 THEN r.value = parts.out[1]
     ELSE IF version12 /\ parts.out = <<>> THEN r.value = Undefined
     ELSE Reads(r.value, parts.out)

(* Reading what toSource wrote: what is between brackets and separators;   *)
(* after the last separator there is no element.                           *)
RECURSIVE Fields(_, _)
Fields(s, field) ==
  IF s[1] = 93 THEN IF field = <<>> THEN <<>> ELSE <<field>>
  ELSE IF s[1] = Comma THEN <<field>> \o Fields(SubSeq(s, 3, Len(s)), <<>>)
  ELSE Fields(Tail(s), Append(field, s[1]))
ReadsBack(a) ==
  LET fields == Fields(Tail(ToSource(a)), <<>>)
  IN fields = [k \in 1 .. a.length |-> ToText(Get(a, k - 1))]

Added(arg) == IF arg.is THEN ElementsOf(arg.array) ELSE <<arg.v>>

(* Orders that leave elements equal: that of the text, as far as the tens  *)
(* go, and downwards; undefined is last of all by text.                    *)
TextOrder == <<1, 2, 21, 3, Undefined>>
Rank(v) == CHOOSE i \in DOMAIN TextOrder : TextOrder[i] = v
Key(order, v) == CASE order = "text" -> Rank(v) [] order = "down" -> -Rank(v) [] order = "tens" -> Rank(v) \div 2
Comparator(order) ==
  [p \in ToSet(TextOrder) \X ToSet(TextOrder) |->
     IF Key(order, p[1]) < Key(order, p[2]) THEN -1 ELSE IF Key(order, p[1]) > Key(order, p[2]) THEN 1 ELSE 0]
Times(s, v) == Cardinality({i \in DOMAIN s : s[i] = v})
Sorted(s, order) ==
  LET q == SortArray(InitArrayObject(s), Comparator(order))
  IN /\ ~ q.wild
     /\ \A v \in ToSet(TextOrder) : Times(q.vec, v) = Times(s, v)
     /\ \A i \in 1 .. Len(s) - 1 : Key(order, q.vec[i]) <= Key(order, q.vec[i + 1])

IndexRight(s) ==
  IdIsIndex(s) = IF \E n \in 0 .. MAXINDEX - 1 : s = Decimal(n) THEN CHOOSE n \in 0 .. MAXINDEX - 1 : s = Decimal(n) ELSE NoIndex

MethodRight(method, a, s, args, version12) ==
  CASE method = "construct" ->
         LET made == ConstructArray(args, version12)
         IN IF ~ version12 /\ Len(args) = 1 /\ args # <<Undefined>> THEN Reads(made, [k \in 1 .. args[1] |-> Undefined])
            ELSE Reads(made, args)
    [] method = "push" ->
         LET r == Push(a, args, version12)
         IN Reads(r.array, s \o args) /\ (~ version12 => r.value = Len(s \o args)) /\ (version12 /\ args # <<>> => r.value = Last(args))
    [] method = "pop" -> LET r == Pop(a) IN IF s = <<>> THEN r = Gives(a, Undefined) ELSE r.value = Last(s) /\ Reads(r.array, Front(s))
    [] method = "shift" -> LET r == Shift(a) IN IF s = <<>> THEN r = Gives(a, Undefined) ELSE r.value = s[1] /\ Reads(r.array, Tail(s))
    [] method = "unshift" -> LET r == Unshift(a, args) IN Reads(r.array, args \o s) /\ r.value = Len(args \o s)
    [] method = "splice" ->
         IF args = <<>> THEN Splice(a, args, version12) = Gives(a, Undefined)
         ELSE SpliceRight(Splice(a, args, version12), SplicedOut(s, args), args, version12)
    [] method = "concat" -> Reads(Concat(a, args), s \o FlattenSeq([i \in DOMAIN args |-> Added(args[i])]))
    [] method = "slice" ->
         Reads(Slice(a, args), Cut(s, CASE args = <<>> -> <<0, Len(s)>> [] Len(args) = 1 -> <<args[1], Len(s)>> [] OTHER -> args))
    [] method = "reverse" -> Reads(ReverseArray(a), [k \in DOMAIN s |-> s[Len(s) - k + 1]])
    [] method = "join" ->
         Join(a, <<45>>) = FlattenSeq([k \in DOMAIN s |-> ToText(s[k]) \o (IF k = Len(s) THEN <<>> ELSE <<45>>)]) /\ ReadsBack(a)
    [] method = "length" ->
         Reads(SetLength(a, args[1]), [k \in 1 .. args[1] |-> IF k <= Len(s) THEN s[k] ELSE Undefined])

ArrayRight(method, case) ==
  CASE method = "sort" -> Sorted(case[1], case[2])
    [] method = "index" -> IndexRight(case)
    [] OTHER -> MethodRight(method, case[1], ElementsOf(case[1]), case[2], case[3])
=============================================================================
