------------------------------- MODULE Values -------------------------------
(***************************************************************************)
(* Values, their conversions (jsnum.c, jsbool.c, jsobj.c), the operators   *)
(* of the interpreter, what a switch jumps to, and the folding of          *)
(* constants by the parser, which computes the same operators again.       *)
(*                                                                         *)
(* A jsval is a tag and what it holds.  An integer that fits is held in    *)
(* the jsval itself (tag INT) and any other number in a double: the same   *)
(* number is never to be told by its tag.  undefined is an INT jsval too,  *)
(* the one below the least integer.  Words have WORD bits, a power of two  *)
(* that is 32 in the code; doubles are halves up to Huge, with NaN, the    *)
(* infinities and the negative zero, and arithmetic rounds to them.  A     *)
(* string is a sequence of pieces: the text of a number is one piece.  An  *)
(* object answers valueOf and toString with a primitive, or with itself.   *)
(***************************************************************************)
EXTENDS Integers, Sequences, Bitwise

CONSTANTS WORD, Huge
TWO == 2^WORD
INT_MAX == 2^(WORD - 2) - 1      \* JSVAL_INT_MAX

(* Doubles, and the arithmetic of C on them. *)
D(k, n) == [k |-> k, n |-> n]
NaN == D("nan", 0)
Failed == D("error", 0)
Inf(sign) == D("inf", sign)
Halves(n) == IF n > 2 * Huge THEN Inf(1) ELSE IF n < -2 * Huge THEN Inf(-1) ELSE D("fin", n)
Whole(i) == Halves(2 * i)
Sign(d) == IF d.n < 0 \/ d.k = "-0" THEN -1 ELSE 1
Zero(sign) == IF sign < 0 THEN D("-0", 0) ELSE Whole(0)
IsNaN(d) == d.k = "nan"
IsZero(d) == d.k \in {"fin", "-0"} /\ d.n = 0
Finite(d) == d.k \in {"fin", "-0"}

Mag(n) == IF n < 0 THEN -n ELSE n
Quot(a, b) == LET q == Mag(a) \div Mag(b) IN IF (a < 0) = (b < 0) THEN q ELSE -q
Rounded(n, sign) == IF n = 0 THEN Zero(sign) ELSE Halves(n)

Add(a, b) ==
  CASE IsNaN(a) \/ IsNaN(b) \/ (a.k = "inf" /\ b.k = "inf" /\ a.n # b.n) -> NaN
    [] a.k = "inf" \/ b.k = "inf" -> IF a.k = "inf" THEN a ELSE b
    [] a.k = "-0" /\ b.k = "-0" -> a
    [] OTHER -> Halves(a.n + b.n)
Neg(a) == IF IsNaN(a) THEN a ELSE IF IsZero(a) THEN Zero(-Sign(a)) ELSE D(a.k, -a.n)
Mul(a, b) ==
  CASE IsNaN(a) \/ IsNaN(b) \/ (a.k = "inf" /\ IsZero(b)) \/ (IsZero(a) /\ b.k = "inf") -> NaN
    [] a.k = "inf" \/ b.k = "inf" -> Inf(Sign(a) * Sign(b))
    [] OTHER -> Rounded(Quot(a.n * b.n, 2), Sign(a) * Sign(b))
Div(a, b) ==
  CASE IsNaN(a) \/ IsNaN(b) \/ (a.k = "inf" /\ b.k = "inf") \/ (IsZero(a) /\ IsZero(b)) -> NaN
    [] a.k = "inf" \/ IsZero(b) -> Inf(Sign(a) * Sign(b))
    [] b.k = "inf" -> Zero(Sign(a) * Sign(b))
    [] OTHER -> Rounded(Quot(2 * a.n, b.n), Sign(a) * Sign(b))
Mod(a, b) ==  \* fmod
  CASE IsNaN(a) \/ IsNaN(b) \/ a.k = "inf" \/ IsZero(b) -> NaN
    [] b.k = "inf" -> a
    [] OTHER -> Rounded(a.n - b.n * Quot(a.n, b.n), Sign(a))
Comparable(d) == IF d.k = "inf" THEN d.n * (2 * Huge + 1) ELSE d.n
Compared(a, op, b) ==  \* integers
  CASE op = "<" -> a < b [] op = "<=" -> a <= b [] op = ">" -> a > b [] op = ">=" -> a >= b [] op = "==" -> a = b
CompareDoubles(a, op, b) == ~ IsNaN(a) /\ ~ IsNaN(b) /\ Compared(Comparable(a), op, Comparable(b))

-----------------------------------------------------------------------------
V(tag, d) == [tag |-> tag, d |-> d]
Error == V("ERROR", 0)
Void == V("INT", -INT_MAX - 1)
Null == V("NULL", 0)
Boolean(b) == V("BOOLEAN", b)
String(s) == V("STRING", s)
Object(id, valueOf, toString) == V("OBJECT", [id |-> id, valueOf |-> valueOf, toString |-> toString])
Self == V("SELF", 0)

IsVoid(v) == v.tag = "INT" /\ v.d = Void.d
IsInt(v) == v.tag = "INT" /\ v.d # Void.d
Primitive(v) == v.tag # "OBJECT"
Tag(v) == CASE v.tag = "INT" -> <<"INT", v.d % 4>> [] v.tag = "NULL" -> <<"OBJECT", 0>> [] OTHER -> <<v.tag, 0>>
Identical(v, w) == v.tag = w.tag /\ (IF v.tag = "OBJECT" THEN v.d.id = w.d.id ELSE v.d = w.d)

(* JSDOUBLE_IS_INT, PUSH_NUMBER, js_NewNumberValue *)
Integral(d) == d.k = "fin" /\ d.n % 2 = 0
Number(d) ==
  CASE d.k = "error" -> Error
    [] Integral(d) /\ Mag(d.n \div 2) <= INT_MAX -> V("INT", d.n \div 2)
    [] OTHER -> V("DOUBLE", d)

DefaultValue(v, hint) ==
  LET first == IF hint = "string" THEN v.d.toString ELSE v.d.valueOf
      second == IF hint = "string" THEN v.d.valueOf ELSE v.d.toString
  IN IF first.tag # "SELF" THEN first ELSE IF second.tag # "SELF" THEN second ELSE Error
ToPrimitive(v, hint) == IF Primitive(v) THEN v ELSE DefaultValue(v, hint)

(* The text of a number reads as the number, no text as 0. *)
Piece(d) == IF d.k = "-0" THEN Whole(0) ELSE d
NumberOf(s) == IF s = <<>> THEN Whole(0) ELSE IF Len(s) = 1 /\ s[1].k \in {"fin", "inf"} THEN s[1] ELSE NaN

(* An object whose valueOf gives null is NaN, null itself is 0. *)
ValueToNumber(v) ==
  LET p == ToPrimitive(v, "number")
  IN CASE v.tag = "NULL" -> Whole(0)
       [] p.tag = "ERROR" -> Failed
       [] IsInt(p) -> Whole(p.d)
       [] p.tag = "DOUBLE" -> p.d
       [] p.tag = "STRING" -> NumberOf(p.d)
       [] p.tag = "BOOLEAN" -> Whole(IF p.d THEN 1 ELSE 0)
       [] OTHER -> NaN

ValueToString(v) ==
  LET p == ToPrimitive(v, "string")
  IN CASE v.tag = "NULL" \/ p.tag = "NULL" \/ IsVoid(p) \/ p.tag = "BOOLEAN" ->
            String(<<D("word", IF v.tag = "NULL" THEN 2 ELSE IF p.tag # "BOOLEAN" THEN 3 ELSE IF p.d THEN 1 ELSE 0)>>)
       [] p.tag \in {"STRING", "ERROR"} -> p
       [] p.tag = "INT" -> String(<<Whole(p.d)>>)
       [] p.tag = "DOUBLE" -> String(<<Piece(p.d)>>)

ValueToBoolean(v) ==
  CASE v.tag = "NULL" \/ IsVoid(v) -> FALSE
    [] v.tag = "OBJECT" -> TRUE
    [] v.tag = "STRING" -> v.d # <<>>
    [] v.tag = "INT" -> v.d # 0
    [] v.tag = "DOUBLE" -> ~ IsNaN(v.d) /\ ~ IsZero(v.d)
    [] OTHER -> v.d

(* js_DoubleToECMAInt32, which does not round before it reduces, and       *)
(* js_DoubleToECMAUint32, which does.                                      *)
Trunc(n) == Quot(n, 2)
DoubleToInt(d) ==
  LET m == Mod(d, Whole(TWO)).n
      p == IF m >= 0 THEN m ELSE m + 2 * TWO
  IN IF ~ Finite(d) \/ IsZero(d) THEN 0 ELSE IF p >= TWO THEN Trunc(p - 2 * TWO) ELSE Trunc(p)
DoubleToUint(d) ==
  LET m == Mod(Whole(Trunc(d.n)), Whole(TWO)).n
      p == IF m >= 0 THEN m ELSE m + 2 * TWO
  IN IF ~ Finite(d) \/ IsZero(d) THEN 0 ELSE Trunc(p)

PopInt(v) == IF IsInt(v) THEN v.d ELSE DoubleToInt(ValueToNumber(v))
PopUint(v) == IF IsInt(v) /\ v.d >= 0 THEN v.d ELSE DoubleToUint(ValueToNumber(v))

Unsigned(i) == i % TWO
Signed(u) == IF u % TWO >= TWO \div 2 THEN (u % TWO) - TWO ELSE u % TWO
Shift(j) == j % WORD

BitOp(i, op, j) ==  \* on ints of C
  CASE op = "|" -> Signed(Unsigned(i) | Unsigned(j))
    [] op = "^" -> Signed(Unsigned(i) ^^ Unsigned(j))
    [] op = "&" -> Signed(Unsigned(i) & Unsigned(j))
    [] op = "<<" -> Signed(i * 2^Shift(j))
    [] op = ">>" -> i \div 2^Shift(j)

-----------------------------------------------------------------------------
(* The operators, with their operands from the stack. *)
Unusable(v) == ToPrimitive(v, "number").tag = "ERROR"

Integer(l, op, r) ==  \* INTEGER_OP and JSOP_URSH
  CASE Unusable(l) \/ Unusable(r) -> Error
    [] op = ">>>" -> Number(Whole(PopUint(l) \div 2^Shift(PopInt(r))))
    [] OTHER -> Number(Whole(BitOp(PopInt(l), op, PopInt(r))))

(* The order of strings, by their first piece. *)
Rank(s) == IF s = <<>> THEN 0 ELSE IF s[1].k = "word" THEN 1000 ELSE 500 + Comparable(s[1])

Relational(l, op, r) ==
  LET lp == ToPrimitive(l, "number")
      rp == ToPrimitive(r, "number")
  IN CASE l.tag = "INT" /\ r.tag = "INT" -> Boolean(~ IsVoid(l) /\ ~ IsVoid(r) /\ Compared(l.d, op, r.d))
       [] lp.tag = "ERROR" \/ rp.tag = "ERROR" -> Error
       [] lp.tag = "STRING" /\ rp.tag = "STRING" -> Boolean(Compared(Rank(lp.d), op, Rank(rp.d)))
       [] OTHER -> Boolean(CompareDoubles(ValueToNumber(lp), op, ValueToNumber(rp)))

Nullish(v) == v.tag = "NULL" \/ IsVoid(v)

(* EQUALITY_OP: tags differ between integers too, by their low bits.       *)
Equality(l, r) ==
  LET lp == IF l.tag = "OBJECT" THEN DefaultValue(l, "void") ELSE l
      rp == IF l.tag # "OBJECT" /\ r.tag = "OBJECT" THEN DefaultValue(r, "void") ELSE r
  IN CASE Tag(l) = Tag(r) /\ l.tag = "DOUBLE" -> Boolean(CompareDoubles(l.d, "==", r.d))
       [] Tag(l) = Tag(r) /\ l.tag # "DOUBLE" -> Boolean(Identical(l, r))
       [] Tag(l) # Tag(r) /\ (Nullish(l) \/ Nullish(r)) -> Boolean(Nullish(l) /\ Nullish(r))
       [] lp.tag = "ERROR" \/ rp.tag = "ERROR" -> Error
       [] lp.tag = "STRING" /\ rp.tag = "STRING" -> Boolean(lp.d = rp.d)
       [] OTHER -> Boolean(CompareDoubles(ValueToNumber(lp), "==", ValueToNumber(rp)))

(* mutant: a double is never the same as an integer *)
NewEqualityByTag(l, r) == IF l.tag = "DOUBLE" /\ r.tag = "DOUBLE" THEN CompareDoubles(l.d, "==", r.d) ELSE Identical(l, r)

NewEquality(l, r) ==
  IF {l.tag, r.tag} = {"DOUBLE"} \/ (l.tag = "DOUBLE" /\ IsInt(r)) \/ (IsInt(l) /\ r.tag = "DOUBLE")
  THEN CompareDoubles(ValueToNumber(l), "==", ValueToNumber(r))
  ELSE Identical(l, r)

Negated(b) == IF b.tag = "ERROR" THEN b ELSE Boolean(~ b.d)

(* JSOP_ADD: what is added, if no string is, is converted anew.            *)
Plus(l, r) ==
  LET lp == ToPrimitive(l, "void")
      rp == ToPrimitive(r, "void")
  IN CASE lp.tag = "ERROR" \/ rp.tag = "ERROR" -> Error
       [] lp.tag = "STRING" \/ rp.tag = "STRING" -> String(ValueToString(lp).d \o ValueToString(rp).d)
       [] OTHER -> Number(Add(ValueToNumber(l), ValueToNumber(r)))

Divided(d, d2) == IF ~ IsZero(d2) THEN Div(d, d2) ELSE IF IsZero(d) \/ IsNaN(d) THEN NaN ELSE Inf(Sign(d) * Sign(d2))
Arithmetic(l, op, r) ==
  LET d == ValueToNumber(l)
      d2 == ValueToNumber(r)
  IN CASE Unusable(l) \/ Unusable(r) -> Error
       [] op = "-" -> Number(Add(d, Neg(d2)))
       [] op = "*" -> Number(Mul(d, d2))
       [] op = "/" -> Number(Divided(d, d2))
       [] op = "%" -> Number(IF IsZero(d2) THEN NaN ELSE Mod(d, d2))

Binary(l, op, r) ==
  CASE op \in {"|", "^", "&", "<<", ">>", ">>>"} -> Integer(l, op, r)
    [] op \in {"<", "<=", ">", ">="} -> Relational(l, op, r)
    [] op = "==" -> Equality(l, r)
    [] op = "!=" -> Negated(Equality(l, r))
    [] op = "===" -> Boolean(NewEquality(l, r))
    [] op = "!==" -> Boolean(~ NewEquality(l, r))
    [] op = "+" -> Plus(l, r)
    [] op \in {"-", "*", "/", "%"} -> Arithmetic(l, op, r)

Unary(op, v) ==
  CASE op = "!" -> Boolean(~ ValueToBoolean(v))
    [] Unusable(v) -> Error
    [] op = "~" -> Number(Whole(-PopInt(v) - 1))
    [] op = "neg" -> Number(Neg(ValueToNumber(v)))
    [] op = "pos" -> Number(ValueToNumber(v))

-----------------------------------------------------------------------------
(* What a switch with these constants for cases goes to: the place of a    *)
(* case, or 0 (default).  How it is compiled is up to the constants.       *)
Values(cases) == {cases[i].d : i \in DOMAIN cases}
Low(cases) == CHOOSE n \in Values(cases) : \A m \in Values(cases) : n <= m
High(cases) == CHOOSE n \in Values(cases) : \A m \in Values(cases) : n >= m
SwitchOp(cases) ==
  IF (\E i \in DOMAIN cases : ~ IsInt(cases[i])) \/ High(cases) - Low(cases) + 1 > 2 * Len(cases)
  THEN "LOOKUPSWITCH" ELSE "TABLESWITCH"

FirstOf(S) == IF S = {} THEN 0 ELSE CHOOSE i \in S : \A j \in S : i <= j
LastOf(S) == IF S = {} THEN 0 ELSE CHOOSE i \in S : \A j \in S : i >= j
Lookup(cases, v) ==  \* SEARCH_PAIRS
  FirstOf({i \in DOMAIN cases : IF v.tag = "DOUBLE" THEN cases[i].tag = "DOUBLE" /\ CompareDoubles(cases[i].d, "==", v.d)
                                ELSE Identical(cases[i], v)})
Switch(cases, v) ==
  CASE SwitchOp(cases) = "TABLESWITCH" -> IF IsInt(v) THEN LastOf({i \in DOMAIN cases : cases[i].d = v.d}) ELSE 0
    [] ~ IsInt(v) /\ v.tag \notin {"DOUBLE", "STRING", "BOOLEAN"} -> 0
    [] OTHER -> Lookup(cases, v)

-----------------------------------------------------------------------------
(* Expressions: a literal, what a name stands for, operators, parentheses. *)
(* js_FoldConstants folds below first, and does not see through            *)
(* parentheses.                                                            *)
Num(d) == [t |-> "NUMBER", v |-> d]
Str(s) == [t |-> "STRING", v |-> s]
Primary(b) == [t |-> "PRIMARY", v |-> b]
Of(v) == [t |-> "NAME", v |-> v]
Op(op, kids) == [t |-> "OP", v |-> op, kids |-> kids]
Paren(e) == [t |-> "RP", kids |-> <<e>>]

FoldedShift(d, op, d2) ==
  Whole(IF op = ">>>" THEN DoubleToUint(d) \div 2^Shift(DoubleToInt(d2)) ELSE BitOp(DoubleToInt(d), op, DoubleToInt(d2)))

FoldedNumbers(d, op, d2) ==
  CASE op \in {"<<", ">>", ">>>"} -> FoldedShift(d, op, d2)
    [] op = "+" -> Add(d, d2)
    [] op = "-" -> Add(d, Neg(d2))
    [] op = "*" -> Mul(d, d2)
    [] op = "/" -> Divided(d, d2)
    [] op = "%" -> IF IsZero(d2) THEN NaN ELSE Mod(d, d2)

RECURSIVE Fold(_)
Fold(e) ==
  IF e.t \notin {"OP", "RP"} THEN e
  ELSE LET kids == [i \in DOMAIN e.kids |-> Fold(e.kids[i])]
           numbers == \A i \in DOMAIN kids : kids[i].t = "NUMBER"
           rest == [e EXCEPT !.kids = kids]
       IN CASE e.t = "RP" -> rest
            [] e.v = "+" /\ (\A i \in DOMAIN kids : kids[i].t = "STRING") -> Str(kids[1].v \o kids[2].v)
            [] numbers /\ e.v \in {"<<", ">>", ">>>", "+", "-", "*", "/", "%"} ->
                 Num(FoldedNumbers(kids[1].v, e.v, kids[2].v))
            [] numbers /\ e.v = "~" -> Num(Whole(-DoubleToInt(kids[1].v) - 1))
            [] numbers /\ e.v = "neg" -> Num(Neg(kids[1].v))
            [] numbers /\ e.v = "pos" -> kids[1]
            [] numbers /\ e.v = "!" -> Primary(IsZero(kids[1].v))
            [] OTHER -> rest

(* The value of an expression as it is emitted: numbers by EmitNumberOp.   *)
RECURSIVE Eval(_)
Eval(e) ==
  CASE e.t = "NUMBER" -> Number(e.v)
    [] e.t = "STRING" -> String(e.v)
    [] e.t = "PRIMARY" -> Boolean(e.v)
    [] e.t = "NAME" -> e.v
    [] e.t = "RP" -> Eval(e.kids[1])
    [] Len(e.kids) = 1 -> Unary(e.v, Eval(e.kids[1]))
    [] OTHER -> Binary(Eval(e.kids[1]), e.v, Eval(e.kids[2]))

-----------------------------------------------------------------------------
(***************************************************************************)
(* ECMA-262, the language of which jsnum.c and jsinterp.c implement the    *)
(* conversions and operators: values without representation, each operator *)
(* as its steps say.  And the values, operators, switches and constant     *)
(* expressions the code is compared on.                                    *)
(***************************************************************************)

(* A value of the language: what a jsval stands for. *)
Abs(v) == IF IsInt(v) THEN V("NUMBER", Whole(v.d)) ELSE IF IsVoid(v) THEN V("UNDEFINED", 0)
          ELSE IF v.tag = "DOUBLE" THEN V("NUMBER", v.d) ELSE v
Same(v, w) == v.tag = w.tag /\ (v.tag # "OBJECT" => v.d = w.d) /\ (v.tag = "OBJECT" => v.d.id = w.d.id)
N(d) == V("NUMBER", d)

Prim(v, hint) ==
  IF v.tag # "OBJECT" THEN v
  ELSE LET m == IF hint = "string" THEN <<v.d.toString, v.d.valueOf>> ELSE <<v.d.valueOf, v.d.toString>>
       IN IF m[1].tag # "SELF" THEN Abs(m[1]) ELSE IF m[2].tag # "SELF" THEN Abs(m[2]) ELSE Error

ToNumber(p) ==  \* of a primitive
  CASE p.tag = "UNDEFINED" -> NaN [] p.tag = "NULL" -> Whole(0) [] p.tag = "NUMBER" -> p.d
    [] p.tag = "BOOLEAN" -> Whole(IF p.d THEN 1 ELSE 0) [] p.tag = "STRING" -> NumberOf(p.d)
ToText(p) ==
  CASE p.tag = "UNDEFINED" -> <<D("word", 3)>> [] p.tag = "NULL" -> <<D("word", 2)>> [] p.tag = "STRING" -> p.d
    [] p.tag = "BOOLEAN" -> <<D("word", IF p.d THEN 1 ELSE 0)>>
    [] p.tag = "NUMBER" -> <<IF IsZero(p.d) THEN Whole(0) ELSE p.d>>
ToUint(d) == IF Finite(d) THEN Quot(d.n, 2) % TWO ELSE 0
ToInt(d) == LET u == ToUint(d) IN IF 2 * u >= TWO THEN u - TWO ELSE u
Bits(u) == [i \in 0 .. WORD - 1 |-> (u \div 2^i) % 2]
RECURSIVE OfBits(_, _)
OfBits(f, i) == IF i = WORD THEN 0 ELSE f[i] * 2^i + OfBits(f, i + 1)

(* 11.5 to 11.10 *)
Numeric(a, op, b) ==
  LET x == Bits(ToUint(a))
      y == Bits(ToUint(b))
      count == ToUint(b) % WORD
      back(u) == Whole(IF 2 * (u % TWO) >= TWO THEN (u % TWO) - TWO ELSE u % TWO)
  IN CASE op = "-" -> Add(a, Neg(b))
       [] op = "*" -> Mul(a, b)
       [] op = "/" -> Div(a, b)
       [] op = "%" -> Mod(a, b)
       [] op = "&" -> back(OfBits([i \in DOMAIN x |-> IF x[i] = 1 /\ y[i] = 1 THEN 1 ELSE 0], 0))
       [] op = "|" -> back(OfBits([i \in DOMAIN x |-> IF x[i] = 1 \/ y[i] = 1 THEN 1 ELSE 0], 0))
       [] op = "^" -> back(OfBits([i \in DOMAIN x |-> IF x[i] # y[i] THEN 1 ELSE 0], 0))
       [] op = "<<" -> back(ToUint(a) * 2^count)
       [] op = ">>" -> Whole(ToInt(a) \div 2^count)
       [] op = ">>>" -> Whole(ToUint(a) \div 2^count)

Less(p, op, q) ==  \* 11.8, of primitives
  IF p.tag = "STRING" /\ q.tag = "STRING" THEN Compared(Rank(p.d), op, Rank(q.d)) ELSE CompareDoubles(ToNumber(p), op, ToNumber(q))

Strict(v, w) ==  \* 11.9.6
  v.tag = w.tag /\ (IF v.tag = "NUMBER" THEN CompareDoubles(v.d, "==", w.d) ELSE Same(v, w))

Loose(v, w) ==   \* 11.9.3, with primitives p and q
  LET p == Prim(v, "none")
      q == Prim(w, "none")
      nothing(x) == x.tag \in {"NULL", "UNDEFINED"}
      equal(a, b) == IF a.tag = "STRING" /\ b.tag = "STRING" THEN a.d = b.d
                     ELSE IF nothing(a) \/ nothing(b) THEN nothing(a) /\ nothing(b)
                     ELSE CompareDoubles(ToNumber(a), "==", ToNumber(b))
  IN CASE v.tag = w.tag -> Boolean(Strict(v, w))
       [] nothing(v) \/ nothing(w) -> Boolean(nothing(v) /\ nothing(w))
       [] p.tag = "ERROR" \/ q.tag = "ERROR" -> Error
       [] OTHER -> Boolean(equal(p, q))

Meaning(v, op, w) ==
  LET p == Prim(v, "none")
      q == Prim(w, "none")
  IN CASE op = "===" -> Boolean(Strict(v, w))
       [] op = "!==" -> Boolean(~ Strict(v, w))
       [] op = "==" -> Loose(v, w)
       [] op = "!=" -> Negated(Loose(v, w))
       [] p.tag = "ERROR" \/ q.tag = "ERROR" -> Error
       [] op = "+" -> IF p.tag = "STRING" \/ q.tag = "STRING" THEN String(ToText(p) \o ToText(q)) ELSE N(Add(ToNumber(p), ToNumber(q)))
       [] op \in {"<", "<=", ">", ">="} -> Boolean(Less(p, op, q))
       [] OTHER -> N(Numeric(ToNumber(p), op, ToNumber(q)))

Truth(v) == CASE v.tag = "BOOLEAN" -> v.d [] v.tag = "NUMBER" -> ~ IsNaN(v.d) /\ ~ IsZero(v.d)
              [] v.tag = "STRING" -> Len(v.d) > 0 [] OTHER -> v.tag = "OBJECT"
UnaryMeaning(op, v) ==
  LET p == Prim(v, "none")
  IN CASE op = "!" -> Boolean(~ Truth(v))
       [] p.tag = "ERROR" -> Error
       [] op = "~" -> N(Whole(-ToInt(ToNumber(p)) - 1))
       [] op = "neg" -> N(Neg(ToNumber(p)))
       [] op = "pos" -> N(ToNumber(p))

-----------------------------------------------------------------------------
BinaryOps == {"|", "^", "&", "<<", ">>", ">>>", "<", "<=", ">", ">=", "==", "!=", "===", "!==", "+", "-", "*", "/", "%"}
UnaryOps == {"!", "~", "neg", "pos"}

(* Sequences, since values of different kinds are not to be compared.      *)
A == D("chr", 1)
Fractions == <<-19, -18, -17, -16, -15, -3, -1, 1, 3, 13, 15, 16, 17, 30, 32, 33>>
Doubles == <<NaN, Inf(1), Inf(-1), D("-0", 0), Whole(0), Whole(1), Whole(-2)>> \o [i \in DOMAIN Fractions |-> Halves(Fractions[i])]
Numbers == [i \in 1 .. 11 |-> Number(Whole(i - 6))] \o [i \in DOMAIN Doubles |-> V("DOUBLE", Doubles[i])]
Strings == <<String(<<>>), String(<<Whole(1)>>), String(<<Halves(-17)>>), String(<<A>>), String(<<A, A>>)>>
Objects ==
  <<Object(1, Number(Whole(1)), String(<<A>>)), Object(2, Self, String(<<Whole(1)>>)), Object(3, Self, Self),
    Object(4, Boolean(TRUE), Self), Object(5, Null, Self), Object(6, Void, Self)>>
Operands == Numbers \o Strings \o <<Boolean(TRUE), Boolean(FALSE), Null, Void>> \o Objects

(* Where the code is known to differ (README, "What the operators get      *)
(* wrong"): an integer conversion of a number with a fraction that wraps,  *)
(* and an object that converts to null.                        *)
Wraps(v) == v.tag # "ERROR" /\ LET n == ValueToNumber(v).n IN (n < -TWO \/ n > TWO) /\ n % 2 = 1
IntegerOps == {"|", "^", "&", "<<", ">>", ">>>", "~"}
Known(op, v) == (op \in IntegerOps /\ Wraps(v)) \/ (v.tag = "OBJECT" /\ v.d.valueOf.tag = "NULL")

(* An operator gives on two jsvals what the language says of the values    *)
(* they stand for, whatever their representation.                          *)
OperatorAgrees(op, v, w) == Known(op, v) \/ Known(op, w) \/ Same(Abs(Binary(v, op, w)), Meaning(Abs(v), op, Abs(w)))
UnaryAgrees(op, v) == Known(op, v) \/ Same(Abs(Unary(op, v)), UnaryMeaning(op, Abs(v)))

(* A switch goes to the first case strictly equal to its value; a case     *)
(* that is repeated in a table, and zeros of different sign, are known to  *)
(* go astray.                                                              *)
Constants == [i \in 1 .. 7 |-> Number(<<Whole(0), Whole(1), Whole(2), Whole(3), Whole(9), Halves(1), Whole(-9)>>[i])]
             \o <<String(<<A>>), Boolean(TRUE)>>
SwitchAgrees(cases, v) ==
  \/ \E i, j \in DOMAIN cases : i # j /\ Same(cases[i], cases[j])
  \/ v.tag = "DOUBLE" /\ Same(V("DOUBLE", v.d), v) /\ ~ Identical(Number(v.d), v)
  \/ v.tag = "DOUBLE" /\ IsZero(v.d)
  \/ Switch(cases, v) = FirstOf({i \in DOMAIN cases : Strict(Abs(cases[i]), Abs(v))})

(* Folding an expression leaves its value, and its representation.         *)
Literals == <<Num(Whole(0)), Num(Whole(1)), Num(Halves(1)), Num(Whole(5)), Num(Halves(17)), Num(Whole(20)),
              Str(<<A>>), Str(<<Whole(1)>>), Of(Void), Of(Number(Whole(3)))>>
Term(l, form) == IF form = "" THEN l ELSE IF form = "()" THEN Paren(Op("+", <<l, Num(Whole(1))>>)) ELSE Op(form, <<l>>)
SameValue(v, w) == v.tag = w.tag /\ v.d = w.d
FoldedAlike(op, a, b, op2) ==
  /\ SameValue(Eval(Fold(Op(op2, <<Paren(Op(op, <<a, b>>))>>))), Eval(Op(op2, <<Paren(Op(op, <<a, b>>))>>)))
  /\ SameValue(Eval(Fold(Op(op, <<a, Op(op2, <<b>>)>>))), Eval(Op(op, <<a, Op(op2, <<b>>)>>)))
  /\ SameValue(Eval(Fold(Op("+", <<Op(op, <<a, b>>), a>>))), Eval(Op("+", <<Op(op, <<a, b>>), a>>)))
=============================================================================
