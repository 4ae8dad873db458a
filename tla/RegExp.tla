------------------------------- MODULE RegExp -------------------------------
(***************************************************************************)
(* The regular expression compiler and matcher (jsregexp.c).               *)
(*                                                                         *)
(* A pattern is parsed into a graph of nodes, whose next links are set as  *)
(* they become known; a node is marked as the next of one node (ISNEXT),   *)
(* as the next of more (ISJOIN), and as laid out after the one before it   *)
(* (GOODNEXT).  The graph is anchored, optimised, given offsets, and laid  *)
(* out as a program: a function from offsets, in the code's bytes, to      *)
(* instructions.  The matcher runs the program, calling itself wherever    *)
(* it may have to come back.                                               *)
(*                                                                         *)
(* A compilation p is a record: the source, the place in it, the groups    *)
(* opened, the nodes, the last node parsed (0: an error), the length of    *)
(* the program and the program.  A class is the set of the characters of   *)
(* Chars that its bitmap has.                                              *)
(*                                                                         *)
(* A character is its code: Code gives the code of a printable one, Text   *)
(* the codes of a sequence of them.  Besides ASCII there are two letters   *)
(* whose cases lie on both sides of 256.                                   *)
(***************************************************************************)
EXTENDS Integers, Sequences, TLC

CONSTANTS Code,         \* ASCII
          FLATLEN_MAX,  \* REOP_FLATLEN_MAX, at least 2
          Chars         \* the characters of the texts matched

Text(s) == [i \in 1 .. Len(s) |-> Code[s[i]]]
Codes(S) == {Code[c] : c \in S}

NUL == 0
TAB == 9
LF == 10
VT == 11
FF == 12
CR == 13
NBSP == 160
ySmall == 255   \* y with diaeresis
yLarge == 376

(* The terminator of a string is read past its last character. *)
At(s, i) == IF i \in 1 .. Len(s) THEN s[i] ELSE NUL

Between(c, a, b) == Code[a] <= c /\ c <= Code[b]
IsDigit(c) == Between(c, "0", "9")
IsOctal(c) == Between(c, "0", "7")
IsHex(c) == IsDigit(c) \/ Between(c, "a", "f") \/ Between(c, "A", "F")
IsLetter(c) == Between(c, "a", "z") \/ Between(c, "A", "Z")
IsWord(c) == IsLetter(c) \/ IsDigit(c) \/ c \in {Code["_"], ySmall, yLarge}
IsSpace(c) == c \in {TAB, LF, VT, FF, CR, NBSP, Code[" "]}
DigitOf(c) == c - Code["0"]
HexOf(c) == IF IsDigit(c) THEN DigitOf(c) ELSE 10 + ((c - Code["A"]) % 32)
ToUpper(c) == IF Between(c, "a", "z") THEN c - 32 ELSE IF c = ySmall THEN yLarge ELSE c
ToLower(c) == IF Between(c, "A", "Z") THEN c + 32 ELSE IF c = yLarge THEN ySmall ELSE c
-----------------------------------------------------------------------------
CHARSET == 256  \* CCLASS_CHARSET_SIZE
Metachars == Codes({"|", "^", "$", "{", "*", "+", "?", "(", ")", ".", "[", "\\", "}"})
Closurechars == Codes({"{", "*", "+", "?"})
Escapes == Codes({"f", "n", "r", "t", "v"})
EscapeMap(c) ==
  CASE c = Code["b"] -> 8 [] c = Code["f"] -> FF [] c = Code["n"] -> LF [] c = Code["r"] -> CR
    [] c = Code["t"] -> TAB [] c = Code["v"] -> VT [] OTHER -> c
ClassEscapes == Codes({"d", "D", "w", "W", "s", "S"})
ClassOp(c) ==
  CASE c = Code["d"] -> "DIGIT" [] c = Code["D"] -> "NONDIGIT" [] c = Code["w"] -> "ALNUM"
    [] c = Code["W"] -> "NONALNUM" [] c = Code["s"] -> "SPACE" [] c = Code["S"] -> "NONSPACE"
InClass(op, c) ==
  CASE op = "DIGIT" -> IsDigit(c) [] op = "NONDIGIT" -> ~ IsDigit(c) [] op = "ALNUM" -> IsWord(c)
    [] op = "NONALNUM" -> ~ IsWord(c) [] op = "SPACE" -> IsSpace(c) [] op = "NONSPACE" -> ~ IsSpace(c)

(* reopsize *)
Size(op) ==
  CASE op \in {"ALT", "LPAREN", "RPAREN", "JUMP", "UCFLAT1", "UCFLAT1i", "UCCLASS", "NUCCLASS"} -> 3
    [] op = "QUANT" -> 7
    [] op \in {"CCLASS", "NCCLASS"} -> 1 + CHARSET \div 8
    [] op \in {"BACKREF", "BACKREFi", "FLAT", "FLATi", "FLAT1", "FLAT1i", "UCFLAT", "UCFLATi"} -> 2
    [] op = "END" -> 0
    [] OTHER -> 1

Node(op) ==
  [op |-> op, flags |-> {}, next |-> 0, kid |-> 0, num |-> 0, max |-> 0, str |-> <<>>, offset |-> 0]
Full(op, flags) == [Node(op) EXCEPT !.flags = flags \cup {"NONEMPTY"}]
Single(op) == Full(op, {"SINGLE"})
Flagged(g, r, flags) == [g EXCEPT ![r].flags = @ \cup flags]
Has(g, r, flag) == flag \in g[r].flags

Found(p, cp, n) == [p EXCEPT !.cp = cp, !.g = Append(@, n), !.ren = Len(p.g) + 1]
Bad(p) == [p EXCEPT !.ren = 0]

-----------------------------------------------------------------------------
(* FixNext: ren2 becomes the next of the last node of the list of ren1 and *)
(* of the nodes under it; a jump ends every alternative but the last.      *)
RECURSIVE LastOf(_, _)
LastOf(g, r) == IF g[r].next = 0 THEN r ELSE LastOf(g, g[r].next)

Joined(g, ren2) ==
  IF ren2 = 0 THEN g ELSE Flagged(g, ren2, {IF Has(g, ren2, "ISNEXT") THEN "ISJOIN" ELSE "ISNEXT"})

RECURSIVE FixNext(_, _, _, _)
FixNext(g, ren1, ren2, oldnext) ==
  LET good == IF ren2 # 0 /\ ~ Has(g, ren2, "ISNEXT") THEN {"GOODNEXT"} ELSE {}
      RECURSIVE Alternatives(_, _)
      Alternatives(h, r) ==
        LET next == h[r].next
            last == LastOf(h, h[r].kid)
            jump == Len(h) + 1
            jumping == [Append(h, [Node("JUMP") EXCEPT !.flags = {"ISNEXT"}])
                          EXCEPT ![last].next = jump, ![last].flags = @ \cup {"GOODNEXT"}]
        IN CASE next \in {0, oldnext} -> <<h, r>>
             [] h[r].op = "ALT" /\ h[h[r].kid].op # "JUMP" ->
                  Alternatives(FixNext(jumping, h[r].kid, ren2, oldnext), next)
             [] OTHER -> Alternatives(h, next)
      walked == Alternatives(g, ren1)
      end == walked[2]
      fixed == [Joined(walked[1], ren2) EXCEPT ![end].next = ren2, ![end].flags = @ \cup good]
  IN IF fixed[end].op \in {"ALT", "QUANT", "STAR", "PLUS", "OPT", "LPAREN"}
     THEN FixNext(fixed, fixed[end].kid, ren2, oldnext)
     ELSE fixed
SetNext(g, ren1, ren2) == FixNext(g, ren1, ren2, 0)

-----------------------------------------------------------------------------
(* The parser. *)
RECURSIVE DigitsEnd(_, _), Value(_, _, _), ClassEnd(_, _), FlatEnd(_, _), Octal(_, _, _)
DigitsEnd(s, i) == IF IsDigit(At(s, i)) THEN DigitsEnd(s, i + 1) ELSE i
Value(s, i, j) == IF j < i THEN 0 ELSE 10 * Value(s, i, j - 1) + DigitOf(At(s, j))
ClassEnd(s, i) ==  \* 0 if the class is not ended
  LET c == At(s, i)
  IN CASE c = Code["]"] -> i
       [] c = NUL -> 0
       [] c = Code["\\"] /\ At(s, i + 1) # NUL -> ClassEnd(s, i + 2)
       [] OTHER -> ClassEnd(s, i + 1)
FlatEnd(s, i) == IF At(s, i) = NUL \/ At(s, i) \in Metachars THEN i ELSE FlatEnd(s, i + 1)
Octal(s, i, n) ==  \* the value of the digits from i, and where they end
  LET m == 8 * n + DigitOf(At(s, i)) IN IF IsOctal(At(s, i)) /\ m <= 255 THEN Octal(s, i + 1, m) ELSE <<n, i>>

Flat1(p, cp, c) == Found(p, cp, [Single("FLAT1") EXCEPT !.str = <<c>>])

ParseFlat(p, from) ==
  LET all == FlatEnd(p.src, from + 1)
      end == IF At(p.src, all) \in Closurechars /\ all - from > 1 THEN all - 1 ELSE all
      cut == IF end - from > FLATLEN_MAX THEN from + FLATLEN_MAX ELSE end
  IN IF cut - from = 1 THEN Flat1(p, cut, At(p.src, from))
     ELSE Found(p, cut, [Full("FLAT", {}) EXCEPT !.str = SubSeq(p.src, from, cut - 1)])

ParseClass(p) ==
  LET first == p.cp + 1
      negated == At(p.src, first) = Code["^"]
      end == ClassEnd(p.src, IF negated THEN first + 2 ELSE first + 1)
  IN IF At(p.src, first) = NUL \/ (negated /\ At(p.src, first + 1) = NUL) \/ end = 0 THEN Bad(p)
     ELSE Found(p, end + 1, [Single("CCLASS") EXCEPT !.str = SubSeq(p.src, first, end - 1)])

ParseOctal(p, i) == LET o == Octal(p.src, i, 0) IN Flat1(p, o[2], o[1])

(* The digits of a number after the first are subtracted. *)
RECURSIVE RefNumber(_, _, _)
RefNumber(s, i, j) ==
  IF i = j THEN DigitOf(At(s, i)) ELSE 10 * RefNumber(s, i, j - 1) - DigitOf(At(s, j))
ParseBackref(p) ==
  LET end == DigitsEnd(p.src, p.cp + 1)
      num == RefNumber(p.src, p.cp + 1, end - 1)
  IN IF num > 9 /\ num > p.parens THEN ParseOctal(p, p.cp + 1)
     ELSE Found(p, end, [Full("BACKREF", {}) EXCEPT !.num = num - 1])

ParseHex(p) ==
  LET c == At(p.src, p.cp + 2)
      d == At(p.src, p.cp + 3)
  IN CASE ~ IsHex(c) -> Flat1(p, p.cp + 2, Code["x"])
       [] IsHex(c) /\ ~ IsHex(d) -> Flat1(p, p.cp + 3, HexOf(c))
       [] OTHER -> Flat1(p, p.cp + 4, 16 * HexOf(c) + HexOf(d))

AllHex(s, i) == \A k \in 0 .. 3 : IsHex(At(s, i + k))
Hex4(s, i) == 16 * (16 * (16 * HexOf(s[i]) + HexOf(s[i + 1])) + HexOf(s[i + 2])) + HexOf(s[i + 3])

ToCtrl(c) == IF c >= 64 /\ c < 128 THEN c - 64 ELSE c + 64

ParseEscape(p) ==
  LET c == At(p.src, p.cp + 1)
      d == At(p.src, p.cp + 2)
  IN CASE c = NUL -> Bad(p)
       [] c \in Escapes -> Flat1(p, p.cp + 2, EscapeMap(c))
       [] c \in ClassEscapes -> Found(p, p.cp + 2, Single(ClassOp(c)))
       [] c = Code["0"] -> ParseOctal(p, p.cp + 2)
       [] IsDigit(c) /\ c # Code["0"] -> ParseBackref(p)
       [] c = Code["x"] -> ParseHex(p)
       [] c = Code["c"] -> IF IsLetter(d) THEN Flat1(p, p.cp + 3, ToCtrl(ToUpper(d))) ELSE ParseFlat(p, p.cp)
       [] c = Code["u"] /\ AllHex(p.src, p.cp + 2) -> Flat1(p, p.cp + 6, Hex4(p.src, p.cp + 2))
       [] OTHER -> ParseFlat(p, p.cp + 1)

RECURSIVE ParseRegExp(_), ParseAltern(_), QuantifiedBy(_)

Grouped(q, num) ==
  LET ren == Len(q.g) + 1
      open == [Node("LPAREN") EXCEPT !.kid = q.ren, !.num = num, !.flags = q.g[q.ren].flags \cap {"ANCHORED", "NONEMPTY"}]
      close == [Node("RPAREN") EXCEPT !.num = num]
  IN IF q.ren = 0 \/ At(q.src, q.cp) # Code[")"] THEN Bad(q)
     ELSE [q EXCEPT !.cp = @ + 1, !.g = SetNext(@ \o <<open, close>>, ren, ren + 1), !.ren = ren]
ParseGroup(p) == Grouped(ParseRegExp([p EXCEPT !.cp = @ + 1, !.parens = @ + 1]), p.parens)

ParseAtom(p) ==
  LET c == At(p.src, p.cp)
  IN CASE c = NUL -> Found(p, p.cp, Node("EMPTY"))
       [] c = Code["("] -> ParseGroup(p)
       [] c = Code["."] -> IF At(p.src, p.cp + 1) = Code["*"] THEN Found(p, p.cp + 2, Node("DOTSTAR"))
                           ELSE Found(p, p.cp + 1, Single("DOT"))
       [] c = Code["["] -> ParseClass(p)
       [] c = Code["\\"] -> ParseEscape(p)
       [] OTHER -> ParseFlat(p, p.cp)

(* {n}, {n,}, {n,m}: max = 0 is no upper bound. *)
ParseRange(p) ==
  LET end == DigitsEnd(p.src, p.cp + 1)
      min == Value(p.src, p.cp + 1, end - 1)
      bounded == At(p.src, end) # Code[","] \/ IsDigit(At(p.src, end + 1))
      end2 == IF At(p.src, end) = Code[","] THEN DigitsEnd(p.src, end + 1) ELSE end
      max == IF At(p.src, end) # Code[","] THEN min ELSE Value(p.src, end + 1, end2 - 1)
      full == IF min > 0 THEN p.g[p.ren].flags \cap {"NONEMPTY"} ELSE {}
  IN IF \/ ~ IsDigit(At(p.src, p.cp + 1)) \/ min >= 2^16 \/ max >= 2^16
        \/ (bounded /\ (max = 0 \/ min > max)) \/ At(p.src, end2) # Code["}"]
     THEN Bad(p)
     ELSE Found(p, end2 + 1, [Node("QUANT") EXCEPT !.kid = p.ren, !.num = min, !.max = max, !.flags = full])

QuantifiedBy(p) ==
  LET c == At(p.src, p.cp)
      nonempty == Has(p.g, p.ren, "NONEMPTY")
  IN CASE p.ren = 0 -> p
       [] p.ren # 0 /\ c = Code["{"] -> QuantifiedBy(ParseRange(p))
       [] p.ren # 0 /\ c = Code["*"] ->
            IF nonempty THEN QuantifiedBy(Found(p, p.cp + 1, [Node("STAR") EXCEPT !.kid = p.ren])) ELSE Bad(p)
       [] p.ren # 0 /\ c = Code["+"] ->
            IF nonempty THEN QuantifiedBy(Found(p, p.cp + 1, [Full("PLUS", {}) EXCEPT !.kid = p.ren])) ELSE Bad(p)
       [] p.ren # 0 /\ c = Code["?"] -> QuantifiedBy(Found(p, p.cp + 1, [Node("OPT") EXCEPT !.kid = p.ren]))
       [] OTHER -> p

ParseQuantAtom(p) == QuantifiedBy(ParseAtom(p))

(* A dollar that begins the pattern, a group or an alternative. *)
EolOp(p) ==
  LET before == At(p.src, p.cp - 1)
  IN IF p.cp = 1 \/ (before \in Codes({"(", "|"}) /\ At(p.src, p.cp - 2) # Code["\\"]) THEN "EOLONLY" ELSE "EOL"

ParseItem(p) ==
  LET c == At(p.src, p.cp)
      d == At(p.src, p.cp + 1)
  IN CASE c = Code["^"] -> Found(p, p.cp + 1, [Node("BOL") EXCEPT !.flags = {"ANCHORED"}])
       [] c = Code["$"] -> Found(p, p.cp + 1, Node(EolOp(p)))
       [] c = Code["\\"] /\ d = Code["b"] -> Found(p, p.cp + 2, Full("WBDRY", {}))
       [] c = Code["\\"] /\ d = Code["B"] -> Found(p, p.cp + 2, Full("WNONBDRY", {}))
       [] OTHER -> ParseQuantAtom(p)

(* The items after q, and r the one parsed last. *)
RECURSIVE MoreItems(_, _, _), AddItem(_, _, _), MoreAlternatives(_, _, _), AddAlternative(_, _, _)
AddItem(r, first, last) ==
  IF r.ren = 0 THEN r
  ELSE MoreItems([r EXCEPT !.g = Flagged(SetNext(@, last, r.ren), first, r.g[r.ren].flags \cap {"NONEMPTY"})], first, r.ren)
MoreItems(q, first, last) ==
  IF At(q.src, q.cp) \in {NUL} \cup Codes({"|", ")"}) THEN [q EXCEPT !.ren = first] ELSE AddItem(ParseItem(q), first, last)
FromItem(q) == IF q.ren = 0 THEN q ELSE MoreItems(q, q.ren, q.ren)
ParseAltern(p) == FromItem(ParseItem(p))

Alternative(g, kid) == [Node("ALT") EXCEPT !.kid = kid, !.flags = g[kid].flags \cap {"ANCHORED", "NONEMPTY"}]

AddAlternative(r, first, last) ==
  LET alt == [Alternative(r.g, r.ren) EXCEPT !.flags = @ \cup {"ISNEXT"}]
      new == Len(r.g) + 1
  IN IF r.ren = 0 THEN r
     ELSE MoreAlternatives([r EXCEPT !.g = [Append(@, alt) EXCEPT ![last].next = new, ![last].flags = @ \cup {"GOODNEXT"}]],
                           first, new)
MoreAlternatives(q, first, last) ==
  LET skip == [q EXCEPT !.cp = @ + 1]
  IN IF At(q.src, q.cp) # Code["|"] THEN [q EXCEPT !.ren = first]
     ELSE AddAlternative(IF At(q.src, skip.cp) \in Codes({"|", ")"}) THEN Found(skip, skip.cp, Node("EMPTY"))
                         ELSE ParseAltern(skip), first, last)
FromAlternative(q) ==
  LET alt == Len(q.g) + 1
  IN IF q.ren = 0 \/ At(q.src, q.cp) # Code["|"] THEN q
     ELSE MoreAlternatives(Found(q, q.cp, Alternative(q.g, q.ren)), alt, alt)
ParseRegExp(p) == FromAlternative(ParseAltern(p))

-----------------------------------------------------------------------------
(* AnchorRegExp: a search for the first character, or for any place, goes  *)
(* before what does not begin the text.                                    *)
RECURSIVE Inner(_, _), FirstChars(_, _), StoreFirstChars(_, _, _)
Inner(g, r) == IF g[r].op = "LPAREN" THEN Inner(g, g[r].kid) ELSE r

OnlyClass(op) == op \in {"DIGIT", "NONDIGIT", "ALNUM", "NONALNUM", "SPACE", "NONSPACE"}

(* CountFirstChars >= 0: every alternative begins with characters known.   *)
FirstChars(g, alt) ==
  LET kid == Inner(g, g[alt].kid)
      n == g[kid]
      known == CASE n.op = "QUANT" -> n.num > 0 /\ FirstChars(g, kid)
                 [] n.op \in {"PLUS", "ALT"} -> FirstChars(g, kid)
                 [] n.op = "CCLASS" -> n.str[1] # Code["^"]
                 [] OTHER -> n.op \in {"FLAT", "FLAT1"} \/ OnlyClass(n.op)
      next == g[alt].next
  IN known /\ (g[alt].op = "ALT" /\ next # 0 /\ g[next].op = "ALT" => FirstChars(g, next))

Escaped(s, j) == j > 1 /\ s[j - 1] = Code["\\"]
RECURSIVE HasChar(_, _, _, _)
HasChar(s, j, c, escape) ==  \* a backslash is passed over, and what it escapes compared
  LET k == IF At(s, j) = Code["\\"] THEN j + 1 ELSE j
  IN j <= Len(s) /\ ((s[k] = c /\ (~ escape \/ Escaped(s, k))) \/ HasChar(s, k + 1, c, escape))
StoreChar(s, c, escape) ==
  IF HasChar(s, 1, c, escape) THEN s
  ELSE s \o (IF escape \/ c \in Codes({"\\", "-"}) THEN <<Code["\\"]>> ELSE <<>>) \o <<c>>
ClassLetter(op) == CHOOSE c \in ClassEscapes : ClassOp(c) = op

StoreFirstChars(g, alt, s) ==
  LET kid == Inner(g, g[alt].kid)
      n == g[kid]
      t == CASE n.op \in {"QUANT", "PLUS", "ALT"} -> StoreFirstChars(g, kid, s)
             [] n.op = "CCLASS" -> s \o n.str
             [] n.op \in {"FLAT", "FLAT1"} -> StoreChar(s, n.str[1], FALSE)
             [] OTHER -> StoreChar(s, ClassLetter(n.op), TRUE)
      next == g[alt].next
  IN IF g[alt].op = "ALT" /\ next # 0 /\ g[next].op = "ALT" THEN StoreFirstChars(g, next, t) ELSE t

FirstNode(s) ==
  LET escape == Len(s) = 2 /\ s[1] = Code["\\"]
  IN CASE Len(s) = 1 -> [Single("FLAT1") EXCEPT !.str = s]
       [] escape /\ s[2] \in Codes({"\\", "-"}) -> [Single("FLAT1") EXCEPT !.str = <<s[2]>>]
       [] escape /\ s[2] \in ClassEscapes -> Single(ClassOp(s[2]))
       [] OTHER -> [Single("CCLASS") EXCEPT !.str = s]

(* ren becomes the anchor, and what it was its next. *)
Anchored(g, ren, op, kid) ==
  LET was == [g[ren] EXCEPT !.flags = @ \cup {"ISNEXT"}]
  IN [Append(g, was) EXCEPT ![ren] = [Node(op) EXCEPT !.flags = {"GOODNEXT"}, !.next = Len(g) + 1, !.kid = kid]]
AnchoredAt(g, ren, first) == Anchored(Append(g, first), ren, "ANCHOR1", Len(g) + 1)

AnchorRegExp(g, ren) ==
  LET n == g[Inner(g, ren)]
  IN CASE n.op = "ALT" /\ FirstChars(g, Inner(g, ren)) ->
            AnchoredAt(g, ren, FirstNode(StoreFirstChars(g, Inner(g, ren), <<>>)))
       [] n.op \in {"FLAT", "FLAT1"} -> AnchoredAt(g, ren, [Single("FLAT1") EXCEPT !.str = <<n.str[1]>>])
       [] n.op = "DOTSTAR" -> g
       [] OTHER -> IF n.flags \cap {"ANCHORED", "NONEMPTY"} = {"NONEMPTY"} THEN Anchored(g, ren, "ANCHOR", 0) ELSE g

-----------------------------------------------------------------------------
(* OptimizeRegExp: loops of what is not single become alternatives and     *)
(* jumps, flat texts grow, and every node is given its offset.             *)
CloseTail(g, alt1, next) ==
  LET empty == Len(g) + 1
      alt2 == Len(g) + 2
      good == g[alt1].flags \cap {"GOODNEXT"}
  IN [g \o <<[Node("EMPTY") EXCEPT !.next = next],
             [Node("ALT") EXCEPT !.kid = empty, !.next = next, !.flags = good \cup {"ISNEXT"}]>>
        EXCEPT ![alt1].next = alt2, ![alt1].flags = @ \cup {"GOODNEXT"}]

Looping(g, ren) == IF Has(g, ren, "ISNEXT") THEN Flagged(g, ren, {"ISJOIN"}) ELSE g

RewriteStar(g, ren) ==
  LET next == g[ren].next
      jump == Len(g) + 1
      h == FixNext([Append(g, Node("JUMP")) EXCEPT ![ren].op = "ALT"], g[ren].kid, jump, next)
  IN CloseTail(Looping([h EXCEPT ![jump].next = ren], ren), ren, next)

RewritePlus(g, ren) ==
  LET next == g[ren].next
      jump == Len(g) + 1
      alt1 == Len(g) + 2
      h == FixNext([g \o <<Node("JUMP"), [Node("ALT") EXCEPT !.kid = jump]>> EXCEPT ![ren] = g[g[ren].kid]],
                   ren, alt1, next)
  IN CloseTail(Looping([Flagged(h, alt1, g[ren].flags \cap {"GOODNEXT"}) EXCEPT ![jump].next = ren], ren), alt1, next)

RewriteOpt(g, ren) ==
  LET next == g[ren].next
      jump == Len(g) + 1
      h == FixNext([Append(g, Node("JUMP")) EXCEPT ![ren].op = "ALT"], g[ren].kid, jump, next)
  IN Flagged(CloseTail([h EXCEPT ![jump].next = next], ren, next), next, {"ISJOIN"})

(* The first text joined to a FLAT1 is joined whatever its length. *)
RECURSIVE Coalesce(_, _)
Coalesce(g, ren) ==
  LET next == g[ren].next
      joined == [g[ren] EXCEPT !.op = "FLAT", !.str = @ \o g[next].str, !.next = g[next].next,
                               !.flags = IF Has(g, next, "GOODNEXT") THEN @ ELSE @ \ {"GOODNEXT"}]
  IN IF /\ next # 0 /\ ~ Has(g, next, "ISJOIN") /\ g[next].op \in {"FLAT", "FLAT1"}
        /\ (g[ren].op = "FLAT" => Len(g[ren].str) + Len(g[next].str) <= FLATLEN_MAX)
     THEN Coalesce([g EXCEPT ![ren] = joined, ![next].op = "EMPTY"], ren)
     ELSE g

Rewrite(g, ren) ==
  LET op == g[ren].op
  IN CASE op \in {"STAR", "PLUS", "OPT"} /\ ~ Has(g, g[ren].kid, "SINGLE") ->
            CASE op = "STAR" -> RewriteStar(g, ren) [] op = "PLUS" -> RewritePlus(g, ren) [] OTHER -> RewriteOpt(g, ren)
       [] op \in {"FLAT", "FLAT1"} -> Coalesce(g, ren)
       [] OTHER -> g

(* The bytes of a bitmap for the greatest character of a class, in either case: 0 if 256 bits do. *)
LargestOf(S) == CHOOSE c \in S : \A d \in S : d <= c
MaxChar(s, fold) ==
  LET wide == {Hex4(s, i + 2) : i \in {j \in DOMAIN s : s[j] = Code["\\"] /\ At(s, j + 1) = Code["u"] /\ AllHex(s, j + 2)}}
      all == wide \cup {s[i] : i \in DOMAIN s}
  IN LargestOf(all \cup (IF fold THEN {ToUpper(c) : c \in all} \cup {ToLower(ToUpper(c)) : c \in all} ELSE {}))
BitmapSize(s, fold) == IF MaxChar(s, fold) < CHARSET THEN 0 ELSE (MaxChar(s, fold) + 8) \div 8

RECURSIVE PastJumps(_, _), OptimizeRegExp(_, _)
PastJumps(g, r) == IF r # 0 /\ g[r].op = "JUMP" THEN PastJumps(g, g[r].next) ELSE r

(* The node of its size: the op it is emitted as, and what it takes more than that. *)
Sized(n, p) ==
  LET size == BitmapSize(n.str, p.fold)
      wide == \E i \in DOMAIN n.str : n.str[i] >= 256
  IN CASE n.op = "CCLASS" /\ size > 0 -> <<[n EXCEPT !.op = "UCCLASS", !.max = size], Size("UCCLASS") - Size("CCLASS") + size>>
       [] n.op = "FLAT" -> IF wide THEN <<[n EXCEPT !.op = "UCFLAT"], 2 * Len(n.str)>> ELSE <<n, Len(n.str)>>
       [] n.op = "FLAT1" /\ wide -> <<[n EXCEPT !.op = "UCFLAT1"], 1>>
       [] n.op = "JUMP" -> <<[n EXCEPT !.next = PastJumps(p.g, @)], 0>>
       [] OTHER -> <<n, 0>>

Onward(q, ren, op) ==
  LET next == q.g[ren].next
  IN IF op = "END" \/ ~ Has(q.g, ren, "GOODNEXT") \/ next = 0 THEN q ELSE OptimizeRegExp(q, next)
Resized(p, ren, s) == [p EXCEPT !.g[ren] = s[1], !.length = @ + s[2]]
Placed(p, ren, n) ==
  Onward(IF n.op \in {"ALT", "QUANT", "STAR", "PLUS", "OPT", "LPAREN", "ANCHOR1"} THEN OptimizeRegExp(p, n.kid)
       ELSE Resized(p, ren, Sized(n, p)), ren, n.op)
Rewritten(p, ren, g) ==
  LET n == [g[ren] EXCEPT !.offset = p.length]
  IN Placed([p EXCEPT !.g = [g EXCEPT ![ren] = n], !.length = @ + Size(n.op)], ren, n)
OptimizeRegExp(p, ren) == Rewritten(p, ren, Rewrite(p.g, ren))

-----------------------------------------------------------------------------
(* EmitRegExp.  The end of a class that is negated and wide is taken for   *)
(* one character later: the bracket belongs to it.                         *)
ClassText(n) ==
  CASE n.str[1] # Code["^"] -> n.str
    [] n.op = "CCLASS" -> Tail(n.str)
    [] OTHER -> Append(Tail(n.str), Code["]"])

(* A character of a class at i: its code, and where the next one is. *)
ClassChar(s, i) ==
  LET c == At(s, i + 1)
      o1 == DigitOf(c)
      o2 == 8 * o1 + DigitOf(At(s, i + 2))
      o3 == 8 * o2 + DigitOf(At(s, i + 3))
      octal == CASE ~ IsOctal(At(s, i + 2)) -> <<o1, i + 2>>
                 [] IsOctal(At(s, i + 2)) /\ (~ IsOctal(At(s, i + 3)) \/ o3 > 255) -> <<o2, i + 3>>
                 [] OTHER -> <<o3, i + 4>>
  IN CASE s[i] # Code["\\"] -> <<s[i], i + 1>>
       [] s[i] = Code["\\"] /\ c = NUL -> <<Code["]"], i + 2>>
       [] s[i] = Code["\\"] /\ IsOctal(c) -> octal
       [] s[i] = Code["\\"] /\ c = Code["x"] ->
            IF ~ IsHex(At(s, i + 2)) THEN <<c, i + 2>>
            ELSE IF IsHex(At(s, i + 3)) THEN <<16 * HexOf(s[i + 2]) + HexOf(s[i + 3]), i + 4>>
            ELSE <<HexOf(s[i + 2]), i + 4>>
       [] s[i] = Code["\\"] /\ c = Code["u"] /\ AllHex(s, i + 2) -> <<Hex4(s, i + 2), i + 6>>
       [] s[i] = Code["\\"] /\ c = Code["c"] -> <<ToCtrl(ToUpper(At(s, i + 2))), i + 3>>
       [] OTHER -> <<EscapeMap(c), i + 2>>

Folded(S, fold) == IF fold THEN S \cup {ToUpper(c) : c \in S} \cup {ToLower(ToUpper(c)) : c \in S} ELSE S
CharRange(a, c, fold) == Folded({d \in Chars \cup {ToUpper(e) : e \in Chars} \cup {ToLower(e) : e \in Chars} : a <= d /\ d <= c}, fold)

(* The characters from i on; from is the first of an open range, or -1. <<FALSE>> is an error. *)
RECURSIVE ClassSet(_, _, _, _, _)
ClassSet(s, i, from, fold, set) ==
  LET escape == s[i] = Code["\\"] /\ At(s, i + 1) \in ClassEscapes
      cc == ClassChar(s, i)
      j == cc[2]
      opens == from = -1 /\ At(s, j) = Code["-"] /\ j < Len(s) /\ s[j + 1] # Code["]"]
      dash == IF from = -1 THEN {} ELSE {from, Code["-"]}
  IN CASE i > Len(s) -> set
       [] i <= Len(s) /\ escape ->
            ClassSet(s, i + 2, -1, fold, set \cup dash \cup {c \in Chars : InClass(ClassOp(s[i + 1]), c)})
       [] i <= Len(s) /\ ~ escape /\ opens -> ClassSet(s, j + 1, cc[1], fold, set)
       [] i <= Len(s) /\ ~ escape /\ ~ opens ->
            IF from > cc[1] THEN {-1}
            ELSE ClassSet(s, j, -1, fold, set \cup CharRange(IF from = -1 THEN cc[1] ELSE from, cc[1], fold))

(* An instruction: op, jump, group or least count, greatest count or bytes of bitmap, text, class. *)
Instr(op) == [op |-> op, jump |-> 0, num |-> 0, max |-> 0, str |-> <<>>, set |-> {}]
Negative(op) == IF op = "CCLASS" THEN "NCCLASS" ELSE "NUCCLASS"
IgnoringCase(op, fold) ==
  CASE fold /\ op = "BACKREF" -> "BACKREFi" [] fold /\ op = "FLAT" -> "FLATi" [] fold /\ op = "FLAT1" -> "FLAT1i"
    [] fold /\ op = "UCFLAT" -> "UCFLATi" [] fold /\ op = "UCFLAT1" -> "UCFLAT1i" [] OTHER -> op

Emitted(p, n) ==
  LET i == Instr(IgnoringCase(n.op, p.fold))
      negated == n.str[1] = Code["^"]
  IN CASE n.op \in {"ALT", "JUMP"} -> [i EXCEPT !.jump = p.g[n.next].offset - n.offset]
       [] n.op = "QUANT" -> [i EXCEPT !.jump = p.g[n.next].offset - n.offset, !.num = n.num, !.max = n.max]
       [] n.op \in {"LPAREN", "RPAREN", "BACKREF"} -> [i EXCEPT !.num = n.num]
       [] n.op \in {"CCLASS", "UCCLASS"} ->
            [i EXCEPT !.op = IF negated THEN Negative(n.op) ELSE n.op, !.max = n.max,
                      !.set = ClassSet(ClassText(n), 1, -1, p.fold, {})]
       [] n.op \in {"FLAT", "UCFLAT", "FLAT1", "UCFLAT1"} -> [i EXCEPT !.str = n.str]
       [] OTHER -> i

EmittedSize(n) ==
  CASE n.op = "UCCLASS" -> Size(n.op) + n.max
    [] n.op = "FLAT" -> Size(n.op) + Len(n.str)
    [] n.op = "UCFLAT" -> Size(n.op) + 2 * Len(n.str)
    [] OTHER -> Size(n.op)

RECURSIVE EmitRegExp(_, _)
AfterEmit(p, ren) ==
  IF ~ Has(p.g, ren, "GOODNEXT") \/ p.g[ren].next = 0 THEN p ELSE EmitRegExp(p, p.g[ren].next)
Laid(p, n, e) ==
  [p EXCEPT !.code = (p.length :> e) @@ @, !.length = @ + EmittedSize(n), !.ok = @ /\ e.set # {-1}]
EmitRegExp(p, ren) ==
  LET n == p.g[ren]
      q == Laid(p, n, Emitted(p, n))
  IN IF n.op = "END" THEN p
     ELSE AfterEmit(IF n.op \in {"ALT", "QUANT", "STAR", "PLUS", "OPT", "LPAREN", "ANCHOR1"} THEN EmitRegExp(q, n.kid) ELSE q, ren)

(* js_NewRegExp *)
Program(p, ren, length) ==
  LET e == EmitRegExp([p EXCEPT !.length = 0], ren)
  IN IF e.ok THEN [ok |-> TRUE, code |-> e.code, length |-> length, parens |-> p.parens] ELSE [ok |-> FALSE]
Optimized(p, ren) == Program(p, ren, p.length)
Ended(p, end) ==
  IF p.ren = 0 THEN [ok |-> FALSE]
  ELSE Optimized(OptimizeRegExp([p EXCEPT !.g = AnchorRegExp(SetNext(Append(@, Node("END")), p.ren, end), p.ren)], p.ren), p.ren)
Compiled(p) == Ended(p, Len(p.g) + 1)
NewRegExp(src, fold) ==
  Compiled(ParseRegExp([src |-> src, cp |-> 1, parens |-> 0, g |-> <<>>, ren |-> 0, fold |-> fold,
                        length |-> 0, code |-> <<>>, ok |-> TRUE]))
=============================================================================
