------------------------------ MODULE Scanner -------------------------------
(***************************************************************************)
(* The scanner (jsscan.c): how the source reaches js_GetToken - in lines,  *)
(* or in pieces of lines, of at most JS_LINE_LIMIT - 1 characters, from a  *)
(* buffer or from a file - and what tokens it makes of the characters.     *)
(*                                                                         *)
(* A character is a string of one character.  One that was delivered has   *)
(* the index in its line it is taken to have (at).  What GetChar reads and *)
(* UngetChar gives back is delivered again, so a position stands for the   *)
(* buffers: the number of the next character.  read is the last one that   *)
(* was ever delivered: linebuf.ptr.                                        *)
(***************************************************************************)
EXTENDS Integers, Sequences, SequencesExt

CONSTANTS JS_LINE_LIMIT, ATOM_INDEX_LIMIT,   \* the first at least 3
          Code,        \* of a printable character
          Keywords     \* words that are no names

EOF == "EOF"
Wild == "wild"         \* what lies in the line buffer behind its end

Digits == {"0", "1", "2", "3", "4", "5", "6", "7", "8", "9"}
Octal == Digits \ {"8", "9"}
Hex == Digits \cup {"a", "b", "c", "d", "e", "f", "A", "B", "C", "D", "E", "F"}
IsLetter(c) == c \in DOMAIN Code /\ (Code[c] \in 65 .. 90 \/ Code[c] \in 97 .. 122)
Ident == {c \in DOMAIN Code : IsLetter(c) \/ c \in {"_", "$"}}
Ident2 == Ident \cup Digits
Space == {" ", "\t", "\n", "\r", "\f"}

Lower(m, n) == IF m < n THEN m ELSE n
Higher(m, n) == IF m > n THEN m ELSE n
First(i, Test(_)) == CHOOSE j \in i .. i + 1000 : Test(j) /\ \A k \in i .. j - 1 : ~ Test(k)

(***************************************************************************)
(* Lines.                                                                  *)
(***************************************************************************)

(* Where the first line ends: at any of \n, \r, or \r\n. *)
Ends(user) == {i \in DOMAIN user : user[i] \in {"\n", "\r"}}
LineEnd(user) ==
  IF Ends(user) = {} THEN 0
  ELSE LET i == CHOOSE i \in Ends(user) : \A k \in Ends(user) : i <= k
       IN IF user[i] = "\r" /\ i < Len(user) /\ user[i + 1] = "\n" THEN i + 1 ELSE i

(* GetChar fills linebuf: with a line, which is to end in \n, or with as   *)
(* much as there is room for.  A \r at the end of userbuf is left out for  *)
(* the \n that may come from the file.                                     *)
LineTo(user, nl) ==
  LET len == Lower(IF nl = 0 THEN Len(user) ELSE nl, JS_LINE_LIMIT - 1)
      last == user[len]
      whole == nl # 0 /\ len = nl
  IN [len |-> len,
      cr |-> whole /\ last = "\r" /\ nl = Len(user),
      chars |-> CASE whole /\ last = "\r" /\ nl = Len(user) -> SubSeq(user, 1, len - 1)
                  [] whole /\ last = "\r" /\ nl # Len(user) -> Append(SubSeq(user, 1, len - 1), "\n")
                  [] whole /\ last = "\n" /\ len > 1 /\ user[Higher(len - 1, 1)] = "\r" -> Append(SubSeq(user, 1, len - 2), "\n")
                  [] OTHER -> SubSeq(user, 1, len)]
Line(user) == LineTo(user, LineEnd(user))

(* The next piece of the file: fgets stops after a \n. *)
Refill(in) ==
  LET feeds == {i \in DOMAIN in.file : in.file[i] = "\n"}
      room == Lower(JS_LINE_LIMIT - 1 - (IF in.cr THEN 1 ELSE 0), Len(in.file))
      n == IF \E i \in feeds : i <= room THEN CHOOSE i \in feeds : \A k \in feeds : i <= k ELSE room
      piece == SubSeq(in.file, 1, n)
      ended == in.cr /\ piece[1] # "\n"
  IN [in EXCEPT !.user = IF ended THEN <<"\n">> \o piece ELSE piece,
                !.file = SubSeq(@, n + 1, Len(@)),
                !.linepos = IF ended THEN @ - 1 ELSE @,
                !.cr = FALSE]

Placed(chars, linepos) == [i \in DOMAIN chars |-> [c |-> chars[i], at |-> linepos + i - 1]]
Advance(in, line, linepos) ==
  [in EXCEPT !.user = SubSeq(@, line.len + 1, Len(@)), !.linepos = linepos, !.linelen = line.len,
             !.nl = Last(line.chars) = "\n", !.cr = line.cr]

(* What GetChar returns, call after call.  When only a \r is left nothing  *)
(* gets into the line buffer, and it is read all the same, without end.    *)
RECURSIVE Deliver(_)
DeliverLine(in, line, linepos) ==
  IF line.chars = <<>> THEN <<[c |-> Wild, at |-> 0]>>
  ELSE Placed(line.chars, linepos) \o Deliver(Advance(in, line, linepos))
Deliver(in) ==
  IF in.user = <<>> THEN IF in.file = <<>> THEN <<>> ELSE Deliver(Refill(in))
  ELSE DeliverLine(in, Line(in.user), IF in.nl THEN 0 ELSE in.linepos + in.linelen)

FromBuffer(text) == Deliver([user |-> text, file |-> <<>>, linepos |-> 0, linelen |-> 0, nl |-> FALSE, cr |-> FALSE])
FromFile(text) == Deliver([user |-> <<>>, file |-> text, linepos |-> 0, linelen |-> 0, nl |-> FALSE, cr |-> FALSE])

(***************************************************************************)
(* Tokens.  D is what is delivered.                                        *)
(***************************************************************************)
C(D, i) == IF i <= Len(D) THEN D[i].c ELSE EOF
Starts(D, i, s) == \A k \in 1 .. Len(s) : C(D, i + k - 1) = SubSeq(s, k, k)
NextNot(D, i, set) == First(i, LAMBDA j : C(D, j) \notin set)
CodeOf(c) == CASE c = "\n" -> 10 [] c = "\r" -> 13 [] c = "\t" -> 9 [] c \in DOMAIN Code -> Code[c] [] OTHER -> 65535
Text(D, i, j) == [k \in 1 .. j - i |-> CodeOf(C(D, i + k - 1))]

(* A token, the position after it, and the last one read to find its end.  *)
Token(tt, val, next) == [tt |-> tt, val |-> val, next |-> next, read |-> next]
Error(what, read) == [tt |-> "error", val |-> what, next |-> read, read |-> read]

(* White space and comments.  A comment in a comment is reported, and the  *)
(* scan goes on.                                                           *)
EndOfLine(D, i) == First(i, LAMBDA j : C(D, j) \in {"\n", EOF, Wild})
EndOfComment(D, i) == First(i, LAMBDA j : C(D, j) \in {EOF, Wild} \/ Starts(D, j, "*/"))
RECURSIVE Skip(_, _, _)
Skip(D, i, newlines) ==
  CASE C(D, i) \in Space /\ ~ (newlines /\ C(D, i) = "\n") -> Skip(D, i + 1, newlines)
    [] Starts(D, i, "//") \/ Starts(D, i, "<!--") -> Skip(D, EndOfLine(D, i), newlines)
    [] Starts(D, i, "/*") /\ C(D, EndOfComment(D, i + 2)) = "*" -> Skip(D, EndOfComment(D, i + 2) + 2, newlines)
    [] OTHER -> i

Word(D, b) ==
  LET e == NextNot(D, b, Ident2)
  IN Token(IF \E w \in Keywords : Len(w) = e - b /\ Starts(D, b, w) THEN "keyword" ELSE "name", Text(D, b, e), e)

IsNumber(D, b) == C(D, b) \in Digits \/ (C(D, b) = "." /\ C(D, b + 1) \in Digits)
Exponent(D, i) == IF C(D, i + 1) \in {"+", "-"} THEN i + 2 ELSE i + 1

Radix(D, b) ==
  CASE C(D, b) = "0" /\ C(D, b + 1) \in {"x", "X"} -> 16
    [] C(D, b) = "0" /\ C(D, b + 1) \in Octal -> 8
    [] OTHER -> 10
WholeEnd(D, b, radix) ==
  NextNot(D, IF radix = 16 THEN b + 2 ELSE b, CASE radix = 16 -> Hex [] radix = 8 -> Octal [] OTHER -> Digits)
FractionEnd(D, e) == IF C(D, e) = "." THEN NextNot(D, e + 1, Digits) ELSE e
WithExponent(D, b, e) ==
  IF C(D, e) \in Digits THEN Token("number", <<10, Text(D, b, NextNot(D, e, Digits))>>, NextNot(D, e, Digits))
  ELSE Error("exponent", e)
Decimal(D, b, e) ==
  IF C(D, e) \in {"e", "E"} THEN WithExponent(D, b, Exponent(D, e)) ELSE Token("number", <<10, Text(D, b, e)>>, e)
Integer(D, b, radix, e) == Token("number", <<radix, Text(D, b, e)>>, e)
Number(D, b) ==
  IF Radix(D, b) = 10 THEN Decimal(D, b, FractionEnd(D, WholeEnd(D, b, 10)))
  ELSE Integer(D, b, Radix(D, b), WholeEnd(D, b, Radix(D, b)))

(* The character an escape stands for, and how many follow the backslash:  *)
(* ahead of them some more may have been looked at.                        *)
Value(D, i, n, base) ==
  LET digit == [k \in 1 .. n |-> LET c == CodeOf(C(D, i + k - 1)) IN IF c < 58 THEN c - 48 ELSE 10 + ((c - 65) % 32)]
      upto[k \in 0 .. n] == IF k = 0 THEN 0 ELSE base * upto[k - 1] + digit[k]
  IN upto[n]
Escape(c, n, ahead) == [c |-> c, n |-> n, ahead |-> ahead]
AheadOf(D, i, n) == Lower(i + n, Len(D))
OctalLength(D, i) ==
  IF C(D, i + 1) \notin Octal THEN 1 ELSE IF C(D, i + 2) \in Octal /\ Value(D, i, 3, 8) <= 255 THEN 3 ELSE 2
HexEscape(D, i, n) ==
  IF \A k \in 1 .. n : C(D, i + k) \in Hex THEN Escape(Value(D, i + 1, n, 16), n + 1, i)
  ELSE Escape(CodeOf(C(D, i)), 1, AheadOf(D, i, n))
Escaped(D, i) ==
  LET c == C(D, i)
  IN CASE c = "b" -> Escape(8, 1, i) [] c = "f" -> Escape(12, 1, i) [] c = "n" -> Escape(10, 1, i)
       [] c = "r" -> Escape(13, 1, i) [] c = "t" -> Escape(9, 1, i) [] c = "v" -> Escape(11, 1, i)
       [] c \in Octal -> Escape(Value(D, i, OctalLength(D, i), 8), OctalLength(D, i), i)
       [] c = "u" -> HexEscape(D, i, 4)
       [] c = "x" -> HexEscape(D, i, 2)
       [] OTHER -> Escape(CodeOf(c), 1, i)

RECURSIVE StringFrom(_, _, _, _, _)
StringFrom(D, i, quote, val, read) ==
  CASE C(D, i) = quote -> [Token("string", val, i + 1) EXCEPT !.read = Higher(i, read)]
    [] C(D, i) \in {"\n", EOF, Wild} -> Error("string", i)
    [] C(D, i) = "\\" ->
         LET e == Escaped(D, i + 1) IN StringFrom(D, i + 1 + e.n, quote, Append(val, e.c), Higher(read, e.ahead))
    [] OTHER -> StringFrom(D, i + 1, quote, Append(val, CodeOf(C(D, i))), read)

(* A backslash takes the next character with it, whatever that is. *)
RECURSIVE EndOfRegExp(_, _)
EndOfRegExp(D, i) ==
  IF C(D, i) \in {"/", "\n", EOF, Wild} THEN i ELSE EndOfRegExp(D, IF C(D, i) = "\\" THEN i + 2 ELSE i + 1)
RegExpAt(D, b) ==
  LET e == EndOfRegExp(D, b + 1)
      flags == NextNot(D, e + 1, {"g", "i"})
  IN IF C(D, e) # "/" THEN Error("regexp", e)
     ELSE IF IsLetter(C(D, flags)) THEN Error("flag", flags)
     ELSE Token("regexp", <<Text(D, b + 1, e), {C(D, k) : k \in e + 1 .. flags - 1}>>, flags)

Sharp(D, b) ==
  LET e == NextNot(D, b + 1, Digits)
      n == Value(D, b + 1, e - b - 1, 10)
  IN IF e = b + 1 \/ (n < ATOM_INDEX_LIMIT /\ C(D, e) \notin {"=", "#"}) THEN Error("character", e)
     ELSE IF n >= ATOM_INDEX_LIMIT THEN Error("sharp", e)
     ELSE Token("sharp", <<C(D, e), n>>, e + 1)

(* How long the operator is.  Looking for <!-- may read two more.          *)
Second(c) ==
  CASE c \in {"|", "&", "+", "-"} -> {c, "="} [] c \in {"<", ">"} -> {c, "="} [] c \in {"^", "=", "!", "*", "/", "%"} -> {"="}
    [] OTHER -> {}
OperatorLength(D, b) ==
  LET c == C(D, b) d == C(D, b + 1)
  IN CASE d \notin Second(c) -> 1
       [] c \in {"=", "!"} -> IF C(D, b + 2) = "=" THEN 3 ELSE 2
       [] c = "<" /\ d = "<" -> IF C(D, b + 2) = "=" THEN 3 ELSE 2
       [] c = ">" /\ d = ">" -> IF C(D, b + 2) = "=" THEN 3
                                ELSE IF C(D, b + 2) # ">" THEN 2 ELSE IF C(D, b + 3) = "=" THEN 4 ELSE 3
       [] OTHER -> 2
Punctuators == {"\n", ";", ".", "[", "]", "{", "}", "(", ")", ",", "?", ":", "~",
                "|", "&", "+", "-", "<", ">", "^", "=", "!", "*", "/", "%"}
Operator(D, b) ==
  LET n == OperatorLength(D, b)
  IN [Token(IF C(D, b) = "\n" THEN "line" ELSE "operator", Text(D, b, b + n), b + n)
        EXCEPT !.read = IF Starts(D, b, "<!-") THEN b + 3 ELSE IF Starts(D, b, "<!") THEN b + 2 ELSE b + n]

TokenAt(D, b, regexp) ==
  LET c == C(D, b)
  IN CASE c \in Ident -> Word(D, b)
       [] IsNumber(D, b) -> Number(D, b)
       [] c \in {"\"", "'"} -> StringFrom(D, b + 1, c, <<>>, b)
       [] Starts(D, b, "/*") -> Error("comment", Len(D))
       [] c = "/" /\ regexp -> RegExpAt(D, b)
       [] c = "#" -> Sharp(D, b)
       [] c \in Punctuators /\ ~ (c = "/" /\ regexp) -> Operator(D, b)
       [] OTHER -> Error("character", b)

(* js_GetToken: the token's line is that reached with its first character, *)
(* and its index that of the last character in the line buffer which was   *)
(* read so far.  After an error there is nothing but errors.               *)
LineAt(D, i) == 1 + Len(SelectSeq(SubSeq(D, 1, i), LAMBDA d : d.c = "\n"))
Located(D, ts, b, at, t) ==
  [tt |-> t.tt, val |-> t.val, line |-> LineAt(D, b), at |-> D[at].at, ahead |-> ts.read > b,
   next |-> t.next, read |-> Higher(t.read, ts.read)]
TokenFrom(D, ts, b, regexp) == Located(D, ts, b, Lower(Higher(b, ts.read), Len(D)), TokenAt(D, b, regexp))
GetToken(D, ts, newlines, regexp) == TokenFrom(D, ts, Skip(D, ts.next, newlines), regexp)

(* The tokens to the end of the source; before those numbered in regexps a *)
(* regular expression may stand.                                           *)
RECURSIVE TokensFrom(_, _, _, _)
TokensAfter(D, t, count, newlines, regexps) ==
  <<t>> \o TokensFrom(D, [next |-> t.next, read |-> t.read, count |-> count, tt |-> t.tt], newlines, regexps)
TokensFrom(D, ts, newlines, regexps) ==
  IF Skip(D, ts.next, newlines) > Len(D) \/ ts.tt = "error" THEN <<>>
  ELSE TokensAfter(D, GetToken(D, ts, newlines, ts.count + 1 \in regexps), ts.count + 1, newlines, regexps)
Tokens(D, newlines, regexps) == TokensFrom(D, [next |-> 1, read |-> 0, count |-> 0, tt |-> ""], newlines, regexps)

-----------------------------------------------------------------------------
(***************************************************************************)
(* Sources for the scanner and what should be read in them: two tokens     *)
(* with a gap between them, at every distance from the end of the line     *)
(* buffer, from a buffer and from a file; and all short runs of operator   *)
(* characters, beginnings of numbers and escapes.                          *)
(***************************************************************************)

Spelled(s) == [i \in 1 .. Len(s) |-> SubSeq(s, i, i)]
Codes(s) == [i \in 1 .. Len(s) |-> CodeOf(SubSeq(s, i, i))]

(* Tokens as they are written, and what they are. *)
Piece(s, tt, val) == [chars |-> Spelled(s), tt |-> tt, val |-> val]
Plain(s, tt) == Piece(s, tt, Codes(s))
Pieces ==
  <<Plain("ab", "name"), Plain("if", "keyword"), Plain("ifs", "name"), Plain("a$1", "name"),
    Piece("12", "number", <<10, Codes("12")>>), Piece("0x1F", "number", <<16, Codes("0x1F")>>), Piece(".5e-1", "number", <<10, Codes(".5e-1")>>),
    Piece("'a'", "string", Codes("a")), Piece("\"\\x41'\"", "string", Codes("A'")), Piece("'\\u004'", "string", Codes("u004")),
    Piece("'\\u'", "string", Codes("u")), Piece("'a\\\nb'", "string", Codes("a\nb")), Piece("'a\\\r\nb'", "string", Codes("a\nb")),
    Piece("/\\//gi", "regexp", <<Codes("\\/"), {"g", "i"}>>), Piece("#12=", "sharp", <<"=", 12>>), Piece("#3#", "sharp", <<"#", 3>>),
    Plain("===", "operator"), Plain(">>>=", "operator"), Plain("<", "operator"), Plain("/", "operator"), Plain("]", "operator"),
    Piece("'a", "error", "string"), Piece("/a", "error", "regexp"), Piece("/a/x", "error", "flag"), Piece("1e", "error", "exponent"),
    Piece("@", "error", "character"), Piece("#99=", "error", "sharp"), Piece("#1", "error", "character"), Piece("#=", "error", "character")>>

(* What may stand between two tokens, and the lines it ends. *)
Gaps == <<[s |-> "", lines |-> 0], [s |-> " ", lines |-> 0], [s |-> "\n", lines |-> 1], [s |-> "\r", lines |-> 1], [s |-> "\r\n", lines |-> 1],
          [s |-> "\n\r", lines |-> 2], [s |-> "\r\r\n ", lines |-> 2], [s |-> "//a\r\n", lines |-> 1], [s |-> "<!--\r", lines |-> 1],
          [s |-> "/*\r\n**/", lines |-> 0], [s |-> "/* /*/", lines |-> 0], [s |-> "/*/ a*/", lines |-> 0]>>
Tails == <<"", "\n", "\r", "\r\n", "\n\r">>
EndsIn(s, c) == s # <<>> /\ s[Len(s)] = c
TailLines(tail) == CASE tail = "" -> 0 [] tail = "\n\r" -> 2 [] OTHER -> 1

(* Without a gap two tokens must not run together. *)
Apart(p, q) ==
  \/ p.tt \in {"string", "sharp"}
  \/ p.tt = "operator" /\ p.chars # <<"<">> /\ q.tt \in {"name", "keyword", "string"}
  \/ p.tt \in {"name", "keyword", "number"} /\ q.tt = "operator"
Open(p) == p.tt = "error" /\ p.val \in {"string", "regexp"}

(* A source: its characters, its tokens, and whether they are the second.  *)
Source(lead, p, gap, q, tail) ==
  [chars |-> [i \in 1 .. lead |-> " "] \o p.chars \o Spelled(gap.s) \o q.chars \o Spelled(tail),
   tokens |-> IF p.tt = "error" THEN <<p>> ELSE <<p, q>>,
   starts |-> <<lead + 1, lead + Len(p.chars) + Len(gap.s) + 1>>,
   regexps |-> {i \in 1 .. 2 : LET t == <<p, q>>[i] IN t.tt = "regexp" \/ (t.tt = "error" /\ t.val \in {"regexp", "flag"})},
   lines |-> gap.lines + TailLines(tail)]

(* Where a character stands: its line and its index in it. *)
LineStarts(s) == {1} \cup {i + 1 : i \in {k \in DOMAIN s : s[k] = "\n" \/ (s[k] = "\r" /\ ~ (k < Len(s) /\ s[k + 1] = "\n"))}}
LineOf(s, i) == Len(SelectSeq([k \in 1 .. i |-> k], LAMBDA k : k \in LineStarts(s)))
IndexOf(s, i) == i - (CHOOSE k \in LineStarts(s) : k <= i /\ \A j \in LineStarts(s) : j <= i => j <= k)

(* A \r of a \r\n which the line buffer has no room for stays: with a      *)
(* backslash before it in a string, the \n ends the string.                *)
SplitReturn(D) == \E i \in DOMAIN D : D[i].c = "\r" /\ D[i].at % (JS_LINE_LIMIT - 1) = JS_LINE_LIMIT - 2
(* A \r that is all that is left of a piece, as the last character of the  *)
(* source or after another \r, is replaced by whatever is in memory.       *)
ReadsOn(D) == EndsIn(D, [c |-> Wild, at |-> 0])
MayReadOn(s) == EndsIn(s, "\r") \/ \E i \in DOMAIN s : s[i] = "\r" /\ i < Len(s) /\ s[i + 1] = "\r"

ReadAs(t, p, s, start) ==
  /\ t.tt = p.tt /\ t.val = p.val /\ t.line = LineOf(s, start)
  /\ ~ t.ahead => t.at = IndexOf(s, start)

ReadAllAs(source, D, newlines, all, read) ==
  LET n == Len(source.tokens)
      known == IF ReadsOn(D) THEN Lower(Higher(Len(read) - 1, 0), n) ELSE n
  IN /\ ReadsOn(D) \/ Len(read) = n
     /\ \A i \in 1 .. known : ReadAs(read[i], source.tokens[i], source.chars, source.starts[i])
     /\ \A i \in DOMAIN all : all[i].tt = "line" => all[i].line > 1
     /\ newlines /\ ~ ReadsOn(D) /\ source.tokens[n].tt # "error" =>
          Len(all) - n = source.lines - (IF EndsIn(source.chars, "\r") THEN 1 ELSE 0)
ReadsAllAs(source, D, newlines, all) == ReadAllAs(source, D, newlines, all, SelectSeq(all, LAMBDA t : t.tt # "line"))
ReadsAs(source, D, newlines) ==
  \/ SplitReturn(D) /\ \E i \in DOMAIN source.tokens : source.tokens[i].tt = "string"
  \/ ReadsAllAs(source, D, newlines, Tokens(D, newlines, IF newlines THEN {} ELSE source.regexps))

LaidOut(source) ==
  LET buffers == {FromBuffer(source.chars), FromFile(source.chars)}
  IN \A D \in buffers :
       /\ ReadsOn(D) => MayReadOn(source.chars)
       /\ \A newlines \in {FALSE} \cup (IF source.regexps = {} THEN {TRUE} ELSE {}) : ReadsAs(source, D, newlines)

Layouts(p) ==
  {<<lead, g, q, t>> : lead \in 0 .. JS_LINE_LIMIT - 1, g \in DOMAIN Gaps, q \in {1, 13, 14, 25}, t \in DOMAIN Tails}
LayoutRight(p, case) ==
  LET gap == Gaps[case[2]]
      q == Pieces[case[3]]
      joined == p.chars \in {<<"<">>, <<"/">>} /\ gap.s # "" /\ SubSeq(gap.s, 1, 1) \in {"<", "/"}
  IN ~ joined /\ (gap.s = "" => Apart(p, q)) /\ ~ Open(p) /\ ~ (Open(q) /\ Tails[case[4]] # "")
       => LaidOut(Source(case[1], p, gap, q, Tails[case[4]]))

(***************************************************************************)
(* Short runs of characters.                                               *)
(***************************************************************************)
Bare(s) == [i \in DOMAIN s |-> [c |-> s[i], at |-> i - 1]]
Runs(set, n) == UNION {[1 .. k -> set] : k \in 0 .. n}
Chars(s) == {SubSeq(s, i, i) : i \in 1 .. Len(s)}

(* The longest operator is taken. *)
Operators == {"|", "||", "|=", "&", "&&", "&=", "^", "^=", "=", "==", "===", "!", "!=", "!==", "<", "<<", "<=", "<<=", ">", ">>", ">>>",
              ">=", ">>=", ">>>=", "*", "*=", "/", "/=", "%", "%=", "+", "++", "+=", "-", "--", "-=", "~", ".", "?", ":"}
RECURSIVE Munched(_)
Munched(s) ==
  IF s = <<>> THEN <<>>
  ELSE LET n == CHOOSE n \in 1 .. Len(s) : /\ \E o \in Operators : Spelled(o) = SubSeq(s, 1, n)
                                           /\ \A m \in n + 1 .. Len(s) : ~ \E o \in Operators : Spelled(o) = SubSeq(s, 1, m)
       IN <<n>> \o Munched(SubSeq(s, n + 1, Len(s)))
Comments(s) == \E i \in DOMAIN s : Starts(Bare(s), i, "//") \/ Starts(Bare(s), i, "/*") \/ Starts(Bare(s), i, "<!--")
MunchedAs(read, lengths) ==
  LET upto[n \in 0 .. Len(lengths)] == IF n = 0 THEN 0 ELSE upto[n - 1] + lengths[n]
  IN /\ [i \in DOMAIN read |-> Len(read[i].val)] = lengths
     /\ \A i \in DOMAIN read : ~ read[i].ahead => read[i].at = upto[i - 1]
MunchesRight(s) == Comments(s) \/ MunchedAs(Tokens(Bare(s), FALSE, {}), Munched(s))

(* The longest number is taken (0x counts as one), unless it breaks off in *)
(* its exponent.                                                           *)
All(s, set) == \A i \in DOMAIN s : s[i] \in set
Part(s, i, j) == SubSeq(s, i, j)
IsInteger(s) == s # <<>> /\ All(s, Digits) /\ (s[1] = "0" => Len(s) = 1 \/ s[2] \in {"8", "9"})
IsMantissa(s) ==
  IsInteger(s) \/ \E i \in DOMAIN s : /\ s[i] = "." /\ Len(s) > 1 /\ All(Part(s, i + 1, Len(s)), Digits)
                                      /\ (i = 1 \/ IsInteger(Part(s, 1, i - 1)))
IsExponent(s) == s # <<>> /\ LET t == IF s[1] \in {"+", "-"} THEN Tail(s) ELSE s IN t # <<>> /\ All(t, Digits)
IsDecimal(s) == IsMantissa(s) \/ \E i \in DOMAIN s : s[i] = "e" /\ IsMantissa(Part(s, 1, i - 1)) /\ IsExponent(Part(s, i + 1, Len(s)))
IsOctal(s) == Len(s) > 1 /\ s[1] = "0" /\ All(s, Octal)
IsHexadecimal(s) == Len(s) > 1 /\ s[1] = "0" /\ s[2] = "x" /\ All(Part(s, 3, Len(s)), Hex)
IsLiteral(s) == IsDecimal(s) \/ IsOctal(s) \/ IsHexadecimal(s)
LongestLiteral(s) == CHOOSE n \in 1 .. Len(s) : IsLiteral(Part(s, 1, n)) /\ \A m \in n + 1 .. Len(s) : ~ IsLiteral(Part(s, 1, m))
NumberRight(s, whole, t) ==
  IF IsDecimal(whole) /\ (\A i \in DOMAIN whole : whole[i] # "e") /\ Len(whole) < Len(s) /\ s[Len(whole) + 1] = "e" THEN t.tt = "error"
  ELSE /\ t.tt = "number" /\ Len(t.val[2]) = Len(whole)
       /\ t.val[1] = IF IsHexadecimal(whole) THEN 16 ELSE IF IsOctal(whole) THEN 8 ELSE 10
NumbersRight(s) ==
  (\E k \in DOMAIN s : IsLiteral(Part(s, 1, k))) => NumberRight(s, Part(s, 1, LongestLiteral(s)), Tokens(Bare(s), FALSE, {})[1])

(* The longest escape is taken. *)
Named == ("b" :> 8) @@ ("f" :> 12) @@ ("n" :> 10) @@ ("r" :> 13) @@ ("t" :> 9) @@ ("v" :> 11)
OctalValue(s) == Value(Bare(s), 1, Len(s), 8)
Means(s) ==      \* what s means after a backslash: characters, or none
  CASE Len(s) = 1 /\ s[1] \in DOMAIN Named -> Named[s[1]]
    [] Len(s) \in 1 .. 3 /\ All(s, Octal) -> IF OctalValue(s) <= 255 THEN OctalValue(s) ELSE -1
    [] Len(s) = 3 /\ s[1] = "x" /\ All(Tail(s), Hex) -> Value(Bare(s), 2, 2, 16)
    [] Len(s) = 5 /\ s[1] = "u" /\ All(Tail(s), Hex) -> Value(Bare(s), 2, 4, 16)
    [] Len(s) = 1 -> CodeOf(s[1])
    [] OTHER -> -1
RECURSIVE Unescaped(_)
UnescapedAt(s, n) == <<Means(Part(s, 2, n))>> \o Unescaped(Part(s, n + 1, Len(s)))
Unescaped(s) ==
  IF s = <<>> THEN <<>>
  ELSE IF s[1] # "\\" THEN <<CodeOf(s[1])>> \o Unescaped(Tail(s))
  ELSE UnescapedAt(s, CHOOSE n \in 2 .. Len(s) : Means(Part(s, 2, n)) >= 0 /\ \A m \in n + 1 .. Lower(6, Len(s)) : Means(Part(s, 2, m)) < 0)
EscapeRight(s, t) == t.tt = "string" /\ t.val = Unescaped(s)
EscapesRight(s) == ~ EndsIn(s, "\\") => EscapeRight(s, Tokens(Bare(<<"'">> \o s \o <<"'">>), FALSE, {})[1])

-----------------------------------------------------------------------------
(* The cases, in parts: those of one first token, and those of one first   *)
(* character.                                                              *)
RunChars == Chars("<>=!&+-/*.")
Methods == {<<"layout", i>> : i \in DOMAIN Pieces} \cup {<<"munch", c>> : c \in RunChars}
             \cup {<<"number", c>> : c \in Chars("018.")} \cup {<<"escape", c>> : c \in Chars("0347xun\\")}
ScannerCasesOf(part) ==
  CASE part[1] = "layout" -> Layouts(part[2])
    [] part[1] = "munch" -> {<<part[2]>> \o s : s \in Runs(RunChars, 3)}
    [] part[1] = "number" -> {<<part[2]>> \o s : s \in Runs(Chars("018xea.+"), 4)}
    [] part[1] = "escape" -> {<<"\\", part[2]>> \o s : s \in Runs(Chars("0378xuA\\"), 3) \cup [1 .. 4 -> Chars("08A")]}
ScannerRight(part, case) ==
  CASE part[1] = "layout" -> LayoutRight(Pieces[part[2]], case)
    [] part[1] = "munch" -> MunchesRight(case)
    [] part[1] = "number" -> NumbersRight(case)
    [] part[1] = "escape" -> EscapesRight(case)
=============================================================================
