------------------------------ MODULE Strings -------------------------------
(***************************************************************************)
(* Strings (jsstr.c): sequences of character codes, ended by a NUL that    *)
(* the methods read at times, and the methods.  Numbers are integers, or   *)
(* NaN, which stands for itself.                                           *)
(***************************************************************************)
EXTENDS RegExpMatch, SequencesExt, FiniteSetsExt

CONSTANTS NaN,       \* no number and no character
          BMH_CHARSET_SIZE, BMH_PATLEN_MAX, BMH_TEXT,
          UINTN      \* numbers of groups wrap here

Ch(s, i) == At(s, i + 1)                        \* s->chars[i]
Cut(s, begin, end) == SubSeq(s, begin + 1, end)
DoubleToInteger(d) == IF d = NaN THEN 0 ELSE d

-----------------------------------------------------------------------------
HexDigit(n) == IF n < 10 THEN Code["0"] + n ELSE Code["A"] + n - 10
RECURSIVE Hex(_, _)
Hex(n, digits) == IF digits = 0 THEN <<>> ELSE Append(Hex(n \div 16, digits - 1), HexDigit(n % 16))

(* netCharType: what is left as it is under a mask of alphas (1), plus     *)
(* for space (2) and path (4).                                             *)
LeftAlone(c, mask) ==
  \/ mask # 0 /\ c < 128 /\ (IsLetter(c) \/ IsDigit(c) \/ c \in Codes({"*", "-", ".", "@", "_"}))
  \/ mask \in {4, 5, 6, 7} /\ c \in Codes({"+", "/"})
EscapedChar(c, mask) ==
  CASE LeftAlone(c, mask) -> <<c>>
    [] ~ LeftAlone(c, mask) /\ c < 256 -> IF mask = 2 /\ c = Code[" "] THEN Text(<<"+">>) ELSE Text(<<"%">>) \o Hex(c, 2)
    [] OTHER -> Text(<<"%", "u">>) \o Hex(c, 4)
EscapedSize(c, mask) ==
  IF LeftAlone(c, mask) \/ (c < 256 /\ mask = 2 /\ c = Code[" "]) THEN 1 ELSE IF c < 256 THEN 3 ELSE 6
Escape(s, mask) ==
  [size |-> FoldLeft(LAMBDA n, c : n + EscapedSize(c, mask), 0, s),
   text |-> FlattenSeq([i \in DOMAIN s |-> EscapedChar(s[i], mask)])]

HexAt(s, i, n) == \A k \in i .. i + n - 1 : IsHex(Ch(s, k))
ValueAt(s, i, n) == FoldLeft(LAMBDA v, k : 16 * v + HexOf(Ch(s, i + k - 1)), 0, [k \in 1 .. n |-> k])
RECURSIVE UnescapeFrom(_, _)
UnescapeFrom(s, i) ==
  IF i >= Len(s) THEN <<>>
  ELSE IF Ch(s, i) = Code["%"] /\ i + 2 < Len(s) /\ HexAt(s, i + 1, 2) THEN <<ValueAt(s, i + 1, 2)>> \o UnescapeFrom(s, i + 3)
  ELSE IF Ch(s, i) = Code["%"] /\ i + 5 < Len(s) /\ Ch(s, i + 1) = Code["u"] /\ HexAt(s, i + 2, 4)
       THEN <<ValueAt(s, i + 2, 4)>> \o UnescapeFrom(s, i + 6)
  ELSE <<Ch(s, i)>> \o UnescapeFrom(s, i + 1)
Unescape(s) == UnescapeFrom(s, 0)

-----------------------------------------------------------------------------
Between0(d, length) == IF d < 0 THEN 0 ELSE IF d > length THEN length ELSE d
FromEnd(d, length) == IF d < 0 THEN IF d + length < 0 THEN 0 ELSE d + length ELSE Between0(d, length)

Swapped(s, begin, end, version12) ==
  IF begin <= end THEN Cut(s, begin, end) ELSE IF version12 THEN <<>> ELSE Cut(s, end, begin)
Substring(s, args, version12) ==
  IF args = <<>> THEN s
  ELSE Swapped(s, Between0(DoubleToInteger(args[1]), Len(s)),
                  IF Len(args) = 1 THEN Len(s) ELSE Between0(DoubleToInteger(args[2]), Len(s)), version12)

Counted(s, begin, args) ==
  Cut(s, begin, IF Len(args) = 1 THEN Len(s) ELSE Min({begin + Max({0, DoubleToInteger(args[2])}), Len(s)}))
Substr(s, args) == IF args = <<>> THEN s ELSE Counted(s, FromEnd(DoubleToInteger(args[1]), Len(s)), args)

Slice(s, args) ==
  IF args = <<>> THEN s
  ELSE Cut(s, FromEnd(DoubleToInteger(args[1]), Len(s)),
              IF Len(args) = 1 THEN Len(s) ELSE FromEnd(DoubleToInteger(args[2]), Len(s)))

CharAt(s, d) == IF DoubleToInteger(d) \in 0 .. Len(s) - 1 THEN <<Ch(s, DoubleToInteger(d))>> ELSE <<>>
CharCodeAt(s, d) == IF DoubleToInteger(d) \in 0 .. Len(s) - 1 THEN Ch(s, DoubleToInteger(d)) ELSE NaN
LowerCase(s) == [i \in DOMAIN s |-> ToLower(s[i])]
UpperCase(s) == [i \in DOMAIN s |-> ToUpper(s[i])]
FromCharCode(args) == [i \in DOMAIN args |-> args[i] % 65536]
ConcatStrings(s, args) == FoldLeft(LAMBDA t, arg : t \o arg, s, args)

(* tagify: the parameter ends at its first NUL. *)
RECURSIVE UpToNul(_)
UpToNul(s) == IF s = <<>> \/ s[1] = NUL THEN <<>> ELSE <<s[1]>> \o UpToNul(Tail(s))
Tagify(s, begin, params, end) ==
  Text(<<"<">>) \o begin
    \o (IF params = <<>> THEN <<>> ELSE Text(<<"=", "\"">>) \o UpToNul(params[1]) \o Text(<<"\"">>))
    \o Text(<<">">>) \o s \o Text(<<"<", "/">>) \o end \o Text(<<">">>)

RECURSIVE CompareFrom(_, _, _)
CompareFrom(s, t, i) ==
  IF i = Min({Len(s), Len(t)}) THEN Len(s) - Len(t)
  ELSE IF Ch(s, i) # Ch(t, i) THEN Ch(s, i) - Ch(t, i) ELSE CompareFrom(s, t, i + 1)
CompareStrings(s, t) == CompareFrom(s, t, 0)

-----------------------------------------------------------------------------
NotFound == -1
BMH_BAD_PATTERN == -2

(* js_BoyerMooreHorspool: how far the pattern moves for the character of   *)
(* the text at its end; the pattern is compared backwards.                 *)
BMHSkip(pat, c) ==
  LET places == {i \in 0 .. Len(pat) - 2 : Ch(pat, i) = c}
  IN IF c >= BMH_CHARSET_SIZE \/ places = {} THEN Len(pat) ELSE Len(pat) - 1 - Max(places)
RECURSIVE BMHFrom(_, _, _)
BMHFrom(text, pat, k) ==
  IF k >= Len(text) THEN NotFound
  ELSE IF \A j \in 0 .. Len(pat) - 1 : Ch(text, k - j) = Ch(pat, Len(pat) - 1 - j) THEN k - Len(pat) + 1
  ELSE BMHFrom(text, pat, k + BMHSkip(pat, Ch(text, k)))
BoyerMooreHorspool(text, pat, start) ==
  IF \E i \in 0 .. Len(pat) - 2 : Ch(pat, i) >= BMH_CHARSET_SIZE THEN BMH_BAD_PATTERN
  ELSE BMHFrom(text, pat, start + Len(pat) - 1)

RECURSIVE Plainly(_, _, _, _)
Plainly(text, pat, i, j) ==
  IF i + j >= Len(text) THEN NotFound
  ELSE IF Ch(text, i + j) # Ch(pat, j) THEN Plainly(text, pat, i + 1, 0)
  ELSE IF j + 1 = Len(pat) THEN i ELSE Plainly(text, pat, i, j + 1)
SearchedFor(text, pat, i, fast) == IF fast = BMH_BAD_PATTERN THEN Plainly(text, pat, i, 0) ELSE fast
IndexFrom(text, pat, i) ==
  IF pat = <<>> THEN i
  ELSE SearchedFor(text, pat, i,
         IF Len(pat) \in 2 .. BMH_PATLEN_MAX /\ Len(text) >= BMH_TEXT THEN BoyerMooreHorspool(text, pat, i) ELSE BMH_BAD_PATTERN)
IndexOf(text, pat, args) == IndexFrom(text, pat, IF args = <<>> THEN 0 ELSE Between0(DoubleToInteger(args[1]), Len(text)))

(* The terminator of the text is compared too, and what lies past it. *)
RECURSIVE Backwards(_, _, _, _)
Backwards(text, pat, i, j) ==
  IF i < 0 THEN i
  ELSE IF Ch(text, i + j) # Ch(pat, j) THEN Backwards(text, pat, i - 1, 0)
  ELSE IF j + 1 = Len(pat) THEN i ELSE Backwards(text, pat, i, j + 1)
LastFrom(text, pat, i) == IF pat = <<>> THEN i ELSE Backwards(text, pat, i, 0)
LastIndexOf(text, pat, args) ==
  LastFrom(text, pat,
    IF args = <<>> \/ args = <<NaN>> THEN Len(text)
    ELSE IF args[1] < 0 THEN 0 ELSE Min({args[1], Len(text) - Len(pat)}))

-----------------------------------------------------------------------------
(* Matching.  re: global, parens, and run, what js_ExecuteRegExp gives for  *)
(* each index of the text.  data: mode, re, str, version12, repstr or       *)
(* lambda, and what comes of it: chars, leftIndex, matches; sized, when     *)
(* each replacement was as long as measured.  A lambda gives its arguments  *)
(* back one after another, and may match something of its own.              *)
NextDollar(s, i) ==
  LET at == {k \in i .. Len(s) - 1 : Ch(s, k) = Code["$"] /\ \A j \in 0 .. k : Ch(s, j) # NUL}
  IN IF at = {} THEN -1 ELSE Min(at)
(* The number of a group ends before the digit with which it overflows. *)
RECURSIVE GroupNumber(_, _, _)
GroupNumber(s, cp, num) ==
  LET tmp == (10 * num + DigitOf(Ch(s, cp))) % UINTN
  IN IF ~ IsDigit(Ch(s, cp)) \/ tmp < num THEN [num |-> num, end |-> cp] ELSE GroupNumber(s, cp + 1, tmp)
ParenSubstring(st, n) == IF n \in DOMAIN st.parens THEN st.parens[n] ELSE <<>>
(* js_ExecuteRegExp: in version 1.2 the left context begins where the       *)
(* search did; interpret_dollar gives it back its beginning.                *)
LeftFromStart(m, start) == IF m.found THEN [m EXCEPT !.leftContext = Cut(@, start, Len(@))] ELSE m
LeftOfAll(data, st) == IF data.version12 THEN [st EXCEPT !.leftContext = Cut(data.str, 0, st.index)] ELSE st

(* interpret_dollar: what stands for a dollar and what follows, if it is   *)
(* one of those with a meaning, and what RegExp has then.                  *)
Stands(text, skip, st) == [is |-> TRUE, text |-> text, skip |-> skip, res |-> st]
NoMeaning(st) == [is |-> FALSE, res |-> st]
StandsGroup(n, dp, st) == Stands(ParenSubstring(st, n.num), n.end - dp, st)
InterpretDollar(data, dp, st) ==
  LET dc == Ch(data.repstr, dp + 1)
  IN IF dc = Code["0"] \/ (dp > 0 /\ Ch(data.repstr, dp - 1) = Code["\\"]) THEN NoMeaning(st)
     ELSE CASE IsDigit(dc) -> StandsGroup(GroupNumber(data.repstr, dp + 1, 0), dp, st)
            [] dc = Code["&"] -> Stands(st.lastMatch, 2, st)
            [] dc = Code["+"] -> Stands(st.lastParen, 2, st)
            [] dc = Code["grave"] -> Stands(LeftOfAll(data, st).leftContext, 2, LeftOfAll(data, st))
            [] dc = Code["'"] -> Stands(st.rightContext, 2, st)
            [] OTHER -> NoMeaning(st)

(* find_replen measures, do_replace writes. *)
RECURSIVE FindReplen(_, _, _, _), DoReplace(_, _, _, _)
Grown(data, dp, d, size) ==
  FindReplen(data, NextDollar(data.repstr, dp + 1), d.res, IF d.is THEN size + Len(d.text) - d.skip ELSE size)
FindReplen(data, dp, st, size) ==
  IF dp = -1 THEN [size |-> size, res |-> st] ELSE Grown(data, dp, InterpretDollar(data, dp, st), size)
Written1(data, cp, dp, d) ==
  Cut(data.repstr, cp, dp) \o (IF d.is THEN d.text ELSE <<>>)
    \o DoReplace(data, IF d.is THEN dp + d.skip ELSE dp, NextDollar(data.repstr, dp + 1), d.res)
DoReplace(data, cp, dp, st) ==
  IF dp = -1 THEN Cut(data.repstr, cp, Len(data.repstr)) ELSE Written1(data, cp, dp, InterpretDollar(data, dp, st))

(* The replacement for a match, and what RegExp has after it. *)
WithDollars(data, dollar, m) == [text |-> DoReplace(data, 0, dollar, m.res), size |-> m.size, after |-> m.res]
Called(data, st, text) ==
  [text |-> text, size |-> Len(text), after |-> IF data.lambda[1] = "matches" THEN data.lambda[2] ELSE st]
Replacement(data, st) ==
  IF data.lambda = <<>>
  THEN LET dollar == NextDollar(data.repstr, 0) IN WithDollars(data, dollar, FindReplen(data, dollar, st, Len(data.repstr)))
  ELSE Called(data, st, FlattenSeq(<<st.lastMatch>> \o st.parens \o [k \in 1 .. data.re.parens - Len(st.parens) |-> Text(<<"?">>)]
                                     \o <<<<Code["0"] + Len(st.leftContext)>>, data.str>>))

(* match_glob, replace_glob. *)
Globbed(data, s, st, r) ==
  [data EXCEPT !.chars = @ \o Cut(s, data.leftIndex, st.index) \o r.text, !.leftIndex = st.end,
               !.sized = @ /\ r.size = Len(r.text), !.any = TRUE, !.statics = r.after]
Glob(data, s, st) ==
  IF data.mode = "match" THEN [data EXCEPT !.matches = Append(@, st.lastMatch), !.any = TRUE, !.statics = st]
  ELSE Globbed(data, s, st, Replacement(data, st))

(* An empty match is bumped along, as RegExp has the last match then.      *)
RECURSIVE GlobFrom(_, _, _), Bumped(_, _, _)
Bumped(data, s, end) ==
  IF data.statics.lastMatch # <<>> THEN GlobFrom(data, s, end)
  ELSE IF end = Len(s) THEN data ELSE GlobFrom(data, s, end + 1)
GlobTried(data, s, st) == IF st.found THEN Bumped(Glob(data, s, st), s, st.end) ELSE data
GlobFrom(data, s, index) == IF index > Len(s) THEN data ELSE GlobTried(data, s, data.re.run[index])
MatchOrReplace(data, s) == GlobFrom(data, s, 0)

GlobData(mode, s, re, lambda, repstr, version12) ==
  [mode |-> mode, re |-> re, str |-> s, version12 |-> version12, lambda |-> lambda, repstr |-> repstr, chars |-> <<>>, leftIndex |-> 0, sized |-> TRUE,
   any |-> FALSE, matches |-> <<>>, statics |-> re.run[0]]

Match1(st) == IF st.found THEN <<st.lastMatch>> \o st.parens ELSE <<>>
MatchString(s, re) ==
  IF re.global THEN MatchOrReplace(GlobData("match", s, re, <<>>, <<>>, FALSE), s).matches ELSE Match1(re.run[0])

SearchIn(st) == IF st.found THEN Len(st.leftContext) ELSE -1
SearchString(s, re) == SearchIn(re.run[0])

(* str_replace: the left context is measured before the replacement is     *)
(* found and copied after it; the right context is taken at the end.       *)
Replaced(text, sized) == [text |-> text, sized |-> sized]
ReplaceEvery(s, data) ==
  IF ~ data.any THEN Replaced(s, TRUE) ELSE Replaced(data.chars \o data.statics.rightContext, data.sized)
ReplaceWith(s, st, r) ==
  Replaced(Cut(r.after.leftContext, 0, Len(st.leftContext)) \o r.text \o r.after.rightContext,
           r.size = Len(r.text) /\ Len(st.leftContext) <= Len(r.after.leftContext))
ReplaceOne(s, data, st) == IF st.found THEN ReplaceWith(s, st, Replacement(data, st)) ELSE Replaced(s, TRUE)
ReplaceIn(s, data) ==
  IF data.re.global THEN ReplaceEvery(s, MatchOrReplace(data, s)) ELSE ReplaceOne(s, data, data.re.run[0])
Replace(s, re, lambda, repstr, version12) == ReplaceIn(s, GlobData("replace", s, re, lambda, repstr, version12))

-----------------------------------------------------------------------------
(* find_split: [at, from, len, groups]; at = -1 past the end; from, where  *)
(* the piece begins; len, how long the separator is; groups, of a match.   *)
Split(at, from, len, groups) == [at |-> at, from |-> from, len |-> len, groups |-> groups]
NoSplit == Split(-1, 0, 0, <<>>)

PastSpace(s, i) == Min({k \in i .. Len(s) : ~ IsSpace(Ch(s, k))})
PastWord(s, i) == Min({k \in i .. Len(s) : k = Len(s) \/ IsSpace(Ch(s, k))})
AwkSplit(s, i) ==
  IF i = Len(s) THEN NoSplit ELSE Split(PastWord(s, i), i, PastSpace(s, PastWord(s, i)) - PastWord(s, i), <<>>)

(* An empty match where the piece would begin is not a separator: the      *)
(* search goes on behind it.  If it finds nothing there, the groups of     *)
(* that match are still to be given.                                       *)
RECURSIVE RegExpSplit(_, _, _, _, _)
RegExpSplit(s, re, i, st, groups) ==
  IF ~ st.found THEN Split(Len(s), i, 1, groups)
  ELSE IF st.lastMatch # <<>> \/ st.end # i THEN Split(st.index, i, Len(st.lastMatch), st.parens)
  ELSE IF i = Len(s) THEN Split(i, i, 1, st.parens)
  ELSE RegExpSplit(s, re, i, re.run[i + 1], st.parens)

EmptySplit(s, i, version12) ==
  IF i = Len(s) THEN IF version12 THEN Split(i, i, 1, <<>>) ELSE NoSplit ELSE Split(i + 1, i, 0, <<>>)
RECURSIVE StringSplit(_, _, _, _, _)
StringSplit(s, sep, from, i, j) ==
  IF i + j >= Len(s) THEN Split(i + j, from, Len(sep), <<>>)
  ELSE IF Ch(s, i + j) # Ch(sep, j) THEN StringSplit(s, sep, from, i + 1, 0)
  ELSE IF j + 1 = Len(sep) THEN Split(i, from, Len(sep), <<>>) ELSE StringSplit(s, sep, from, i, j + 1)

Awk(by, version) == version = 12 /\ by.k = "string" /\ by.sep = Text(<<" ">>)
IsECMA(version) == version \notin {11, 12}
FindSplit(s, by, i, version) ==
  CASE i > Len(s) -> NoSplit
    [] i <= Len(s) /\ Awk(by, version) -> AwkSplit(s, IF i = 0 THEN PastSpace(s, 0) ELSE i)
    [] i <= Len(s) /\ by.k = "regexp" -> RegExpSplit(s, by.re, i, by.re.run[i], <<>>)
    [] OTHER -> IF ~ IsECMA(version) /\ s = <<>> THEN NoSplit
                ELSE IF by.sep = <<>> THEN EmptySplit(s, i, version = 12) ELSE StringSplit(s, by.sep, i, i, 0)

(* str_split: limit is NaN when none is given. *)
Limited(pieces, limit) == IF limit = NaN THEN pieces ELSE SubSeq(pieces, 1, Min({limit, Len(pieces)}))
RECURSIVE SplitFrom(_, _, _, _, _, _)
SplitAt(s, by, j, limit, version, found) ==
  IF j.at < 0 \/ (limit # NaN /\ Len(found) >= limit) THEN found
  ELSE IF ~ IsECMA(version) /\ limit = NaN /\ j.at + j.len = Len(s) THEN Append(found, Cut(s, j.from, j.at)) \o j.groups
  ELSE SplitFrom(s, by, j.at + j.len, limit, version, Limited(Append(found, Cut(s, j.from, j.at)) \o j.groups, limit))
SplitFrom(s, by, i, limit, version, found) == SplitAt(s, by, FindSplit(s, by, i, version), limit, version, found)
SplitString(s, by, args, version) ==
  SplitFrom(s, by, 0, IF args = <<>> THEN NaN ELSE IF args[1] > Len(s) THEN Len(s) + 1 ELSE Max({0, DoubleToInteger(args[1])}),
            version, <<>>)

-----------------------------------------------------------------------------
(***************************************************************************)
(* Strings by definition: the positions a method is to give, the places    *)
(* where a text is found, the spans that an expression matches one after   *)
(* the other and what is made of them.                                     *)
(***************************************************************************)

LetterA == Code["a"]
LetterB == Code["b"]
LetterC == Code["c"]
Words(S, n) == SeqOf(S, n)
Sources ==
  <<<<"a">>, <<"a", "b">>, <<"(", "a", ")", "|", "(", "b", ")">>, <<"a", "*">>, <<"(", "a", ")", "b", "?">>, <<"[", "^", "a", "]", "c">>,
    <<"(", "^", ")">>, <<"(", "a", "*", ")">>>>
RegExps == DOMAIN Sources
Programs == [i \in RegExps |-> NewRegExp(Text(Sources[i]), FALSE)]
Executes(program, s, version) ==
  [global \in BOOLEAN |->
    [global |-> global, parens |-> program.parens,
     run |-> [i \in 0 .. Len(s) |->
                IF version = 12 THEN LeftFromStart(Execute(program, s, i, FALSE, FALSE), i) ELSE Execute(program, s, i, FALSE, FALSE)]]]

(* A replacement: tokens, each as written and as meant. *)
Token(written, meant) == [written |-> Text(written), meant |-> meant]
Tokens ==
  {Token(<<"x">>, "itself"), Token(<<"$", "&">>, "match"), Token(<<"$", "1">>, "group"), Token(<<"$", "+">>, "last"),
   Token(<<"$", "'">>, "right"), Token(<<"$", "grave">>, "left"), Token(<<"$">>, "itself"), Token(<<"$", "0", "x">>, "itself"),
   Token(<<"\\", "$", "&">>, "itself"), Token(<<"$", "1", "2">>, "nothing"), Token(<<"$", "6", "5">>, "five")}
Replacements == SeqOf(Tokens, 2)
LeftAlways == {ts \in Replacements : \E i \in DOMAIN ts : ts[i].meant = "left"}

Methods == {"escape", "cut", "search", "compare", "case", "replace", "call", "match", "split", "html"}
Limits == {<<>>, <<NaN>>} \cup {<<n>> : n \in {-1, 0, 1, 2, 9}}
Numbers == {-9, -2, 0, 1, 3, 9, NaN}
Odd == {LetterA, Code["%"], Code["u"], Code["4"], Code[" "], Code["+"], 200, 1025}
Separators == {[k |-> "string", sep |-> t] : t \in Words({LetterA, LetterB, Code[" "]}, 2)} \cup {[k |-> "regexp", i |-> i] : i \in RegExps}
StringCasesOf(method) ==
  CASE method = "escape" -> Words(Odd, 3) \X (0 .. 7)
    [] method = "cut" -> Words({LetterA, LetterB}, 4) \X SeqOf(Numbers, 2)
    [] method = "search" -> Words({LetterA, LetterB}, 6) \X Words({LetterA, LetterB, LetterC}, 3) \X ({<<>>} \cup {<<d>> : d \in Numbers})
    [] method = "compare" -> Words({LetterA, LetterB, 300}, 3) \X Words({LetterA, LetterB, 300}, 3)
    [] method = "case" -> Words({LetterA, Code["B"], ySmall, yLarge}, 3) \X {"any"}
    [] method = "replace" -> Words({LetterA, LetterB, LetterC}, 3) \X (1 .. 6) \X BOOLEAN \X ((Replacements \X {14}) \cup (LeftAlways \X {12}))
    [] method = "call" -> Words({LetterA, LetterB, LetterC}, 3) \X RegExps \X BOOLEAN \X {<<"returns", 12>>, <<"returns", 14>>, <<"matches", 14>>}
    [] method = "match" -> Words({LetterA, LetterB, LetterC}, 4) \X RegExps \X BOOLEAN
    [] method = "split" -> Words({LetterA, LetterB, Code[" "]}, 4) \X Separators \X Limits \X {11, 12, 14}
    [] method = "html" -> Words({LetterA, LetterB}, 1) \X {<<>>, <<<<LetterA>>>>, <<<<LetterA, NUL, LetterB>>>>}

-----------------------------------------------------------------------------
(* The characters at the positions of a set. *)
Picked(s, P) == FlattenSeq([i \in DOMAIN s |-> IF i - 1 \in P THEN <<s[i]>> ELSE <<>>])
Positions(s) == 0 .. Len(s) - 1
Whole(d) == DoubleToInteger(d)
Fixed(s, d) == IF Whole(d) < 0 THEN Len(s) + Whole(d) ELSE Whole(d)        \* from the end when negative
CutRight(s, args) ==
  LET n == Len(args)
      from == IF n = 0 THEN 0 ELSE args[1]
      to == IF n < 2 THEN Len(s) ELSE args[2]
  IN /\ Substring(s, args, TRUE) = Picked(s, {k \in Positions(s) : Whole(from) <= k /\ k < Whole(to)})
     /\ Substring(s, args, FALSE) =
          Picked(s, {k \in Positions(s) : (Whole(from) <= k /\ k < Whole(to)) \/ (Whole(to) <= k /\ k < Whole(from))})
     /\ Slice(s, args) = Picked(s, {k \in Positions(s) : Fixed(s, from) <= k /\ k < Fixed(s, to)})
     /\ Substr(s, args) = Picked(s, {k \in Positions(s) : Fixed(s, from) <= k /\ (n = 2 => k < Max({0, Fixed(s, from)}) + Whole(to))})
     /\ n = 1 => /\ CharAt(s, from) = Picked(s, {Whole(from)})
                 /\ FromCharCode(IF CharCodeAt(s, from) = NaN THEN <<>> ELSE <<CharCodeAt(s, from)>>) = CharAt(s, from)

EscapeRight(s, mask) ==
  LET e == Escape(s, mask)
      plus == [i \in DOMAIN e.text |-> IF e.text[i] = Code["+"] THEN Code[" "] ELSE e.text[i]]
  IN /\ e.size = Len(e.text) /\ \A i \in DOMAIN e.text : e.text[i] < 128 /\ e.text[i] # Code[" "]
     /\ Unescape(IF mask = 2 THEN plus ELSE e.text) = s
     /\ Code["%"] \notin ToSet(s) => Unescape(s) = s

Occurs(s, pat, i) == i + Len(pat) <= Len(s) /\ SubSeq(s, i + 1, i + Len(pat)) = pat
SearchRight(s, pat, args) ==
  LET from == IF args = <<>> THEN 0 ELSE Whole(args[1])
      upto == IF args \in {<<>>, <<NaN>>} THEN Len(s) ELSE Max({0, args[1]})
      after == {i \in 0 .. Len(s) : i >= Min({from, Len(s)}) /\ Occurs(s, pat, i)}
      before == {i \in 0 .. Len(s) : i <= upto /\ Occurs(s, pat, i)}
  IN /\ IndexOf(s, pat, args) = IF after = {} THEN NotFound ELSE Min(after)
     /\ (LET found == LastIndexOf(s, pat, args) IN IF before = {} THEN found < 0 ELSE found = Max(before))

Before(s, t) ==       \* in the order of a dictionary
  \/ Len(s) < Len(t) /\ SubSeq(t, 1, Len(s)) = s
  \/ \E i \in 1 .. Min({Len(s), Len(t)}) : SubSeq(s, 1, i - 1) = SubSeq(t, 1, i - 1) /\ s[i] < t[i]
CompareRight(s, t) ==
  /\ (CompareStrings(s, t) < 0) = Before(s, t)
  /\ (CompareStrings(s, t) = 0) = (s = t)
  /\ ConcatStrings(s, <<t, s>>) = s \o t \o s

CaseRight(s) == LowerCase(UpperCase(s)) = LowerCase(s) /\ UpperCase(LowerCase(s)) = UpperCase(s)

-----------------------------------------------------------------------------
(* The spans matched from index on: all of them, or the first.  After an   *)
(* empty one the next begins a character on.                               *)
RECURSIVE SpansFrom(_, _, _)
SearchAfter(m) == IF m.end > m.index THEN m.end ELSE m.end + 1
AndOn(s, re, m) == <<m>> \o SpansFrom(s, re, SearchAfter(m))
SpansFrom(s, re, i) ==
  IF i > Len(s) THEN <<>> ELSE LET m == re.run[i] IN IF m.found THEN AndOn(s, re, m) ELSE <<>>
FirstOf(m) == IF m.found THEN <<m>> ELSE <<>>
Spans(s, re) == IF re.global THEN SpansFrom(s, re, 0) ELSE FirstOf(re.run[0])

GroupOf(m, n) == IF n \in DOMAIN m.parens THEN m.parens[n] ELSE <<>>
Meant(t, s, m) ==
  CASE t.meant = "itself" -> t.written
    [] t.meant = "nothing" -> <<>>
    [] t.meant = "five" -> Text(<<"5">>)
    [] t.meant = "match" -> Cut(s, m.index, m.end)
    [] t.meant = "group" -> GroupOf(m, 1)
    [] t.meant = "last" -> GroupOf(m, Len(m.parens))
    [] t.meant = "left" -> Cut(s, 0, m.index)
    [] t.meant = "right" -> Cut(s, m.end, Len(s))
UpToLast(s, spans, texts) ==
  FlattenSeq([k \in DOMAIN spans |-> Cut(s, IF k = 1 THEN 0 ELSE spans[k - 1].end, spans[k].index) \o texts[k]])
Substituted(s, spans, texts) == UpToLast(s, spans, texts) \o (IF spans = <<>> THEN s ELSE Cut(s, Last(spans).end, Len(s)))
Ambiguous(tokens) == \E i \in 1 .. Len(tokens) - 1 : tokens[i].written = Text(<<"$">>)
ReplaceRight(s, re, tokens, version) ==
  LET rep == FlattenSeq([i \in DOMAIN tokens |-> tokens[i].written])
      spans == Spans(s, re)
      r == Replace(s, re, <<>>, rep, version = 12)
  IN r.sized /\ (Ambiguous(tokens) \/
       r.text = Substituted(s, spans, [k \in DOMAIN spans |-> FlattenSeq([i \in DOMAIN tokens |-> Meant(tokens[i], s, spans[k])])]))

(* A function is called with the match, its groups, where it is, and the   *)
(* text; in version 1.2 the place is counted from where the search began.  *)
(* One that matches something itself may change what follows the last      *)
(* match, if the expression is global and matches no empty text.           *)
OtherMatch(m) == [m EXCEPT !.lastMatch = <<LetterC>>, !.leftContext = <<>>, !.rightContext = <<>>]
CallRight(s, re, does, version) ==
  LET spans == Spans(s, re)
      began(k) == IF k = 1 \/ version # 12 THEN 0 ELSE SearchAfter(spans[k - 1])
      given(k) == Cut(s, spans[k].index, spans[k].end) \o FlattenSeq(spans[k].parens)
                    \o [n \in 1 .. re.parens - Len(spans[k].parens) |-> Code["?"]] \o <<Code["0"] + spans[k].index - began(k)>> \o s
      texts == [k \in DOMAIN spans |-> given(k)]
      result == Replace(s, re, IF does = "matches" THEN <<does, OtherMatch(re.run[0])>> ELSE <<does>>, <<>>, version = 12)
  IN IF does = "returns" THEN result = Replaced(Substituted(s, spans, texts), TRUE)
     ELSE (re.global /\ \A k \in DOMAIN spans : spans[k].end > spans[k].index) => IsPrefix(UpToLast(s, spans, texts), result.text)

MatchRight(s, re) ==
  LET spans == Spans(s, re)
      texts == [k \in DOMAIN spans |-> Cut(s, spans[k].index, spans[k].end)]
  IN /\ MatchString(s, re) = IF re.global \/ spans = <<>> THEN texts ELSE texts \o spans[1].parens
     /\ SearchString(s, re) = IF spans = <<>> THEN -1 ELSE spans[1].index
     /\ \A k \in 1 .. Len(spans) - 1 : spans[k].end <= spans[k + 1].index

(* What lies between separators: occurrences of a text, or spans of        *)
(* matches but the empty ones where a piece begins.  The groups of such a  *)
(* one follow the last piece.  Before version 1.3 a last empty piece is    *)
(* left out if no limit is given; version 1.2 takes a space for any run of *)
(* white space.                                                            *)
RECURSIVE Occurrences(_, _, _)
Occurrences(s, sep, i) ==
  LET at == {k \in i .. Len(s) : Occurs(s, sep, k)}
  IN IF at = {} THEN <<>>
     ELSE <<[index |-> Min(at), end |-> Min(at) + Len(sep), parens |-> <<>>]>> \o Occurrences(s, sep, Min(at) + Len(sep))
Begins(seps, k) == IF k = 1 THEN 0 ELSE seps[k - 1].end
Parted(s, seps) == FlattenSeq([k \in DOMAIN seps |-> <<Cut(s, Begins(seps, k), seps[k].index)>> \o seps[k].parens])
Separating(spans) ==
  LET kept == {k \in DOMAIN spans : spans[k].end > spans[k].index \/ spans[k].index > Begins(spans, k)}
  IN FlattenSeq([k \in DOMAIN spans |-> IF k \in kept THEN <<spans[k]>> ELSE <<>>])
EmptyAt(re, i) == IF re.run[i].found /\ re.run[i].end = i THEN re.run[i].parens ELSE <<>>
RECURSIVE WordsOf(_, _)
WordsOf(s, word) ==
  LET done == IF word = <<>> THEN <<>> ELSE <<word>>
  IN IF s = <<>> THEN done ELSE IF IsSpace(s[1]) THEN done \o WordsOf(Tail(s), <<>>) ELSE WordsOf(Tail(s), Append(word, s[1]))
Trimmed(seps, s, limit, version) == version < 13 /\ limit = <<>> /\ seps # <<>> /\ Last(seps).end = Len(s)
Separated(s, seps, after, limit, version) ==
  Parted(s, seps) \o (IF Trimmed(seps, s, limit, version) THEN <<>> ELSE <<Cut(s, Begins(seps, Len(seps) + 1), Len(s))>> \o after)
SeparatedBy(s, re, seps, limit, version) ==
  Separated(s, seps, EmptyAt(re, Begins(seps, Len(seps) + 1)), limit, version)
EveryPiece(s, by, limit, version, re) ==
  CASE by.k = "regexp" -> SeparatedBy(s, re[FALSE], Separating(Spans(s, re[TRUE])), limit, version)
    [] by.k = "string" /\ version = 12 /\ by.sep = Text(<<" ">>) -> WordsOf(s, <<>>)
    [] OTHER -> IF version < 13 /\ s = <<>> THEN <<>>
                ELSE IF by.sep = <<>>
                THEN [i \in DOMAIN s |-> <<s[i]>>] \o (IF version = 12 /\ limit # <<>> THEN <<<<>>>> ELSE <<>>)
                ELSE Separated(s, Occurrences(s, by.sep, 0), <<>>, limit, version)
SplitRight(s, by, limit, version, re) ==
  LET pieces == EveryPiece(s, by, limit, version, re)
      how == IF by.k = "regexp" THEN [k |-> "regexp", re |-> re[FALSE]] ELSE by
      most == IF limit = <<>> THEN Len(pieces) ELSE Min({Max({0, Whole(limit[1])}), Len(s) + 1, Len(pieces)})
  IN SplitString(s, how, limit, version) = SubSeq(pieces, 1, most)

HtmlRight(s, params) ==
  Tagify(s, <<LetterB>>, params, <<LetterC>>) =
    Text(<<"<", "b">>) \o (IF params = <<>> THEN <<>> ELSE Text(<<"=", "\"", "a", "\"">>)) \o Text(<<">">>) \o s \o Text(<<"<", "/", "c", ">">>)

Right(method, x, re) ==
  CASE method = "escape" -> EscapeRight(x[1], x[2])
    [] method = "cut" -> CutRight(x[1], x[2])
    [] method = "search" -> SearchRight(x[1], x[2], x[3])
    [] method = "compare" -> CompareRight(x[1], x[2])
    [] method = "case" -> CaseRight(x[1])
    [] method = "replace" -> ReplaceRight(x[1], re[x[3]], x[4][1], x[4][2])
    [] method = "call" -> CallRight(x[1], re[x[3]], x[4][1], x[4][2])
    [] method = "match" -> MatchRight(x[1], re[x[3]])
    [] method = "split" -> SplitRight(x[1], x[2], x[3], x[4], re)
    [] method = "html" -> HtmlRight(x[1], x[2])
Which(method, x) ==
  CASE method = "split" /\ x[2].k = "regexp" -> x[2].i [] method \in {"replace", "call", "match"} -> x[2] [] OTHER -> 1
VersionOf(method, x) == CASE method = "replace" -> x[4][2] [] method = "call" -> x[4][2] [] OTHER -> 14
StringRight(method, x) == Right(method, x, Executes(Programs[Which(method, x)], x[1], VersionOf(method, x)))
=============================================================================
