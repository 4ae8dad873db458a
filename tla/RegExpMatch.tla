---------------------------- MODULE RegExpMatch -----------------------------
(***************************************************************************)
(* The matcher of jsregexp.c: MatchRegExp, js_ExecuteRegExp and            *)
(* regexp_exec_sub.                                                        *)
(*                                                                         *)
(* A match state st is a record: the program (code, pcend), the text and   *)
(* where in it the search starts, RegExp.multiline, whether ^ or $ is      *)
(* searching for a line (anchoring), the characters passed by the search,  *)
(* the groups as they are tried (maybe) and as they are found (parens),    *)
(* each the place and length of a text, place -1 being NULL, how many are  *)
(* found, and where the match ends: cp, -1 if there is none.  Places are   *)
(* offsets, from 0.  What no rule of C defines is ok = FALSE: running what *)
(* is no instruction, and comparing with the text at NULL.                 *)
(***************************************************************************)
EXTENDS RegExp

NoGroup == [at |-> -1, len |-> 0]
Here(st, cp) == At(st.str, cp + 1)
End(st) == Len(st.str)
NoMatch(st) == [st EXCEPT !.cp = -1]
Undefined(st) == [st EXCEPT !.cp = -1, !.ok = FALSE]

SameIgnoringCase(c, d) == c = d \/ ToUpper(c) = ToUpper(d) \/ ToLower(ToUpper(c)) = ToLower(ToUpper(d))
Same(op, c, d) == IF op \in {"FLATi", "FLAT1i", "UCFLATi", "UCFLAT1i", "BACKREFi"} THEN SameIgnoringCase(c, d) ELSE c = d

(* SINGLE_CASES: at the end of the text the terminator is looked at. *)
MatchSingle(st, i, cp) ==
  LET c == Here(st, cp)
  IN CASE i.op = "DOT" -> cp # End(st) /\ c # LF
       [] i.op = "CCLASS" -> c < CHARSET /\ c \in i.set
       [] i.op = "NCCLASS" -> c >= CHARSET \/ c \notin i.set
       [] i.op = "UCCLASS" -> c < 8 * i.max /\ c \in i.set
       [] i.op = "NUCCLASS" -> c >= 8 * i.max \/ c \notin i.set
       [] i.op \in {"FLAT1", "FLAT1i", "UCFLAT1", "UCFLAT1i"} -> Same(i.op, c, i.str[1])
       [] OTHER -> InClass(i.op, c)
IsSingle(op) ==
  op \in {"DOT", "CCLASS", "NCCLASS", "UCCLASS", "NUCCLASS", "FLAT1", "FLAT1i", "UCFLAT1", "UCFLAT1i"} \/ OnlyClass(op)
IsFlat(op) == op \in {"FLAT", "FLATi", "UCFLAT", "UCFLATi"}

(* The byte that holds the length of a text. *)
FlatLength(i) == Len(i.str) % (FLATLEN_MAX + 1)

(* oplen, of a wide class looked at tries times. *)
Length(i, tries) ==
  CASE i.op \in {"UCCLASS", "NUCCLASS"} -> Size(i.op) + tries * i.max
    [] i.op \in {"FLAT", "FLATi"} -> Size(i.op) + FlatLength(i)
    [] i.op \in {"UCFLAT", "UCFLATi"} -> Size(i.op) + 2 * FlatLength(i)
    [] OTHER -> Size(i.op)

RECURSIVE RunEnd(_, _, _), Match(_, _, _), Backtrack(_, _, _, _), AnchorSearch(_, _, _, _), Least(_, _, _, _), Most(_, _, _, _, _)

(* The end of the run of characters from cp that a single node matches. *)
RunEnd(st, i, cp) == IF cp < End(st) /\ MatchSingle(st, i, cp) THEN RunEnd(st, i, cp + 1) ELSE cp
Tries(st, i, cp) == LET e == RunEnd(st, i, cp) IN IF e < End(st) THEN e - cp + 1 ELSE e - cp

(* The rest of the program at cp, then at every place back to least. *)
Backtrack(st, pc, cp, least) ==
  LET r == Match(st, pc, cp)
  IN IF ~ r.ok \/ r.cp >= 0 \/ cp - 1 < least THEN r ELSE Backtrack(r, pc, cp - 1, least)

(* The rest at the places from cp to last that may be: what is passed is skipped. *)
AnchorSearch(st, pc, cps, from) ==
  LET cp == CHOOSE c \in cps : \A d \in cps : c <= d
      r == Match(st, pc, cp)
  IN CASE cps = {} -> NoMatch(st)
       [] cps # {} /\ r.ok /\ r.cp = -1 -> AnchorSearch(r, pc, cps \ {cp}, from)
       [] OTHER -> [r EXCEPT !.skipped = cp - from]

(* A quantified node, n times; and from then on as often as it matches, up to max (0: any) times. *)
Least(st, pc, cp, n) ==
  LET r == Match(st, pc, cp)
  IN IF n = 0 THEN [st EXCEPT !.cp = cp] ELSE IF r.cp = -1 THEN r ELSE Least(r, pc, r.cp, n - 1)
Most(st, pc, cp, n, max) ==
  LET r == Match(st, pc, cp)
  IN IF max # 0 /\ n >= max THEN [st EXCEPT !.cp = cp]
     ELSE IF ~ r.ok THEN r ELSE IF r.cp = -1 THEN [r EXCEPT !.cp = cp] ELSE Most(r, pc, r.cp, n + 1, max)

LineBegins(st, cp) == cp = 0 \/ Here(st, cp - 1) = LF
LineEnds(st, cp) == cp = End(st) \/ Here(st, cp) = LF
WordBefore(st, cp) == cp # 0 /\ IsWord(Here(st, cp - 1))

(* On, if matched, past what is matched and the instruction. *)
Continue(st, matched, pc, cp) == IF matched THEN Match(st, pc, cp) ELSE NoMatch(st)
Found1(r) == r.cp >= 0 \/ ~ r.ok
Capped(st, cp) == IF cp > End(st) THEN End(st) ELSE cp

MatchBol(st, i, pc, cp) ==
  LET r == AnchorSearch([st EXCEPT !.anchoring = TRUE], pc, {c \in cp .. End(st) - 1 : LineBegins(st, c)}, cp)
      back == [r EXCEPT !.anchoring = FALSE]
  IN CASE ~ st.multiline -> Continue(st, cp = 0, pc + 1, cp)
       [] st.multiline /\ st.anchoring -> Continue(st, LineBegins(st, cp), pc + 1, cp)
       [] OTHER -> IF Found1(r) THEN back ELSE Continue(back, cp = 0, pc + 1, cp)

MatchEol(st, i, pc, cp) ==
  LET r == AnchorSearch([st EXCEPT !.anchoring = TRUE], pc, {c \in cp .. End(st) : LineEnds(st, c)}, cp)
      back == [r EXCEPT !.anchoring = FALSE]
  IN IF i.op = "EOL" \/ st.anchoring
     THEN Continue(st, cp = End(st) \/ (st.multiline /\ LineEnds(st, cp)), pc + 1, cp)
     ELSE IF Found1(r) THEN back ELSE Continue(back, cp = End(st), pc + 1, cp)

MatchRepeat(st, i, pc, cp) ==  \* STAR, PLUS
  LET kid == st.code[pc + 1]
      end == RunEnd(st, kid, cp)
      next == pc + 1 + Length(kid, Tries(st, kid, cp))
  IN CASE ~ IsSingle(kid.op) -> NoMatch(st)
       [] i.op = "PLUS" /\ end = cp -> NoMatch(st)
       [] OTHER -> Backtrack(st, next, end, IF i.op = "PLUS" THEN cp + 1 ELSE cp)

MatchQuant(st, i, pc, cp) ==
  LET inner == [st EXCEPT !.pcend = pc + i.jump]
      least == Least(inner, pc + 7, cp, i.num)
      most == Most(least, pc + 7, least.cp, i.num, i.max)
      Outer(r) == [r EXCEPT !.pcend = st.pcend]
  IN CASE least.cp = -1 -> Outer(least)
       [] least.cp # -1 /\ ~ most.ok -> Outer(most)
       [] OTHER -> Match(Outer(most), pc + i.jump, most.cp)

(* A group is found when what follows it matches, the last time round first. *)
MatchLparen(st, i, pc, cp) ==
  LET g == i.num + 1
      r == Match([st EXCEPT !.maybe[g].at = cp], pc + 3, cp)
      first == st.start + r.skipped
  IN CASE ~ r.ok -> r
       [] r.ok /\ r.cp = -1 -> [r EXCEPT !.maybe[g].at = st.maybe[g].at]
       [] r.ok /\ r.cp # -1 /\ r.parens[g].at # -1 -> r
       [] OTHER -> IF cp < first THEN [r EXCEPT !.parens[g] = [at |-> first, len |-> @.len - (first - cp)]]
                   ELSE [r EXCEPT !.parens[g].at = cp]

MatchRparen(st, i, pc, cp) ==
  LET g == i.num + 1
      len == cp - st.maybe[g].at
      r == Match([st EXCEPT !.maybe[g].len = len], pc + 3, cp)
  IN IF r.cp = -1 THEN r
     ELSE [r EXCEPT !.parens[g].len = IF r.parens[g].at = -1 THEN len ELSE @,
                    !.count = IF i.num >= @ THEN i.num + 1 ELSE @]

MatchBackref(st, i, pc, cp) ==
  LET g == i.num + 1
      sub == st.maybe[g]
      fits == cp + sub.len <= End(st)
  IN CASE g \notin DOMAIN st.maybe -> Undefined(st)
       [] g \in DOMAIN st.maybe /\ fits /\ sub.len > 0 /\ sub.at = -1 -> Undefined(st)
       [] OTHER -> Continue(st, fits /\ \A k \in 0 .. sub.len - 1 : Same(i.op, Here(st, cp + k), Here(st, sub.at + k)),
                            pc + 2, Capped(st, cp + sub.len))

MatchFlat(st, i, pc, cp) ==
  LET n == FlatLength(i)
  IN Continue(st, cp + n <= End(st) /\ \A k \in 1 .. n : Same(i.op, Here(st, cp + k - 1), i.str[k]),
              pc + Length(i, 1), cp + n)

MatchAnchor(st, i, pc, cp) ==
  LET kid == st.code[pc + 1]
      next == IF i.op = "ANCHOR" THEN pc + 1 ELSE pc + 1 + Size(kid.op)
  IN AnchorSearch(st, next, {c \in cp .. End(st) - 1 : i.op = "ANCHOR1" => MatchSingle(st, kid, c)}, cp)

(* Past the program is a byte that was never written: it may read as ALT. *)
AltFollows(st, pc) == IF pc \in DOMAIN st.code THEN st.code[pc].op = "ALT" ELSE st.stray

(* MatchRegExp *)
Match(st, pc, cp) ==
  LET i == st.code[pc]
      body == pc + Size("ALT")
      tried == Match(st, body, cp)
      matches == MatchSingle(st, st.code[pc + 1], cp)
      after == pc + 1 + Length(st.code[pc + 1], 1)
      taken == Match(st, after, cp + 1)
      line == CHOOSE e \in cp .. End(st) : LineEnds(st, e) /\ \A d \in cp .. e - 1 : ~ LineEnds(st, d)
  IN CASE pc >= st.pcend -> [st EXCEPT !.cp = cp]
       [] pc < st.pcend /\ pc \notin DOMAIN st.code -> Undefined(st)
       [] pc < st.pcend /\ pc \in DOMAIN st.code ->
          CASE i.op = "EMPTY" -> Match(st, pc + 1, cp)
            [] i.op = "ALT" -> IF ~ AltFollows(st, pc + i.jump) THEN Match(st, body, cp)
                               ELSE IF Found1(tried) THEN tried ELSE Match(tried, pc + i.jump, cp)
            [] i.op = "BOL" -> MatchBol(st, i, pc, cp)
            [] i.op \in {"EOL", "EOLONLY"} -> MatchEol(st, i, pc, cp)
            [] i.op = "WBDRY" -> Continue(st, WordBefore(st, cp) # IsWord(Here(st, cp)), pc + 1, cp)
            [] i.op = "WNONBDRY" -> Continue(st, WordBefore(st, cp) = IsWord(Here(st, cp)), pc + 1, cp)
            [] i.op = "QUANT" -> MatchQuant(st, i, pc, cp)
            [] i.op = "LPAREN" -> MatchLparen(st, i, pc, cp)
            [] i.op = "RPAREN" -> MatchRparen(st, i, pc, cp)
            [] i.op \in {"BACKREF", "BACKREFi"} -> MatchBackref(st, i, pc, cp)
            [] i.op \in {"STAR", "PLUS"} -> MatchRepeat(st, i, pc, cp)
            [] i.op = "OPT" -> IF ~ matches THEN Match(st, after, cp) ELSE IF cp = End(st) THEN Undefined(st)
                               ELSE IF Found1(taken) THEN taken ELSE Match(taken, after, cp)
            [] IsFlat(i.op) -> MatchFlat(st, i, pc, cp)
            [] i.op = "JUMP" -> Match(st, pc + i.jump, cp)
            [] i.op = "DOTSTAR" -> Backtrack(st, pc + 1, line, cp)
            [] i.op \in {"ANCHOR", "ANCHOR1"} -> MatchAnchor(st, i, pc, cp)
            [] OTHER -> Continue(st, MatchSingle(st, i, cp), pc + Length(i, 1), Capped(st, cp + 1))

(* js_ExecuteRegExp: the match from index on, its groups (as texts), and   *)
(* what RegExp keeps of it.                                                *)
Sub(str, at, len) == IF at = -1 THEN <<>> ELSE SubSeq(str, at + 1, at + len)
Result(st, from, subs) ==
  [ok |-> st.ok, found |-> st.cp >= 0, index |-> from, end |-> st.cp, parens |-> subs,
   lastMatch |-> Sub(st.str, from, st.cp - from),
   lastParen |-> IF st.count = 0 THEN <<>> ELSE subs[st.count],
   leftContext |-> Sub(st.str, 0, from), rightContext |-> Sub(st.str, st.cp, End(st) - st.cp)]
Executed(st) ==
  Result(st, st.start + st.skipped, [g \in 1 .. st.count |-> Sub(st.str, st.parens[g].at, st.parens[g].len)])
Execute(re, str, index, multiline, stray) ==
  LET start == IF index > Len(str) THEN Len(str) ELSE index
      groups == [g \in 1 .. re.parens |-> NoGroup]
  IN Executed(Match([code |-> re.code, pcend |-> re.length, str |-> str, start |-> start, multiline |-> multiline, stray |-> stray,
                     anchoring |-> FALSE, skipped |-> 0, count |-> 0, maybe |-> groups, parens |-> groups,
                     cp |-> -1, ok |-> TRUE], 0, start))

(* regexp_exec_sub: a global expression goes on where its last match ended. *)
Went(m, global, lastIndex) ==
  [match |-> m, lastIndex |-> IF ~ global THEN lastIndex ELSE IF m.found THEN m.end ELSE 0]
Exec(re, global, lastIndex, str, multiline, stray) ==
  Went(Execute(re, str, IF global THEN lastIndex ELSE 0, multiline, stray), global, lastIndex)

-----------------------------------------------------------------------------
(***************************************************************************)
(* Regular expressions as trees, how they are written, and what they match *)
(* by definition: a tree at a place of a text gives the ends it can reach  *)
(* with the groups found, best first, and the first of them is the match.  *)
(* What this dialect says otherwise than ECMA-262 is said here: a {n,m}    *)
(* never gives back what it took, a group keeps its text when the loop     *)
(* goes round without it, a group that found nothing is the empty text,    *)
(* and a character that is not of a class may be the terminator.           *)
(***************************************************************************)

T(k, v, kids) == [k |-> k, v |-> v, kids |-> kids]
Lit(s) == T("text", Text(s), <<>>)
Dot == T("dot", <<>>, <<>>)
Class(s, set) == T("class", Text(s), <<set>>)   \* as written, and the characters
Esc(c) == T("esc", Code[c], <<>>)
Group(kid) == T("group", 0, <<kid>>)
Cat(kids) == T("seq", 0, kids)
Alt(kids) == T("alt", 0, kids)
Rep(op, kid) == T("rep", op, <<kid>>)           \* * + ?
Times(n, m, kid) == T("times", <<n, m>>, <<kid>>)
Ref(n) == T("ref", n, <<>>)
Bol == T("bol", 0, <<>>)
Eol == T("eol", 0, <<>>)
WordBound == T("wb", 0, <<>>)

RECURSIVE Flat(_), Written(_), GroupsOf(_), Sum(_)
Flat(ss) == IF ss = <<>> THEN <<>> ELSE Head(ss) \o Flat(Tail(ss))
Sum(ns) == IF ns = <<>> THEN 0 ELSE Head(ns) + Sum(Tail(ns))
Kids(n) == IF n.k = "class" THEN <<>> ELSE n.kids
GroupsOf(n) == (IF n.k = "group" THEN 1 ELSE 0) + Sum([i \in 1 .. Len(Kids(n)) |-> GroupsOf(Kids(n)[i])])

Digit(n) == <<Code["0"] + n>>
Written(n) ==
  LET kids == [i \in 1 .. Len(Kids(n)) |-> Written(Kids(n)[i])]
  IN CASE n.k = "text" -> n.v
       [] n.k = "dot" -> Text(<<".">>)
       [] n.k = "class" -> Text(<<"[">>) \o n.v \o Text(<<"]">>)
       [] n.k = "esc" -> Text(<<"\\">>) \o <<n.v>>
       [] n.k = "group" -> Text(<<"(">>) \o kids[1] \o Text(<<")">>)
       [] n.k = "seq" -> Flat(kids)
       [] n.k = "alt" -> kids[1] \o Flat([i \in 1 .. Len(kids) - 1 |-> Text(<<"|">>) \o kids[i + 1]])
       [] n.k = "rep" -> kids[1] \o Text(<<n.v>>)
       [] n.k = "times" -> kids[1] \o Text(<<"{">>) \o Digit(n.v[1]) \o Text(<<",">>)
                             \o (IF n.v[2] = 0 THEN <<>> ELSE Digit(n.v[2])) \o Text(<<"}">>)
       [] n.k = "ref" -> Text(<<"\\">>) \o Digit(n.v)
       [] n.k = "bol" -> Text(<<"^">>)
       [] n.k = "eol" -> Text(<<"$">>)
       [] n.k = "wb" -> Text(<<"\\", "b">>)

-----------------------------------------------------------------------------
(* By definition. o: the text, fold, multiline. x: the place, and the groups found (none: <<>>). *)
Alike(o, c, d) == IF o.fold THEN SameIgnoringCase(c, d) ELSE c = d
Of(o, n, c) ==
  CASE n.k = "dot" -> c # LF
    [] n.k = "class" -> IF Head(n.v) = Code["^"] THEN \A d \in n.kids[1] : ~ Alike(o, c, d)
                        ELSE \E d \in n.kids[1] : Alike(o, c, d)
    [] n.k = "esc" -> InClass(ClassOp(n.v), c)
One(n) == n.k \in {"dot", "class", "esc"}
Tested(n) == One(n) \/ (n.k = "text" /\ Len(n.v) = 1)

Moved(o, x, e) == [x EXCEPT !.e = IF e > Len(o.str) THEN Len(o.str) ELSE e]
Spelled(o, x, s) ==
  IF x.e + Len(s) <= Len(o.str) /\ \A i \in 1 .. Len(s) : Alike(o, o.str[x.e + i], s[i])
  THEN <<[x EXCEPT !.e = @ + Len(s)]>> ELSE <<>>

RECURSIVE All(_, _, _, _), AllSeq(_, _, _, _), AllRep(_, _, _, _, _), Taken(_, _, _, _, _)
Through(o, kids, base, xs) == Flat([i \in 1 .. Len(xs) |-> AllSeq(o, kids, base, xs[i])])
AllSeq(o, kids, base, x) ==
  IF kids = <<>> THEN <<x>>
  ELSE Through(o, Tail(kids), base + GroupsOf(Head(kids)), All(o, Head(kids), base, x))

(* Once more, as often as may be, each way that moves; then not. *)
AllRep(o, n, base, x, first) ==
  LET kid == n.kids[1]
      ways == IF Tested(kid) /\ x.e = Len(o.str) THEN <<>> ELSE All(o, kid, base, x)
      more == Flat([i \in 1 .. Len(ways) |->
                      IF ways[i].e = x.e THEN <<>>
                      ELSE IF n.v = "?" THEN <<ways[i]>> ELSE AllRep(o, n, base, ways[i], FALSE)])
  IN IF n.v = "+" /\ first THEN more ELSE Append(more, x)

Taken(o, n, base, x, times) ==
  LET ways == All(o, n.kids[1], base, x)
  IN IF n.v[2] # 0 /\ times = n.v[2] THEN <<x>>
     ELSE IF ways = <<>> THEN IF times < n.v[1] THEN <<>> ELSE <<x>>
     ELSE Taken(o, n, base, ways[1], times + 1)

All(o, n, base, x) ==
  LET c == At(o.str, x.e + 1)
      wordBefore == x.e > 0 /\ IsWord(o.str[x.e])
      ways == All(o, n.kids[1], base + 1, x)
  IN CASE n.k = "text" -> Spelled(o, x, n.v)
       [] One(n) -> IF Of(o, n, c) /\ (n.k = "dot" => x.e < Len(o.str)) THEN <<Moved(o, x, x.e + 1)>> ELSE <<>>
       [] n.k = "seq" -> AllSeq(o, n.kids, base, x)
       [] n.k = "alt" -> Flat([i \in 1 .. Len(n.kids) |->
                                 All(o, n.kids[i], base + Sum([j \in 1 .. i - 1 |-> GroupsOf(n.kids[j])]), x)])
       [] n.k = "group" -> [i \in 1 .. Len(ways) |-> [ways[i] EXCEPT !.groups[base] = SubSeq(o.str, x.e + 1, ways[i].e)]]
       [] n.k = "rep" -> AllRep(o, n, base, x, TRUE)
       [] n.k = "times" -> Taken(o, n, base, x, 0)
       [] n.k = "ref" -> Spelled(o, x, x.groups[n.v])
       [] n.k = "bol" -> IF x.e = 0 \/ (o.multiline /\ o.str[x.e] = LF) THEN <<x>> ELSE <<>>
       [] n.k = "eol" -> IF x.e = Len(o.str) \/ (o.multiline /\ c = LF) THEN <<x>> ELSE <<>>
       [] n.k = "wb" -> IF wordBefore # IsWord(c) THEN <<x>> ELSE <<>>

-----------------------------------------------------------------------------
(* Where a match is looked for: everywhere but at the end, if what begins  *)
(* the expression, in the innermost group that begins it, is not empty;    *)
(* at the beginnings of lines for ^; at the start only, otherwise.         *)
RECURSIVE NonEmpty(_), FrontOf(_)
NonEmpty(n) ==
  CASE n.k = "seq" -> \E i \in DOMAIN n.kids : NonEmpty(n.kids[i])
    [] n.k = "alt" -> NonEmpty(n.kids[1])
    [] n.k = "group" -> NonEmpty(n.kids[1])
    [] n.k = "rep" -> n.v = "+"
    [] n.k = "times" -> n.v[1] > 0 /\ NonEmpty(n.kids[1])
    [] OTHER -> n.k \notin {"bol", "eol"}
DotStar(n) == n.k = "rep" /\ n.v = "*" /\ n.kids[1].k = "dot"
FrontOf(n) ==
  CASE n.k = "seq" /\ n.kids[1].k \in {"group", "seq"} /\ (n.kids[1].k = "group" \/ Len(n.kids) = 1) -> FrontOf(n.kids[1])
    [] n.k = "group" -> FrontOf(n.kids[1])
    [] OTHER -> n
First(n) == IF n.k = "seq" THEN n.kids[1] ELSE n
Searched(n) == LET f == FrontOf(n) IN NonEmpty(f) /\ First(f).k # "bol" /\ ~ DotStar(First(f))
Places(n, o) ==
  CASE Searched(n) -> o.from .. Len(o.str) - 1
    [] First(n).k = "bol" /\ o.multiline -> {o.from} \cup {e \in o.from + 1 .. Len(o.str) - 1 : o.str[e] = LF}
    [] OTHER -> {o.from}

Best(at, found) ==
  LET index == CHOOSE e \in found : \A d \in found : e <= d
  IN IF found = {} THEN [found |-> FALSE] ELSE [found |-> TRUE, index |-> index, end |-> at[index][1].e, groups |-> at[index][1].groups]
Reached(at) == Best(at, {e \in DOMAIN at : at[e] # <<>>})
Expected(n, o) ==
  Reached([e \in Places(n, o) |-> All(o, n, 1, [e |-> e, groups |-> [g \in 1 .. GroupsOf(n) |-> <<>>]])])

RECURSIVE Within(_, _)
Within(n, ks) == n.k \in ks \/ \E i \in 1 .. Len(Kids(n)) : Within(Kids(n)[i], ks)
GroupsTaken(n) == n.k = "times" /\ Within(n, {"group"})
RECURSIVE Somewhere(_)
Somewhere(n) == GroupsTaken(n) \/ \E i \in 1 .. Len(Kids(n)) : Somewhere(Kids(n)[i])

(* The byte past the program is read for the last alternative of all. *)
Meets(n, o, want, x) ==
  LET m == x.match
  IN /\ m.ok /\ m.found = want.found
     /\ m.found => /\ m.index = want.index /\ m.end = want.end /\ x.lastIndex = want.end
                   /\ m.leftContext \o m.lastMatch \o m.rightContext = o.str
                   /\ (~ Somewhere(n) =>
                         \A g \in 1 .. GroupsOf(n) : want.groups[g] = IF g \in DOMAIN m.parens THEN m.parens[g] ELSE <<>>)
     /\ ~ m.found => x.lastIndex = 0
Agrees(n, re, o) ==
  \A stray \in IF n.k = "alt" THEN {FALSE} ELSE BOOLEAN :
    Meets(n, o, Expected(n, o), Exec(re, TRUE, o.from, o.str, o.multiline, stray))

-----------------------------------------------------------------------------
(* The items of the cases, and the texts. *)
a == Lit(<<"a">>)
b == Lit(<<"b">>)
ab == Lit(<<"a", "b">>)
y == T("text", <<yLarge>>, <<>>)
NotA == Class(<<"^", "a">>, Codes({"a"}))
AtoC == Class(<<"a", "-", "c">>, Codes({"a", "b", "c"}))
Items ==
  <<ab, y, Esc("w"), Rep("?", a), Rep("*", Dot), Rep("*", NotA), Rep("+", AtoC), Group(Alt(<<ab, a>>)), Group(Rep("*", a)),
    Group(Cat(<<Rep("*", a), b>>)), Rep("?", Group(ab)), Rep("+", Group(Alt(<<a, Cat(<<b, b>>)>>))),
    Rep("*", Group(Alt(<<Cat(<<b, Group(a)>>), a>>))), Times(1, 2, a), Times(2, 2, Group(Alt(<<a, b>>))), Rep("*", Times(1, 2, b)),
    NotA, Group(Alt(<<Rep("+", b), Cat(<<Rep("?", a), b, a>>), Group(ab)>>)), WordBound>>

(* What may loop: not what can be nothing, nor what the terminator is.     *)
(* Alternatives are not narrow and wide, by which a search would go wrong. *)
MayLoop(n) == NonEmpty(n) /\ ~ Within(n, {"wb"}) /\ n # NotA
Nests(i, j) ==
  LET p == Items[i]
      q == Items[j]
  IN <<Cat(<<p, q>>), Cat(<<Group(p), q, Ref(1)>>), Cat(<<Bol, p, q, Eol>>), Cat(<<p, Group(Alt(<<q, a>>)), Eol>>)>>
     \o (IF (p = y) = (q = y) THEN <<Alt(<<p, q>>), Cat(<<Group(Alt(<<p, q>>)), b>>)>> ELSE <<>>)
     \o (IF MayLoop(p) /\ MayLoop(q)
         THEN <<Cat(<<Rep("*", Group(Cat(<<p, q>>))), b>>), Cat(<<Rep("+", Group(Alt(<<q, p>>))), a>>),
                Cat(<<a, Rep("?", Group(Cat(<<q, p>>))), q>>)>>
         ELSE <<>>)



(* The texts, with what is said of case and of lines. *)
Plain == {<<>>, <<"a", "b">>, <<"b", "a", "b">>, <<"a", "b", "b">>, <<"a", "b", "a", "a">>}
Runs ==
  {[str |-> Text(t), fold |-> FALSE, multiline |-> FALSE, from |-> 0] : t \in Plain}
    \cup {[str |-> Text(t), fold |-> FALSE, multiline |-> FALSE, from |-> 1] : t \in {<<"a", "b", "a">>}}
    \cup {[str |-> t, fold |-> TRUE, multiline |-> FALSE, from |-> 0] : t \in {Text(<<"b", "A", "B">>), <<ySmall, Code["B"]>>}}
    \cup {[str |-> <<Code["b"], LF, Code["a"]>>, fold |-> FALSE, multiline |-> m, from |-> 0] : m \in BOOLEAN}
AgreesAll(n, res) == \A o \in Runs : res[o.fold].ok /\ Agrees(n, res[o.fold], o)
Matches(n) == AgreesAll(n, [fold \in BOOLEAN |-> NewRegExp(Written(n), fold)])
=============================================================================
