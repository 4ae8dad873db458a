------------------------------ MODULE Grammar ------------------------------
(***************************************************************************)
(* The grammar the parser is compared with, as a writer of syntax trees:   *)
(* what parentheses a tree needs by the precedence of its operators        *)
(* (Fit), its tokens (Write), and the ways to lay them out in lines with   *)
(* the semicolons that may be left out (Lay).  Legal says which trees are  *)
(* programs.  Nothing here translates code: it is the language the parser  *)
(* is for.                                                                 *)
(***************************************************************************)
EXTENDS Parser, SequencesExt

Prec(k) ==
  CASE k = "COMMA" -> 1 [] k = "ASSIGN" -> 2 [] k = "HOOK" -> 3 [] k = "OR" -> 4 [] k = "AND" -> 5
    [] k = "BITOR" -> 6 [] k = "BITXOR" -> 7 [] k = "BITAND" -> 8 [] k = "EQOP" -> 9
    [] k \in {"RELOP", "IN", "INSTANCEOF"} -> 10 [] k = "SHOP" -> 11 [] k \in {"PLUS", "MINUS"} -> 12
    [] k \in {"STAR", "DIVOP"} -> 13 [] k \in {"UNARYOP", "PRE", "DELETE"} -> 14 [] k = "POST" -> 15
    [] k = "CALL" -> 16 [] k \in {"NEW", "DOT", "LB"} -> 17 [] OTHER -> 18

IsBinary(k) == Prec(k) \in 6 .. 13

RECURSIVE Calls(_)   \* whether a call would end the operand of new
Calls(t) == t.k = "CALL" \/ (t.k \in {"DOT", "LB"} /\ Calls(t.kids[1]))

RECURSIVE OpenIf(_)  \* whether an else written after t would belong to an if in t
OpenIf(t) ==
  CASE t.k = "IF" -> t.kids[3] = Nil \/ OpenIf(t.kids[3])
    [] t.k \in {"WHILE", "WITH", "FOR", "COLON"} -> OpenIf(t.kids[Len(t.kids)])
    [] OTHER -> FALSE

RECURSIVE FirstToken(_)
FirstToken(t) == IF t.k \in {"COMMA", "ASSIGN", "HOOK", "OR", "AND", "POST", "CALL", "DOT", "LB"} \/ IsBinary(t.k)
                 THEN FirstToken(t.kids[1]) ELSE t.k

Paren(t) == N("RP", "", <<t>>)

(* The tree with the parentheses it needs where only operators of level    *)
(* min and up may stand, and no in when noIn.                              *)
RECURSIVE Fit(_, _, _)
FitKids(t, levels, noIn) ==
  [t EXCEPT !.kids = SubSeq([i \in DOMAIN @ |-> Fit(@[i], levels[i], noIn[i])], 1, Len(@))]
All(t, v) == [i \in DOMAIN t.kids |-> v]
Whole(t, min) == FitKids(t, All(t, min), All(t, FALSE))
Fitted(t, noIn) ==
  CASE t.k = "HOOK" -> FitKids(t, <<4, 2, 2>>, <<noIn, FALSE, noIn>>)
    [] t.k \in {"OR", "AND"} -> FitKids(t, <<Prec(t.k) + 1, Prec(t.k)>>, All(t, noIn))
    [] IsBinary(t.k) -> FitKids(t, <<Prec(t.k), Prec(t.k) + 1>>, All(t, noIn))
    [] t.k = "ASSIGN" -> FitKids(t, <<16, 2>>, All(t, noIn))
    [] t.k = "COMMA" -> FitKids(t, All(t, 2), All(t, noIn))
    [] t.k \in {"UNARYOP", "DELETE"} -> Whole(t, 14)
    [] t.k \in {"PRE", "POST"} -> Whole(t, 16)
    [] t.k = "NEW" /\ Calls(t.kids[1]) -> [Whole(t, 2) EXCEPT !.kids[1] = Paren(@)]
    [] t.k \in {"CALL", "NEW"} -> FitKids(t, [i \in DOMAIN t.kids |-> IF i > 1 THEN 2 ELSE IF t.k = "NEW" THEN 17 ELSE 16],
                                          All(t, FALSE))
    [] t.k = "DOT" -> Whole(t, 16)
    [] t.k = "LB" -> FitKids(t, <<16, 1>>, All(t, FALSE))
    [] t.k \in {"RB", "RC", "MEMBER"} -> Whole(t, 2)
    [] t.k = "SEMI" /\ FirstToken(t.kids[1]) \in {"RC", "FUNCTION"} -> [Whole(t, 0) EXCEPT !.kids[1] = Paren(@)]
    [] t.k = "IF" /\ t.kids[3] # Nil /\ OpenIf(t.kids[2]) -> [Whole(t, 0) EXCEPT !.kids[2] = N("LC", "", <<@>>)]
    [] t.k = "VAR" -> [t EXCEPT !.kids = [i \in DOMAIN @ |-> [@[i] EXCEPT !.kids[2] = Fit(@, 2, noIn)]]]
    [] t.k = "FOR" /\ Len(t.kids) = 2 ->
         LET in == t.kids[1].kids
         IN [t EXCEPT !.kids = <<N("IN", "", <<Fit(in[1], 0, TRUE), Fit(in[2], 0, FALSE)>>), Fit(@[2], 0, FALSE)>>]
    [] t.k = "FOR" -> FitKids(t, All(t, 0), <<TRUE, FALSE, FALSE, FALSE>>)
    [] OTHER -> Whole(t, 0)

Fit(t, min, noIn) == IF Prec(t.k) < min \/ (noIn /\ t.k = "IN") THEN Paren(Fit(t, 0, FALSE)) ELSE Fitted(t, noIn)

-----------------------------------------------------------------------------
(* Tokens, with TERM where a statement must be ended and SAME where no end *)
(* of line may stand.                                                      *)
Tok(t) == <<t, "">>
TokV(t, v) == <<t, v>>
Term == Tok("TERM")
Same == Tok("SAME")

RECURSIVE Write(_)
RECURSIVE Join(_, _)
Join(ts, sep) == IF ts = <<>> THEN <<>> ELSE IF Len(ts) = 1 THEN Write(ts[1])
                 ELSE Write(ts[1]) \o sep \o Join(Tail(ts), sep)
Each(ts) == Join(ts, <<>>)
Commas(ts) == Join(ts, <<Tok("COMMA")>>)
In(l, ts, r) == <<Tok(l)>> \o ts \o <<Tok(r)>>
Cond(t) == In("LP", Write(t), "RP")
Braces(t) == In("LC", Each(t.kids), "RC")
Opt(word, t) == IF t = Nil THEN <<>> ELSE <<Tok(word)>> \o Write(t)
LabelOf(v) == IF v = 0 THEN <<>> ELSE <<Same, TokV("NAME", v)>>

WriteExpr(t) ==
  CASE IsBinary(t.k) -> Write(t.kids[1]) \o <<TokV(t.k, t.v)>> \o Write(t.kids[2])
    [] t.k \in {"OR", "AND", "ASSIGN"} -> Write(t.kids[1]) \o <<TokV(t.k, t.v)>> \o Write(t.kids[2])
    [] t.k = "HOOK" -> Write(t.kids[1]) \o <<Tok("HOOK")>> \o Write(t.kids[2]) \o <<Tok("COLON")>> \o Write(t.kids[3])
    [] t.k = "COMMA" -> Commas(t.kids)
    [] t.k = "UNARYOP" -> <<TokV(IF t.v \in {"+", "-"} THEN (IF t.v = "+" THEN "PLUS" ELSE "MINUS") ELSE "UNARYOP", t.v)>>
                          \o Write(t.kids[1])
    [] t.k = "PRE" -> <<Tok(t.v)>> \o Write(t.kids[1])
    [] t.k = "POST" -> Write(t.kids[1]) \o <<Same, Tok(t.v)>>
    [] t.k = "DELETE" -> <<Tok("DELETE")>> \o Write(t.kids[1])
    [] t.k = "CALL" -> Write(t.kids[1]) \o In("LP", Commas(Tail(t.kids)), "RP")
    [] t.k = "NEW" -> <<Tok("NEW")>> \o Write(t.kids[1]) \o In("LP", Commas(Tail(t.kids)), "RP")
    [] t.k = "DOT" -> Write(t.kids[1]) \o <<Tok("DOT"), TokV("NAME", t.v)>>
    [] t.k = "LB" -> Write(t.kids[1]) \o In("LB", Write(t.kids[2]), "RB")
    [] t.k = "RP" -> In("LP", Write(t.kids[1]), "RP")
    [] t.k = "RB" -> In("LB", Commas(t.kids) \o (IF t.v THEN <<Tok("COMMA")>> ELSE <<>>), "RB")
    [] t.k = "RC" -> In("LC", Commas(t.kids), "RC")
    [] t.k = "HOLE" -> <<>>
    [] t.k = "FUNCTION" -> <<Tok("FUNCTION")>> \o (IF t.v = 0 THEN <<>> ELSE <<TokV("NAME", t.v)>>)
                           \o In("LP", Write(t.kids[1]), "RP") \o Braces(t.kids[2])
    [] t.k = "MEMBER" -> <<TokV("NAME", t.v), Tok("COLON")>> \o Write(t.kids[1])
    [] t.k = "FORMALS" -> IF t.v = <<>> THEN <<>>
                          ELSE Tail([i \in 1 .. 2 * Len(t.v) |-> IF i % 2 = 1 THEN Tok("COMMA") ELSE TokV("NAME", t.v[i \div 2])])
    [] t.k = "SLOT" -> <<TokV("NAME", t.v)>>
    [] OTHER -> <<TokV(t.k, t.v)>>

Write(t) ==
  CASE t = Nil -> <<>>
    [] t.k = "LC" -> Braces(t)
    [] t.k = "SEMI" -> IF t.kids[1] = Nil THEN <<Tok("SEMI")>> ELSE Write(t.kids[1]) \o <<Term>>
    [] t.k = "VAR" -> <<Tok("VAR")>> \o Commas(t.kids) \o <<Term>>
    [] t.k = "INIT" -> Write(t.kids[1]) \o (IF t.kids[2] = Nil THEN <<>> ELSE <<Tok("ASSIGN")>> \o Write(t.kids[2]))
    [] t.k = "IF" -> <<Tok("IF")>> \o Cond(t.kids[1]) \o Write(t.kids[2]) \o Opt("ELSE", t.kids[3])
    [] t.k = "WHILE" -> <<Tok("WHILE")>> \o Cond(t.kids[1]) \o Write(t.kids[2])
    [] t.k = "DO" -> <<Tok("DO")>> \o Write(t.kids[1]) \o <<Tok("WHILE")>> \o Cond(t.kids[2]) \o <<Term>>
    [] t.k = "FOR" /\ Len(t.kids) = 2 ->
         LET head == Write(t.kids[1].kids[1])
             left == IF t.kids[1].kids[1].k = "VAR" THEN SubSeq(head, 1, Len(head) - 1) ELSE head
         IN <<Tok("FOR")>> \o In("LP", left \o <<Tok("IN")>> \o Write(t.kids[1].kids[2]), "RP") \o Write(t.kids[2])
    [] t.k = "FOR" ->
         LET head == Write(t.kids[1])
             init == IF t.kids[1].k = "VAR" THEN SubSeq(head, 1, Len(head) - 1) ELSE head
         IN <<Tok("FOR")>> \o In("LP", init \o <<Tok("SEMI")>> \o Write(t.kids[2]) \o <<Tok("SEMI")>> \o Write(t.kids[3]), "RP")
            \o Write(t.kids[4])
    [] t.k = "WITH" -> <<Tok("WITH")>> \o Cond(t.kids[1]) \o Write(t.kids[2])
    [] t.k = "SWITCH" -> <<Tok("SWITCH")>> \o Cond(t.kids[1]) \o In("LC", Each(Tail(t.kids)), "RC")
    [] t.k = "CASE" -> (IF t.kids[1] = Nil THEN <<Tok("DEFAULT")>> ELSE <<Tok("CASE")>> \o Write(t.kids[1]))
                       \o <<Tok("COLON")>> \o Each(t.kids[2].kids)
    [] t.k = "TRY" -> <<Tok("TRY")>> \o Braces(t.kids[1]) \o Each(SubSeq(t.kids, 3, Len(t.kids))) \o Opt("FINALLY", t.kids[2])
    [] t.k = "CATCH" -> <<Tok("CATCH")>> \o In("LP", <<TokV("NAME", t.v)>>, "RP") \o Braces(t.kids[1])
    [] t.k \in {"BREAK", "CONTINUE"} -> <<Tok(t.k)>> \o LabelOf(t.v) \o <<Term>>
    [] t.k = "RETURN" -> <<Tok("RETURN")>> \o (IF t.kids[1] = Nil THEN <<>> ELSE <<Same>>) \o Write(t.kids[1]) \o <<Term>>
    [] t.k = "THROW" -> <<Tok("THROW"), Same>> \o Write(t.kids[1]) \o <<Term>>
    [] t.k = "COLON" -> <<TokV("NAME", t.v), Tok("COLON")>> \o Write(t.kids[1])
    [] t.k = "EXPORT" -> <<Tok("EXPORT")>> \o (IF t.v = "*" THEN <<Tok("STAR")>> ELSE Commas(t.kids)) \o <<Term>>
    [] t.k = "IMPORT" -> <<Tok("IMPORT")>> \o Commas(t.kids) \o <<Term>>
    [] t.k = "IMPORTALL" -> Write(t.kids[1]) \o <<Tok("DOT"), Tok("STAR")>>
    [] t.k = "DEBUGGER" -> <<Tok("DEBUGGER"), Term>>
    [] OTHER -> WriteExpr(t)

(* A script: a line is ended after a function, which needs no semicolon.   *)
WriteScript(t) ==
  LET line(s) == Write(s) \o (IF s.k = "FUNCTION" THEN <<Tok("LINE")>> ELSE <<>>)
  IN FoldLeft(LAMBDA all, s : all \o line(s), <<>>, t.kids)

-----------------------------------------------------------------------------
(* A statement that ends before one of these needs its semicolon even at   *)
(* the end of a line, because the next line would continue it.             *)
Continues(t) == t \in {"LP", "LB", "DOT", "COMMA", "HOOK", "OR", "AND", "ASSIGN", "OBJECT"} \/ IsBinary(t)

(* Styles: semi, one line; lines, an end of line instead of every          *)
(* semicolon that can be spared; brace, none before a brace or the end;    *)
(* spread, every token on a line of its own.                               *)
RECURSIVE Lay(_, _, _, _)
Lay(ts, style, line, same) ==
  LET t == Head(ts)
      after == IF Tail(ts) = <<>> THEN "EOF" ELSE ts[2][1]
      at == IF style = "spread" /\ ~ same THEN line + 1 ELSE line
  IN CASE ts = <<>> -> <<Token("EOF", "", line)>>
       [] t = Tok("LINE") -> Lay(Tail(ts), style, line + 1, FALSE)
       [] t = Same -> Lay(Tail(ts), style, line, TRUE)
       [] t = Term /\ ((style = "lines" /\ ~ Continues(after)) \/ (style = "brace" /\ after \in {"RC", "EOF"})) ->
            Lay(Tail(ts), style, line + 1, FALSE)
       [] t = Term -> <<Token("SEMI", "", at)>> \o Lay(Tail(ts), style, at, FALSE)
       [] OTHER -> <<Token(t[1], t[2], at)>> \o Lay(Tail(ts), style, at, FALSE)

Text(t, style) == Lay(WriteScript(t), style, 1, FALSE)

-----------------------------------------------------------------------------
(* The jumps of a program have targets, its labels are not nested in       *)
(* themselves, only functions return: c is what encloses a statement, own  *)
(* the labels it has itself.                                               *)
Outside == [labels |-> {}, loops |-> {}, loop |-> FALSE, break |-> FALSE, fun |-> FALSE]
Looping(c, own) == [c EXCEPT !.loops = @ \cup own, !.loop = TRUE, !.break = TRUE]

RECURSIVE Legal(_, _, _)
LegalAll(ts, c) == \A i \in DOMAIN ts : Legal(ts[i], c, {})
Legal(t, c, own) ==
  CASE t.k \in {"WHILE", "DO", "FOR"} -> LegalAll(t.kids, Looping(c, own))
    [] t.k = "SWITCH" -> LegalAll(t.kids, [c EXCEPT !.break = TRUE])
    [] t.k = "COLON" ->
         t.v \notin c.labels /\ Legal(t.kids[1], [c EXCEPT !.labels = @ \cup {t.v}], own \cup {t.v})
    [] t.k = "BREAK" -> IF t.v = 0 THEN c.break ELSE t.v \in c.labels
    [] t.k = "CONTINUE" -> IF t.v = 0 THEN c.loop ELSE t.v \in c.loops
    [] t.k = "RETURN" -> c.fun
    [] t.k = "FUNCTION" -> LegalAll(t.kids, [Outside EXCEPT !.fun = TRUE])
    [] OTHER -> LegalAll(t.kids, c)

-----------------------------------------------------------------------------
(***************************************************************************)
(* Programs for the parser: an expression form in another one in a         *)
(* statement, or a statement in two nested ones, laid out in a style.  A   *)
(* case names its forms by number; Program builds the tree.                *)
(***************************************************************************)

Name(n) == N("NAME", n, <<>>)
A == Name(1)
B == Name(2)
C == Name(3)
RegExp == N("OBJECT", "re", <<>>)
Operators == <<<<"BITOR", "">>, <<"BITXOR", "">>, <<"BITAND", "">>, <<"EQOP", "==">>, <<"RELOP", "<">>,
  <<"IN", "">>, <<"INSTANCEOF", "">>, <<"SHOP", "<<">>, <<"PLUS", "+">>, <<"MINUS", "-">>, <<"STAR", "*">>,
  <<"DIVOP", "/">>, <<"DIVOP", "%">>, <<"OR", "">>, <<"AND", "">>>>

LC(ss) == N("LC", "", ss)
Semi(e) == N("SEMI", "", <<e>>)
Lambda(ids, ss) == N("FUNCTION", 0, <<N("FORMALS", ids, <<>>), LC(ss)>>)
Let(id, e) == N("INIT", "NAME", <<Name(id), e>>)

(* The forms of an expression around e. *)
Lvalues(e) == <<A, N("DOT", 7, <<e>>), N("LB", "", <<A, e>>), N("LB", "", <<e, B>>)>>
ExprForms(e) ==
  [i \in DOMAIN Operators |-> N(Operators[i][1], Operators[i][2], <<e, B>>)]
  \o [i \in DOMAIN Operators |-> N(Operators[i][1], Operators[i][2], <<A, e>>)]
  \o [i \in 1 .. 4 |-> N("PRE", "INC", <<Lvalues(e)[i]>>)]
  \o [i \in 1 .. 4 |-> N("POST", "DEC", <<Lvalues(e)[i]>>)]
  \o [i \in 1 .. 4 |-> N("DELETE", "", <<Lvalues(e)[i]>>)]
  \o [i \in 1 .. 4 |-> N("ASSIGN", "ADD", <<Lvalues(e)[i], B>>)]
  \o <<N("HOOK", "", <<e, A, B>>), N("HOOK", "", <<A, e, B>>), N("HOOK", "", <<A, B, e>>),
       N("COMMA", "", <<e, A>>), N("COMMA", "", <<A, e>>), N("ASSIGN", "", <<A, e>>),
       N("UNARYOP", "-", <<e>>), N("UNARYOP", "!", <<e>>),
       N("CALL", "", <<e, A>>), N("CALL", "", <<A, e, B>>), N("NEW", "", <<e>>), N("NEW", "", <<A, e>>),
       N("RB", FALSE, <<e, N("HOLE", "", <<>>), A>>), N("RB", TRUE, <<A, e>>),
       N("RC", "", <<N("MEMBER", 5, <<e>>)>>), Lambda(<<>>, <<N("RETURN", "", <<e>>)>>)>>
ExprCount == 2 * Len(Operators) + 16 + 16

(* Statements that begin and end with e. *)
Around(e) ==
  <<<<Semi(e)>>, <<N("FOR", "", <<e, Nil, Nil, Semi(A)>>)>>,
    <<N("VAR", "", <<Let(1, e)>>), N("IF", "", <<e, Semi(A), Semi(e)>>)>>,
    <<N("FOR", "", <<N("IN", "", <<N("VAR", "", <<Let(1, e)>>), e>>), Semi(B)>>)>>>>

Jump(k, l) == N(k, l, <<>>)
Leaves ==
  <<Semi(A), Semi(N("PRE", "INC", <<A>>)), Semi(N("POST", "DEC", <<A>>)), Semi(Nil), N("DEBUGGER", "", <<>>),
    Jump("BREAK", 0), Jump("BREAK", 9), Jump("CONTINUE", 0), Jump("CONTINUE", 9),
    N("RETURN", "", <<Nil>>), N("RETURN", "", <<RegExp>>), N("THROW", "", <<A>>),
    N("VAR", "", <<Let(1, N("IN", "", <<A, B>>)), Let(3, Nil)>>),
    N("EXPORT", "*", <<>>), N("EXPORT", "", <<A, B>>),
    N("IMPORT", "", <<N("DOT", 4, <<A>>), N("IMPORTALL", 0, <<N("LB", "", <<B, C>>)>>)>>)>>

(* The forms of a statement around s. *)
Wraps(s) ==
  LET b == LC(<<s, Semi(B)>>)
  IN <<s, b, N("IF", "", <<A, s, Nil>>), N("IF", "", <<A, s, Semi(B)>>), N("IF", "", <<A, Semi(B), s>>),
       N("WHILE", "", <<N("ASSIGN", "ADD", <<A, B>>), s>>), N("DO", "", <<s, A>>),
       N("FOR", "", <<N("IN", "", <<A, B>>), s>>), N("FOR", "", <<Nil, Nil, Nil, s>>),
       N("WITH", "", <<A, s>>), N("COLON", 9, <<s>>), N("COLON", 8, <<s>>),
       N("SWITCH", "", <<A, N("CASE", "", <<B, LC(<<s>>)>>), N("CASE", "", <<Nil, LC(<<Semi(C)>>)>>)>>),
       N("TRY", "", <<b, Nil, N("CATCH", 3, <<b>>)>>), N("TRY", "", <<LC(<<>>), b>>),
       Semi(N("ASSIGN", "", <<A, Lambda(<<4, 5>>, <<s, Semi(B)>>)>>))>>
WrapCount == 16

(* Names that are slots: of arguments, of variables once declared, but not *)
(* in a with, nor those of the function outside.                           *)
Slot(n) == N("SLOT", n, <<>>)
Slots ==
  N("FUNCTION", 6, <<N("FORMALS", <<4, 5>>, <<>>),
     LC(<<Semi(N("ASSIGN", "", <<Name(7), Slot(4)>>)),
          N("VAR", "", <<N("INIT", "SLOT", <<Name(7), Slot(4)>>)>>), Semi(N("ASSIGN", "", <<Slot(7), A>>)),
          N("WITH", "", <<Slot(5), Semi(N("ASSIGN", "", <<Name(5), A>>))>>),
          N("RETURN", "", <<Lambda(<<4>>, <<N("RETURN", "", <<N("PLUS", "+", <<Slot(4), Name(7)>>)>>)>>)>>)>>)>>)

Styles == {"semi", "lines", "brace", "spread"}

(* A case: [form, outer, inner, leaf, style]. *)
Forms == {<<"expression", i>> : i \in 1 .. ExprCount} \cup {<<"statement", i>> : i \in 1 .. WrapCount} \cup {<<"slots", 1>>}
Layouts(form) ==
  CASE form[1] = "expression" ->
         {<<j, x, a, "semi">> : j \in 0 .. ExprCount, x \in 1 .. 4, a \in {1, 2}}
         \cup {<<j, x, 1, "spread">> : j \in 0 .. ExprCount, x \in 1 .. 4}
         \cup {<<0, x, a, s>> : x \in 1 .. 4, a \in {1, 2}, s \in {"lines", "brace"}}
    [] form[1] = "statement" -> {<<j, l, 1, s>> : j \in 1 .. WrapCount, l \in DOMAIN Leaves, s \in Styles}
    [] OTHER -> {<<1, 1, 1, s>> : s \in Styles}

Program(form, case) ==
  LET i == form[2]
      j == case[1]
      leaf == IF case[3] = 1 THEN A ELSE RegExp
  IN LC(CASE form[1] = "expression" -> Around(ExprForms(IF j = 0 THEN leaf ELSE ExprForms(leaf)[j])[i])[case[2]]
          [] form[1] = "statement" -> <<Wraps(Wraps(Leaves[case[2]])[j])[i], Semi(C)>>
          [] OTHER -> <<Slots, Semi(C)>>)

RECURSIVE Has(_, _)
Has(x, k) == x.k = k \/ \E i \in DOMAIN x.kids : Has(x.kids[i], k)
RECURSIVE VarInFunction(_)
VarInFunction(x) == (x.k = "FUNCTION" /\ Has(x, "VAR")) \/ \E i \in DOMAIN x.kids : VarInFunction(x.kids[i])

(* Texts the parser is known to misread (README, "What the parser gets     *)
(* wrong"): the semicolon of debugger is left for an empty statement, and  *)
(* where a token is peeked at without TSF_REGEXP a regular expression is   *)
(* scanned as a division.                                                  *)
Misread(ts) ==
  \E i \in DOMAIN ts :
    \/ i < Len(ts) /\ ts[i].t = "DEBUGGER" /\ ts[i + 1].t = "SEMI"
    \/ ts[i].t = "OBJECT" /\ i > 1 /\ (ts[i - 1].t \in {"LC", "RC", "SEMI"} \/ (i > 2 /\ ts[i - 2].t = "FOR"))

(* The parser reads the text of a program as the tree it was written from, *)
(* whatever its line ends and the semicolons left out, and takes no text   *)
(* of a tree that is no program.                                           *)
ReadsBack(form, case) ==
  LET tree == Program(form, case)
      written == Fit(tree, 0, FALSE)
      text == Text(written, case[4])
      read == Parse(text, 140)
  IN \/ form[1] = "statement" /\ VarInFunction(tree)
     \/ Misread(text)
     \/ IF Legal(tree, Outside, {}) THEN read.ok /\ read.node = written ELSE ~ read.ok
=============================================================================
