------------------------------- MODULE Parser -------------------------------
(***************************************************************************)
(* The recursive descent parser of jsparse.c and the token stream it       *)
(* reads through (the token level of jsscan.c).                            *)
(*                                                                         *)
(* A token is its type, its value (the operator, the name, the number) and *)
(* the line it is on.  A parser p is a record: the tokens and the index of *)
(* the next one to scan, the line the scanner has come to, the last token  *)
(* and the pushed back one, whether no error was met (ok), the statements  *)
(* being parsed (innermost last), TCF_IN_FOR_INIT, whether a function body *)
(* is parsed and the names that are slots of it, the tryCount of the tree  *)
(* context, and the last node parsed with the line it ends on.  A parse    *)
(* function takes a parser and returns it; one that has failed is returned *)
(* as it is.  A node is its type, its value and its kids.  Positions in a  *)
(* line and the memory of nodes are left out; names are numbers.           *)
(***************************************************************************)
EXTENDS Integers, Sequences

N(k, v, kids) == [k |-> k, v |-> v, kids |-> kids]
Nil == N("NIL", 0, <<>>)
Token(t, v, line) == [t |-> t, v |-> v, line |-> line]
NoToken == Token("EOF", 0, 0)

Fresh(toks, version) ==
  [toks |-> toks, next |-> 1, line |-> 1, tok |-> NoToken, push |-> NoToken, ok |-> TRUE,
   stmts |-> <<>>, inFor |-> FALSE, fun |-> FALSE, slots |-> {}, tries |-> 0,
   version |-> version, node |-> Nil, end |-> 1]

Fail(p) == [p EXCEPT !.ok = FALSE]
Done(p, node) == IF p.ok THEN [p EXCEPT !.node = node] ELSE p
EndAt(p, line) == [p EXCEPT !.end = line]

(* Whether a slash begins a regular expression is for the parser to say    *)
(* (TSF_REGEXP) when the token is scanned: said wrongly, it is an error.   *)
Seen(raw, regexp) == IF raw.t = (IF regexp THEN "DIVOP" ELSE "OBJECT") /\ raw.v # "%"
                     THEN [raw EXCEPT !.t = "ERROR"] ELSE raw

(* js_GetToken, past the pushback: newlines says whether an end of line is *)
(* a token (TSF_NEWLINES).                                                 *)
Scan(p, regexp, newlines) ==
  LET raw == p.toks[p.next]
  IN IF newlines /\ raw.line > p.line
     THEN [p EXCEPT !.tok = Token("EOL", 0, p.line + 1), !.line = @ + 1]
     ELSE [p EXCEPT !.tok = Seen(raw, regexp), !.line = raw.line,
                    !.next = IF raw.t = "EOF" THEN @ ELSE @ + 1]

GetToken(p, regexp, newlines) ==
  IF p.push.t # "EOF" THEN [p EXCEPT !.tok = p.push, !.push = NoToken] ELSE Scan(p, regexp, newlines)

UngetToken(p) == [p EXCEPT !.push = p.tok]

Get(p) == GetToken(p, FALSE, FALSE)
GetOperand(p) == GetToken(p, TRUE, FALSE)
Peek(p, regexp) == IF p.push.t = "EOF" THEN UngetToken(GetToken(p, regexp, FALSE)) ELSE p

(* js_PeekTokenSameLine: the token's type, and the parser it leaves        *)
(* (HIDE_NEWLINES drops an end of line that was pushed back).              *)
PeekLine(p, regexp) == IF p.push.t = "EOF" THEN UngetToken(GetToken(p, regexp, TRUE)) ELSE p
HideNewlines(p) == IF p.push.t = "EOL" THEN [p EXCEPT !.push = NoToken] ELSE p

(* What comes after p, unless p has failed. *)
Then(p, F(_)) == IF p.ok THEN F(p) ELSE p

Must(p, t) == Then(p, LAMBDA o : Then(Get(o), LAMBDA q : IF q.tok.t = t THEN q ELSE Fail(q)))

Next1(p, t) == p.ok /\ Peek(p, FALSE).push.t = t    \* js_MatchToken would match
Match(p, t) == Then(p, LAMBDA o : IF Next1(o, t) THEN Get(o) ELSE Peek(o, FALSE))
(* If t is next, what Taken makes of the parser past it, or else what Left makes of the one before it. *)
MatchOr(p, t, Taken(_), Left(_)) == Then(p, LAMBDA o : IF Next1(o, t) THEN Taken(Get(o)) ELSE Left(Peek(o, FALSE)))
AsIs(p) == p

WellTerminated(p, last) ==
  LET q == PeekLine(p, FALSE)
      old == (q.push.t = "FUNCTION" \/ last = "FUNCTION") /\ p.version < 120
  IN IF q.push.t \in {"EOF", "EOL", "SEMI", "RC"} \/ (q.push.t # "ERROR" /\ old) THEN HideNewlines(q)
     ELSE Fail(q)

(* The check made where a statement's end is on the line the scanner is on *)
Terminated(p, last) == IF p.ok /\ p.end = p.line THEN WellTerminated(p, last) ELSE p

Push(p, type, label) == [p EXCEPT !.stmts = Append(@, [type |-> type, label |-> label])]
Pop(p) == IF p.ok THEN [p EXCEPT !.stmts = SubSeq(@, 1, Len(@) - 1)] ELSE p
Retype(p, type) == [p EXCEPT !.stmts[Len(p.stmts)].type = type]
Loops == {"WHILE_LOOP", "DO_LOOP", "FOR_LOOP", "FOR_IN_LOOP"}
InWithStatement(p) == \E i \in DOMAIN p.stmts : p.stmts[i].type = "WITH"

-----------------------------------------------------------------------------
(* The functions that are called from below themselves. *)
RECURSIVE Production(_, _), MemberExpr(_, _), FunctionDef(_), OrExpr(_), AndExpr(_)
AssignExpr(p) == Production("assignment", p)
UnaryExpr(p) == Production("unary", p)
Statement(p) == Production("statement", p)

(* A list of what Item parses, separated by commas; kids come before. *)
RECURSIVE Assigns(_, _)
Assigns(p, kids) ==
  Then(AssignExpr(p), LAMBDA q :
    MatchOr(q, "COMMA", LAMBDA r : Assigns(r, Append(kids, q.node)), LAMBDA r : Done(r, N("", 0, Append(kids, q.node)))))

Expr(p) ==
  Then(AssignExpr(p), LAMBDA q :
    MatchOr(q, "COMMA", LAMBDA r : Then(Assigns(r, <<q.node>>), LAMBDA t : Done(t, N("COMMA", "", t.node.kids))), AsIs))

(* LookupArgOrVar: a name that is an argument or a variable of the         *)
(* function is a slot, unless a with may hide it.                          *)
LookupArgOrVar(p, id) ==
  IF p.fun /\ id \in p.slots /\ ~ InWithStatement(p) THEN N("SLOT", id, <<>>) ELSE N("NAME", id, <<>>)

RECURSIVE Bare(_)
Bare(node) == IF node.k = "RP" THEN Bare(node.kids[1]) ELSE node
IsLval(node) == node.k \in {"NAME", "SLOT", "DOT", "LB"}

CondExpr(p) ==
  Then(OrExpr(p), LAMBDA hook :
    MatchOr(hook, "HOOK",
      LAMBDA q : Then(AssignExpr([q EXCEPT !.inFor = FALSE]), LAMBDA then :
                   Then(AssignExpr(Must([then EXCEPT !.inFor = p.inFor], "COLON")), LAMBDA else :
                     Done(else, N("HOOK", "", <<hook.node, then.node, else.node>>)))),
      AsIs))
Assignment(p) ==
  Then(CondExpr(p), LAMBDA cond :
    MatchOr(cond, "ASSIGN",
      LAMBDA op : IF ~ IsLval(Bare(cond.node)) THEN Fail(op)
                  ELSE Then(AssignExpr(op), LAMBDA right : Done(right, N("ASSIGN", op.tok.v, <<Bare(cond.node), right.node>>))),
      AsIs))

(* BitOrExpr, BitXorExpr, BitAndExpr, EqExpr, RelExpr, ShiftExpr, AddExpr  *)
(* and MulExpr: operators of one level associate to the left.  Uses of in  *)
(* are no operators in the init clause of a for, but for what RelExpr's    *)
(* operands enclose.                                                       *)
Levels == <<{"BITOR"}, {"BITXOR"}, {"BITAND"}, {"EQOP"}, {"RELOP", "IN", "INSTANCEOF"}, {"SHOP"},
            {"PLUS", "MINUS"}, {"STAR", "DIVOP"}>>

RECURSIVE BinaryExpr(_, _), Operands(_, _, _)
Operands(p, level, inFor) ==
  Then(p, LAMBDA left : Then(Peek(left, FALSE), LAMBDA q :
    IF q.push.t \notin Levels[level] \ (IF inFor THEN {"IN"} ELSE {}) THEN q
    ELSE Then(Get(q), LAMBDA op : Then(BinaryExpr(op, level + 1), LAMBDA right :
           Operands(Done(right, N(op.tok.t, op.tok.v, <<left.node, right.node>>)), level, inFor)))))

(* mutant: RelExpr does not clear the flag for what its operands enclose *)
BinaryExprInFor(p, level) ==
  IF level > Len(Levels) THEN UnaryExpr(p)
  ELSE Operands(BinaryExpr(p, level + 1), level, Levels[level] = {"RELOP", "IN", "INSTANCEOF"} /\ p.inFor)

BinaryExpr(p, level) ==
  IF level > Len(Levels) THEN UnaryExpr(p)
  ELSE IF Levels[level] # {"RELOP", "IN", "INSTANCEOF"} THEN Operands(BinaryExpr(p, level + 1), level, FALSE)
  ELSE Then(Operands(BinaryExpr([p EXCEPT !.inFor = FALSE], level + 1), level, p.inFor), LAMBDA q :
         [q EXCEPT !.inFor = @ \/ p.inFor])

AndExpr(p) ==
  Then(BinaryExpr(p, 1), LAMBDA left :
    MatchOr(left, "AND", LAMBDA q : Then(AndExpr(q), LAMBDA right : Done(right, N("AND", "", <<left.node, right.node>>))), AsIs))

OrExpr(p) ==
  Then(AndExpr(p), LAMBDA left :
    MatchOr(left, "OR", LAMBDA q : Then(OrExpr(q), LAMBDA right : Done(right, N("OR", "", <<left.node, right.node>>))), AsIs))

(* SetLvalKid, SetIncOpKid *)
LvalKid(p, k, v) == IF p.ok /\ ~ IsLval(Bare(p.node)) THEN Fail(p) ELSE Done(p, N(k, v, <<Bare(p.node)>>))

(* No postfix operator is looked for across a newline. *)
Postfix(p) ==
  Then(p, LAMBDA o :
    IF o.end # o.line THEN o
    ELSE Then(PeekLine(o, FALSE), LAMBDA q :
           IF q.push.t \in {"INC", "DEC"} THEN EndAt(LvalKid(Get(q), "POST", q.push.t), q.push.line) ELSE HideNewlines(q)))

Unary(p) ==
  Then(p, LAMBDA o : Then(GetOperand(o), LAMBDA op :
    CASE op.tok.t \in {"UNARYOP", "PLUS", "MINUS"} ->
           Then(UnaryExpr(op), LAMBDA kid : Done(kid, N("UNARYOP", op.tok.v, <<kid.node>>)))
      [] op.tok.t \in {"INC", "DEC"} -> LvalKid(MemberExpr(op, TRUE), "PRE", op.tok.t)
      [] op.tok.t = "DELETE" -> LvalKid(UnaryExpr(op), "DELETE", "")
      [] op.tok.t = "ERROR" -> Fail(op)
      [] OTHER -> Postfix(MemberExpr(UngetToken(op), TRUE))))

ArgumentList(p) ==
  Then(p, LAMBDA o : Then(Peek(o, TRUE), LAMBDA q :
    IF q.push.t = "RP" THEN Done(Get(q), N("", 0, <<>>))
    ELSE Then(Assigns(q, <<>>), LAMBDA list : Done(Must(list, "RP"), list.node))))

(* The kids of a call node end where the last argument does, not at the    *)
(* parenthesis.                                                            *)
CallOf(p, k, callee) ==
  Then(ArgumentList(Get(p)), LAMBDA args :
    Done(EndAt(args, IF args.node.kids = <<>> THEN p.end ELSE args.end), N(k, "", <<callee>> \o args.node.kids)))

RECURSIVE Members(_, _)
Named(p, k, object) == Then(Must(p, "NAME"), LAMBDA name : Done(EndAt(name, name.tok.line), N(k, name.tok.v, <<object>>)))
Indexed(p, object) ==
  Then(Expr(p), LAMBDA index : Then(Must(index, "RB"), LAMBDA q : Done(EndAt(q, q.tok.line), N("LB", "", <<object, index.node>>))))
Members(p, calls) ==
  Then(p, LAMBDA o : Then(Get(o), LAMBDA op :
    CASE op.tok.t = "DOT" -> Members(Named(op, "DOT", o.node), calls)
      [] op.tok.t = "LB" -> Members(Indexed(op, o.node), calls)
      [] op.tok.t = "LP" /\ calls -> Members(CallOf(UngetToken(op), "CALL", o.node), calls)
      [] op.tok.t = "ERROR" -> Fail(op)
      [] OTHER -> UngetToken(op)))

RECURSIVE ArrayElements(_, _), ObjectMembers(_, _), PrimaryExpr(_)
NewExpr(p) ==
  Then(MemberExpr(p, FALSE), LAMBDA class :
    IF Next1(class, "LP") THEN CallOf(Peek(class, FALSE), "NEW", class.node)
    ELSE Done(Match(class, "LP"), N("NEW", "", <<class.node>>)))
MemberExpr(p, calls) ==
  Then(p, LAMBDA o : Then(Get(Peek(o, TRUE)), LAMBDA new :
    Members(IF new.tok.t = "NEW" THEN NewExpr(new) ELSE PrimaryExpr(UngetToken(new)), calls)))

(* Holes are nodes of their own; pn_extra says that a comma came last.     *)
ArrayElements(p, kids) ==
  Then(p, LAMBDA o : Then(Peek(o, TRUE), LAMBDA q :
    IF q.push.t = "RB" THEN Done(q, N("RB", kids # <<>>, kids))
    ELSE Then(IF q.push.t = "COMMA" THEN Done(q, N("HOLE", "", <<>>)) ELSE AssignExpr(q), LAMBDA item :
           MatchOr(item, "COMMA", LAMBDA r : ArrayElements(r, Append(kids, item.node)),
                                  LAMBDA r : Done(r, N("RB", FALSE, Append(kids, item.node)))))))

ObjectMembers(p, kids) ==
  Then(p, LAMBDA o : Then(Get(o), LAMBDA id :
    CASE id.tok.t = "RC" -> Done(UngetToken(id), N("RC", "", kids))
      [] id.tok.t \notin {"NUMBER", "NAME", "STRING", "RC"} -> Fail(id)
      [] OTHER -> Then(AssignExpr(Must(id, "COLON")), LAMBDA value :
                    LET all == Append(kids, N("MEMBER", id.tok.v, <<value.node>>))
                    IN MatchOr(value, "COMMA", LAMBDA r : ObjectMembers(r, all), LAMBDA r : Done(r, N("RC", "", all))))))

Closed(p, t) == Then(Must(p, t), LAMBDA q : EndAt(q, q.tok.line))

(* #n= before an initialiser, a function, a name or a parenthesis *)
Sharp(p, n) ==
  Then(PrimaryExpr(p), LAMBDA q :
    IF q.node.k \in {"DEFSHARP", "USESHARP", "STRING", "NUMBER", "PRIMARY"} THEN Fail(q)
    ELSE Done(q, N("DEFSHARP", n, <<q.node>>)))

Parenthesised(p, inFor) ==
  Then(Closed(Expr([p EXCEPT !.inFor = FALSE]), "RP"), LAMBDA q : Done([q EXCEPT !.inFor = inFor], N("RP", "", <<q.node>>)))
PrimaryExpr(p) ==
  Then(p, LAMBDA o : Then(GetOperand(o), LAMBDA q :
    CASE q.tok.t = "FUNCTION" -> FunctionDef(q)
      [] q.tok.t = "LB" -> Closed(ArrayElements(q, <<>>), "RB")
      [] q.tok.t = "LC" -> Closed(ObjectMembers(q, <<>>), "RC")
      [] q.tok.t = "DEFSHARP" -> Sharp(q, q.tok.v)
      [] q.tok.t = "LP" -> Parenthesised(q, o.inFor)
      [] q.tok.t = "NAME" -> Done(EndAt(q, q.tok.line), LookupArgOrVar(q, q.tok.v))
      [] q.tok.t \in {"USESHARP", "STRING", "OBJECT", "NUMBER", "PRIMARY"} ->
           Done(EndAt(q, q.tok.line), N(q.tok.t, q.tok.v, <<>>))
      [] OTHER -> Fail(q)))

-----------------------------------------------------------------------------
RECURSIVE Statements(_, _)
Statements(p, kids) ==
  Then(p, LAMBDA o : Then(Peek(o, FALSE), LAMBDA q :
    IF q.push.t = "ERROR" THEN Fail(q)
    ELSE IF q.push.t \in {"EOF", "RC"} THEN Done(q, N("LC", "", kids))
    ELSE Then(Statement(q), LAMBDA one : Statements(one, Append(kids, one.node)))))

Block(p) == Must(Statements(Must(p, "LC"), <<>>), "RC")

Enclosed(p) == Must(Expr(Must(p, "LP")), "RP")

(* (a = b) is read as (a == b), with a warning, before ECMA.               *)
Condition(p) ==
  Then(Enclosed(p), LAMBDA q :
    IF q.node.k = "ASSIGN" /\ q.node.v = "" /\ q.version \notin {0} \cup 130 .. 999
    THEN Done(q, N("EQOP", "==", q.node.kids)) ELSE q)

(* A statement within one of a type, which is then left. *)
Body(p, F(_)) == Then(Statement(p), LAMBDA q : Done(Pop(q), F(q.node)))

IfStatement(p) ==
  Then(Condition(p), LAMBDA cond : Then(Statement(Push(cond, "IF", 0)), LAMBDA then :
    MatchOr(then, "ELSE", LAMBDA q : Body(Retype(q, "ELSE"), LAMBDA else : N("IF", "", <<cond.node, then.node, else>>)),
                          LAMBDA q : Done(Pop(q), N("IF", "", <<cond.node, then.node, Nil>>)))))

(* The statements of a case end before the next case, or the brace.        *)
RECURSIVE CaseBody(_, _)
CaseBody(p, kids) ==
  Then(p, LAMBDA o : Then(Peek(o, FALSE), LAMBDA q :
    IF q.push.t = "ERROR" THEN Fail(q)
    ELSE IF q.push.t \in {"RC", "CASE", "DEFAULT"} THEN Done(q, N("LC", "", kids))
    ELSE Then(Statement(q), LAMBDA one : CaseBody(one, Append(kids, one.node)))))

RECURSIVE Cases(_, _)
Cases(p, kids) ==
  Then(p, LAMBDA o : Then(Get(o), LAMBDA q :
    CASE q.tok.t = "RC" -> Done(q, N("", 0, kids))
      [] q.tok.t = "DEFAULT" /\ \E i \in DOMAIN kids : kids[i].kids[1] = Nil -> Fail(q)
      [] q.tok.t \notin {"CASE", "DEFAULT", "RC"} -> Fail(q)
      [] OTHER ->
           Then(IF q.tok.t = "DEFAULT" THEN Done(q, Nil) ELSE Expr(q), LAMBDA test :
             Then(CaseBody(Must(test, "COLON"), <<>>), LAMBDA body :
               Cases(body, Append(kids, N("CASE", "", <<test.node, body.node>>)))))))

SwitchStatement(p) ==
  Then(Enclosed(p), LAMBDA on : Then(Cases(Push(Must(on, "LC"), "SWITCH", 0), <<>>), LAMBDA cases :
    Done(Pop(cases), N("SWITCH", "", <<on.node>> \o cases.node.kids))))

WhileStatement(p) ==
  Then(Condition(Push(p, "WHILE_LOOP", 0)), LAMBDA cond : Body(cond, LAMBDA body : N("WHILE", "", <<cond.node, body>>)))

DoStatement(p) ==
  Then(Statement(Push(p, "DO_LOOP", 0)), LAMBDA body : Then(Condition(Must(body, "WHILE")), LAMBDA cond :
    Match(Done(Pop(cond), N("DO", "", <<body.node, cond.node>>)), "SEMI")))

RECURSIVE Variables(_, _)

(* The init clause, with the flag that keeps in from being an operator. *)
ForInit(p) ==
  Then(p, LAMBDA o : Then(Peek(Must(o, "LP"), FALSE), LAMBDA q :
    LET init == [q EXCEPT !.inFor = TRUE]
    IN IF q.push.t = "SEMI" THEN Done(q, Nil)
       ELSE Then(IF q.push.t = "VAR" THEN Variables(Get(init), <<>>) ELSE Expr(init), LAMBDA r : [r EXCEPT !.inFor = FALSE])))

Optional(p, t) == Then(p, LAMBDA o : IF Next1(o, t) THEN Done(Peek(o, FALSE), Nil) ELSE Expr(Match(o, t)))

ForIn(p, init) ==
  IF init.k # "VAR" /\ ~ IsLval(init) THEN Fail(p)
  ELSE Then(Expr(Retype(p, "FOR_IN_LOOP")), LAMBDA object :
         Body(Must(object, "RP"), LAMBDA body : N("FOR", "", <<N("IN", "", <<init, object.node>>), body>>)))
ForSemi(p, init) ==
  Then(Optional(Must(p, "SEMI"), "SEMI"), LAMBDA cond : Then(Optional(Must(cond, "SEMI"), "RP"), LAMBDA update :
    Body(Must(update, "RP"), LAMBDA body : N("FOR", "", <<init, cond.node, update.node, body>>))))
ForStatement(p) ==
  Then(ForInit(Push(p, "FOR_LOOP", 0)), LAMBDA init :
    IF init.node # Nil /\ Next1(init, "IN") THEN ForIn(Match(init, "IN"), init.node)
    ELSE ForSemi(IF init.node = Nil THEN init ELSE Match(init, "IN"), init.node))

WithStatement(p) ==
  Then(Enclosed(p), LAMBDA object : Body(Push(object, "WITH", 0), LAMBDA body : N("WITH", "", <<object.node, body>>)))

RECURSIVE Catches(_, _)
Catches(p, kids) ==
  MatchOr(p, "CATCH",
    LAMBDA q : Then(Must(Must(q, "LP"), "NAME"), LAMBDA id : Then(Block(Must(id, "RP")), LAMBDA block :
                 Catches(block, Append(kids, N("CATCH", id.tok.v, <<block.node>>))))),
    LAMBDA q : Done(q, N("", 0, kids)))

TryStatement(p) ==
  Then(Block(p), LAMBDA body : Then(Catches(body, <<>>), LAMBDA catches :
    Then(MatchOr(catches, "FINALLY", LAMBDA q : Block([q EXCEPT !.tries = @ + 1]), LAMBDA q : Done(q, Nil)), LAMBDA last :
      IF catches.node.kids = <<>> /\ last.node = Nil THEN Fail(last)
      ELSE Done([last EXCEPT !.tries = @ + 1], N("TRY", "", <<body.node, last.node>> \o catches.node.kids)))))

(* MatchLabel: a label is on the line of its keyword; 0 is none. *)
MatchLabel(p) ==
  Then(PeekLine(p, FALSE), LAMBDA q :
    IF q.push.t = "ERROR" THEN Fail(q)
    ELSE LET label == IF q.push.t = "NAME" THEN Done(Get(q), N("LABEL", q.push.v, <<>>))
                      ELSE Done(HideNewlines(q), N("LABEL", 0, <<>>))
         IN Terminated(EndAt(label, p.tok.line), "ERROR"))

Labels(p, label) == {i \in DOMAIN p.stmts : p.stmts[i].type = "LABEL" /\ p.stmts[i].label = label}
LoopsOf(p) == {i \in DOMAIN p.stmts : p.stmts[i].type \in Loops}
Switches(p) == {i \in DOMAIN p.stmts : p.stmts[i].type = "SWITCH"}

BreakStatement(p) ==
  Then(MatchLabel(p), LAMBDA q :
    LET label == q.node.v
        targets == IF label # 0 THEN Labels(q, label) ELSE LoopsOf(q) \cup Switches(q)
    IN IF targets = {} THEN Fail(q) ELSE Match(Done(q, N("BREAK", label, <<>>)), "SEMI"))

(* The statement just inside the label, other labels aside, must be a loop *)
ContinueStatement(p) ==
  Then(MatchLabel(p), LAMBDA q :
    LET label == q.node.v
        inside == {i \in DOMAIN q.stmts : q.stmts[i].type # "LABEL" /\ \E j \in Labels(q, label) : i > j}
        first == {i \in inside : \A j \in inside : i <= j}
        targets == IF label # 0 THEN first \cap LoopsOf(q) ELSE LoopsOf(q)
    IN IF targets = {} THEN Fail(q) ELSE Match(Done(q, N("CONTINUE", label, <<>>)), "SEMI"))

(* A variable of a function gets a slot from its declaration on.  The list *)
(* ends, for the test of termination, where its last name does.            *)
Variables(p, kids) ==
  Then(Must(p, "NAME"), LAMBDA id :
    LET declared == [id EXCEPT !.slots = IF id.fun THEN @ \cup {id.tok.v} ELSE @]
        Init(node) == N("INIT", LookupArgOrVar(declared, id.tok.v).k, <<N("NAME", id.tok.v, <<>>), node>>)
    IN Then(MatchOr(declared, "ASSIGN", LAMBDA q : IF q.tok.v # "" THEN Fail(q) ELSE AssignExpr(q), LAMBDA q : Done(q, Nil)), LAMBDA init :
         MatchOr(EndAt(init, id.tok.line), "COMMA", LAMBDA q : Variables(q, Append(kids, Init(init.node))),
                                                    LAMBDA q : Done(q, N("VAR", "", Append(kids, Init(init.node)))))))

ReturnStatement(p) ==
  Then(PeekLine(p, TRUE), LAMBDA q :
    IF ~ p.fun \/ q.push.t = "ERROR" THEN Fail(q)
    ELSE IF q.push.t \in {"EOF", "EOL", "SEMI", "RC"} THEN Match(Done(HideNewlines(q), N("RETURN", "", <<Nil>>)), "SEMI")
    ELSE Then(Terminated(Expr(q), "ERROR"), LAMBDA value : Match(Done(value, N("RETURN", "", <<value.node>>)), "SEMI")))

(* import a.b, c[d], e.*: what it names, and the last step of the path.    *)
RECURSIVE ImportExpr(_), ImportPath(_)
ImportPath(p) ==
  Then(p, LAMBDA o : Then(GetOperand(o), LAMBDA op :
    CASE op.tok.t = "ERROR" \/ (op.tok.t \in {"DOT", "LB"} /\ o.node.k = "IMPORTALL") -> Fail(op)
      [] op.tok.t = "DOT" /\ o.node.k # "IMPORTALL" ->
           ImportPath(MatchOr(op, "STAR", LAMBDA q : Done(EndAt(q, q.tok.line), N("IMPORTALL", 0, <<o.node>>)),
                                          LAMBDA q : Named(q, "DOT", o.node)))
      [] op.tok.t = "LB" /\ o.node.k # "IMPORTALL" -> ImportPath(Indexed(op, o.node))
      [] op.tok.t \notin {"DOT", "LB", "ERROR"} -> IF o.node.k = "NAME" THEN Fail(op) ELSE UngetToken(op)))
ImportExpr(p) ==
  Then(Must(p, "NAME"), LAMBDA name : ImportPath(EndAt(Done(name, N("NAME", name.tok.v, <<>>)), name.tok.line)))

RECURSIVE Imports(_, _), Exports(_, _)
Imports(p, kids) ==
  Then(ImportExpr(p), LAMBDA one :
    MatchOr(one, "COMMA", LAMBDA q : Imports(q, Append(kids, one.node)),
                          LAMBDA q : Done(q, N("IMPORT", "", Append(kids, one.node)))))

Exported(p, kids) ==
  Then(Must(p, "NAME"), LAMBDA name :
    LET all == Append(kids, N("NAME", name.tok.v, <<>>))
    IN MatchOr(EndAt(name, name.tok.line), "COMMA", LAMBDA q : Exports(q, all), LAMBDA q : Done(q, N("EXPORT", "", all))))
Exports(p, kids) ==
  IF kids # <<>> THEN Exported(p, kids)
  ELSE MatchOr(p, "STAR", LAMBDA q : Done(EndAt(q, q.tok.line), N("EXPORT", "*", <<>>)), LAMBDA q : Exported(q, kids))

(* A label and its statement, or an expression.  That a colon follows is   *)
(* read off the token Expr has pushed back.                                *)
ExpressionStatement(p, first) ==
  Then(Expr(UngetToken(p)), LAMBDA q :
    IF q.push.t # "COLON" THEN Then(Terminated(q, first), LAMBDA end : Match(Done(end, N("SEMI", "", <<q.node>>)), "SEMI"))
    ELSE IF q.node.k \notin {"NAME", "SLOT"} \/ Labels(q, q.node.v) # {} THEN Fail(q)
    ELSE Body(Push(Get(q), "LABEL", q.node.v), LAMBDA body : N("COLON", q.node.v, <<body>>)))

BlockStatement(p) == Pop(Must(Statements(Push(p, "BLOCK", 0), <<>>), "RC"))
ThrowStatement(p) == Then(Terminated(Expr(p), "ERROR"), LAMBDA q : Match(Done(q, N("THROW", "", <<q.node>>)), "SEMI"))

AnyStatement(p) ==
  Then(p, LAMBDA o : Then(GetOperand(o), LAMBDA q :
    CASE q.tok.t = "IF" -> IfStatement(q)
      [] q.tok.t = "SWITCH" -> SwitchStatement(q)
      [] q.tok.t = "WHILE" -> WhileStatement(q)
      [] q.tok.t = "DO" -> DoStatement(q)
      [] q.tok.t = "FOR" -> ForStatement(q)
      [] q.tok.t = "WITH" -> WithStatement(q)
      [] q.tok.t = "TRY" -> TryStatement(q)
      [] q.tok.t = "THROW" -> ThrowStatement(q)
      [] q.tok.t = "BREAK" -> BreakStatement(q)
      [] q.tok.t = "CONTINUE" -> ContinueStatement(q)
      [] q.tok.t = "VAR" -> Match(Terminated(Variables(q, <<>>), "ERROR"), "SEMI")
      [] q.tok.t = "RETURN" -> ReturnStatement(q)
      [] q.tok.t = "LC" -> BlockStatement(q)
      [] q.tok.t = "IMPORT" -> Match(Terminated(Imports(q, <<>>), "ERROR"), "SEMI")
      [] q.tok.t = "EXPORT" -> Match(Terminated(Exports(q, <<>>), "ERROR"), "SEMI")
      [] q.tok.t \in {"EOL", "SEMI"} -> Done(q, N("SEMI", "", <<Nil>>))
      [] q.tok.t = "DEBUGGER" -> Done(WellTerminated(q, "ERROR"), N("DEBUGGER", "", <<>>))
      [] q.tok.t \in {"ERROR", "CATCH", "FINALLY"} -> Fail(q)
      [] OTHER -> ExpressionStatement(q, q.tok.t)))

RECURSIVE Formals(_, _)
Formals(p, ids) ==
  Then(Must(p, "NAME"), LAMBDA id :
    LET all == Append(ids, id.tok.v)
    IN MatchOr(id, "COMMA", LAMBDA q : Formals(q, all), LAMBDA q : Done(Must(q, "RP"), N("", 0, all))))

(* The body is parsed with a tree context of its own; no statement outside *)
(* can be the target of its jumps.                                         *)
FunctionBody(p, at, id, ids) ==
  Then(Block([p EXCEPT !.stmts = <<>>, !.inFor = FALSE, !.fun = TRUE, !.slots = {ids[i] : i \in DOMAIN ids}, !.tries = 0]), LAMBDA body :
    Done([body EXCEPT !.stmts = at.stmts, !.inFor = at.inFor, !.fun = at.fun, !.slots = at.slots, !.tries = at.tries,
                      !.end = body.tok.line],
         N("FUNCTION", id, <<N("FORMALS", ids, <<>>), body.node>>)))
FunctionDef(p) ==
  Then(MatchOr(p, "NAME", LAMBDA q : Done(q, N("NAME", q.tok.v, <<>>)), LAMBDA q : Done(q, N("NAME", 0, <<>>))), LAMBDA name :
    Then(MatchOr(Must(name, "LP"), "RP", LAMBDA q : Done(q, N("", 0, <<>>)), LAMBDA q : Formals(q, <<>>)), LAMBDA formals :
      FunctionBody(formals, p, name.node.v, formals.node.kids)))

Production(x, p) ==
  CASE x = "assignment" -> Assignment(p) [] x = "unary" -> Unary(p) [] x = "statement" -> AnyStatement(p)

(* js_CompileTokenStream: a script, statement by statement, each handed to *)
(* the code generator before the next is scanned.                          *)
RECURSIVE Script(_, _)
Script(p, kids) ==
  Then(p, LAMBDA o : Then(GetOperand(o), LAMBDA q :
    IF q.tok.t = "ERROR" THEN Fail(q)
    ELSE IF q.tok.t = "EOF" THEN Done(q, N("LC", "", kids))
    ELSE Then(IF q.tok.t = "FUNCTION" THEN Terminated(FunctionDef(q), "FUNCTION") ELSE Statement(UngetToken(q)), LAMBDA one :
           Script(one, Append(kids, one.node)))))

Parse(toks, version) == Script(Fresh(toks, version), <<>>)
=============================================================================
