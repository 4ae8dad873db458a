----------------------------- MODULE Structured -----------------------------
(***************************************************************************)
(* What the statements mean: the reference the compiled code is compared   *)
(* with.  A state s holds the answers still to be given (tape), the scope  *)
(* chain and the trace of what was observed; an outcome is a completion    *)
(* (normal, break, continue, return or throw) with its label or value and  *)
(* the state it leaves.  Nothing here translates code: it is the language  *)
(* the code implements.                                                    *)
(***************************************************************************)
EXTENDS Integers, Sequences, FiniteSets

CONSTANT NProps     \* properties of every object a for/in loop enumerates

LOCAL Nothing == [k |-> "NIL"]

(* Values: a kind and what is known of it.  An object is known by how it *)
(* was come by: <<"obj", n>> is what variable n holds.                     *)
Void == <<"void", 0>>
Num(n) == <<"int", n>>
Obj(o) == <<"obj", o>>
Kind(operand) == operand[1]
Val(operand) == operand[2]
Holder(chain, id) == Obj(<<"holder", chain, id>>)   \* of the name id on a scope chain
Fresh(members) == Obj(<<"init", members>>)          \* made by an initialiser
Property(o, id) == Obj(<<"prop", o, id>>)

Normal(v, s) == [t |-> "normal", label |-> "", v |-> v, s |-> s]
Abrupt(t, label, v, s) == [t |-> t, label |-> label, v |-> v, s |-> s]
Then(o, F(_)) == IF o.t = "normal" THEN F(o) ELSE o

(* The next answer; once they are used up every answer is 0. *)
Answer(s) == IF s.tape = <<>> THEN 0 ELSE Head(s.tape)
Asked(s) == IF s.tape = <<>> THEN s ELSE [s EXCEPT !.tape = Tail(@)]
Observe(s, e) == [s EXCEPT !.trace = Append(@, <<e, s.chain>>)]

RECURSIVE Eval(_, _)

RECURSIVE EvalList(_, _)    \* the values of a list of expressions
EvalList(es, s) ==
  IF es = <<>> THEN Normal(<<>>, s)
  ELSE LET rest(o) == LET all(p) == Normal(<<o.v>> \o p.v, p.s) IN Then(EvalList(Tail(es), o.s), all)
       IN Then(Eval(Head(es), s), rest)

(* The place an lvalue denotes: an object (the slots of the frame count as *)
(* one) and what names the property of it.                                 *)
Refer(e, s) ==
  CASE e.k = "NAME" -> Normal([on |-> Holder(s.chain, e.id), id |-> Num(e.id)], s)
    [] e.k = "SLOT" -> Normal([on |-> Void, id |-> Num(e.id)], s)
    [] e.k = "DOT" -> LET of(o) == Normal([on |-> o.v, id |-> Num(e.id)], o.s) IN Then(Eval(e.left, s), of)
    [] e.k = "LB" -> LET of(o) == Normal([on |-> o.v[1], id |-> o.v[2]], o.s)
                     IN Then(EvalList(<<e.left, e.right>>, s), of)

GetValue(ref, s) == Normal(Property(ref.on, ref.id), Observe(s, <<"get", ref.on, ref.id>>))
PutValue(ref, v, s) == Normal(v, Observe(s, <<"set", ref.on, ref.id, v>>))

(* The this object of a call: where the callee was found. *)
RECURSIVE This(_, _)
This(e, s) ==
  CASE e.k = "NAME" -> Holder(s.chain, e.id)
    [] e.k \in {"DOT", "LB"} -> Eval(e.left, s).v
    [] e.k = "RP" -> This(e.left, s)
    [] OTHER -> Void

EvalCall(e, s) ==
  LET call(f, as) ==
        LET seen == Observe(as.s, IF e.k = "NEW" THEN <<"new", f, as.v>>
                                  ELSE <<"call", f, This(e.callee, s), as.v>>)
        IN IF Answer(seen) = 1 THEN Abrupt("throw", "", Obj(<<"thrown">>), Asked(seen))
           ELSE Normal(Obj(<<"result", f>>), Asked(seen))
      args(o) == LET done(as) == call(o.v, as) IN Then(EvalList(e.args, o.s), done)
  IN Then(Eval(e.callee, s), args)

EvalAssign(e, s) ==
  LET put(ref, v, s2) == PutValue(ref, v, s2)
      plain(r) == LET right(o) == put(r.v, o.v, o.s) IN Then(Eval(e.right, r.s), right)
      updated(r) ==
        LET old == GetValue(r.v, r.s)
            right(o) == put(r.v, Obj(<<"op", old.v, o.v>>), o.s)
        IN Then(Eval(e.right, old.s), right)
      any(r) == IF e.op = "" THEN plain(r) ELSE updated(r)
  IN Then(Refer(e.left, s), any)

EvalInc(e, s) ==
  LET step(r) ==
        LET old == GetValue(r.v, r.s)
            new == Obj(<<"inc", old.v>>)
        IN [PutValue(r.v, new, old.s) EXCEPT !.v = IF e.post THEN old.v ELSE new]
  IN Then(Refer(e.left, s), step)

Eval(e, s) ==
  CASE e.k = "NAME" /\ e.id < 0 -> Normal(Obj(<<"obj", -e.id>>), Observe(s, <<"name", -e.id>>))
    [] e.k = "NAME" /\ e.id > 0 -> Normal(Num(Answer(s)), Asked(Observe(s, <<"name", e.id>>)))
    [] e.k \in {"SLOT", "DOT", "LB"} -> LET get(r) == GetValue(r.v, r.s) IN Then(Refer(e, s), get)
    [] e.k = "NUMBER" -> Normal(Num(e.val), s)
    [] e.k \in {"CALL", "NEW"} -> EvalCall(e, s)
    [] e.k = "HOOK" ->
         LET choose(o) == Eval(IF Val(o.v) = 1 THEN e.left ELSE e.right, o.s)
         IN Then(Eval(e.cond, s), choose)
    [] e.k \in {"OR", "AND"} ->
         LET right(o) == IF (Val(o.v) = 1) = (e.k = "OR") THEN o ELSE Eval(e.right, o.s)
         IN Then(Eval(e.left, s), right)
    [] e.k = "COMMA" -> LET last(o) == Normal(o.v[Len(o.v)], o.s) IN Then(EvalList(e.kids, s), last)
    [] e.k = "BINARY" ->
         LET op(o) == Normal(Obj(<<"op", o.v[1], o.v[2]>>), o.s) IN Then(EvalList(<<e.left, e.right>>, s), op)
    [] e.k = "UNARY" -> LET op(o) == Normal(Obj(<<"un", o.v>>), o.s) IN Then(Eval(e.left, s), op)
    [] e.k = "RP" -> Eval(e.left, s)
    [] e.k = "ASSIGN" -> EvalAssign(e, s)
    [] e.k = "INC" -> EvalInc(e, s)
    [] e.k = "DELETE" ->
         LET del(r) == Normal(Num(1), Observe(r.s, <<"delete", r.v.on, r.v.id>>)) IN Then(Refer(IF e.left.k = "SLOT" THEN [e.left EXCEPT !.k = "NAME"] ELSE e.left, s), del)
    [] e.k \in {"RB", "RC"} ->
         LET id(i) == Num(IF e.k = "RB" THEN i - 1 ELSE e.kids[i].id)
             init(o) == Normal(Fresh([i \in DOMAIN o.v |-> <<id(i), o.v[i]>>]), o.s)
         IN Then(EvalList([i \in DOMAIN e.kids |-> IF e.k = "RB" THEN e.kids[i] ELSE e.kids[i].right], s),
                 init)

RECURSIVE Exec(_, _, _)     \* statement, state, labels of the statement

RECURSIVE ExecList(_, _)
ExecList(ks, s) ==
  IF ks = <<>> THEN Normal(0, s)
  ELSE LET rest(o) == ExecList(Tail(ks), o.s) IN Then(Exec(Head(ks), s, {}), rest)

(* One turn of a loop: o is how its body ended, next what comes after.     *)
Turn(o, labels, Next(_)) ==
  CASE o.t = "normal" \/ (o.t = "continue" /\ o.label \in labels \cup {""}) -> Next(o.s)
    [] o.t = "break" /\ o.label = "" -> Normal(0, o.s)
    [] OTHER -> o

RECURSIVE Loop(_, _, _)     \* a while or for loop, from its condition on
Loop(pn, s, labels) ==
  LET update(s2) == IF pn.update = Nothing THEN Loop(pn, s2, labels)
                    ELSE LET again(o) == Loop(pn, o.s, labels) IN Then(Eval(pn.update, s2), again)
      body(o) == IF Val(o.v) = 0 THEN Normal(0, o.s) ELSE Turn(Exec(pn.body, o.s, {}), labels, update)
  IN Then(Eval(pn.cond, s), body)

RECURSIVE Enumerate(_, _, _, _)
Enumerate(pn, n, s, labels) ==
  LET more(s2) == Enumerate(pn, n - 1, s2, labels)
  IN IF n = 0 THEN Normal(0, s) ELSE Turn(Exec(pn.body, Observe(s, <<"for">>), {}), labels, more)

(* Where a switch enters its cases: after their tests, in order, up to the *)
(* one that matches, else at the default, else past the end.               *)
RECURSIVE Select(_, _, _, _)
Select(cases, i, v, s) ==
  IF i > Len(cases)
  THEN LET ds == {j \in DOMAIN cases : cases[j].k = "DEFAULT"}
       IN Normal(IF ds = {} THEN i ELSE CHOOSE j \in ds : TRUE, s)
  ELSE LET test(o) == IF o.v = v THEN Normal(i, o.s) ELSE Select(cases, i + 1, v, o.s)
       IN CASE cases[i].k = "DEFAULT" -> Select(cases, i + 1, v, s)
            [] cases[i].k = "CONST" -> test(Normal(Num(cases[i].val), s))
            [] OTHER -> Then(Eval(cases[i].val, s), test)

Scoped(o, chain) == [o EXCEPT !.s.chain = chain]
Enter(s, scope) == [s EXCEPT !.chain = Append(@, scope)]

ExecTry(pn, s) ==
  LET b == Exec(pn.body, s, {})
      c == IF b.t = "throw" /\ pn.catch # Nothing
           THEN Scoped(Exec(pn.catch, Enter(b.s, Fresh(<<<<Num(0), b.v>>>>)), {}), s.chain)
           ELSE b
      f == IF pn.finally = Nothing THEN Normal(0, c.s) ELSE Exec(pn.finally, c.s, {})
  IN IF f.t = "normal" THEN [c EXCEPT !.s = f.s] ELSE f

Exec(pn, s, labels) ==
  CASE pn.k = "NIL" -> Normal(0, s)
    [] pn.k = "LC" -> ExecList(pn.kids, s)
    [] pn.k = "SEMI" -> Eval(pn.left, s)
    [] pn.k = "VAR" ->
         LET v == [i \in DOMAIN pn.kids |-> IF pn.kids[i].init = Nothing
                     THEN [k |-> "NAME", id |-> pn.kids[i].left.id]
                     ELSE [k |-> "ASSIGN", op |-> "", left |-> pn.kids[i].left, right |-> pn.kids[i].init]]
             done(o) == Normal(0, o.s)
         IN Then(EvalList(v, s), done)
    [] pn.k = "IF" -> LET arm(o) == Exec(IF Val(o.v) = 1 THEN pn.left ELSE pn.right, o.s, {})
                      IN Then(Eval(pn.cond, s), arm)
    [] pn.k = "WHILE" -> Loop(pn, s, labels)
    [] pn.k = "DO" -> LET test(s2) == LET again(o) == IF Val(o.v) = 0 THEN Normal(0, o.s)
                                                      ELSE Exec(pn, o.s, labels)
                                      IN Then(Eval(pn.cond, s2), again)
                      IN Turn(Exec(pn.body, s, {}), labels, test)
    [] pn.k = "FOR" -> LET start(o) == Loop(pn, o.s, labels) IN Then(Eval(pn.init, s), start)
    [] pn.k = "FORIN" -> LET each(o) == Enumerate(pn, NProps, o.s, labels)
                         IN Then(Eval(pn.cond, s), each)
    [] pn.k = "SWITCH" ->
         LET enter(o) == ExecList([j \in 1..Len(pn.cases) - o.v + 1 |-> pn.cases[o.v + j - 1].body], o.s)
             pick(o) == Select(pn.cases, 1, o.v, o.s)
             done == Then(Then(Eval(pn.cond, s), pick), enter)
         IN IF done.t = "break" /\ done.label = "" THEN Normal(0, done.s) ELSE done
    [] pn.k \in {"BREAK", "CONTINUE"} ->
         Abrupt(IF pn.k = "BREAK" THEN "break" ELSE "continue", pn.label, 0, s)
    [] pn.k = "WITH" ->
         LET inside(o) == Scoped(Exec(pn.body, Enter(o.s, o.v), {}), s.chain)
         IN Then(Eval(pn.cond, s), inside)
    [] pn.k = "TRY" -> ExecTry(pn, s)
    [] pn.k = "THROW" -> LET throw(o) == Abrupt("throw", "", o.v, o.s) IN Then(Eval(pn.left, s), throw)
    [] pn.k = "RETURN" -> LET return(o) == Abrupt("return", "", 0, o.s)
                          IN Then(Exec(pn.left, s, {}), return)
    [] pn.k = "COLON" ->
         LET o == Exec(pn.body, s, labels \cup {pn.label})
         IN IF o.t = "break" /\ o.label = pn.label THEN Normal(0, o.s) ELSE o
    [] OTHER -> Eval(pn, s)
=============================================================================
