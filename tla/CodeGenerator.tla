--------------------------- MODULE CodeGenerator ---------------------------
(***************************************************************************)
(* The code generator of jsemit.c: js_EmitTree and what it calls, for      *)
(* every statement form and for the expressions that jump or call.         *)
(*                                                                         *)
(* A code generator cg is a record: whether all went well (ok), the code   *)
(* emitted so far, the static depth of the operand stack and its maximum,  *)
(* whether that depth went below zero (the report of UpdateDepth), the     *)
(* stack of statements (innermost last), the try notes, and what the C     *)
(* functions in progress keep in local variables: the offsets of jumps to  *)
(* be set and of loop heads (marks, innermost last) and those of EmitTry   *)
(* (tries).  Offsets count instructions, not bytes; an instruction is its  *)
(* opcode, its immediate and, for a switch, its table.  Source notes, line numbers and the pools *)
(* of literals are left out.                                               *)
(***************************************************************************)
EXTENDS Integers, Sequences, FiniteSets

CONSTANT JumpMax    \* the longest jump an instruction can hold (32767 bytes)

Nil == [k |-> "NIL"]

(* js_CodeSpec: operands an instruction takes from and leaves on the stack *)
Uses(i) ==
  CASE i.op \in {"CALL", "NEW"} -> 2 + i.arg
    [] i.op = "SETELEM" -> 3
    [] i.op \in {"POP2", "NEWINIT", "DUP2", "BINARY", "SETNAME2", "SETPROP", "GETELEM", "DELELEM",
                 "INCELEM", "ELEMINC", "INITELEM"} -> 2
    [] i.op \in {"POPV", "POP", "ENTERWITH", "LEAVEWITH", "RETURN", "IFEQ", "IFNE", "OR", "AND",
                 "TABLESWITCH", "LOOKUPSWITCH", "CASE", "DEFAULT", "INITPROP", "TOOBJECT",
                 "THROW", "RETSUB", "DUP", "UNARY", "SETVAR", "GETPROP", "DELPROP", "INCPROP",
                 "PROPINC"} -> 1
    [] OTHER -> 0

Defs(i) ==
  CASE i.op = "DUP2" -> 4
    [] i.op = "DUP" -> 2
    [] i.op \in {"PUSH", "ENTERWITH", "PUSHOBJ", "NAME", "NUMBER", "CALL", "NEW", "NEWINIT",
                 "TOOBJECT", "FORNAME2", "GOSUB", "EXCEPTION", "BINARY", "UNARY", "BINDNAME",
                 "SETNAME2", "GETVAR", "SETVAR", "GETPROP", "SETPROP", "GETELEM", "SETELEM",
                 "DELNAME", "DELPROP", "DELELEM", "INCNAME", "INCVAR", "INCPROP", "INCELEM",
                 "NAMEINC", "VARINC", "PROPINC", "ELEMINC"} -> 1
    [] OTHER -> 0

EmptyCG == [ok |-> TRUE, code |-> <<>>, depth |-> 0, max |-> 0, under |-> FALSE,
            stmts |-> <<>>, notes |-> <<>>, marks |-> <<>>, tries |-> <<>>]

Offset(cg) == Len(cg.code)
At(cg, off) == cg.code[off + 1]

Deepen(cg, n) == [cg EXCEPT !.depth = @ + n]
Raise(cg) == IF cg.depth > cg.max THEN [cg EXCEPT !.max = cg.depth] ELSE cg

(* js_Emit1, js_Emit3, js_EmitN with UpdateDepth *)
Emit(cg, op, arg) ==
  LET i == [op |-> op, arg |-> arg, tab |-> <<>>]
      depth == cg.depth - Uses(i) + Defs(i)
  IN [cg EXCEPT !.code = Append(@, i), !.depth = depth, !.max = IF depth > @ THEN depth ELSE @,
                !.under = @ \/ cg.depth < Uses(i)]
Emit1(cg, op) == Emit(cg, op, 0)

SetJumpOffset(cg, at, off) ==
  [cg EXCEPT !.code[at + 1].arg = off, !.ok = @ /\ off \in -JumpMax - 1 .. JumpMax]

(* Remember here; jump to be landed later; land the last jump here; jump   *)
(* back to the last mark; jump over what the last jump has skipped to.     *)
Last(s) == s[Len(s)]
ButLast(s) == SubSeq(s, 1, Len(s) - 1)
Mark(cg) == [cg EXCEPT !.marks = Append(@, Offset(cg))]
Unmark(cg) == [cg EXCEPT !.marks = ButLast(@)]
Jump(cg, op) == Emit1(Mark(cg), op)
Land(cg) == Unmark(SetJumpOffset(cg, Last(cg.marks), Offset(cg) - Last(cg.marks)))
Back(cg, op) == Unmark(Emit(cg, op, Last(cg.marks) - Offset(cg)))
Else(cg) == [Land(Emit1(cg, "GOTO")) EXCEPT !.marks = Append(@, Offset(cg))]

-----------------------------------------------------------------------------
(* The stack of statements and the chains of their pending jumps: the      *)
(* immediate of a pending GOTO is its distance to the one before it.       *)

IsLoop(stmt) == stmt.type \in {"DO_LOOP", "FOR_LOOP", "FOR_IN_LOOP", "WHILE_LOOP"}

PushStatement(cg, type, label) ==
  [cg EXCEPT !.stmts = Append(@, [type |-> type, update |-> Offset(cg), breaks |-> -1,
                                  continues |-> -1, label |-> label])]

(* SET_STATEMENT_TOP and the setting of stmtInfo.update *)
SetTop(cg) ==
  [cg EXCEPT !.stmts[Len(cg.stmts)] = [@ EXCEPT !.update = Offset(cg), !.breaks = -1, !.continues = -1]]
UpdateUnset(cg) == cg   \* mutant: continue goes to the top of the loop
SetUpdate(cg) == [cg EXCEPT !.stmts[Len(cg.stmts)].update = Offset(cg)]

RECURSIVE PatchGotos(_, _, _)
PatchGotos(cg, last, target) ==
  IF last = -1 THEN cg
  ELSE PatchGotos(SetJumpOffset(cg, last, target - last), last - At(cg, last).arg, target)

PopStatementCG(cg) ==
  LET stmt == Last(cg.stmts)
      patched == PatchGotos(PatchGotos(cg, stmt.breaks, Offset(cg)), stmt.continues, stmt.update)
  IN [patched EXCEPT !.stmts = ButLast(@)]

(* What EmitGoto emits for the statements it leaves, from the innermost    *)
(* down to (and without) statement number to.                              *)
RECURSIVE Leave(_, _, _, _)
Leave(cg, from, to, finallyIndex) ==
  IF from = to THEN cg
  ELSE CASE cg.stmts[from].type = "FINALLY" ->
              Leave(Emit(cg, "GOSUB", finallyIndex), from - 1, to, finallyIndex - 1)
         [] cg.stmts[from].type = "WITH" ->
              Leave(Emit1(Deepen(cg, 1), "LEAVEWITH"), from - 1, to, finallyIndex)
         [] cg.stmts[from].type = "FOR_IN_LOOP" ->
              Leave(Emit1(Deepen(cg, 2), "POP2"), from - 1, to, finallyIndex)
         [] OTHER -> Leave(cg, from - 1, to, finallyIndex)

(* mutant: the statement that is broken out of is itself left *)
EmitBreakLeavesTarget(cg, to) ==
  LET left == Leave(cg, Len(cg.stmts), to - 1, 0)
      here == Offset(left)
  IN Emit([left EXCEPT !.stmts[to].breaks = here], "GOTO", here - left.stmts[to].breaks)

EmitBreak(cg, to) ==
  LET left == Leave(cg, Len(cg.stmts), to, 0)
      here == Offset(left)
  IN Emit([left EXCEPT !.stmts[to].breaks = here], "GOTO", here - left.stmts[to].breaks)

EmitContinue(cg, to) ==
  LET left == Leave(cg, Len(cg.stmts), to, 0)
      here == Offset(left)
  IN Emit([left EXCEPT !.stmts[to].continues = here], "GOTO", here - left.stmts[to].continues)

Innermost(S) == CHOOSE i \in S : \A j \in S : j <= i

LabelAt(cg, label) ==
  Innermost({i \in DOMAIN cg.stmts : cg.stmts[i].type = "LABEL" /\ cg.stmts[i].label = label})

BreakTarget(cg, label) ==
  IF label # "" THEN LabelAt(cg, label)
  ELSE Innermost({i \in DOMAIN cg.stmts : IsLoop(cg.stmts[i]) \/ cg.stmts[i].type = "SWITCH"})

(* The loop enclosed by the label: the outermost loop inside it.           *)
ContinueTarget(cg, label) ==
  LET loops == {i \in DOMAIN cg.stmts : IsLoop(cg.stmts[i])}
      inside == {i \in loops : i > LabelAt(cg, label)}
  IN IF label = "" THEN Innermost(loops)
     ELSE CHOOSE i \in inside : \A j \in inside : i <= j

-----------------------------------------------------------------------------
(* The linear searches for jumps to fix up once a try statement is done.   *)
(* The search steps over an instruction by its length, and over a switch   *)
(* by its first immediate: the offset of its default case, or of its end.  *)

Searched(cg, start) ==
  {pc \in start .. Offset(cg) - 1 :
     \A s \in start .. pc - 1 :
       At(cg, s).op \in {"TABLESWITCH", "LOOKUPSWITCH"} => s + At(cg, s).arg <= pc}

Fixup(cg, found, Arg(_)) ==
  [cg EXCEPT !.code = [k \in DOMAIN @ |-> IF k - 1 \in found THEN [@[k] EXCEPT !.arg = Arg(k - 1)]
                                          ELSE @[k]]]

(* mutant: the jumps of outer finally blocks keep their index *)
FixupInnermost(cg, start, finallyIndex) ==
  LET found == {pc \in Searched(cg, start) : At(cg, pc).op = "GOSUB" /\ At(cg, pc).arg = 0}
      arg(pc) == finallyIndex - pc
  IN Fixup(cg, found, arg)

FixupFinallyJumps(cg, start, finallyIndex) ==
  LET found == {pc \in Searched(cg, start) : At(cg, pc).op = "GOSUB" /\ At(cg, pc).arg <= 0}
      arg(pc) == IF At(cg, pc).arg = 0 THEN finallyIndex - pc ELSE At(cg, pc).arg + 1
  IN Fixup(cg, found, arg)

FixupCatchJumps(cg, start, postCatch) ==
  LET found == {pc \in Searched(cg, start) : At(cg, pc).op = "GOTO" /\ At(cg, pc).arg = 0}
      arg(pc) == postCatch - pc
  IN Fixup(cg, found, arg)

NewTryNote(cg, start, end, catchStart) ==
  [cg EXCEPT !.notes = Append(@, [start |-> start, length |-> end - start,
                                  catchStart |-> catchStart])]

-----------------------------------------------------------------------------
RECURSIVE EmitTree(_, _)

RECURSIVE EmitList(_, _)
EmitList(cg, kids) ==
  IF kids = <<>> \/ ~ cg.ok THEN cg ELSE EmitList(EmitTree(cg, Head(kids)), Tail(kids))

EmitBlock(cg, pn) == PopStatementCG(EmitList(PushStatement(cg, "BLOCK", ""), pn.kids))

EmitIf(cg, pn) ==
  LET then == EmitTree(Jump(PushStatement(EmitTree(cg, pn.cond), "IF", ""), "IFEQ"), pn.left)
  IN PopStatementCG(Land(IF pn.right = Nil THEN then ELSE EmitTree(Else(then), pn.right)))

(* Jump back to the mark before the last one, and land the last one here.  *)
EndLoop(cg) ==
  LET top == Last(ButLast(cg.marks)) IN Unmark(Land(Emit(cg, "GOTO", top - Offset(cg))))

EmitWhile(cg, pn) ==
  LET test == EmitTree(Mark(PushStatement(cg, "WHILE_LOOP", "")), pn.cond)
  IN PopStatementCG(EndLoop(EmitTree(Jump(test, "IFEQ"), pn.body)))

EmitDo(cg, pn) ==
  LET body == EmitTree(Mark(PushStatement(Emit1(cg, "NOP"), "DO_LOOP", "")), pn.body)
  IN PopStatementCG(Back(EmitTree(SetUpdate(body), pn.cond), "IFNE"))

ForHead(cg, pn) == IF pn.init = Nil THEN Emit1(cg, "NOP") ELSE Emit1(EmitTree(cg, pn.init), "POP")
ForTest(cg, pn) == IF pn.cond = Nil THEN cg ELSE Jump(EmitTree(cg, pn.cond), "IFEQ")
ForNext(cg, pn) == IF pn.update = Nil THEN cg ELSE Emit1(EmitTree(SetUpdate(cg), pn.update), "POP")
EmitFor(cg, pn) ==
  LET top == Mark(SetTop(ForHead(PushStatement(cg, "FOR_LOOP", ""), pn)))
      next == ForNext(EmitTree(ForTest(top, pn), pn.body), pn)
  IN PopStatementCG(IF pn.cond = Nil THEN Back(next, "GOTO") ELSE EndLoop(next))

EmitForIn(cg, pn) ==
  LET obj == Emit1(EmitTree(Emit1(PushStatement(cg, "FOR_IN_LOOP", ""), "PUSH"), pn.cond), "TOOBJECT")
      next == Jump(Emit1(Mark(SetTop(obj)), "FORNAME2"), "IFEQ")
  IN Emit1(PopStatementCG(EndLoop(EmitTree(next, pn.body))), "POP2")

EmitWith(cg, pn) ==
  LET enter == Emit1(PushStatement(EmitTree(cg, pn.cond), "WITH", ""), "ENTERWITH")
  IN PopStatementCG(Emit1(EmitTree(enter, pn.body), "LEAVEWITH"))

EmitLabel(cg, pn) ==
  LET body == PopStatementCG(EmitTree(PushStatement(Emit1(cg, "NOP"), "LABEL", pn.label), pn.body))
  IN IF pn.body.k = "LC" THEN Emit1(body, "NOP") ELSE body

EmitReturn(cg, pn) ==
  Emit1(IF pn.left = Nil THEN Emit1(cg, "PUSH") ELSE EmitTree(cg, pn.left), "RETURN")

-----------------------------------------------------------------------------
(* switch: a table when every case is an integer of a dense range, a list  *)
(* of pairs when every case is a constant, else a chain of CASEs.          *)

Cases(pn) == {i \in DOMAIN pn.cases : pn.cases[i].k # "DEFAULT"}
CaseVals(pn) == {pn.cases[i].val : i \in Cases(pn)}
Lowest(S) == CHOOSE v \in S : \A w \in S : v <= w

SwitchOp(pn) ==
  IF \E i \in Cases(pn) : pn.cases[i].k # "CONST" THEN "CONDSWITCH"
  ELSE IF CaseVals(pn) = {} THEN "TABLESWITCH"
  ELSE IF Innermost(CaseVals(pn)) - Lowest(CaseVals(pn)) + 1 > 2 * Cardinality(Cases(pn))
       THEN "LOOKUPSWITCH" ELSE "TABLESWITCH"

(* The chain of case expressions; at returns the offset of each CASE.      *)
RECURSIVE EmitCases(_, _, _)
EmitCases(cg, cases, at) ==
  IF cases = <<>> \/ ~ cg.ok THEN [cg |-> cg, at |-> at]
  ELSE IF Head(cases).k = "DEFAULT" THEN EmitCases(cg, Tail(cases), Append(at, -1))
  ELSE LET test == IF Head(cases).k = "CONST" THEN Emit(cg, "NUMBER", Head(cases).val)
                   ELSE EmitTree(cg, Head(cases).val)
       IN EmitCases(Emit1(test, "CASE"), Tail(cases), Append(at, Offset(test)))

(* The statements of each case; at returns where each begins.              *)
RECURSIVE EmitBodies(_, _, _, _)
EmitBodies(cg, cases, jumps, at) ==
  IF cases = <<>> \/ ~ cg.ok THEN [cg |-> cg, at |-> at]
  ELSE LET jump == Head(jumps)
           landed == IF jump >= 0 THEN SetJumpOffset(cg, jump, Offset(cg) - jump) ELSE cg
       IN EmitBodies(EmitBlock(landed, Head(cases).body), Tail(cases), Tail(jumps),
                     Append(at, Offset(cg)))

(* The instruction whose immediate is the offset of the default is marked. *)
EmitTests(cg, pn) ==
  IF SwitchOp(pn) = "CONDSWITCH"
  THEN LET tests == EmitCases(Emit1(cg, "CONDSWITCH"), pn.cases, <<>>)
       IN [tests EXCEPT !.cg = Jump(@, "DEFAULT")]
  ELSE [cg |-> Jump(cg, SwitchOp(pn)), at |-> [i \in DOMAIN pn.cases |-> -1]]

SetTable(cg, pn, at) ==
  LET top == Last(cg.marks)
      where(v) == {i \in Cases(pn) : pn.cases[i].val = v}
      tab == IF SwitchOp(pn) = "TABLESWITCH"
             THEN [v \in Lowest(CaseVals(pn)) .. Innermost(CaseVals(pn)) |->
                     IF where(v) = {} THEN 0 ELSE at[Innermost(where(v))] - top]
             ELSE [v \in CaseVals(pn) |-> at[Lowest(where(v))] - top]
  IN IF SwitchOp(pn) = "CONDSWITCH" \/ Cases(pn) = {} THEN cg ELSE [cg EXCEPT !.code[top + 1].tab = tab]

CloseSwitch(bodies, pn) ==
  LET defaults == DOMAIN pn.cases \ Cases(pn)
      off == IF defaults = {} THEN Offset(bodies.cg) ELSE bodies.at[Innermost(defaults)]
      top == Last(bodies.cg.marks)
  IN IF ~ bodies.cg.ok THEN bodies.cg
     ELSE PopStatementCG(Unmark(SetJumpOffset(SetTable(bodies.cg, pn, bodies.at), top, off - top)))

EmitAllBodies(tests, pn) == EmitBodies(tests.cg, pn.cases, tests.at, <<>>)
EmitSwitch(cg, pn) ==
  CloseSwitch(EmitAllBodies(EmitTests(PushStatement(EmitTree(cg, pn.cond), "SWITCH", ""), pn), pn), pn)

-----------------------------------------------------------------------------
(* try: the block, the catch block (its scope object pushed like a with),  *)
(* the code that rethrows after the finally block, and the finally block   *)
(* as a subroutine.  Catch guards are not compiled in (JS_HAS_CATCH_GUARD).*)

OpenTry(cg, pn) ==
  LET nop == Emit1(IF pn.finally = Nil THEN cg ELSE PushStatement(cg, "FINALLY", ""), "NOP")
  IN [nop EXCEPT !.tries = Append(@, [depth |-> cg.depth, start |-> Offset(nop), jmp |-> 0, handler |-> 0])]

EmitTryBlock(cg, pn) ==
  LET block == EmitTree(cg, pn.body)
      sub == IF pn.finally = Nil THEN block ELSE Emit1(block, "GOSUB")
  IN [Emit1(sub, "GOTO") EXCEPT !.tries[Len(cg.tries)].jmp = Offset(sub)]

EmitCatch(cg, pn) ==
  LET holder == Emit(Emit1(Emit(cg, "SETSP", Last(cg.tries).depth), "NOP"), "NAME", 0)
      scope == Emit1(Emit1(Emit1(Emit1(holder, "PUSHOBJ"), "NEWINIT"), "EXCEPTION"), "INITPROP")
      block == PopStatementCG(EmitTree(PushStatement(Emit1(scope, "ENTERWITH"), "WITH", ""), pn.catch))
      left == Emit1(block, "LEAVEWITH")
  IN IF pn.catch = Nil THEN cg
     ELSE Emit1(IF pn.finally = Nil THEN left ELSE Emit1(left, "GOSUB"), "GOTO")

(* The handler of what no catch takes: it runs the finally block, and      *)
(* throws again.                                                           *)
EmitRethrow(cg, pn) ==
  LET raised == Raise(Deepen(Emit(cg, "SETSP", Last(cg.tries).depth), 1))
      entry == IF pn.catch = Nil THEN raised ELSE Emit1(raised, "LEAVEWITH")
      thrown == Emit1(Emit1(Emit1(entry, "GOSUB"), "EXCEPTION"), "THROW")
  IN IF pn.finally = Nil THEN cg ELSE [thrown EXCEPT !.tries[Len(cg.tries)].handler = Offset(entry)]

EmitFinally(cg, pn) ==
  LET fixed == PopStatementCG(FixupFinallyJumps(cg, Last(cg.tries).start, Offset(cg)))
  IN IF pn.finally = Nil THEN cg ELSE Emit1(EmitTree(Emit1(fixed, "NOP"), pn.finally), "RETSUB")

(* mutant: the note of the finally handler comes before that of the catch *)
NoteTryOuterFirst(cg, pn, try) ==
  LET noted == IF pn.finally = Nil THEN cg ELSE NewTryNote(cg, try.start, try.handler - 1, try.handler)
  IN IF pn.catch = Nil THEN noted ELSE NewTryNote(noted, try.start, try.jmp + 1, try.jmp + 1)

NoteTry(cg, pn, try) ==
  LET noted == IF pn.catch = Nil THEN cg ELSE NewTryNote(cg, try.start, try.jmp + 1, try.jmp + 1)
  IN IF pn.finally = Nil THEN noted ELSE NewTryNote(noted, try.start, try.handler - 1, try.handler)

(* All jumps past the statement come here. *)
LandTry(cg, pn, try) ==
  LET landed == SetJumpOffset(FixupCatchJumps(cg, try.start, Offset(cg)), try.jmp, Offset(cg) - try.jmp)
  IN [NoteTry(landed, pn, try) EXCEPT !.tries = ButLast(@)]

CloseTry(cg, pn) == IF cg.ok THEN LandTry(cg, pn, Last(cg.tries)) ELSE cg

EmitTry(cg, pn) ==
  LET caught == EmitCatch(EmitTryBlock(OpenTry(cg, pn), pn), pn)
  IN CloseTry(Emit1(EmitFinally(EmitRethrow(caught, pn), pn), "NOP"), pn)

-----------------------------------------------------------------------------
(* Expressions.  An lvalue is a name, a slot of the function (a name the   *)
(* parser has resolved), a property (DOT) or an element (LB); the opcodes  *)
(* are specialised to it.  All operators that evaluate both operands are   *)
(* BINARY, those of one operand UNARY; ++ and -- are INC, and INC of the   *)
(* opcode comes last when the old value is left (JOF_POST).                *)

EmitCall(cg, pn) ==
  Emit(EmitList(Emit1(EmitTree(cg, pn.callee), "PUSHOBJ"), pn.args), pn.k, Len(pn.args))

EmitHook(cg, pn) ==
  Land(EmitTree(Else(EmitTree(Jump(EmitTree(cg, pn.cond), "IFEQ"), pn.left)), pn.right))

EmitShort(cg, pn) == Land(EmitTree(Jump(EmitTree(cg, pn.left), pn.k), pn.right))

(* The operands of an lvalue, but for a name that is to be bound.          *)
EmitLeft(cg, lval) ==
  CASE lval.k = "DOT" -> EmitTree(cg, lval.left)
    [] lval.k = "LB" -> EmitTree(EmitTree(cg, lval.left), lval.right)
    [] OTHER -> cg

(* The opcode of each family for the kind of an lvalue.                    *)
Getting == [NAME |-> "NAME", SLOT |-> "GETVAR", DOT |-> "GETPROP", LB |-> "GETELEM"]
Setting == [NAME |-> "SETNAME2", SLOT |-> "SETVAR", DOT |-> "SETPROP", LB |-> "SETELEM"]
IncPre == [NAME |-> "INCNAME", SLOT |-> "INCVAR", DOT |-> "INCPROP", LB |-> "INCELEM"]
IncPost == [NAME |-> "NAMEINC", SLOT |-> "VARINC", DOT |-> "PROPINC", LB |-> "ELEMINC"]
Deleting == [NAME |-> "DELNAME", SLOT |-> "DELNAME", DOT |-> "DELPROP", LB |-> "DELELEM"]

EmitOpOn(cg, family, lval) == Emit(cg, family[lval.k], IF lval.k = "LB" THEN 0 ELSE lval.id)

(* For op= the operands are duplicated and the value got before the right  *)
(* operand is evaluated; a bound name is then a property of its scope.     *)
EmitAssign(cg, pn) ==
  LET lval == pn.left
      left == IF lval.k = "NAME" THEN Emit(cg, "BINDNAME", lval.id) ELSE EmitLeft(cg, lval)
      got == CASE pn.op = "" -> left
               [] lval.k = "SLOT" -> Emit(left, "GETVAR", lval.id)
               [] lval.k = "LB" -> Emit1(Emit1(left, "DUP2"), "GETELEM")
               [] OTHER -> Emit(Emit1(left, "DUP"), "GETPROP", lval.id)
      right == EmitTree(got, pn.right)
  IN EmitOpOn(IF pn.op = "" THEN right ELSE Emit1(right, pn.op), Setting, lval)

RECURSIVE EmitCommas(_, _)
EmitCommas(cg, kids) ==
  LET first == EmitTree(cg, Head(kids))
  IN IF Tail(kids) = <<>> \/ ~ cg.ok THEN first ELSE EmitCommas(Emit1(first, "POP"), Tail(kids))

(* var: a name without an initializer is read. *)
RECURSIVE EmitVars(_, _)
EmitVars(cg, vars) ==
  LET v == Head(vars)
      one == IF v.init = Nil THEN Emit(cg, "NAME", v.left.id)
             ELSE EmitAssign(cg, [left |-> v.left, op |-> "", right |-> v.init])
  IN IF Tail(vars) = <<>> \/ ~ cg.ok THEN Emit1(one, "POP")
     ELSE EmitVars(Emit1(one, "POP"), Tail(vars))

RECURSIVE EmitElements(_, _, _)
EmitElements(cg, kids, n) ==
  IF kids = <<>> \/ ~ cg.ok THEN cg
  ELSE EmitElements(Emit1(EmitTree(Emit(cg, "NUMBER", n), Head(kids)), "INITELEM"), Tail(kids), n + 1)

RECURSIVE EmitMembers(_, _)
EmitMembers(cg, kids) ==
  IF kids = <<>> \/ ~ cg.ok THEN cg
  ELSE EmitMembers(Emit(EmitTree(cg, Head(kids).right), "INITPROP", Head(kids).id), Tail(kids))

EmitInitialiser(cg, pn) ==
  LET object == Emit1(Emit1(Emit(cg, "NAME", 0), "PUSHOBJ"), "NEWINIT")
  IN Emit1(IF pn.k = "RB" THEN EmitElements(object, pn.kids, 0) ELSE EmitMembers(object, pn.kids),
           "ENDINIT")

EmitTree(cg, pn) ==
  CASE ~ cg.ok \/ pn.k = "NIL" -> cg
    [] pn.k = "LC" -> EmitBlock(cg, pn)
    [] pn.k = "SEMI" -> Emit1(EmitTree(cg, pn.left), "POPV")
    [] pn.k = "VAR" -> EmitVars(cg, pn.kids)
    [] pn.k = "IF" -> EmitIf(cg, pn)
    [] pn.k = "SWITCH" -> EmitSwitch(cg, pn)
    [] pn.k = "WHILE" -> EmitWhile(cg, pn)
    [] pn.k = "DO" -> EmitDo(cg, pn)
    [] pn.k = "FOR" -> EmitFor(cg, pn)
    [] pn.k = "FORIN" -> EmitForIn(cg, pn)
    [] pn.k = "BREAK" -> EmitBreak(cg, BreakTarget(cg, pn.label))
    [] pn.k = "CONTINUE" -> EmitContinue(cg, ContinueTarget(cg, pn.label))
    [] pn.k = "WITH" -> EmitWith(cg, pn)
    [] pn.k = "TRY" -> EmitTry(cg, pn)
    [] pn.k \in {"THROW", "UNARY"} -> Emit1(EmitTree(cg, pn.left), pn.k)
    [] pn.k = "RETURN" -> EmitReturn(cg, pn)
    [] pn.k = "COLON" -> EmitLabel(cg, pn)
    [] pn.k \in {"NAME", "SLOT", "DOT", "LB"} -> EmitOpOn(EmitLeft(cg, pn), Getting, pn)
    [] pn.k = "NUMBER" -> Emit(cg, "NUMBER", pn.val)
    [] pn.k \in {"CALL", "NEW"} -> EmitCall(cg, pn)
    [] pn.k = "HOOK" -> EmitHook(cg, pn)
    [] pn.k \in {"OR", "AND"} -> EmitShort(cg, pn)
    [] pn.k = "COMMA" -> EmitCommas(cg, pn.kids)
    [] pn.k = "BINARY" -> Emit1(EmitTree(EmitTree(cg, pn.left), pn.right), "BINARY")
    [] pn.k = "RP" -> Emit1(EmitTree(cg, pn.left), "NOP")
    [] pn.k = "ASSIGN" -> EmitAssign(cg, pn)
    [] pn.k = "INC" -> EmitOpOn(EmitLeft(cg, pn.left), IF pn.post THEN IncPost ELSE IncPre, pn.left)
    [] pn.k = "DELETE" -> EmitOpOn(EmitLeft(cg, pn.left), Deleting, pn.left)
    [] pn.k \in {"RB", "RC"} -> EmitInitialiser(cg, pn)

(* js_NewScriptFromCG: what the interpreter is given. *)
Compile(pn) ==
  LET cg == EmitTree(EmptyCG, pn)
  IN [ok |-> cg.ok, code |-> cg.code, depth |-> cg.max, notes |-> cg.notes, under |-> cg.under]
=============================================================================
