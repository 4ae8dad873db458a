---------------------------- MODULE Interpreter ----------------------------
(***************************************************************************)
(* js_Interpret running what CodeGenerator emits, one instruction a step.  *)
(*                                                                         *)
(* The program is a statement tree; the values its variables have and      *)
(* whether a call throws are answers, chosen as they are asked for and     *)
(* kept in tape (at most Answers of them, then 0), so that Structured can  *)
(* be asked what the same program does with the same answers.  What is     *)
(* observed (trace) is every read, write, deletion and call, with the      *)
(* values they are given and the scope chain in force.                     *)
(*                                                                         *)
(* An operand is a kind and a value.  Where an instruction finds an    *)
(* operand of the wrong kind (the JS_ASSERTs, and casts with no check), or *)
(* would push past the slots js_AllocStack gave the frame, the C code is   *)
(* undefined and the model has no step: Fits and Room say when.            *)
(***************************************************************************)
EXTENDS CodeGenerator, Structured

CONSTANTS Programs,     \* the statement trees
          Answers       \* bound: answers not fixed to 0 in one run

VARIABLES prog,         \* the program
          script,       \* what js_NewScriptFromCG made of it
          pc, ops, sp,  \* ops: the frame's operand slots ever written; sp of them in use
          obj,          \* the register of that name
          scopeChain, exception,
          tape, trace, status

vars == <<prog, script, pc, ops, sp, obj, scopeChain, exception, tape, trace, status>>
seen == <<tape, trace>>
running == <<prog, script, status>>

Junk == <<"junk", 0>>
Null == Void

Start(p) ==
  /\ prog = p
  /\ script = Compile(prog) /\ script.ok
  /\ pc = 0 /\ ops = <<>> /\ sp = 0 /\ obj = Null
  /\ scopeChain = <<>> /\ exception = Void
  /\ tape = <<>> /\ trace = <<>> /\ status = "running"

Init == \E p \in Programs : Start(p)

I == script.code[pc + 1]

Running == status = "running" /\ pc < Len(script.code)

(* The operands instruction i finds are the ones it takes for granted. *)
Fits(i) ==
  /\ sp >= Uses(i)
  /\ CASE i.op = "LEAVEWITH" -> Kind(ops[sp]) = "with"
       [] i.op = "RETSUB" -> Kind(ops[sp]) = "pc"
       [] i.op = "FORNAME2" -> sp >= 2 /\ Kind(ops[sp]) = "obj" /\ Kind(ops[sp - 1]) \in {"void", "iter"}
       [] i.op \in {"IFEQ", "IFNE", "OR", "AND", "TABLESWITCH", "LOOKUPSWITCH"} -> Kind(ops[sp]) = "int"
       [] i.op = "INITPROP" -> sp >= 2 /\ Kind(ops[sp - 1]) = "obj"
       [] i.op = "INITELEM" -> sp >= 3 /\ Kind(ops[sp - 2]) = "obj"
       [] i.op = "SETNAME2" -> Kind(ops[sp - 1]) = "obj"
       [] i.op = "CASE" -> sp >= 2
       [] i.op \in {"ENTERWITH", "TOOBJECT"} -> Kind(ops[sp]) = "obj"
       [] OTHER -> TRUE

(* js_AllocStack gave the frame as many slots as the script's depth. *)
Room(i) == sp - Uses(i) + Defs(i) <= script.depth

Do(S) == Running /\ I.op \in S /\ Fits(I) /\ Room(I)
Advance(n) == pc' = pc + n
Operand(n) == ops[sp - n]       \* counted from the top: sp[-1] is Operand(0)

(* Pop n operands and push those of vs. *)
Replace(n, vs) ==
  LET low == sp - n
      high == low + Len(vs)
  IN /\ sp' = high
     /\ ops' = [k \in 1..(IF high > Len(ops) THEN high ELSE Len(ops)) |->
                  IF k \in low + 1 .. high THEN vs[k - low]
                  ELSE IF k <= Len(ops) THEN ops[k] ELSE Junk]

Ask(b) ==
  /\ b \in IF Len(tape) < Answers THEN {0, 1} ELSE {0}
  /\ tape' = IF Len(tape) < Answers THEN Append(tape, b) ELSE tape

See(events) == trace' = trace \o [k \in DOMAIN events |-> <<events[k], scopeChain>>]

-----------------------------------------------------------------------------
Nop == /\ Do({"NOP", "CONDSWITCH", "ENDINIT"})
       /\ Advance(1)
       /\ UNCHANGED <<ops, sp, obj, scopeChain, exception, seen, running>>

(* js_FindProperty; the object the name is found in becomes obj. *)
Name ==
  /\ Do({"NAME"}) /\ Advance(1)
  /\ obj' = Holder(scopeChain, I.arg)
  /\ \/ I.arg > 0 /\ \E b \in {0, 1} : Ask(b) /\ Replace(0, <<Num(b)>>) /\ See(<<<<"name", I.arg>>>>)
     \/ /\ I.arg < 0
        /\ Replace(0, <<Obj(<<"obj", - I.arg>>)>>) /\ See(<<<<"name", - I.arg>>>>) /\ UNCHANGED tape
     \/ I.arg = 0 /\ Replace(0, <<Obj(<<"constructor">>)>>) /\ UNCHANGED seen
  /\ UNCHANGED <<scopeChain, exception, running>>

Push ==
  /\ Do({"PUSH", "PUSHOBJ", "NUMBER", "EXCEPTION"}) /\ Advance(1)
  /\ Replace(0, << CASE I.op = "PUSH" -> Void
                     [] I.op = "PUSHOBJ" -> obj
                     [] I.op = "NUMBER" -> Num(I.arg)
                     [] I.op = "EXCEPTION" -> exception >>)
  /\ UNCHANGED <<obj, scopeChain, exception, seen, running>>

Pop == /\ Do({"POP", "POPV", "POP2"}) /\ Advance(1)
       /\ Replace(Uses(I), <<>>)
       /\ UNCHANGED <<obj, scopeChain, exception, seen, running>>

Dup == /\ Do({"DUP", "DUP2"}) /\ Advance(1)
       /\ Replace(0, SubSeq(ops, sp - Uses(I) + 1, sp))
       /\ UNCHANGED <<obj, scopeChain, exception, seen, running>>

Goto == /\ Do({"GOTO", "DEFAULT"}) /\ Advance(I.arg)
        /\ Replace(Uses(I), <<>>)
        /\ UNCHANGED <<obj, scopeChain, exception, seen, running>>

Branch ==
  /\ Do({"IFEQ", "IFNE"})
  /\ Advance(IF (Val(Operand(0)) = 0) = (I.op = "IFEQ") THEN I.arg ELSE 1)
  /\ Replace(1, <<>>)
  /\ UNCHANGED <<obj, scopeChain, exception, seen, running>>

(* The operand stays when the jump is taken. *)
OrAnd ==
  /\ Do({"OR", "AND"})
  /\ IF (Val(Operand(0)) = 1) = (I.op = "OR")
     THEN Advance(I.arg) /\ UNCHANGED <<ops, sp>>
     ELSE Advance(1) /\ Replace(1, <<>>)
  /\ UNCHANGED <<obj, scopeChain, exception, seen, running>>

TableSwitch ==
  /\ Do({"TABLESWITCH", "LOOKUPSWITCH"})
  /\ LET v == Val(Operand(0))
     IN Advance(IF v \in DOMAIN I.tab /\ I.tab[v] # 0 THEN I.tab[v] ELSE I.arg)
  /\ Replace(1, <<>>)
  /\ UNCHANGED <<obj, scopeChain, exception, seen, running>>

Case ==
  /\ Do({"CASE"})
  /\ IF Operand(0) = Operand(1)
     THEN Advance(I.arg) /\ Replace(2, <<>>)
     ELSE Advance(1) /\ Replace(1, <<>>)
  /\ UNCHANGED <<obj, scopeChain, exception, seen, running>>

-----------------------------------------------------------------------------
(* Values: getting, setting, stepping and deleting what an lvalue denotes. *)

(* The place the instruction is about: an object and what names the        *)
(* property; below operands lie above the ones that say so.                *)
Place(below) ==
  CASE I.op \in {"INCNAME", "NAMEINC", "DELNAME"} -> [on |-> Holder(scopeChain, I.arg), id |-> Num(I.arg)]
    [] I.op \in {"GETVAR", "SETVAR", "INCVAR", "VARINC"} -> [on |-> Null, id |-> Num(I.arg)]
    [] I.op \in {"GETELEM", "SETELEM", "INCELEM", "ELEMINC", "DELELEM"} ->
         [on |-> Operand(below + 1), id |-> Operand(below)]
    [] OTHER -> [on |-> Operand(below), id |-> Num(I.arg)]

GetEvent(p) == <<"get", p.on, p.id>>
SetEvent(p, v) == <<"set", p.on, p.id, v>>

Get ==
  /\ Do({"GETVAR", "GETPROP", "GETELEM"}) /\ Advance(1)
  /\ LET p == Place(0)
     IN Replace(Uses(I), <<Property(p.on, p.id)>>) /\ See(<<GetEvent(p)>>) /\ obj' = p.on
  /\ UNCHANGED <<scopeChain, exception, tape, running>>

BindName ==
  /\ Do({"BINDNAME"}) /\ Advance(1)
  /\ Replace(0, <<Holder(scopeChain, I.arg)>>) /\ obj' = Holder(scopeChain, I.arg)
  /\ UNCHANGED <<scopeChain, exception, seen, running>>

Set ==
  /\ Do({"SETVAR", "SETNAME2", "SETPROP", "SETELEM"}) /\ Advance(1)
  /\ LET p == Place(1)
         v == Operand(0)
     IN Replace(Uses(I), <<v>>) /\ See(<<SetEvent(p, v)>>) /\ obj' = p.on
  /\ UNCHANGED <<scopeChain, exception, tape, running>>

(* INCVAR alone leaves obj as it is. *)
Inc ==
  /\ Do({"INCNAME", "INCVAR", "INCPROP", "INCELEM", "NAMEINC", "VARINC", "PROPINC", "ELEMINC"})
  /\ Advance(1)
  /\ LET p == Place(0)
         old == Property(p.on, p.id)
         new == Obj(<<"inc", old>>)
     IN /\ See(<<GetEvent(p), SetEvent(p, new)>>)
        /\ Replace(Uses(I), <<IF I.op \in {"NAMEINC", "VARINC", "PROPINC", "ELEMINC"} THEN old ELSE new>>)
        /\ obj' = IF I.op \in {"INCVAR", "VARINC"} THEN obj ELSE p.on
  /\ UNCHANGED <<scopeChain, exception, tape, running>>

Delete ==
  /\ Do({"DELNAME", "DELPROP", "DELELEM"}) /\ Advance(1)
  /\ LET p == Place(0)
     IN Replace(Uses(I), <<Num(1)>>) /\ See(<<<<"delete", p.on, p.id>>>>) /\ obj' = p.on
  /\ UNCHANGED <<scopeChain, exception, tape, running>>

Operator ==
  /\ Do({"BINARY", "UNARY"}) /\ Advance(1)
  /\ Replace(Uses(I), << IF I.op = "UNARY" THEN Obj(<<"un", Operand(0)>>)
                         ELSE Obj(<<"op", Operand(1), Operand(0)>>) >>)
  /\ UNCHANGED <<obj, scopeChain, exception, seen, running>>

NewInit ==
  /\ Do({"NEWINIT"}) /\ Advance(1)
  /\ Replace(2, <<Fresh(<<>>)>>) /\ obj' = Fresh(<<>>)
  /\ UNCHANGED <<scopeChain, exception, seen, running>>

(* INITELEM finds the name of the member on the stack. *)
InitMember ==
  /\ Do({"INITPROP", "INITELEM"}) /\ Advance(1)
  /\ LET n == Uses(I)
         id == IF I.op = "INITPROP" THEN Num(I.arg) ELSE Operand(1)
         made == Fresh(Append(Val(Operand(n))[2], <<id, Operand(0)>>))
     IN Replace(n + 1, <<made>>) /\ obj' = made
  /\ UNCHANGED <<scopeChain, exception, seen, running>>

-----------------------------------------------------------------------------
(* Scopes, for/in and exceptions. *)

(* The with object knows its parent: the scope chain it was pushed on. *)
EnterWith ==
  /\ Do({"ENTERWITH"}) /\ Advance(1)
  /\ Replace(1, <<<<"with", scopeChain>>>>) /\ obj' = Operand(0)
  /\ scopeChain' = Append(scopeChain, Operand(0))
  /\ UNCHANGED <<exception, seen, running>>

LeaveWith ==
  /\ Do({"LEAVEWITH"}) /\ Advance(1)
  /\ scopeChain' = Val(Operand(0))
  /\ Replace(1, <<>>)
  /\ UNCHANGED <<obj, exception, seen, running>>

ToObject ==
  /\ Do({"TOOBJECT"}) /\ Advance(1)
  /\ obj' = Operand(0)
  /\ UNCHANGED <<ops, sp, scopeChain, exception, seen, running>>

(* The iterator, below the object, is made on the first turn. *)
ForName2 ==
  /\ Do({"FORNAME2"}) /\ Advance(1)
  /\ LET left == IF Kind(Operand(1)) = "void" THEN NProps ELSE Val(Operand(1))
     IN IF left = 0
        THEN Replace(0, <<Num(0)>>) /\ obj' = Null /\ UNCHANGED trace
        ELSE /\ Replace(2, <<<<"iter", left - 1>>, Operand(0), Num(1)>>)
             /\ obj' = Holder(scopeChain, I.arg) /\ See(<<<<"for">>>>)
  /\ UNCHANGED <<scopeChain, exception, tape, running>>

SetSp ==
  /\ Do({"SETSP"}) /\ Advance(1)
  /\ sp' = I.arg
  /\ ops' = [k \in 1..(IF I.arg > Len(ops) THEN I.arg ELSE Len(ops)) |->
               IF k <= Len(ops) THEN ops[k] ELSE Junk]
  /\ UNCHANGED <<obj, scopeChain, exception, seen, running>>

Gosub ==
  /\ Do({"GOSUB"}) /\ Advance(I.arg)
  /\ Replace(0, <<<<"pc", pc + 1>>>>)
  /\ UNCHANGED <<obj, scopeChain, exception, seen, running>>

Retsub ==
  /\ Do({"RETSUB"})
  /\ pc' = Val(Operand(0))
  /\ Replace(1, <<>>)
  /\ UNCHANGED <<obj, scopeChain, exception, seen, running>>

(* The first try note that covers the pc; a search that finds none ends at *)
(* the terminating note, which covers the whole script and catches nothing.*)
Handlers == {n \in DOMAIN script.notes :
               /\ script.notes[n].start <= pc
               /\ pc < script.notes[n].start + script.notes[n].length}

Catch(v) ==
  /\ exception' = v
  /\ IF Handlers = {}
     THEN status' = "threw" /\ UNCHANGED pc
     ELSE pc' = script.notes[Lowest(Handlers)].catchStart /\ UNCHANGED status
  /\ UNCHANGED <<scopeChain, prog, script>>

Throw == /\ Do({"THROW"})
         /\ Catch(Operand(0))
         /\ Replace(1, <<>>)
         /\ UNCHANGED <<obj, seen>>

(* js_Invoke: the callee returns a value, or throws: then its operands are *)
(* left on the stack.  NEW puts the object it makes over the this operand. *)
Call ==
  /\ Do({"CALL", "NEW"})
  /\ LET argc == I.arg
         f == Operand(argc + 1)
         args == SubSeq(ops, sp - argc + 1, sp)
     IN /\ See(<< IF I.op = "NEW" THEN <<"new", f, args>> ELSE <<"call", f, Operand(argc), args>> >>)
        /\ \E b \in {0, 1} :
             /\ Ask(b)
             /\ IF b = 1
                THEN Catch(Obj(<<"thrown">>)) /\ UNCHANGED <<ops, sp, obj>>
                ELSE /\ Advance(1) /\ Replace(argc + 2, <<Obj(<<"result", f>>)>>)
                     /\ obj' = IF I.op = "NEW" THEN Obj(<<"result", f>>) ELSE Null
                     /\ UNCHANGED <<scopeChain, exception, running>>

Return == /\ Do({"RETURN"})
          /\ status' = "return"
          /\ Replace(1, <<>>)
          /\ UNCHANGED <<pc, obj, scopeChain, exception, seen, prog, script>>

End == /\ status = "running" /\ pc = Len(script.code)
       /\ status' = "normal"
       /\ UNCHANGED <<pc, ops, sp, obj, scopeChain, exception, seen, prog, script>>

Next == \/ Nop \/ Name \/ Push \/ Pop \/ Dup \/ Goto \/ Branch \/ OrAnd \/ TableSwitch \/ Case
        \/ Get \/ BindName \/ Set \/ Inc \/ Delete \/ Operator \/ NewInit \/ InitMember
        \/ EnterWith \/ LeaveWith \/ ToObject \/ ForName2 \/ SetSp \/ Gosub \/ Retsub
        \/ Throw \/ Call \/ Return \/ End

Spec == Init /\ [][Next]_vars

-----------------------------------------------------------------------------
Meaning == Exec(prog, [tape |-> tape, chain |-> <<>>, trace |-> <<>>], {})

(* A program that ends leaves nothing on the operand stack and the scope   *)
(* chain as it found it.                                                   *)
StackBalanced == status = "normal" => sp = 0 /\ scopeChain = <<>>

(* The compiled program does what the statements it was compiled from      *)
(* mean: when it is done, it has done the reads, writes, deletions and     *)
(* calls of Structured, in that order and with those values, and has ended *)
(* the same way, leaving nothing behind.                                   *)
RunsAsWritten ==
  /\ status # "running" => /\ trace = Meaning.s.trace
                           /\ status = (IF Meaning.t = "throw" THEN "threw" ELSE Meaning.t)
  /\ StackBalanced

(* Every instruction finds the operands it takes for granted; in           *)
(* particular RETSUB finds the return address of its GOSUB, LEAVEWITH the  *)
(* with object of its block and a for/in its iterator.                     *)
OperandsFit == Running => Fits(I)

(* The stack never grows past the depth js_NewScriptFromCG computed.       *)
WithinDepth == sp <= script.depth /\ (Running /\ Fits(I) => Room(I))
=============================================================================
