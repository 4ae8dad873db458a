------------------------------- MODULE Scripts -------------------------------
(***************************************************************************)
(* Scripts: the notes that lead from bytecodes to lines and back           *)
(* (jsemit.c, jsscript.c), and scripts frozen to text and thawed           *)
(* (jsxdrapi.c and the XDR of scripts, objects, functions and regular      *)
(* expressions).  Text is a sequence of codes.  What XDR writes is a       *)
(* sequence of words of four bytes; a word is a number, or the first of    *)
(* those with bytes, which has them all.                                   *)
(***************************************************************************)
EXTENDS Integers, Sequences, SequencesExt, FiniteSetsExt

CONSTANT MEM_BLOCK      \* in words

-----------------------------------------------------------------------------
(* Source notes are bytes: type and distance, then the operands.           *)
SRC_IF == 1
SRC_FOR == 4
SRC_LABEL == 13
SRC_NEWLINE == 22
SRC_SETLINE == 23
SRC_XDELTA == 24
Arity(type) == IF type = SRC_FOR THEN 3 ELSE IF type \in {SRC_LABEL, SRC_SETLINE} THEN 1 ELSE 0
Terminator == 0
DeltaLimit == 8
XDeltaMask == 63
Wide == 128             \* SN_3BYTE_OFFSET_FLAG

RECURSIVE NoteBytes(_, _)
NoteBytes(type, delta) ==
  IF delta < DeltaLimit THEN <<(DeltaLimit * type) + delta>>
  ELSE LET xdelta == Min({delta, XDeltaMask}) IN <<(DeltaLimit * SRC_XDELTA) + xdelta>> \o NoteBytes(type, delta - xdelta)

NewSrcNote(cg, type) ==
  [cg EXCEPT !.notes = @ \o NoteBytes(type, cg.offset - cg.last) \o [i \in 1 .. Arity(type) |-> 0], !.last = cg.offset]

(* Bytes beyond the last count as terminators.                             *)
Byte(notes, at) == IF at \in DOMAIN notes THEN notes[at] ELSE Terminator
OperandSize(notes, at) == IF Byte(notes, at) >= Wide THEN 3 ELSE 1
RECURSIVE OperandAt(_, _, _)
OperandAt(notes, note, which) ==
  IF which = 0 THEN note + 1 ELSE LET before == OperandAt(notes, note, which - 1) IN before + OperandSize(notes, before)

GetSrcNoteOffset(notes, note, which) ==
  LET at == OperandAt(notes, note, which)
  IN IF Byte(notes, at) >= Wide THEN (65536 * (Byte(notes, at) - Wide)) + (256 * Byte(notes, at + 1)) + Byte(notes, at + 2)
     ELSE Byte(notes, at)
SetSrcNoteOffset(notes, note, which, offset) ==
  LET at == OperandAt(notes, note, which)
      new == IF offset >= Wide THEN <<Wide + (offset \div 65536), (offset \div 256) % 256, offset % 256>> ELSE <<offset>>
      old == IF offset >= Wide THEN OperandSize(notes, at) ELSE 1
  IN SubSeq(notes, 1, at - 1) \o new \o SubSeq(notes, at + old, Len(notes))
NewSrcNote2(cg, type, offset) ==
  LET new == NewSrcNote(cg, type) IN [new EXCEPT !.notes = SetSrcNoteOffset(@, Len(@) - 1, 0, offset)]

RECURSIVE NewLines(_, _)
NewLines(cg, n) == IF n = 0 THEN cg ELSE NewLines(NewSrcNote(cg, SRC_NEWLINE), n - 1)
UpdateLinenoNotes(cg, line) ==
  LET delta == line - cg.line       \* unsigned: a line above is far below
      new == [cg EXCEPT !.line = line]
  IN IF delta < 0 \/ delta >= (IF line >= Wide THEN 4 ELSE 2) THEN NewSrcNote2(new, SRC_SETLINE, line)
     ELSE NewLines(new, delta)
InitCodeGenerator(line) == [notes |-> <<>>, offset |-> 0, last |-> 0, line |-> line]
FinishTakingSrcNotes(cg) == Append(cg.notes, Terminator)

-----------------------------------------------------------------------------
(* The notes of an array as their readers come by them.                    *)
NoteType(byte) == Min({byte \div DeltaLimit, SRC_XDELTA})
SrcNoteLength(notes, note) ==
  LET arity == Arity(NoteType(notes[note])) IN IF arity = 0 THEN 1 ELSE OperandAt(notes, note, arity) - note
RECURSIVE NotesFrom(_, _, _)
NotesFrom(notes, at, before) ==
  LET byte == Byte(notes, at)
      type == NoteType(byte)
      offset == before + (IF type = SRC_XDELTA THEN byte % (XDeltaMask + 1) ELSE byte % DeltaLimit)
  IN IF byte = Terminator THEN <<>>
     ELSE <<[at |-> at, type |-> type, offset |-> offset]>> \o NotesFrom(notes, at + SrcNoteLength(notes, at), offset)
Notes(script) == NotesFrom(script.notes, 1, 0)

NoNote == 0
GetSrcNote(script, pc) ==
  LET found == SelectSeq(Notes(script), LAMBDA sn : sn.offset = pc /\ sn.type < SRC_NEWLINE)
  IN IF pc >= script.length \/ found = <<>> THEN NoNote ELSE found[1].at

LineAfter(script, notes) ==
  FoldLeft(LAMBDA line, sn : IF sn.type = SRC_SETLINE THEN GetSrcNoteOffset(script.notes, sn.at, 0)
                             ELSE IF sn.type = SRC_NEWLINE THEN line + 1 ELSE line,
           script.lineno, notes)
PCToLineNumber(script, pc) == LineAfter(script, SelectSeq(Notes(script), LAMBDA sn : sn.offset <= pc))
LineNumberToPC(script, target) ==
  LET notes == Notes(script)
      read == Min({k \in 0 .. Len(notes) : k = Len(notes) \/ LineAfter(script, SubSeq(notes, 1, k)) >= target})
  IN IF read = 0 THEN 0 ELSE notes[read].offset
GetScriptLineExtent(script) == 1 + LineAfter(script, Notes(script)) - script.lineno

-----------------------------------------------------------------------------
(* Writing: what has been written, the limit of the memory, the classes    *)
(* numbered so far.                                                        *)
XDRNewMem == [words |-> <<>>, limit |-> MEM_BLOCK, overrun |-> FALSE, classes |-> <<>>, ok |-> TRUE]
Put(xdr, words) ==      \* the memory grows by one block, however much is needed
  LET count == Len(xdr.words) + Len(words)
      limit == IF count > xdr.limit THEN xdr.limit + MEM_BLOCK ELSE xdr.limit
  IN [xdr EXCEPT !.words = @ \o words, !.limit = limit, !.overrun = @ \/ count > limit]
Word(n) == [n |-> n, bytes |-> <<>>]
Packed(text, each) == [i \in 1 .. (Len(text) + each - 1) \div each |-> [n |-> 0, bytes |-> IF i = 1 THEN text ELSE <<>>]]
Null == <<-1>>
UpToNul(text) == LET nuls == {i \in DOMAIN text : text[i] = 0} IN SubSeq(text, 1, IF nuls = {} THEN Len(text) ELSE Min(nuls) - 1)

PutUint32(xdr, n) == Put(xdr, <<Word(n)>>)
PutBytes(xdr, bytes) == Put(xdr, Packed(bytes, 4))
PutCString(xdr, text) == PutBytes(PutUint32(xdr, Len(UpToNul(text))), UpToNul(text))
PutCStringOrNull(xdr, text) == IF text = Null THEN PutUint32(xdr, 1) ELSE PutCString(PutUint32(xdr, 0), text)
PutString(xdr, text) == Put(PutUint32(xdr, Len(text)), Packed(text, 2))
PutStringOrNull(xdr, text) == IF text = Null THEN PutUint32(xdr, 1) ELSE PutString(PutUint32(xdr, 0), text)

(* Reading: how far, what has been read and not yet been put together,     *)
(* what a variable holds to which nothing has been assigned, how often an  *)
(* object was left locked.  A reader that has failed reads no more.        *)
XDRMemSetData(words, junk) ==
  [words |-> words, at |-> 0, ok |-> TRUE, crashed |-> FALSE, magic |-> FALSE, got |-> <<>>, junk |-> junk, classes |-> <<>>, locked |-> 0]
Failed(xdr) == [xdr EXCEPT !.ok = FALSE]
Push(xdr, value) == [xdr EXCEPT !.got = Append(@, value)]
Pop(xdr) == [xdr EXCEPT !.got = Front(@)]
Top(xdr) == Last(xdr.got)
Join(xdr, n, Make(_)) ==        \* one thing of the last n
  IF xdr.ok THEN [xdr EXCEPT !.got = Append(SubSeq(@, 1, Len(@) - n), Make(SubSeq(@, Len(@) - n + 1, Len(@))))] ELSE xdr

GetUint32(xdr) ==
  IF ~ xdr.ok \/ xdr.at + 1 > Len(xdr.words) THEN Failed(xdr) ELSE Push([xdr EXCEPT !.at = @ + 1], xdr.words[xdr.at + 1].n)
GetPacked(xdr, each) ==         \* as many as was read last
  IF ~ xdr.ok THEN xdr
  ELSE LET words == (Top(xdr) + each - 1) \div each
       IN IF xdr.at + words > Len(xdr.words) THEN Failed(xdr)
          ELSE Push(Pop([xdr EXCEPT !.at = @ + words]), IF words = 0 THEN <<>> ELSE xdr.words[xdr.at + 1].bytes)
GetBytes(xdr) == GetPacked(xdr, 4)
GetCString(xdr) ==              \* whether there was a length is not asked
  IF xdr.ok /\ xdr.at = Len(xdr.words) THEN GetBytes(Push(xdr, xdr.junk)) ELSE GetBytes(GetUint32(xdr))
GetString(xdr) == GetPacked(GetUint32(xdr), 2)
OrNull(xdr, Get(_)) == IF ~ xdr.ok THEN xdr ELSE IF Top(xdr) # 0 THEN Push(Pop(xdr), Null) ELSE Get(Pop(xdr))
GetCStringOrNull(xdr) == OrNull(GetUint32(xdr), GetCString)
GetStringOrNull(xdr) == OrNull(GetUint32(xdr), GetString)

-----------------------------------------------------------------------------
(* Values are [type, is]; objects are [class, ...].                        *)
Tag(value) ==
  CASE value.type = "object" -> 0
    [] value.type = "double" -> 2
    [] value.type = "string" -> 4
    [] value.type = "boolean" -> 6
    [] value.type = "int" -> ((2 * value.holds) + 1) % 8       \* with two bits of the number
Function == <<70>>
RegExp == <<82>>
Object == <<79>>        \* has no xdrObject
SCRIPT_XDRMAGIC == -559087615
FUNARG == 1
FUNVAR == 2
OtherProp == 0

ClassId(classes, class) == Max({0} \cup {i \in DOMAIN classes : classes[i] = class})

RECURSIVE PutScript(_, _)
PutRegExp(xdr, re) == PutUint32(PutString(xdr, re.source), re.flags)
PutFunction(xdr, fun) ==
  LET numbers == FoldLeft(PutUint32, PutStringOrNull(xdr, fun.name), <<fun.nargs, fun.extra, fun.nvars, fun.flags>>)
      PutProp(x, sprop) == PutCString(PutUint32(PutUint32(x, sprop.kind), sprop.id), sprop.name)
  IN PutScript(FoldLeft(PutProp, numbers, SelectSeq(fun.props, LAMBDA sprop : sprop.kind # OtherProp)), fun.script)
PutObject(xdr, obj) ==
  LET known == ClassId(xdr.classes, obj.class)
      numbered == IF known = 0 THEN [xdr EXCEPT !.classes = Append(@, obj.class)] ELSE xdr
      named == IF known = 0 THEN PutCString(PutUint32(numbered, 1), obj.class) ELSE PutUint32(numbered, 0)
      x == PutUint32(named, ClassId(numbered.classes, obj.class))
  IN IF obj.class = Function THEN PutFunction(x, obj) ELSE IF obj.class = RegExp THEN PutRegExp(x, obj) ELSE Failed(x)
PutValue(xdr, value) ==
  LET x == PutUint32(xdr, Tag(value))
  IN CASE value.type = "string" -> PutString(x, value.holds)
       [] value.type = "double" -> PutUint32(PutUint32(x, value.holds[1]), value.holds[2])
       [] value.type = "object" -> PutObject(x, value.holds)
       [] OTHER -> PutUint32(x, value.holds)

PutAtomMap(xdr, atoms) ==
  FoldLeft(LAMBDA x, i : PutValue(PutUint32(x, i - 1), atoms[i]), PutUint32(xdr, Len(atoms)), [i \in DOMAIN atoms |-> i])
PutScript(xdr, script) ==       \* trynotes and principals are not written
  LET code == PutBytes(PutUint32(PutUint32(xdr, SCRIPT_XDRMAGIC), script.length), script.code)
      texts == PutCStringOrNull(PutCStringOrNull(PutAtomMap(code, script.atoms), script.notes), script.filename)
  IN PutUint32(PutUint32(texts, script.lineno), script.depth)

RECURSIVE GetScript(_), GetProps(_, _)
Prop(got) == [kind |-> got[1], id |-> got[2], name |-> got[3]]
GetProps(xdr, n) ==             \* each is defined and never dropped
  IF n = 0 THEN xdr ELSE GetProps(Join([GetCString(GetUint32(GetUint32(xdr))) EXCEPT !.locked = @ + 1], 3, Prop), n - 1)
Locals(xdr) ==                  \* nargs, extra, nvars and flags were read last
  LET n == IF xdr.ok THEN xdr.got[Len(xdr.got) - 3] + xdr.got[Len(xdr.got) - 1] ELSE 0
  IN Join(GetProps(xdr, n), n, LAMBDA props : props)
FunctionOfParts(got) ==
  [class |-> Function, name |-> got[1], nargs |-> got[2], extra |-> got[3], nvars |-> got[4], flags |-> got[5], props |-> got[6], script |-> got[7]]
Named(xdr) ==                   \* the atom of a name is taken apart, also where there is none
  IF ~ xdr.ok \/ ~ xdr.magic THEN Failed(xdr)
  ELSE IF xdr.got[Len(xdr.got) - 6] = Null THEN [Failed(xdr) EXCEPT !.crashed = TRUE]
  ELSE Join([xdr EXCEPT !.locked = @ + 1], 7, FunctionOfParts)
GetFunction(xdr) ==
  Named(GetScript(Locals(GetUint32(GetUint32(GetUint32(GetUint32(GetStringOrNull(xdr))))))))

RegExpOfParts(got) == [class |-> RegExp, source |-> got[1], flags |-> got[2]]
GetRegExp(xdr) == Join(GetUint32(GetString(xdr)), 2, RegExpOfParts)
OfClass(xdr, class) == IF class = Function THEN GetFunction(xdr) ELSE IF class = RegExp THEN GetRegExp(xdr) ELSE Failed(xdr)
OfNewClass(xdr) ==              \* the name and the writer's number were read last
  IF xdr.ok THEN OfClass([Pop(Pop(xdr)) EXCEPT !.classes = Append(@, Top(Pop(xdr)))], Top(Pop(xdr))) ELSE xdr
OfOldClass(xdr) ==
  IF ~ xdr.ok \/ Top(xdr) > Len(xdr.classes) THEN Failed(xdr) ELSE OfClass(Pop(xdr), xdr.classes[Top(xdr)])
Object1(xdr) ==
  IF ~ xdr.ok THEN xdr ELSE IF Top(xdr) # 0 THEN OfNewClass(GetUint32(GetCString(Pop(xdr)))) ELSE OfOldClass(GetUint32(Pop(xdr)))
GetObject(xdr) == Object1(GetUint32(xdr))

Typed(xdr, type) == Join(xdr, 1, LAMBDA got : [type |-> type, holds |-> got[1]])
GetDouble(xdr) == Join(GetUint32(GetUint32(xdr)), 2, LAMBDA got : got)
OfTag(xdr, tag) ==
  CASE tag = 0 -> Typed(GetObject(xdr), "object")
    [] tag = 2 -> Typed(GetDouble(xdr), "double")
    [] tag = 4 -> Typed(GetString(xdr), "string")
    [] tag = 6 -> Typed(GetUint32(xdr), "boolean")
    [] tag % 2 = 1 -> Typed(GetUint32(xdr), "int")
    [] OTHER -> Failed(xdr)
Value1(xdr) == IF xdr.ok THEN OfTag(Pop(xdr), Top(xdr)) ELSE xdr
GetValue(xdr) == Value1(GetUint32(xdr))

RECURSIVE GetAtoms(_, _)
GetAtoms(xdr, n) ==
  IF n = 0 THEN xdr ELSE GetAtoms(Join(GetValue(GetUint32(xdr)), 2, LAMBDA got : [index |-> got[1], atom |-> got[2]]), n - 1)
InitAtomMap(list) == [i \in DOMAIN list |-> list[CHOOSE k \in DOMAIN list : list[k].index = i - 1].atom]
Atoms1(xdr) == IF xdr.ok THEN Join(GetAtoms(Pop(xdr), Top(xdr)), Top(xdr), InitAtomMap) ELSE xdr
GetAtomMap(xdr) == Atoms1(GetUint32(xdr))

ScriptOfParts(got) ==
  [code |-> got[1], length |-> Len(got[1]), atoms |-> got[2], notes |-> Append(got[3], Terminator),
   filename |-> got[4], lineno |-> got[5], depth |-> got[6], trynotes |-> {}]
AfterMagic(xdr) ==
  IF ~ xdr.ok \/ Top(xdr) # SCRIPT_XDRMAGIC THEN [xdr EXCEPT !.magic = FALSE]
  ELSE Join([GetUint32(GetUint32(GetCStringOrNull(GetCStringOrNull(GetAtomMap(GetBytes(GetUint32(Pop(xdr)))))))) EXCEPT !.magic = TRUE],
            6, ScriptOfParts)
GetScript(xdr) == AfterMagic(GetUint32(xdr))

NoScript == <<"none">>
Freeze(script) == PutScript(XDRNewMem, script)
Thawed(xdr, old) ==             \* whatever was thawed, the call gives true
  [ok |-> xdr.ok, crashed |-> xdr.crashed, rval |-> TRUE, classes |-> xdr.classes,
   script |-> IF xdr.ok /\ xdr.magic THEN Top(xdr) ELSE old]
Thaw(words, old, junk) ==
  Thawed(GetScript(XDRMemSetData(words, junk)), old)

-----------------------------------------------------------------------------
(* Programs are statements, each [line, note, operands, size]; the last    *)
(* operand of a loop's note is patched when the loops around are closed.   *)
Close(cg, loops) ==
  FoldRight(LAMBDA loop, c : [c EXCEPT !.notes = SetSrcNoteOffset(@, loop.note, 2, c.offset - loop.top)], loops, cg)
SetOperands(cg, note, operands) ==
  [cg EXCEPT !.notes = FoldLeft(LAMBDA notes, i : SetSrcNoteOffset(notes, note, i - 1, operands[i]), @, [i \in DOMAIN operands |-> i])]
Annotate(cg, statement) ==
  IF statement.note = NoNote THEN cg
  ELSE SetOperands(NewSrcNote(cg, statement.note), Len(NewSrcNote(cg, statement.note).notes) - Arity(statement.note), statement.operands)
EmitStatement(cg, statement) == [Annotate(UpdateLinenoNotes(cg, statement.line), statement) EXCEPT !.offset = @ + statement.size]
EmitAll(program) == FoldLeft(EmitStatement, InitCodeGenerator(1), program)
LoopAfter(cg, statement) == [note |-> Len(NewSrcNote(UpdateLinenoNotes(cg, statement.line), SRC_FOR).notes) - 3, top |-> cg.offset]
LoopsOf(program) ==
  LET loops == SelectSeq([i \in DOMAIN program |-> i], LAMBDA i : program[i].note = SRC_FOR)
  IN [k \in DOMAIN loops |-> LoopAfter(EmitAll(SubSeq(program, 1, loops[k] - 1)), program[loops[k]])]
Emitted(program) == Close(EmitAll(program), LoopsOf(program))
StartOf(program, i) == FoldLeft(LAMBDA n, s : n + s.size, 0, SubSeq(program, 1, i - 1))

Statement(line, note, operands, size) == [line |-> line, note |-> note, operands |-> operands, size |-> size]
Kinds == {Statement(0, NoNote, <<>>, 1), Statement(0, SRC_IF, <<>>, 9), Statement(0, SRC_LABEL, <<0>>, 75),
          Statement(0, SRC_LABEL, <<300>>, 3), Statement(0, SRC_FOR, <<0, 200, 0>>, 100)}
Lines == {1, 2, 3, 127, 130}
Programs(first) == {<<[first EXCEPT !.line = l1], [s2 EXCEPT !.line = l2], [s3 EXCEPT !.line = l3]>> :
                      l1 \in {1, 2}, s2 \in Kinds, l2 \in Lines, s3 \in Kinds, l3 \in Lines}
ScriptFrom(cg) ==
  [code |-> [i \in 1 .. cg.offset |-> 1], length |-> cg.offset, atoms |-> <<>>, notes |-> FinishTakingSrcNotes(cg), filename |-> Null,
   lineno |-> 1, depth |-> 2, trynotes |-> {}]
Compiled(program) == ScriptFrom(Emitted(program))

(* Every bytecode has the line of its statement and the statement's note   *)
(* with its operands, and lines that rise lead back to their bytecodes.    *)
NoteRight(script, statement, top, note) ==
  /\ note = NoNote <=> statement.note = NoNote
  /\ \A k \in DOMAIN statement.operands :
       GetSrcNoteOffset(script.notes, note, k - 1) = IF statement.note = SRC_FOR /\ k = 3 THEN script.length - top ELSE statement.operands[k]
StatementRight(script, statement, top) ==
  /\ \A pc \in {top, top + statement.size - 1} : PCToLineNumber(script, pc) = statement.line
  /\ NoteRight(script, statement, top, GetSrcNote(script, top))
LeadsBack(script, program) ==
  /\ \A i \in DOMAIN program :
       LineNumberToPC(script, program[i].line) = StartOf(program, Min({k \in DOMAIN program : program[k].line >= program[i].line}))
  /\ GetScriptLineExtent(script) = program[Len(program)].line
LinesRightIn(script, program) ==
  /\ \A i \in DOMAIN program : StatementRight(script, program[i], StartOf(program, i))
  /\ (\A i \in 1 .. Len(program) - 1 : program[i].line <= program[i + 1].line) => LeadsBack(script, program)
LinesRight(program) == LinesRightIn(Compiled(program), program)

-----------------------------------------------------------------------------
(* Scripts that a compiler makes, with what each kind of literal is.       *)
Literal(type, is) == [type |-> type, holds |-> is]
Expression(source) == [class |-> RegExp, source |-> source, flags |-> 3]
ScriptOf(code, atoms, notes, filename, trynotes) ==
  [code |-> code, length |-> Len(code), atoms |-> atoms, notes |-> notes, filename |-> filename,
   lineno |-> 7, depth |-> 2, trynotes |-> trynotes]
FunctionOf(name, atoms) ==
  [class |-> Function, name |-> name, nargs |-> 1, extra |-> 0, nvars |-> 2, flags |-> 16,
   props |-> <<[kind |-> FUNARG, id |-> 1, name |-> <<97>>], [kind |-> OtherProp, id |-> 9, name |-> <<112>>],
               [kind |-> FUNVAR, id |-> 1, name |-> <<98>>], [kind |-> FUNVAR, id |-> 3, name |-> <<99, 99, 99, 99, 99>>]>>,
   script |-> ScriptOf(<<1, 2, 3>>, atoms, <<8, 0>>, Null, {})]
Source == Literal("object", Expression(<<47, 0, 47>>))
Long == Literal("string", [i \in 1 .. 6 * MEM_BLOCK |-> 98])
AtomLists ==
  {<<>>, <<Literal("string", <<>>), Literal("string", <<97, 0, 97>>)>>, <<Literal("int", -3), Literal("int", 2), Literal("double", <<1, -2>>)>>,
   <<Literal("boolean", 1), Source, Source>>, <<Source, Literal("object", FunctionOf(<<102>>, <<Source>>)), Source>>,
   <<Literal("object", FunctionOf(<<102>>, <<Literal("object", FunctionOf(<<103>>, <<>>))>>))>>,
   <<Literal("object", FunctionOf(Null, <<>>)), Source>>, <<Literal("object", [class |-> Object])>>, <<Long>>}
NotesOf(program) == Compiled(program).notes
NoteLists == {<<Terminator>>} \cup {NotesOf(<<[s EXCEPT !.line = l]>>) : s \in Kinds, l \in {1, 3, 127, 130}}
Scripts(atoms) == {ScriptOf(code, atoms, notes, filename, trynotes) :
                     code \in {<<1>>, [i \in 1 .. 6 |-> i]}, notes \in NoteLists, filename \in {Null, <<97, 98>>}, trynotes \in {{}, {1}}}
RECURSIVE Functions(_)
Functions(atoms) ==
  LET here == {atoms[i].holds : i \in {k \in DOMAIN atoms : atoms[k].type = "object" /\ atoms[k].holds.class = Function}}
  IN here \cup UNION {Functions(f.script.atoms) : f \in here}

(* What the text of a script does not have: handlers, notes after a byte   *)
(* that is 0, properties of a function that are neither argument nor local.*)
RECURSIVE Restored(_)
RestoredFunction(fun) ==
  [fun EXCEPT !.props = SelectSeq(@, LAMBDA sprop : sprop.kind # OtherProp), !.script = Restored(@)]
RestoredValue(value) ==
  IF value.type = "object" /\ value.holds.class = Function THEN [value EXCEPT !.holds = RestoredFunction(@)] ELSE value
Restored(script) ==
  [script EXCEPT !.trynotes = {}, !.notes = Append(UpToNul(@), Terminator), !.atoms = [i \in DOMAIN @ |-> RestoredValue(@[i])]]

(* A script comes back from its text, with classes numbered as they were,  *)
(* unless a function has no name, and no part of the text is taken for it. *)
Writable(script) == \A i \in DOMAIN script.atoms : script.atoms[i].type = "object" => script.atoms[i].holds.class # Object
Nameless(script) == \E fun \in Functions(script.atoms) : fun.name = Null
ComesBack(script, xdr, thawed) ==
  /\ thawed.crashed <=> Nameless(script)
  /\ thawed.ok <=> ~ thawed.crashed
  /\ thawed.ok => thawed.script = Restored(script) /\ thawed.classes = xdr.classes
Refused(thawed) == ~ thawed.ok /\ thawed.script = NoScript
ThawsAs(script, xdr) ==
  /\ xdr.ok <=> Writable(script)
  /\ xdr.overrun => \E i \in DOMAIN script.atoms : script.atoms[i] = Long
  /\ xdr.ok => /\ ComesBack(script, xdr, Thaw(xdr.words, NoScript, 0))
               /\ \A n \in 0 .. Len(xdr.words) - 1, junk \in {0, 1} : Refused(Thaw(SubSeq(xdr.words, 1, n), NoScript, junk))
ThawsAsFrozen(script) == ThawsAs(script, Freeze(script))

(* A text that is no script is not taken for one, though the call gives    *)
(* true for it; the script that was there stays.                           *)
RefusesOthers(text) == LET thawed == Thaw([i \in DOMAIN text |-> Word(text[i])], NoScript, 0) IN thawed.script = NoScript /\ thawed.rval

Methods == {<<"lines", k>> : k \in Kinds} \cup {<<"freeze", a>> : a \in AtomLists} \cup {<<"thaw", <<>>>>}
ScriptCasesOf(method) ==
  CASE method[1] = "lines" -> Programs(method[2])
    [] method[1] = "freeze" -> Scripts(method[2])
    [] method[1] = "thaw" -> {<<>>, <<0>>, <<1, SCRIPT_XDRMAGIC>>}
ScriptRight(method, case) ==
  CASE method[1] = "lines" -> LinesRight(case)
    [] method[1] = "freeze" -> ThawsAsFrozen(case)
    [] method[1] = "thaw" -> RefusesOthers(case)
=============================================================================
