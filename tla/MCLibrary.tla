----------------------------- MODULE MCLibrary -----------------------------
EXTENDS JavaWrappers, JavaCalls, Activations, TLC

(* The codes of the printable characters. *)
ASCII ==
  LET printable ==
      <<" ", "!", "\"", "#", "$", "%", "&", "'", "(", ")", "*", "+", ",", "-", ".", "/",
        "0", "1", "2", "3", "4", "5", "6", "7", "8", "9", ":", ";", "<", "=", ">", "?",
        "@", "A", "B", "C", "D", "E", "F", "G", "H", "I", "J", "K", "L", "M", "N", "O",
        "P", "Q", "R", "S", "T", "U", "V", "W", "X", "Y", "Z", "[", "\\", "]", "^", "_",
        "grave", "a", "b", "c", "d", "e", "f", "g", "h", "i", "j", "k", "l", "m", "n", "o",
        "p", "q", "r", "s", "t", "u", "v", "w", "x", "y", "z", "{", "|", "}", "~">>
  IN [c \in {printable[i] : i \in DOMAIN printable} |-> 31 + (CHOOSE i \in DOMAIN printable : printable[i] = c)]

Scanning == INSTANCE Scanner WITH Code <- ASCII, JS_LINE_LIMIT <- 6, ATOM_INDEX_LIMIT <- 50, Keywords <- {"if"}
Parsing == INSTANCE Grammar

Valued == INSTANCE Values WITH WORD <- 4, Huge <- 100

Expressions == INSTANCE RegExpMatch WITH Code <- ASCII, FLATLEN_MAX <- 3, Chars <- {0, 10, 65, 66, 67, 97, 98, 99, 255, 376}

Listed == INSTANCE Arrays WITH WORD <- 64, Undefined <- -1, Null <- -2

Texts == INSTANCE Strings WITH
  Code <- ASCII, NaN <- -1000, BMH_CHARSET_SIZE <- 99, BMH_PATLEN_MAX <- 3, BMH_TEXT <- 5, UINTN <- 64, FLATLEN_MAX <- 3, Chars <- {0, 10, 65, 66, 67, 97, 98, 99}

(* Dates on a clock of few ticks, whose years are far apart, and on the    *)
(* real one without milliseconds, 3 hours and 30 minutes west of GMT.      *)
Ticks == INSTANCE Dates WITH
  NaN <- 2000000001, Infinity <- 2000000002, HoursPerDay <- 3, MinutesPerHour <- 3, SecondsPerMinute <- 2, msPerSecond <- 2,
  HalfTimeDomain <- 60000, LocalTZA <- -12, Summers <- {<<1800, 1860>>, <<8000, 9000>>}, MaxUnixTime <- 20000, FirstYear <- 1968,
  Years <- {-100000, -401, -400, -101, -100, -1, 0, 1, 4, 100, 400, 1600, 1900, 2100, 32767, 32768, 100000} \cup (1966 .. 2001),
  Times <- {-60000, -4000, -1, 0, 1} \cup (3590 .. 3612) \cup (3706 .. 3734) \cup {17999, 18000, 20000, 59999},
  Numbers <- {-30, 0, 1, 5, 1971, 2000000001}
Days == INSTANCE Dates WITH
  NaN <- 2147483647, Infinity <- 2147483646, HoursPerDay <- 24, MinutesPerHour <- 60, SecondsPerMinute <- 60, msPerSecond <- 1,
  HalfTimeDomain <- 2100000000, LocalTZA <- -12600, Summers <- {<<100000, 200000>>, <<900000000, 900900000>>},
  MaxUnixTime <- 2145859200, FirstYear <- 1968, Years <- {}, Numbers <- {},
  Times <- {86400 * d + s : d \in {-20000, -366, -1, 0, 1, 2, 58, 59, 60, 365, 10958, 11017, 20000}, s \in {0, 1, 59, 60, 3600, 43200, 86399}}
             \cup {s + k : s \in {100000, 200000, 900000000, 900900000}, k \in {-3601, -3600, -1, 0, 1, 3599, 3600}}

(* A Java world: B is an A, a jsval holds integers of 8 bits, a byte 3.    *)
Supertypes ==
  [t \in {"Object", "String", "Double", "Boolean", "Class", "JSObject", "A"} |-> {t, "Object"}]
    @@ ("B" :> {"B", "A", "Object"}) @@ ("A[]" :> {"A[]", "Object"}) @@ ("B[]" :> {"B[]", "A[]", "Object"})
Java == INSTANCE JavaMembers WITH
  Supers <- Supertypes, Component <- ("B[]" :> "B") @@ ("A[]" :> "A"), DoubleValued <- {"Double"}, Ecma <- TRUE,
  Limits <- [byte |-> <<-4, 3>>, char |-> <<0, 15>>, short |-> <<-64, 63>>, int |-> <<-256, 255>>, long |-> <<-1024, 1023>>],
  JSVAL_INT_MAX <- 127, NaN <- 1000001, Infinity <- 1000003

Stored == INSTANCE Scripts WITH MEM_BLOCK <- 16

VARIABLES part, case, heap, calls, iter
others == <<heaps, java, frames>>
vars == <<part, case, heap, calls, iter, heaps, java, frames>>

(* Two objects, "o" with the prototype and parent "p"; id 3 is the string  *)
(* of index 1; ids 1 and 2 of "p" have cache entries of their own.         *)
Chain == [p |-> "none", o |-> "p"]
Mix(ops, ids, values, attrs, hooks, depth, slots) ==
  [ops |-> ops, ids |-> ids, values |-> values, attrs |-> attrs, hooks |-> hooks, calls |-> depth, slots |-> slots]
Plain == {{"ENUMERATE"}}
Mixes ==
  {Mix({}, {}, {}, {}, {}, 0, 0),
   Mix({"Create", "Define", "Set", "Get", "Delete"}, {1}, {7}, Plain, {"native"}, 2, 4),
   Mix({"Create", "Define", "Set", "Get", "Delete"}, {1, 3}, {7, 8}, Plain \cup {{"READONLY", "PERMANENT"}}, {"stub"}, 1, 4),
   Mix({"Create", "Define", "Set", "Get", "Attribute"}, {1}, {7, 8}, Plain \cup {{"READONLY", "PERMANENT"}}, {"native"}, 1, 4),
   Mix({"Create", "Set", "Get", "Delete", "Name"}, {1, 2}, {7}, Plain, {"native"}, 1, 4),
   Mix({"Create", "Define", "Set", "Watch", "Delete", "Collect"}, {1}, {7}, Plain, {"native"}, 1, 4),
   Mix({"Create", "Define", "Alias", "Delete"}, {1, 2}, {7}, Plain, {"stub"}, 1, 4),
   Mix({"Create", "Define", "Set", "Clear", "Name"}, {1, 2}, {7}, Plain, {"stub"}, 1, 4),
   Mix({"Create", "Define", "Delete", "Loop"}, {1, 2}, {7}, Plain, {"stub"}, 1, 3)}
Properties == INSTANCE Objects WITH
  Objs <- {"p", "o"}, NoObj <- "none", Void <- 0, Proto <- Chain, Parent <- Chain,
  Ids <- {1, 2, 3}, Names <- {1, 2}, Index <- <<1, 2, 1>>, Other <- <<11, 12, 13>>,
  Addresses <- {1, 2}, Watchpoints <- {1, 2}, JSSLOT_FREE <- 1, JS_INITIAL_NSLOTS <- 2,
  CacheIndex <- [e \in {"p", "o"} \X {1, 2, 3} |-> IF e[1] = "p" /\ e[2] = 2 THEN 2 ELSE 1]

(* What calls of a function leave behind. *)
CallMix(ops, actuals, names, elements, activations, depth, withs) ==
  [ops |-> ops, actuals |-> actuals, names |-> names, elements |-> elements, acts |-> activations, depth |-> depth, withs |-> withs]
FunctionMixes == {
  CallMix({"closure", "call"}, {1}, {"a", "b", "v"}, {}, 1, 2, 1),
  CallMix({"closure", "length"}, {1, 3}, {"a", "b"}, {1, 3}, 1, 2, 0),
  CallMix({"closure", "call", "override"}, {1}, {"a"}, {1}, 2, 3, 0)}

(* A thread on which something went astray is not followed deep. *)
AstrayDepth == 2

(* Which of the small systems runs; the others rest. *)
NoObjects == heap.mix.ops = {} /\ heap.threads
NoCalls == java = CallsStart
NoFrames == frames.mix = CallMix({"closure", "call"}, {1}, {"a", "b", "v"}, {}, 1, 2, 1)
Init == /\ case = <<>> /\ Properties!Init /\ heaps = WrappersStart /\ frames \in FramesStart
        /\ \/ part = <<"none">> /\ NoObjects /\ NoCalls /\ NoFrames
           \/ part = <<"objects">> /\ heap.mix.ops # {} /\ NoCalls /\ NoFrames
           \/ part = <<"calls">> /\ NoObjects /\ (\E cx \in {0, 1} : java = [CallsStart EXCEPT !.env = cx]) /\ NoFrames
           \/ part = <<"wrappers">> /\ NoObjects /\ NoCalls /\ NoFrames
           \/ part = <<"frames">> /\ NoObjects /\ NoCalls

(* A family of cases is chosen, then a part of it, then a case. *)
Choose(family, parts) == part = <<"none">> /\ (\E p \in parts : part' = <<family, p>>) /\ UNCHANGED case
Check(family, cases) == part[1] = family /\ case = <<>> /\ (\E c \in cases : case' = c) /\ UNCHANGED part
CheckOne(family, cases) == part[1] = family /\ case = <<>> /\ (\E c \in cases : case' = <<c>>) /\ UNCHANGED part
Checking(family) == part[1] = family /\ case # <<>>

Operands == DOMAIN Valued!Operands
Constants == DOMAIN Valued!Constants
Literals == DOMAIN Valued!Literals

ChooseSource == Choose("scan", Scanning!Methods)
ScanSource == part[1] = "scan" /\ CheckOne("scan", Scanning!ScannerCasesOf(part[2]))
ChooseProgram == Choose("parse", Parsing!Forms)
ParseProgram == part[1] = "parse" /\ Check("parse", Parsing!Layouts(part[2]))
ChooseOperator == Choose("operator", Valued!BinaryOps)
Operate == Check("operator", Operands \X Operands)
ChooseUnary == Choose("unary", Valued!UnaryOps)
OperateOne == Check("unary", {<<i>> : i \in DOMAIN Valued!Operands})
ChooseSwitch == Choose("switch", Constants)
DoSwitch == Check("switch", Constants \X Constants \X Operands)
ChooseFold == Choose("fold", Valued!BinaryOps)
DoFold == Check("fold", Literals \X Literals \X (Valued!UnaryOps \cup {"", "()"}) \X Valued!UnaryOps)
ChooseExpression == Choose("match", DOMAIN Expressions!Items)
MatchExpression == Check("match", {<<i>> : i \in DOMAIN Expressions!Items})
ChooseMethod == Choose("array", Listed!Methods)
CallMethod == part[1] = "array" /\ CheckOne("array", Listed!ArrayCases(part[2]))
ChooseText == Choose("string", Texts!Methods)
CallText == part[1] = "string" /\ CheckOne("string", Texts!StringCasesOf(part[2]))
ChooseDate == Choose("ticks", {"calendar", "zone", "set", "years", "new"})
UseDate == part[1] = "ticks" /\ CheckOne("ticks", Ticks!DateCasesOf(part[2]))
ChooseFormat == Choose("days", {"text", "zone"})
UseFormat == part[1] = "days" /\ CheckOne("days", Days!DateCasesOf(part[2]))
ChooseJava == Choose("java", Java!Methods)
UseJava == part[1] = "java" /\ CheckOne("java", Java!JavaCasesOf(part[2]))
ChooseScript == Choose("script", Stored!Methods)
UseScript == part[1] = "script" /\ CheckOne("script", Stored!ScriptCasesOf(part[2]))

UseObjects == part = <<"objects">> /\ Properties!Next /\ UNCHANGED <<part, case, others>>
CrossOver == /\ part = <<"calls">> /\ (~ java.clean => Depth <= AstrayDepth)
             /\ CallsNext /\ UNCHANGED <<part, case, heap, calls, iter, heaps, frames>>
HoldOn == part = <<"wrappers">> /\ WrappersNext /\ UNCHANGED <<part, case, heap, calls, iter, java, frames>>
RunOn == part = <<"frames">> /\ FramesNext /\ UNCHANGED <<part, case, heap, calls, iter, heaps, java>>

Evaluate == /\ UNCHANGED <<heap, calls, iter, others>>
            /\ \/ ChooseSource \/ ScanSource \/ ChooseProgram \/ ParseProgram
               \/ ChooseOperator \/ Operate \/ ChooseUnary \/ OperateOne \/ ChooseSwitch \/ DoSwitch \/ ChooseFold \/ DoFold
               \/ ChooseExpression \/ MatchExpression
               \/ ChooseMethod \/ CallMethod \/ ChooseText \/ CallText
               \/ ChooseDate \/ UseDate \/ ChooseFormat \/ UseFormat \/ ChooseJava \/ UseJava \/ ChooseScript \/ UseScript
Next == UseObjects \/ CrossOver \/ HoldOn \/ RunOn \/ Evaluate
Spec == Init /\ [][Next]_vars

(* The scanner reads back the tokens a text was written of, the parser the *)
(* tree, whatever the layout, and a regular expression matches what it     *)
(* describes.                                                              *)
ParsesAsWritten ==
  /\ Checking("scan") => Scanning!ScannerRight(part[2], case[1])
  /\ Checking("parse") => Parsing!ReadsBack(part[2], case)
  /\ Checking("match") => LET nests == Expressions!Nests(part[2], case[1]) IN \A f \in DOMAIN nests : Expressions!Matches(nests[f])

(* The interpreter's operators, its switch and the constants the parser    *)
(* folds agree with what the operators are defined to compute.             *)
OperatorsAgree ==
  /\ Checking("operator") => Valued!OperatorAgrees(part[2], Valued!Operands[case[1]], Valued!Operands[case[2]])
  /\ Checking("unary") => Valued!UnaryAgrees(part[2], Valued!Operands[case[1]])
  /\ Checking("switch") => Valued!SwitchAgrees(<<Valued!Constants[part[2]], Valued!Constants[case[1]], Valued!Constants[case[2]]>>,
                                               Valued!Operands[case[3]])
  /\ Checking("fold") =>
       Valued!FoldedAlike(part[2], Valued!Literals[case[1]], Valued!Term(Valued!Literals[case[2]], case[3]), case[4])

(* The methods of arrays, strings, dates, Java objects and scripts compute *)
(* what they are to.                                                       *)
BuiltinsAgree ==
  /\ Checking("array") => Listed!ArrayRight(part[2], case[1])
  /\ Checking("string") => Texts!StringRight(part[2], case[1])
  /\ Checking("ticks") => Ticks!DateRight(part[2], case[1])
  /\ Checking("days") => Days!DateRight(part[2], case[1])
  /\ Checking("java") => Java!JavaRight(part[2], case[1])
  /\ Checking("script") => Stored!ScriptRight(part[2], case[1])

(* Slots, scopes, caches, watchpoints and loops over properties agree, and *)
(* they are a map from ids to properties along a chain of prototypes.      *)
PropertiesSound == part = <<"objects">> => Properties!Sound
ImplementsPropertyMap == Properties!ImplementsPropertyMap
=============================================================================
