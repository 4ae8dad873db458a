---------------------------- MODULE Activations ----------------------------
(***************************************************************************)
(* What a call of a function leaves behind: js_Invoke's frames, the Call   *)
(* objects through which closures, eval and with statements reach a        *)
(* function's arguments and variables by name, and the Arguments objects   *)
(* (jsfun.c).                                                              *)
(*                                                                         *)
(* F is a function of two formal parameters a and b and a local variable   *)
(* v; closures made in it use the three by name.  An activation of F keeps *)
(* its arguments and its variable in slots of the frame.  A Call or an     *)
(* Arguments object is made when first asked for and is linked to the      *)
(* frame (its private data): its getters and setters then reach the slots. *)
(* When the frame is left, js_PutCallObject and js_PutArgsObject are to    *)
(* leave the last values in the objects' own properties.                   *)
(*                                                                         *)
(* The state is a record: the activations there have been, the stack of    *)
(* frames (innermost last), each that of an activation or that of a        *)
(* closure running over one, and the mix of what is done.  Out of memory   *)
(* is left out.                                                            *)
(***************************************************************************)
EXTENDS Integers, Sequences

CONSTANTS AssignedValues,   \* what is assigned
          FirstArgument,    \* what an argument is to begin with
          UndefinedValue,
          CallMixes         \* what is done, and how much of it:
                            \* [ops, actuals, names, elements, acts, depth, withs]

VARIABLE frames

Formals == <<"a", "b">>
Names == {"a", "b", "v"}
Object == -1          \* the Arguments object, as the value of arguments
NoProps == [x \in {} |-> UndefinedValue]

ASSUME FramesAssumption ==
  /\ Object \notin AssignedValues
  /\ \A m \in CallMixes : m.actuals \subseteq Nat /\ m.names \subseteq Names /\ m.elements \subseteq Nat \ {0}

With(f, i, w) == [j \in DOMAIN f \cup {i} |-> IF j = i THEN w ELSE f[j]]
Position(x) == IF x = "a" THEN 1 ELSE 2
Longer(m, n) == IF m > n THEN m ELSE n

(* js_Invoke pushes undefined for missing arguments and for variables, and *)
(* the frame's scope chain begins with the function object: no Call object *)
(* yet.  The rest is history: what was last assigned to each name (last)   *)
(* and to arguments.length (len), and the names assigned to by slot only   *)
(* since their Call property was last used (behind).                       *)
Activation(argc) ==
  LET argv == [i \in 1 .. Longer(argc, Len(Formals)) |-> IF i <= argc THEN FirstArgument ELSE UndefinedValue]
  IN [argc |-> argc, argv |-> argv, v |-> UndefinedValue, scope |-> <<"fun">>, withs |-> 0, overrides |-> {},
      call |-> [state |-> "none", props |-> NoProps, arguments |-> Object],
      args |-> [state |-> "none", props |-> NoProps], closed |-> FALSE,
      last |-> [x \in Names |-> IF x = "v" THEN UndefinedValue ELSE argv[Position(x)]], behind |-> {}, len |-> argc]

GetSlot(a, x) == IF x = "v" THEN a.v ELSE a.argv[Position(x)]
PutSlot(a, x, w) == IF x = "v" THEN [a EXCEPT !.v = w] ELSE [a EXCEPT !.argv[Position(x)] = w]

(* Whether Call and Arguments objects take the slot for one of the frame:  *)
(* a formal parameter that was not given an argument is none of argc's.    *)
InFrame(a, x) == x = "v" \/ Position(x) <= a.argc

-----------------------------------------------------------------------------
(* Arguments objects: elements are properties 1 and up, length is 0.       *)

GetArgsObject(a) ==
  IF a.args.state = "linked" THEN a ELSE [a EXCEPT !.args = [state |-> "linked", props |-> NoProps]]

args_getProperty(a, i) ==
  IF a.args.state = "linked" /\ i = 0 /\ "length" \notin a.overrides THEN a.argc
  ELSE IF a.args.state = "linked" /\ i \in 1 .. a.argc THEN a.argv[i]
  ELSE IF i \in DOMAIN a.args.props THEN a.args.props[i] ELSE UndefinedValue

(* An element that is read is written back, if it is a property already.   *)
GetElement(a, i) ==
  IF i \in DOMAIN a.args.props THEN [a EXCEPT !.args.props[i] = args_getProperty(a, i)] ELSE a

Assigned(a, x, w) == [a EXCEPT !.last[x] = w, !.behind = IF x \in DOMAIN a.call.props THEN @ \cup {x} ELSE @]

(* args_setProperty, for an element and for length: fewer arguments can be *)
(* had, not more.                                                          *)
Own(a, i, w) == [a EXCEPT !.args.props = With(@, i, w)]
SetElement(a, i, w) ==
  LET own == Own(a, i, w)
      slot == IF i \in 1 .. a.argc THEN [own EXCEPT !.argv[i] = w] ELSE own
  IN IF a.args.state # "linked" THEN own
     ELSE IF i \in 1 .. a.argc /\ i <= Len(Formals) THEN Assigned(slot, Formals[i], w) ELSE slot

SetLength(a, n) ==
  LET own == Own(a, 0, n)
  IN IF a.args.state # "linked" THEN own
     ELSE [own EXCEPT !.argc = IF n < @ THEN n ELSE @, !.overrides = @ \cup {"length"}, !.len = n]

args_enumerate(a) ==
  IF a.args.state # "linked" THEN a
  ELSE [a EXCEPT !.args.props = [i \in 1 .. a.argc \cup DOMAIN @ |-> IF i \in 1 .. a.argc THEN a.argv[i] ELSE @[i]]]

PutArgsObject(a) ==
  IF a.args.state # "linked" THEN a
  ELSE [SetLength(args_enumerate(a), args_getProperty(a, 0))
          EXCEPT !.args.state = "put", !.overrides = @ \cup {"callee", "caller"}]

-----------------------------------------------------------------------------
(* Call objects *)

(* The Call object takes the function object's place at the end of the     *)
(* frame's scope chain, under the with objects that were pushed before.    *)
GetCallObject(a) ==
  IF a.call.state = "linked" THEN a
  ELSE [a EXCEPT !.call.state = "linked", !.scope[Len(a.scope)] = "call"]

(* A name is made a property when it is first looked up.  That of an       *)
(* argument which was not given keeps a value of its own (at is FALSE: its *)
(* id is no slot number).                                                  *)
call_resolve(a, x) ==
  IF a.call.state # "linked" \/ x \in DOMAIN a.call.props THEN a
  ELSE [a EXCEPT !.call.props = With(@, x, [val |-> IF InFrame(a, x) THEN GetSlot(a, x) ELSE UndefinedValue, at |-> InFrame(a, x)])]

(* call_getProperty, js_GetCallVariable and the setters: whether they      *)
(* reach the frame's slot.                                                 *)
Reaches(a, x) == a.call.state = "linked" /\ a.call.props[x].at /\ InFrame(a, x)

call_getProperty(a, x) == IF Reaches(a, x) THEN GetSlot(a, x) ELSE a.call.props[x].val

GetName(a, x) ==
  LET r == call_resolve(a, x)
  IN [r EXCEPT !.call.props[x].val = call_getProperty(r, x), !.behind = IF r.call.state = "linked" THEN @ \ {x} ELSE @]

(* An argument that was not given is, for its closures, another variable:  *)
(* only what the function assigns counts as assigned to it.                *)
Split(a, x) == x \in DOMAIN a.call.props /\ (~ a.call.props[x].at \/ ~ InFrame(a, x))
SetName(a, x, w) ==
  LET r == call_resolve(a, x)
      s == IF Reaches(r, x) THEN PutSlot(r, x, w) ELSE r
  IN [s EXCEPT !.call.props[x].val = w, !.last[x] = IF Split(r, x) /\ r.call.state = "linked" THEN @ ELSE w,
               !.behind = @ \ {x}]

(* call_enumerate looks every name up: those that are no properties yet    *)
(* become some, with the values they have now.                             *)
call_enumerate(a) == call_resolve(call_resolve(call_resolve(a, "a"), "b"), "v")

WithArguments(a) == IF "arguments" \in a.overrides THEN a ELSE GetArgsObject(a)
CallPut(a) == [PutArgsObject([WithArguments(a) EXCEPT !.overrides = @ \cup {"arguments"}]) EXCEPT !.call.state = "put"]
PutCallObjectAsResolved(a) == IF a.call.state # "linked" THEN a ELSE CallPut(a)   \* mutant: the other names are left out
PutCallObject(a) == IF a.call.state # "linked" THEN a ELSE CallPut(call_enumerate(a))

-----------------------------------------------------------------------------
(* Frames *)

acts == frames.acts
stack == frames.stack
mix == frames.mix
Does(op) == op \in mix.ops
TopFrame == stack[Len(stack)]
InF == stack # <<>> /\ ~ TopFrame.closure
Update(n, a) == [frames EXCEPT !.acts[n] = a]
Frames(n) == {i \in DOMAIN stack : stack[i] = [act |-> n, closure |-> FALSE]}

(* fun_getProperty, js_GetArgument: F's topmost activation *)
FFrames == {i \in DOMAIN stack : ~ stack[i].closure}
Topmost == stack[CHOOSE i \in FFrames : \A j \in FFrames : j <= i].act

Push(act, closure) == Append(stack, [act |-> act, closure |-> closure])

Invoke(argc) ==
  /\ Len(acts) < mix.acts /\ Len(stack) < mix.depth
  /\ frames' = [frames EXCEPT !.acts = Append(acts, Activation(argc)), !.stack = Push(Len(acts) + 1, FALSE)]

(* closure_call *)
InvokeClosure(n) ==
  /\ acts[n].closed /\ Len(stack) < mix.depth
  /\ frames' = [frames EXCEPT !.stack = Push(n, TRUE)]

(* A frame with a Call or an Arguments object asks for the Arguments of    *)
(* its caller (arguments.caller) as it is left, and every closure has a    *)
(* Call object.                                                            *)
Leave ==
  LET a == acts[TopFrame.act]
      down == SubSeq(stack, 1, Len(stack) - 1)
      left == IF TopFrame.closure THEN acts ELSE [acts EXCEPT ![TopFrame.act] = PutArgsObject(PutCallObject(a))]
      asks == TopFrame.closure \/ a.call.state = "linked" \/ a.args.state = "linked"
  IN /\ stack # <<>> /\ (InF => a.withs = 0)
     /\ frames' = [frames EXCEPT
                    !.acts = IF asks /\ down # <<>> /\ ~ down[Len(down)].closure
                             THEN [left EXCEPT ![down[Len(down)].act] = GetArgsObject(@)] ELSE left,
                    !.stack = down]

(* JSOP_SETARG, JSOP_SETVAR *)
SetSlot(x, w) == InF /\ frames' = Update(TopFrame.act, Assigned(PutSlot(acts[TopFrame.act], x, w), x, w))

EnterWith ==
  LET a == acts[TopFrame.act]
  IN /\ InF /\ a.withs < mix.withs
     /\ frames' = Update(TopFrame.act, [a EXCEPT !.withs = @ + 1, !.scope = <<"with">> \o @])
LeaveWith ==
  LET a == acts[TopFrame.act]
  IN /\ InF /\ a.withs > 0
     /\ frames' = Update(TopFrame.act, [a EXCEPT !.withs = @ - 1, !.scope = Tail(@)])

(* JSOP_CLOSURE: js_FindVariableScope replaces the function by its Call    *)
(* object.                                                                 *)
Closure == InF /\ frames' = Update(TopFrame.act, [GetCallObject(acts[TopFrame.act]) EXCEPT !.closed = TRUE])

(* The Call object asked for by eval or __call__, or by __caller__ of the  *)
(* frame above.                                                            *)
CallObject(n) ==
  /\ \E i \in Frames(n) : i = Len(stack) \/ (i = Len(stack) - 1 /\ (InF => acts[TopFrame.act].call.state = "linked"))
  /\ frames' = Update(n, GetCallObject(acts[n]))

(* A name in a closure, or in a with or an eval of F: the function object  *)
(* stands for a Call object that was not made (js_GetArgument,             *)
(* js_GetLocalVariable).                                                   *)
Base(a) == a.scope[Len(a.scope)]
ByName(n) == stack # <<>> /\ n = TopFrame.act /\ (InF => acts[n].withs > 0 \/ acts[n].call.state = "linked")
UseName(x) ==
  stack # <<>> /\ ByName(TopFrame.act) /\ Base(acts[TopFrame.act]) = "call" /\ frames' = Update(TopFrame.act, GetName(acts[TopFrame.act], x))
AssignName(x, w) ==
  /\ stack # <<>> /\ ByName(TopFrame.act)
  /\ frames' = Update(TopFrame.act, IF Base(acts[TopFrame.act]) = "fun" THEN Assigned(PutSlot(acts[TopFrame.act], x, w), x, w)
                              ELSE SetName(acts[TopFrame.act], x, w))

(* F.arguments, in any frame above one of F's, and what is done with it.   *)
Asked == GetArgsObject(acts[Topmost])
Arguments(a) == FFrames # {} /\ frames' = Update(Topmost, a)
UseElement(i) == Arguments(GetElement(Asked, i))
AssignElement(i, w) == Arguments(SetElement(Asked, i, w))
AssignLength(n) == Arguments(SetLength(Asked, n))
Enumerate == Arguments(args_enumerate(Asked))

(* arguments = w in F: fun_setProperty passes it on to the Call object.    *)
AssignArguments(w) ==
  InF /\ frames' = Update(TopFrame.act, [GetCallObject(acts[TopFrame.act]) EXCEPT !.call.arguments = w, !.overrides = @ \cup {"arguments"}])

FramesStart == {[acts |-> <<>>, stack |-> <<>>, mix |-> m] : m \in CallMixes}

FramesNext ==
  \/ \E argc \in mix.actuals : Invoke(argc)
  \/ \E n \in DOMAIN acts : InvokeClosure(n) \/ (Does("call") /\ CallObject(n))
  \/ Leave \/ EnterWith \/ LeaveWith
  \/ Does("closure") /\ Closure
  \/ \E x \in mix.names : UseName(x) \/ \E w \in AssignedValues : SetSlot(x, w) \/ AssignName(x, w)
  \/ \E i \in mix.elements : UseElement(i) \/ \E w \in AssignedValues : AssignElement(i, w)
  \/ Does("length") /\ (Enumerate \/ \E n \in 0 .. 1 : AssignLength(n))
  \/ Does("override") /\ \E w \in AssignedValues : AssignArguments(w)

FramesSpec == frames \in FramesStart /\ [][FramesNext]_frames

-----------------------------------------------------------------------------
Live(n) == Frames(n) # {}

(* While a function runs, its variables are the same by slot, by name and  *)
(* as elements of arguments - but for the arguments that were not given.   *)
SameWhileRunning(a) ==
  /\ \A x \in Names :
       /\ GetSlot(a, x) = a.last[x]
       /\ x \in DOMAIN a.call.props /\ ~ Split(a, x) => call_getProperty(a, x) = a.last[x]
  /\ a.args.state = "linked" => args_getProperty(a, 0) = a.len /\ \A i \in 1 .. a.argc : args_getProperty(a, i) = a.argv[i]

(* When it has returned, its closures find what was last assigned to its   *)
(* variables - but for arguments not given, and for what the function      *)
(* assigned after a closure had looked the name up - and there is an       *)
(* arguments object, of the last values of the arguments and the length.   *)
KeptWhenLeft(a) ==
  /\ a.call.state # "linked" /\ a.args.state # "linked"
  /\ a.call.state = "put" =>
       \A x \in Names : x \in DOMAIN a.call.props /\ (Split(a, x) \/ x \in a.behind \/ a.call.props[x].val = a.last[x])
  /\ a.call.state = "put" /\ a.call.arguments = Object => a.args.state = "put"
  /\ a.args.state = "put" => a.args.props[0] = a.len /\ \A i \in 1 .. a.argc : i \in DOMAIN a.args.props /\ a.args.props[i] = a.argv[i]

(* The scope chain is one with object for each with statement entered,     *)
(* under them the Call object if there is one.                             *)
ScopeExact(a) ==
  a.scope = [i \in 1 .. a.withs + 1 |-> IF i <= a.withs THEN "with" ELSE IF a.call.state = "none" THEN "fun" ELSE "call"]

(* Slots, names and elements are one while a function runs, and are kept   *)
(* by its objects when it has returned; its scope chain is exact.          *)
FramesSound ==
  \A n \in DOMAIN acts : ScopeExact(acts[n]) /\ (IF Live(n) THEN SameWhileRunning(acts[n]) ELSE KeptWhenLeft(acts[n]))
=============================================================================
