--------------------------- MODULE MCInterpreter ---------------------------
(***************************************************************************)
(* Programs for the interpreter: a leaf (a jump, a throw, a call ...) in   *)
(* Depth nested statements, each followed by a marker (Seen), so that a wrong     *)
(* continuation shows in the trace.                                        *)
(***************************************************************************)
EXTENDS Interpreter

CONSTANTS Outer, Inner, Core,  \* the statement forms around a leaf, outermost first
          Around                \* the forms around a plain expression

Var(n) == [k |-> "NAME", id |-> n]
Seen(n) == [k |-> "SEMI", left |-> Var(-n)]
Block(kids) == [k |-> "LC", kids |-> kids]
Try(b, c, f) == [k |-> "TRY", body |-> b, catch |-> c, finally |-> f]
Raising(n) == Block(<<[k |-> "THROW", left |-> Var(-n)]>>)
Switch(n, cases) == [k |-> "SWITCH", cond |-> Var(n), cases |-> cases]
Const(v, body) == [k |-> "CONST", val |-> v, body |-> body]
Default(body) == [k |-> "DEFAULT", val |-> 0, body |-> body]

While(n, b) == [k |-> "WHILE", cond |-> Var(n), body |-> b, update |-> Nil]

(* The statement of a form around body; n numbers what it reads. *)
Wrap(form, n, body) ==
  LET b == Block(<<body, Seen(n + 1)>>)
      m == Block(<<Seen(n + 2)>>)
  IN CASE form = "none" -> body
       [] form = "if" -> [k |-> "IF", cond |-> Var(n), left |-> b, right |-> Nil]
       [] form = "else" -> [k |-> "IF", cond |-> Var(n), left |-> m, right |-> b]
       [] form = "while" -> While(n, b)
       [] form = "do" -> [k |-> "DO", cond |-> Var(n), body |-> b]
       [] form = "for" -> [k |-> "FOR", init |-> Var(-n), cond |-> Var(n),
                           update |-> Var(-(n + 2)), body |-> b]
       [] form = "forin" -> [k |-> "FORIN", cond |-> Var(-n), body |-> b]
       [] form = "with" -> [k |-> "WITH", cond |-> Var(-n), body |-> b]
       [] form = "label" -> [k |-> "COLON", label |-> "L", body |-> b]
       [] form = "labelled while" -> [k |-> "COLON", label |-> "L", body |-> While(n, b)]
       [] form = "switch" -> Switch(n, <<Const(0, b), Default(m)>>)
       [] form = "sparse" -> Switch(n, <<Default(m), Const(1, b), Const(9, m)>>)
       [] form = "cases" -> Switch(n, <<[k |-> "EXPR", val |-> Var(n + 3), body |-> b], Default(m)>>)
       [] form = "try" -> Try(b, m, Nil)
       [] form = "catch" -> Try(Raising(n), b, Nil)
       [] form = "try finally" -> Try(b, Nil, m)
       [] form = "try catch finally" -> Try(b, Block(<<Seen(n + 3)>>), m)
       [] form = "catch finally" -> Try(Raising(n), b, m)
       [] form = "finally" -> Try(m, Nil, b)

JumpTo(k, label) == [k |-> k, label |-> label]
CallOf(args) == [k |-> "CALL", callee |-> Var(-91), args |-> args]
Leaves == {Seen(90), JumpTo("BREAK", ""), JumpTo("CONTINUE", ""), JumpTo("BREAK", "L"), JumpTo("CONTINUE", "L"),
           [k |-> "RETURN", left |-> Nil], [k |-> "THROW", left |-> Var(-90)],
           [k |-> "SEMI", left |-> CallOf(<<Var(-92), CallOf(<<>>)>>)],
           [k |-> "SEMI", left |-> [k |-> "OR", left |-> Var(93),
                                    right |-> [k |-> "AND", left |-> Var(94), right |-> Var(95)]]],
           [k |-> "SEMI", left |-> [k |-> "HOOK", cond |-> Var(96), left |-> Var(-97), right |-> Var(-98)]]}

Slot == [k |-> "SLOT", id |-> 7]
Dot(e) == [k |-> "DOT", left |-> e, id |-> 8]
Elem(e, x) == [k |-> "LB", left |-> e, right |-> x]
LValues == {Var(-80), Slot, Dot(Var(-81)), Elem(Var(-82), Dot(Slot))}
Assign(l, op, r) == [k |-> "ASSIGN", left |-> l, op |-> op, right |-> r]
Lists(es) == [k |-> "COMMA", kids |-> es]
NumberNode(n) == [k |-> "NUMBER", val |-> n]
Expressions ==
  {Assign(l, op, Assign(m, "", Var(-85))) : l \in LValues, op \in {"", "BINARY"}, m \in {Var(-80), Slot}}
  \cup {[k |-> "INC", left |-> l, post |-> b] : l \in LValues, b \in BOOLEAN}
  \cup {[k |-> "DELETE", left |-> l] : l \in LValues}
  \cup {[k |-> c, callee |-> l, args |-> <<[k |-> "INC", left |-> Elem(l, Slot), post |-> TRUE]>>] :
           l \in LValues \cup {[k |-> "RP", left |-> Dot(Var(-83))]}, c \in {"CALL", "NEW"}}
  \cup {CallOf(<<[k |-> "RB", kids |-> <<Var(-84), Assign(Slot, "BINARY", NumberNode(3))>>],
                 [k |-> "RC", kids |-> <<[id |-> 5, right |-> Dot(CallOf(<<>>))]>>]>>),
        [k |-> "CALL", callee |-> CallOf(<<>>), args |-> <<>>],
        Lists(<<[k |-> "UNARY", left |-> Var(-86)],
                Assign(Slot, "", [k |-> "BINARY", left |-> Var(-87), right |-> Dot(Var(-88))])>>)}

Plain == {[k |-> "SEMI", left |-> e] : e \in Expressions}
         \cup {[k |-> "VAR", kids |-> <<[left |-> Var(-89), init |-> Var(-80)], [left |-> Var(-79), init |-> Nil],
                                       [left |-> Slot, init |-> NumberNode(4)]>>]}

Loops == {"while", "do", "for", "forin", "labelled while"}
Labels == {"label", "labelled while"}
Finallies == {"try finally", "try catch finally", "catch finally"}   \* a finally block still ahead
Catchers == Finallies \cup {"try"}
Scopes == {"with", "catch", "catch finally"}

InnermostOf(S) == IF S = {} THEN 0 ELSE Innermost(S)
Where(path, forms) == {i \in DOMAIN path : path[i] \in forms}

(* The number of the form a jump goes to. *)
Target(path, leaf) ==
  InnermostOf(Where(path, CASE leaf.k = "BREAK" /\ leaf.label = "" -> Loops \cup {"switch", "sparse", "cases"}
                     [] leaf.k = "BREAK" -> Labels
                     [] leaf.k = "CONTINUE" /\ leaf.label = "" -> Loops
                     [] leaf.k = "CONTINUE" -> {"labelled while"}))

IsJump(leaf) == leaf.k \in {"BREAK", "CONTINUE"}

(* What the parser accepts: a jump has a target, a label is not repeated.  *)
Legal(path, leaf) ==
  /\ Cardinality(Where(path, Labels)) <= 1
  /\ IsJump(leaf) => Target(path, leaf) > 0

-----------------------------------------------------------------------------
(* Programs the compiled code is known not to run as written, each with    *)
(* the reason (README, "What the interpreter gets wrong").                 *)

Raises(leaf) == leaf.k = "THROW" \/ (leaf.k = "SEMI" /\ leaf.left.k = "CALL")

ReturnSkipsFinally(path, leaf) == leaf.k = "RETURN" /\ Where(path, Finallies) # {}

ScopeNotRestored(path, leaf) ==
  Raises(leaf) /\ \E i \in Where(path, Catchers), j \in Where(path, Scopes) : i <= j

SetspAboveStack(path) ==
  \E i \in Where(path, {"catch finally", "finally"}) :
    \E j \in Where(path, Finallies \cup {"try", "catch", "finally"}) : i < j

JumpOutOfFinally(path, leaf) ==
  IsJump(leaf) /\ \E i \in Where(path, {"finally"}) : Target(path, leaf) < i

GosubSkipped(path, leaf) ==
  IsJump(leaf) /\ \E i \in Where(path, Finallies), j \in Where(path, {"switch"}) :
                   Target(path, leaf) < i /\ i < j

(* A finally handler is entered past its SETSP: operands of a call or of a *)
(* for/in that the exception left are still there.                         *)
OperandsLeft(path, leaf) ==
  LET handler == InnermostOf(Where(path, Catchers))
  IN /\ Raises(leaf) /\ handler \in Where(path, {"try finally", "catch finally"})
     /\ leaf.k = "SEMI" \/ \E j \in Where(path, {"forin"}) : j > handler

Trusted(path, leaf) ==
  ~ (\/ ReturnSkipsFinally(path, leaf) \/ ScopeNotRestored(path, leaf) \/ SetspAboveStack(path)
     \/ JumpOutOfFinally(path, leaf) \/ GosubSkipped(path, leaf) \/ OperandsLeft(path, leaf))

Build(path, leaf) ==
  Block(<<Wrap(path[1], 10, Block(<<Wrap(path[2], 20, Wrap(path[3], 30, leaf))>>)), Seen(1)>>)

Paths == Outer \X Inner \X Core

MCInit ==
  \/ \E path \in Paths, leaf \in Leaves : Legal(path, leaf) /\ Trusted(path, leaf) /\ Start(Build(path, leaf))
  \/ \E form \in Around, leaf \in Plain : Start(Build(<<form, "none", "none">>, leaf))

MCSpec == MCInit /\ [][Next]_vars /\ WF_vars(Next)

(* Every program ends, because its answers run out. *)
Ends == <>(status # "running")
=============================================================================
