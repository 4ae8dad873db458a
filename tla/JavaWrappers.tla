---------------------------- MODULE JavaWrappers ----------------------------
(***************************************************************************)
(* Objects that two collected heaps hold of each other                     *)
(* (jsj_JavaObject.c, jsj_JSObject.c): a JavaObject of JavaScript stands   *)
(* for a Java object, which it keeps with a global reference and which     *)
(* finds it again in the table java_obj_reflections; a JSObject of Java    *)
(* stands for an object of JavaScript, which it keeps as a root.           *)
(*                                                                         *)
(* heaps is the state of both:                                             *)
(*   linked    whether the virtual machine is connected                    *)
(*   table     java_obj_reflections, NoRef where there is no entry         *)
(*   cells     the objects of JavaScript: free, plain with a property, or  *)
(*             a wrapper; of is java_obj of its private data, NoRef for    *)
(*             NULL, "missing" without private data                        *)
(*   things    the Java objects: free, plain with a field, or a JSObject   *)
(*             with what its handle has in js_obj                          *)
(*   refs      the global references to each Java object                   *)
(*   roots     the cells that are roots, of whom                           *)
(*   jsHeld, javaHeld  what the variables of the programs hold             *)
(* A collection is not started by JS_NewObject while a Java object is      *)
(* being wrapped, and an entry can always be added to the table.           *)
(***************************************************************************)
EXTENDS Naturals, FiniteSets

CONSTANTS Cells, Things, NoRef

ASSUME WrappersAssumption == NoRef \notin Cells \cup Things \cup {"missing"} /\ "missing" \notin Things

VARIABLE heaps

Free == [is |-> "free"]
WrappersStart ==
  [linked |-> TRUE, table |-> [t \in Things |-> NoRef], cells |-> [c \in Cells |-> Free], things |-> [t \in Things |-> Free],
   refs |-> [t \in Things |-> 0], roots |-> {}, jsHeld |-> {}, javaHeld |-> {}]

FreeOf(space) == {a \in DOMAIN space : space[a].is = "free"}
(* The next one to be allocated, any of those that are free. *)
NextFree(space) == CHOOSE a \in FreeOf(space) : TRUE
HeldByJS(h, c) == [h EXCEPT !.jsHeld = (@ \cup {c}) \ {NoRef}]
HeldByJava(h, t) == [h EXCEPT !.javaHeld = (@ \cup {t}) \ {NoRef}]

-----------------------------------------------------------------------------
Wrapper(of) == [is |-> "wrapper", of |-> of]
(* The four ways in which a new reflection ends. *)
NoReflection(h) == h
NoPrivate(h, c) == HeldByJS([h EXCEPT !.cells[c] = Wrapper("missing")], c)
NoGlobalRef(h, c) == [h EXCEPT !.cells[c] = Wrapper(NoRef)]
Reflected(h, c, t) == HeldByJS([h EXCEPT !.cells[c] = Wrapper(t), !.refs[t] = @ + 1, !.table[t] = c], c)
jsj_WrapJavaObject(t) ==
  IF heaps.table[t] # NoRef THEN {HeldByJS(heaps, heaps.table[t])}
  ELSE {NoReflection(heaps)} \cup
       (IF FreeOf(heaps.cells) = {} THEN {}
        ELSE LET c == NextFree(heaps.cells) IN {NoPrivate(heaps, c), NoGlobalRef(heaps, c), Reflected(heaps, c, t)})

jsj_WrapJSObject(c) ==
  {heaps} \cup (IF FreeOf(heaps.things) = {} THEN {}
               ELSE LET t == NextFree(heaps.things)
                    IN {HeldByJava([heaps EXCEPT !.things[t] = [is |-> "JSObject", js |-> c], !.roots = @ \cup {<<t, c>>}], t)})
jsj_UnwrapJSObjectWrapper(t) == heaps.things[t].js

(* A value that crosses: what wraps something of the other side is taken   *)
(* out of its wrapper.                                                     *)
PassToJS == \E t \in heaps.javaHeld :
              /\ heaps.linked
              /\ heaps' \in IF heaps.things[t].is = "JSObject" THEN {HeldByJS(heaps, jsj_UnwrapJSObjectWrapper(t))}
                           ELSE jsj_WrapJavaObject(t)
PassToJava == \E c \in heaps.jsHeld :
                /\ heaps.linked
                /\ heaps' \in IF heaps.cells[c].is # "wrapper" THEN jsj_WrapJSObject(c)
                             ELSE IF heaps.cells[c].of = "missing" THEN {heaps} ELSE {HeldByJava(heaps, heaps.cells[c].of)}

-----------------------------------------------------------------------------
(* What the programs do. *)
NewObject == /\ FreeOf(heaps.cells) # {}
             /\ LET c == NextFree(heaps.cells) IN heaps' = HeldByJS([heaps EXCEPT !.cells[c] = [is |-> "plain", prop |-> NoRef]], c)
NewThing == /\ FreeOf(heaps.things) # {}
            /\ LET t == NextFree(heaps.things) IN heaps' = HeldByJava([heaps EXCEPT !.things[t] = [is |-> "plain", field |-> NoRef]], t)
SetProperty == \E c, d \in heaps.jsHeld : heaps.cells[c].is = "plain" /\ heaps' = [heaps EXCEPT !.cells[c].prop = d]
SetField == \E t, u \in heaps.javaHeld : heaps.things[t].is = "plain" /\ heaps' = [heaps EXCEPT !.things[t].field = u]
DropObject == \E c \in heaps.jsHeld : heaps' = [heaps EXCEPT !.jsHeld = @ \ {c}]
DropThing == \E t \in heaps.javaHeld : heaps' = [heaps EXCEPT !.javaHeld = @ \ {t}]

-----------------------------------------------------------------------------
(* What is reached from some roots over one pointer of each: the least     *)
(* set that has the roots and what its members point to.                   *)
PropOf == [c \in Cells |-> IF heaps.cells[c].is = "plain" THEN heaps.cells[c].prop ELSE NoRef]
FieldOf == [t \in Things |-> IF heaps.things[t].is = "plain" THEN heaps.things[t].field ELSE NoRef]
ClosedUnder(pointer, R) == \A a \in R : pointer[a] \in R \cup {NoRef}
Reached(roots, pointer) ==
  {a \in DOMAIN pointer : \A R \in SUBSET DOMAIN pointer : roots \subseteq R /\ ClosedUnder(pointer, R) => a \in R}
KeptObjects == Reached(heaps.jsHeld \cup {r[2] : r \in heaps.roots}, PropOf)
KeptThings == Reached(heaps.javaHeld \cup {t \in Things : heaps.refs[t] > 0}, FieldOf)

(* JavaObject_finalize of everything that is not kept. *)
Finalized(dead) == {t \in Things : \E c \in dead : heaps.cells[c].is = "wrapper" /\ heaps.cells[c].of = t}
FinalizeKeepingEntry(dead) == \* mutant: the entry stays in the table
  [heaps EXCEPT !.cells = [c \in Cells |-> IF c \in dead THEN Free ELSE @[c]],
                !.refs = [t \in Things |-> IF t \in Finalized(dead) THEN @[t] - 1 ELSE @[t]]]
JavaObject_finalize(dead) ==
  [heaps EXCEPT !.cells = [c \in Cells |-> IF c \in dead THEN Free ELSE @[c]],
                !.table = [t \in Things |-> IF t \in Finalized(dead) THEN NoRef ELSE @[t]],
                !.refs = [t \in Things |-> IF t \in Finalized(dead) THEN @[t] - 1 ELSE @[t]]]
CollectObjects == heaps' = JavaObject_finalize(Cells \ KeptObjects)

(* Java_netscape_javascript_JSObject_finalize. *)
JSObject_finalize(dead) ==
  [heaps EXCEPT !.things = [t \in Things |-> IF t \in dead THEN Free ELSE @[t]], !.roots = {r \in @ : r[1] \notin dead}]
CollectThings == heaps' = JSObject_finalize(Things \ KeptThings)

(* jsj_DiscardJavaObjReflections, and a new connection with an empty table. *)
Discarded(c) == heaps.cells[c].is = "wrapper" /\ \E t \in Things : heaps.table[t] = c
jsj_DiscardJavaObjReflections ==
  [heaps EXCEPT !.linked = FALSE, !.table = [t \in Things |-> NoRef],
               !.refs = [t \in Things |-> IF heaps.table[t] # NoRef THEN @[t] - 1 ELSE @[t]],
               !.cells = [c \in Cells |-> IF Discarded(c) THEN Wrapper(NoRef) ELSE @[c]]]
Disconnect == heaps.linked /\ heaps' = jsj_DiscardJavaObjReflections
Connect == ~ heaps.linked /\ heaps' = [heaps EXCEPT !.linked = TRUE]

WrappersNext ==
  \/ PassToJS \/ PassToJava \/ NewObject \/ NewThing \/ SetProperty \/ SetField \/ DropObject \/ DropThing
  \/ CollectObjects \/ CollectThings \/ Disconnect \/ Connect

-----------------------------------------------------------------------------
(* The table finds the one wrapper a Java object has, as long as it is     *)
(* connected, and the references are those of the wrappers.                *)
Of(t) == {c \in Cells : heaps.cells[c] = Wrapper(t)}
TableExact ==
  \A t \in Things : /\ Of(t) = {heaps.table[t]} \ {NoRef}
                    /\ heaps.refs[t] = Cardinality(Of(t))
(* The roots are those of the JSObjects there are. *)
JSObjects == {t \in Things : heaps.things[t].is = "JSObject"}
RootsExact == heaps.roots = {<<t, heaps.things[t].js>> : t \in JSObjects}
(* Nothing a program can still reach, through either heap, is collected.   *)
UsedCell(c) == heaps.cells[c].is # "free"
UsedThing(t) == heaps.things[t].is # "free"
NothingDangles ==
  /\ \A c \in KeptObjects :
       /\ UsedCell(c)
       /\ heaps.cells[c].is = "wrapper" /\ heaps.cells[c].of \in Things => UsedThing(heaps.cells[c].of)
  /\ \A t \in KeptThings :
       /\ UsedThing(t)
       /\ t \in JSObjects => UsedCell(heaps.things[t].js)
(* The table, the references and the roots are exact, and two collectors   *)
(* that know nothing of each other take nothing that is needed.            *)
WrappersSound == TableExact /\ RootsExact /\ NothingDangles

WrappersSpec == heaps = WrappersStart /\ [][WrappersNext]_heaps
=============================================================================
