---------------------------- MODULE PropertyMap ----------------------------
(***************************************************************************)
(* What scopes, slots, symbols and the cache are for: an object is a set   *)
(* of properties, each with its names, its value and its attributes.  A    *)
(* step changes one property of one object, or ends an object.             *)
(***************************************************************************)
EXTENDS Naturals, FiniteSets

CONSTANTS Objs, Ids

VARIABLES own    \* of an object: its properties [ids, v, attrs]; {<<>>} when it is not there

NotThere == {<<>>}
There(o) == own[o] # NotThere

(* The properties of an object when one of its names is taken from them. *)
Losing(properties, id) ==
  {p \in properties : id \notin p.ids} \cup {[p EXCEPT !.ids = @ \ {id}] : p \in {q \in properties : id \in q.ids /\ q.ids # {id}}}

Init == \E o \in Objs : own = [x \in Objs |-> IF x = o THEN {} ELSE NotThere]

Collect(before, after) == \A o \in Objs : after[o] \in {NotThere, before[o]}

(* What may become of the properties of one object. *)
Clear(after) == after = {}
Define(before, after) ==
  \E p \in after : Cardinality(p.ids) = 1 /\ \E id \in p.ids : after = Losing(before, id) \cup {p}
Store(before, after) ==
  \E p \in before, q \in after :
    "READONLY" \notin p.attrs /\ q = [p EXCEPT !.v = q.v] /\ after = (before \ {p}) \cup {q}
SetAttributes(before, after) ==
  \E p \in before, q \in after : q = [p EXCEPT !.attrs = q.attrs] /\ after = (before \ {p}) \cup {q}
Alias(before, after) ==
  \E p \in before, id \in Ids : after = Losing(before \ {p}, id) \cup {[p EXCEPT !.ids = @ \cup {id}]}
Delete(before, after) ==
  \E p \in before : "PERMANENT" \notin p.attrs /\ \E id \in p.ids : after = Losing(before, id)

Changes(before, after) ==
  \/ before = NotThere /\ after = {}
  \/ NotThere \notin {before, after} /\ \/ Clear(after) \/ Define(before, after) \/ Store(before, after)
                                        \/ SetAttributes(before, after) \/ Alias(before, after) \/ Delete(before, after)

Next == \/ \E o \in Objs : Changes(own[o], own'[o]) /\ own' = [own EXCEPT ![o] = own'[o]]
        \/ Collect(own, own')

Spec == Init /\ [][Next]_own
=============================================================================
