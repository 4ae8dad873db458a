------------------------------ MODULE Objects ------------------------------
(***************************************************************************)
(* Properties: scopes, their symbols and slots, the prototype chain, the   *)
(* property cache and watchpoints (jsscope.c, jsobj.c, jsinterp.c,         *)
(* jsdbgapi.c).  An operation that calls out (a getter, a setter, a watch  *)
(* handler) stops at the call: whatever happens before the call returns    *)
(* happens to the state it will go on with.                                *)
(*                                                                         *)
(* heap is the state of the properties:                                    *)
(*   objs[o]   the map and the slots of an object (map 0: there is none)   *)
(*   maps[m]   a JSScope, its symbols in the order of its list             *)
(*   props[a]  the JSScopeProperty at address a                            *)
(*   cache     what the entries of the property cache hold                 *)
(*   wps[w], watching  the watchpoints and the order of their list         *)
(*   wild      memory that was freed, or never was, has been used          *)
(*   threads   the build is one with JS_THREADSAFE                         *)
(*   mix       what is called                                              *)
(***************************************************************************)
EXTENDS Integers, Sequences, SequencesExt, FiniteSets

CONSTANTS
  Objs,          \* objects
  Proto,         \* the prototype of an object, or NoObj
  Parent,        \* the next object of the scope chain, or NoObj
  Ids, Names,    \* the ids calls are made with, and those a script can write as a name
  Index,         \* of an id: the integer when it is the string of one, or itself
  Other,         \* of an id: another string of the same characters
  Addresses,     \* where a property may be allocated
  Watchpoints,   \* where a watchpoint may be allocated
  CacheIndex,    \* of an object and an id (PROPERTY_CACHE_HASH)
  JSSLOT_FREE, JS_INITIAL_NSLOTS,   \* the first less than the second
  Mixes,         \* what is called, how deep, and how many slots an object
                 \* grows to (one between two others is not used again):
                 \* [ops, ids, values, attrs, hooks, calls, slots]
  NoObj, Void    \* neither an object nor a value

VARIABLES heap, calls, iter
objectVars == <<heap, calls, iter>>

Freed == [nrefs |-> 0]
NoEntry == [object |-> NoObj, prop |-> 0]

(* The first of a non-empty set of numbers. *)
Least(S) == CHOOSE n \in S : \A k \in S : n <= k
FreeAddress(h) == Least({a \in Addresses : h.props[a] = Freed})
FreeMap(h) == Least({m \in DOMAIN h.maps : h.maps[m] = Freed})

Wild(h, what) == [h EXCEPT !.wild = @ \cup {what}]

(***************************************************************************)
(* Slots.                                                                  *)
(***************************************************************************)
Slot(h, o, slot) == IF slot \in DOMAIN h.objs[o].slots THEN h.objs[o].slots[slot] ELSE Void
SetSlot(h, o, slot, v) ==
  IF slot \in DOMAIN h.objs[o].slots THEN [h EXCEPT !.objs[o].slots[slot] = v] ELSE Wild(h, "slot")

Emptied(slots, n) == [s \in 0 .. n - 1 |-> Void]   \* mutant: allocated, not grown
Resized(slots, n) == [s \in 0 .. n - 1 |-> IF s \in DOMAIN slots THEN slots[s] ELSE Void]
Resize(h, o, m, n) == [h EXCEPT !.objs[o].slots = Resized(@, n), !.maps[m].nslots = n]

(* The slots are grown by half when there is no free one. *)
Grown(map) == LET n == IF map.freeslot > map.nslots THEN map.freeslot ELSE map.nslots
              IN IF n < JS_INITIAL_NSLOTS THEN JS_INITIAL_NSLOTS ELSE n + (n + 1) \div 2
AllocSlot(h, o, m) ==
  [(IF h.maps[m].freeslot >= h.maps[m].nslots THEN Resize(h, o, m, Grown(h.maps[m])) ELSE h)
      EXCEPT !.maps[m].freeslot = @ + 1]

(* Only the last slot is given back; slots are shrunk when half are free. *)
ShrinkSlots(h, o, m) ==
  IF h.maps[m].nslots > JS_INITIAL_NSLOTS /\ h.maps[m].freeslot < h.maps[m].nslots \div 2
  THEN Resize(h, o, m, h.maps[m].freeslot + h.maps[m].freeslot \div 2) ELSE h
FreeSlot(h, o, m, slot) ==
  ShrinkSlots([SetSlot(h, o, slot, Void) EXCEPT !.maps[m].freeslot = IF @ = slot + 1 THEN slot ELSE @], o, m)

(***************************************************************************)
(* The property cache.                                                     *)
(***************************************************************************)
Fill(h, o, id, prop) == [h EXCEPT !.cache[CacheIndex[o, id]] = [object |-> o, prop |-> prop]]
NotFound(id) == -id
FlushByProp(h, a) == [h EXCEPT !.cache = [i \in DOMAIN @ |-> IF @[i].prop = a THEN NoEntry ELSE @[i]]]

(* What a test finds: an address, NotFound(id) or 0.  An entry is known by *)
(* the first symbol of its property.                                       *)
IdOf(h, prop) == IF prop < 0 THEN -prop ELSE IF h.props[prop].symbols = <<>> THEN 0 ELSE h.props[prop].symbols[1]
Test(h, o, id) ==
  LET entry == h.cache[CacheIndex[o, id]]
  IN IF entry.prop # 0 /\ IdOf(h, entry.prop) = id /\ entry.object = o THEN entry.prop ELSE 0
TestIsWild(h, o, id) == LET p == h.cache[CacheIndex[o, id]].prop IN p > 0 /\ (h.props[p] = Freed \/ h.props[p].symbols = <<>>)

(***************************************************************************)
(* Scope properties.                                                       *)
(***************************************************************************)
NewProp(h, o, m, id, getter, setter, attrs) ==
  LET a == FreeAddress(h)
  IN [AllocSlot(h, o, m) EXCEPT
        !.props[a] = [nrefs |-> 0, id |-> id, getter |-> getter, setter |-> setter, attrs |-> attrs,
                      slot |-> h.maps[m].freeslot, symbols |-> <<>>],
        !.maps[m].props = Append(@, a)]

Hold(h, a) == [h EXCEPT !.props[a].nrefs = @ + 1]

Unlinked(h, m, a) ==
  IF m # 0 /\ h.maps[m].object # NoObj
  THEN FreeSlot([h EXCEPT !.maps[m].props = SelectSeq(@, LAMBDA p : p # a)], h.maps[m].object, m, h.props[a].slot)
  ELSE h
DestroyPropUnflushed(h, m, a) == [Unlinked(h, m, a) EXCEPT !.props[a] = Freed]   \* mutant
DestroyProp(h, m, a) == FlushByProp([Unlinked(h, m, a) EXCEPT !.props[a] = Freed], a)

Drop(h, m, a) == IF h.props[a].nrefs = 1 THEN DestroyProp(h, m, a) ELSE [h EXCEPT !.props[a].nrefs = @ - 1]

(***************************************************************************)
(* Symbols.  How a scope finds one, in a list or in a hash table, and in   *)
(* which order, makes no difference but of speed.                          *)
(***************************************************************************)
Has(h, m, id) == id \in DOMAIN h.maps[m].syms
SymProp(h, m, id) == IF Has(h, m, id) THEN h.maps[m].syms[id] ELSE 0     \* 0 also: left behind by a delete

(* A symbol lets go of its property. *)
Without(f, k) == [x \in DOMAIN f \ {k} |-> f[x]]
FreeSymbol(h, m, id, a) ==
  IF a = 0 THEN h
  ELSE LET dropped == Drop(h, m, a)
       IN IF dropped.props[a] = Freed THEN dropped
          ELSE [dropped EXCEPT !.props[a].symbols = SelectSeq(@, LAMBDA s : s # id)]

SetSymbol(h, m, id, a) == [h EXCEPT !.maps[m].syms = [x \in DOMAIN @ \cup {id} |-> IF x = id THEN a ELSE @[x]]]
Bind(h, m, id, a) == [SetSymbol(Hold(h, a), m, id, a) EXCEPT !.props[a].symbols = Append(@, id)]
AddSymbol(h, m, id, a) ==
  IF SymProp(h, m, id) = a THEN h
  ELSE Bind(FreeSymbol(SetSymbol(h, m, id, 0), m, id, SymProp(h, m, id)), m, id, a)
RemoveSymbol(h, m, id) ==
  FreeSymbol([h EXCEPT !.maps[m].syms = Without(@, id)], m, id, SymProp(h, m, id))

RECURSIVE ClearSyms(_, _)
ClearSyms(h, m) ==
  IF h.maps[m].syms = <<>> THEN h
  ELSE LET id == CHOOSE id \in DOMAIN h.maps[m].syms : TRUE IN ClearSyms(RemoveSymbol(h, m, id), m)

(***************************************************************************)
(* Objects and their maps.                                                 *)
(***************************************************************************)
EmptyMap(o, nrefs) == [object |-> o, nrefs |-> nrefs, freeslot |-> JSSLOT_FREE, nslots |-> 0,
                       props |-> <<>>, syms |-> <<>>]
MapOf(h, o) == h.objs[o].map

DropMap(h, m, o) ==
  IF h.maps[m].nrefs = 1 THEN [ClearSyms(h, m) EXCEPT !.maps[m] = Freed]
  ELSE [h EXCEPT !.maps[m].nrefs = @ - 1, !.maps[m].object = IF @ = o THEN NoObj ELSE @]

GetMutableScope(h, o) ==
  IF h.maps[MapOf(h, o)].object = o THEN h
  ELSE DropMap([h EXCEPT !.maps[FreeMap(h)] = EmptyMap(o, 1), !.objs[o].map = FreeMap(h)], MapOf(h, o), o)

(* An object shares the map of its prototype until it is written to. *)
NewObject(h, o) ==
  LET slots == [s \in 0 .. JS_INITIAL_NSLOTS - 1 |-> Void]
  IN IF Proto[o] # NoObj
     THEN [h EXCEPT !.objs[o] = [map |-> MapOf(h, Proto[o]), slots |-> slots], !.maps[MapOf(h, Proto[o])].nrefs = @ + 1]
     ELSE [h EXCEPT !.objs[o] = [map |-> FreeMap(h), slots |-> slots],
                    !.maps[FreeMap(h)] = [EmptyMap(o, 1) EXCEPT !.nslots = JS_INITIAL_NSLOTS]]

(***************************************************************************)
(* Lookup along the prototype chain.  A scope shared with the object       *)
(* before is not searched again.                                           *)
(***************************************************************************)
Nowhere(h) == [h |-> h, obj |-> NoObj, prop |-> 0]

RECURSIVE LookupFrom(_, _, _, _)
LookupFrom(h, o, id, prev) ==
  IF o = NoObj THEN Nowhere(h)
  ELSE IF MapOf(h, o) # prev /\ SymProp(h, MapOf(h, o), id) # 0
       THEN [h |-> h, obj |-> h.maps[MapOf(h, o)].object, prop |-> SymProp(h, MapOf(h, o), id)]
       ELSE LookupFrom(h, Proto[o], id, MapOf(h, o))

Held(found) == IF found.h.threads /\ found.prop > 0 THEN [found EXCEPT !.h = Hold(@, found.prop)] ELSE found
LookupProperty(h, o, id) == Held(LookupFrom(h, o, Index[id], 0))

DropProperty(h, o, a) == IF h.threads THEN Drop(h, MapOf(h, o), a) ELSE h

(* Along the scope chain, by the cache, which is told what was found and   *)
(* where nothing was.                                                      *)
RECURSIVE FindFrom(_, _, _, _)
FindFrom(h, o, id, last) ==
  IF o = NoObj THEN [h |-> h, on |-> last, obj |-> NoObj, prop |-> 0]
  ELSE IF TestIsWild(h, o, id) THEN [h |-> Wild(h, "symbol"), on |-> o, obj |-> NoObj, prop |-> 0]
  ELSE LET cached == Test(h, o, id)
           looked == LookupProperty(h, o, id)
       IN IF cached > 0
          THEN [h |-> IF h.threads THEN Hold(h, cached) ELSE h, on |-> o, obj |-> o, prop |-> cached]
          ELSE IF cached < 0 THEN FindFrom(h, Parent[o], id, o)
          ELSE IF looked.prop > 0
               THEN [h |-> Fill(looked.h, looked.obj, id, looked.prop), on |-> o, obj |-> looked.obj, prop |-> looked.prop]
               ELSE FindFrom(Fill(looked.h, o, id, NotFound(id)), Parent[o], id, o)
FindProperty(h, o, id) == FindFrom(h, o, id, NoObj)

(***************************************************************************)
(* Operations that call nobody.                                            *)
(***************************************************************************)
(* Defined anew: the property an id had before is let go of. *)
DefineIn(h, o, id, v, getter, setter, attrs) ==
  LET m == MapOf(h, o)
      a == FreeAddress(h)
  IN SetSlot(Fill(AddSymbol(NewProp(h, o, m, id, getter, setter, attrs), m, id, a), o, id, a), o, h.maps[m].freeslot, v)
DefineProperty(h, o, id, v, getter, setter, attrs) ==
  DefineIn(GetMutableScope(h, o), o, Index[id], v, getter, setter, attrs)

(* A second symbol for the property of an id. *)
AliasProperty(h, o, id, alias) ==
  LET found == LookupProperty(h, o, id)
  IN IF found.obj # o THEN IF found.prop = 0 THEN found.h ELSE DropProperty(found.h, found.obj, found.prop)
     ELSE DropProperty(AddSymbol(found.h, MapOf(h, o), alias, found.prop), o, found.prop)

SetAttributes(h, o, id, attrs) ==
  LET found == LookupProperty(h, o, id)
  IN IF found.prop = 0 THEN h
     ELSE DropProperty([found.h EXCEPT !.props[found.prop].attrs = IF found.obj = o THEN attrs ELSE @], found.obj, found.prop)

(* A watched property's symbol stays, with nothing to it. *)
Unbound(h, o, id, a) ==
  IF h.props[a].setter = "watch" /\ id \in ToSet(h.props[a].symbols)
  THEN Drop(SetSymbol(h, MapOf(h, o), id, 0), MapOf(h, o), a)
  ELSE RemoveSymbol(h, MapOf(h, o), id)
Deleted(h, o, id, a) ==
  DropProperty(Unbound(IF h.props[a].nrefs # 1 THEN Fill(h, o, id, NotFound(id)) ELSE h, o, id, a), o, a)
DeleteFound(found, o, id) ==
  IF found.prop = 0 THEN found.h
  ELSE IF found.obj # o \/ "PERMANENT" \in found.h.props[found.prop].attrs THEN DropProperty(found.h, found.obj, found.prop)
  ELSE Deleted(found.h, o, id, found.prop)
DeleteProperty(h, o, id) == DeleteFound(LookupProperty(h, o, id), o, Index[id])

ClearScope(h, o) == [ClearSyms(h, MapOf(h, o)) EXCEPT !.maps[MapOf(h, o)].freeslot = JSSLOT_FREE]

(***************************************************************************)
(* Watchpoints.                                                            *)
(***************************************************************************)
Watching(h, o, userid) ==
  LET at == SelectInSeq(h.watching, LAMBDA w : h.wps[w].object = o /\ h.wps[w].userid = userid)
  IN IF at = 0 THEN 0 ELSE h.watching[at]

DropWatchPoint(h, w) ==
  LET wp == h.wps[w]
  IN IF wp = Freed THEN Wild(h, "watchpoint")
     ELSE IF wp.nrefs > 1 THEN [h EXCEPT !.wps[w].nrefs = @ - 1]
     ELSE [Drop([h EXCEPT !.props[wp.prop].setter = wp.setter], MapOf(h, wp.object), wp.prop)
             EXCEPT !.wps[w] = Freed, !.watching = SelectSeq(@, LAMBDA x : x # w)]

(* The property to watch: the object's own, or a clone of an inherited     *)
(* one, or a new one; or that of a watchpoint whose property was deleted.  *)
NewToWatch(h, o, id) == Held([h |-> h, obj |-> o, prop |-> SymProp(h, MapOf(h, o), Index[id])])
Cloned(h, o, id, of, v) == NewToWatch(DefineProperty(h, o, id, v, of.getter, of.setter, of.attrs), o, id)
ToWatch(found, o, id, userid) ==
  IF found.prop = 0
  THEN IF Watching(found.h, o, userid) # 0
       THEN Held([found EXCEPT !.obj = o, !.prop = found.h.wps[Watching(found.h, o, userid)].prop])
       ELSE NewToWatch(DefineProperty(found.h, o, id, Void, "stub", "stub", {}), o, id)
  ELSE IF found.obj # o
  THEN Cloned(DropProperty(found.h, found.obj, found.prop), o, id, found.h.props[found.prop],
              Slot(found.h, found.obj, found.h.props[found.prop].slot))
  ELSE found

Watched(target, o, userid) ==
  LET w == Least({x \in Watchpoints : target.h.wps[x] = Freed})
      a == target.prop
  IN IF Watching(target.h, o, userid) # 0 THEN target.h
     ELSE [Hold(target.h, a) EXCEPT !.watching = Append(@, w), !.props[a].setter = "watch",
             !.wps[w] = [object |-> o, userid |-> userid, prop |-> a, setter |-> target.h.props[a].setter, nrefs |-> 1]]

SetWatchPoint(h, o, id, userid) ==
  LET target == ToWatch(LookupProperty(h, o, id), o, id, userid)
  IN DropProperty(Watched(target, o, userid), o, target.prop)
Watch(h, o, id, userid) ==
  LET found == LookupFrom(h, o, Index[id], 0)
  IN IF found.prop # 0 /\ "READONLY" \in h.props[found.prop].attrs THEN h ELSE SetWatchPoint(h, o, id, userid)

ClearWatchPoint(h, o, userid) == IF Watching(h, o, userid) = 0 THEN h ELSE DropWatchPoint(h, Watching(h, o, userid))

RECURSIVE ClearWatchPointsForObject(_, _, _)
ClearWatchPointsForObject(h, o, ws) ==
  IF ws = <<>> THEN h
  ELSE ClearWatchPointsForObject(IF h.wps[ws[1]].object = o THEN DropWatchPoint(h, ws[1]) ELSE h, o, Tail(ws))

(***************************************************************************)
(* What follows a call.                                                    *)
(***************************************************************************)
DropIf(held, h, m, a) == IF held THEN Drop(h, m, a) ELSE h

(* A get puts the value back where it came from and tells the cache. *)
Gotten(h, c) ==
  IF h.props[c.prop] = Freed /\ c.fills THEN Wild(h, "property")
  ELSE DropIf(c.held, IF c.fills THEN Fill(SetSlot(h, c.owner, c.slot, c.v), c.owner, c.id, c.prop)
                      ELSE SetSlot(h, c.owner, c.slot, c.v), MapOf(h, c.owner), c.prop)
AfterGet(h, c, ok) == IF ok THEN Gotten(h, c) ELSE DropIf(c.held, h, MapOf(h, c.owner), c.prop)

(* A set stores the value unless the property was lost meanwhile; after a  *)
(* hit in the cache, the property is asked for its slot once more.         *)
StoreUnless(h, c) == IF h.threads /\ h.props[c.prop] = Freed THEN h ELSE SetSlot(h, c.on, c.slot, c.v)
AfterCachedSet(h, c) ==
  IF h.props[c.prop] = Freed THEN Wild(h, "property") ELSE SetSlot(h, c.on, h.props[c.prop].slot, c.v)
AfterSet(h, c, ok) ==
  IF c.k = "cached set" THEN IF ok THEN AfterCachedSet(h, c) ELSE h
  ELSE IF ok THEN StoreUnless(DropIf(h.threads, h, c.map, c.prop), c) ELSE DropIf(h.threads, h, c.map, c.prop)

(* A handler's watchpoint is let go of first. *)
AfterHandler(h, c) == IF c.watch = 0 THEN h ELSE DropWatchPoint(h, c.watch)
After(h, c, ok) == IF c.k = "get" THEN AfterGet(h, c, ok) ELSE AfterSet(AfterHandler(h, c), c, ok)

(***************************************************************************)
(* Operations that may call out.  Each gives the heap at its call and what *)
(* it still has to do (k = "none": nothing).                               *)
(***************************************************************************)
Done(h) == [h |-> h, k |-> "none"]

(* js_watch_set: the handler of the first watchpoint on the property.      *)
WatchpointOn(h, o, propid) ==
  LET at == SelectInSeq(h.watching, LAMBDA w : h.wps[w].object = o /\ h.props[h.wps[w].prop].id = propid)
  IN IF at = 0 THEN 0 ELSE h.watching[at]
Relinked(h, o, w) ==    \* the property was deleted: its symbol is made again
  LET a == h.wps[w].prop IN IF h.props[a].symbols = <<>> THEN AddSymbol(h, MapOf(h, o), h.wps[w].userid, a) ELSE h
WatchSet(h, o, propid, rest) ==
  LET w == WatchpointOn(h, o, propid)
  IN IF w = 0 THEN Done(Wild(AfterSet(h, rest, FALSE), "assertion"))
     ELSE IF h.wps[w].setter = "watch" THEN Done(Wild(h, "recursion"))
     ELSE [rest EXCEPT !.watch = w, !.h = [Relinked(h, o, w) EXCEPT !.wps[w].nrefs = @ + 1]]

(* The setter of property a is called: rest is what follows it. *)
CallSetter(h, o, a, rest) ==
  IF h.props[a].setter = "watch" THEN WatchSet(h, o, h.props[a].id, rest) ELSE [rest EXCEPT !.h = h]

SetRest(h, o, a, v, hit) ==
  [h |-> h, k |-> IF hit THEN "cached set" ELSE "set", on |-> o, prop |-> a, slot |-> h.props[a].slot, v |-> v,
   map |-> MapOf(h, o), watch |-> 0, stub |-> h.props[a].setter = "stub"]
SetFound(h, o, a, v) ==
  IF "READONLY" \in h.props[a].attrs THEN Done(h)
  ELSE CallSetter(IF h.threads THEN Hold(h, a) ELSE h, o, a, SetRest(h, o, a, v, FALSE))

(* The slot of a deleted property that is still watched is made again. *)
Regrown(h, o, m, slot) ==
  IF slot < h.maps[m].freeslot THEN h
  ELSE [(IF slot >= h.maps[m].nslots THEN Resize(h, o, m, slot + slot \div 2) ELSE h) EXCEPT !.maps[m].freeslot = slot + 1]

RECURSIVE Inherited(_, _, _)     \* js_SetProperty's own search of the prototypes
Inherited(h, o, id) ==
  IF o = NoObj THEN 0
  ELSE IF SymProp(h, MapOf(h, o), id) # 0 THEN SymProp(h, MapOf(h, o), id) ELSE Inherited(h, Proto[o], id)

NewLike(h, o, m, id, a) ==
  IF a = 0 THEN NewProp(h, o, m, id, "stub", "stub", {"ENUMERATE"})
  ELSE [NewProp(h, o, m, id, h.props[a].getter, h.props[a].setter, h.props[a].attrs)
          EXCEPT !.props[FreeAddress(h)].id = h.props[a].id]

Bound(h, o, m, id, a) ==    \* the symbol a delete left gets the property; or there is a new one
  IF Has(h, m, id) THEN SetSymbol(Hold(h, a), m, id, a) ELSE Fill(AddSymbol(h, m, id, a), o, id, a)

SetNew(h, o, m, id, like, v) ==
  LET a == FreeAddress(h)
  IN IF like # 0 /\ "READONLY" \in h.props[like].attrs THEN Done(h)
     ELSE SetFound(Bound(SetSlot(NewLike(h, o, m, id, like), o, h.maps[m].freeslot, Void), o, m, id, a), o, a, v)

SetIn(h, o, m, id, v) ==
  LET watched == IF Has(h, m, id) THEN Watching(h, o, id) ELSE 0
  IN IF SymProp(h, m, id) # 0 THEN SetFound(h, o, SymProp(h, m, id), v)
     ELSE IF watched # 0
     THEN SetFound(Regrown(h, o, m, h.props[h.wps[watched].prop].slot), o, h.wps[watched].prop, v)
     ELSE SetNew(h, o, m, id, Inherited(h, Proto[o], id), v)

SetOwn(h, o, id, v) == SetIn(h, o, MapOf(h, o), id, v)
SetProperty(h, o, id, v) == SetOwn(GetMutableScope(h, o), o, Index[id], v)

(* What the interpreter does: the cache first. *)
CachedSet(h, o, id, v) ==
  LET a == Test(h, o, id)
  IN IF TestIsWild(h, o, id) THEN Done(Wild(h, "symbol"))
     ELSE IF a > 0 /\ "READONLY" \notin h.props[a].attrs THEN CallSetter(h, o, a, SetRest(h, o, a, v, TRUE))
     ELSE SetProperty(h, o, id, v)

GetRest(h, o, owner, a, id, held, fills) ==
  [h |-> h, k |-> "get", on |-> o, owner |-> owner, prop |-> a, id |-> id, slot |-> h.props[a].slot,
   v |-> Slot(h, owner, h.props[a].slot), map |-> MapOf(h, owner), held |-> held, fills |-> fills, watch |-> 0,
   stub |-> h.props[a].getter = "stub"]
GetFound(found, o, id, held, fills) ==
  IF found.prop = 0 THEN Done(found.h)
  ELSE IF found.obj = NoObj THEN Done(Wild(found.h, "owner"))
  ELSE GetRest(found.h, o, found.obj, found.prop, id, held, fills)
GetProperty(h, o, id) == GetFound(LookupProperty(h, o, id), o, id, h.threads, TRUE)

CachedGet(h, o, id) ==
  IF TestIsWild(h, o, id) THEN Done(Wild(h, "symbol"))
  ELSE IF Test(h, o, id) > 0 THEN GetRest(h, o, o, Test(h, o, id), id, FALSE, FALSE)
  ELSE GetProperty(h, o, id)

(* Names: JSOP_NAME, JSOP_SETNAME (which makes a variable of a name that   *)
(* is nowhere, and keeps the property of no one), JSOP_DELNAME.            *)
GetName(h, o, id) == LET found == FindProperty(h, o, id) IN GetFound(found, found.on, id, h.threads, FALSE)

NameDropped(found) == IF found.prop = 0 THEN found.h ELSE DropProperty(found.h, found.obj, found.prop)
Variable(found, id) ==
  IF found.prop = 0 THEN DefineProperty(found.h, found.on, id, Void, "stub", "stub", {"ENUMERATE"}) ELSE NameDropped(found)
SetName(h, o, id, v) == LET found == FindProperty(h, o, id) IN CachedSet(Variable(found, id), found.on, id, v)
DeleteName(h, o, id) ==
  LET found == FindProperty(h, o, id) IN IF found.prop = 0 THEN found.h ELSE DeleteProperty(NameDropped(found), found.on, id)

(***************************************************************************)
(* for/in: the ids of a scope are taken at once, a scope at a time.        *)
(***************************************************************************)
NoLoop == [on |-> NoObj]
Listed(h, o) ==
  LET m == MapOf(h, o)
      here == SelectSeq(h.maps[m].props, LAMBDA a : "ENUMERATE" \in h.props[a].attrs /\ h.props[a].symbols # <<>>)
  IN IF Proto[o] # NoObj /\ MapOf(h, Proto[o]) = m THEN <<>> ELSE [i \in DOMAIN here |-> h.props[here[i]].symbols[1]]
Shadowed(h, loop, id) ==
  /\ loop.at # loop.on
  /\ LET found == LookupFrom(h, loop.on, id, 0) IN found.prop # 0 /\ found.obj # loop.at

(* stay: what has been there, and seen from the object, since the start.   *)
Visible(h, on, e) ==
  LET found == LookupFrom(h, on, e.id, 0)
  IN found.prop = e.prop /\ found.obj = e.obj /\ "ENUMERATE" \in h.props[e.prop].attrs /\ h.props[e.prop].symbols[1] = e.id
Stays(h, loop) == IF loop = NoLoop THEN loop ELSE [loop EXCEPT !.stay = {e \in @ : Visible(h, loop.on, e)}]
AtStart(h, o) ==
  {e \in [obj : Objs, prop : {a \in Addresses : h.props[a] # Freed}, id : h.mix.ids] : h.objs[e.obj].map # 0 /\ Visible(h, o, e)}

RECURSIVE Advance(_, _)
Advance(h, loop) ==
  IF loop.ids = <<>>
  THEN IF Proto[loop.at] = NoObj THEN NoLoop
       ELSE Advance(h, [loop EXCEPT !.at = Proto[@], !.ids = Listed(h, Proto[loop.at])])
  ELSE IF Shadowed(h, loop, Head(loop.ids)) THEN Advance(h, [loop EXCEPT !.ids = Tail(@)])
  ELSE [loop EXCEPT !.ids = Tail(@), !.seen = Append(@, Head(loop.ids))]

-----------------------------------------------------------------------------
Init ==
  /\ \E mix \in Mixes, threads \in BOOLEAN :
     heap = NewObject([mix |-> mix, threads |-> threads, objs |-> [o \in Objs |-> [map |-> 0, slots |-> <<>>]], maps |-> [m \in 1 .. Cardinality(Objs) |-> Freed],
                       props |-> [a \in Addresses |-> Freed], cache |-> [i \in {CacheIndex[e] : e \in DOMAIN CacheIndex} |-> NoEntry],
                       wps |-> [w \in Watchpoints |-> Freed], watching |-> <<>>, wild |-> {}],
                      CHOOSE o \in Objs : Proto[o] = NoObj)
  /\ calls = <<>> /\ iter = NoLoop

Alive(o) == o # NoObj /\ heap.objs[o].map # 0
Room == /\ \E a \in Addresses : heap.props[a] = Freed
        /\ \A m \in DOMAIN heap.maps : heap.maps[m] # Freed => heap.maps[m].freeslot < heap.mix.slots
May(op) == op \in heap.mix.ops /\ heap.wild = {}

(* Callers that know the code: none ends a property that a call out still  *)
(* uses and does not hold, deletes what is watched, watches a property     *)
(* twice or one that inherits a watch, or ends a watchpoint in its handler *)
(* (README, "What the properties get wrong").                              *)
Uses(c) == IF c.k = "get" THEN ~ c.held ELSE c.k = "cached set" \/ ~ heap.threads    \* and does not hold
HasWatch(h, a) == \E i \in DOMAIN h.watching : h.wps[h.watching[i]].prop = a
Careful(h) ==
  /\ \A i \in DOMAIN calls : Uses(calls[i]) => h.props[calls[i].prop] # Freed
  /\ \A i \in DOMAIN calls : calls[i].watch # 0 => h.wps[calls[i].watch].nrefs = heap.wps[calls[i].watch].nrefs
  /\ \A i \in DOMAIN h.watching :
       LET wp == h.wps[h.watching[i]]
       IN /\ h.props[wp.prop].symbols # <<>>
          /\ \A k \in DOMAIN h.props[wp.prop].symbols : SymProp(h, MapOf(h, wp.object), h.props[wp.prop].symbols[k]) = wp.prop
          /\ wp.setter # "watch"
          /\ \A j \in DOMAIN h.watching : h.wps[h.watching[j]].prop = wp.prop => i = j
  /\ \A a \in Addresses : h.props[a] # Freed /\ h.props[a].setter = "watch" => HasWatch(h, a)

(* An operation runs, to its end or to a call. *)
Step(h) == (Careful(h) \/ "Careless" \in heap.mix.ops) /\ heap' = h /\ iter' = Stays(h, iter) /\ UNCHANGED calls
Run(r) ==
  IF r.k = "none" THEN Step(r.h)
  ELSE IF r.stub THEN Step(After(r.h, r, TRUE))
  ELSE /\ Len(calls) < heap.mix.calls /\ (Careful(r.h) \/ "Careless" \in heap.mix.ops)
       /\ heap' = r.h /\ calls' = Append(calls, [r EXCEPT !.h = 0]) /\ iter' = Stays(r.h, iter)

Return(ok) ==
  /\ calls # <<>> /\ heap.wild = {}
  /\ heap' = After(heap, Last(calls), ok) /\ calls' = Front(calls) /\ iter' = Stays(heap', iter)

Create(o) == May("Create") /\ ~ Alive(o) /\ Alive(Proto[o]) /\ Step(NewObject(heap, o))

(* None defines a property anew inside its getter or setter, or deletes it *)
(* inside a second one.                                                    *)
InUse(o, id, n) == Cardinality({i \in DOMAIN calls : calls[i].prop = SymProp(heap, MapOf(heap, o), Index[id])}) >= n

Define(o, id, attrs, hook) == 
  /\ May("Define") /\ Alive(o) /\ Room /\ ~ InUse(o, id, 1) /\ \E v \in heap.mix.values : Step(DefineProperty(heap, o, id, v, hook, hook, attrs))
Alias(o, id, alias) ==   \* the library makes its aliases before they are used
  May("Alias") /\ Alive(o) /\ Test(heap, o, alias) = 0 /\ Step(AliasProperty(heap, o, id, alias))
Attribute(o, id, attrs) == May("Attribute") /\ Alive(o) /\ Step(SetAttributes(heap, o, id, attrs))
Delete(o, id) == May("Delete") /\ Alive(o) /\ ~ InUse(o, id, 2) /\ Step(DeleteProperty(heap, o, id))
Clear(o) ==   \* no one clears what is held
  May("Clear") /\ Alive(o) /\ calls = <<>> /\ heap.watching = <<>> /\ Step(ClearScope(heap, o))
SetWatch(o, id, userid) ==
  /\ May("Watch") /\ Alive(o) /\ Room /\ (\E w \in Watchpoints : heap.wps[w] = Freed)
  /\ Step(Watch(heap, o, id, userid))
Unwatch(o, userid) == May("Watch") /\ Alive(o) /\ Step(ClearWatchPoint(heap, o, userid))

Set(o, id) == May("Set") /\ Alive(o) /\ Room /\ \E v \in heap.mix.values : Run(SetProperty(heap, o, id, v))
SetCached(o, id) == May("Set") /\ Alive(o) /\ Room /\ \E v \in heap.mix.values : Run(CachedSet(heap, o, id, v))
Get(o, id) == May("Get") /\ Alive(o) /\ Run(GetProperty(heap, o, id))
GetCached(o, id) == May("Get") /\ Alive(o) /\ Run(CachedGet(heap, o, id))
NameGet(o, id) == May("Name") /\ Alive(o) /\ Run(GetName(heap, o, id))
NameSet(o, id) == May("Name") /\ Alive(o) /\ Room /\ \E v \in heap.mix.values : Run(SetName(heap, o, id, v))
NameDelete(o, id) == May("Name") /\ Alive(o) /\ Step(DeleteName(heap, o, id))

Loop(o) == /\ May("Loop") /\ Alive(o) /\ iter = NoLoop
           /\ iter' = Advance(heap, [on |-> o, at |-> o, ids |-> Listed(heap, o), seen |-> <<>>, stay |-> AtStart(heap, o)])
           /\ UNCHANGED <<heap, calls>>
LoopNext == /\ May("Loop") /\ iter # NoLoop /\ iter' = Advance(heap, iter) /\ UNCHANGED <<heap, calls>>

(* What is not reachable is finalized, in any order. *)
Flushed(h) == [h EXCEPT !.cache = [i \in DOMAIN @ |-> NoEntry]]
Finalized(h, o) ==
  [DropMap(ClearWatchPointsForObject(h, o, h.watching), MapOf(h, o), o) EXCEPT !.objs[o] = [map |-> 0, slots |-> <<>>]]
Collect(order) ==
  /\ May("Collect") /\ calls = <<>> /\ iter = NoLoop
  /\ \A i \in DOMAIN order : Alive(order[i])
  /\ \A o \in Objs \ ToSet(order) : Alive(o) => Proto[o] \notin ToSet(order)
  /\ Step(FoldLeft(Finalized, Flushed(heap), order))

Next ==
  \/ \E ok \in BOOLEAN : Return(ok)
  \/ \E o \in Objs : Create(o) \/ Clear(o) \/ Loop(o)
  \/ \E o \in Objs, id \in heap.mix.ids :
       \/ \E attrs \in heap.mix.attrs, hook \in heap.mix.hooks : Define(o, id, attrs, hook)
       \/ \E alias \in Names \cap heap.mix.ids : Alias(o, id, alias)
       \/ \E attrs \in heap.mix.attrs : Attribute(o, id, attrs)
       \/ Delete(o, id) \/ SetWatch(o, id, id) \/ SetWatch(o, id, Other[id]) \/ Unwatch(o, id) \/ Unwatch(o, Other[id])
       \/ Set(o, id) \/ SetCached(o, id) \/ Get(o, id) \/ GetCached(o, id)
  \/ \E o \in Objs, id \in Names \cap heap.mix.ids : NameGet(o, id) \/ NameSet(o, id) \/ NameDelete(o, id)
  \/ LoopNext
  \/ \E order \in SetToAllKPermutations(Objs) : order # <<>> /\ Collect(order)

Spec == Init /\ [][Next]_objectVars

-----------------------------------------------------------------------------
Maps == {m \in DOMAIN heap.maps : heap.maps[m] # Freed}
Props == {a \in Addresses : heap.props[a] # Freed}
Owned(o) == Alive(o) /\ heap.maps[MapOf(heap, o)].object = o

(* Who refers to a property: symbols, watchpoints, calls that hold it. *)
SymbolsOf(a) == {<<m, id>> \in Maps \X Ids : SymProp(heap, m, id) = a}
WatchedBy(a) == {w \in Watchpoints : heap.wps[w] # Freed /\ heap.wps[w].prop = a}
HeldBy(a) == {i \in DOMAIN calls : calls[i].prop = a /\ ~ Uses(calls[i])}
CountsExact ==
  \A a \in Props : /\ heap.props[a].nrefs = Cardinality(SymbolsOf(a)) + Cardinality(WatchedBy(a)) + Cardinality(HeldBy(a))
                   /\ Cardinality({m \in Maps : a \in ToSet(heap.maps[m].props)}) = 1

(* Each property of an object has a slot of its own, and there is one.     *)
SlotsExact ==
  \A m \in Maps : heap.maps[m].object # NoObj =>
    LET map == heap.maps[m]
    IN /\ \A i, j \in DOMAIN map.props : heap.props[map.props[i]].slot = heap.props[map.props[j]].slot => i = j
       /\ \A a \in ToSet(map.props) : heap.props[a].slot \in (JSSLOT_FREE .. map.freeslot - 1) \cap DOMAIN heap.objs[map.object].slots
       /\ \A id \in DOMAIN map.syms :
            map.syms[id] # 0 => map.syms[id] \in ToSet(map.props) /\ id \in ToSet(heap.props[map.syms[id]].symbols)

(* A hit of the cache is the object's own property of the id; where it is  *)
(* said that there is none, the object has none.                           *)
CacheExact ==
  \A o \in Objs, id \in heap.mix.ids : Alive(o) =>
    /\ ~ TestIsWild(heap, o, id)
    /\ Test(heap, o, id) > 0 => Owned(o) /\ SymProp(heap, MapOf(heap, o), Index[id]) = Test(heap, o, id)
    /\ Test(heap, o, id) < 0 => ~ (Owned(o) /\ SymProp(heap, MapOf(heap, o), Index[id]) # 0)

(* for/in visits what stays there once: when its object is passed, it was. *)
Visits(id) == Cardinality({i \in DOMAIN iter.seen : iter.seen[i] = id})
Passed(e) == IF e.obj = iter.at THEN e.id \notin ToSet(iter.ids) ELSE e.obj = iter.on
VisitedOnce == iter # NoLoop => \A e \in iter.stay : Visits(e.id) = IF Passed(e) THEN 1 ELSE 0

Sound == heap.wild = {} /\ CountsExact /\ SlotsExact /\ CacheExact /\ VisitedOnce

(* What objects are to those who use them. *)
Own(o) ==
  IF ~ Alive(o) THEN {<<>>}
  ELSE IF ~ Owned(o) THEN {}
  ELSE LET syms == heap.maps[MapOf(heap, o)].syms
       IN {[ids |-> {id \in DOMAIN syms : syms[id] = a}, v |-> Slot(heap, o, heap.props[a].slot), attrs |-> heap.props[a].attrs] :
             a \in {syms[id] : id \in DOMAIN syms} \ {0}}
Abstract == INSTANCE PropertyMap WITH own <- [o \in Objs |-> Own(o)]

(* The return of a call changes the value of no property but its own. *)
KeepsToItsProperty ==
  Len(calls') < Len(calls) =>
    \A m \in Maps, a \in Props :
      heap.maps[m].object # NoObj /\ a \in ToSet(heap.maps[m].props) /\ a # Last(calls).prop =>
        Slot(heap', heap.maps[m].object, heap.props[a].slot) = Slot(heap, heap.maps[m].object, heap.props[a].slot)
ImplementsPropertyMap == Abstract!Spec /\ [][KeepsToItsProperty]_objectVars
=============================================================================
