---------------------------- MODULE JavaMembers -----------------------------
(***************************************************************************)
(* LiveConnect between the two languages (liveconnect/jsj_convert.c,       *)
(* jsj_method.c, jsj_array.c): JavaScript values made Java values and      *)
(* back, the choice among Java methods of one name, the call of the chosen *)
(* one.  The virtual machine is external: Supers gives the classes an      *)
(* object of a class may stand for, Component the type of an array's       *)
(* elements.  A number is counted in halves.                               *)
(*                                                                         *)
(* Java classes and objects as LiveConnect shows them to scripts           *)
(* (liveconnect/jsj_class.c, jsj_method.c, jsj_field.c, jsj_JavaObject.c,  *)
(* jsj_JavaClass.c, jsj_JavaArray.c, jsj_JavaPackage.c).  The members of a *)
(* class are put in lists of its descriptor d when one is first asked for, *)
(* the instance ones and the static ones apart; a name that spells out the *)
(* types of a method's arguments, as f(int,long), adds a member of its     *)
(* own.  A name is a sequence of tokens.  cls is the class as the virtual  *)
(* machine describes it.                                                   *)
(***************************************************************************)
EXTENDS Integers, Sequences, SequencesExt, FiniteSets

CONSTANTS Supers, Component, DoubleValued, Ecma,
          Limits, JSVAL_INT_MAX, NaN, Infinity

(* JavaScript values; the payload of a string and of an object is the      *)
(* number it reads as (0 that of the empty string only), that of a letter, *)
(* a string of one character, its code, that of a wrapped Java object its  *)
(* class and number.                                                       *)
JS(is, of) == [is |-> is, of |-> of]
Undefined == JS("undefined", 0)
Null == JS("null", 0)
Number(n) == JS("number", n)
Wrapped(v) == v.is \in {"JavaObject", "JavaArray"}
IsInstanceOf(v, t) == t \in Supers[v.of.class]
IsAssignableFrom(t, u) == u \in Supers[t]

(* get_signature_type, compute_java_class_signature: the class of a type. *)
Primitives == <<"boolean", "char", "byte", "short", "int", "long", "float", "double">>
Known == <<"Boolean", "Class", "Double", "JSObject", "Object", "String">>
Signatures == Primitives \o <<"array", "object">> \o Known
SignatureOf(t) == IF t \in DOMAIN Component THEN "array" ELSE IF t \in Range(Primitives \o Known) THEN t ELSE "object"
Reference(t) == t \notin Range(Primitives) /\ t # "void"

(* What JS_ConvertValue makes of a value, JavaObject_convert of an object. *)
doubleValue(v) == IF v.of.class \in DoubleValued THEN Number(v.of.number) ELSE JS("string", v.of.number)
NumberOf(v) ==
  CASE v.is \in {"number", "string", "object", "member"} -> v.of
    [] v.is = "boolean" -> IF v.of = 1 THEN 2 ELSE 0
    [] v.is = "null" -> 0
    [] Wrapped(v) -> doubleValue(v).of
    [] OTHER -> NaN
BooleanOf(v) ==
  CASE v.is \in {"undefined", "null"} -> 0
    [] v.is \in {"boolean", "number", "string", "letter"} -> IF v.of \in {0, NaN} THEN 0 ELSE 1
    [] Wrapped(v) /\ ~ Ecma /\ v.of.class = "Boolean" -> v.of.number
    [] OTHER -> 1

(* A conversion: whether it succeeded, the Java value, whether that is a   *)
(* new local reference.                                                    *)
Converted(what, value) == [ok |-> TRUE, what |-> what, value |-> value, local |-> FALSE]
Created(class, value) == [ok |-> TRUE, what |-> class, value |-> value, local |-> TRUE]
NotConverted == [ok |-> FALSE, what |-> "error", value |-> 0, local |-> FALSE]

FitsJsval(n) == n % 2 = 0 /\ n \in -2 * (JSVAL_INT_MAX + 1) .. 2 * JSVAL_INT_MAX
(* The least long less one is the least long: a double has no room for it. *)
Below(type) == IF type = "long" THEN Limits[type][1] ELSE Limits[type][1] - 1
Cut(n) == IF n >= 0 THEN n \div 2 ELSE -((-n) \div 2)
Wrapping(type, i) == Limits[type][1] + ((i - Limits[type][1]) % (Limits[type][2] - Limits[type][1] + 1))
JSVAL_TO_INTEGRAL_JVALUE(type, n) ==
  LET i == n \div 2 IN
  IF FitsJsval(n) THEN IF Wrapping(type, i) # i THEN NotConverted ELSE Converted(type, i)
  ELSE IF n = NaN \/ n >= 2 * (Limits[type][2] + 1) \/ n <= 2 * Below(type) THEN NotConverted
  ELSE Converted(type, Cut(n))

convert_js_obj_to_JSObject_wrapper(v, t) ==
  IF IsAssignableFrom("JSObject", t) THEN Created("JSObject", v) ELSE NotConverted
ToJavaString(v, t) == IF IsAssignableFrom("String", t) THEN Created("String", NumberOf(v)) ELSE NotConverted
FirstOf(a, b) == IF a.ok THEN a ELSE b
jsj_ConvertJSValueToJavaObject(v, t) ==
  CASE v.is = "null" -> Converted("null", 0)
    [] Wrapped(v) -> IF IsInstanceOf(v, t) THEN Converted("itself", v) ELSE ToJavaString(v, t)
    [] v.is = "JavaClass" ->
         IF IsAssignableFrom("Class", t) THEN Converted("Class", v)
         ELSE FirstOf(convert_js_obj_to_JSObject_wrapper(v, t), ToJavaString(v, t))
    [] v.is = "object" -> FirstOf(convert_js_obj_to_JSObject_wrapper(v, t), ToJavaString(v, t))
    [] v.is = "number" -> IF IsAssignableFrom("Double", t) THEN Created("Double", v.of) ELSE ToJavaString(v, t)
    [] v.is = "boolean" -> IF IsAssignableFrom("Boolean", t) THEN Created("Boolean", v.of) ELSE ToJavaString(v, t)
    [] OTHER -> ToJavaString(v, t)

jsj_ConvertJSValueToJavaValue(v, t) ==
  CASE t = "boolean" -> Converted(t, BooleanOf(v))
    [] t = "char" /\ v.is = "letter" -> JSVAL_TO_INTEGRAL_JVALUE(t, 2 * v.of)
    [] t \in {"short", "byte", "char", "int", "long"} -> JSVAL_TO_INTEGRAL_JVALUE(t, NumberOf(v))
    [] t \in {"float", "double"} -> Converted(t, NumberOf(v))
    [] OTHER -> jsj_ConvertJSValueToJavaObject(v, t)

(* jsj_ConvertJavaObjectToJSValue, jsj_ConvertJavaValueToJSValue.  A new   *)
(* Java object is reflected by a new JavaObject.                           *)
jsj_ConvertJavaObjectToJSValue(r) ==
  CASE r.what = "null" -> Null
    [] r.what \in {"itself", "JSObject"} -> r.value
    [] r.what = "Class" -> JS("JavaObject", [class |-> "Class", number |-> NaN])
    [] OTHER -> JS("JavaObject", [class |-> r.what, number |-> r.value])
jsj_ConvertJavaValueToJSValue(t, r) ==
  CASE t = "void" -> Undefined
    [] t = "boolean" -> JS("boolean", r.value)
    [] t \in {"short", "byte", "char", "int", "long"} -> Number(2 * r.value)
    [] t \in {"float", "double"} -> Number(r.value)
    [] OTHER -> jsj_ConvertJavaObjectToJSValue(r)

-----------------------------------------------------------------------------
(* The choice of a method: one argument, then all, then the methods. *)
compute_jsj_type(v) == IF v.is = "member" THEN "object" ELSE IF v.is = "letter" THEN "string" ELSE v.is
rank_table ==
  [undefined  |-> <<99, 99, 99, 99, 99, 99, 99, 99, 99, 99, 99, 99, 99, 99,  1,  1>>,
   boolean    |-> << 1, 99, 99, 99, 99, 99, 99, 99, 99, 99,  2, 99, 99, 99,  3,  4>>,
   number     |-> <<99,  7,  8,  6,  5,  4,  3,  1, 99, 99, 99, 99,  2, 99, 11,  9>>,
   string     |-> <<99,  3,  4,  4,  4,  4,  4,  4, 99, 99, 99, 99, 99, 99,  2,  1>>,
   null       |-> <<99, 99, 99, 99, 99, 99, 99, 99,  1,  1,  1,  1,  1,  1,  1,  1>>,
   JavaClass  |-> <<99, 99, 99, 99, 99, 99, 99, 99, 99, 99, 99,  1, 99,  2,  3,  4>>,
   JavaObject |-> <<99,  7,  8,  6,  5,  4,  3,  2,  0,  0,  0,  0,  0,  0,  0,  1>>,
   JavaArray  |-> <<99, 99, 99, 99, 99, 99, 99, 99,  0,  0, 99, 99, 99, 99,  0,  1>>,
   object     |-> <<99,  9, 10,  8,  7,  6,  5,  4, 99, 99, 99, 99, 99,  1,  2,  3>>]
Column(t) == CHOOSE k \in DOMAIN Signatures : Signatures[k] = SignatureOf(t)
Rank(v, t) == rank_table[compute_jsj_type(v)][Column(t)]

ArgumentMatches(v, t, rank) == rank # 99 /\ (rank = 0 => IsInstanceOf(v, t))
method_signature_matches_JS_args(argv, args) ==
  Len(argv) = Len(args) /\ \A i \in DOMAIN argv : ArgumentMatches(argv[i], args[i], Rank(argv[i], args[i]))

(* JSJPREF_FIRST_ARG, JSJPREF_SECOND_ARG, JSJPREF_AMBIGUOUS. *)
First == 1
Second == 2
Ambiguous == 3
ByRank(rank1, rank2) == IF rank1 < rank2 THEN First ELSE IF rank1 > rank2 THEN Second ELSE Ambiguous
preferred_conversion(v, t1, t2, rank1, rank2) ==
  IF Wrapped(v) /\ Reference(t2)
  THEN IF ~ IsInstanceOf(v, t2) THEN First
       ELSE IF rank2 < rank1 THEN Second
       ELSE IF IsAssignableFrom(t1, t2) THEN First
       ELSE IF IsAssignableFrom(t2, t1) THEN Second
       ELSE Ambiguous
  ELSE ByRank(rank1, rank2)
PreferredType(v, t1, t2) == preferred_conversion(v, t1, t2, Rank(v, t1), Rank(v, t2))
Or(p, q) == IF p = 0 \/ p = q THEN q ELSE IF q = 0 THEN p ELSE Ambiguous
method_preferred(argv, args1, args2) ==
  FoldLeft(LAMBDA preference, i : IF preference = Ambiguous \/ args1[i] = args2[i] THEN preference
                                  ELSE Or(preference, PreferredType(argv[i], args1[i], args2[i])),
           0, [i \in DOMAIN argv |-> i])

NoMethod == [found |-> "none", method |-> 0, list |-> {}]
Chosen(m) == [found |-> "method", method |-> m, list |-> {}]
(* One more method m compared with the best so far. *)
Compare(methods, argv, s, m) ==
  LET preference == method_preferred(argv, methods[s.best], methods[m]) IN
  IF Len(methods[m]) # Len(argv) THEN s
  ELSE IF preference = Second THEN [s EXCEPT !.best = m]
  ELSE IF preference = Ambiguous THEN [s EXCEPT !.list = @ \cup {m}]
  ELSE s
Settle(methods, argv, s, left) ==
  IF left # {} THEN [found |-> "ambiguous", method |-> 0, list |-> left \cup {s.best}] ELSE Chosen(s.best)
Maximal(methods, argv, s) ==
  Settle(methods, argv, s, {m \in s.list : method_preferred(argv, methods[s.best], methods[m]) # First})
BestFrom(methods, argv, first) ==
  IF first = Len(methods) THEN Chosen(first)
  ELSE Maximal(methods, argv, FoldLeft(LAMBDA s, m : Compare(methods, argv, s, m), [best |-> first, list |-> {}],
                                       [k \in 1 .. Len(methods) - first |-> first + k]))
resolve_overloaded_method(methods, argv) ==
  LET matching == {m \in DOMAIN methods : method_signature_matches_JS_args(argv, methods[m])} IN
  IF matching = {} THEN NoMethod ELSE BestFrom(methods, argv, CHOOSE m \in matching : \A k \in matching : m <= k)

-----------------------------------------------------------------------------
(* convert_JS_method_args_to_java_argv: at the first argument that cannot  *)
(* be converted the references made for the earlier ones stay.             *)
ConvertArguments(argv, args) ==
  FoldLeft(LAMBDA s, i : LET r == jsj_ConvertJSValueToJavaValue(argv[i], args[i]) IN
             IF ~ s.ok THEN s
             ELSE [ok |-> r.ok, passed |-> Append(s.passed, r), left |-> s.left + (IF r.local THEN 1 ELSE 0)],
           [ok |-> TRUE, passed |-> <<>>, left |-> 0], [i \in DOMAIN argv |-> i])

(* invoke_java_method, invoke_java_constructor: the thread's default       *)
(* context during the call and after it, the references left, the answer.  *)
(* The virtual machine answers what the method returns, or throws.         *)
Called(error, passed, during, after, left, value) ==
  [error |-> error, passed |-> passed, during |-> during, after |-> after, left |-> left, value |-> value]
InvokeWith(a, cx, old, returns, answer, throws) ==
  IF ~ a.ok THEN Called("argument", a.passed, old, old, a.left, Undefined)
  ELSE IF throws THEN Called("thrown", a.passed, cx, old, 0, Undefined)
  ELSE Called("no", a.passed, cx, old, 0, jsj_ConvertJavaValueToJSValue(returns, answer))
Invoke(method, argv, cx, old, answer, throws) ==
  InvokeWith(ConvertArguments(argv, method.args), cx, old, method.returns, answer, throws)

(* java_constructor_wrapper: an abstract class, an interface and a class   *)
(* that is not public are refused before a constructor is looked for.      *)
Constructible(class) == ~ class.abstract /\ ~ class.interface /\ class.public
-----------------------------------------------------------------------------

RECURSIVE jsj_ConvertJavaSignatureToHRString(_)
jsj_ConvertJavaSignatureToHRString(t) ==
  IF t \in DOMAIN Component THEN jsj_ConvertJavaSignatureToHRString(Component[t]) \o <<"[]">> ELSE <<t>>
HRArguments(args) ==
  FoldLeft(LAMBDA text, i : text \o (IF i = 1 THEN <<>> ELSE <<",">>) \o jsj_ConvertJavaSignatureToHRString(args[i]),
           <<>>, [i \in DOMAIN args |-> i])

Member(id, name, field, methods) == [id |-> id, name |-> name, field |-> field, methods |-> methods]
NewDescriptor == [static |-> <<>>, instance |-> <<>>, constructors |-> <<>>, reflected |-> {}, count |-> [static |-> 0, instance |-> 0]]
Where(static) == IF static THEN "static" ELSE "instance"
Places(list, id) == {k \in DOMAIN list : list[k].id = id}
Least(S) == CHOOSE k \in S : \A j \in S : k <= j

(* jsj_GetJavaMemberDescriptor, jsj_GetJavaStaticMemberDescriptor: the     *)
(* member of the list or a new one at its head.                            *)
WithMember(list, name) == IF Places(list, <<name>>) = {} THEN <<Member(<<name>>, name, <<>>, <<>>)>> \o list ELSE list
Change(list, name, Edit(_)) == LET l == WithMember(list, name) IN [l EXCEPT ![Least(Places(l, <<name>>))] = Edit(@)]

add_java_method_to_class_descriptor(list, m) ==
  Change(list, m.name, LAMBDA e : [e EXCEPT !.methods = Append(@, [args |-> m.args, static |-> m.static, alias |-> FALSE])])
add_java_field_to_class_descriptor(list, f) == Change(list, f.name, LAMBDA e : [e EXCEPT !.field = <<f>>])
jsj_ReflectJavaMethods(cls, list, statics) ==
  FoldLeft(LAMBDA l, m : IF m.public /\ ~ m.abstract /\ m.static = statics THEN add_java_method_to_class_descriptor(l, m) ELSE l,
           list, cls.methods)
jsj_ReflectJavaFields(cls, list, statics) ==
  FoldLeft(LAMBDA l, f : IF f.public /\ f.static = statics THEN add_java_field_to_class_descriptor(l, f) ELSE l, list, cls.fields)
ReflectConstructors(cls) ==
  FoldLeft(LAMBDA l, c : IF c.public THEN Append(l, [args |-> c.args, static |-> FALSE, alias |-> FALSE]) ELSE l, <<>>, cls.constructors)
reflect_java_methods_and_fields(cls, d, statics) ==
  LET place == Where(statics)
      list == jsj_ReflectJavaFields(cls, jsj_ReflectJavaMethods(cls, d[place], statics), statics)
  IN IF place \in d.reflected THEN d
     ELSE [d EXCEPT ![place] = list, !.reflected = @ \cup {place}, !.count[place] = Len(list),
                    !.constructors = IF statics THEN ReflectConstructors(cls) ELSE @]

(* An access answers with the descriptor it leaves. *)
Found(d, member) == [d |-> d, member |-> <<member>>]
NotFound(d) == [d |-> d, member |-> <<>>]
LookupIn(d, place, id) ==
  IF Places(d[place], id) = {} THEN NotFound(d) ELSE Found(d, d[place][Least(Places(d[place], id))])
LookupMember(cls, d, static, id) == LookupIn(reflect_java_methods_and_fields(cls, d, static), Where(static), id)
ConstructorsOf(d) ==
  IF d.constructors = <<>> THEN NotFound(d) ELSE Found(d, Member(<<"<init>">>, "<init>", <<>>, d.constructors))
jsj_LookupJavaClassConstructors(cls, d) == ConstructorsOf(reflect_java_methods_and_fields(cls, d, TRUE))

AddAlias(d, place, member) == Found([d EXCEPT ![place] = <<member>> \o @], member)
ExplicitIn(d, base, place, id, text) ==
  LET same == {k \in DOMAIN base.methods : HRArguments(base.methods[k].args) = text} IN
  IF same = {} THEN NotFound(d)
  ELSE IF Len(base.methods) = 1 THEN Found(d, base)
  ELSE AddAlias(d, place, Member(id, base.name, <<>>, <<[base.methods[Least(same)] EXCEPT !.alias = TRUE]>>))
ExplicitFrom(r, place, id, rest) ==
  IF r.member = <<>> \/ rest = <<>> THEN NotFound(r.d)
  ELSE ExplicitIn(r.d, r.member[1], place, id, SubSeq(rest, 1, Len(rest) - 1))
jsj_ResolveExplicitMethod(cls, d, id, static) ==
  LET paren == Least({k \in DOMAIN id : id[k] = "("} \cup {Len(id) + 1})
      base == IF static /\ paren = 1 THEN jsj_LookupJavaClassConstructors(cls, d)
              ELSE LookupMember(cls, d, static, SubSeq(id, 1, paren - 1))
  IN IF paren > Len(id) THEN NotFound(d) ELSE ExplicitFrom(base, Where(static), id, SubSeq(id, paren + 1, Len(id)))

-----------------------------------------------------------------------------
(* The places where a name is looked for one after the other: the lists of *)
(* members, the methods spelt out, the rest. An index is the name <<"#">>. *)
Answer(d, is, member) == [d |-> d, is |-> is, member |-> member]
Place(how, static) == [how |-> how, static |-> static]
lookup_member_by_id ==
  <<Place("listed", FALSE), Place("listed", TRUE), Place("index", FALSE), Place("native", FALSE), Place("__proto__", FALSE),
    Place("spelt", FALSE), Place("spelt", TRUE), Place("inherited", FALSE)>>
lookup_static_member_by_id ==
  <<Place("listed", TRUE), Place("index", TRUE), Place("spelt", TRUE), Place("prototype", TRUE)>>
FromMember(r) == Answer(r.d, IF r.member = <<>> THEN "none" ELSE "member", r.member)
LookAt(cls, d, id, set, place) ==
  LET Is(what) == Answer(d, what, <<>>)
      If(condition, what) == Is(IF condition THEN what ELSE "none")
  IN CASE place.how \in {"listed", "spelt"} ->
            FromMember(IF place.how = "listed" THEN LookupMember(cls, d, place.static, id)
                       ELSE jsj_ResolveExplicitMethod(cls, d, id, place.static))
       [] place.how = "index" -> If(id = <<"#">>, "error")
       [] place.how = "native" -> If(~ set /\ id \in cls.natives, "native")
       [] place.how = "__proto__" -> If(id = <<"__proto__">>, "proto")
       [] place.how = "inherited" -> If(~ set /\ id \in cls.prototype, "inherited")
       [] place.how = "prototype" -> If(id = <<"prototype">>, "prototype")

(* What a member is to a script that reads it; whether a field is assigned *)
(* or, being final, left as it is; an error if there is neither.           *)
Shape(m) == IF m.field = <<>> THEN IF m.methods = <<>> THEN "empty" ELSE "method" ELSE IF m.methods = <<>> THEN "field" ELSE "both"
Got(r) ==
  CASE r.is = "member" -> Answer(r.d, Shape(r.member[1]), r.member)
    [] r.is = "none" -> Answer(r.d, "error", <<>>)
    [] OTHER -> r
Assigned(r) ==
  IF r.is = "member" /\ r.member[1].field # <<>>
  THEN Answer(r.d, IF r.member[1].field[1].final THEN "ignored" ELSE "assigned", r.member)
  ELSE Answer(r.d, IF r.is \in {"member", "none"} THEN "error" ELSE r.is, <<>>)
PropertyById(cls, d, id, places, set) ==
  LET Look(r, place) == IF r.is = "none" THEN LookAt(cls, r.d, id, set, place) ELSE r
      found == FoldLeft(Look, Answer(d, "none", <<>>), places)
  IN IF set THEN Assigned(found) ELSE Got(found)

(* The names a loop visits, each member of the list once but the aliases. *)
newEnumerate(cls, d, static) ==
  LET e == reflect_java_methods_and_fields(cls, d, static)
      Alias(m) == m.methods # <<>> /\ m.methods[1].alias
  IN [d |-> e, count |-> e.count["instance"], ids |-> FoldLeft(LAMBDA ids, m : IF Alias(m) THEN ids ELSE Append(ids, m.id), <<>>, e[Where(static)])]

(* The function made for a method carries a name, and when it is called    *)
(* the member is looked for again by that name.                            *)
FunctionName(m) == IF m.methods[1].alias THEN m.id ELSE <<m.name>>
static_method_wrapper(cls, d, name) ==
  LET r == LookupMember(cls, d, TRUE, name)
      Kind(m) == IF m.name = "<init>" THEN "constructor" ELSE "static"
  IN IF r.member = <<>> THEN [is |-> "error", methods |-> <<>>]
     ELSE [is |-> Kind(r.member[1]), methods |-> r.member[1].methods]
jsj_JavaInstanceMethodWrapper(cls, d, name) ==
  LET r == LookupMember(cls, d, FALSE, name) IN
  IF r.member = <<>> THEN static_method_wrapper(cls, r.d, name) ELSE [is |-> "instance", methods |-> r.member[1].methods]

-----------------------------------------------------------------------------
(* JavaArray.  A name is a sequence of digits, 10 for any other character. *)
try_convert_to_jsint(text) ==
  LET Digit(s, c) ==
        IF s.done \/ c = 10 THEN [s EXCEPT !.done = TRUE]
        ELSE [done |-> FALSE, read |-> s.read + 1, old |-> s.index, c |-> c, index |-> 10 * s.index + c]
      start == [done |-> Head(text) = 0, read |-> 1, old |-> 0, c |-> 0, index |-> Head(text)]
      s == FoldLeft(Digit, start, Tail(text))
  IN IF Head(text) = 10 THEN -1
     ELSE IF s.read = Len(text) /\ (s.old < JSVAL_INT_MAX \div 10 \/ (s.old = JSVAL_INT_MAX \div 10 /\ s.c < JSVAL_INT_MAX % 10))
     THEN s.index ELSE -1

Element(vm, is, value) == [vm |-> vm, is |-> is, value |-> value]
jsj_GetJavaArrayElement(vm, t, i) ==
  IF i \notin DOMAIN vm THEN Element(vm, "thrown", Undefined) ELSE Element(vm, "value", jsj_ConvertJavaValueToJSValue(t, vm[i]))
StoreElement(vm, i, r) ==
  IF ~ r.ok THEN Element(vm, "error", Undefined)
  ELSE IF i \notin DOMAIN vm THEN Element(vm, "thrown", Undefined)
  ELSE Element([vm EXCEPT ![i] = r], "value", Undefined)
jsj_SetJavaArrayElement(vm, t, i, v) == StoreElement(vm, i, jsj_ConvertJSValueToJavaValue(v, t))
(* access_java_array_element: vm is the array in the virtual machine, v    *)
(* the value assigned, if any; a name that is no index is "length" or      *)
(* looked for as a member of an object.                                    *)
access_java_array_element(vm, t, text, name, v) ==
  LET i == try_convert_to_jsint(text) IN
  IF i >= 0 THEN IF v = <<>> THEN jsj_GetJavaArrayElement(vm, t, i + 1) ELSE jsj_SetJavaArrayElement(vm, t, i + 1, v[1])
  ELSE IF v # <<>> THEN IF Ecma THEN Element(vm, "value", Undefined) ELSE Element(vm, "error", Undefined)
  ELSE IF name = "length" THEN Element(vm, "value", Number(2 * Len(vm))) ELSE Element(vm, "member", Undefined)

-----------------------------------------------------------------------------
(* JavaPackage: tree gives what the names used so far stand for, by the    *)
(* path that leads to them from the global object.  Whether a name is a    *)
(* class only loading it tells; whether a package, nothing does.           *)
Package(path, system) == [is |-> "package", path |-> path, system |-> system]
PackageDef(name, system) == [name |-> name, path |-> <<name>>, system |-> system]
Subpackages(name, system, subs) == FoldLeft(LAMBDA list, sub : Append(list, PackageDef(name \o <<sub>>, system)), <<>>, subs)
standard_java_packages ==
  LET User(name, subs) == Subpackages(name, FALSE, subs)
      System(name, subs) == Subpackages(name, TRUE, subs)
  IN User(<<>>, <<"java">>) \o User(<<"java">>, <<"applet", "awt">>)
     \o System(<<"java", "awt">>, <<"datatransfer", "event", "image", "peer">>)
     \o User(<<"java">>, <<"beans">>) \o System(<<"java">>, <<"io">>) \o User(<<"java">>, <<"lang">>)
     \o System(<<"java", "lang">>, <<"reflect">>) \o System(<<"java">>, <<"math">>) \o User(<<"java">>, <<"net", "rmi">>)
     \o User(<<"java", "rmi">>, <<"dgc", "user", "registry", "server">>) \o User(<<"java">>, <<"security">>)
     \o System(<<"java", "security">>, <<"acl", "interfaces">>) \o User(<<"java">>, <<"sql", "text">>)
     \o System(<<"java", "text">>, <<"resources">>) \o User(<<"java">>, <<"util">>) \o System(<<"java", "util">>, <<"zip">>)
     \o User(<<>>, <<"netscape">>)
     \o System(<<"netscape">>, <<"applet", "application", "debug", "javascript", "ldap", "misc", "net", "plugin", "util", "secfile",
                                "security", "WAI">>)
     \o User(<<>>, <<"sun">>) \o <<[name |-> <<"Packages">>, path |-> <<<<>>>>, system |-> FALSE]>>

(* A definition needs the packages above it and must be the first of it.   *)
pre_define_java_packages(tree, defs) ==
  LET Above(name) == {SubSeq(name, 1, k) : k \in 1 .. Len(name) - 1}
      Define(r, def) ==
        IF ~ r.ok \/ ~ Above(def.name) \subseteq DOMAIN r.tree \/ def.name \in DOMAIN r.tree THEN [r EXCEPT !.ok = FALSE]
        ELSE [r EXCEPT !.tree = (def.name :> Package(def.path[1], def.system)) @@ @]
  IN FoldLeft(Define, [ok |-> TRUE, tree |-> tree], defs)

ResolvedName(tree, found) == [tree |-> tree, found |-> found]
NotResolved(tree) == ResolvedName(tree, [is |-> "error", path |-> <<>>, system |-> FALSE])
(* JavaPackage_resolve of a name not used before, obj the path to the      *)
(* package it is asked of.                                                 *)
JavaPackage_resolve(tree, obj, name, classes) ==
  LET path == Append(tree[obj].path, name)
      Define(what) == ResolvedName((Append(obj, name) :> what) @@ tree, what)
  IN IF name = "toString" THEN NotResolved(tree)
     ELSE IF path \in classes THEN Define([is |-> "class", path |-> path, system |-> FALSE])
     ELSE IF tree[obj].system THEN NotResolved(tree)
     ELSE Define(Package(path, FALSE))
(* One more name of a chain of them; below a class are its members.        *)
PackageProperty(r, obj, name, classes) ==
  IF r.found.is # "package" THEN NotResolved(r.tree)
  ELSE IF Append(obj, name) \in DOMAIN r.tree THEN ResolvedName(r.tree, r.tree[Append(obj, name)])
  ELSE JavaPackage_resolve(r.tree, obj, name, classes)
Evaluated(tree, names, classes) ==
  IF SubSeq(names, 1, 1) \notin DOMAIN tree THEN NotResolved(tree)
  ELSE FoldLeft(LAMBDA r, k : PackageProperty(r, SubSeq(names, 1, k), names[k + 1], classes),
                ResolvedName(tree, tree[SubSeq(names, 1, 1)]), [k \in 1 .. Len(names) - 1 |-> k])

-----------------------------------------------------------------------------
(***************************************************************************)
(* LiveConnect by definition: which values a Java type can hold, which of  *)
(* several methods fits best, what a class holds under a name, whether     *)
(* asked for first or after something else.                                *)
(***************************************************************************)

Object(class, n) == [is |-> IF class \in DOMAIN Component THEN "JavaArray" ELSE "JavaObject", of |-> [class |-> class, number |-> n]]
Integral == {"char", "byte", "short", "int", "long"}
Edges == {-1, 0, 1, 2} \cup UNION {{k * Limits[t][1] + d, k * Limits[t][2] + d} : t \in DOMAIN Limits, k \in {2}, d \in -2 .. 3}
Doubles == Edges \cup {NaN, Infinity, -Infinity}
Objects == {Object("A", NaN), Object("B", NaN), Object("Double", 3), Object("B[]", NaN), Object("Boolean", 0)}
Others == {Undefined, Null, JS("boolean", 0), JS("boolean", 1), JS("string", 5), JS("letter", 14), JS("object", 7), JS("JavaClass", 0)}
Values == Objects \cup Others \cup {Number(n) : n \in Doubles}
Types == Range(Primitives) \cup DOMAIN Supers

-----------------------------------------------------------------------------
(* What a Java type holds. *)
ClassOf(v) ==
  CASE Wrapped(v) -> {v.of.class}
    [] v.is = "null" -> DOMAIN Supers
    [] OTHER -> (CASE v.is = "number" -> {"Double"} [] v.is = "boolean" -> {"Boolean"}
                   [] v.is = "JavaClass" -> {"Class", "JSObject"} [] v.is = "object" -> {"JSObject"} [] OTHER -> {})
                \cup {"String"}
CanBe(v, t) == \E u \in ClassOf(v) \cup (IF Wrapped(v) THEN {"String"} ELSE {}) : t \in Supers[u]
Reads(v, t) == IF t = "char" /\ v.is = "letter" THEN 2 * v.of ELSE NumberOf(v)
Fits(n, t) == n \notin {NaN, Infinity, -Infinity} /\ Cut(n) \in Limits[t][1] .. Limits[t][2]
Lowest(n, t) == t = "long" /\ Cut(n) = Limits[t][1]
RangeError(v, t) == t \in Integral /\ ~ Fits(Reads(v, t), t)
(* What a value is after a way through Java and back. *)
Returned(v, t) ==
  CASE t = "boolean" -> JS("boolean", BooleanOf(v))
    [] t \in Integral -> Number(2 * Cut(Reads(v, t)))
    [] t \in {"float", "double"} -> Number(NumberOf(v))
    [] v.is = "null" \/ (v.is = "object" /\ t \in Supers["JSObject"]) \/ (v.is = "JavaClass" /\ t = "JSObject") -> v
    [] Wrapped(v) /\ t \in Supers[v.of.class] -> v
    [] v.is = "JavaClass" /\ t \in Supers["Class"] -> Object("Class", NaN)
    [] v.is = "number" /\ t \in Supers["Double"] -> Object("Double", v.of)
    [] v.is = "boolean" /\ t \in Supers["Boolean"] -> Object("Boolean", v.of)
    [] OTHER -> Object("String", NumberOf(v))
Wider(t) == {u \in Integral : Limits[u][1] < Limits[t][1] /\ Limits[t][2] < Limits[u][2]}
ConversionRight(v, t) ==
  LET r == jsj_ConvertJSValueToJavaValue(v, t)
      ranked == ArgumentMatches(v, t, Rank(v, t))
  IN /\ (t \in Integral /\ ~ Lowest(Reads(v, t), t)) => (r.ok <=> Fits(Reads(v, t), t))
     /\ Reference(t) => (r.ok <=> CanBe(v, t))
     /\ (ranked /\ ~ r.ok) => RangeError(v, t) \/ Lowest(Reads(v, t), t)
     /\ r.ok => jsj_ConvertJavaValueToJSValue(t, r) = Returned(v, t)
     /\ (t \in Integral /\ v.is \in {"number", "JavaObject", "object"}) => \A u \in Wider(t) : Rank(v, u) < Rank(v, t)
     /\ (r.ok /\ Reference(t)) => (r.local <=> r.what \notin {"null", "itself", "Class"})

-----------------------------------------------------------------------------
(* The best method: it accepts the arguments and none that does is better. *)
Finer(v, t, u) ==
  IF Wrapped(v) /\ (Reference(t) \/ Reference(u))
  THEN Reference(t) /\ IsInstanceOf(v, t) /\ (Reference(u) /\ IsInstanceOf(v, u) => t # u /\ u \in Supers[t])
  ELSE Rank(v, t) < Rank(v, u)
Finest(argv, args1, args2) ==
  args1 # args2 /\ Len(args1) = Len(args2) /\ \A i \in DOMAIN argv : args1[i] = args2[i] \/ Finer(argv[i], args1[i], args2[i])
Accepts(argv, args) == Len(args) = Len(argv) /\ \A i \in DOMAIN argv : ArgumentMatches(argv[i], args[i], Rank(argv[i], args[i]))
ResolveRight(methods, argv) ==
  LET r == resolve_overloaded_method(methods, argv)
      fit == {m \in DOMAIN methods : Accepts(argv, methods[m])}
      rivals == {m \in DOMAIN methods : Len(methods[m]) = Len(argv)}
  IN /\ r.found = "none" <=> fit = {}
     /\ r.found = "method" => r.method \in fit /\ \A k \in fit : ~ Finest(argv, methods[k], methods[r.method])
     /\ (r.found = "method" /\ \A i \in DOMAIN argv : ~ Wrapped(argv[i])) =>
          \A k \in fit \ {r.method} : Finest(argv, methods[r.method], methods[k])
     /\ \A m \in fit : (\A k \in rivals \ {m} : Finest(argv, methods[m], methods[k])) => r = Chosen(m)
     /\ r.found = "ambiguous" => r.list \subseteq rivals /\ Cardinality(r.list) > 1 /\ r.list \cap fit # {}

(* A call passes what each argument becomes and, unless an argument is     *)
(* refused, leaves no reference behind; the context that was the thread's  *)
(* default is the default again.                                           *)
InvokeRight(argv, args, returns, throws) ==
  LET r == Invoke([args |-> args, returns |-> returns], argv, "caller", "outer", Converted("null", 0), throws)
      refused == {i \in DOMAIN argv : ~ jsj_ConvertJSValueToJavaValue(argv[i], args[i]).ok}
  IN /\ r.after = "outer" /\ (r.during = "caller" <=> refused = {})
     /\ r.error = (IF refused # {} THEN "argument" ELSE IF throws THEN "thrown" ELSE "no")
     /\ refused = {} => r.left = 0 /\ \A i \in DOMAIN argv : r.passed[i] = jsj_ConvertJSValueToJavaValue(argv[i], args[i])
     /\ r.error = "argument" => r.left = Cardinality({i \in DOMAIN r.passed : r.passed[i].local})
     /\ r.error = "no" => r.value = (IF returns = "void" THEN Undefined ELSE Null)

-----------------------------------------------------------------------------
(* Classes with some of a pool of members. *)
Method(name, args, static) == [name |-> name, args |-> args, static |-> static, public |-> TRUE, abstract |-> FALSE, returns |-> "void"]
Pool == <<Method("f", <<"int">>, FALSE), Method("f", <<"B[]", "A">>, FALSE), Method("f", <<>>, TRUE), Method("f", <<"B">>, TRUE),
          Method("g", <<"A">>, TRUE), [Method("g", <<"B">>, FALSE) EXCEPT !.public = FALSE], [Method("h", <<>>, FALSE) EXCEPT !.abstract = TRUE]>>
Field(name, static, public, final) == [name |-> name, type |-> "int", static |-> static, public |-> public, final |-> final]
FieldPool == <<Field("x", FALSE, TRUE, FALSE), Field("f", FALSE, TRUE, TRUE), Field("x", TRUE, TRUE, TRUE), Field("y", TRUE, FALSE, FALSE)>>
Constructors == <<[args |-> <<"int">>, public |-> TRUE], [args |-> <<"A">>, public |-> TRUE], [args |-> <<>>, public |-> FALSE]>>
Some(pool, S) == FoldLeft(LAMBDA list, k : IF k \in S THEN Append(list, pool[k]) ELSE list, <<>>, [k \in DOMAIN pool |-> k])
Class(methods, fields, constructors) ==
  [methods |-> Some(Pool, methods), fields |-> Some(FieldPool, fields), constructors |-> Some(Constructors, constructors),
   abstract |-> FALSE, interface |-> FALSE, public |-> TRUE, natives |-> {<<"concat">>}, prototype |-> {<<"p">>, <<"x">>}]
Classes ==
  {Class(methods, {1, 2, 3, 4}, {1, 3}) : methods \in {S \in SUBSET DOMAIN Pool : Cardinality(S) <= 2}}
    \cup {Class({1, 3, 4}, {1}, constructors) : constructors \in SUBSET {1, 2, 3}}
Plain == {<<"f">>, <<"g">>, <<"h">>, <<"x">>, <<"y">>, <<"p">>, <<"concat">>, <<"__proto__">>, <<"#">>, <<"prototype">>}
Spelt(name, args) == name \o <<"(">> \o HRArguments(args) \o <<")">>
Ids == Plain \cup {Spelt(<<Pool[k].name>>, Pool[k].args) : k \in DOMAIN Pool}
         \cup {Spelt(<<"f">>, <<"long">>), Spelt(<<>>, <<"int">>), Spelt(<<>>, <<"A">>), <<"f", "(">>}
Accesses == {[op |-> op, id |-> id] : op \in {"get", "set", "static get", "static set"}, id \in Ids}
              \cup {[op |-> op, id |-> <<>>] : op \in {"enumerate", "static enumerate"}}
Access(cls, d, a) ==
  LET static == a.op \in {"static get", "static set", "static enumerate"}
      Names(r) == Answer(r.d, "names", <<r.ids>>)
  IN IF a.op \in {"enumerate", "static enumerate"} THEN Names(newEnumerate(cls, d, static))
     ELSE PropertyById(cls, d, a.id, IF static THEN lookup_static_member_by_id ELSE lookup_member_by_id, a.op \in {"set", "static set"})
Outcome(r) == [is |-> r.is, member |-> r.member]

(* What a class holds under a name; an object has its own members first,   *)
(* a class the static ones only.                                           *)
Public(cls, static) == {m \in Range(cls.methods) : m.public /\ ~ m.abstract /\ m.static = static}
PublicFields(cls, static) == {f \in Range(cls.fields) : f.public /\ f.static = static}
Named(S, id) == {m \in S : <<m.name>> = id}
SpeltSo(S, id) == {m \in S : Spelt(<<m.name>>, m.args) = id}
MemberNames(cls, static) == {<<m.name>> : m \in Public(cls, static) \cup PublicFields(cls, static)}
ShapeOf(methods, fields) == IF fields = {} THEN IF methods = {} THEN "none" ELSE "method" ELSE IF methods = {} THEN "field" ELSE "both"
Held(cls, static, id) ==
  IF id \in MemberNames(cls, static) THEN ShapeOf(Named(Public(cls, static), id), Named(PublicFields(cls, static), id)) ELSE "none"
Made(cls, id) == {c \in Range(cls.constructors) : c.public /\ Spelt(<<>>, c.args) = id}
(* The only method of its name stands for its name, with the field of it.  *)
Alone(cls, static, id) ==
  LET base == Named(Public(cls, static), SubSeq(id, 1, 1)) IN Cardinality(base) = 1 /\ base = SpeltSo(Public(cls, static), id)
HeldSpelt(cls, static, id) ==
  IF Alone(cls, static, id) THEN Held(cls, static, SubSeq(id, 1, 1))
  ELSE IF SpeltSo(Public(cls, static), id) \cup (IF static THEN Made(cls, id) ELSE {}) = {} THEN "none" ELSE "method"
FirstHeld(sequence) == LET held == SelectSeq(sequence, LAMBDA is : is # "none") IN IF held = <<>> THEN "error" ELSE held[1]
ObjectHolds(cls, id) ==
  FirstHeld(<<Held(cls, FALSE, id), Held(cls, TRUE, id), IF id \in cls.natives THEN "native" ELSE "none",
              IF id = <<"__proto__">> THEN "proto" ELSE "none", HeldSpelt(cls, FALSE, id), HeldSpelt(cls, TRUE, id),
              IF id \in cls.prototype THEN "inherited" ELSE "none">>)
ClassHolds(cls, id) == FirstHeld(<<Held(cls, TRUE, id), HeldSpelt(cls, TRUE, id), IF id = <<"prototype">> THEN "prototype" ELSE "none">>)
GetRight(cls, a, r) ==
  /\ a.op = "get" => r.is = ObjectHolds(cls, a.id)
  /\ a.op = "static get" => r.is = ClassHolds(cls, a.id)
  /\ (a.op \in {"set", "static set"} /\ a.id \in Plain) =>
       LET static == a.op = "static set" \/ a.id \notin MemberNames(cls, FALSE)
           fields == Named(PublicFields(cls, static), a.id)
       IN (r.is = "assigned" <=> \E f \in fields : ~ f.final) /\ (r.is = "ignored" <=> \E f \in fields : f.final)
  /\ a.op \in {"enumerate", "static enumerate"} =>
       LET names == r.member[1] IN Range(names) = MemberNames(cls, a.op = "static enumerate") /\ Cardinality(Range(names)) = Len(names)

(* A method spelt out and called is the one that was spelt, called on the  *)
(* class or the object; the only constructor of a class and a static       *)
(* method asked of an object with a member of its name are not found.   *)
Reached(cls, a, r) ==
  LET name == FunctionName(r.member[1])
      call == IF a.op = "get" THEN jsj_JavaInstanceMethodWrapper(cls, r.d, name) ELSE static_method_wrapper(cls, r.d, name)
      wanted == SpeltSo(Public(cls, FALSE), a.id) \cup SpeltSo(Public(cls, TRUE), a.id)
      hidden == \E m \in wanted : m.static /\ a.op = "get" /\ <<m.name>> \in MemberNames(cls, FALSE)
  IN IF wanted = {} THEN a.op = "static get" /\ Cardinality({c \in Range(cls.constructors) : c.public}) > 1 => call.is = "constructor"
     ELSE hidden \/ ({m.args : m \in Range(call.methods)} = {m.args : m \in wanted} /\ (call.is = "static" <=> \A m \in wanted : m.static))
CallRight(cls, a, r) == (a.op \in {"get", "static get"} /\ r.is = "method" /\ a.id \notin Plain) => Reached(cls, a, r)
Firsts == {a \in Accesses : (a.op \in {"get", "static get"} /\ a.id \in {<<"f">>} \cup (Ids \ Plain)) \/ a.id \in {<<>>, <<"x">>}}
(* Nothing depends on what was accessed before. *)
Accessed(cls, history) ==
  FoldLeft(LAMBDA r, a : Access(cls, r.d, a), Answer(NewDescriptor, "none", <<>>), history)
MemberRight(cls, first) ==
  LET After(second, r) == Outcome(r[1]) = Outcome(r[2]) /\ GetRight(cls, second, r[2]) /\ CallRight(cls, second, r[2])
  IN \A second \in Accesses : After(second, [k \in 1 .. 2 |-> Accessed(cls, IF k = 1 THEN <<second>> ELSE <<first, second>>)])

-----------------------------------------------------------------------------
(* An index is written without leading zeros and is below the limit; what  *)
(* is stored at one is read there and nowhere else.                        *)
IndexOf(text) ==
  IF 10 \in Range(text) \/ (text[1] = 0 /\ Len(text) > 1) THEN -1
  ELSE LET n == FoldLeft(LAMBDA m, digit : 10 * m + digit, 0, text) IN IF Len(text) > 1 /\ n >= JSVAL_INT_MAX THEN -1 ELSE n
ArrayRight(t, text, v) ==
  LET zero == jsj_ConvertJSValueToJavaValue(IF Reference(t) THEN Null ELSE Number(0), t)
      vm == <<zero, zero, zero>>
      i == IndexOf(text)
      stored == access_java_array_element(vm, t, text, "length", <<v>>)
      r == jsj_ConvertJSValueToJavaValue(v, t)
      At(array, k) == jsj_GetJavaArrayElement(array, t, k).value
  IN /\ i < 0 => access_java_array_element(vm, t, text, "length", <<>>).value = Number(6) /\ stored.vm = vm
     /\ i >= 0 => (stored.is = "error" <=> ~ r.ok) /\ (stored.is = "thrown" <=> r.ok /\ i > 2)
     /\ i >= 0 => (access_java_array_element(vm, t, text, "length", <<>>).is = "thrown" <=> i > 2)
     /\ stored.is # "value" => stored.vm = vm
     /\ i \in 0 .. 2 /\ r.ok => At(stored.vm, i + 1) = Returned(v, t)
     /\ \A k \in 1 .. 3 : k # i + 1 => At(stored.vm, k) = At(vm, k)

-----------------------------------------------------------------------------
(* Packages: a class is reached by its name below Packages whatever was    *)
(* used before; below another root unless a package on the way that is not *)
(* defined beforehand lies in a system package.                            *)
Global == pre_define_java_packages(<<>>, standard_java_packages).tree
Loaded == {<<"Top">>, <<"java", "io", "File">>, <<"java", "io", "sub", "X">>, <<"java", "util", "zip", "Zip">>, <<"java", "util", "u", "Y">>,
           <<"java", "util", "u">>, <<"toString", "Z">>, <<"java", "awt", "event", "E">>}
Chains == Loaded \cup {<<"java", "io">>, <<"java", "io", "Fil">>, <<"java", "lang", "i">>, <<"java", "util", "u", "Y", "Z">>, <<"java", "x", "X">>}
Written == Chains \cup {<<"Packages">> \o c : c \in Chains}
Above(names) == {SubSeq(names, 1, k) : k \in 1 .. Len(names) - 1}
DefinedBefore(names) == \E k \in DOMAIN standard_java_packages : standard_java_packages[k].name = names
System(names) == \E k \in DOMAIN standard_java_packages : standard_java_packages[k].name = names /\ standard_java_packages[k].system
Means(names, name) ==
  IF Above(name) \cap Loaded # {} \/ "toString" \in Range(name) \/ (names = name /\ ~ DefinedBefore(<<names[1]>>)) THEN "error"
  ELSE IF names = name /\ \E p \in Above(name) : System(p) /\ \E q \in Above(name) \cup (IF name \in Loaded THEN {} ELSE {name}) :
                             Len(q) = Len(p) + 1 /\ ~ DefinedBefore(q) THEN "error"
  ELSE IF name \in Loaded THEN "class" ELSE "package"
PackageRight(first, second, extra) ==
  LET start == pre_define_java_packages(Global, <<PackageDef(extra, FALSE)>>)
      r == Evaluated(Evaluated(Global, first, Loaded).tree, second, Loaded)
      name == IF second[1] = "Packages" THEN Tail(second) ELSE second
  IN /\ r.found.is = Means(second, name)
     /\ r.found.is = "class" => r.found.path = name
     /\ start.ok <=> ~ DefinedBefore(extra) /\ \A p \in Above(extra) : DefinedBefore(p)

-----------------------------------------------------------------------------
Methods == {"convert", "resolve", "invoke", "member", "array", "package"}
Signatures1 == {"int", "double", "String", "Object", "A", "B", "long"}
Callers == {Number(3), JS("string", 5), Null, Object("B", NaN), Object("A", NaN), Object("Double", 3), JS("object", 7), JS("boolean", 1)}
Signatures2 == {<<t, u>> : t \in {"int", "A", "B"}, u \in {"B", "A"}} \cup {<<"int">>, <<"int", "double">>}
Digits == {<<d>> : d \in 0 .. 10} \cup {<<d, e>> : d \in {0, 1, 2, 9}, e \in {0, 2, 9, 10}} \cup {<<1, d, e>> : d \in {0, 1, 2, 3}, e \in 5 .. 9}
SeqsOf(S, n) == UNION {[1 .. m -> S] : m \in 1 .. n}
JavaCasesOf(method) ==
  CASE method = "convert" -> Values \X Types
    [] method = "resolve" -> ({[i \in DOMAIN s |-> <<s[i]>>] : s \in {s \in SeqsOf(Signatures1, 3) : Cardinality(Range(s)) = Len(s)}} \X {<<v>> : v \in Callers})
                             \cup ({s \in SeqsOf(Signatures2, 3) : Cardinality(Range(s)) = Len(s)} \X [1 .. 2 -> {Number(3), Null, Object("A", NaN), Object("B", NaN)}])
    [] method = "invoke" -> (UNION {[1 .. n -> {Number(3), Number(NaN), Object("B", NaN), JS("object", 7), JS("string", 5)}] \X [1 .. n -> {"int", "String", "A"}]
                                     : n \in 0 .. 3}) \X {"void", "A"} \X BOOLEAN
    [] method = "member" -> Classes \X Firsts
    [] method = "array" -> {"int", "double", "A", "Object"} \X Digits \X Others
    [] method = "package" -> (Written \X Written \X {<<"com">>}) \cup ({<<"Top">>} \X {<<"Top">>} \X {<<"com", "sun">>, <<"sun", "tools">>, <<"java", "io">>, <<"java", "io", "x">>})
JavaRight(method, case) ==
  CASE method = "convert" -> ConversionRight(case[1], case[2])
    [] method = "resolve" -> ResolveRight(case[1], case[2])
    [] method = "invoke" -> InvokeRight(case[1][1], case[1][2], case[2], case[3])
    [] method = "member" -> MemberRight(case[1], case[2])
    [] method = "array" -> ArrayRight(case[1], case[2], case[3])
    [] method = "package" -> PackageRight(case[1], case[2], case[3])
=============================================================================
