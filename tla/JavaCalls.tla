----------------------------- MODULE JavaCalls ------------------------------
(***************************************************************************)
(* Calls from JavaScript into Java and from Java into JavaScript, on one   *)
(* thread (jsj_JSObject.c, jsj_method.c, jsj_utils.c): the context that is *)
(* the default of the thread, the error reporter that keeps errors for the *)
(* Java caller, and how errors and exceptions cross from one language to   *)
(* the other and back.                                                     *)
(*                                                                         *)
(* java is the state of the thread:                                        *)
(*   stack   the frames, the innermost last; who called one is from        *)
(*   state   what the innermost does: "run", "fail" (JavaScript is         *)
(*           returning JS_FALSE), "thrown" (Java, the exception flying);   *)
(*           "crashed" on a context, "noreport" on a report that is NULL   *)
(*   env     jsj_env->cx, 0 for NULL                                       *)
(*   errors  jsj_env->pending_js_errors, the newest first                  *)
(*   pending, reporter  of every context: its exception, its reporter      *)
(*   clean   nothing went astray so far: an exception left by a script     *)
(*           whose caller goes on, one that cannot be converted, an error  *)
(*           that was reported on a context Java did not call or comes     *)
(*           with an exception or before another call from Java, a default *)
(*           context taken over by a script on another one                 *)
(*   exit    how the last call from Java ended, if that is the last step   *)
(* An exception is known by the depth of the frame that threw it.  An      *)
(* exception of Java is one of Java's own, a JSException for a value, or a *)
(* JSException for an error.                                               *)
(* js_ReportUncaughtException (jsexn.c) changes nothing here: it reports   *)
(* with JSREPORT_EXCEPTION, which capture_js_error_reports_for_java does   *)
(* not keep, and leaves the exception pending.  (An exception whose own    *)
(* toString fails is left out.)                                            *)
(***************************************************************************)
EXTENDS Integers, Sequences, SequencesExt

CONSTANTS JSContexts,       \* 1 is the one the callback finds for a thread
          EntryMethods,     \* the methods of JSObject that Java calls
          MaxDepth, MaxErrors

VARIABLE java

None == [is |-> "none"]

Depth == Len(java.stack)
TopCall == java.stack[Depth]
Below == IF Depth > 1 THEN java.stack[Depth - 1] ELSE None
Popped(j) == [j EXCEPT !.stack = Front(@)]
In(lang, state) == Depth > 0 /\ TopCall.lang = lang /\ java.state = state

Thrown(is, of) == [is |-> is, of |-> of]
CallsStart ==
  [stack |-> <<>>, state |-> "run", flying |-> None, env |-> 0, errors |-> <<>>, pending |-> [c \in JSContexts |-> None],
   reporter |-> [c \in JSContexts |-> "own"], clean |-> TRUE, exit |-> None]

(* What an entry from Java takes, and what it returns before there is a    *)
(* result ("unset" is a variable not initialized).                         *)
Entry(named, result) == [named |-> named, result |-> result, fallback |-> FALSE]
Entries ==
  [getMember |-> Entry(TRUE, "unset"), getSlot |-> Entry(FALSE, "unset"), setMember |-> Entry(TRUE, "void"), setSlot |-> Entry(FALSE, "void"),
   removeMember |-> Entry(TRUE, "void"), call |-> Entry(TRUE, "null"), eval |-> Entry(TRUE, "null"),
   toString |-> [Entry(FALSE, "null") EXCEPT !.fallback = TRUE], getWindow |-> Entry(FALSE, "null")]

ASSUME CallsAssumption == /\ 0 \notin JSContexts /\ 1 \in JSContexts /\ EntryMethods \subseteq DOMAIN Entries
                          /\ MaxDepth \in Nat /\ MaxErrors \in Nat

-----------------------------------------------------------------------------
(* The context that is asked for the thread becomes its default, to be     *)
(* found by Java.                                                          *)
DefaultContext(j) == IF j.env = 0 THEN 1 ELSE j.env
InJava(j) == \E i \in DOMAIN j.stack : j.stack[i].lang = "java"
jsj_MapJSContextToJSJThread(j, cx) ==
  [j EXCEPT !.env = cx, !.clean = @ /\ (InJava(j) => cx = DefaultContext(j))]

-----------------------------------------------------------------------------
(* Errors and exceptions. *)
Captured(j, error) == [j EXCEPT !.errors = <<error>> \o @]
(* capture_js_error_reports_for_java takes the exception of Java with it. *)
capture_js_error_reports_for_java(j, cx, depth) ==
  [Captured(jsj_MapJSContextToJSJThread(j, cx), [by |-> depth, java |-> j.flying]) EXCEPT !.flying = None]
JS_ReportError(j, cx, depth) ==
  IF j.reporter[cx] = "capture" THEN capture_js_error_reports_for_java(j, cx, depth)
  ELSE [j EXCEPT !.clean = @ /\ \A c \in JSContexts : j.reporter[c] = "own"]

(* An exception of Java as a value of JavaScript. *)
ValueOf(exception) == IF exception.is = "value" THEN exception.of ELSE Thrown("java", exception)

(* vreport_java_error: the exception of Java becomes one of JavaScript; if *)
(* it cannot be wrapped that is one error and the call that failed another *)
vreport_java_error(j, cx, depth, wrapped) ==
  IF wrapped THEN [jsj_MapJSContextToJSJThread(j, cx) EXCEPT !.pending[cx] = ValueOf(j.flying), !.flying = None]
  ELSE [JS_ReportError(JS_ReportError(j, cx, depth), cx, depth) EXCEPT !.flying = None]

(* throw_any_pending_js_error_as_a_java_exception, of the context that is  *)
(* the default now.                                                        *)
Oldest(errors) == errors[Len(errors)]
Throwing(j, exception) == [j EXCEPT !.state = "thrown", !.flying = exception]
ThrowError(j) ==
  IF j.errors = <<>> THEN [j EXCEPT !.state = "run"]
  ELSE LET error == Oldest(j.errors)
       IN [Throwing(j, IF error.java # None THEN error.java ELSE Thrown("error", error.by)) EXCEPT !.errors = <<>>]
ThrowException(j, cx, wrapped) ==
  IF wrapped THEN [Throwing(j, Thrown("value", j.pending[cx])) EXCEPT !.pending[cx] = None, !.clean = @ /\ j.errors = <<>>]
  ELSE [j EXCEPT !.errors = <<>>, !.state = "run", !.clean = FALSE]
throw_any_pending_js_error_as_a_java_exception(j, wrapped) ==
  IF j.pending[j.env] # None THEN ThrowException(j, j.env, wrapped) ELSE ThrowError(j)

-----------------------------------------------------------------------------
Goes(j) == java' = [j EXCEPT !.exit = None]

(* The program that embeds the engine runs a script, in the end or from    *)
(* within another.                                                         *)
ScriptFrame(cx) == [lang |-> "js", from |-> "host", cx |-> cx]
RunScript(cx) ==
  /\ Depth < MaxDepth /\ java.state = "run" /\ (Depth > 0 => TopCall.lang = "js")
  /\ Goes([java EXCEPT !.stack = Append(@, ScriptFrame(cx))])

(* An exception that the script did not catch stays pending: the caller    *)
(* goes on, fails in its turn, or clears it.                               *)
Uncaught == java.state = "fail" /\ java.pending[TopCall.cx] # None
Ending == Depth > 0 /\ TopCall.lang = "js" /\ TopCall.from = "host"
ScriptEnds == Ending /\ Goes([Popped(java) EXCEPT !.state = "run", !.clean = @ /\ ~ Uncaught])
ScriptPasses == /\ Ending /\ java.state = "fail" /\ Depth > 1
                /\ Goes([Popped(java) EXCEPT !.clean = @ /\ (Uncaught => Below.cx = TopCall.cx)])
JS_ClearPendingException == /\ Ending /\ Uncaught
                            /\ Goes([Popped(java) EXCEPT !.state = "run", !.pending[TopCall.cx] = None])

Throw == /\ In("js", "run")
         /\ Goes([java EXCEPT !.pending[TopCall.cx] = Thrown("js", Depth), !.state = "fail"])
Catch == /\ In("js", "fail") /\ java.pending[TopCall.cx] # None
         /\ Goes([java EXCEPT !.pending[TopCall.cx] = None, !.state = "run"])
Fail == /\ In("js", "run") /\ Len(java.errors) < MaxErrors
        /\ Goes([JS_ReportError(java, TopCall.cx, Depth) EXCEPT !.state = "fail"])

-----------------------------------------------------------------------------
(* JavaScript calls Java.  The default context is that of the caller       *)
(* before it is asked for, to be restored.                                 *)
InvokeFrame(j, cx) == [lang |-> "java", from |-> "js", cx |-> cx, old |-> j.env]
Invoking(j, cx) == [j EXCEPT !.stack = Append(@, InvokeFrame(j, cx)), !.env = cx]
invoke_java_method == /\ In("js", "run") /\ Depth < MaxDepth
                      /\ Goes(Invoking(jsj_MapJSContextToJSJThread(java, TopCall.cx), TopCall.cx))

(* A thread of Java's own. *)
RunJava == /\ Depth = 0 /\ Goes([java EXCEPT !.stack = <<[lang |-> "java", from |-> "host"]>>])

JavaReturns == /\ In("java", "run")
               /\ Goes([Popped(java) EXCEPT !.env = IF TopCall.from = "js" THEN TopCall.old ELSE @])
JavaThrows == /\ In("java", "run")
              /\ Goes(Throwing(java, Thrown("own", Depth)))
JavaCatches == /\ In("java", "thrown")
               /\ Goes([java EXCEPT !.flying = None, !.state = "run"])
(* What no frame of Java catches is an exception of its caller. *)
JavaFails ==
  /\ In("java", "thrown") /\ TopCall.from = "js"
  /\ \E wrapped \in BOOLEAN :
       /\ wrapped \/ Len(java.errors) < MaxErrors - 1
       /\ Goes([vreport_java_error(Popped(java), Below.cx, Depth - 1, wrapped) EXCEPT !.state = "fail", !.env = TopCall.old])
JavaDies == /\ In("java", "thrown") /\ TopCall.from = "host"
            /\ Goes([Popped(java) EXCEPT !.flying = None, !.state = "run"])

-----------------------------------------------------------------------------
(* Java calls JavaScript. *)
EntryFrame(j, cx, method) ==
  [lang |-> "js", from |-> "java", cx |-> cx, saved |-> j.reporter[cx], method |-> method, result |-> Entries[method].result]
Entered(j, cx, method) ==
  [j EXCEPT !.stack = Append(@, EntryFrame(j, cx, method)), !.reporter[cx] = "capture", !.clean = @ /\ j.errors = <<>>]
jsj_enter_js == /\ In("java", "run") /\ Depth < MaxDepth
                /\ \E method \in EntryMethods : Goes(Entered(java, DefaultContext(java), method))

(* A name that is null is an error before anything runs; getMember then    *)
(* returns null.                                                           *)
Scripted(cx, n) == \E i \in 1 .. n : java.stack[i].lang = "js" /\ java.stack[i].cx = cx
Nameless == In("js", "run") /\ TopCall.from = "java" /\ Entries[TopCall.method].named
NullName ==
  /\ Nameless /\ Scripted(TopCall.cx, Depth - 1) /\ Len(java.errors) < MaxErrors
  /\ Goes([JS_ReportError(java, TopCall.cx, Depth) EXCEPT
                !.state = "fail", !.stack[Depth].result = IF @ = "unset" THEN "null" ELSE @])

(* JS_ReportError has a report for the reporter if the innermost frame of  *)
(* the engine is a script's: when a script converts a value and that calls *)
(* Java, not when it calls a method of Java, nor in a thread of Java's     *)
(* own.  capture_js_error_reports_for_java reads the report before it      *)
(* tests it.                                                               *)
NoReport ==
  /\ Nameless \/ (In("java", "thrown") /\ TopCall.from = "js" /\ java.reporter[TopCall.cx] = "capture")
  /\ Goes([java EXCEPT !.state = "noreport", !.flying = None])

(* The reporter is restored and what went wrong thrown.  A script that     *)
(* ended well has a result if that can be converted; toString always has.  *)
ResultOf(frame, ok) == IF frame.result # "void" /\ (ok \/ Entries[frame.method].fallback) THEN "object" ELSE frame.result
Exited(j, out, frame, ok) ==
  [out EXCEPT !.exit = [wrong |-> ~ ok \/ j.errors # <<>>, result |-> ResultOf(frame, ok)]]
ExitWithReporter(j, frame, ok, wrapped) == \* mutant: the reporter stays
  Exited(j, throw_any_pending_js_error_as_a_java_exception(Popped(j), wrapped), frame, ok)
Exit(j, frame, ok, wrapped) ==
  Exited(j, throw_any_pending_js_error_as_a_java_exception([Popped(j) EXCEPT !.reporter[frame.cx] = frame.saved], wrapped), frame, ok)
Returning == Depth > 0 /\ TopCall.lang = "js" /\ TopCall.from = "java" /\ java.state \in {"run", "fail"}
jsj_exit_js == /\ Returning /\ java.env # 0
               /\ \E wrapped \in BOOLEAN : java' = Exit(java, TopCall, java.state = "run", wrapped)
(* Without a default context the one that is asked for an exception is NULL. *)
Crash == Returning /\ java.env = 0 /\ java' = [java EXCEPT !.state = "crashed", !.clean = FALSE]

CallsNext ==
  \/ \E cx \in JSContexts : RunScript(cx)
  \/ ScriptEnds \/ ScriptPasses \/ JS_ClearPendingException \/ Throw \/ Catch \/ Fail
  \/ invoke_java_method \/ RunJava \/ JavaReturns \/ JavaThrows \/ JavaCatches \/ JavaFails \/ JavaDies
  \/ jsj_enter_js \/ NullName \/ NoReport \/ jsj_exit_js \/ Crash

-----------------------------------------------------------------------------
(* Errors are kept for Java exactly on the contexts a call from Java uses, *)
(* and every such call will give back the reporter it found.               *)
Entering(cx, n) == \E i \in 1 .. n : java.stack[i].lang = "js" /\ java.stack[i].from = "java" /\ java.stack[i].cx = cx
ReporterWithin(cx, n) == IF Entering(cx, n) THEN "capture" ELSE "own"
ReporterExact ==
  /\ \A cx \in JSContexts : java.reporter[cx] = ReporterWithin(cx, Depth)
  /\ \A i \in 1 .. Depth : LET f == java.stack[i] IN f.lang = "js" /\ f.from = "java" => f.saved = ReporterWithin(f.cx, i - 1)

(* While nothing has gone astray, an exception is one of a frame that was  *)
(* called from here, whatever it crossed; it is on its way, or nowhere.    *)
Unwrapped(exception) == IF exception.is = "value" THEN exception.of ELSE exception
By(exception) == LET e == Unwrapped(exception) IN IF e.is = "java" THEN e.of.of ELSE e.of
ExceptionsOnTheirWay ==
  java.clean =>
    /\ java.errors # <<>> => \E cx \in JSContexts : Entering(cx, Depth)
    /\ \A cx \in JSContexts : java.pending[cx] # None => java.state = "fail" /\ TopCall.cx = cx /\ By(java.pending[cx]) >= Depth
    /\ java.state = "thrown" => By(java.flying) >= Depth
    /\ java.state # "thrown" => java.flying = None

(* While nothing has gone astray, what goes wrong in a call from Java is   *)
(* thrown there, and nothing else; Java never sees a result that was not   *)
(* set.                                                                    *)
ThrownToJava ==
  (java.exit # None /\ java.clean) =>
    /\ java.exit.wrong <=> java.state = "thrown"
    /\ java.state = "thrown" => By(java.flying) > Depth
    /\ java.exit.result = "unset" => java.state = "thrown"
(* While nothing has gone astray, what Java calls while a script waits for *)
(* it runs on the script's context; and always, only a thread of Java's    *)
(* own finds none to ask.                                                  *)
DefaultRight ==
  /\ (java.clean /\ In("java", "run") /\ TopCall.from = "js") => java.env = TopCall.cx
  /\ java.state = "crashed" => java.stack[1].lang = "java"
(* However calls nest in the two languages: every call from Java gives     *)
(* back the reporter it found (jsj_exit_js), and until something goes      *)
(* astray (java.clean) the default context and the way of errors and       *)
(* exceptions are right.                                                   *)
CallsSound == DefaultRight /\ ReporterExact /\ ExceptionsOnTheirWay /\ ThrownToJava

CallsSpec == (\E env \in {0, 1} : java = [CallsStart EXCEPT !.env = env]) /\ [][CallsNext]_java
=============================================================================
