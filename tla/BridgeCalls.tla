----------------------------- MODULE BridgeCalls -----------------------------
(***************************************************************************)
(* duk-bridge-go/duk_bridge.c and duk_bridge.go: the calls between a host  *)
(* program and one JavaScript environment.                                 *)
(*                                                                         *)
(* stack is the nesting of the calls, the innermost last.  Its first frame *)
(* is the host program itself; a "js" frame is JavaScript run under        *)
(* duk_pcall; a host frame above one is a native function JavaScript       *)
(* called.  Each host frame works on a value stack of its own, of Limit    *)
(* slots: top counts the slots a call leaves in use from step to step.     *)
(* While it is at work a step uses a few more, five in make_func_bridge,   *)
(* and how many depends on the values and on the engine: between one and   *)
(* Work, so a step may overflow, or not, when fewer than Work are left.    *)
(*                                                                         *)
(* An exception JavaScript throws stops at the duk_pcall that ran it.  One *)
(* that the bridge itself throws is outside every duk_pcall: it leaves the *)
(* innermost host frame, over the host's own code, for the JavaScript that *)
(* called it, and if nothing called it the engine aborts the process.      *)
(* Every call passes a callback, as the Go bridge does.                    *)
(* Definitions marked "Fault" are bugs for the properties to notice.       *)
(***************************************************************************)
EXTENDS Integers, Sequences

CONSTANTS
    Name,       \* names of global functions and variables
    Limit,      \* slots of a value stack (DUK_API_ENTRY_STACK, 64)
    Work,       \* slots a step may use beyond those that are in use
    MaxArgs,    \* bound: arguments of a call
    MaxDepth    \* bound: nesting

ASSUME WorkAssumption == Work \in Nat \ {0}
ASSUME BoundAssumption == Limit \in Nat /\ MaxArgs \in Nat /\ MaxDepth \in Nat

VARIABLES
    stack,      \* the calls in progress
    globals,    \* globals[n]: what the global property n is bound to
    dead        \* why the process was aborted: "no", "overflow" or "throw"

vars == <<stack, globals, dead>>

Binding == {"none", "jsfunc", "gofunc", "value", "null"}
Outcome == {"value", "func", "unencodable", "error"}
Op == {"none", "call", "eval", "check", "register", "unregister"}

\* A host frame.  at: "idle" between two calls of the bridge, "args" while it pushes the
\* arguments of one, "run" while JavaScript runs, "result" when the result is on the value
\* stack: res, and threw if it was thrown rather than returned (or is to be, as calling what
\* is no function throws).  op, rc, cb and ran tell of the current call or, at "idle", of the
\* last one: its kind, its return code, how often it called the callback, and whether it ran
\* JavaScript.
HostFrame == [k : {"host"}, top : Nat, missed : Nat, argc : 0..MaxArgs,
              at : {"idle", "args", "run", "result"}, res : Outcome, threw : BOOLEAN,
              op : Op, rc : Int, cb : Nat, ran : BOOLEAN]
\* What readFileContent returns for a file that it cannot read; -1 if there is none.
fileErrors == -5..-1
NewHost == [k |-> "host", top |-> 0, missed |-> 0, argc |-> 0, at |-> "idle", res |-> "value",
            threw |-> FALSE, op |-> "none", rc |-> 0, cb |-> 0, ran |-> FALSE]
JsFrame == [k |-> "js"]

TypeOK ==
    /\ stack \in Seq(HostFrame \cup {JsFrame})
    /\ globals \in [Name -> Binding]
    /\ dead \in {"no", "overflow", "throw"}

Init ==
    /\ stack = <<NewHost>>
    /\ globals = [n \in Name |-> "none"]
    /\ dead = "no"

Depth == Len(stack)
Cur == stack[Depth]
Callers == SubSeq(stack, 1, Depth - 1)
HostAt(at) == dead = "no" /\ Cur.k = "host" /\ Cur.at = at
InJs == dead = "no" /\ Cur.k = "js"

Set(frame) == stack' = [stack EXCEPT ![Depth] = frame]

\* An exception outside every duk_pcall.
Raise(why) ==
    IF Depth = 1
      THEN dead' = why /\ UNCHANGED stack
      ELSE stack' = Callers /\ UNCHANGED dead

\* The host frame goes on as frame, and uses no slot for it.
Go(frame) == Set(frame) /\ UNCHANGED <<globals, dead>>

\* The step runs out of slots.
Overflow ==
    /\ Cur.top + Work > Limit
    /\ Raise("overflow")
    /\ UNCHANGED globals

\* The step pushes something: it needs a slot at least, and then the host frame goes on as
\* frame, and the globals become g.
Using(frame, g) ==
    \/ Cur.top < Limit /\ Set(frame) /\ globals' = g /\ UNCHANGED dead
    \/ Overflow

\* A call of the bridge that starts and ends here, with a return code.
Done(op, rc) == [Cur EXCEPT !.op = op, !.rc = rc, !.cb = 0, !.ran = FALSE, !.threw = FALSE]
\* A call of the bridge that goes on.
Begin(op, at) == [Done(op, 0) EXCEPT !.argc = 0, !.at = at]
\* The same, with its function or its result pushed: it will throw, or has thrown, or not.
Pushed(op, at, threw) ==
    [Begin(op, at) EXCEPT !.top = Cur.top + 1, !.threw = threw,
                          !.res = IF threw THEN "error" ELSE "value"]

------------------------------------------------------------------------------
(* Registration. *)

\* js_register_code_func and js_register_file_func: the file may not be readable; the code
\* may not compile; or the name is bound to the function.
RegisterFunc(n) ==
    /\ HostAt("idle")
    /\ \/ \E rc \in fileErrors : Go(Done("register", rc))
       \/ \E rc \in {-1, -6} : Using(Done("register", rc), globals)
       \/ Using(Done("register", 0), [globals EXCEPT ![n] = "jsfunc"])

\* js_register_native_func: the function, with its hidden data, is bound to the name.
RegisterNative(n) ==
    /\ HostAt("idle")
    /\ Using(Done("register", 0), [globals EXCEPT ![n] = "gofunc"])

\* js_register_var with a value that is well-formed, or is JavaScript's null.
RegisterVar(n) ==
    /\ HostAt("idle")
    /\ \E b \in {"value", "null"} : Using(Done("register", 0), [globals EXCEPT ![n] = b])

\* js_unregister_func: the return code is duk_del_prop_string's, which is 1 whether or not
\* there was anything to delete, though "@return 0 if successfuly" (duk_bridge.h:145).
js_unregister_func(n) ==
    /\ HostAt("idle")
    /\ Using(Done("unregister", 1), [globals EXCEPT ![n] = "none"])

\* js_unregister_native_func: only a property made by js_register_native_func goes.
\* Looking for its hidden data in null throws.
js_unregister_native_func(n) ==
    /\ HostAt("idle")
    /\ \/ globals[n] = "none" /\ Using(Done("unregister", -1), globals)
       \/ globals[n] = "null" /\ Raise("throw") /\ UNCHANGED globals
       \/ /\ globals[n] = "gofunc"
          /\ Using(Done("unregister", 0), [globals EXCEPT ![n] = "none"])
       \/ globals[n] \in {"jsfunc", "value"} /\ Using(Done("unregister", -2), globals)

------------------------------------------------------------------------------
(* Calls into JavaScript. *)

\* js_call_registered_func, no such global: duk_get_global_string has pushed undefined, and
\* it stays.
CallMissing(n) ==
    /\ HostAt("idle")
    /\ globals[n] = "none"
    /\ Using([Done("call", -1) EXCEPT !.top = Cur.top + 1, !.missed = Cur.missed + 1], globals)

\* js_call_registered_func: the function, or whatever the name is bound to, is pushed.
CallRegistered(n) ==
    /\ HostAt("idle")
    /\ globals[n] # "none"
    /\ Using(Pushed("call", "args", globals[n] \notin {"jsfunc", "gofunc"}), globals)

\* js_call_file_func: the file is unreadable, or does not compile, or its function is pushed.
CallFileFunc ==
    /\ HostAt("idle")
    /\ \/ \E rc \in fileErrors : Go(Done("call", rc))
       \/ Using(Done("call", -1), globals)
       \/ Using(Pushed("call", "args", FALSE), globals)

\* js_call_ecmascript_func: what the handle leads to is pushed, undefined if nothing.
js_call_ecmascript_func ==
    /\ HostAt("idle")
    /\ \E absent \in BOOLEAN : Using(Pushed("call", "args", absent), globals)

\* Buffers and structs use more slots than they leave.
PushArg ==
    /\ HostAt("args")
    /\ Cur.argc < MaxArgs
    /\ Using([Cur EXCEPT !.top = Cur.top + 1, !.argc = Cur.argc + 1], globals)

\* An argument that is an error is thrown (duk_generic_error), and so is the decoder's error
\* for a text that is no JSON.
PushErrorArg ==
    /\ HostAt("args")
    /\ Cur.argc < MaxArgs
    /\ Raise("throw")
    /\ UNCHANGED globals

\* The host frame waits as frame while JavaScript runs.
RunJs(frame) ==
    /\ Depth < MaxDepth
    /\ stack' = Callers \o <<frame, JsFrame>>
    /\ UNCHANGED <<globals, dead>>

\* call_func: duk_pcall takes the function and the arguments off the value stack and runs
\* it.  What is no function makes a TypeError at once.  (A native function that is called
\* by its name is a js frame that does nothing but call it.)
Pcall ==
    /\ HostAt("args")
    /\ LET called == [Cur EXCEPT !.top = Cur.top - Cur.argc - 1, !.ran = TRUE, !.at = "run"] IN
         \/ Cur.threw /\ Go([called EXCEPT !.top = called.top + 1, !.at = "result"])
         \/ ~Cur.threw /\ RunJs(called)

\* js_eval, and js_eval_file of a file that could be read.
Eval ==
    /\ HostAt("idle")
    /\ \/ Cur.top < Limit /\ RunJs([Begin("eval", "run") EXCEPT !.ran = TRUE])
       \/ Overflow

\* js_check_syntax, and js_check_syntax_file of a file that could be read: undefined or the
\* compiler's error is on the value stack.
CheckSyntax ==
    /\ HostAt("idle")
    /\ \E invalid \in BOOLEAN : Using(Pushed("check", "result", invalid), globals)

\* js_eval_file and js_check_syntax_file of a file that could not: a missing file (-1) makes
\* an error for the callback, anything else only the return code.
FileUnread ==
    /\ HostAt("idle")
    /\ \E op \in {"eval", "check"} :
         \/ Using([Done(op, -1) EXCEPT !.cb = 1], globals)
         \/ \E rc \in fileErrors \ {-1} : Go(Done(op, rc))

\* The return code of a call of kind op: whether it threw decides, not what came of it.
rcOf(op, threw) == IF ~threw THEN 0 ELSE IF op = "call" THEN -2 ELSE -1

\* The host frame back from the call, with the callback called and the value stack popped.
Returned(pops, calls) ==
    [Cur EXCEPT !.at = "idle", !.top = Cur.top - pops, !.argc = 0, !.res = "value",
                !.threw = FALSE, !.rc = rcOf(Cur.op, Cur.threw), !.cb = Cur.cb + calls]

\* The callback gets the result and the host frame goes on as frame.  A function is copied to
\* be saved; other values are read where they are, or converted in slots of their own.
Deliver(frame) ==
    /\ HostAt("result")
    /\ \/ /\ Cur.res # "unencodable"
          /\ Cur.res = "func" => Cur.top < Limit
          /\ Go(frame)
       \/ Cur.res = "unencodable" /\ Raise("throw") /\ UNCHANGED globals
       \/ Overflow

\* Faults: one slot too many is popped, an error is not popped, the callback is called twice.
ResultPopsTwo == Deliver(Returned(2, 1))
ResultKeepsError == Deliver(Returned(IF Cur.threw THEN 0 ELSE 1, 1))
ResultCallsTwice == Deliver(Returned(1, 2))

\* call_result_callback, the pop of the result, and the return.  A result that JSON cannot
\* encode throws.
ResultCallback == Deliver(Returned(1, 1))

------------------------------------------------------------------------------
(* JavaScript. *)

\* It returns or throws something, an error or not: duk_pcall leaves it on the caller's stack.
JsEnds ==
    /\ InJs
    /\ \E res \in Outcome, threw \in BOOLEAN :
         stack' = [Callers EXCEPT ![Depth - 1] =
                     [Callers[Depth - 1] EXCEPT !.at = "result", !.res = res, !.threw = threw,
                                                !.top = Callers[Depth - 1].top + 1]]
    /\ UNCHANGED <<globals, dead>>

\* It defines, overwrites or deletes a global.
JsAssigns(n) ==
    /\ InJs
    /\ \E b \in Binding \ {"gofunc"} : globals' = [globals EXCEPT ![n] = b]
    /\ UNCHANGED <<stack, dead>>

\* It calls a native function it got hold of.
JsCallsNative ==
    /\ InJs
    /\ Depth < MaxDepth
    /\ stack' = Append(stack, NewHost)
    /\ UNCHANGED <<globals, dead>>

\* The native function returns a value, or an error which JavaScript sees as a throw.
NativeReturns ==
    /\ HostAt("idle")
    /\ Depth > 1
    /\ stack' = Callers
    /\ UNCHANGED <<globals, dead>>

Next ==
    \/ \E n \in Name :
         \/ RegisterFunc(n) \/ RegisterNative(n) \/ RegisterVar(n)
         \/ js_unregister_func(n) \/ js_unregister_native_func(n)
         \/ CallMissing(n) \/ CallRegistered(n) \/ JsAssigns(n)
    \/ CallFileFunc \/ js_call_ecmascript_func \/ PushArg \/ PushErrorArg \/ Pcall
    \/ Eval \/ CheckSyntax \/ FileUnread \/ ResultCallback
    \/ JsEnds \/ JsCallsNative \/ NativeReturns

Spec == Init /\ [][Next]_vars

------------------------------------------------------------------------------
(* Properties. *)

HostFrames == {i \in 1..Depth : stack[i].k = "host"}

\* The slots of frame f's value stack are those left by its misses, and those of the
\* call it is in the middle of.
Balanced(f) ==
    /\ f.at \in {"idle", "run"} => f.top = f.missed
    /\ f.at = "result" => f.top = f.missed + 1
    /\ f.at = "args" => f.top = f.missed + 1 + f.argc

\* Whatever was called, nested, thrown or refused in between: a host frame that is between
\* two calls of the bridge has on its value stack what the calls of missing functions left
\* there (duk_bridge.c:719), one slot each, and nothing else.
IdleStackHoldsOnlyMisses == \A i \in HostFrames : Balanced(stack[i])

\* The value stack runs over only when misses have filled it: a host program that calls
\* nothing but existing functions, with no more arguments than fit, never gets there, however
\* many slots its steps use within Work.
OverflowNeedsMisses ==
    dead = "overflow" => stack[1].missed + 1 + MaxArgs + Work > Limit

\* A host that passed a callback gets it called exactly once if JavaScript was run or
\* compiled, or the file was missing, and not at all in any other case: Go's parseResult and
\* SyntaxCheck tell the outcome by what the callback left (duk_bridge.go:70-79, 137-145).  (So
\* SyntaxCheckFile passes a file that exists and cannot be read: no callback, no error,
\* duk_bridge.go:159.)
Owed(f) ==
    \/ f.op = "call" /\ f.ran
    \/ f.op \in {"eval", "check"} /\ f.rc \in {0, -1}

CalledBack(f) == f.cb = IF f.at = "idle" /\ Owed(f) THEN 1 ELSE 0

CallbackOnce == \A i \in HostFrames : CalledBack(stack[i])

\* "call a registered function ... @return 0 if successfuly, otherwise <0"
\* (duk_bridge.h:150-166): every call returns, so the process is never aborted.
EveryCallReturns == dead = "no"
==============================================================================
