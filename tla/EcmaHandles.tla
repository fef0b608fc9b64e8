----------------------------- MODULE EcmaHandles -----------------------------
(***************************************************************************)
(* duk-bridge-go/duk_bridge.c: how JavaScript functions are handed to      *)
(* native code.  A function that JavaScript passes to a native function,   *)
(* or returns to a native caller, is saved as a hidden global property     *)
(* named by a reading of the microsecond clock (save_top_object); native   *)
(* code only ever holds that number, calls through it, and must destroy it.*)
(* Nothing keeps two readings of the clock apart: two functions saved in   *)
(* one microsecond, or after the clock was set back, share a number.  The  *)
(* history variable twice says which numbers; no action reads it.          *)
(*                                                                         *)
(* One environment runs on one thread, but the calls nest: native code     *)
(* runs JavaScript, which calls native functions, whose arguments are      *)
(* converted one at a time, and the conversion of an argument to JSON can  *)
(* throw, or run a toJSON method that calls native functions in turn.      *)
(* stack is that nesting, the innermost last:                              *)
(*    "js"       JavaScript is running                                     *)
(*    "convert"  native_func_bridge is converting the arguments            *)
(*    "native"   the native function has them and is running               *)
(* An empty stack is the host program outside of any call.                 *)
(* Arguments and results that are not functions leave no trace here.       *)
(* Definitions marked "Fault" are bugs for the properties to notice.       *)
(***************************************************************************)
EXTENDS Naturals, Sequences

CONSTANTS
    Func,       \* the JavaScript functions
    Time,       \* the readings of gettimeofday, in microseconds
    MaxSaves,   \* bound: functions saved in a behaviour
    MaxDepth,   \* bound: nested calls
    Absent      \* undefined: no such property

ASSUME BoundAssumption == MaxSaves \in Nat /\ MaxDepth \in Nat
ASSUME AbsentAssumption == Absent \notin Func

VARIABLES
    stack,      \* the calls in progress
    global,     \* global[h]: the function saved under handle h, or Absent
    pending,    \* the handles saved by conversions in progress: [h, f, d], d the frame's depth
    wraps,      \* the handles native code holds: [h, f], f the function it was given
    stale,      \* the handles native code has destroyed (its copies of the number remain)
    aborted,    \* history: some function was saved for a call that did not deliver it
    made,       \* history: the handles ever made
    twice,      \* history: the handles more than one function was saved under
    saves       \* functions saved so far (bounds the instance)

history == <<made, twice>>
vars == <<stack, global, pending, wraps, stale, aborted, history, saves>>

Frame == {"js", "convert", "native"}
Handle == [h : Time, f : Func]

TypeOK ==
    /\ stack \in Seq(Frame)
    /\ global \in [Time -> Func \cup {Absent}]
    /\ pending \subseteq [h : Time, f : Func, d : Nat]
    /\ wraps \subseteq Handle
    /\ stale \subseteq Handle
    /\ aborted \in BOOLEAN
    /\ made \subseteq Time /\ twice \subseteq Time
    /\ saves \in 0..MaxSaves

Init ==
    /\ stack = <<>>
    /\ global = [h \in Time |-> Absent]
    /\ pending = {} /\ wraps = {} /\ stale = {}
    /\ aborted = FALSE
    /\ made = {} /\ twice = {}
    /\ saves = 0

Depth == Len(stack)
Top(frame) == stack # <<>> /\ stack[Depth] = frame
Below(n) == SubSeq(stack, 1, Depth - n)
\* The host program is running: outside of any call, or inside a native function.
HostTurn == stack = <<>> \/ Top("native")
\* The caller of the innermost frame is the host program.
CalledByHost == Depth = 1 \/ (Depth > 1 /\ stack[Depth - 1] = "native")

Push(frame) ==
    /\ Depth < MaxDepth
    /\ stack' = Append(stack, frame)

\* What gettimeofday answers, in microseconds: any reading, one it gave before included.
ReadClock == Time

\* save_top_object: the function goes into the global object under the time of day.
Save(f, h) ==
    /\ saves < MaxSaves
    /\ saves' = saves + 1
    /\ h \in ReadClock
    /\ global' = [global EXCEPT ![h] = f]
    /\ made' = made \cup {h}
    /\ twice' = twice \cup ({h} \cap made)

handleVars == <<global, pending, wraps, stale, aborted, history, saves>>

\* The handles saved at the frame of depth d are dropped with the frame: nobody destroys them.
Abandon(d) ==
    /\ pending' = {p \in pending : p.d # d}
    /\ aborted' = TRUE

------------------------------------------------------------------------------
(* The host program. *)

\* js_eval, js_eval_file, js_call_registered_func, js_call_file_func.
RunJs ==
    /\ HostTurn
    /\ Push("js")
    /\ UNCHANGED handleVars

\* js_call_ecmascript_func: the property is loaded and called.  Calling undefined fails.
js_call_ecmascript_func(w) ==
    /\ HostTurn
    /\ global[w.h] # Absent
    /\ Push("js")
    /\ UNCHANGED handleVars

\* Fault: the deletion misses the property.
destroyNothing(w) ==
    /\ HostTurn
    /\ wraps' = wraps \ {w}
    /\ stale' = stale \cup {w}
    /\ UNCHANGED <<stack, global, pending, aborted, history, saves>>

\* js_destroy_ecmascript_obj: the property is deleted, whatever it is.
js_destroy_ecmascript_obj(w) ==
    /\ HostTurn
    /\ global' = [global EXCEPT ![w.h] = Absent]
    /\ wraps' = wraps \ {w}
    /\ stale' = stale \cup {w}
    /\ UNCHANGED <<stack, pending, aborted, history, saves>>

\* The native function returns to JavaScript, with a value, a function it loads by its
\* handle, or an error.
NativeReturns ==
    /\ Top("native")
    /\ stack' = Below(1)
    /\ UNCHANGED handleVars

------------------------------------------------------------------------------
(* native_func_bridge. *)

JsCallsNative ==
    /\ Top("js")
    /\ Push("convert")
    /\ UNCHANGED handleVars

\* An argument is an ECMAScript function.
ConvertFunc ==
    /\ Top("convert")
    /\ \E f \in Func, h \in Time :
         /\ Save(f, h)
         /\ pending' = pending \cup {[h |-> h, f |-> f, d |-> Depth]}
    /\ UNCHANGED <<stack, wraps, stale, aborted>>

\* An argument is an object whose JSON encoding runs JavaScript (toJSON, a getter).
ConvertRunsJs ==
    /\ Top("convert")
    /\ Push("js")
    /\ UNCHANGED handleVars

\* Fault: cleaning up what was saved, and what the conversions further out have saved too.
ConvertThrowsFreeing ==
    /\ Top("convert")
    /\ stack' = Below(1)
    /\ global' = [h \in Time |-> IF \E p \in pending : p.h = h THEN Absent ELSE global[h]]
    /\ Abandon(Depth)
    /\ UNCHANGED <<wraps, stale, history, saves>>

\* The JSON encoding of an argument throws (it is circular): the bridge is left at once.
ConvertThrows ==
    /\ Top("convert")
    /\ stack' = Below(1)
    /\ Abandon(Depth)
    /\ UNCHANGED <<global, wraps, stale, history, saves>>

\* Fault: the native function gets the bridge's own slots.
CallNativeRaw ==
    /\ Top("convert")
    /\ stack' = Append(Below(1), "native")
    /\ wraps' = wraps \cup {q \in pending : q.d = Depth}
    /\ pending' = {p \in pending : p.d # Depth}
    /\ UNCHANGED <<global, stale, aborted, history, saves>>

\* The arguments are converted and the native function gets them.
CallNative ==
    /\ Top("convert")
    /\ stack' = Append(Below(1), "native")
    /\ wraps' = wraps \cup {[h |-> p.h, f |-> p.f] : p \in {q \in pending : q.d = Depth}}
    /\ pending' = {p \in pending : p.d # Depth}
    /\ UNCHANGED <<global, stale, aborted, history, saves>>

\* callGoFunc refuses the arguments (their number, or the type of one of them): the Go
\* function is not called and JavaScript gets undefined.
Refuse ==
    /\ Top("convert")
    /\ stack' = Below(1)
    /\ Abandon(Depth)
    /\ UNCHANGED <<global, wraps, stale, history, saves>>

------------------------------------------------------------------------------
(* The end of a JavaScript call. *)

\* It returns a value: to the host program, or to the JSON encoder that called it.
JsReturns ==
    /\ Top("js")
    /\ stack' = Below(1)
    /\ UNCHANGED handleVars

\* Fault: a result of type rt_func is saved, but the host's callback ignores it.
JsReturnsFuncIgnored ==
    /\ Top("js") /\ CalledByHost
    /\ stack' = Below(1)
    /\ \E f \in Func, h \in Time : Save(f, h)
    /\ UNCHANGED <<pending, wraps, stale, aborted>>

\* It returns or throws a function: call_result_callback saves it, and the host program's
\* callback gets the handle (go_resultReceived).
JsReturnsFunc ==
    /\ Top("js") /\ CalledByHost
    /\ stack' = Below(1)
    /\ \E f \in Func, h \in Time :
         /\ Save(f, h)
         /\ wraps' = wraps \cup {[h |-> h, f |-> f]}
    /\ UNCHANGED <<pending, stale, aborted>>

\* It throws: duk_pcall hands the error to the host program, but the JSON encoder and the
\* conversion it serves are left.
JsThrows ==
    /\ Top("js")
    /\ IF CalledByHost
         THEN /\ stack' = Below(1)
              /\ UNCHANGED <<pending, aborted>>
         ELSE /\ stack' = Below(2)
              /\ Abandon(Depth - 1)
    /\ UNCHANGED <<global, wraps, stale, history, saves>>

\* The same, but the host drops the handle: Go's parseResult if the function was thrown,
\* Java's resultReceived whenever it gets one.
JsFuncDropped ==
    /\ Top("js") /\ CalledByHost
    /\ stack' = Below(1)
    /\ \E f \in Func, h \in Time : Save(f, h)
    /\ aborted' = TRUE
    /\ UNCHANGED <<pending, wraps, stale>>

HostStep ==
    \/ RunJs \/ NativeReturns
    \/ \E w \in wraps \cup stale : js_call_ecmascript_func(w) \/ js_destroy_ecmascript_obj(w)

BridgeStep ==
    JsCallsNative \/ ConvertFunc \/ ConvertRunsJs \/ ConvertThrows \/ CallNative \/ Refuse

JsStep == JsReturns \/ JsReturnsFunc \/ JsThrows \/ JsFuncDropped

Next == HostStep \/ BridgeStep \/ JsStep

Spec == Init /\ [][Next]_vars

------------------------------------------------------------------------------
(* Properties. *)

\* The function native code was given is the one it calls: an 'F' argument is something "which
\* will be called by using js_call_ecmascript_func()" (duk_bridge.h:250-251).
FunctionPassedIsCalled ==
    \A w \in wraps : global[w.h] = w.f

\* A handle made once leads to its function for as long as native code, or a conversion in
\* progress, holds it: no other save, no destruction (of handles made twice included), no
\* nested call and no abandoned conversion redirects it or kills it.
HandleFidelity ==
    \A w \in wraps \cup pending : w.h \notin twice => global[w.h] = w.f

\* A handle made once that was destroyed leads nowhere ever after: calling it again fails
\* instead of calling a function saved later, and destroying it again destroys nothing (the
\* Go wrapper keeps the number, ecma_obj.go:26-28).
DestroyedHandlesAreDead ==
    \A w \in stale : w.h \notin twice => global[w.h] = Absent

Owned(h) == (\E w \in wraps : w.h = h) \/ (\E p \in pending : p.h = h)

\* Every saved function is in somebody's hands, who can destroy it: "which must be freed by
\* calling js_destropy_ecmascript_func" (duk_bridge.c:603, 878).
EverySavedIsOwned ==
    \A h \in Time : global[h] # Absent => Owned(h)

\* Functions are lost only with a conversion that was abandoned (a throwing argument, a
\* refused call) or a result the host dropped: whatever nests and returns otherwise, every
\* one keeps an owner.
LostOnlyWhenAborted == ~aborted => EverySavedIsOwned
==============================================================================
