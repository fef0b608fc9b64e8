-------------------------- MODULE BridgeCallsProofs --------------------------
(***************************************************************************)
(* Theorems about BridgeCalls, for any names, arguments, depth of nesting  *)
(* and size of the value stacks.                                           *)
(*                                                                         *)
(* The inductive invariant has three parts.  Nesting is the shape of the   *)
(* stack: host frames and JavaScript alternate, and every host frame but   *)
(* an innermost one waits.  FrameOK is what holds of each host frame by    *)
(* itself.  The third is OverflowNeedsMisses.  A step changes the stack in *)
(* one of five ways, and there is a lemma for each.                        *)
(***************************************************************************)
EXTENDS BridgeCalls, SequenceTheorems, TLAPS

USE BoundAssumption, WorkAssumption

Nesting ==
    /\ stack # <<>>
    /\ \A i \in 1..(Depth - 1) : stack[i].k # stack[i + 1].k
    /\ stack[1].k = "host"
    /\ \A i \in 1..Depth : stack[i].k = "host" => (stack[i].at = "run" <=> i < Depth)

\* Frame f is in the middle of a call that ends with a callback: it evaluates, or compiles, or
\* calls a function, which from duk_pcall on counts as run.
InCall(f) ==
    /\ f.at # "idle" => f.op \in {"call", "eval", "check"}
    /\ f.at \in {"run", "result"} /\ f.op = "call" => f.ran

FrameOK(f) == Balanced(f) /\ CalledBack(f) /\ InCall(f)
FramesOK == \A i \in 1..Depth : stack[i].k = "host" => FrameOK(stack[i])

IInv == TypeOK /\ Nesting /\ FramesOK /\ OverflowNeedsMisses

\* The stack alone: what a step that leaves dead alone has to preserve.
StackInv == stack \in Seq(HostFrame \cup {JsFrame}) /\ Nesting /\ FramesOK

\* A frame is a host frame exactly if it says so.
LEMMA Kinds ==
    /\ \A f \in HostFrame : f.k = "host"
    /\ JsFrame.k = "js"
    /\ \A f \in HostFrame \cup {JsFrame} : f.k = "host" <=> f \in HostFrame
BY DEF HostFrame, JsFrame

\* The host program's first frame is in order.
LEMMA FreshFrame == NewHost \in HostFrame /\ FrameOK(NewHost) /\ NewHost.at = "idle"
BY DEF NewHost, HostFrame, FrameOK, Balanced, CalledBack, InCall, Owed, Outcome, Op

\* What there is to show of a new stack, frame by frame.
LEMMA NewStack ==
    ASSUME stack' \in Seq(HostFrame \cup {JsFrame}),
           stack' # <<>>,
           stack'[1].k = "host",
           \A i \in 1..(Len(stack') - 1) : stack'[i].k # stack'[i + 1].k,
           \A i \in 1..Len(stack') : stack'[i].k = "host" =>
               FrameOK(stack'[i]) /\ (stack'[i].at = "run" <=> i < Len(stack'))
    PROVE  StackInv'
BY DEF StackInv, Nesting, FramesOK, Depth

\* What there is to know of the old one.
LEMMA OldStack ==
    ASSUME StackInv
    PROVE  /\ stack \in Seq(HostFrame \cup {JsFrame})
           /\ Depth \in Nat /\ Depth = Len(stack) /\ Depth >= 1
           /\ Cur = stack[Depth]
           /\ Cur \in HostFrame \cup {JsFrame}
           /\ stack[1].k = "host"
           /\ \A i \in 1..Depth : stack[i] \in HostFrame \cup {JsFrame}
           /\ \A i \in 1..(Depth - 1) : stack[i].k # stack[i + 1].k
           /\ \A i \in 1..Depth : stack[i].k = "host" =>
                FrameOK(stack[i]) /\ (stack[i].at = "run" <=> i < Depth)
           /\ Callers \in Seq(HostFrame \cup {JsFrame})
           /\ Len(Callers) = Depth - 1
           /\ \A i \in 1..(Depth - 1) : Callers[i] = stack[i]
<1>1. Len(stack) \in Nat /\ Len(stack) >= 1
  BY DEF StackInv, Nesting
<1>2. \A i \in 1..Len(stack) : stack[i] \in HostFrame \cup {JsFrame}
  BY DEF StackInv
<1>3. /\ Callers \in Seq(HostFrame \cup {JsFrame})
      /\ Len(Callers) = Depth - 1
      /\ \A i \in 1..(Depth - 1) : Callers[i] = stack[i]
  <2> DEFINE Fs == HostFrame \cup {JsFrame}
  <2>1. 1 \in Int /\ Len(stack) - 1 \in Int /\ \A i \in 1..(Len(stack) - 1) : stack[i] \in Fs
    BY <1>1, <1>2
  <2>2. /\ SubSeq(stack, 1, Len(stack) - 1) \in Seq(Fs)
        /\ Len(SubSeq(stack, 1, Len(stack) - 1)) =
             IF 1 <= Len(stack) - 1 THEN Len(stack) - 1 - 1 + 1 ELSE 0
        /\ \A i \in 1..(Len(stack) - 1 - 1 + 1) :
             SubSeq(stack, 1, Len(stack) - 1)[i] = stack[1 + i - 1]
    <3> HIDE DEF Fs
    <3> QED
      BY <2>1, SubSeqProperties
  <2>3. Callers = SubSeq(stack, 1, Len(stack) - 1) /\ Depth = Len(stack)
    BY DEF Callers, Depth
  <2>4. ASSUME NEW i \in 1..(Depth - 1) PROVE Callers[i] = stack[i]
    <3>1. i \in 1..(Len(stack) - 1 - 1 + 1) /\ 1 + i - 1 = i
      BY <1>1, <2>3
    <3> QED
      BY <2>2, <2>3, <3>1
  <2>5. Len(Callers) = Depth - 1
    BY <1>1, <2>2, <2>3
  <2> QED
    BY <2>2, <2>3, <2>4, <2>5
<1> QED
  BY <1>1, <1>2, <1>3 DEF StackInv, Nesting, FramesOK, Cur, Depth

\* The innermost host frame goes on in another state.
LEMMA SetFrame ==
    ASSUME StackInv, Cur.k = "host", NEW f \in HostFrame, FrameOK(f), f.at # "run", Set(f)
    PROVE  StackInv'
<1>1. /\ stack' \in Seq(HostFrame \cup {JsFrame})
      /\ Len(stack') = Depth
      /\ \A i \in 1..Depth : stack'[i] = IF i = Depth THEN f ELSE stack[i]
  BY OldStack DEF Set
<1> QED
  BY <1>1, OldStack, Kinds, NewStack

\* The innermost host frame is left by an exception, or by the return of a native function.
LEMMA DropFrame ==
    ASSUME StackInv, Cur.k = "host", Depth > 1, stack' = Callers
    PROVE  StackInv'
<1>1. /\ stack' \in Seq(HostFrame \cup {JsFrame})
      /\ Len(stack') = Depth - 1
      /\ \A i \in 1..(Depth - 1) : stack'[i] = stack[i]
  BY OldStack
<1>2. stack[Depth - 1].k # "host"
  BY OldStack
<1> QED
  BY <1>1, <1>2, OldStack, Kinds, NewStack

\* The innermost host frame runs JavaScript.
LEMMA AddJs ==
    ASSUME StackInv, Cur.k = "host", NEW f \in HostFrame, FrameOK(f), f.at = "run",
           stack' = Callers \o <<f, JsFrame>>
    PROVE  StackInv'
<1>1. /\ stack' \in Seq(HostFrame \cup {JsFrame})
      /\ Len(stack') = Depth + 1
      /\ \A i \in 1..(Depth - 1) : stack'[i] = stack[i]
      /\ stack'[Depth] = f
      /\ stack'[Depth + 1] = JsFrame
  BY OldStack
<1>2. stack'[1].k = "host"
  BY <1>1, OldStack, Kinds
<1>3. ASSUME NEW i \in 1..Depth PROVE stack'[i].k # stack'[i + 1].k
  <2>1. CASE i = Depth
    BY <1>1, <2>1, OldStack, Kinds
  <2>2. CASE i = Depth - 1
    BY <1>1, <2>2, OldStack, Kinds
  <2>3. CASE i < Depth - 1
    <3>1. i \in 1..(Depth - 1) /\ i + 1 \in 1..(Depth - 1)
      BY <2>3, OldStack
    <3> QED
      BY <1>1, <3>1, OldStack
  <2> QED
    BY <2>1, <2>2, <2>3, OldStack
<1>4. ASSUME NEW i \in 1..(Depth + 1), stack'[i].k = "host"
      PROVE  FrameOK(stack'[i]) /\ (stack'[i].at = "run" <=> i < Depth + 1)
  <2>1. i # Depth + 1
    BY <1>1, <1>4, Kinds
  <2>2. CASE i = Depth
    BY <1>1, <2>2, OldStack
  <2>3. CASE i < Depth
    BY <1>1, <1>4, <2>3, OldStack
  <2> QED
    BY <2>1, <2>2, <2>3, OldStack
<1>5. stack' # <<>>
  BY <1>1, OldStack
<1>6. Len(stack') = Depth + 1 /\ Len(stack') - 1 = Depth
  BY <1>1, OldStack
<1>7. \A i \in 1..(Len(stack') - 1) : stack'[i].k # stack'[i + 1].k
  BY <1>3, <1>6
<1>8. \A i \in 1..Len(stack') : stack'[i].k = "host" =>
        FrameOK(stack'[i]) /\ (stack'[i].at = "run" <=> i < Len(stack'))
  BY <1>4, <1>6
<1> QED
  BY <1>1, <1>2, <1>5, <1>7, <1>8, NewStack

\* JavaScript ends and the host frame below goes on.
LEMMA DropJs ==
    ASSUME StackInv, Cur.k = "js", NEW f \in HostFrame, FrameOK(f), f.at # "run",
           stack' = [Callers EXCEPT ![Depth - 1] = f]
    PROVE  StackInv'
<1>1. Depth > 1
  BY OldStack
<1>2. /\ stack' \in Seq(HostFrame \cup {JsFrame})
      /\ Len(stack') = Depth - 1
      /\ \A i \in 1..(Depth - 1) : stack'[i] = IF i = Depth - 1 THEN f ELSE stack[i]
  BY <1>1, OldStack
<1>3. stack[Depth - 1].k = "host"
  BY <1>1, OldStack, Kinds DEF JsFrame
<1> QED
  BY <1>1, <1>2, <1>3, OldStack, Kinds, NewStack

\* JavaScript calls a native function.
LEMMA AddHost ==
    ASSUME StackInv, Cur.k = "js", stack' = Append(stack, NewHost)
    PROVE  StackInv'
<1>1. /\ stack' \in Seq(HostFrame \cup {JsFrame})
      /\ Len(stack') = Depth + 1
      /\ \A i \in 1..Depth : stack'[i] = stack[i]
      /\ stack'[Depth + 1] = NewHost
  BY OldStack, FreshFrame
<1> QED
  BY <1>1, OldStack, Kinds, FreshFrame, NewStack

------------------------------------------------------------------------------
(* The steps. *)

\* The invariant once more, with its parts by name.
LEMMA Parts ==
    IInv <=> /\ StackInv
             /\ globals \in [Name -> Binding]
             /\ dead \in {"no", "overflow", "throw"}
             /\ OverflowNeedsMisses
BY DEF IInv, StackInv, TypeOK

\* A host frame in the middle of its work: what it is and what it has on its value stack.
LEMMA CurFrame ==
    ASSUME IInv, NEW at, HostAt(at)
    PROVE  /\ Cur \in HostFrame /\ FrameOK(Cur)
           /\ Cur.k = "host" /\ Cur.at = at /\ dead = "no"
           /\ Depth \in Nat /\ Depth >= 1
           /\ Depth = 1 => Cur = stack[1]
           /\ at = "run" => FALSE
BY Parts, OldStack, Kinds DEF HostAt

\* The misses of frame f, with the work of one call, fill a value stack.
Filled(f) == f.missed + 1 + MaxArgs + Work > Limit

\* An exception outside of every protected call.
LEMMA RaiseStep ==
    ASSUME IInv, NEW at, HostAt(at), NEW why \in {"overflow", "throw"},
           why = "overflow" => Filled(Cur), Raise(why), UNCHANGED globals
    PROVE  IInv'
<1>1. CASE Depth = 1
  <2>1. stack' = stack /\ dead' = why
    BY <1>1 DEF Raise
  <2>2. StackInv'
    BY <2>1, Parts DEF StackInv, Nesting, FramesOK, Depth
  <2>3. OverflowNeedsMisses'
    BY <1>1, <2>1, CurFrame DEF OverflowNeedsMisses, Filled
  <2> QED
    BY <2>1, <2>2, <2>3, Parts DEF IInv, TypeOK, StackInv
<1>2. CASE Depth # 1
  <2>1. stack' = Callers /\ dead' = "no" /\ Depth > 1
    BY <1>2, CurFrame DEF Raise
  <2>2. StackInv'
    BY <2>1, DropFrame, CurFrame, Parts
  <2> QED
    BY <2>1, <2>2, Parts DEF IInv, TypeOK, StackInv, OverflowNeedsMisses
<1> QED
  BY <1>1, <1>2

\* A frame that runs out of slots is filled by its misses: the call in progress has no more
\* than its function and its arguments, or its result, beside them.
LEMMA OverflowStep ==
    ASSUME IInv, NEW at, HostAt(at), at = "args" => Cur.argc < MaxArgs, Overflow
    PROVE  IInv'
<1>1. Cur.top \in Nat /\ Cur.missed \in Nat /\ Cur.argc \in 0..MaxArgs
  BY CurFrame DEF HostFrame
<1>2. \/ Cur.top <= Cur.missed + 1
      \/ at = "args" /\ Cur.top = Cur.missed + 1 + Cur.argc
  BY <1>1, CurFrame DEF FrameOK, Balanced, HostFrame
<1>3. Filled(Cur)
  BY <1>1, <1>2 DEF Overflow, Filled
<1> QED
  BY <1>3, RaiseStep DEF Overflow

\* An operation that leaves the host frame as f and the globals as g.
LEMMA GoStep ==
    ASSUME IInv, NEW at, HostAt(at), NEW f \in HostFrame, FrameOK(f), f.at # "run",
           NEW g \in [Name -> Binding], Set(f), globals' = g, UNCHANGED dead
    PROVE  IInv'
<1>1. StackInv' /\ dead = "no"
  BY SetFrame, CurFrame, Parts
<1> QED
  BY <1>1, Parts DEF IInv, TypeOK, StackInv, OverflowNeedsMisses

\* The same for one that may run out of slots.
LEMMA UsingStep ==
    ASSUME IInv, NEW at, HostAt(at), at = "args" => Cur.argc < MaxArgs,
           NEW f \in HostFrame, FrameOK(f), f.at # "run",
           NEW g \in [Name -> Binding], Using(f, g)
    PROVE  IInv'
BY OverflowStep, GoStep DEF Using

\* A call that starts and ends in one step.
LEMMA DoneFields ==
    ASSUME Cur \in HostFrame, NEW op \in Op, NEW rc \in Int
    PROVE  /\ Done(op, rc) \in HostFrame
           /\ Done(op, rc).at = Cur.at
           /\ Done(op, rc).top = Cur.top /\ Done(op, rc).missed = Cur.missed
           /\ Done(op, rc).op = op /\ Done(op, rc).rc = rc
           /\ Done(op, rc).cb = 0 /\ Done(op, rc).ran = FALSE
           /\ Done(op, rc).argc = Cur.argc
BY DEF HostFrame, Done

\* The frame after a call that ended at once, with rc.
LEMMA DoneFrame ==
    ASSUME IInv, HostAt("idle"), NEW op \in Op, NEW rc \in Int,
           op \in {"eval", "check"} => rc \notin {0, -1}
    PROVE  /\ Done(op, rc) \in HostFrame
           /\ FrameOK(Done(op, rc))
           /\ Done(op, rc).at = "idle"
<1> DEFINE d == Done(op, rc)
<1>1. Cur \in HostFrame /\ Cur.at = "idle" /\ Cur.top = Cur.missed
  BY CurFrame DEF FrameOK, Balanced
<1>2. /\ d \in HostFrame
      /\ d.at = "idle" /\ d.top = Cur.top /\ d.missed = Cur.missed
      /\ d.op = op /\ d.rc = rc /\ d.cb = 0 /\ d.ran = FALSE
  BY <1>1, DoneFields
<1>3. Balanced(d) /\ CalledBack(d) /\ InCall(d)
  <2> HIDE DEF d
  <2> QED
    BY <1>1, <1>2 DEF Balanced, CalledBack, InCall, Owed
<1> QED
  BY <1>2, <1>3 DEF FrameOK

\* Such a call preserves the invariant, whether or not it uses slots for a while.
LEMMA DoneStep ==
    ASSUME IInv, HostAt("idle"), NEW op \in Op, NEW rc \in Int,
           op \in {"eval", "check"} => rc \notin {0, -1},
           NEW g \in [Name -> Binding],
           Using(Done(op, rc), g) \/ (g = globals /\ Go(Done(op, rc)))
    PROVE  IInv'
<1>1. /\ Done(op, rc) \in HostFrame /\ FrameOK(Done(op, rc)) /\ Done(op, rc).at = "idle"
  BY DoneFrame
<1> QED
  BY <1>1, UsingStep, GoStep DEF Go

\* A call that goes on.
LEMMA BeginFrame ==
    ASSUME IInv, HostAt("idle"), NEW op \in Op, NEW at \in {"args", "run", "result"}
    PROVE  /\ Begin(op, at) \in HostFrame
           /\ Begin(op, at).at = at
           /\ Begin(op, at).top = Cur.missed /\ Begin(op, at).missed = Cur.missed
           /\ Begin(op, at).argc = 0 /\ Begin(op, at).rc = 0 /\ Begin(op, at).cb = 0
           /\ Begin(op, at).op = op
<1> DEFINE d == Done(op, 0)
<1>1. Cur \in HostFrame /\ Cur.top = Cur.missed
  BY CurFrame DEF FrameOK, Balanced
<1>2. 0 \in Int
  OBVIOUS
<1>3. /\ d \in HostFrame /\ d.top = Cur.top /\ d.missed = Cur.missed /\ d.rc = 0 /\ d.cb = 0
      /\ d.op = op
  BY <1>1, <1>2, DoneFields, Zenon
<1>4. PICK n \in 0..MaxArgs : n = 0
  OBVIOUS
<1>5. Begin(op, at) = [d EXCEPT !.argc = n, !.at = at]
  BY <1>4 DEF Begin
<1> DEFINE b == Begin(op, at)
<1> HIDE DEF d, b
<1>6. /\ b \in HostFrame
      /\ b.at = at /\ b.argc = n
      /\ b.top = d.top /\ b.missed = d.missed /\ b.rc = d.rc /\ b.cb = d.cb
      /\ b.op = d.op
  <2>1. b = [d EXCEPT !.argc = n, !.at = at]
    BY <1>5 DEF b
  <2> QED
    BY <1>3, <2>1 DEF HostFrame
<1> QED
  BY <1>1, <1>3, <1>4, <1>6 DEF b

\* The same with its function or its result on the value stack.
LEMMA PushedFrame ==
    ASSUME IInv, HostAt("idle"), NEW op \in {"call", "check"}, NEW at \in {"args", "result"},
           op = "call" <=> at = "args", NEW threw \in BOOLEAN
    PROVE  /\ Pushed(op, at, threw) \in HostFrame
           /\ FrameOK(Pushed(op, at, threw))
           /\ Pushed(op, at, threw).at # "run"
<1> DEFINE b == Begin(op, at)
<1> DEFINE f == Pushed(op, at, threw)
<1>1. Cur \in HostFrame /\ Cur.at = "idle" /\ Cur.top = Cur.missed
  BY CurFrame DEF FrameOK, Balanced
<1>2. /\ b \in HostFrame
      /\ b.at = at /\ b.missed = Cur.missed /\ b.argc = 0 /\ b.rc = 0 /\ b.cb = 0
      /\ b.op = op
  <2>1. op \in Op
    BY DEF Op
  <2> QED
    BY <2>1, BeginFrame
<1>3. Cur.top + 1 \in Nat
  BY <1>1 DEF HostFrame
<1>3a. PICK res \in Outcome : res = IF threw THEN "error" ELSE "value"
  BY DEF Outcome
<1>4. /\ f \in HostFrame
      /\ f.at = at /\ f.top = Cur.top + 1 /\ f.missed = Cur.missed /\ f.argc = 0
      /\ f.rc = 0 /\ f.cb = 0 /\ f.op = op
  <2>1. f = [b EXCEPT !.top = Cur.top + 1, !.threw = threw, !.res = res]
    BY <1>3a, Zenon DEF Pushed
  <2> HIDE DEF b, f
  <2> QED
    BY <1>2, <1>3, <2>1 DEF HostFrame
<1>5. FrameOK(f) /\ f.at # "run"
  <2> HIDE DEF f
  <2> QED
    BY <1>1, <1>4 DEF FrameOK, Balanced, CalledBack, InCall, HostFrame
<1> QED
  BY <1>4, <1>5

\* A call that pushes its function, or its result, preserves the invariant.
LEMMA PushedStep ==
    ASSUME IInv, HostAt("idle"), NEW op \in {"call", "check"}, NEW at \in {"args", "result"},
           op = "call" <=> at = "args", NEW threw \in BOOLEAN, Using(Pushed(op, at, threw), globals)
    PROVE  IInv'
<1>1. globals \in [Name -> Binding]
  BY Parts
<1> QED
  BY <1>1, PushedFrame, UsingStep

\* A host frame that runs JavaScript.
LEMMA RunStep ==
    ASSUME IInv, NEW at, HostAt(at), NEW f \in HostFrame, FrameOK(f), f.at = "run", RunJs(f)
    PROVE  IInv'
<1>1. stack' = Callers \o <<f, JsFrame>> /\ globals' = globals /\ dead' = "no"
  BY CurFrame DEF RunJs
<1>2. StackInv'
  BY <1>1, AddJs, CurFrame, Parts
<1> QED
  BY <1>1, <1>2, Parts DEF IInv, TypeOK, StackInv, OverflowNeedsMisses

\* Registration and unregistration.
LEMMA RegisterStep ==
    ASSUME IInv, NEW n \in Name,
           \/ RegisterFunc(n) \/ RegisterNative(n) \/ RegisterVar(n)
           \/ js_unregister_func(n) \/ js_unregister_native_func(n)
    PROVE  IInv'
<1>1. \A b \in Binding : [globals EXCEPT ![n] = b] \in [Name -> Binding]
  BY Parts
<1>2. globals \in [Name -> Binding]
  BY Parts
<1>3. "register" \in Op /\ "unregister" \in Op
  BY DEF Op
<1>4. \A rc \in fileErrors : rc \in Int
  BY DEF fileErrors
<1>5. {"jsfunc", "gofunc", "value", "null", "none"} \subseteq Binding
  BY DEF Binding
<1>6. CASE RegisterFunc(n)
  <2>1. HostAt("idle")
    BY <1>6 DEF RegisterFunc
  <2>2. CASE \E rc \in fileErrors : Go(Done("register", rc))
    BY <2>1, <2>2, <1>2, <1>3, <1>4, DoneStep
  <2>3. CASE \E rc \in {-1, -6} : Using(Done("register", rc), globals)
    BY <2>1, <2>3, <1>2, <1>3, DoneStep
  <2>4. CASE Using(Done("register", 0), [globals EXCEPT ![n] = "jsfunc"])
    BY <2>1, <2>4, <1>1, <1>3, <1>5, DoneStep
  <2> QED
    BY <1>6, <2>2, <2>3, <2>4 DEF RegisterFunc
<1>7. CASE RegisterNative(n)
  BY <1>7, <1>1, <1>3, <1>5, DoneStep DEF RegisterNative
<1>8. CASE RegisterVar(n)
  BY <1>8, <1>1, <1>3, <1>5, DoneStep DEF RegisterVar
<1>9. CASE js_unregister_func(n)
  BY <1>9, <1>1, <1>3, <1>5, DoneStep DEF js_unregister_func
<1>10. CASE js_unregister_native_func(n)
  <2>1. HostAt("idle")
    BY <1>10 DEF js_unregister_native_func
  <2>2. CASE globals[n] = "none"
    <3>1. Using(Done("unregister", -1), globals)
      BY <1>10, <2>2 DEF js_unregister_native_func
    <3> QED
      BY <2>1, <3>1, <1>2, <1>3, DoneStep
  <2>3. CASE globals[n] = "null"
    <3>1. Raise("throw") /\ UNCHANGED globals
      BY <1>10, <2>3 DEF js_unregister_native_func
    <3> QED
      BY <2>1, <3>1, RaiseStep
  <2>4. CASE globals[n] = "gofunc"
    <3>1. Using(Done("unregister", 0), [globals EXCEPT ![n] = "none"])
      BY <1>10, <2>4 DEF js_unregister_native_func
    <3> QED
      BY <2>1, <3>1, <1>1, <1>3, <1>5, DoneStep
  <2>5. CASE globals[n] \in {"jsfunc", "value"}
    <3>1. Using(Done("unregister", -2), globals)
      BY <1>10, <2>5 DEF js_unregister_native_func
    <3> QED
      BY <2>1, <3>1, <1>2, <1>3, DoneStep
  <2> QED
    BY <1>2, <2>2, <2>3, <2>4, <2>5 DEF Binding
<1> QED
  BY <1>6, <1>7, <1>8, <1>9, <1>10

\* Calls into JavaScript, up to the point where it runs.
LEMMA CallStep ==
    ASSUME IInv,
           \/ \E n \in Name : CallMissing(n) \/ CallRegistered(n)
           \/ CallFileFunc \/ js_call_ecmascript_func \/ CheckSyntax \/ FileUnread
    PROVE  IInv'
<1>1. globals \in [Name -> Binding]
  BY Parts
<1>2. "call" \in Op /\ "check" \in Op /\ "eval" \in Op
  BY DEF Op
<1>3. TRUE \in BOOLEAN /\ FALSE \in BOOLEAN
  OBVIOUS
<1>4. \A rc \in fileErrors : rc \in Int /\ rc # 0
  BY DEF fileErrors
<1>5. ASSUME NEW n \in Name, CallMissing(n) PROVE IInv'
  <2> DEFINE d == Done("call", -1)
  <2> DEFINE f == [d EXCEPT !.top = Cur.top + 1, !.missed = Cur.missed + 1]
  <2>1. HostAt("idle") /\ Using(f, globals)
    BY <1>5 DEF CallMissing
  <2>2. Cur \in HostFrame /\ Cur.top = Cur.missed
    BY <2>1, CurFrame DEF FrameOK, Balanced
  <2>3. d \in HostFrame /\ FrameOK(d) /\ d.at = "idle" /\ d.op = "call" /\ d.cb = 0 /\ d.ran = FALSE
    <3>1. -1 \in Int /\ "call" \notin {"eval", "check"}
      OBVIOUS
    <3> QED
      BY <2>1, <2>2, <3>1, <1>2, DoneFrame, DoneFields, Zenon
  <2>4. Cur.top + 1 \in Nat /\ Cur.missed + 1 = Cur.top + 1
    BY <2>2 DEF HostFrame
  <2> HIDE DEF d
  <2>5. /\ f \in HostFrame
        /\ f.at = "idle" /\ f.top = Cur.top + 1 /\ f.missed = Cur.top + 1
        /\ f.op = d.op /\ f.rc = d.rc /\ f.cb = d.cb /\ f.ran = d.ran
    BY <2>2, <2>3, <2>4 DEF HostFrame
  <2> HIDE DEF f
  <2>6. FrameOK(f)
    BY <2>3, <2>5 DEF FrameOK, Balanced, CalledBack, InCall, Owed
  <2> QED
    BY <2>1, <2>5, <2>6, <1>1, UsingStep
<1>6. ASSUME NEW n \in Name, CallRegistered(n) PROVE IInv'
  <2>1. PICK threw \in BOOLEAN : threw = (globals[n] \notin {"jsfunc", "gofunc"})
    OBVIOUS
  <2>2. HostAt("idle") /\ Using(Pushed("call", "args", threw), globals)
    BY <1>6, <2>1, Zenon DEF CallRegistered
  <2> QED
    BY <1>2, <2>2, PushedStep
<1>7. CASE CallFileFunc
  <2>1. HostAt("idle")
    BY <1>7 DEF CallFileFunc
  <2>2. CASE \E rc \in fileErrors : Go(Done("call", rc))
    BY <2>1, <2>2, <1>1, <1>2, <1>4, DoneStep
  <2>3. CASE Using(Done("call", -1), globals)
    BY <2>1, <2>3, <1>1, <1>2, DoneStep
  <2>4. CASE Using(Pushed("call", "args", FALSE), globals)
    BY <2>1, <2>4, <1>2, <1>3, PushedStep
  <2> QED
    BY <1>7, <2>2, <2>3, <2>4 DEF CallFileFunc
<1>8. CASE js_call_ecmascript_func
  BY <1>8, <1>2, <1>3, PushedStep DEF js_call_ecmascript_func
<1>9. CASE CheckSyntax
  BY <1>9, <1>2, <1>3, PushedStep DEF CheckSyntax
<1>10. CASE FileUnread
  <2>1. PICK op \in {"eval", "check"} :
          \/ Using([Done(op, -1) EXCEPT !.cb = 1], globals)
          \/ \E rc \in fileErrors \ {-1} : Go(Done(op, rc))
    BY <1>10 DEF FileUnread
  <2>2. HostAt("idle") /\ op \in Op
    BY <1>10, <1>2 DEF FileUnread
  <2>3. CASE \E rc \in fileErrors \ {-1} : Go(Done(op, rc))
    BY <2>2, <2>3, <1>1, <1>4, DoneStep
  <2>4. CASE Using([Done(op, -1) EXCEPT !.cb = 1], globals)
    <3> DEFINE d == Done(op, -1)
    <3> DEFINE f == [d EXCEPT !.cb = 1]
    <3>1. /\ d \in HostFrame /\ d.at = "idle" /\ d.top = Cur.top /\ d.missed = Cur.missed
          /\ d.op = op /\ d.rc = -1 /\ Cur.top = Cur.missed
      <4>1. -1 \in Int
        OBVIOUS
      <4>2. Cur \in HostFrame /\ Cur.at = "idle" /\ FrameOK(Cur)
        BY <2>2, CurFrame
      <4>3. Cur.top = Cur.missed
        BY <4>2 DEF FrameOK, Balanced
      <4> QED
        BY <2>2, <4>1, <4>2, <4>3, DoneFields, Zenon
    <3> HIDE DEF d
    <3>2. /\ f \in HostFrame
          /\ f.at = "idle" /\ f.top = d.top /\ f.missed = d.missed /\ f.rc = -1 /\ f.cb = 1
          /\ f.op = op
      BY <3>1 DEF HostFrame
    <3> HIDE DEF f
    <3>3. FrameOK(f)
      BY <2>1, <3>1, <3>2 DEF FrameOK, Balanced, CalledBack, InCall, Owed
    <3> QED
      <4>1. Using(f, globals)
        BY <2>4 DEF f, d
      <4> QED
        BY <2>2, <4>1, <3>2, <3>3, <1>1, UsingStep
  <2> QED
    BY <2>1, <2>3, <2>4
<1> QED
  BY <1>5, <1>6, <1>7, <1>8, <1>9, <1>10

\* Arguments.
LEMMA ArgStep ==
    ASSUME IInv, PushArg \/ PushErrorArg
    PROVE  IInv'
<1>1. HostAt("args")
  BY DEF PushArg, PushErrorArg
<1>2. Cur \in HostFrame /\ Cur.at = "args" /\ Cur.top = Cur.missed + 1 + Cur.argc /\ Cur.cb = 0
  BY <1>1, CurFrame DEF FrameOK, Balanced, CalledBack
<1>3. CASE PushArg
  <2> DEFINE f == [Cur EXCEPT !.top = Cur.top + 1, !.argc = Cur.argc + 1]
  <2>1. Using(f, globals) /\ Cur.argc < MaxArgs
    BY <1>3 DEF PushArg
  <2>2. Cur.top + 1 \in Nat /\ Cur.argc + 1 \in 0..MaxArgs
    BY <1>2, <2>1 DEF HostFrame
  <2>3. /\ f \in HostFrame
        /\ f.at = "args" /\ f.top = Cur.top + 1 /\ f.argc = Cur.argc + 1
        /\ f.missed = Cur.missed /\ f.cb = Cur.cb /\ f.rc = Cur.rc /\ f.op = Cur.op
    BY <1>2, <2>2 DEF HostFrame
  <2>4. FrameOK(f) /\ f.at # "run"
    <3>1. FrameOK(Cur)
      BY <1>1, CurFrame
    <3> HIDE DEF f
    <3> QED
      BY <1>2, <2>3, <3>1 DEF FrameOK, Balanced, CalledBack, InCall, HostFrame
  <2>5. globals \in [Name -> Binding]
    BY Parts
  <2> QED
    BY <1>1, <2>1, <2>3, <2>4, <2>5, UsingStep
<1>4. CASE PushErrorArg
  BY <1>1, <1>4, RaiseStep DEF PushErrorArg
<1> QED
  BY <1>3, <1>4

\* JavaScript is run.
LEMMA PcallStep ==
    ASSUME IInv, Pcall
    PROVE  IInv'
<1> DEFINE c == [Cur EXCEPT !.top = Cur.top - Cur.argc - 1, !.ran = TRUE, !.at = "run"]
<1>1. HostAt("args")
  BY DEF Pcall
<1>2. Cur \in HostFrame /\ Cur.at = "args" /\ Cur.top = Cur.missed + 1 + Cur.argc /\ Cur.cb = 0
  BY <1>1, CurFrame DEF FrameOK, Balanced, CalledBack
<1>3. Cur.top - Cur.argc - 1 = Cur.missed /\ Cur.missed \in Nat
  BY <1>2 DEF HostFrame
<1>4. /\ c \in HostFrame
      /\ c.at = "run" /\ c.top = Cur.missed /\ c.missed = Cur.missed
      /\ c.cb = Cur.cb /\ c.rc = Cur.rc /\ c.op = Cur.op /\ c.ran = TRUE
  BY <1>2, <1>3 DEF HostFrame
<1>5. FrameOK(Cur)
  BY <1>1, CurFrame
<1>6. CASE Go([c EXCEPT !.top = c.top + 1, !.at = "result"])
  <2> DEFINE f == [c EXCEPT !.top = c.top + 1, !.at = "result"]
  <2>1. Go(f)
    BY <1>6
  <2> HIDE DEF c
  <2>2. c.top + 1 \in Nat
    BY <1>4 DEF HostFrame
  <2>3. /\ f \in HostFrame
        /\ f.at = "result" /\ f.top = c.top + 1 /\ f.missed = c.missed
        /\ f.cb = c.cb /\ f.rc = c.rc /\ f.op = c.op /\ f.ran = c.ran
    BY <1>4, <2>2 DEF HostFrame
  <2> HIDE DEF f
  <2>4. FrameOK(f) /\ f.at # "run"
    BY <1>2, <1>4, <1>5, <2>3 DEF FrameOK, Balanced, CalledBack, InCall, HostFrame
  <2>5. globals \in [Name -> Binding]
    BY Parts
  <2> QED
    BY <1>1, <2>1, <2>3, <2>4, <2>5, GoStep DEF Go
<1>7. CASE RunJs(c)
  <2> HIDE DEF c
  <2>2. FrameOK(c)
    BY <1>2, <1>4, <1>5 DEF FrameOK, Balanced, CalledBack, InCall, HostFrame
  <2> QED
    BY <1>1, <1>4, <1>7, <2>2, RunStep
<1> QED
  BY <1>6, <1>7 DEF Pcall

\* Code is evaluated.
LEMMA EvalStep ==
    ASSUME IInv, Eval
    PROVE  IInv'
<1> DEFINE b == Begin("eval", "run")
<1> DEFINE f == [b EXCEPT !.ran = TRUE]
<1>1. HostAt("idle")
  BY DEF Eval
<1>2. CASE Overflow
  BY <1>1, <1>2, OverflowStep
<1>3. CASE RunJs(f)
  <2>1. RunJs(f)
    BY <1>3
  <2>2. "eval" \in Op
    BY DEF Op
  <2>3. /\ b \in HostFrame
        /\ b.at = "run" /\ b.top = b.missed /\ b.cb = 0 /\ b.op = "eval"
    BY <1>1, <2>2, BeginFrame
  <2> HIDE DEF b
  <2>4. /\ f \in HostFrame
        /\ f.at = "run" /\ f.top = f.missed /\ f.cb = 0 /\ f.op = "eval"
    BY <2>3 DEF HostFrame
  <2> HIDE DEF f
  <2>5. FrameOK(f)
    BY <2>4 DEF FrameOK, Balanced, CalledBack, InCall
  <2> QED
    BY <1>1, <2>1, <2>4, <2>5, RunStep
<1> QED
  BY <1>2, <1>3 DEF Eval

\* The callback gets the result.
LEMMA ResultStep ==
    ASSUME IInv, ResultCallback
    PROVE  IInv'
<1> DEFINE f == Returned(1, 1)
<1>1. HostAt("result")
  BY DEF ResultCallback, Deliver
<1>2. Cur \in HostFrame /\ Cur.at = "result" /\ Cur.top = Cur.missed + 1 /\ Cur.cb = 0
  BY <1>1, CurFrame DEF FrameOK, Balanced, CalledBack
<1>3. CASE Raise("throw") /\ UNCHANGED globals
  BY <1>1, <1>3, RaiseStep
<1>3a. CASE Overflow
  BY <1>1, <1>3a, OverflowStep
<1>4. CASE Go(f)
  <2>1. Go(f)
    BY <1>4
  <2>3. rcOf(Cur.op, Cur.threw) \in Int
    BY DEF rcOf
  <2>4. PICK n \in 0..MaxArgs, v \in Outcome, m \in Nat, o \in Nat, rc \in Int :
            /\ n = 0 /\ v = "value" /\ m = Cur.top - 1 /\ o = 1 + Cur.cb
            /\ rc = rcOf(Cur.op, Cur.threw)
    <3>1. 0 \in 0..MaxArgs /\ "value" \in Outcome
      BY BoundAssumption DEF Outcome
    <3>2. Cur.top - 1 \in Nat /\ 1 + Cur.cb \in Nat
      BY <1>2 DEF HostFrame
    <3> QED
      BY <2>3, <3>1, <3>2, Zenon
  <2>5. Cur.cb + 1 = o
    BY <1>2, <2>4
  <2>6. f = [Cur EXCEPT !.at = "idle", !.top = m, !.argc = n, !.res = v, !.threw = FALSE,
                        !.rc = rc, !.cb = o]
    BY <2>4, <2>5, Zenon DEF Returned
  <2> HIDE DEF f
  <2>7. /\ f \in HostFrame
        /\ f.at = "idle" /\ f.top = m /\ f.missed = Cur.missed /\ f.cb = o /\ f.rc = rc
        /\ f.op = Cur.op /\ f.ran = Cur.ran
    BY <1>2, <2>6 DEF HostFrame
  <2>8. /\ f.top = Cur.missed /\ f.cb = 1 /\ f.rc = rcOf(Cur.op, Cur.threw)
    BY <1>2, <2>4, <2>7 DEF HostFrame
  <2>9. FrameOK(f)
    <3>1. InCall(Cur)
      BY <1>1, CurFrame DEF FrameOK
    <3>2. Owed(f)
      BY <1>2, <2>7, <2>8, <3>1 DEF InCall, Owed, rcOf
    <3> QED
      BY <2>7, <2>8, <3>2 DEF FrameOK, Balanced, CalledBack, InCall
  <2>10. globals \in [Name -> Binding]
    BY Parts
  <2> QED
    BY <1>1, <2>1, <2>7, <2>9, <2>10, GoStep DEF Go
<1> QED
  BY <1>3, <1>3a, <1>4 DEF ResultCallback, Deliver

\* JavaScript and the native functions it calls.
LEMMA JsStep ==
    ASSUME IInv, JsEnds \/ (\E n \in Name : JsAssigns(n)) \/ JsCallsNative \/ NativeReturns
    PROVE  IInv'
<1>1. CASE JsEnds
  <2>1. PICK res \in Outcome, threw \in BOOLEAN :
          stack' = [Callers EXCEPT ![Depth - 1] =
                      [Callers[Depth - 1] EXCEPT !.at = "result", !.res = res, !.threw = threw,
                                                 !.top = Callers[Depth - 1].top + 1]]
    BY <1>1 DEF JsEnds
  <2> DEFINE c == Callers[Depth - 1]
  <2> DEFINE f == [c EXCEPT !.at = "result", !.res = res, !.threw = threw, !.top = c.top + 1]
  <2>2. StackInv /\ Cur.k = "js" /\ dead = "no"
    BY <1>1, Parts DEF JsEnds, InJs
  <2>3. c \in HostFrame /\ FrameOK(c) /\ c.at = "run"
    BY <2>2, OldStack, Kinds
  <2>4. stack' = [Callers EXCEPT ![Depth - 1] = f]
    BY <2>1
  <2> HIDE DEF c
  <2>5. c.top + 1 \in Nat
    BY <2>3 DEF HostFrame
  <2>6. f = [c EXCEPT !.at = "result", !.res = res, !.threw = threw, !.top = c.top + 1]
    OBVIOUS
  <2> HIDE DEF f
  <2>7. /\ f \in HostFrame
        /\ f.at = "result" /\ f.top = c.top + 1 /\ f.missed = c.missed
        /\ f.cb = c.cb /\ f.rc = c.rc /\ f.op = c.op /\ f.ran = c.ran
    BY <2>1, <2>3, <2>5, <2>6 DEF HostFrame
  <2>8. FrameOK(f)
    BY <2>3, <2>7 DEF FrameOK, Balanced, CalledBack, InCall
  <2>9. StackInv'
    BY <2>2, <2>4, <2>7, <2>8, DropJs
  <2> QED
    BY <1>1, <2>2, <2>9, Parts DEF JsEnds, IInv, TypeOK, StackInv, OverflowNeedsMisses
<1>2. ASSUME NEW n \in Name, JsAssigns(n) PROVE IInv'
  BY <1>2 DEF JsAssigns, IInv, TypeOK, Nesting, FramesOK, OverflowNeedsMisses, Depth
<1>3. CASE JsCallsNative
  <2>1. StackInv'
    BY <1>3, AddHost, Parts DEF JsCallsNative, InJs
  <2> QED
    BY <1>3, <2>1, Parts DEF JsCallsNative, InJs, IInv, TypeOK, StackInv, OverflowNeedsMisses
<1>4. CASE NativeReturns
  <2>1. StackInv' /\ dead = "no"
    BY <1>4, DropFrame, CurFrame, Parts DEF NativeReturns
  <2> QED
    BY <1>4, <2>1, Parts DEF NativeReturns, IInv, TypeOK, StackInv, OverflowNeedsMisses
<1> QED
  BY <1>1, <1>2, <1>3, <1>4

------------------------------------------------------------------------------
(* The theorems. *)

\* The invariant holds at the start,
LEMMA InitInv == Init => IInv
<1> SUFFICES ASSUME Init PROVE IInv
  OBVIOUS
<1>1. /\ stack \in Seq(HostFrame \cup {JsFrame})
      /\ Len(stack) = 1 /\ stack[1] = NewHost
  BY FreshFrame DEF Init
<1>2. Nesting /\ FramesOK
  BY <1>1, FreshFrame, Kinds DEF Nesting, FramesOK, Depth
<1>3. globals \in [Name -> Binding] /\ dead = "no"
  BY DEF Init, Binding
<1> QED
  BY <1>1, <1>2, <1>3 DEF IInv, TypeOK, OverflowNeedsMisses

\* and every step preserves it.
LEMMA NextInv == IInv /\ [Next]_vars => IInv'
<1> SUFFICES ASSUME IInv, [Next]_vars PROVE IInv'
  OBVIOUS
<1>1. CASE Next
  BY <1>1, RegisterStep, CallStep, ArgStep, PcallStep, EvalStep, ResultStep, JsStep DEF Next
<1>2. CASE UNCHANGED vars
  BY <1>2 DEF vars, IInv, TypeOK, Nesting, FramesOK, OverflowNeedsMisses, Depth
<1> QED
  BY <1>1, <1>2

\* The inductive invariant: well-typed states, calls that nest as host and JavaScript frames do,
\* each host frame's value stack and callbacks as its call requires, and no overflow without misses.
THEOREM Invariant == Spec => []IInv
BY InitInv, NextInv, PTL DEF Spec

\* Every state is well typed; in particular no value stack is popped below its bottom.
THEOREM Typing == Spec => []TypeOK
<1>1. IInv => TypeOK
  BY DEF IInv
<1> QED
  BY <1>1, Invariant, PTL

\* Whatever is called, nested, thrown or refused, value stacks hold what misses left and what
\* the call in progress put there, and nothing else.
THEOREM StacksAreBalanced == Spec => []IdleStackHoldsOnlyMisses
<1>1. IInv => IdleStackHoldsOnlyMisses
  BY DEF IInv, FramesOK, FrameOK, IdleStackHoldsOnlyMisses, HostFrames
<1> QED
  BY <1>1, Invariant, PTL

\* Whatever a step uses within Work, a value stack overflows only if the misses in it leave no
\* room for a function, its arguments and the work of one step.
THEOREM OnlyMissesOverflow == Spec => []OverflowNeedsMisses
<1>1. IInv => OverflowNeedsMisses
  BY DEF IInv
<1> QED
  BY <1>1, Invariant, PTL

\* A call that ran or compiled JavaScript, or found its file missing, has called its callback
\* once when it is over, and no other call has.
THEOREM CallbacksRunOnce == Spec => []CallbackOnce
<1>1. IInv => CallbackOnce
  BY DEF IInv, FramesOK, FrameOK, CallbackOnce, HostFrames
<1> QED
  BY <1>1, Invariant, PTL
==============================================================================
