-------------------------- MODULE EcmaHandlesProofs --------------------------
(***************************************************************************)
(* Theorems about EcmaHandles, for any functions, readings of the clock    *)
(* and depth of nesting, whatever the clock shows.                         *)
(***************************************************************************)
EXTENDS EcmaHandles, SequenceTheorems, TLAPS

USE BoundAssumption, AbsentAssumption

\* Whoever has a handle has one that was made.
AllMade == \A w \in wraps \cup stale \cup pending : w.h \in made

\* A handle made once is pending once at most, and native code does not have it yet.
OneOwner ==
    /\ \A p, q \in pending : p.h = q.h /\ p.h \notin twice => p = q
    /\ \A p \in pending, w \in wraps : p.h = w.h => p.h \in twice

IInv == HandleFidelity /\ DestroyedHandlesAreDead /\ AllMade /\ OneOwner

\* What a step can do to the stack leaves a stack of frames.
LEMMA StackType ==
    ASSUME TypeOK
    PROVE  /\ Depth \in Nat
           /\ \A frame \in Frame : Push(frame) => stack' \in Seq(Frame)
           /\ \A frame : Top(frame) => Depth >= 1 /\ Below(1) \in Seq(Frame)
           /\ ~CalledByHost /\ Top("js") => Depth - 1 \in Nat /\ Below(2) \in Seq(Frame)
<1>1. stack \in Seq(Frame) /\ Depth \in Nat
  BY DEF TypeOK, Depth
<1>2. ASSUME NEW n \in 1..2, n <= Depth PROVE Below(n) \in Seq(Frame)
  BY <1>1, <1>2 DEF Below, Depth
<1>3. \A frame : Top(frame) => Depth >= 1
  BY <1>1, EmptySeq DEF Top, Depth
<1>4. ~CalledByHost /\ Top("js") => Depth >= 2
  BY <1>1, <1>3 DEF CalledByHost
<1>5. \A frame \in Frame : Push(frame) => stack' \in Seq(Frame)
  BY <1>1 DEF Push
<1>6. QED
  BY <1>1, <1>2, <1>3, <1>4, <1>5

\* Every step keeps the types.
LEMMA TypeStep == TypeOK /\ [Next]_vars => TypeOK'
<1> SUFFICES ASSUME TypeOK, [Next]_vars PROVE TypeOK'
  OBVIOUS
<1>0. /\ Depth \in Nat
      /\ \A frame \in Frame : Push(frame) => stack' \in Seq(Frame)
      /\ \A frame : Top(frame) => Depth >= 1 /\ Below(1) \in Seq(Frame)
      /\ ~CalledByHost /\ Top("js") => Depth - 1 \in Nat /\ Below(2) \in Seq(Frame)
  BY StackType
<1> USE DEF TypeOK, handleVars, history
<1>1. CASE RunJs
  BY <1>0, <1>1 DEF RunJs, Frame
<1>2. CASE NativeReturns
  BY <1>0, <1>2 DEF NativeReturns
<1>3. ASSUME NEW w \in wraps \cup stale, js_call_ecmascript_func(w) PROVE TypeOK'
  BY <1>0, <1>3 DEF js_call_ecmascript_func, Frame
<1>4. ASSUME NEW w \in wraps \cup stale, js_destroy_ecmascript_obj(w) PROVE TypeOK'
  BY <1>4 DEF js_destroy_ecmascript_obj, Handle
<1>5. CASE JsCallsNative
  BY <1>0, <1>5 DEF JsCallsNative, Frame
<1>6. CASE ConvertFunc
  BY <1>0, <1>6 DEF ConvertFunc, Save, ReadClock
<1>7. CASE ConvertRunsJs
  BY <1>0, <1>7 DEF ConvertRunsJs, Frame
<1>8. CASE ConvertThrows
  BY <1>0, <1>8 DEF ConvertThrows, Abandon
<1>9. CASE CallNative
  <2>1. Append(Below(1), "native") \in Seq(Frame)
    BY <1>0, <1>9 DEF CallNative, Frame
  <2>2. QED
    BY <1>9, <2>1 DEF CallNative, Handle
<1>10. CASE Refuse
  BY <1>0, <1>10 DEF Refuse, Abandon
<1>11. CASE JsReturns
  BY <1>0, <1>11 DEF JsReturns
<1>12. CASE JsReturnsFunc
  BY <1>0, <1>12 DEF JsReturnsFunc, Save, ReadClock, Handle
<1>13. CASE JsThrows
  BY <1>0, <1>13 DEF JsThrows, Abandon
<1>13a. CASE JsFuncDropped
  BY <1>0, <1>13a DEF JsFuncDropped, Save, ReadClock
<1>14. CASE UNCHANGED vars
  BY <1>14 DEF vars
<1>15. QED
  BY <1>1, <1>2, <1>3, <1>4, <1>5, <1>6, <1>7, <1>8, <1>9, <1>10, <1>11, <1>12, <1>13,
     <1>13a, <1>14 DEF Next, HostStep, BridgeStep, JsStep

\* The initial states are typed.
LEMMA InitTyped == Init => TypeOK
<1> SUFFICES ASSUME Init PROVE TypeOK
  OBVIOUS
<1>1. stack \in Seq(Frame)
  BY DEF Init
<1>2. global \in [Time -> Func \cup {Absent}]
  BY DEF Init
<1>3. pending = {} /\ wraps = {} /\ stale = {} /\ aborted \in BOOLEAN
  BY DEF Init
<1>4. made = {} /\ twice = {} /\ saves \in 0..MaxSaves
  BY DEF Init
<1>5. QED
  BY <1>1, <1>2, <1>3, <1>4 DEF TypeOK

\* Every variable keeps its type.
THEOREM Typing == Spec => []TypeOK
<1>1. Init => TypeOK
  BY InitTyped
<1>2. QED
  BY <1>1, TypeStep, PTL DEF Spec

------------------------------------------------------------------------------
(* Handles. *)

\* What a save does to the handles: unless the number becomes a repeated one, nobody has it.
LEMMA SaveEffect ==
    ASSUME TypeOK, AllMade, NEW f \in Func, NEW h \in Time, Save(f, h)
    PROVE  /\ global' = [global EXCEPT ![h] = f]
           /\ made' = made \cup {h} /\ twice \subseteq twice'
           /\ h \notin twice' => \A w \in wraps \cup stale \cup pending : w.h # h
  BY DEF Save, AllMade

\* Every step keeps the handles that were made once apart, and leading where they should.
LEMMA HandleStep == ASSUME TypeOK, IInv, [Next]_vars PROVE IInv'
<1> USE DEF IInv, HandleFidelity, DestroyedHandlesAreDead, AllMade, OneOwner
<1>0. /\ global \in [Time -> Func \cup {Absent}] /\ wraps \subseteq Handle
      /\ stale \subseteq Handle /\ pending \subseteq [h : Time, f : Func, d : Nat]
      /\ made \subseteq Time /\ twice \subseteq Time
  BY DEF TypeOK
<1>0a. \A w \in wraps \cup stale \cup pending : w.h \in Time /\ w.f \in Func /\ w.f # Absent
  BY <1>0, AbsentAssumption DEF Handle
<1>1. CASE UNCHANGED <<global, pending, wraps, stale, history>>
  BY <1>1 DEF history
<1>2. ASSUME NEW w \in wraps \cup stale, js_destroy_ecmascript_obj(w) PROVE IInv'
  <2>1. /\ global' = [global EXCEPT ![w.h] = Absent]
        /\ wraps' = wraps \ {w} /\ stale' = stale \cup {w}
        /\ UNCHANGED <<pending, made, twice>>
    BY <1>2 DEF js_destroy_ecmascript_obj, history
  <2>2. w.h \in Time
    BY <1>0a
  <2>3. ASSUME NEW x \in wraps', x.h = w.h, x.h \notin twice PROVE FALSE
    <3>1. x \in wraps /\ x # w /\ global[x.h] = x.f /\ x.f # Absent
      BY <1>0a, <2>1, <2>3
    <3>2. w \in wraps
      BY <2>3, <3>1
    <3>3. x.f = w.f
      BY <2>3, <3>1, <3>2
    <3>4. x = w
      BY <1>0, <2>3, <3>1, <3>2, <3>3 DEF Handle
    <3>5. QED
      BY <3>1, <3>4
  <2>4. ASSUME NEW p \in pending, p.h = w.h, p.h \notin twice PROVE FALSE
    BY <1>0a, <2>4
  <2>5. HandleFidelity'
    BY <1>0, <1>0a, <2>1, <2>2, <2>3, <2>4
  <2>6. DestroyedHandlesAreDead' /\ AllMade' /\ OneOwner'
    BY <1>0, <1>0a, <2>1, <2>2
  <2>7. QED
    BY <2>5, <2>6
\* A function is saved under h, and whoever gets the handle did not have it before.
<1>3. ASSUME NEW f \in Func, NEW h \in Time, Save(f, h), stale' = stale,
             \/ wraps' = wraps /\ pending' = pending
             \/ wraps' = wraps \cup {[h |-> h, f |-> f]} /\ pending' = pending
             \/ wraps' = wraps /\ pending' = pending \cup {[h |-> h, f |-> f, d |-> Depth]}
      PROVE  IInv'
  <2>1. /\ global' = [global EXCEPT ![h] = f] /\ made' = made \cup {h} /\ twice \subseteq twice'
        /\ h \notin twice' => \A w \in wraps \cup stale \cup pending : w.h # h
    BY <1>3, SaveEffect
  <2>2. global'[h] = f /\ \A x \in Time \ {h} : global'[x] = global[x]
    BY <1>0, <2>1
  <2>3. \A w \in wraps' \cup pending' : w \in wraps \cup pending \/ (w.h = h /\ w.f = f)
    BY <1>3
  <2>4. HandleFidelity'
    BY <1>0a, <2>1, <2>2, <2>3
  <2>5. DestroyedHandlesAreDead'
    BY <1>0a, <1>3, <2>1, <2>2
  <2>6. AllMade'
    BY <1>3, <2>1, <2>3
  <2>7. OneOwner'
    BY <1>3, <2>1
  <2>8. QED
    BY <2>4, <2>5, <2>6, <2>7
<1>4. CASE ConvertFunc \/ JsReturnsFunc \/ JsFuncDropped
  <2>1. CASE ConvertFunc
    BY <1>3, <2>1 DEF ConvertFunc
  <2>2. CASE JsReturnsFunc
    BY <1>3, <2>2 DEF JsReturnsFunc
  <2>3. CASE JsFuncDropped
    BY <1>3, <2>3 DEF JsFuncDropped
  <2>4. QED
    BY <1>4, <2>1, <2>2, <2>3
<1>5. CASE CallNative
  <2>1. /\ wraps' = wraps \cup {[h |-> p.h, f |-> p.f] : p \in {q \in pending : q.d = Depth}}
        /\ pending' = {p \in pending : p.d # Depth}
        /\ UNCHANGED <<global, stale, made, twice>>
    BY <1>5 DEF CallNative, history
  <2>2. \A w \in wraps' : w \in wraps \/ \E p \in pending \ pending' : w.h = p.h /\ w.f = p.f
    BY <2>1
  <2>3. HandleFidelity' /\ AllMade'
    BY <2>1, <2>2
  <2>4. OneOwner'
    BY <2>1, <2>2
  <2>5. QED
    BY <2>1, <2>3, <2>4
<1>6. ASSUME NEW d, Abandon(d), UNCHANGED <<global, wraps, stale, history>> PROVE IInv'
  BY <1>6 DEF Abandon, history
<1>7. CASE ConvertThrows \/ Refuse \/ JsThrows
  BY <1>1, <1>6, <1>7 DEF ConvertThrows, Refuse, JsThrows
<1>8. CASE \/ RunJs \/ NativeReturns \/ JsCallsNative \/ ConvertRunsJs \/ JsReturns
           \/ \E w \in wraps \cup stale : js_call_ecmascript_func(w)
  BY <1>1, <1>8 DEF RunJs, NativeReturns, JsCallsNative, ConvertRunsJs, JsReturns,
                    js_call_ecmascript_func, handleVars
<1>9. QED
  BY <1>1, <1>2, <1>4, <1>5, <1>7, <1>8 DEF Next, HostStep, BridgeStep, JsStep, vars

\* Whatever the clock shows, a handle that was made once and is in use leads to the function it
\* was made for (save_top_object, duk_bridge.c:154-163).
THEOREM HandlesAreFaithful == Spec => []HandleFidelity
<1>1. Init => TypeOK /\ IInv
  BY InitTyped DEF Init, IInv, HandleFidelity, DestroyedHandlesAreDead, AllMade, OneOwner
<1>2. TypeOK /\ IInv /\ [Next]_vars => TypeOK' /\ IInv'
  BY TypeStep, HandleStep
<1>3. IInv => HandleFidelity
  BY DEF IInv
<1>4. QED
  BY <1>1, <1>2, <1>3, PTL DEF Spec

\* Whatever the clock shows, a destroyed handle that was made once leads nowhere ever after.
THEOREM DestroyedStayDead == Spec => []DestroyedHandlesAreDead
<1>1. Init => TypeOK /\ IInv
  BY InitTyped DEF Init, IInv, HandleFidelity, DestroyedHandlesAreDead, AllMade, OneOwner
<1>2. TypeOK /\ IInv /\ [Next]_vars => TypeOK' /\ IInv'
  BY TypeStep, HandleStep
<1>3. IInv => DestroyedHandlesAreDead
  BY DEF IInv
<1>4. QED
  BY <1>1, <1>2, <1>3, PTL DEF Spec

------------------------------------------------------------------------------
(* Owners. *)

\* Every step keeps an owner for every saved function, or is one of those that abandon.
LEMMA OwnerStep == TypeOK /\ LostOnlyWhenAborted /\ [Next]_vars => LostOnlyWhenAborted'
<1> SUFFICES ASSUME TypeOK, LostOnlyWhenAborted, [Next]_vars, ~aborted'
             PROVE  \A h \in Time : global'[h] # Absent => Owned(h)'
  BY DEF LostOnlyWhenAborted, EverySavedIsOwned
<1> USE DEF Owned
<1>0. global \in [Time -> Func \cup {Absent}]
  BY DEF TypeOK
<1>1. ASSUME ~aborted, NEW h \in Time, global[h] # Absent
      PROVE  (\E w \in wraps : w.h = h) \/ (\E p \in pending : p.h = h)
  BY <1>1 DEF LostOnlyWhenAborted, EverySavedIsOwned
<1>2. CASE UNCHANGED <<global, pending, wraps, aborted>>
  BY <1>1, <1>2
\* A function is saved, and somebody gets the handle.
<1>3. ASSUME UNCHANGED aborted, wraps \subseteq wraps', pending \subseteq pending',
             NEW f \in Func, NEW x \in Time, Save(f, x),
             (\E w \in wraps' : w.h = x) \/ (\E p \in pending' : p.h = x)
      PROVE  \A h \in Time : global'[h] # Absent => Owned(h)'
  <2>1. \A h \in Time : h # x => global'[h] = global[h]
    BY <1>0, <1>3 DEF Save
  <2> QED
    BY <1>1, <1>3, <2>1
<1>4. CASE ConvertFunc
  <2>1. PICK f \in Func, h \in Time :
          Save(f, h) /\ pending' = pending \cup {[h |-> h, f |-> f, d |-> Depth]}
    BY <1>4 DEF ConvertFunc
  <2>1a. [h |-> h, f |-> f, d |-> Depth] \in pending' /\ [h |-> h, f |-> f, d |-> Depth].h = h
    BY <2>1
  <2>2. UNCHANGED <<wraps, aborted>> /\ pending \subseteq pending' /\ \E p \in pending' : p.h = h
    BY <1>4, <2>1, <2>1a DEF ConvertFunc
  <2> QED
    BY <1>3, <2>1, <2>2
<1>5. CASE JsReturnsFunc
  <2>1. PICK f \in Func, h \in Time :
          Save(f, h) /\ wraps' = wraps \cup {[h |-> h, f |-> f]} /\ UNCHANGED aborted
    BY <1>5 DEF JsReturnsFunc
  <2>1a. [h |-> h, f |-> f] \in wraps' /\ [h |-> h, f |-> f].h = h
    BY <2>1
  <2>2. UNCHANGED pending /\ wraps \subseteq wraps' /\ \E w \in wraps' : w.h = h
    BY <1>5, <2>1, <2>1a DEF JsReturnsFunc
  <2> QED
    BY <1>3, <2>1, <2>2
<1>6. CASE CallNative
  <2>1. /\ wraps' = wraps \cup {[h |-> p.h, f |-> p.f] : p \in {q \in pending : q.d = Depth}}
        /\ pending' = {p \in pending : p.d # Depth}
        /\ UNCHANGED <<global, aborted>>
    BY <1>6 DEF CallNative
  <2>2. ASSUME NEW p \in pending, p \notin pending'
        PROVE  \E w \in wraps' : w.h = p.h
    <3>1. [h |-> p.h, f |-> p.f] \in wraps'
      BY <2>1, <2>2
    <3> QED
      BY <3>1
  <2>3. wraps \subseteq wraps'
    BY <2>1
  <2> QED
    BY <1>1, <2>1, <2>2, <2>3
<1>7. ASSUME NEW x \in wraps \cup stale, js_destroy_ecmascript_obj(x)
      PROVE  \A h \in Time : global'[h] # Absent => Owned(h)'
  <2>1. /\ global' = [global EXCEPT ![x.h] = Absent] /\ wraps' = wraps \ {x}
        /\ UNCHANGED <<pending, aborted>>
    BY <1>7 DEF js_destroy_ecmascript_obj
  <2>2. ASSUME NEW h \in Time, global'[h] # Absent
        PROVE  h # x.h /\ global'[h] = global[h]
    BY <1>0, <2>1, <2>2
  <2> QED
    BY <1>1, <2>1, <2>2
<1>8. CASE JsThrows
  BY <1>2, <1>8 DEF JsThrows, Abandon
<1>9. CASE ConvertThrows \/ Refuse \/ JsFuncDropped
  BY <1>9 DEF ConvertThrows, Refuse, JsFuncDropped, Abandon
<1>10. CASE \/ RunJs \/ NativeReturns \/ JsCallsNative \/ ConvertRunsJs \/ JsReturns
            \/ \E w \in wraps \cup stale : js_call_ecmascript_func(w)
  BY <1>2, <1>10 DEF RunJs, NativeReturns, JsCallsNative, ConvertRunsJs, JsReturns,
                     js_call_ecmascript_func, handleVars
<1> QED
  BY <1>2, <1>4, <1>5, <1>6, <1>7, <1>8, <1>9, <1>10 DEF Next, HostStep, BridgeStep, JsStep, vars

\* No function is lost but with an abandoned conversion or a result the host dropped.
THEOREM LossesAreAborts == Spec => []LostOnlyWhenAborted
<1>1. Init => LostOnlyWhenAborted
  BY DEF Init, LostOnlyWhenAborted, EverySavedIsOwned
<1> QED
  BY <1>1, OwnerStep, Typing, PTL DEF Spec
==============================================================================
