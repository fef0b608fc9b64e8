--------------------------- MODULE JavaBridgeProofs ---------------------------
(***************************************************************************)
(* Theorems about JavaBridge, for any threads, objects and depth.          *)
(***************************************************************************)
EXTENDS JavaBridge, SequenceTheorems, TLAPS

USE ThreadAssumption, BoundAssumption

\* What a field holds, by the state of its object.
Fields ==
    \A b \in Bridge :
        /\ obj[b] = "usable" => field[b] = "env"
        /\ obj[b] = "failed" => field[b] = "0"
        /\ obj[b] = "new" => heap[b] = "none"

\* As long as one thread uses the reader: the variables are its own, it has the only calls of
\* the reader, and the reference is dead only while it is replacing it.
OneUser ==
    ~careless =>
        /\ ~misuse
        /\ g_env # NoThread => g_env = user
        /\ \A t \in Thread : ~pending[t]
        /\ \A t \in Thread : \A i \in 1..Depth(t) :
             /\ stack[t][i].kind \in {"java", "set"} => t = user
             /\ stack[t][i].kind = "java" => g_env # NoThread
        /\ g_fileReader = "deleted" => user \in Thread /\ Top(user, "set")

---------------------------------------------------------------------------
(* Stacks. *)

LEMMA Stacks ==
    ASSUME TypeOK, NEW t \in Thread
    PROVE  /\ stack[t] \in Seq(Frame) /\ Depth(t) \in Nat
           /\ \A kind : Top(t, kind) => Depth(t) >= 1 /\ stack[t][Depth(t)].kind = kind
           /\ \A i \in 1..Depth(t) : stack[t][i] \in Frame
<1>1. stack[t] \in Seq(Frame)
  BY DEF TypeOK
<1> QED
  BY <1>1, EmptySeq DEF Top, Depth

LEMMA Pushed ==
    ASSUME TypeOK, NEW t \in Thread, NEW kind \in {"js", "java", "set"}, NEW b \in Bridge,
           Push(t, kind, b)
    PROVE  /\ stack' \in [Thread -> Seq(Frame)]
           /\ \A u \in Thread \ {t} : stack'[u] = stack[u]
           /\ Depth(t)' = Depth(t) + 1
           /\ \A i \in 1..Depth(t) : stack'[t][i] = stack[t][i]
           /\ stack'[t][Depth(t) + 1] = [kind |-> kind, of |-> b]
<1>1. stack \in [Thread -> Seq(Frame)] /\ stack[t] \in Seq(Frame)
  BY DEF TypeOK
<1>2. [kind |-> kind, of |-> b] \in Frame
  BY DEF Frame
<1>3. stack' = [stack EXCEPT ![t] = Append(stack[t], [kind |-> kind, of |-> b])]
  BY DEF Push
<1>4. stack'[t] = Append(stack[t], [kind |-> kind, of |-> b])
  BY <1>1, <1>3
<1>5. Append(stack[t], [kind |-> kind, of |-> b]) \in Seq(Frame)
  BY <1>1, <1>2
<1> QED
  BY <1>1, <1>2, <1>3, <1>4, <1>5 DEF Depth

LEMMA Popped ==
    ASSUME TypeOK, NEW t \in Thread, stack[t] # <<>>, Pop(t)
    PROVE  /\ stack' \in [Thread -> Seq(Frame)]
           /\ \A u \in Thread \ {t} : stack'[u] = stack[u]
           /\ Depth(t)' = Depth(t) - 1 /\ Depth(t) >= 1
           /\ \A i \in 1..(Depth(t) - 1) : stack'[t][i] = stack[t][i]
<1>1. stack \in [Thread -> Seq(Frame)] /\ stack[t] \in Seq(Frame)
  BY DEF TypeOK
<1>2. Len(stack[t]) \in Nat \ {0}
  BY <1>1, EmptySeq
<1>3. stack' = [stack EXCEPT ![t] = SubSeq(stack[t], 1, Len(stack[t]) - 1)]
  BY DEF Pop
<1>4. stack'[t] = SubSeq(stack[t], 1, Len(stack[t]) - 1)
  BY <1>1, <1>3
<1>5. /\ SubSeq(stack[t], 1, Len(stack[t]) - 1) \in Seq(Frame)
      /\ Len(SubSeq(stack[t], 1, Len(stack[t]) - 1)) = Len(stack[t]) - 1
      /\ \A i \in 1..(Len(stack[t]) - 1) : SubSeq(stack[t], 1, Len(stack[t]) - 1)[i] = stack[t][i]
  <2> DEFINE n == Len(stack[t]) - 1
  <2>1. n \in Nat /\ 1 \in 1..(Len(stack[t]) + 1) /\ n \in 0..Len(stack[t])
    BY <1>2
  <2>2. SubSeq(stack[t], 1, n) \in Seq(Frame)
    BY <1>1, <2>1, SubSeqProperties
  <2>3. Len(SubSeq(stack[t], 1, n)) = n
    <3>1. \A i \in 1..n : stack[t][i] \in Frame
      BY <1>1, <2>1
    <3> HIDE DEF n
    <3>2. Len(SubSeq(stack[t], 1, n)) = IF 1 <= n THEN n - 1 + 1 ELSE 0
      BY <2>1, <3>1, SubSeqProperties
    <3> QED
      BY <2>1, <3>2
  <2>4. ASSUME NEW i \in 1..n PROVE SubSeq(stack[t], 1, n)[i] = stack[t][i]
    BY <1>1, <2>1, <2>4
  <2> QED
    BY <2>2, <2>3, <2>4
<1> QED
  BY <1>1, <1>2, <1>3, <1>4, <1>5 DEF Depth

\* Calls that end leave only calls that were there.
LEMMA PopUses ==
    ASSUME TypeOK, NEW t \in Thread, stack[t] # <<>>, Pop(t)
    PROVE  \A u \in Thread, b \in Bridge : UsedBy(u, b)' => UsedBy(u, b)
<1>1. /\ \A u \in Thread \ {t} : stack'[u] = stack[u]
      /\ Depth(t)' = Depth(t) - 1 /\ Depth(t) >= 1
      /\ \A i \in 1..(Depth(t) - 1) : stack'[t][i] = stack[t][i]
  BY Popped
<1>2. Depth(t) \in Nat
  BY Stacks
<1>3. ASSUME NEW b \in Bridge, UsedBy(t, b)' PROVE UsedBy(t, b)
  BY <1>1, <1>2, <1>3 DEF UsedBy
<1>4. ASSUME NEW b \in Bridge, NEW u \in Thread \ {t}, UsedBy(u, b)' PROVE UsedBy(u, b)
  BY <1>1, <1>4 DEF UsedBy, Depth
<1> QED
  BY <1>3, <1>4

LEMMA PushUses ==
    ASSUME TypeOK, NEW t \in Thread, NEW kind \in {"js", "java", "set"}, NEW c \in Bridge,
           Push(t, kind, c)
    PROVE  \A u \in Thread, b \in Bridge : UsedBy(u, b)' => UsedBy(u, b) \/ b = c
<1>1. /\ \A u \in Thread \ {t} : stack'[u] = stack[u]
      /\ Depth(t)' = Depth(t) + 1
      /\ \A i \in 1..Depth(t) : stack'[t][i] = stack[t][i]
      /\ stack'[t][Depth(t) + 1] = [kind |-> kind, of |-> c]
  BY Pushed
<1>2. Depth(t) \in Nat
  BY Stacks
<1>3. ASSUME NEW b \in Bridge, UsedBy(t, b)' PROVE UsedBy(t, b) \/ b = c
  <2>1. PICK i \in 1..(Depth(t) + 1) : stack'[t][i].of = b
    BY <1>1, <1>3 DEF UsedBy
  <2>2. CASE i = Depth(t) + 1
    BY <1>1, <2>1, <2>2
  <2>3. CASE i # Depth(t) + 1
    BY <1>1, <1>2, <2>1, <2>3 DEF UsedBy
  <2> QED
    BY <2>2, <2>3
<1>4. ASSUME NEW b \in Bridge, NEW u \in Thread \ {t}, UsedBy(u, b)' PROVE UsedBy(u, b)
  BY <1>1, <1>4 DEF UsedBy, Depth
<1> QED
  BY <1>3, <1>4

---------------------------------------------------------------------------
(* Types. *)

LEMMA InitTyped == Init => TypeOK
<1> SUFFICES ASSUME Init PROVE TypeOK
  OBVIOUS
<1>1. stack \in [Thread -> Seq(Frame)]
  BY DEF Init
<1> QED
  BY <1>1 DEF Init, TypeOK

LEMMA MadeTyped ==
    ASSUME TypeOK, NEW b \in Bridge, NEW o \in {"usable", "failed", "finalized"},
           NEW f \in {"0", "env"}, NEW h \in {"none", "live", "destroyed"}, NEW n \in Nat,
           Made(b, o, f, h, n)
    PROVE  TypeOK'
<1>1. /\ obj' \in [Bridge -> {"new", "usable", "failed", "finalized"}]
      /\ field' \in [Bridge -> {"0", "env"}]
      /\ heap' \in [Bridge -> {"none", "live", "destroyed"}]
  BY DEF TypeOK, Made
<1>2. destroyed' \in [Bridge -> Nat]
  <2>1. destroyed \in [Bridge -> Nat] /\ destroyed[b] + n \in Nat
    BY DEF TypeOK
  <2>2. destroyed' = [destroyed EXCEPT ![b] = destroyed[b] + n]
    BY DEF Made
  <2> QED
    BY <2>1, <2>2
<1>3. UNCHANGED <<g_env, g_fileReader, pending, stack, user, careless, misuse>>
  BY DEF Made, reader, history
<1> QED
  BY <1>1, <1>2, <1>3 DEF TypeOK

LEMMA TypeStep == TypeOK /\ [Next]_vars => TypeOK'
<1> SUFFICES ASSUME TypeOK, [Next]_vars PROVE TypeOK'
  OBVIOUS
<1>1. ASSUME NEW t \in Thread, NEW b \in Bridge, DukBridge(t, b) PROVE TypeOK'
  BY <1>1, MadeTyped DEF DukBridge
<1>2. ASSUME NEW b \in Bridge, finalize(b) PROVE TypeOK'
  <2>1. heap[b] \in {"none", "live", "destroyed"}
    BY DEF TypeOK
  <2> QED
    BY <1>2, <2>1, MadeTyped DEF finalize
<1>3. ASSUME NEW t \in Thread, NEW b \in Bridge, NativeCall(t, b) PROVE TypeOK'
  <2>1. stack' \in [Thread -> Seq(Frame)]
    BY <1>3, Pushed DEF NativeCall
  <2> QED
    BY <1>3, <2>1 DEF NativeCall, TypeOK, lives, reader, history
<1>4. ASSUME NEW t \in Thread, NEW b \in Bridge, DeleteGlobalRef(t, b) PROVE TypeOK'
  <2>1. stack' \in [Thread -> Seq(Frame)]
    BY <1>4, Pushed DEF DeleteGlobalRef
  <2> QED
    BY <1>4, <2>1 DEF DeleteGlobalRef, Uses, TypeOK, lives
<1>5. ASSUME NEW t \in Thread, NativeReturns(t) PROVE TypeOK'
  <2>1. stack' \in [Thread -> Seq(Frame)]
    BY <1>5, Popped DEF NativeReturns, Top
  <2> QED
    BY <1>5, <2>1 DEF NativeReturns, TypeOK, lives, reader
<1>6. ASSUME NEW t \in Thread, NewGlobalRef(t) PROVE TypeOK'
  <2>1. stack' \in [Thread -> Seq(Frame)]
    BY <1>6, Popped DEF NewGlobalRef, Top
  <2> QED
    BY <1>6, <2>1 DEF NewGlobalRef, TypeOK, lives, history
<1>7. ASSUME NEW t \in Thread, fileReaderBridge(t) PROVE TypeOK'
  <2>1. stack[t][Depth(t)].of \in Bridge
    BY <1>7, Stacks DEF fileReaderBridge, Frame
  <2>2. stack' \in [Thread -> Seq(Frame)]
    BY <1>7, <2>1, Pushed DEF fileReaderBridge
  <2> QED
    BY <1>7, <2>2 DEF fileReaderBridge, Uses, TypeOK, lives, reader
<1>8. ASSUME NEW t \in Thread, readFileReturns(t) PROVE TypeOK'
  <2>1. stack' \in [Thread -> Seq(Frame)]
    BY <1>8, Popped DEF readFileReturns, Top
  <2> QED
    BY <1>8, <2>1 DEF readFileReturns, Uses, TypeOK, lives, reader
<1>9. ASSUME NEW t \in Thread, readFileThrows(t) PROVE TypeOK'
  <2>1. stack' \in [Thread -> Seq(Frame)]
    BY <1>9, Popped DEF readFileThrows, Top
  <2> QED
    BY <1>9, <2>1 DEF readFileThrows, TypeOK, lives, reader
<1>10. CASE UNCHANGED vars
  BY <1>10 DEF vars, TypeOK, lives, reader, history
<1> QED
  BY <1>1, <1>2, <1>3, <1>4, <1>5, <1>6, <1>7, <1>8, <1>9, <1>10 DEF Next

\* Every variable keeps its type.
THEOREM Typed == Spec => []TypeOK
BY InitTyped, TypeStep, PTL DEF Spec

---------------------------------------------------------------------------
(* Environments. *)

LEMMA LifeStep ==
    TypeOK /\ Fields /\ EnvDestroyedOnce /\ [Next]_vars => Fields' /\ EnvDestroyedOnce'
<1> SUFFICES ASSUME TypeOK, Fields, EnvDestroyedOnce, [Next]_vars
             PROVE  Fields' /\ EnvDestroyedOnce'
  OBVIOUS
<1>0. /\ obj \in [Bridge -> {"new", "usable", "failed", "finalized"}]
      /\ field \in [Bridge -> {"0", "env"}]
      /\ heap \in [Bridge -> {"none", "live", "destroyed"}]
      /\ destroyed \in [Bridge -> Nat]
  BY DEF TypeOK
\* The lives stay as they are, and calls enter usable objects only.
<1>1. ASSUME UNCHANGED lives,
             \A u \in Thread, b \in Bridge : UsedBy(u, b)' => UsedBy(u, b) \/ obj[b] = "usable"
      PROVE  Fields' /\ EnvDestroyedOnce'
  <2>1. UNCHANGED <<obj, field, heap, destroyed>>
    BY <1>1 DEF lives
  <2>2. Fields'
    BY <2>1 DEF Fields
  <2>3. \A u \in Thread, b \in Bridge : UsedBy(u, b)' => heap[b] = "live"
    BY <1>1 DEF EnvDestroyedOnce
  <2> QED
    BY <2>1, <2>2, <2>3 DEF EnvDestroyedOnce
\* One object's life goes on while no call is in it.
<1>2. ASSUME NEW c \in Bridge, NEW o \in {"usable", "failed", "finalized"}, NEW f, NEW h, NEW n,
             Made(c, o, f, h, n), \A u \in Thread : ~UsedBy(u, c),
             <<o, f>> \in {<<"usable", "env">>, <<"failed", "0">>} \/ o = "finalized",
             h = "live" <=> o = "usable",
             h \in {"none", "live", "destroyed"}, n \in Nat,
             destroyed[c] + n = IF h = "destroyed" THEN 1 ELSE 0
      PROVE  Fields' /\ EnvDestroyedOnce'
  <2>1. /\ obj'[c] = o /\ field'[c] = f /\ heap'[c] = h /\ destroyed'[c] = destroyed[c] + n
        /\ \A b \in Bridge \ {c} : /\ obj'[b] = obj[b] /\ field'[b] = field[b]
                                   /\ heap'[b] = heap[b] /\ destroyed'[b] = destroyed[b]
        /\ stack' = stack
    BY <1>0, <1>2 DEF Made
  <2>2. \A u \in Thread, b \in Bridge : UsedBy(u, b)' <=> UsedBy(u, b)
    BY <2>1 DEF UsedBy, Depth
  <2>3. Fields'
    BY <1>2, <2>1 DEF Fields
  <2>4. ASSUME NEW b \in Bridge
        PROVE  /\ destroyed'[b] = IF heap'[b] = "destroyed" THEN 1 ELSE 0
               /\ heap'[b] = "live" <=> obj'[b] = "usable"
               /\ \A u \in Thread : UsedBy(u, b)' => heap'[b] = "live"
    <3>1. CASE b = c
      BY <1>2, <2>1, <2>2, <3>1
    <3>2. CASE b # c
      BY <2>1, <2>2, <3>2 DEF EnvDestroyedOnce
    <3> QED
      BY <3>1, <3>2
  <2> QED
    BY <2>3, <2>4 DEF EnvDestroyedOnce
<1>3. ASSUME NEW t \in Thread, NEW c \in Bridge, DukBridge(t, c)
      PROVE  Fields' /\ EnvDestroyedOnce'
  <2>1. obj[c] = "new" /\ heap[c] = "none" /\ destroyed[c] = 0 /\ \A u \in Thread : ~UsedBy(u, c)
    BY <1>3 DEF DukBridge, Fields, EnvDestroyedOnce
  <2>2. CASE Made(c, "failed", "0", "none", 0)
    BY <1>2, <2>1, <2>2
  <2>3. CASE Made(c, "failed", "0", "destroyed", 1)
    BY <1>2, <2>1, <2>3
  <2>4. CASE Made(c, "usable", "env", "live", 0)
    BY <1>2, <2>1, <2>4
  <2> QED
    BY <1>3, <2>2, <2>3, <2>4 DEF DukBridge
<1>4. ASSUME NEW c \in Bridge, finalize(c)
      PROVE  Fields' /\ EnvDestroyedOnce'
  <2>1. obj[c] \in {"usable", "failed"} /\ \A u \in Thread : ~UsedBy(u, c)
    BY <1>4 DEF finalize
  <2>2. CASE field[c] = "env"
    <3>1. obj[c] = "usable" /\ heap[c] = "live" /\ destroyed[c] = 0
      BY <2>1, <2>2 DEF Fields, EnvDestroyedOnce
    <3>2. Made(c, "finalized", "env", "destroyed", 1)
      BY <1>4, <2>2 DEF finalize
    <3> QED
      BY <1>2, <2>1, <3>1, <3>2
  <2>3. CASE field[c] # "env"
    <3>1. obj[c] = "failed" /\ heap[c] \in {"none", "destroyed"}
          /\ destroyed[c] = IF heap[c] = "destroyed" THEN 1 ELSE 0
      BY <1>0, <2>1, <2>3 DEF Fields, EnvDestroyedOnce
    <3>2. Made(c, "finalized", "0", heap[c], 0)
      BY <1>4, <2>3 DEF finalize
    <3> QED
      BY <1>2, <2>1, <3>1, <3>2
  <2> QED
    BY <2>2, <2>3
<1>5. ASSUME NEW t \in Thread, NEW c \in Bridge, NativeCall(t, c) \/ DeleteGlobalRef(t, c)
      PROVE  Fields' /\ EnvDestroyedOnce'
  <2>1. /\ UNCHANGED lives /\ obj[c] = "usable"
        /\ \E kind \in {"js", "java", "set"} : Push(t, kind, c)
    BY <1>5 DEF NativeCall, DeleteGlobalRef
  <2> QED
    BY <1>1, <2>1, PushUses
<1>6. ASSUME NEW t \in Thread, fileReaderBridge(t)
      PROVE  Fields' /\ EnvDestroyedOnce'
  <2>1. UNCHANGED lives /\ Push(t, "java", stack[t][Depth(t)].of) /\ Top(t, "js")
    BY <1>6 DEF fileReaderBridge
  <2>2. Depth(t) \in 1..Depth(t) /\ stack[t][Depth(t)].of \in Bridge
    BY <2>1, Stacks DEF Frame
  <2>3. UsedBy(t, stack[t][Depth(t)].of)
    BY <2>2 DEF UsedBy
  <2>4. obj[stack[t][Depth(t)].of] = "usable"
    BY <2>2, <2>3 DEF EnvDestroyedOnce
  <2> QED
    BY <1>1, <2>1, <2>2, <2>4, PushUses
<1>7. ASSUME NEW t \in Thread,
             NativeReturns(t) \/ NewGlobalRef(t) \/ readFileReturns(t) \/ readFileThrows(t)
      PROVE  Fields' /\ EnvDestroyedOnce'
  <2>1. UNCHANGED lives /\ Pop(t) /\ stack[t] # <<>>
    BY <1>7 DEF NativeReturns, NewGlobalRef, readFileReturns, readFileThrows, Top
  <2> QED
    BY <1>1, <2>1, PopUses
<1>8. CASE UNCHANGED vars
  BY <1>1, <1>8 DEF vars, UsedBy, Depth
<1> QED
  BY <1>3, <1>4, <1>5, <1>6, <1>7, <1>8 DEF Next

\* An environment is destroyed once, and not while it is in use or out of reach.
THEOREM OneDestruction == Spec => []EnvDestroyedOnce
<1>1. Init => Fields /\ EnvDestroyedOnce
  BY DEF Init, Fields, EnvDestroyedOnce, UsedBy, Depth
<1> QED
  BY <1>1, LifeStep, Typed, PTL DEF Spec

---------------------------------------------------------------------------
(* The file reader. *)

\* Calls that the reader's user has when it pushes or pops one: those of other threads stay.
LEMMA OneUserStep ==
    TypeOK /\ OneUser /\ [Next]_vars => OneUser'
<1> SUFFICES ASSUME TypeOK, OneUser, [Next]_vars, ~careless'
             PROVE  /\ ~misuse'
                    /\ g_env' # NoThread => g_env' = user'
                    /\ \A t \in Thread : ~pending'[t]
                    /\ \A t \in Thread : \A i \in 1..Depth(t)' :
                         /\ stack'[t][i].kind \in {"java", "set"} => t = user'
                         /\ stack'[t][i].kind = "java" => g_env' # NoThread
                    /\ g_fileReader' = "deleted" => user' \in Thread /\ Top(user, "set")'
  BY DEF OneUser
<1>0. \A t \in Thread : Depth(t) \in Nat
  BY Stacks
<1>1. ~careless
  BY DEF Next, DukBridge, finalize, Made, NativeCall, DeleteGlobalRef, Uses, NativeReturns,
         NewGlobalRef, fileReaderBridge, readFileReturns, readFileThrows, vars, history
<1>2. /\ ~misuse /\ (g_env # NoThread => g_env = user)
      /\ \A t \in Thread : ~pending[t]
      /\ \A t \in Thread : \A i \in 1..Depth(t) :
           /\ stack[t][i].kind \in {"java", "set"} => t = user
           /\ stack[t][i].kind = "java" => g_env # NoThread
      /\ g_fileReader = "deleted" => user \in Thread /\ Top(user, "set")
  BY <1>1 DEF OneUser
\* No call begins or ends.
<1>3. ASSUME UNCHANGED <<stack, reader, pending, history>>
      PROVE  OneUser'
  BY <1>3 DEF OneUser, reader, history, Depth, Top
<1>4. ASSUME NEW b \in Bridge, (\E t \in Thread : DukBridge(t, b)) \/ finalize(b)
      PROVE  OneUser'
  BY <1>3, <1>4 DEF DukBridge, finalize, Made
<1>5. ASSUME NEW t \in Thread, NEW b \in Bridge, NativeCall(t, b)
      PROVE  OneUser'
  <2>1. Push(t, "js", b) /\ JavaTurn(t) /\ UNCHANGED <<g_env, g_fileReader, pending, user, careless, misuse>>
    BY <1>5 DEF NativeCall, reader, history
  <2>2. /\ \A u \in Thread \ {t} : stack'[u] = stack[u]
        /\ Depth(t)' = Depth(t) + 1
        /\ \A i \in 1..Depth(t) : stack'[t][i] = stack[t][i]
        /\ stack'[t][Depth(t) + 1].kind = "js"
    <3>1. /\ \A u \in Thread \ {t} : stack'[u] = stack[u]
          /\ Depth(t)' = Depth(t) + 1
          /\ \A i \in 1..Depth(t) : stack'[t][i] = stack[t][i]
          /\ stack'[t][Depth(t) + 1] = [kind |-> "js", of |-> b]
      BY <2>1, Pushed
    <3> QED
      BY <3>1
  <2>3. g_fileReader # "deleted" \/ user # t
    BY <1>2, <2>1 DEF JavaTurn, Top
  <2>4. \A u \in Thread \ {t} : Depth(u)' = Depth(u) /\ (Top(u, "set") => Top(u, "set")')
    BY <2>2 DEF Depth, Top
  <2>5. g_fileReader' = "deleted" => user' \in Thread /\ Top(user, "set")'
    <3>1. ASSUME g_fileReader = "deleted" PROVE user' \in Thread /\ Top(user, "set")'
      <4>1. user \in Thread \ {t} /\ stack'[user] = stack[user] /\ user' = user
        BY <1>2, <2>1, <2>2, <2>3, <3>1
      <4> QED
        BY <1>2, <3>1, <4>1 DEF Top, Depth
    <3> QED
      BY <2>1, <3>1
  <2>6. ASSUME NEW u \in Thread, NEW i \in 1..Depth(u)'
        PROVE  /\ stack'[u][i].kind \in {"java", "set"} => u = user'
               /\ stack'[u][i].kind = "java" => g_env' # NoThread
    <3>1. CASE u # t
      BY <1>2, <2>1, <2>2, <2>4, <3>1
    <3>2. CASE u = t /\ i = Depth(t) + 1
      BY <2>2, <3>2
    <3>3. CASE u = t /\ i # Depth(t) + 1
      <4>1. i \in 1..Depth(t)
        BY <1>0, <2>2, <3>3
      <4> QED
        BY <1>2, <2>1, <2>2, <3>3, <4>1
    <3> QED
      BY <3>1, <3>2, <3>3
  <2> QED
    BY <1>2, <2>1, <2>5, <2>6 DEF OneUser
\* The user of the reader begins or ends a call; deleted is what is left of the reader.
<1>6. ASSUME NEW t \in Thread, user \in {NoThread, t}, user' = t, ~misuse', UNCHANGED pending,
             g_env' \in {g_env, t},
             \A u \in Thread \ {t} : stack'[u] = stack[u],
             \A i \in 1..Depth(t)' : stack'[t][i].kind = "java" => g_env' # NoThread,
             g_fileReader' = "deleted" => Top(t, "set")'
      PROVE  OneUser'
  <2>1. \A u \in Thread \ {t} : Depth(u)' = Depth(u)
    BY <1>6 DEF Depth
  <2>2. ASSUME NEW u \in Thread \ {t}, NEW i \in 1..Depth(u)
        PROVE  stack[u][i].kind \notin {"java", "set"}
    BY <1>2, <1>6, ThreadAssumption
  <2>3. ASSUME NEW u \in Thread, NEW i \in 1..Depth(u)'
        PROVE  /\ stack'[u][i].kind \in {"java", "set"} => u = user'
               /\ stack'[u][i].kind = "java" => g_env' # NoThread
    <3>1. CASE u # t
      BY <1>6, <2>1, <2>2, <3>1
    <3>2. CASE u = t
      BY <1>6, <3>2
    <3> QED
      BY <3>1, <3>2
  <2>4. g_env' # NoThread => g_env' = user'
    BY <1>2, <1>6
  <2>5. g_fileReader' = "deleted" => user' \in Thread /\ Top(user, "set")'
    BY <1>6 DEF Top, Depth
  <2> QED
    BY <1>2, <1>6, <2>3, <2>4, <2>5 DEF OneUser
<1>7. ASSUME NEW t \in Thread, NEW b \in Bridge, DeleteGlobalRef(t, b)
      PROVE  OneUser'
  <2>1. /\ Push(t, "set", b) /\ JavaTurn(t) /\ UNCHANGED <<g_env, pending>>
        /\ Uses(t, g_fileReader = "deleted")
    BY <1>7 DEF DeleteGlobalRef
  <2>2. /\ \A u \in Thread \ {t} : stack'[u] = stack[u]
        /\ Depth(t)' = Depth(t) + 1
        /\ \A i \in 1..Depth(t) : stack'[t][i] = stack[t][i]
        /\ stack'[t][Depth(t) + 1].kind = "set"
    <3>1. /\ \A u \in Thread \ {t} : stack'[u] = stack[u]
          /\ Depth(t)' = Depth(t) + 1
          /\ \A i \in 1..Depth(t) : stack'[t][i] = stack[t][i]
          /\ stack'[t][Depth(t) + 1] = [kind |-> "set", of |-> b]
      BY <2>1, Pushed
    <3> QED
      BY <3>1
  <2>3. user \in {NoThread, t} /\ user' = t
    BY <2>1 DEF Uses
  <2>4. g_fileReader # "deleted"
    BY <1>2, <2>1, <2>3, ThreadAssumption DEF JavaTurn, Top
  <2>5. ~misuse'
    BY <1>2, <2>1, <2>4 DEF Uses
  <2>6. ASSUME NEW i \in 1..Depth(t)', stack'[t][i].kind = "java"
        PROVE  g_env' # NoThread
    <3>1. i # Depth(t) + 1
      BY <2>2, <2>6
    <3>2. i \in 1..Depth(t)
      BY <1>0, <2>2, <3>1
    <3> QED
      BY <1>2, <2>1, <2>2, <2>6, <3>2
  <2>7. Top(t, "set")'
    <3>1. stack' \in [Thread -> Seq(Frame)]
      BY <2>1, Pushed
    <3>2. Len(stack'[t]) = Depth(t) + 1 /\ stack'[t] \in Seq(Frame)
      BY <2>2, <3>1 DEF Depth
    <3>3. stack'[t] # <<>>
      BY <1>0, <3>2, EmptySeq
    <3> QED
      BY <2>2, <3>3 DEF Top
  <2> QED
    BY <1>6, <2>1, <2>2, <2>3, <2>5, <2>6, <2>7
<1>8. ASSUME NEW t \in Thread, NewGlobalRef(t)
      PROVE  OneUser'
  <2>1. /\ Top(t, "set") /\ Pop(t) /\ UNCHANGED <<pending, user, misuse>>
        /\ g_fileReader' = "live" /\ g_env' = IF g_env = NoThread THEN t ELSE g_env
    BY <1>8 DEF NewGlobalRef, history
  <2>2. /\ \A u \in Thread \ {t} : stack'[u] = stack[u]
        /\ Depth(t)' = Depth(t) - 1 /\ Depth(t) >= 1
        /\ \A i \in 1..(Depth(t) - 1) : stack'[t][i] = stack[t][i]
    BY <2>1, Popped DEF Top
  <2>3. user = t
    BY <1>0, <1>2, <2>1, <2>2 DEF Top
  <2>4. \A i \in 1..Depth(t)' : stack'[t][i].kind = "java" => g_env' # NoThread
    BY <2>1, ThreadAssumption
  <2> QED
    BY <1>2, <1>6, <2>1, <2>2, <2>3, <2>4
<1>9. ASSUME NEW t \in Thread, fileReaderBridge(t)
      PROVE  OneUser'
  <2>1. /\ Push(t, "java", stack[t][Depth(t)].of) /\ Top(t, "js")
        /\ g_env # NoThread /\ UNCHANGED <<g_env, g_fileReader, pending>>
        /\ Uses(t, g_env # t \/ g_fileReader = "deleted" \/ pending[t])
    BY <1>9 DEF fileReaderBridge, reader
  <2>2. stack[t][Depth(t)].of \in Bridge
    BY <2>1, Stacks DEF Frame
  <2>3. \A u \in Thread \ {t} : stack'[u] = stack[u]
    BY <2>1, <2>2, Pushed
  <2>4. user \in {NoThread, t} /\ user' = t
    BY <2>1 DEF Uses
  <2>5. g_env = t
    <3>1. g_env \in Thread /\ g_env = user
      BY <1>2, <2>1 DEF TypeOK
    <3> QED
      BY <2>4, <3>1, ThreadAssumption
  <2>6. g_fileReader # "deleted"
    <3>1. user = t
      BY <1>2, <2>1, <2>5
    <3>2. ~Top(t, "set")
      BY <2>1 DEF Top
    <3> QED
      BY <1>2, <3>1, <3>2
  <2>7. ~misuse'
    BY <1>2, <2>1, <2>5, <2>6 DEF Uses
  <2> QED
    BY <1>6, <2>1, <2>3, <2>4, <2>6, <2>7
<1>10. ASSUME NEW t \in Thread, readFileReturns(t)
       PROVE  OneUser'
  <2>1. /\ Top(t, "java") /\ Pop(t) /\ UNCHANGED <<g_env, g_fileReader, pending>>
        /\ Uses(t, g_env # t)
    BY <1>10 DEF readFileReturns, reader
  <2>2. /\ \A u \in Thread \ {t} : stack'[u] = stack[u]
        /\ Depth(t)' = Depth(t) - 1 /\ Depth(t) >= 1
        /\ \A i \in 1..(Depth(t) - 1) : stack'[t][i] = stack[t][i]
    BY <2>1, Popped DEF Top
  <2>3. Depth(t) \in 1..Depth(t) /\ stack[t][Depth(t)].kind = "java"
    BY <1>0, <2>1, <2>2 DEF Top
  <2>4. user = t /\ g_env # NoThread /\ g_env = t
    BY <1>2, <2>3
  <2>5. g_fileReader # "deleted"
    BY <1>2, <2>3, <2>4 DEF Top
  <2>6. user' = t /\ ~misuse'
    BY <1>2, <2>1, <2>4, ThreadAssumption DEF Uses
  <2> QED
    BY <1>6, <2>1, <2>2, <2>4, <2>5, <2>6
<1>11. ASSUME NEW t \in Thread, NativeReturns(t)
       PROVE  OneUser'
  <2>1. /\ Top(t, "js") /\ Pop(t) /\ UNCHANGED <<g_env, g_fileReader, user, careless>>
        /\ pending' = [pending EXCEPT ![t] = FALSE]
        /\ misuse' => misuse \/ pending[t]
    BY <1>11 DEF NativeReturns, reader
  <2>2. /\ \A u \in Thread \ {t} : stack'[u] = stack[u]
        /\ Depth(t)' = Depth(t) - 1 /\ Depth(t) >= 1
        /\ \A i \in 1..(Depth(t) - 1) : stack'[t][i] = stack[t][i]
    BY <2>1, Popped DEF Top
  <2>3. ~misuse' /\ \A u \in Thread : ~pending'[u]
    BY <1>2, <2>1 DEF TypeOK
  <2>4. g_fileReader' = "deleted" => user' \in Thread /\ Top(user, "set")'
    <3>1. ASSUME g_fileReader = "deleted" PROVE user' \in Thread /\ Top(user, "set")'
      <4>1. user \in Thread /\ Top(user, "set") /\ user # t
        BY <1>2, <2>1, <3>1 DEF Top
      <4>2. stack'[user] = stack[user] /\ user' = user
        BY <2>1, <2>2, <4>1
      <4> QED
        BY <4>1, <4>2 DEF Top, Depth
    <3> QED
      BY <2>1, <3>1
  <2>5. ASSUME NEW u \in Thread, NEW i \in 1..Depth(u)'
        PROVE  /\ stack'[u][i].kind \in {"java", "set"} => u = user'
               /\ stack'[u][i].kind = "java" => g_env' # NoThread
    <3>1. i \in 1..Depth(u) /\ stack'[u][i] = stack[u][i]
      <4>1. CASE u = t
        BY <1>0, <2>2, <4>1
      <4>2. CASE u # t
        BY <2>2, <4>2 DEF Depth
      <4> QED
        BY <4>1, <4>2
    <3> QED
      BY <1>2, <2>1, <3>1
  <2> QED
    BY <1>2, <2>1, <2>3, <2>4, <2>5 DEF OneUser
<1>12. ASSUME NEW t \in Thread, readFileThrows(t)
       PROVE  FALSE
  BY <1>12 DEF readFileThrows
<1>13. ASSUME UNCHANGED vars
       PROVE  OneUser'
  BY <1>3, <1>13 DEF vars, reader, history
<1>14. OneUser'
  BY <1>4, <1>5, <1>7, <1>8, <1>9, <1>10, <1>11, <1>12, <1>13 DEF Next
<1> QED
  BY <1>14 DEF OneUser

\* One thread, whatever it does, uses the reader by the rules of JNI.
THEOREM OneThreadUsesJniWell == Spec => []OneThreadIsSafe
<1>1. Init => OneUser
  BY DEF Init, OneUser, Depth
<1>2. TypeOK /\ OneUser => OneThreadIsSafe
  BY DEF OneUser, OneThreadIsSafe
<1> QED
  BY <1>1, <1>2, OneUserStep, Typed, PTL DEF Spec
===============================================================================
