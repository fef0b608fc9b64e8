----------------------------- MODULE RequireProofs -----------------------------
(***************************************************************************)
(* Theorems about Require, for every set of names, any number of loads and *)
(* any depth of calls.                                                     *)
(***************************************************************************)
EXTENDS Require, FiniteSetTheorems, TLAPS

USE BoundAssumption

\* A call in progress is of a module that is neither loaded nor failed, and was made after
\* the modules of the calls around it.
StackOK ==
    /\ \A i \in DOMAIN stack : stack[i].mod \notin done \cup failed
    /\ \A i, j \in DOMAIN stack : i < j => stack[i].mod < stack[j].mod

\* Every module is loaded, failed or in the hands of one of the calls.
Accounted ==
    /\ done \cup failed \subseteq DOMAIN mods
    /\ done \cap failed = {}
    /\ \A m \in DOMAIN mods :
         m \in done \/ m \in failed \/ \E i \in DOMAIN stack : stack[i].mod = m

\* What the cache has under an id is a module of that id that has not failed, and every
\* module that has not failed is there.
CacheOK ==
    /\ \A id \in Id : modLoaded[id] # None =>
         /\ modLoaded[id] \in DOMAIN mods
         /\ modLoaded[id] \notin failed
         /\ mods[modLoaded[id]].id = id
    /\ \A m \in DOMAIN mods : m \notin failed => modLoaded[mods[m].id] = m

\* The answer that is watched, if it was complete, was a loaded module's, whose exports no
\* longer change.
GivenOK == given.whole => given.of \in done /\ given.exports = mods[given.of].exports

IInv == TypeOK /\ StackOK /\ Accounted /\ CacheOK /\ GivenOK

---------------------------------------------------------------------------
(* What the steps do to the two sequences. *)

LEMMA ModFacts ==
    ASSUME TypeOK
    PROVE  /\ DOMAIN mods = 1..Len(mods) /\ Len(mods) \in Nat
           /\ DOMAIN stack = 1..Len(stack) /\ Len(stack) \in Nat
           /\ DOMAIN mods \subseteq Mod
           /\ \A m \in DOMAIN mods : mods[m] \in Module /\ mods[m].id \in Id
           /\ \A i \in DOMAIN stack : stack[i] \in Frame /\ stack[i].mod \in DOMAIN mods
           /\ stack # <<>> => Len(stack) \in DOMAIN stack
<1>1. DOMAIN mods = 1..Len(mods) /\ Len(mods) \in Nat
  BY DEF TypeOK
<1>2. DOMAIN stack = 1..Len(stack) /\ Len(stack) \in Nat
  BY DEF TypeOK
<1>3. DOMAIN mods \subseteq Mod
  BY <1>1 DEF TypeOK, Mod
<1>4. \A m \in DOMAIN mods : mods[m] \in Module /\ mods[m].id \in Id
  <2>1. \A m \in DOMAIN mods : mods[m] \in Module
    BY <1>1 DEF TypeOK
  <2>2. \A x \in Module : x.id \in Id
    BY DEF Module
  <2> QED
    BY <2>1, <2>2
<1>5. \A i \in DOMAIN stack : stack[i] \in Frame /\ stack[i].mod \in DOMAIN mods
  BY <1>2 DEF TypeOK
<1>6. stack # <<>> => Len(stack) \in DOMAIN stack
  BY <1>2 DEF TypeOK
<1> QED
  BY <1>1, <1>2, <1>3, <1>4, <1>5, <1>6

\* The innermost call goes on to another place.
LEMMA GotoStack ==
    ASSUME TypeOK, StackOK, stack # <<>>,
           NEW place \in {"search", "reader", "init", "loaders", "compile", "run"}, Goto(place),
           place \in {"init", "loaders"} => ~me.id.js
    PROVE  /\ stack' \in Seq(Frame) /\ DOMAIN stack' = DOMAIN stack
           /\ \A i \in DOMAIN stack : stack'[i].mod = stack[i].mod
           /\ \A i \in DOMAIN stack :
                stack'[i].at \in {"init", "loaders"} => ~mods[stack[i].mod].id.js
<1>1. Len(stack) \in DOMAIN stack /\ top \in Frame
  BY ModFacts DEF top
<1>2. [top EXCEPT !.at = place] \in Frame
  BY <1>1 DEF Frame
<1>3. stack' = [stack EXCEPT ![Len(stack)] = [top EXCEPT !.at = place]]
  BY DEF Goto, top
<1>4. stack' \in Seq(Frame) /\ DOMAIN stack' = DOMAIN stack
  BY <1>1, <1>2, <1>3 DEF TypeOK
<1>5. \A i \in DOMAIN stack :
        stack'[i] = IF i = Len(stack) THEN [top EXCEPT !.at = place] ELSE stack[i]
  BY <1>3, ModFacts
<1>6. [top EXCEPT !.at = place].mod = top.mod /\ [top EXCEPT !.at = place].at = place
  BY <1>1 DEF Frame
<1>7. \A i \in DOMAIN stack : stack'[i].mod = stack[i].mod
  BY <1>5, <1>6 DEF top
<1>8. ASSUME NEW i \in DOMAIN stack, stack'[i].at \in {"init", "loaders"}
      PROVE  ~mods[stack[i].mod].id.js
  <2>1. CASE i = Len(stack)
    BY <1>5, <1>6, <1>8, <2>1 DEF me, top
  <2>2. CASE i # Len(stack)
    BY <1>5, <1>8, <2>2 DEF TypeOK
  <2> QED
    BY <2>1, <2>2
<1> QED
  BY <1>4, <1>7, <1>8

\* The innermost call ends.
LEMMA PopStack ==
    ASSUME TypeOK, stack # <<>>, stack' = below
    PROVE  /\ stack' \in Seq(Frame)
           /\ Len(stack') = Len(stack) - 1
           /\ DOMAIN stack' \subseteq DOMAIN stack
           /\ Len(stack) \notin DOMAIN stack'
           /\ \A i \in DOMAIN stack : i # Len(stack) => i \in DOMAIN stack'
           /\ \A i \in DOMAIN stack' : stack'[i] = stack[i]
<1>1. Len(stack) \in DOMAIN stack /\ DOMAIN stack = 1..Len(stack) /\ Len(stack) \in Nat
  BY ModFacts
<1>2. stack' = [i \in 1..(Len(stack) - 1) |-> stack[i]]
  BY <1>1 DEF below, TypeOK
<1>3. Len(stack') = Len(stack) - 1 /\ DOMAIN stack' = 1..(Len(stack) - 1)
  BY <1>1, <1>2 DEF below, TypeOK
<1>4. stack' \in Seq(Frame)
  BY <1>1 DEF below, TypeOK
<1> QED
  BY <1>1, <1>2, <1>3, <1>4

\* The other calls are of other modules.
LEMMA OtherModules ==
    ASSUME TypeOK, StackOK, stack # <<>>
    PROVE  \A i \in DOMAIN stack : i # Len(stack) => stack[i].mod # top.mod
<1> SUFFICES ASSUME NEW i \in DOMAIN stack, i # Len(stack) PROVE stack[i].mod # top.mod
  OBVIOUS
<1>1. i \in 1..Len(stack) /\ Len(stack) \in DOMAIN stack /\ Len(stack) \in Nat
  BY ModFacts
<1>2. i < Len(stack)
  BY <1>1
<1>3. stack[i].mod < stack[Len(stack)].mod
  BY <1>1, <1>2 DEF StackOK
<1>4. stack[i].mod \in DOMAIN mods /\ stack[Len(stack)].mod \in DOMAIN mods
  BY <1>1, ModFacts
<1>5. DOMAIN mods \subseteq Nat
  BY ModFacts
<1> QED
  BY <1>3, <1>4, <1>5 DEF top

\* Module objects keep their ids, and those that are loaded their exports.
SameMods ==
    /\ mods' \in Seq(Module) /\ DOMAIN mods' = DOMAIN mods
    /\ \A m \in DOMAIN mods :
         /\ mods'[m].id = mods[m].id
         /\ m \in done => mods'[m].exports = mods[m].exports

\* The innermost module's library or exports change.
LEMMA LibChanges ==
    ASSUME TypeOK, stack # <<>>, NEW l \in {"none", "init", "held", "closed", "lost"},
           mods' = [mods EXCEPT ![top.mod].lib = l]
    PROVE  SameMods
<1>1. top.mod \in DOMAIN mods /\ mods[top.mod] \in Module
  BY ModFacts DEF top
<1>2. [mods[top.mod] EXCEPT !.lib = l] \in Module
  BY <1>1 DEF Module
<1>3. mods' = [mods EXCEPT ![top.mod] = [mods[top.mod] EXCEPT !.lib = l]]
  OBVIOUS
<1>4. mods' \in Seq(Module) /\ DOMAIN mods' = DOMAIN mods
  BY <1>1, <1>2, <1>3 DEF TypeOK
<1>5. /\ [mods[top.mod] EXCEPT !.lib = l].id = mods[top.mod].id
      /\ [mods[top.mod] EXCEPT !.lib = l].exports = mods[top.mod].exports
  BY <1>1 DEF Module
<1>6. \A m \in DOMAIN mods :
        mods'[m] = IF m = top.mod THEN [mods[top.mod] EXCEPT !.lib = l] ELSE mods[m]
  BY <1>1, <1>3, ModFacts
<1> QED
  BY <1>4, <1>5, <1>6 DEF SameMods

LEMMA ExportsChange ==
    ASSUME TypeOK, StackOK, stack # <<>>, mods' = [mods EXCEPT ![top.mod].exports = "other"]
    PROVE  SameMods /\ mods'[top.mod].exports = "other"
<1>1. top.mod \in DOMAIN mods /\ mods[top.mod] \in Module /\ top.mod \notin done
  BY ModFacts DEF top, StackOK
<1>2. [mods[top.mod] EXCEPT !.exports = "other"] \in Module
  BY <1>1 DEF Module
<1>3. mods' = [mods EXCEPT ![top.mod] = [mods[top.mod] EXCEPT !.exports = "other"]]
  OBVIOUS
<1>4. mods' \in Seq(Module) /\ DOMAIN mods' = DOMAIN mods
  BY <1>1, <1>2, <1>3 DEF TypeOK
<1>5. /\ [mods[top.mod] EXCEPT !.exports = "other"].id = mods[top.mod].id
      /\ [mods[top.mod] EXCEPT !.exports = "other"].exports = "other"
  BY <1>1 DEF Module
<1>6. \A m \in DOMAIN mods :
        mods'[m] = IF m = top.mod THEN [mods[top.mod] EXCEPT !.exports = "other"] ELSE mods[m]
  BY <1>1, <1>3, ModFacts
<1> QED
  BY <1>1, <1>4, <1>5, <1>6 DEF SameMods

LEMMA LibAndExportsChange ==
    ASSUME TypeOK, StackOK, stack # <<>>,
           mods' = [mods EXCEPT ![top.mod].lib = "held", ![top.mod].exports = "other"]
    PROVE  SameMods /\ mods'[top.mod].exports = "other"
<1> DEFINE new == [mods[top.mod] EXCEPT !.lib = "held", !.exports = "other"]
<1>1. top.mod \in DOMAIN mods /\ mods[top.mod] \in Module /\ top.mod \notin done
  BY ModFacts DEF top, StackOK
<1>2. new \in Module /\ new.id = mods[top.mod].id /\ new.exports = "other"
  BY <1>1 DEF Module
<1>3. mods' = [mods EXCEPT ![top.mod] = new]
  BY <1>1, ModFacts
<1> HIDE DEF new
<1>4. mods' \in Seq(Module) /\ DOMAIN mods' = DOMAIN mods
  BY <1>1, <1>2, <1>3 DEF TypeOK
<1>5. \A m \in DOMAIN mods : mods'[m] = IF m = top.mod THEN new ELSE mods[m]
  BY <1>1, <1>3, ModFacts
<1> QED
  BY <1>1, <1>2, <1>4, <1>5 DEF SameMods

\* A step within a call: the innermost call moves, or its module changes, and that is all.
LEMMA WithinCall ==
    ASSUME IInv, SameMods, UNCHANGED <<modLoaded, done, failed, given>>,
           DOMAIN stack' = DOMAIN stack,
           \A i \in DOMAIN stack : stack'[i].mod = stack[i].mod
    PROVE  StackOK' /\ Accounted' /\ CacheOK' /\ GivenOK'
<1> USE DEF IInv
<1>1. StackOK'
  BY DEF StackOK
<1>2. Accounted'
  BY DEF Accounted, SameMods
<1>3. CacheOK'
  <2>1. modLoaded \in [Id -> Mod \cup {None}] /\ \A m \in DOMAIN mods : mods[m].id \in Id
    BY ModFacts DEF TypeOK
  <2> QED
    BY <2>1 DEF CacheOK, SameMods
<1>4. GivenOK'
  BY DEF GivenOK, SameMods, Accounted
<1> QED
  BY <1>1, <1>2, <1>3, <1>4

\* A call returns.
LEMMA CallReturns ==
    ASSUME IInv, SameMods, stack # <<>>,
           NEW e \in {"table", "other"}, ReturnExports(e), mods'[top.mod].exports = e,
           UNCHANGED libVars
    PROVE  IInv'
<1> USE DEF IInv
<1>1. /\ stack' = below /\ done' = done \cup {top.mod} /\ modLoaded' = modLoaded
      /\ failed' = failed /\ throwing' = throwing /\ modSearch' = modSearch /\ open' = open
      /\ refs' = refs /\ heirs' = heirs /\ early' = early
  BY DEF ReturnExports, libVars
<1>2. /\ top.mod \in DOMAIN mods /\ top.mod \in Mod /\ top.mod \notin done \cup failed
      /\ Len(stack) \in DOMAIN stack /\ top = stack[Len(stack)] /\ DOMAIN mods \subseteq Mod
  BY ModFacts DEF top, StackOK
<1>4. given' \in Use /\ given'.of \in DOMAIN mods \cup {None}
  <2>1. [of |-> top.mod, whole |-> TRUE, exports |-> e] \in Use
    BY <1>2 DEF Use
  <2>2. given' \in {given, [of |-> top.mod, whole |-> TRUE, exports |-> e]}
    BY DEF ReturnExports, Give
  <2>3. given \in Use /\ given.of \in DOMAIN mods \cup {None}
    BY DEF TypeOK
  <2>4. [of |-> top.mod, whole |-> TRUE, exports |-> e].of = top.mod
    OBVIOUS
  <2> QED
    BY <1>2, <2>1, <2>2, <2>3, <2>4
<1>5. TypeOK'
  <2>1. \A i \in DOMAIN stack' :
          /\ stack'[i].mod \in DOMAIN mods'
          /\ stack'[i].at \in {"init", "loaders"} => ~mods'[stack'[i].mod].id.js
    <3>1. \A i \in DOMAIN stack' : i \in DOMAIN stack /\ stack'[i] = stack[i]
      BY <1>1, PopStack
    <3>2. \A i \in DOMAIN stack :
            /\ stack[i].mod \in DOMAIN mods
            /\ stack[i].at \in {"init", "loaders"} => ~mods[stack[i].mod].id.js
      BY DEF TypeOK
    <3> QED
      BY <3>1, <3>2 DEF SameMods
  <2>2. stack' \in Seq(Frame) /\ Len(mods') <= MaxLoads
    BY <1>1, PopStack, ModFacts DEF SameMods, TypeOK
  <2>3. done' \subseteq Mod
    BY <1>1, <1>2 DEF TypeOK
  <2> QED
    BY <1>1, <1>4, <2>1, <2>2, <2>3 DEF TypeOK, SameMods
<1>6. StackOK'
  <2>1. \A i \in DOMAIN stack' : stack[i].mod # top.mod
    BY <1>1, <1>2, PopStack, ModFacts DEF StackOK, Frame, Mod
  <2> QED
    BY <1>1, <2>1, PopStack DEF StackOK
<1>7. Accounted'
  BY <1>1, <1>2, PopStack DEF Accounted, SameMods
<1>8. CacheOK'
  BY <1>1, ModFacts DEF CacheOK, SameMods
<1>9. GivenOK'
  <2>1. CASE given' = given
    BY <1>1, <1>2, <2>1 DEF GivenOK, SameMods, Accounted
  <2>2. CASE given' = [of |-> top.mod, whole |-> TRUE, exports |-> e]
    BY <1>1, <1>2, <2>2 DEF GivenOK
  <2> QED
    BY <2>1, <2>2 DEF ReturnExports, Give
<1> QED
  BY <1>5, <1>6, <1>7, <1>8, <1>9

\* Answers from the cache.
LEMMA CachedStep == ASSUME IInv, NEW id \in Id, RequireCached(id) PROVE IInv'
<1> USE DEF IInv
<1> DEFINE m == modLoaded[id]
           new == [of |-> m, whole |-> m \in done, exports |-> mods[m].exports]
<1>1. UNCHANGED <<loadVars, libVars, modSearch, open>> /\ given' \in {given, new}
  BY DEF RequireCached, Give
<1>2. m \in DOMAIN mods /\ m \notin failed /\ m \in Mod /\ mods[m] \in Module
  BY ModFacts DEF RequireCached, CacheOK
<1>3. mods[m].exports \in {"table", "other"}
  BY <1>2 DEF Module
<1>4. new \in Use
  BY <1>2, <1>3 DEF Use
<1>5. TypeOK'
  <2>1. given' \in Use /\ given'.of \in DOMAIN mods \cup {None}
    BY <1>1, <1>2, <1>4 DEF TypeOK
  <2> QED
    BY <1>1, <2>1 DEF TypeOK, loadVars, libVars
<1>6. StackOK' /\ Accounted' /\ CacheOK'
  BY <1>1 DEF StackOK, Accounted, CacheOK, loadVars
<1>8. GivenOK'
  <2>1. CASE given' = given
    BY <1>1, <2>1 DEF GivenOK, loadVars
  <2>2. CASE given' = new
    BY <1>1, <2>2 DEF GivenOK, loadVars
  <2> QED
    BY <1>1, <2>1, <2>2
<1> QED
  BY <1>5, <1>6, <1>8

LEMMA NewStep == ASSUME IInv, NEW id \in Id, RequireNew(id) PROVE IInv'
<1> USE DEF IInv
<1> DEFINE n == Len(mods) + 1
           frame == [mod |-> n, at |-> "search"]
<1>1. /\ mods' = Append(mods, NewModule(id)) /\ modLoaded' = [modLoaded EXCEPT ![id] = n]
      /\ stack' = Append(stack, frame) /\ n \in Mod /\ modLoaded[id] = None
      /\ UNCHANGED <<done, failed, throwing, given, libVars, modSearch, open>>
  BY ModFacts DEF RequireNew, Mod
<1>2. NewModule(id) \in Module /\ NewModule(id).id = id /\ frame \in Frame
  BY <1>1 DEF NewModule, Module, Frame
<1>3. /\ mods' \in Seq(Module) /\ DOMAIN mods' = DOMAIN mods \cup {n} /\ Len(mods') = n
      /\ mods'[n] = NewModule(id) /\ (\A m \in DOMAIN mods : mods'[m] = mods[m])
      /\ n \notin DOMAIN mods /\ (\A m \in DOMAIN mods : m < n)
  BY <1>1, <1>2, ModFacts DEF TypeOK
<1>4. /\ stack' \in Seq(Frame) /\ DOMAIN stack' = DOMAIN stack \cup {Len(stack) + 1}
      /\ stack'[Len(stack) + 1] = frame /\ (\A i \in DOMAIN stack : stack'[i] = stack[i])
  BY <1>1, <1>2, ModFacts DEF TypeOK
<1>5. TypeOK'
  <2>1. \A i \in DOMAIN stack' :
          /\ stack'[i].mod \in DOMAIN mods'
          /\ stack'[i].at \in {"init", "loaders"} => ~mods'[stack'[i].mod].id.js
    BY <1>3, <1>4, ModFacts DEF TypeOK
  <2>2. modLoaded' \in [Id -> Mod \cup {None}]
    BY <1>1 DEF TypeOK
  <2>3. Len(mods') <= MaxLoads
    BY <1>1, <1>3 DEF Mod
  <2> QED
    BY <1>1, <1>3, <1>4, <2>1, <2>2, <2>3 DEF TypeOK, libVars
<1>6. StackOK'
  <2>1. n \notin done \cup failed
    BY <1>3 DEF Accounted
  <2>2. \A i \in DOMAIN stack : stack[i].mod < n
    BY <1>3, ModFacts
  <2>3. \A i, j \in DOMAIN stack' : i < j => stack'[i].mod < stack'[j].mod
    BY <1>4, <2>2, ModFacts DEF StackOK
  <2> QED
    BY <1>1, <1>4, <2>1, <2>3 DEF StackOK
<1>7. Accounted'
  BY <1>1, <1>3, <1>4 DEF Accounted
<1>8. CacheOK'
  <2>1. \A i \in Id : modLoaded'[i] = IF i = id THEN n ELSE modLoaded[i]
    BY <1>1 DEF TypeOK
  <2>2. n \notin failed /\ n # None
    BY <1>1, <1>3 DEF Accounted, Mod, None
  <2>3. \A m \in DOMAIN mods : m \notin failed => mods[m].id # id
    BY <1>1, ModFacts DEF CacheOK, None, Mod
  <2>4. \A m \in DOMAIN mods : mods[m].id \in Id
    BY ModFacts
  <2>5. ASSUME NEW i \in Id, modLoaded'[i] # None
        PROVE  /\ modLoaded'[i] \in DOMAIN mods' /\ modLoaded'[i] \notin failed'
               /\ mods'[modLoaded'[i]].id = i
    BY <1>1, <1>2, <1>3, <2>1, <2>2, <2>5 DEF CacheOK
  <2>6. ASSUME NEW m \in DOMAIN mods', m \notin failed' PROVE modLoaded'[mods'[m].id] = m
    BY <1>1, <1>2, <1>3, <2>1, <2>3, <2>4, <2>6 DEF CacheOK
  <2> QED
    BY <2>5, <2>6 DEF CacheOK
<1>9. GivenOK'
  BY <1>1, <1>3 DEF GivenOK, Accounted
<1> QED
  BY <1>5, <1>6, <1>7, <1>8, <1>9

LEMMA FailStep == IInv /\ deleteRethrow => IInv'
<1> SUFFICES ASSUME IInv, deleteRethrow PROVE IInv'
  OBVIOUS
<1> USE DEF IInv
<1>1. /\ stack # <<>> /\ stack' = below /\ failed' = failed \cup {top.mod} /\ done' = done
      /\ modLoaded' = [modLoaded EXCEPT ![me.id] = None] /\ given' = given
      /\ UNCHANGED <<throwing, libVars, modSearch, open>>
  BY DEF deleteRethrow
<1>2. /\ top.mod \in DOMAIN mods /\ top.mod \in Mod /\ top.mod \notin done \cup failed
      /\ Len(stack) \in DOMAIN stack /\ top = stack[Len(stack)]
      /\ me = mods[top.mod] /\ me.id \in Id
  BY <1>1, ModFacts DEF top, me, StackOK
<1>3. SameMods
  <2>1. CASE mods' = mods
    BY <2>1 DEF SameMods, TypeOK
  <2>2. CASE mods' = [mods EXCEPT ![top.mod].lib = "lost"]
    BY <1>1, <2>2, LibChanges
  <2> QED
    BY <2>1, <2>2 DEF deleteRethrow
<1>4. TypeOK'
  <2>1. \A i \in DOMAIN stack' :
          /\ stack'[i].mod \in DOMAIN mods'
          /\ stack'[i].at \in {"init", "loaders"} => ~mods'[stack'[i].mod].id.js
    <3>1. \A i \in DOMAIN stack' : i \in DOMAIN stack /\ stack'[i] = stack[i]
      BY <1>1, PopStack
    <3>2. \A i \in DOMAIN stack :
            /\ stack[i].mod \in DOMAIN mods
            /\ stack[i].at \in {"init", "loaders"} => ~mods[stack[i].mod].id.js
      BY DEF TypeOK
    <3> QED
      BY <1>3, <3>1, <3>2 DEF SameMods
  <2>2. stack' \in Seq(Frame) /\ Len(mods') <= MaxLoads
    BY <1>1, <1>3, PopStack, ModFacts DEF SameMods, TypeOK
  <2>3. modLoaded' \in [Id -> Mod \cup {None}] /\ failed' \subseteq Mod
    BY <1>1, <1>2 DEF TypeOK
  <2> QED
    BY <1>1, <1>3, <2>1, <2>2, <2>3 DEF TypeOK, SameMods, libVars
<1>5. StackOK'
  <2>0. \A i \in DOMAIN stack' : i \in DOMAIN stack /\ i < Len(stack)
    BY <1>1, <1>2, PopStack, ModFacts
  <2>1. \A i \in DOMAIN stack' : stack[i].mod # top.mod
    BY <1>1, <1>2, <2>0, OtherModules
  <2> QED
    BY <1>1, <2>1, PopStack DEF StackOK
<1>6. Accounted'
  <2>1. \A i \in DOMAIN stack : i # Len(stack) => i \in DOMAIN stack' /\ stack'[i] = stack[i]
    BY <1>1, PopStack
  <2>2. \A m \in DOMAIN mods : m \in done \/ m \in failed' \/ \E i \in DOMAIN stack' : stack'[i].mod = m
    BY <1>1, <1>2, <2>1 DEF Accounted
  <2> QED
    BY <1>1, <1>2, <1>3, <2>2 DEF Accounted, SameMods
<1>7. CacheOK'
  <2>1. \A i \in Id : modLoaded'[i] = IF i = me.id THEN None ELSE modLoaded[i]
    BY <1>1 DEF TypeOK
  <2>2. modLoaded[me.id] = top.mod
    BY <1>2 DEF CacheOK
  <2>3. \A m \in DOMAIN mods : mods[m].id \in Id /\ mods'[m].id = mods[m].id
    BY <1>3, ModFacts DEF SameMods
  <2>4. ASSUME NEW i \in Id, modLoaded'[i] # None
        PROVE  /\ modLoaded'[i] \in DOMAIN mods' /\ modLoaded'[i] \notin failed'
               /\ mods'[modLoaded'[i]].id = i
    BY <1>1, <1>2, <1>3, <2>1, <2>3, <2>4 DEF CacheOK, SameMods
  <2>5. ASSUME NEW m \in DOMAIN mods', m \notin failed' PROVE modLoaded'[mods'[m].id] = m
    BY <1>1, <1>2, <1>3, <2>1, <2>2, <2>3, <2>5 DEF CacheOK, SameMods
  <2> QED
    BY <2>4, <2>5 DEF CacheOK
<1>8. GivenOK'
  BY <1>1, <1>3 DEF GivenOK, SameMods, Accounted
<1> QED
  BY <1>4, <1>5, <1>6, <1>7, <1>8

LEMMA InitInv == Init => IInv
<1> SUFFICES ASSUME Init PROVE IInv
  OBVIOUS
<1>1. NoUse \in Use /\ NoUse.of = None
  BY DEF NoUse, Use, None
<1>2. stack \in Seq(Frame) /\ mods \in Seq(Module) /\ Len(mods) <= MaxLoads /\ DOMAIN stack = {}
  BY DEF Init
<1>3. modLoaded \in [Id -> Mod \cup {None}] /\ refs \in [Name -> Nat]
  BY DEF Init
<1>4. TypeOK
  BY <1>1, <1>2, <1>3 DEF Init, TypeOK
<1> QED
  BY <1>4 DEF Init, IInv, StackOK, Accounted, CacheOK, GivenOK, NoUse, None

\* A step of the innermost call to another place, and what it does to its library.
LEMMA MoveStep ==
    ASSUME IInv, stack # <<>>,
           NEW place \in {"search", "reader", "init", "loaders", "compile", "run"}, Goto(place),
           place \in {"init", "loaders"} => ~me.id.js,
           \/ mods' = mods
           \/ \E l \in {"none", "init", "held", "closed", "lost"} :
                mods' = [mods EXCEPT ![top.mod].lib = l],
           UNCHANGED <<modLoaded, done, failed, given, modSearch, open, heirs, early>>,
           throwing' \in BOOLEAN, refs' \in [Name -> Nat]
    PROVE  IInv'
<1> USE DEF IInv
<1>1. SameMods
  BY LibChanges DEF SameMods, TypeOK
<1>2. /\ stack' \in Seq(Frame) /\ DOMAIN stack' = DOMAIN stack
      /\ \A i \in DOMAIN stack : stack'[i].mod = stack[i].mod
      /\ \A i \in DOMAIN stack :
           stack'[i].at \in {"init", "loaders"} => ~mods[stack[i].mod].id.js
  BY GotoStack
<1>3. StackOK' /\ Accounted' /\ CacheOK' /\ GivenOK'
  BY <1>1, <1>2, WithinCall
<1>4. TypeOK'
  <2>1. \A i \in DOMAIN stack' :
          /\ stack'[i].mod \in DOMAIN mods'
          /\ stack'[i].at \in {"init", "loaders"} => ~mods'[stack'[i].mod].id.js
    BY <1>1, <1>2, ModFacts DEF SameMods
  <2>2. Len(mods') <= MaxLoads
    BY <1>1, ModFacts DEF SameMods, TypeOK
  <2> QED
    BY <1>1, <1>2, <2>1, <2>2 DEF TypeOK, SameMods
<1> QED
  BY <1>3, <1>4

\* The calls stay where they are.
LEMMA StayStep ==
    ASSUME IInv, SameMods, stack' = stack,
           UNCHANGED <<modLoaded, done, failed, given, modSearch>>,
           throwing' \in BOOLEAN, open' \in BOOLEAN, refs' \in [Name -> Nat],
           heirs' \subseteq Mod, early' \subseteq Mod
    PROVE  IInv'
<1> USE DEF IInv
<1>1. StackOK' /\ Accounted' /\ CacheOK' /\ GivenOK'
  BY WithinCall
<1>2. \A i \in DOMAIN stack' :
        /\ stack'[i].mod \in DOMAIN mods'
        /\ stack'[i].at \in {"init", "loaders"} => ~mods'[stack'[i].mod].id.js
  BY ModFacts DEF SameMods, TypeOK
<1>3. Len(mods') <= MaxLoads
  BY ModFacts DEF SameMods, TypeOK
<1>4. TypeOK'
  BY <1>2, <1>3 DEF TypeOK, SameMods
<1> QED
  BY <1>1, <1>4

\* How often a library is open, as far as types go.
LEMMA Counts ==
    ASSUME TypeOK, NEW n, NEW k \in Nat,
           \/ refs' = [refs EXCEPT ![n] = @ + 1]
           \/ refs' = [refs EXCEPT ![n] = (@ + 1) - 1]
           \/ refs' = [refs EXCEPT ![n] = IF @ > k THEN @ - k ELSE 0]
    PROVE  refs' \in [Name -> Nat]
<1>1. refs \in [Name -> Nat] /\ (n \in Name => refs[n] \in Nat)
  BY DEF TypeOK
<1>2. n \in Name => /\ refs[n] + 1 \in Nat /\ (refs[n] + 1) - 1 \in Nat
                    /\ (IF refs[n] > k THEN refs[n] - k ELSE 0) \in Nat
  BY <1>1
<1> QED
  BY <1>1, <1>2

LEMMA HeldIsFinite ==
    ASSUME TypeOK, NEW n
    PROVE  Cardinality(Held(n)) \in Nat /\ Cardinality(Held(n) \cap heirs) \in Nat
<1>1. IsFiniteSet(DOMAIN mods)
  BY ModFacts, FS_Interval
<1>2. IsFiniteSet(Held(n)) /\ IsFiniteSet(Held(n) \cap heirs)
  BY <1>1, FS_Subset DEF Held
<1> QED
  BY <1>2, FS_CardinalityType

LEMMA SearchStep == IInv /\ Search => IInv'
<1> SUFFICES ASSUME IInv, Search PROVE IInv'
  OBVIOUS
<1>0. TypeOK /\ StackOK /\ refs \in [Name -> Nat] /\ throwing \in BOOLEAN
  BY DEF IInv, TypeOK
<1>1. CASE NoModSearch
  BY <1>0, <1>1, MoveStep DEF NoModSearch, In, Fails, libVars
<1>2. CASE FoundSource
  BY <1>0, <1>2, MoveStep DEF FoundSource, In, libVars
<1>3. CASE NoSuchFile
  BY <1>0, <1>3, MoveStep DEF NoSuchFile, In, Fails, libVars
<1>4. CASE NoLibrary
  BY <1>0, <1>4, MoveStep DEF NoLibrary, In, libVars
<1>5. CASE NoInitFunction
  <2>1. refs' \in [Name -> Nat]
    BY <1>0, <1>5, Counts DEF NoInitFunction
  <2> QED
    BY <1>0, <1>5, <2>1, MoveStep DEF NoInitFunction, In
<1>6. CASE InitLibrary
  <2>1. refs' \in [Name -> Nat]
    BY <1>0, <1>6, Counts DEF InitLibrary
  <2> QED
    BY <1>0, <1>6, <2>1, MoveStep DEF InitLibrary, In
<1>7. CASE InitReturns
  <2>1. stack # <<>> /\ ReturnExports("other") /\ UNCHANGED libVars
    BY <1>7 DEF InitReturns, In
  <2>2. SameMods /\ mods'[top.mod].exports = "other"
    BY <1>0, <1>7, <2>1, LibAndExportsChange DEF InitReturns
  <2> QED
    BY <2>1, <2>2, CallReturns
<1>8. CASE InitReturnsNoObject
  BY <1>0, <1>8, MoveStep DEF InitReturnsNoObject, In, Fails, libVars
<1>9. CASE LoaderReturns
  <2>1. stack # <<>> /\ ReturnExports("other") /\ UNCHANGED libVars
    BY <1>9 DEF LoaderReturns, In
  <2>2. SameMods /\ mods'[top.mod].exports = "other"
    BY <1>0, <1>9, <2>1, ExportsChange DEF LoaderReturns
  <2> QED
    BY <2>1, <2>2, CallReturns
<1>10. CASE NotFound
  BY <1>0, <1>10, MoveStep DEF NotFound, In, Fails, libVars
<1>11. CASE ReadFile
  BY <1>0, <1>11, MoveStep DEF ReadFile, In, libVars
<1> QED
  BY <1>1, <1>2, <1>3, <1>4, <1>5, <1>6, <1>7, <1>8, <1>9, <1>10, <1>11 DEF Search

LEMMA CodeStep == IInv /\ Code => IInv'
<1> SUFFICES ASSUME IInv, Code PROVE IInv'
  OBVIOUS
<1>0. /\ TypeOK /\ StackOK /\ refs \in [Name -> Nat] /\ throwing \in BOOLEAN /\ open \in BOOLEAN
      /\ heirs \subseteq Mod /\ early \subseteq Mod
  BY DEF IInv, TypeOK
<1>1. CASE CompileFails
  BY <1>0, <1>1, MoveStep DEF CompileFails, In, Fails, libVars
<1>2. CASE Evaluate
  BY <1>0, <1>2, MoveStep DEF Evaluate, In, libVars
<1>3. CASE SetExports
  <2>1. SameMods
    BY <1>0, <1>3, ExportsChange DEF SetExports, In
  <2> QED
    BY <1>0, <1>3, <2>1, StayStep DEF SetExports, libVars
<1>4. CASE Finish
  <2>1. stack # <<>> /\ ReturnExports(me.exports) /\ UNCHANGED libVars /\ mods' = mods
    BY <1>4 DEF Finish, In
  <2>2. SameMods
    BY <1>0, <2>1 DEF SameMods, TypeOK
  <2>3. me.exports \in {"table", "other"} /\ mods'[top.mod].exports = me.exports
    BY <1>0, <2>1, ModFacts DEF me, top, Module
  <2> QED
    BY <2>1, <2>2, <2>3, CallReturns
<1>5. ASSUME NEW place \in {"run", "init"}, Throws(place) PROVE IInv'
  <2>1. In(place) /\ Fails(place) /\ UNCHANGED <<mods, libVars>>
    BY <1>5 DEF Throws
  <2>2. place = "init" => ~me.id.js
    BY <1>0, <2>1, ModFacts DEF In, me, top, TypeOK
  <2> QED
    BY <1>0, <2>1, <2>2, MoveStep DEF In, Fails, libVars
<1>6. CASE Catch
  <2>1. SameMods
    BY <1>0, <1>6 DEF SameMods, TypeOK, Catch
  <2> QED
    BY <1>0, <1>6, <2>1, StayStep DEF Catch, libVars
<1>7. CASE deleteRethrow
  BY <1>7, FailStep
<1> QED
  BY <1>1, <1>2, <1>3, <1>4, <1>5, <1>6, <1>7 DEF Code

LEMMA LibrariesStep == IInv /\ Libraries => IInv'
<1> SUFFICES ASSUME IInv, Libraries PROVE IInv'
  OBVIOUS
<1>0. /\ TypeOK /\ StackOK /\ refs \in [Name -> Nat] /\ throwing \in BOOLEAN /\ open \in BOOLEAN
      /\ heirs \subseteq Mod /\ early \subseteq Mod
  BY DEF IInv, TypeOK
<1>1. ASSUME NEW m \in DOMAIN mods, Inherit(m) PROVE IInv'
  <2>1. SameMods
    BY <1>0, <1>1 DEF SameMods, TypeOK, Inherit, loadVars
  <2>2. heirs' \subseteq Mod
    BY <1>0, <1>1, ModFacts DEF Inherit
  <2> QED
    BY <1>0, <1>1, <2>1, <2>2, StayStep DEF Inherit, loadVars
<1>2. ASSUME NEW m \in DOMAIN mods, unloadDll(m) PROVE IInv'
  <2>1. SameMods
    BY <1>0, <1>2 DEF SameMods, TypeOK, unloadDll, loadVars
  <2>2. heirs' \subseteq Mod /\ early' \subseteq Mod
    BY <1>0, <1>2 DEF unloadDll
  <2>3. refs' \in [Name -> Nat]
    BY <1>0, <1>2, Counts DEF unloadDll, dlclose
  <2> QED
    BY <1>0, <1>2, <2>1, <2>2, <2>3, StayStep DEF unloadDll, loadVars
<1>3. CASE js_destroy_env
  <2>1. SameMods
    <3>1. \A m \in DOMAIN mods :
            /\ mods'[m] \in Module /\ mods'[m].id = mods[m].id
            /\ mods'[m].exports = mods[m].exports
      BY <1>0, <1>3, ModFacts DEF js_destroy_env, Module
    <3>2. mods' \in Seq(Module) /\ DOMAIN mods' = DOMAIN mods
      BY <1>0, <1>3, <3>1, ModFacts DEF js_destroy_env
    <3> QED
      BY <3>1, <3>2 DEF SameMods
  <2>2. refs' \in [Name -> Nat]
    <3> DEFINE closes(n) == Cardinality(Held(n)) + Cardinality(Held(n) \cap heirs)
               left(n) == IF refs[n] > closes(n) THEN refs[n] - closes(n) ELSE 0
    <3>1. refs' = [n \in Name |-> left(n)]
      BY <1>3 DEF js_destroy_env
    <3>2. \A n \in Name : refs[n] \in Nat /\ closes(n) \in Nat
      BY <1>0, HeldIsFinite
    <3> HIDE DEF closes
    <3>3. \A n \in Name : left(n) \in Nat
      BY <3>2
    <3> QED
      BY <3>1, <3>3
  <2>3. heirs' \subseteq Mod /\ early' \subseteq Mod
    BY <1>0, <1>3 DEF js_destroy_env
  <2> QED
    BY <1>0, <1>3, <2>1, <2>2, <2>3, StayStep DEF js_destroy_env
<1> QED
  BY <1>1, <1>2, <1>3 DEF Libraries

LEMMA Invariance == Spec => []IInv
<1>1. IInv /\ UNCHANGED vars => IInv'
  BY DEF vars, loadVars, libVars, IInv, TypeOK, StackOK, Accounted, CacheOK, GivenOK
<1>2. IInv /\ [Next]_vars => IInv'
  BY <1>1, CachedStep, NewStep, SearchStep, CodeStep, LibrariesStep DEF Next
<1> QED
  BY InitInv, <1>2, PTL DEF Spec

\* Only ids without ".js" reach libraries and loaders (duk_bridge.c:412-419).
THEOREM TypeCorrect == Spec => []TypeOK
<1>1. IInv => TypeOK
  BY DEF IInv
<1> QED
  BY <1>1, Invariance, PTL

\* The cache has one copy of each module that is loaded or being loaded, and none that failed
\* (duk_module_duktape.c:298-304, 432-436).
THEOREM OneCopyOfEach == Spec => []OneCopy
<1>1. IInv => OneCopy
  <2> SUFFICES ASSUME IInv, NEW m \in DOMAIN mods
               PROVE  m \notin failed <=> modLoaded[mods[m].id] = m
    BY DEF OneCopy
  <2>1. mods[m].id \in Id /\ m # None
    BY ModFacts DEF IInv, Mod, None
  <2> QED
    BY <2>1 DEF IInv, CacheOK
<1> QED
  BY <1>1, Invariance, PTL

\* All who were given a complete module agree on it, for good (duk_module_duktape.c:242-246,
\* 428).
THEOREM CompleteModulesAgree == Spec => []RequirersAgree
<1>1. IInv => RequirersAgree
  <2> SUFFICES ASSUME IInv, given.whole PROVE RequirersAgree
    BY DEF RequirersAgree
  <2>1. given.of \in done /\ given.exports = mods[given.of].exports
    BY DEF IInv, GivenOK
  <2>2. given.of \in DOMAIN mods /\ given.of \notin failed
    BY <2>1 DEF IInv, Accounted
  <2> QED
    BY <2>1, <2>2 DEF IInv, CacheOK, RequirersAgree
<1> QED
  BY <1>1, Invariance, PTL

\* Incomplete exports come out of the cache only while their module's loading is in progress: no
\* module stays in the cache half loaded (duk_module_duktape.c:225-232, 432-436).
THEOREM NothingIsLeftHalfLoaded == Spec => []PartialOnlyWhileLoading
<1>1. IInv => PartialOnlyWhileLoading
  BY DEF IInv, CacheOK, Accounted, PartialOnlyWhileLoading
<1> QED
  BY <1>1, Invariance, PTL

---------------------------------------------------------------------------
(* The libraries. *)

\* The library of the module of call i is as the place of the call says.
LibAt(i) ==
    /\ stack[i].at = "init" => mods[stack[i].mod].lib = "init"
    /\ stack[i].at = "reader" => mods[stack[i].mod].lib = "none"

\* Calls that are not innermost are at a place that runs code; a library's function runs for a
\* module that is marked so; a module whose file is looked for has no library yet.
LibsOK ==
    /\ heirs \cup early \subseteq DOMAIN mods
    /\ \A i \in DOMAIN stack : i # Len(stack) => stack[i].at \in running
    /\ \A i \in DOMAIN stack : LibAt(i)
    /\ In("search") => me.lib = "none"

IsOpen(lib) == lib \in {"init", "held", "lost"}

\* What module m's library is to its name's count stays.
SameLib(m) == mods'[m].id = mods[m].id /\ (IsOpen(mods'[m].lib) <=> IsOpen(mods[m].lib))

LEMMA OpenIsFinite == ASSUME TypeOK, NEW n PROVE IsFiniteSet(OpenLibs(n))
<1>1. IsFiniteSet(DOMAIN mods)
  BY ModFacts, FS_Interval
<1> QED
  BY <1>1, FS_Subset DEF OpenLibs

\* A step after which the same libraries are open keeps the balance.
LEMMA BalanceKept ==
    ASSUME LibrariesBalanced, LibsOK, UNCHANGED <<refs, early>>,
           DOMAIN mods \subseteq DOMAIN mods',
           \A m \in DOMAIN mods : SameLib(m),
           \A m \in DOMAIN mods' : m \notin DOMAIN mods => mods'[m].lib = "none"
    PROVE  LibrariesBalanced'
<1> SUFFICES ASSUME NEW n \in Name, \A m \in early' : mods'[m].id.name # n
             PROVE  refs'[n] = Cardinality(OpenLibs(n)')
  BY DEF LibrariesBalanced
<1>1. \A m \in early : mods[m].id.name # n
  BY DEF LibsOK, SameLib
<1>2. OpenLibs(n)' = OpenLibs(n)
  BY DEF OpenLibs, SameLib, IsOpen
<1> QED
  BY <1>1, <1>2 DEF LibrariesBalanced

\* The innermost module's library changes, and nothing else of any module.
LEMMA LibOfMine ==
    ASSUME TypeOK, stack # <<>>, NEW l \in {"none", "init", "held", "closed", "lost"},
           mods' = [mods EXCEPT ![top.mod].lib = l]
    PROVE  /\ DOMAIN mods' = DOMAIN mods /\ top.mod \in DOMAIN mods
           /\ \A m \in DOMAIN mods : mods'[m].id = mods[m].id
           /\ \A m \in DOMAIN mods : m # top.mod => mods'[m] = mods[m]
           /\ mods'[top.mod].lib = l
<1>1. top.mod \in DOMAIN mods /\ mods[top.mod] \in Module
  BY ModFacts DEF top
<1>2. mods' = [mods EXCEPT ![top.mod] = [mods[top.mod] EXCEPT !.lib = l]]
  OBVIOUS
<1>3. /\ [mods[top.mod] EXCEPT !.lib = l].id = mods[top.mod].id
      /\ [mods[top.mod] EXCEPT !.lib = l].lib = l
  BY <1>1 DEF Module
<1>4. \A m \in DOMAIN mods :
        mods'[m] = IF m = top.mod THEN [mods[top.mod] EXCEPT !.lib = l] ELSE mods[m]
  BY <1>1, <1>2, ModFacts
<1> QED
  BY <1>1, <1>2, <1>3, <1>4, LibChanges DEF SameMods

\* The innermost call goes on to another place, and its module's library with it.
LEMMA LibsMove ==
    ASSUME IInv, LibsOK, stack # <<>>,
           NEW place \in {"search", "reader", "init", "loaders", "compile", "run"}, Goto(place),
           NEW l, IF mods' = mods THEN l = me.lib
                  ELSE /\ l \in {"none", "init", "held", "closed", "lost"}
                       /\ mods' = [mods EXCEPT ![top.mod].lib = l],
           place = "init" => l = "init",
           place = "search" => throwing',
           place = "reader" => l = "none",
           UNCHANGED <<heirs, early>>
    PROVE  LibsOK'
<1>0. TypeOK /\ StackOK
  BY DEF IInv
<1>1. /\ Len(stack) \in DOMAIN stack /\ top = stack[Len(stack)] /\ top \in Frame
      /\ top.mod \in DOMAIN mods /\ Len(stack) \in Nat /\ DOMAIN stack = 1..Len(stack)
  BY <1>0, ModFacts DEF top
<1>2. /\ DOMAIN mods' = DOMAIN mods /\ mods'[top.mod].lib = l
      /\ \A m \in DOMAIN mods : m # top.mod => mods'[m] = mods[m]
  BY <1>0, <1>1, LibOfMine DEF me
<1>3. stack' = [stack EXCEPT ![Len(stack)] = [top EXCEPT !.at = place]]
  BY DEF Goto, top
<1>4. [top EXCEPT !.at = place].mod = top.mod /\ [top EXCEPT !.at = place].at = place
  BY <1>1 DEF Frame
<1>5. /\ DOMAIN stack' = DOMAIN stack /\ Len(stack') = Len(stack)
      /\ \A i \in DOMAIN stack : i # Len(stack) => stack'[i] = stack[i]
      /\ stack'[Len(stack)].mod = top.mod /\ stack'[Len(stack)].at = place
  BY <1>0, <1>1, <1>3, <1>4 DEF TypeOK
<1>6. \A i \in DOMAIN stack : i # Len(stack) => stack[i].mod # top.mod
  BY <1>0, OtherModules
<1>7. \A i \in DOMAIN stack' : LibAt(i)'
  <2> TAKE i \in DOMAIN stack'
  <2>1. CASE i = Len(stack)
    BY <1>2, <1>5, <2>1 DEF LibAt
  <2>2. CASE i # Len(stack)
    BY <1>2, <1>5, <1>6, <2>2, ModFacts, <1>0 DEF LibsOK, LibAt
  <2> QED
    BY <2>1, <2>2
<1>8. ~In("search")'
  BY <1>5 DEF In, top
<1> QED
  BY <1>2, <1>5, <1>7, <1>8 DEF LibsOK

\* The innermost call ends: only its own module may have changed.
LEMMA LibsPop ==
    ASSUME IInv, LibsOK, stack # <<>>, stack' = below, DOMAIN mods' = DOMAIN mods,
           \A m \in DOMAIN mods : m # top.mod => mods'[m] = mods[m],
           UNCHANGED <<heirs, early>>
    PROVE  LibsOK'
<1>0. TypeOK /\ StackOK
  BY DEF IInv
<1>1. /\ Len(stack) \in DOMAIN stack /\ top = stack[Len(stack)]
      /\ Len(stack) \in Nat /\ DOMAIN stack = 1..Len(stack)
  BY <1>0, ModFacts DEF top
<1>2. /\ DOMAIN stack' \subseteq DOMAIN stack /\ Len(stack) \notin DOMAIN stack'
      /\ stack' \in Seq(Frame)
      /\ \A i \in DOMAIN stack' : stack'[i] = stack[i]
  BY <1>0, PopStack
<1>3. \A i \in DOMAIN stack' :
        i # Len(stack) /\ stack[i].mod # top.mod /\ stack[i].mod \in DOMAIN mods
  BY <1>0, <1>2, ModFacts, OtherModules
<1>4. \A i \in DOMAIN stack' : stack'[i].at \in running
  BY <1>2, <1>3 DEF LibsOK
<1>5. \A i \in DOMAIN stack' : LibAt(i)'
  BY <1>2, <1>3 DEF LibsOK, LibAt
<1>6. ~In("search")'
  <2>1. stack' # <<>> => Len(stack') \in DOMAIN stack'
    BY <1>2
  <2> QED
    BY <1>4, <2>1 DEF In, top, running, hosts
<1> QED
  BY <1>4, <1>5, <1>6 DEF LibsOK

\* The calls stay where they are, and so do the libraries.
LEMMA LibsStay ==
    ASSUME IInv, LibsOK, stack' = stack, DOMAIN mods' = DOMAIN mods,
           \A m \in DOMAIN mods : stack # <<>> => mods'[m].lib = mods[m].lib,
           heirs' \cup early' \subseteq DOMAIN mods,
           In("search")' => In("search")
    PROVE  LibsOK'
<1>1. \A i \in DOMAIN stack : stack[i].mod \in DOMAIN mods
  BY ModFacts DEF IInv
<1>2. stack # <<>> => top.mod \in DOMAIN mods
  BY ModFacts DEF IInv, top
<1>3. top' = top /\ DOMAIN stack' = DOMAIN stack /\ Len(stack') = Len(stack)
  BY DEF top
<1>4. stack = <<>> => DOMAIN stack = {}
  OBVIOUS
<1>5. In("search")' => me'.lib = "none"
  BY <1>2, <1>3 DEF LibsOK, me, In
<1> QED
  BY <1>1, <1>3, <1>4, <1>5 DEF LibsOK, LibAt

LInv == LibsOK /\ LibrariesBalanced

\* The innermost module's exports change, and perhaps its library.
LEMMA ExportsOfMine ==
    ASSUME TypeOK, stack # <<>>, NEW l \in {"none", "init", "held", "closed", "lost"},
           \/ mods' = [mods EXCEPT ![top.mod].exports = "other"] /\ l = me.lib
           \/ mods' = [mods EXCEPT ![top.mod].lib = l, ![top.mod].exports = "other"]
    PROVE  /\ DOMAIN mods' = DOMAIN mods /\ top.mod \in DOMAIN mods
           /\ \A m \in DOMAIN mods : mods'[m].id = mods[m].id
           /\ \A m \in DOMAIN mods : m # top.mod => mods'[m] = mods[m]
           /\ mods'[top.mod].lib = l
<1> DEFINE new == [mods[top.mod] EXCEPT !.lib = l, !.exports = "other"]
<1>1. top.mod \in DOMAIN mods /\ mods[top.mod] \in Module
  BY ModFacts DEF top
<1>2. new.id = mods[top.mod].id /\ new.lib = l
  BY <1>1 DEF Module
<1>3. mods' = [mods EXCEPT ![top.mod] = new]
  <2>1. CASE mods' = [mods EXCEPT ![top.mod].exports = "other"] /\ l = me.lib
    <3>1. [mods[top.mod] EXCEPT !.exports = "other"] = new
      BY <1>1, <2>1 DEF Module, me
    <3> QED
      BY <2>1, <3>1
  <2>2. CASE mods' = [mods EXCEPT ![top.mod].lib = l, ![top.mod].exports = "other"]
    BY <1>1, <2>2, ModFacts
  <2> QED
    BY <2>1, <2>2
<1> HIDE DEF new
<1>4. DOMAIN mods' = DOMAIN mods
  BY <1>3
<1>5. \A m \in DOMAIN mods : mods'[m] = IF m = top.mod THEN new ELSE mods[m]
  BY <1>1, <1>3, ModFacts
<1> QED
  BY <1>1, <1>2, <1>4, <1>5

LEMMA LibsCached == ASSUME IInv, LInv, NEW id \in Id, RequireCached(id) PROVE LInv'
<1>1. UNCHANGED <<stack, mods, throwing, heirs, early, refs>>
  BY DEF RequireCached, loadVars, libVars
<1>2. LibsOK'
  BY <1>1 DEF LInv, LibsOK, LibAt, In, top, me
<1>3. LibrariesBalanced'
  BY <1>1 DEF LInv, LibrariesBalanced, OpenLibs
<1> QED
  BY <1>2, <1>3 DEF LInv

LEMMA LibsNew == ASSUME IInv, LInv, NEW id \in Id, RequireNew(id) PROVE LInv'
<1> DEFINE n == Len(mods) + 1
           frame == [mod |-> n, at |-> "search"]
<1>0. TypeOK /\ LibsOK /\ LibrariesBalanced
  BY DEF IInv, LInv
<1>1. /\ mods' = Append(mods, NewModule(id)) /\ stack' = Append(stack, frame)
      /\ UNCHANGED <<throwing, heirs, early, refs>>
  BY DEF RequireNew, libVars
<1>2. /\ DOMAIN mods' = DOMAIN mods \cup {n} /\ mods'[n].lib = "none"
      /\ \A m \in DOMAIN mods : mods'[m] = mods[m]
  BY <1>0, <1>1, ModFacts DEF TypeOK, NewModule
<1>3. /\ DOMAIN stack' = DOMAIN stack \cup {Len(stack) + 1} /\ Len(stack') = Len(stack) + 1
      /\ stack'[Len(stack) + 1] = frame /\ \A i \in DOMAIN stack : stack'[i] = stack[i]
  BY <1>0, <1>1, ModFacts DEF TypeOK
<1>4. \A i \in DOMAIN stack : stack[i].at \in running /\ stack[i].mod \in DOMAIN mods
  <2>1. stack # <<>> => stack[Len(stack)].at \in running
    BY DEF RequireNew, Runs, top
  <2>2. \A i \in DOMAIN stack : stack # <<>>
    OBVIOUS
  <2> QED
    BY <1>0, <2>1, <2>2, ModFacts DEF LibsOK
<1>5. LibsOK'
  <2>1. frame.at = "search" /\ frame.mod = n
    OBVIOUS
  <2>2. top' = frame /\ me'.lib = "none"
    BY <1>2, <1>3, <2>1 DEF top, me
  <2>3. \A i \in DOMAIN stack' : i # Len(stack') => stack'[i].at \in running
    BY <1>3, <1>4
  <2>4. \A i \in DOMAIN stack' : LibAt(i)'
    BY <1>0, <1>2, <1>3, <1>4, <2>1 DEF LibsOK, LibAt
  <2> QED
    BY <1>0, <1>1, <1>2, <2>2, <2>3, <2>4 DEF LibsOK
<1>6. LibrariesBalanced'
  BY <1>0, <1>1, <1>2, BalanceKept DEF SameLib
<1> QED
  BY <1>5, <1>6 DEF LInv

\* A call that fails, goes on or is left, with no library opened or closed.
LEMMA LibsGoOn ==
    ASSUME IInv, LInv, stack # <<>>,
           NEW place \in {"search", "reader", "loaders", "compile", "run", "init"}, Goto(place), mods' = mods,
           place = "init" => top.at = "init",
           place = "search" => throwing',
           place = "reader" => top.at = "reader" \/ me.lib = "none",
           UNCHANGED libVars
    PROVE  LInv'
<1>1. LibsOK /\ LibrariesBalanced /\ UNCHANGED <<refs, heirs, early>>
  BY DEF LInv, libVars
<1>2. Len(stack) \in DOMAIN stack
  BY ModFacts DEF IInv
<1>3. (place = "init" => me.lib = "init") /\ (place = "reader" => me.lib = "none")
  BY <1>1, <1>2 DEF LibsOK, LibAt, top, me
<1>4. LibsOK'
  BY <1>1, <1>3, LibsMove
<1>5. LibrariesBalanced'
  BY <1>1, BalanceKept DEF SameLib
<1> QED
  BY <1>4, <1>5 DEF LInv

LEMMA LibsSearch == IInv /\ LInv /\ Search => LInv'
<1> SUFFICES ASSUME IInv, LInv, Search PROVE LInv'
  OBVIOUS
<1>0. TypeOK /\ LibsOK /\ LibrariesBalanced /\ refs \in [Name -> Nat]
  BY DEF IInv, LInv, TypeOK
<1>1. CASE NoModSearch \/ NoSuchFile \/ NotFound
  BY <1>1, LibsGoOn DEF NoModSearch, NoSuchFile, NotFound, In, Fails
<1>2. CASE FoundSource \/ NoLibrary
  BY <1>2, LibsGoOn DEF FoundSource, NoLibrary, In
<1>3. CASE NoInitFunction
  <2>1. refs' = refs
    <3>1. \A n \in Name : (refs[n] + 1) - 1 = refs[n]
      BY <1>0
    <3>2. refs' = [refs EXCEPT ![me.id.name] = (refs[me.id.name] + 1) - 1]
      BY <1>3 DEF NoInitFunction
    <3> QED
      BY <1>0, <3>1, <3>2
  <2> QED
    BY <1>3, <2>1, LibsGoOn DEF NoInitFunction, In, libVars
<1>4. CASE InitLibrary
  <2>1. /\ stack # <<>> /\ Goto("init") /\ mods' = [mods EXCEPT ![top.mod].lib = "init"]
        /\ me.lib = "none" /\ UNCHANGED <<heirs, early>>
        /\ refs' = [refs EXCEPT ![me.id.name] = @ + 1]
    BY <1>0, <1>4, ModFacts DEF InitLibrary, In, LibsOK, LibAt, top, me
  <2>2. /\ DOMAIN mods' = DOMAIN mods /\ top.mod \in DOMAIN mods /\ mods'[top.mod].lib = "init"
        /\ \A m \in DOMAIN mods : mods'[m].id = mods[m].id
        /\ \A m \in DOMAIN mods : m # top.mod => mods'[m] = mods[m]
    BY <1>0, <2>1, LibOfMine
  <2>3. LibsOK'
    BY <1>0, <2>1, <2>2, LibsMove DEF me
  <2>4. LibrariesBalanced'
    <3> SUFFICES ASSUME NEW n \in Name, \A m \in early' : mods'[m].id.name # n
                 PROVE  refs'[n] = Cardinality(OpenLibs(n)')
      BY DEF LibrariesBalanced
    <3>1. refs[n] = Cardinality(OpenLibs(n)) /\ refs[n] \in Nat
      BY <1>0, <2>1, <2>2 DEF LibrariesBalanced, LibsOK
    <3>2. CASE n = me.id.name
      <4>1. top.mod \notin OpenLibs(n) /\ OpenLibs(n)' = OpenLibs(n) \cup {top.mod}
        BY <2>1, <2>2, <3>2 DEF OpenLibs, me
      <4>2. IsFiniteSet(OpenLibs(n))
        BY <1>0, OpenIsFinite
      <4> QED
        BY <1>0, <2>1, <3>1, <3>2, <4>1, <4>2, FS_AddElement
    <3>3. CASE n # me.id.name
      <4>1. OpenLibs(n)' = OpenLibs(n)
        BY <2>2, <3>3 DEF OpenLibs, me
      <4> QED
        BY <1>0, <2>1, <3>1, <3>3, <4>1
    <3> QED
      BY <3>2, <3>3
  <2> QED
    BY <2>3, <2>4 DEF LInv
<1>5. CASE InitReturns
  <2>1. /\ stack # <<>> /\ stack' = below /\ me.lib = "init"
        /\ mods' = [mods EXCEPT ![top.mod].lib = "held", ![top.mod].exports = "other"]
        /\ UNCHANGED <<refs, heirs, early>>
    <3>1. In("init") /\ Len(stack) \in DOMAIN stack
      BY <1>0, <1>5, ModFacts DEF InitReturns, In
    <3> QED
      BY <1>0, <1>5, <3>1 DEF InitReturns, In, ReturnExports, libVars, LibsOK, LibAt, top, me
  <2>2. /\ DOMAIN mods' = DOMAIN mods /\ mods'[top.mod].lib = "held"
        /\ \A m \in DOMAIN mods : mods'[m].id = mods[m].id
        /\ \A m \in DOMAIN mods : m # top.mod => mods'[m] = mods[m]
    BY <1>0, <2>1, ExportsOfMine
  <2>3. LibsOK'
    BY <1>0, <2>1, <2>2, LibsPop
  <2>4. LibrariesBalanced'
    BY <1>0, <2>1, <2>2, BalanceKept DEF SameLib, IsOpen, me
  <2> QED
    BY <2>3, <2>4 DEF LInv
<1>6. CASE InitReturnsNoObject
  <2>1. /\ stack # <<>> /\ Goto("search") /\ throwing' /\ me.lib = "init"
        /\ mods' = [mods EXCEPT ![top.mod].lib = "lost"]
        /\ UNCHANGED <<refs, heirs, early>>
    <3>1. In("init") /\ Len(stack) \in DOMAIN stack
      BY <1>0, <1>6, ModFacts DEF InitReturnsNoObject, In
    <3> QED
      BY <1>0, <1>6, <3>1 DEF InitReturnsNoObject, In, Fails, libVars, LibsOK, LibAt, top, me
  <2>2. /\ DOMAIN mods' = DOMAIN mods /\ mods'[top.mod].lib = "lost"
        /\ \A m \in DOMAIN mods : mods'[m].id = mods[m].id
        /\ \A m \in DOMAIN mods : m # top.mod => mods'[m] = mods[m]
        /\ top.mod \in DOMAIN mods
    BY <1>0, <2>1, LibOfMine
  <2>3. LibsOK'
    BY <1>0, <2>1, <2>2, LibsMove DEF me
  <2>4. LibrariesBalanced'
    BY <1>0, <2>1, <2>2, BalanceKept DEF SameLib, IsOpen, me
  <2> QED
    BY <2>3, <2>4 DEF LInv
<1>7. CASE LoaderReturns
  <2>1. /\ stack # <<>> /\ stack' = below
        /\ mods' = [mods EXCEPT ![top.mod].exports = "other"]
        /\ UNCHANGED <<refs, heirs, early>>
    BY <1>7 DEF LoaderReturns, In, ReturnExports, libVars
  <2>2. me.lib \in {"none", "init", "held", "closed", "lost"}
    BY <1>0, <2>1, ModFacts DEF me, top, Module
  <2>3. /\ DOMAIN mods' = DOMAIN mods /\ mods'[top.mod].lib = me.lib
        /\ \A m \in DOMAIN mods : mods'[m].id = mods[m].id
        /\ \A m \in DOMAIN mods : m # top.mod => mods'[m] = mods[m]
    BY <1>0, <2>1, <2>2, ExportsOfMine
  <2>4. LibsOK'
    BY <1>0, <2>1, <2>3, LibsPop
  <2>5. LibrariesBalanced'
    BY <1>0, <2>1, <2>3, BalanceKept DEF SameLib, IsOpen, me
  <2> QED
    BY <2>4, <2>5 DEF LInv
<1>8. CASE ReadFile
  <2>1. stack # <<>> /\ Goto("reader") /\ mods' = mods /\ me.lib = "none" /\ UNCHANGED libVars
    BY <1>0, <1>8 DEF ReadFile, In, LibsOK
  <2> QED
    BY <2>1, LibsGoOn
<1> QED
  BY <1>1, <1>2, <1>3, <1>4, <1>5, <1>6, <1>7, <1>8 DEF Search

LEMMA LibsCode == IInv /\ LInv /\ Code => LInv'
<1> SUFFICES ASSUME IInv, LInv, Code PROVE LInv'
  OBVIOUS
<1>0. TypeOK /\ LibsOK /\ LibrariesBalanced
  BY DEF IInv, LInv
<1>1. CASE CompileFails \/ Evaluate
  BY <1>1, LibsGoOn DEF CompileFails, Evaluate, In, Fails
<1>2. CASE SetExports
  <2>1. /\ stack # <<>> /\ stack' = stack /\ throwing' = throwing
        /\ mods' = [mods EXCEPT ![top.mod].exports = "other"]
        /\ UNCHANGED <<refs, heirs, early>>
    BY <1>2 DEF SetExports, In, libVars
  <2>2. me.lib \in {"none", "init", "held", "closed", "lost"}
    BY <1>0, <2>1, ModFacts DEF me, top, Module
  <2>3. /\ DOMAIN mods' = DOMAIN mods /\ mods'[top.mod].lib = me.lib
        /\ \A m \in DOMAIN mods : mods'[m].id = mods[m].id
        /\ \A m \in DOMAIN mods : m # top.mod => mods'[m] = mods[m]
    BY <1>0, <2>1, <2>2, ExportsOfMine
  <2>4. \A m \in DOMAIN mods : mods'[m].lib = mods[m].lib
    BY <2>3 DEF me
  <2>5. LibsOK'
    BY <1>0, <2>1, <2>3, <2>4, LibsStay DEF In, top, LibsOK
  <2>6. LibrariesBalanced'
    BY <1>0, <2>1, <2>3, <2>4, BalanceKept DEF SameLib
  <2> QED
    BY <2>5, <2>6 DEF LInv
<1>3. CASE Finish
  <2>1. stack # <<>> /\ stack' = below /\ mods' = mods /\ UNCHANGED <<refs, heirs, early>>
    BY <1>3 DEF Finish, In, ReturnExports, libVars
  <2>2. LibsOK'
    BY <1>0, <2>1, LibsPop
  <2>3. LibrariesBalanced'
    BY <1>0, <2>1, BalanceKept DEF SameLib
  <2> QED
    BY <2>2, <2>3 DEF LInv
<1>4. ASSUME NEW place \in {"run", "init"}, Throws(place) PROVE LInv'
  BY <1>4, LibsGoOn DEF Throws, In, Fails
<1>5. CASE Catch
  <2>1. /\ UNCHANGED <<stack, mods, refs, heirs, early>>
        /\ stack # <<>> => top.at # "search"
    BY <1>5 DEF Catch, libVars, running, hosts
  <2>2. LibsOK'
    BY <1>0, <2>1, LibsStay DEF In, top, LibsOK
  <2>3. LibrariesBalanced'
    BY <1>0, <2>1, BalanceKept DEF SameLib
  <2> QED
    BY <2>2, <2>3 DEF LInv
<1>6. CASE deleteRethrow
  <2>1. /\ stack # <<>> /\ stack' = below /\ UNCHANGED <<refs, heirs, early>>
        /\ mods' = IF me.lib = "init" THEN [mods EXCEPT ![top.mod].lib = "lost"] ELSE mods
    BY <1>6 DEF deleteRethrow, libVars
  <2>2. /\ DOMAIN mods' = DOMAIN mods
        /\ \A m \in DOMAIN mods : m # top.mod => mods'[m] = mods[m]
        /\ \A m \in DOMAIN mods : SameLib(m)
    <3>1. CASE me.lib = "init"
      BY <1>0, <2>1, <3>1, LibOfMine DEF SameLib, IsOpen, me
    <3>2. CASE me.lib # "init"
      BY <2>1, <3>2 DEF SameLib
    <3> QED
      BY <3>1, <3>2
  <2>3. LibsOK'
    BY <1>0, <2>1, <2>2, LibsPop
  <2>4. LibrariesBalanced'
    BY <1>0, <2>1, <2>2, BalanceKept
  <2> QED
    BY <2>3, <2>4 DEF LInv
<1> QED
  BY <1>1, <1>2, <1>3, <1>4, <1>5, <1>6 DEF Code

\* Only what was inherited from is closed early, and the end of the environment closes what is
\* held and nothing else.
LEMMA LibsLibraries == IInv /\ LInv /\ Libraries => LInv'
<1> SUFFICES ASSUME IInv, LInv, Libraries PROVE LInv'
  OBVIOUS
<1>0. TypeOK /\ LibsOK /\ LibrariesBalanced /\ refs \in [Name -> Nat]
  BY DEF IInv, LInv, TypeOK
<1>1. ASSUME NEW m \in DOMAIN mods, Inherit(m) PROVE LInv'
  <2>1. UNCHANGED <<stack, mods, throwing, refs, early>> /\ heirs' = heirs \cup {m}
    BY <1>1 DEF Inherit, loadVars
  <2>2. LibsOK'
    BY <1>0, <2>1, LibsStay DEF In, top, LibsOK
  <2>3. LibrariesBalanced'
    BY <1>0, <2>1, BalanceKept DEF SameLib
  <2> QED
    BY <2>2, <2>3 DEF LInv
<1>2. ASSUME NEW m \in DOMAIN mods, unloadDll(m) PROVE LInv'
  <2>1. /\ UNCHANGED <<stack, mods, throwing>> /\ heirs' = heirs \ {m} /\ early' = early \cup {m}
        /\ refs' = [refs EXCEPT ![mods[m].id.name] = IF @ > 1 THEN @ - 1 ELSE 0]
    BY <1>2 DEF unloadDll, loadVars, dlclose
  <2>2. LibsOK'
    BY <1>0, <2>1, LibsStay DEF In, top, LibsOK
  <2>3. LibrariesBalanced'
    <3> SUFFICES ASSUME NEW n \in Name, \A k \in early' : mods'[k].id.name # n
                 PROVE  refs'[n] = Cardinality(OpenLibs(n)')
      BY DEF LibrariesBalanced
    <3>1. n # mods[m].id.name /\ refs[n] = Cardinality(OpenLibs(n))
      BY <1>0, <2>1 DEF LibrariesBalanced
    <3>2. OpenLibs(n)' = OpenLibs(n)
      BY <2>1 DEF OpenLibs
    <3> QED
      BY <1>0, <2>1, <3>1, <3>2
  <2> QED
    BY <2>2, <2>3 DEF LInv
<1>3. CASE js_destroy_env
  <2>1. /\ stack = <<>> /\ stack' = stack /\ early' = early \cup heirs /\ heirs' = {}
        /\ mods' = [m \in DOMAIN mods |->
                      IF mods[m].lib = "held" THEN [mods[m] EXCEPT !.lib = "closed"] ELSE mods[m]]
    BY <1>3 DEF js_destroy_env
  <2>2. /\ DOMAIN mods' = DOMAIN mods
        /\ \A m \in DOMAIN mods :
             /\ mods'[m].id = mods[m].id
             /\ mods'[m].lib = IF mods[m].lib = "held" THEN "closed" ELSE mods[m].lib
    <3>1. \A m \in DOMAIN mods : mods[m] \in Module
      BY <1>0, ModFacts
    <3> QED
      BY <2>1, <3>1 DEF Module
  <2>3. LibsOK'
    BY <1>0, <2>1, <2>2, LibsStay DEF In, LibsOK
  <2>4. LibrariesBalanced'
    <3> SUFFICES ASSUME NEW n \in Name, \A k \in early' : mods'[k].id.name # n
                 PROVE  refs'[n] = Cardinality(OpenLibs(n)')
      BY DEF LibrariesBalanced
    <3>0. \A k \in early \cup heirs : mods[k].id.name # n
      <4>1. \A k \in early \cup heirs : k \in early' /\ k \in DOMAIN mods
        BY <1>0, <2>1 DEF LibsOK
      <4> QED
        BY <2>2, <4>1
    <3>1. refs[n] = Cardinality(OpenLibs(n))
      BY <1>0, <3>0 DEF LibrariesBalanced
    <3>2. Held(n) \cap heirs = {}
      BY <3>0 DEF Held
    <3>3. /\ IsFiniteSet(OpenLibs(n)) /\ Held(n) \subseteq OpenLibs(n)
          /\ OpenLibs(n)' = OpenLibs(n) \ Held(n) /\ OpenLibs(n) \cap Held(n) = Held(n)
      BY <1>0, <2>2, OpenIsFinite DEF OpenLibs, Held
    <3>4. /\ Cardinality(OpenLibs(n)') = Cardinality(OpenLibs(n)) - Cardinality(Held(n))
          /\ Cardinality(Held(n)) <= Cardinality(OpenLibs(n))
          /\ Cardinality(Held(n)) \in Nat /\ Cardinality(OpenLibs(n)) \in Nat
      BY <3>3, FS_Difference, FS_Subset, FS_CardinalityType
    <3>5. refs'[n] = LET closes == Cardinality(Held(n)) + Cardinality(Held(n) \cap heirs)
                     IN IF refs[n] > closes THEN refs[n] - closes ELSE 0
      BY <1>3 DEF js_destroy_env
    <3>6. refs'[n] = IF refs[n] > Cardinality(Held(n)) THEN refs[n] - Cardinality(Held(n)) ELSE 0
      <4>1. Cardinality(Held(n) \cap heirs) = 0
        BY <3>2, FS_EmptySet
      <4>2. Cardinality(Held(n)) + Cardinality(Held(n) \cap heirs) = Cardinality(Held(n))
        BY <3>4, <4>1
      <4> QED
        BY <3>5, <4>2
    <3> QED
      BY <3>1, <3>4, <3>6
  <2> QED
    BY <2>3, <2>4 DEF LInv
<1> QED
  BY <1>1, <1>2, <1>3 DEF Libraries

\* A library stays mapped while its module is in use: it is open just as often as it is in use
\* or was lost, but for libraries whose object was inherited from (duk_bridge.c:95-132).
THEOREM LibrariesStayBalanced == Spec => []LibrariesBalanced
<1>1. Init => LInv
  <2> SUFFICES ASSUME Init PROVE LInv
    OBVIOUS
  <2>1. DOMAIN mods = {} /\ DOMAIN stack = {}
    BY DEF Init
  <2>2. \A n \in Name : OpenLibs(n) = {} /\ refs[n] = 0
    BY <2>1 DEF Init, OpenLibs
  <2> QED
    BY <2>1, <2>2, FS_EmptySet DEF Init, LInv, LibsOK, LibrariesBalanced, In
<1>2. IInv /\ LInv /\ UNCHANGED vars => LInv'
  BY DEF vars, loadVars, libVars, LInv, LibsOK, LibrariesBalanced, LibAt, In, top, me, OpenLibs
<1>3. IInv /\ LInv /\ [Next]_vars => LInv'
  BY <1>2, LibsCached, LibsNew, LibsSearch, LibsCode, LibsLibraries DEF Next
<1>4. LInv => LibrariesBalanced
  BY DEF LInv
<1> QED
  BY <1>1, <1>3, <1>4, Invariance, PTL DEF Spec
===============================================================================
