---------------------------- MODULE ModuleIdProofs ----------------------------
(***************************************************************************)
(* The resolver never leaves its buffer, never overwrites what it has yet  *)
(* to read, and what it returns is canonical: for every id, every base and *)
(* every size of the buffer.  Then, from the laws of folds up: the bytes   *)
(* it returns are those of CommonJS resolution by terms.                   *)
(***************************************************************************)
EXTENDS ModuleId, SequenceTheorems, WellFoundedInduction, TLAPS

\* Every component of the first n bytes starts with a character that is no dot and no slash:
\* no component is empty, and none is "." or "..".
Components(n) ==
    \A i \in 0..(n - 1) :
        /\ buf[i] \in Letter
        /\ i > 0 => buf[i - 1] \in Letter
        /\ i = 0 \/ buf[i - 1] = Slash => buf[i] \in Char

\* The name that is being copied: it starts at qLast, and c comes next.
CopyOK ==
    /\ q < p
    /\ c \in Char \cup {Dot}
    /\ q = qLast => c \in Char

\* The last component starts after a slash, or at the start, and has no slash in it.
LastOK ==
    /\ qLast <= q
    /\ qLast > 0 => buf[qLast - 1] = Slash
    /\ \A i \in qLast..(q - 1) : buf[i] # Slash

Places ==
    /\ Running => p <= Len(input)
    /\ Running \/ pc = "done" => Len(input) < Limit
    /\ pc = "format" => p = 0 /\ q = 0 /\ qLast = 0
    /\ pc \in {"term", "slashes"} /\ q > 0 => buf[q - 1] = Slash
    /\ pc = "copy" => CopyOK /\ LastOK
    /\ pc = "done" => LastOK /\ qLast < q

IInv == TypeOK /\ InPlace /\ Components(q) /\ Places

\* The characters of the input, which never changes.
LEMMA InputType ==
    ASSUME TypeOK
    PROVE  /\ input \in Seq(Letter)
           /\ \A i \in 0..(Len(input) - 1) : inputAt(i) \in Letter
           /\ inputAt(Len(input)) = Nul
<1>1. req \in Seq(Letter)
  BY RequestAssumption DEF TypeOK
<1>2. base # NoBase => base \in Seq(Letter)
  BY BaseAssumption DEF TypeOK
<1>3. <<Slash, Dot, Dot, Slash>> \in Seq(Letter)
  BY DEF Letter
<1>4. input \in Seq(Letter)
  BY <1>1, <1>2, <1>3 DEF input, isRelative
<1> QED
  BY <1>4 DEF inputAt

LEMMA Distinct ==
    /\ Slash \notin Char /\ Dot \notin Char /\ Nul \notin Char
    /\ Slash # Dot /\ Slash # Nul /\ Dot # Nul
    /\ Letter = Char \cup {Slash, Dot} /\ Nul \notin Letter
    /\ Byte = Letter \cup {Nul, Junk}
BY CharAssumption DEF Slash, Dot, Nul, Junk, Letter, Byte

LEMMA InitInv == Init => IInv
<1> SUFFICES ASSUME Init PROVE IInv
  OBVIOUS
<1>1. TypeOK
  BY LimitAssumption, Distinct DEF Init, TypeOK, Byte
<1>2. InPlace /\ Components(q) /\ Places
  BY DEF Init, InPlace, Components, Places, Running
<1> QED
  BY <1>1, <1>2 DEF IInv

LEMMA FormatStep == IInv /\ Format => IInv'
<1> SUFFICES ASSUME IInv, Format PROVE IInv'
  OBVIOUS
<1> USE DEF IInv
<1>1. input' = input /\ \A i : inputAt(i)' = inputAt(i)
  BY DEF Format, input, isRelative, inputAt, call
<1>2. p' = 0 /\ q' = 0 /\ qLast' = 0
  BY DEF Format, Places
<1>3. CASE Len(input) >= Limit
  BY <1>1, <1>2, <1>3 DEF Format, TypeOK, InPlace, Components, Places, Running, call
<1>4. CASE Len(input) < Limit
  <2>1. Len(input) \in Nat
    BY InputType
  <2>2. buf' \in [Index -> Byte]
    <3>1. \A i \in Index : i < Len(input) => input[i + 1] \in Byte
      BY InputType, <2>1, Distinct DEF Index
    <3> QED
      <4>1. buf' = [i \in Index |-> IF i < Len(input) THEN input[i + 1]
                                   ELSE IF i = Len(input) THEN Nul ELSE Junk]
        BY <1>4, <2>1, LimitAssumption DEF Format
      <4> QED
        BY <3>1, <4>1, Distinct
  <2>3. \A i \in 0..Len(input) : buf'[i] = inputAt(i)
    BY <1>4, <2>1, LimitAssumption DEF Format, Index, inputAt
  <2>4. TypeOK'
    BY <2>2, <1>2, <1>4, <2>1, LimitAssumption DEF Format, TypeOK, call
  <2> QED
    BY <1>1, <1>2, <1>4, <2>1, <2>3, <2>4 DEF Format, InPlace, Components, Places, Running
<1>5. Len(input) \in Nat /\ Limit \in Nat
  BY InputType, LimitAssumption
<1> QED
  BY <1>3, <1>4, <1>5

LEMMA TermStep == IInv /\ Term => IInv'
<1> SUFFICES ASSUME IInv, Term PROVE IInv'
  OBVIOUS
<1> USE DEF IInv
<1>1. /\ input' = input /\ (\A i : inputAt(i)' = inputAt(i)) /\ buf' = buf /\ qLast' = q
      /\ req' = req /\ base' = base
  BY DEF Term, input, isRelative, inputAt, call
<1>2. /\ Len(input) \in Nat /\ Len(input) < Limit /\ p <= Len(input) /\ Limit \in Nat
      /\ p \in Nat /\ q \in Nat /\ q <= p /\ (q > 0 => buf[q - 1] = Slash)
      /\ \A i \in p..Len(input) : buf[i] = inputAt(i)
  BY InputType, LimitAssumption DEF Term, Places, Running, TypeOK, InPlace
<1>3. \A i \in p..Len(input) : i < Len(input) <=> buf[i] # Nul
  BY <1>2, InputType, Distinct
<1>4. CASE TermDot
  <2>1. p' = p + 2 /\ p' <= Len(input) /\ q' = q /\ c' = c /\ pc' = "slashes"
    BY <1>2, <1>3, <1>4, Distinct DEF TermDot
  <2>2. TypeOK'
    BY <1>1, <1>2, <2>1 DEF TypeOK
  <2> QED
    BY <1>1, <1>2, <2>1, <2>2 DEF InPlace, Components, Places, Running
<1>5. CASE TermDotDot
  <2>1. p' = p + 3 /\ p' <= Len(input) /\ q \in Nat \ {0} /\ c' = c /\ pc' = "slashes"
    <3>1. p + 1 <= Len(input)
      BY <1>2, <1>3, <1>5, Distinct DEF TermDotDot, AtDotDot
    <3>2. p + 2 <= Len(input)
      BY <1>2, <1>3, <1>5, <3>1, Distinct DEF TermDotDot, AtDotDot
    <3>3. p + 3 <= Len(input)
      BY <1>2, <1>3, <1>5, <3>2, Distinct DEF TermDotDot, AtDotDot
    <3> QED
      BY <1>2, <1>5, <3>3 DEF TermDotDot
  <2>2. PICK i \in 0..(q - 1) : q' = i /\ (i > 0 => buf[i - 1] = Slash)
    BY <1>5 DEF TermDotDot, IsStartOfLast
  <2>3. TypeOK'
    BY <1>1, <1>2, <2>1, <2>2 DEF TypeOK
  <2>4. InPlace'
    BY <1>1, <1>2, <2>1, <2>2 DEF InPlace, Running
  <2>5. Components(q)'
    BY <1>1, <1>2, <2>1, <2>2 DEF Components
  <2>6. Places'
    BY <1>1, <1>2, <2>1, <2>2 DEF Places, Running
  <2> QED
    BY <2>3, <2>4, <2>5, <2>6
<1>6. CASE TermName
  <2>1. p' = p + 1 /\ p' <= Len(input) /\ q' = q /\ c' = buf[p] /\ buf[p] \in Char /\ pc' = "copy"
    BY <1>2, <1>3, <1>6, Distinct DEF TermName
  <2>2. TypeOK'
    BY <1>1, <1>2, <2>1, Distinct DEF TypeOK
  <2>3. InPlace'
    BY <1>1, <1>2, <2>1 DEF InPlace, Running
  <2>4. Places'
    BY <1>1, <1>2, <2>1, <2>2 DEF Places, Running, CopyOK, LastOK
  <2> QED
    BY <1>1, <2>1, <2>2, <2>3, <2>4 DEF Components
<1>7. CASE TermError
  BY <1>1, <1>2, <1>7 DEF TermError, TypeOK, InPlace, Components, Places, Running
<1> QED
  BY <1>4, <1>5, <1>6, <1>7 DEF Term

LEMMA CopyStep == IInv /\ CopyName => IInv'
<1> SUFFICES ASSUME IInv, CopyName PROVE IInv'
  OBVIOUS
<1> USE DEF IInv
<1>1. input' = input /\ (\A i : inputAt(i)' = inputAt(i)) /\ req' = req /\ base' = base
  BY DEF CopyName, input, isRelative, inputAt, call
<1>2. /\ Len(input) \in Nat /\ Len(input) < Limit /\ p <= Len(input) /\ Limit \in Nat
      /\ p \in Nat /\ q \in Nat /\ qLast \in Nat /\ q < p /\ p' = p + 1 /\ qLast' = qLast
      /\ \A i \in p..Len(input) : buf[i] = inputAt(i)
  BY InputType, LimitAssumption DEF CopyName, Places, Running, TypeOK, InPlace, CopyOK
<1>3. CopyOK /\ LastOK /\ pc = "copy"
  BY DEF CopyName, Places
<1>4. buf \in [Index -> Byte] /\ q \in Index /\ buf[p] = inputAt(p) /\ c \in Letter /\ c # Slash
  BY <1>2, <1>3, Distinct DEF TypeOK, Index, CopyOK
<1>5. buf[p] \in Letter \cup {Nul} /\ (buf[p] = Nul <=> p = Len(input))
  BY <1>2, <1>4, InputType, Distinct
<1>6. CASE buf[p] = Slash
  <2>1. /\ q' = q + 2 /\ pc' = "slashes" /\ c' = Slash /\ p' <= Len(input)
        /\ buf' = [buf EXCEPT ![q] = c, ![q + 1] = Slash]
    BY <1>2, <1>5, <1>6, Distinct DEF CopyName
  <2>2. /\ buf'[q] = c /\ buf'[q + 1] = Slash /\ buf' \in [Index -> Byte]
        /\ \A i \in Index : i # q /\ i # q + 1 => buf'[i] = buf[i]
    BY <1>2, <1>4, <2>1, Distinct DEF Index
  <2>3. TypeOK'
    BY <1>1, <1>2, <2>1, <2>2, Distinct DEF TypeOK
  <2>4. InPlace'
    BY <1>1, <1>2, <2>1, <2>2 DEF InPlace, Running, Index
  <2>5. Components(q)'
    <3>0. q' - 1 = q + 1
      BY <1>2, <2>1
    <3> SUFFICES ASSUME NEW i \in 0..(q + 1)
                 PROVE  /\ buf'[i] \in Letter
                        /\ i > 0 => buf'[i - 1] \in Letter
                        /\ i = 0 \/ buf'[i - 1] = Slash => buf'[i] \in Char
      BY <3>0 DEF Components
    <3>1. CASE i < q
      BY <1>2, <2>2, <3>1 DEF Components, Index
    <3>2. CASE i = q
      <4>1. q > 0 => buf[q - 1] \in Letter /\ buf'[q - 1] = buf[q - 1]
        BY <1>2, <2>2 DEF Components, Index
      <4>2. q = 0 \/ buf'[q - 1] = Slash => c \in Char
        BY <1>2, <1>3, <4>1 DEF CopyOK, LastOK
      <4> QED
        BY <1>2, <1>4, <2>2, <3>2, <4>1, <4>2
    <3>3. CASE i = q + 1
      BY <1>2, <1>4, <2>2, <3>3, Distinct
    <3> QED
      BY <1>2, <3>1, <3>2, <3>3
  <2>6. Places'
    BY <1>1, <1>2, <2>1, <2>2 DEF Places, Running
  <2> QED
    BY <2>3, <2>4, <2>5, <2>6
<1>7. CASE buf[p] # Slash
  <2>1. /\ q' = q + 1 /\ c' = buf[p] /\ buf' = [buf EXCEPT ![q] = c]
        /\ pc' = IF buf[p] = Nul THEN "done" ELSE "copy"
    BY <1>7 DEF CopyName
  <2>2. /\ buf'[q] = c /\ buf' \in [Index -> Byte]
        /\ \A i \in Index : i # q => buf'[i] = buf[i]
    BY <1>2, <1>4, <2>1, Distinct DEF Index
  <2>3. TypeOK'
    BY <1>1, <1>2, <1>5, <2>1, <2>2, Distinct DEF TypeOK
  <2>4. InPlace'
    BY <1>1, <1>2, <1>5, <2>1, <2>2 DEF InPlace, Running, Index
  <2>5. Components(q)'
    <3> SUFFICES ASSUME NEW i \in 0..q
                 PROVE  /\ buf'[i] \in Letter
                        /\ i > 0 => buf'[i - 1] \in Letter
                        /\ i = 0 \/ buf'[i - 1] = Slash => buf'[i] \in Char
      BY <1>2, <2>1 DEF Components
    <3>1. CASE i < q
      BY <1>2, <2>2, <3>1 DEF Components, Index
    <3>2. CASE i = q
      <4>1. q > 0 => buf[q - 1] \in Letter /\ buf'[q - 1] = buf[q - 1]
        BY <1>2, <2>2 DEF Components, Index
      <4>2. q = 0 \/ buf'[q - 1] = Slash => c \in Char
        BY <1>2, <1>3, <4>1 DEF CopyOK, LastOK
      <4> QED
        BY <1>2, <1>4, <2>2, <3>2, <4>1, <4>2
    <3> QED
      BY <1>2, <3>1, <3>2
  <2>6. LastOK' /\ qLast' < q'
    BY <1>2, <1>3, <1>4, <2>1, <2>2 DEF LastOK, Index
  <2>7. pc' = "copy" => CopyOK'
    BY <1>2, <1>3, <1>5, <1>7, <2>1, Distinct DEF CopyOK, LastOK
  <2>8. Places'
    BY <1>1, <1>2, <1>5, <2>1, <2>6, <2>7 DEF Places, Running
  <2> QED
    BY <2>3, <2>4, <2>5, <2>8
<1> QED
  BY <1>6, <1>7

LEMMA EatStep == IInv /\ EatSlash => IInv'
<1> SUFFICES ASSUME IInv, EatSlash PROVE IInv'
  OBVIOUS
<1> USE DEF IInv
<1>1. /\ input' = input /\ (\A i : inputAt(i)' = inputAt(i)) /\ buf' = buf /\ qLast' = qLast
      /\ req' = req /\ base' = base /\ q' = q /\ c' = c
  BY DEF EatSlash, input, isRelative, inputAt, call
<1>2. /\ Len(input) \in Nat /\ p <= Len(input) /\ Limit \in Nat /\ Len(input) < Limit
      /\ p \in Nat /\ q \in Nat /\ q <= p /\ (q > 0 => buf[q - 1] = Slash)
      /\ \A i \in p..Len(input) : buf[i] = inputAt(i)
  BY InputType, LimitAssumption DEF EatSlash, Places, Running, TypeOK, InPlace
<1>3. buf[p] = Slash => p < Len(input)
  BY <1>2, InputType, Distinct
<1>4. p' \in {p, p + 1} /\ p' <= Len(input) /\ pc' \in {"slashes", "term"}
  BY <1>2, <1>3 DEF EatSlash
<1> QED
  BY <1>1, <1>2, <1>4 DEF TypeOK, InPlace, Components, Places, Running

LEMMA Invariance == Spec => []IInv
<1>1. IInv /\ UNCHANGED vars => IInv'
  BY DEF vars, IInv, TypeOK, InPlace, Components, Places, Running, CopyOK, LastOK, input,
         isRelative, inputAt
<1>2. IInv /\ [Next]_vars => IInv'
  BY <1>1, FormatStep, TermStep, CopyStep, EatStep DEF Next
<1> QED
  BY InitInv, <1>2, PTL DEF Spec

\* The resolver's pointers stay inside the buffer (duk_module_duktape.c:32-36).
THEOREM PointersInBuffer == Spec => []TypeOK
<1>1. IInv => TypeOK
  BY DEF IInv
<1> QED
  BY <1>1, Invariance, PTL

\* Writing the output over the input destroys nothing that has yet to be read, and nothing is
\* read beyond the input's end, though the code checks no bound
\* (duk_module_duktape.c:48-52, 94).
THEOREM OutputNeverOvertakesInput == Spec => []InPlace
<1>1. IInv => InPlace
  BY DEF IInv
<1> QED
  BY <1>1, Invariance, PTL

\* What modSearch is told of its argument is so: a resolved id has no empty, "." or ".." term
\* (duk_bridge.c:400-401), and comes with its last component (duk_module_duktape.c:176-181).
THEOREM ResolvedIdsAreCanonical == Spec => []Canonical
<1>1. IInv => Canonical
  <2> SUFFICES ASSUME IInv, pc = "done" PROVE Canonical
    BY DEF Canonical
  <2>1. LastOK /\ qLast < q /\ q \in Nat /\ qLast \in Nat
    BY DEF IInv, Places, TypeOK
  <2>2. \A i \in 0..(q - 1) : buf[i] = Slash => i < qLast
    BY <2>1 DEF LastOK
  <2>3. \A i \in 0..(q - 1) : buf[i] = Slash => i + 1 < q /\ buf[i + 1] \in Char
    <3> TAKE i \in 0..(q - 1)
    <3> HAVE buf[i] = Slash
    <3>1. i + 1 \in 0..(q - 1) /\ i + 1 > 0 /\ (i + 1) - 1 = i
      BY <2>1, <2>2
    <3> QED
      BY <3>1, <2>1 DEF IInv, Components
  <2>4. buf[0] \in Char
    BY <2>1 DEF IInv, Components
  <2>5. \A i \in 0..(q - 1) : buf[i] \in Letter
    BY DEF IInv, Components
  <2> QED
    BY <2>1, <2>3, <2>4, <2>5 DEF Canonical, LastOK
<1> QED
  BY <1>1, Invariance, PTL

---------------------------------------------------------------------------
(* Folds, one element at a time.  FoldLeft is defined by a function on sets of indices, and     *)
(* the induction that its values need is on sets of numbers.                                   *)

\* Induction over a set of numbers: the library states it of an operator.
LEMMA NatInd ==
    ASSUME NEW S, 0 \in S, \A n \in Nat : n \in S => n + 1 \in S
    PROVE  \A n \in Nat : n \in S
<1> DEFINE T == {n \in Nat : n \notin S}
           R == OpToRel(<, Nat)
<1> SUFFICES ASSUME T # {} PROVE FALSE
  OBVIOUS
<1>1. IsWellFoundedOn(R, Nat)
  BY NatLessThanWellFounded
<1>2. T \subseteq Nat
  OBVIOUS
<1>3. \A x, y \in Nat : y < x => <<y, x>> \in R
  BY DEF OpToRel
<1> HIDE DEF R
<1>4. PICK x \in T : \A y \in T : ~(<<y, x>> \in R)
  BY <1>1, <1>2, WFMin
<1>5. x \in Nat /\ x # 0 /\ x - 1 \in Nat /\ (x - 1) + 1 = x /\ x - 1 < x
  BY <1>4
<1>6. x - 1 \notin T
  BY <1>3, <1>4, <1>5
<1> QED
  BY <1>4, <1>5, <1>6

\* Every non-empty set of indices has a largest one.
LEMMA MaxOfUpTo ==
    ASSUME NEW n \in Nat, NEW u \in SUBSET (1..n), u # {}
    PROVE  Max(u) \in u /\ \A y \in u : y <= Max(u)
<1> DEFINE S == {k \in Nat : \A v \in SUBSET (1..k) : v # {} => \E x \in v : \A y \in v : x >= y}
<1>1. 0 \in S
  <2>1. SUBSET (1..0) = {{}}
    OBVIOUS
  <2> QED
    BY <2>1
<1>2. ASSUME NEW k \in Nat, k \in S PROVE k + 1 \in S
  <2> SUFFICES ASSUME NEW v \in SUBSET (1..(k + 1)), v # {}
               PROVE  \E x \in v : \A y \in v : x >= y
    OBVIOUS
  <2>1. CASE k + 1 \in v
    BY <2>1
  <2>2. CASE k + 1 \notin v
    <3>1. v \in SUBSET (1..k)
      BY <2>2
    <3> QED
      BY <1>2, <3>1
  <2> QED
    BY <2>1, <2>2
<1>3. n \in S
  <2> HIDE DEF S
  <2> QED
    BY <1>1, <1>2, NatInd
<1>4. PICK x \in u : \A y \in u : x >= y
  BY <1>3
<1> QED
  BY <1>4 DEF Max

\* The function that FoldLeft is defined by, for a step g given as a function.
IsIter(g, b, s, h) ==
    \A u \in SUBSET (1..Len(s)) :
        h[u] = IF u = {} THEN b ELSE g[h[u \ {Max(u)}]][s[Max(u)]]

LEMMA IterExists ==
    ASSUME NEW X, NEW D, NEW g \in [X -> [D -> X]], NEW b \in X, NEW s \in Seq(D)
    PROVE  \E h \in [SUBSET (1..Len(s)) -> X] : IsIter(g, b, s, h)
<1> DEFINE Good(k, h) ==
              \A u \in SUBSET (1..k) :
                  h[u] = IF u = {} THEN b ELSE g[h[u \ {Max(u)}]][s[Max(u)]]
           Has(k) == k <= Len(s) => \E h \in [SUBSET (1..k) -> X] : Good(k, h)
           S == {k \in Nat : Has(k)}
<1>1. 0 \in S
  <2>1. SUBSET (1..0) = {{}}
    OBVIOUS
  <2>2. [u \in {{}} |-> b] \in [SUBSET (1..0) -> X] /\ Good(0, [u \in {{}} |-> b])
    BY <2>1
  <2> HIDE DEF Good
  <2> QED
    BY <2>2
<1>2. ASSUME NEW k \in Nat, Has(k), k + 1 <= Len(s)
      PROVE  \E h \in [SUBSET (1..(k + 1)) -> X] : Good(k + 1, h)
  <2> HIDE DEF Good
  <2>0. \E h \in [SUBSET (1..k) -> X] : Good(k, h)
    <3>1. k <= Len(s)
      BY <1>2
    <3> QED
      BY <1>2, <3>1, Zenon
  <2>1. PICK h \in [SUBSET (1..k) -> X] : Good(k, h)
    BY <2>0, Zenon
  <2>2. s[k + 1] \in D
    BY <1>2
  <2> DEFINE h2 == [u \in SUBSET (1..(k + 1)) |->
                       IF k + 1 \in u THEN g[h[u \ {k + 1}]][s[k + 1]] ELSE h[u]]
  <2>3. ASSUME NEW u \in SUBSET (1..(k + 1)), k + 1 \in u
        PROVE  u \ {k + 1} \in SUBSET (1..k) /\ h2[u] = g[h[u \ {k + 1}]][s[k + 1]] /\ Max(u) = k + 1
    <3> HIDE DEF h2
    <3>1. k + 1 \in Nat
      OBVIOUS
    <3>2. Max(u) \in u /\ \A y \in u : y <= Max(u)
      BY <2>3, <3>1, MaxOfUpTo
    <3>3. Max(u) \in 1..(k + 1) /\ k + 1 <= Max(u)
      BY <2>3, <3>2
    <3>4. h2[u] = g[h[u \ {k + 1}]][s[k + 1]]
      BY <2>3 DEF h2
    <3> QED
      <4>1. Max(u) = k + 1
        <5>1. \A m \in 1..(k + 1) : k + 1 <= m => m = k + 1
          OBVIOUS
        <5> QED
          BY <3>3, <5>1, Zenon
      <4>2. u \ {k + 1} \subseteq 1..k
        BY <2>3
      <4> QED
        BY <3>4, <4>1, <4>2
  <2>4. ASSUME NEW u \in SUBSET (1..(k + 1)), k + 1 \notin u
        PROVE  u \in SUBSET (1..k) /\ h2[u] = h[u] 
    BY <2>4
  <2>5. h2 \in [SUBSET (1..(k + 1)) -> X]
    <3> SUFFICES ASSUME NEW u \in SUBSET (1..(k + 1)) PROVE h2[u] \in X
      BY Zenon
    <3> HIDE DEF h2
    <3>1. CASE k + 1 \in u
      <4>1. h[u \ {k + 1}] \in X
        BY <2>1, <2>3, <3>1
      <4>2. g[h[u \ {k + 1}]] \in [D -> X]
        BY <4>1
      <4>3. g[h[u \ {k + 1}]][s[k + 1]] \in X
        BY <2>2, <4>2
      <4> QED
        BY <2>3, <3>1, <4>3
    <3>2. CASE k + 1 \notin u
      BY <2>1, <2>4, <3>2
    <3> QED
      BY <3>1, <3>2
  <2>6. Good(k + 1, h2)
    <3> USE DEF Good
    <3> SUFFICES ASSUME NEW u \in SUBSET (1..(k + 1))
                 PROVE  h2[u] = IF u = {} THEN b ELSE g[h2[u \ {Max(u)}]][s[Max(u)]]
      OBVIOUS
    <3> HIDE DEF h2
    <3>1. CASE k + 1 \in u
      <4>1. h2[u \ {k + 1}] = h[u \ {k + 1}]
        BY <2>4, <2>3, <3>1
      <4> QED
        BY <2>3, <3>1, <4>1
    <3>2. CASE k + 1 \notin u
      <4>1. u \in SUBSET (1..k) /\ h2[u] = h[u]
        BY <2>4, <3>2
      <4>2. h[u] = IF u = {} THEN b ELSE g[h[u \ {Max(u)}]][s[Max(u)]]
        BY <2>1, <4>1
      <4>3. u # {} => u \ {Max(u)} \in SUBSET (1..(k + 1)) /\ k + 1 \notin u \ {Max(u)}
        BY <3>2
      <4>4. u # {} => h2[u \ {Max(u)}] = h[u \ {Max(u)}]
        BY <2>4, <4>3
      <4> QED
        BY <4>1, <4>2, <4>4
    <3> QED
      BY <3>1, <3>2
  <2> HIDE DEF h2
  <2> QED
    BY <2>5, <2>6
<1>3. \A k \in Nat : k \in S => k + 1 \in S
  <2> SUFFICES ASSUME NEW k \in Nat, Has(k) PROVE Has(k + 1)
    <3> HIDE DEF Has
    <3> QED
      OBVIOUS
  <2> HIDE DEF Good
  <2> QED
    BY <1>2, Zenon
<1>4. \A k \in Nat : k \in S
  <2> HIDE DEF S
  <2> QED
    BY <1>1, <1>3, NatInd
<1>5. Has(Len(s))
  <2> HIDE DEF Has
  <2> QED
    BY <1>4
<1>6. PICK h \in [SUBSET (1..Len(s)) -> X] : Good(Len(s), h)
  <2>1. Len(s) <= Len(s)
    OBVIOUS
  <2> HIDE DEF Good
  <2> QED
    BY <1>5, <2>1, Zenon
<1> QED
  BY <1>6 DEF IsIter

LEMMA MaxUpTo ==
    ASSUME NEW n \in Nat
    PROVE  Max(1..(n + 1)) = n + 1
<1>1. Max(1..(n + 1)) \in 1..(n + 1) /\ n + 1 <= Max(1..(n + 1))
  <2>1. n + 1 \in Nat /\ 1..(n + 1) \in SUBSET (1..(n + 1)) /\ n + 1 \in 1..(n + 1)
    OBVIOUS
  <2>2. 1..(n + 1) # {}
    BY <2>1
  <2> QED
    BY <2>1, <2>2, MaxOfUpTo, Zenon
<1>2. \A m \in 1..(n + 1) : n + 1 <= m => m = n + 1
  OBVIOUS
<1> QED
  BY <1>1, <1>2, Zenon

LEMMA UpToLess ==
    ASSUME NEW n \in Nat
    PROVE  (1..(n + 1)) \ {n + 1} = 1..n
<1>1. \A i : i \in (1..(n + 1)) \ {n + 1} <=> i \in 1..n
  OBVIOUS
<1> QED
  BY <1>1, Zenon

\* v is what folding g over s from b comes to, one element after the other.
Folds(g, b, s, v) ==
    \E P : /\ P[0] = b
           /\ \A k \in 0..(Len(s) - 1) : P[k + 1] = g[P[k]][s[k + 1]]
           /\ v = P[Len(s)]

LEMMA FoldsEmpty ==
    ASSUME NEW g, NEW b, NEW v, Folds(g, b, <<>>, v)
    PROVE  v = b
BY DEF Folds

\* One element more is one step more.
LEMMA FoldsAppend ==
    ASSUME NEW D, NEW g, NEW b, NEW s \in Seq(D), NEW x \in D, NEW v, NEW w,
           Folds(g, b, s, v), Folds(g, b, Append(s, x), w)
    PROVE  w = g[v][x]
<1>1. PICK P : /\ P[0] = b
               /\ \A k \in 0..(Len(s) - 1) : P[k + 1] = g[P[k]][s[k + 1]]
               /\ v = P[Len(s)]
  BY DEF Folds
<1>2. PICK Q : /\ Q[0] = b
               /\ \A k \in 0..(Len(Append(s, x)) - 1) : Q[k + 1] = g[Q[k]][Append(s, x)[k + 1]]
               /\ w = Q[Len(Append(s, x))]
  BY DEF Folds
<1> DEFINE S == {k \in Nat : k <= Len(s) => P[k] = Q[k]}
<1>3. 0 \in S
  BY <1>1, <1>2
<1>4. ASSUME NEW k \in Nat, k \in S PROVE k + 1 \in S
  <2> SUFFICES ASSUME k + 1 <= Len(s) PROVE P[k + 1] = Q[k + 1]
    OBVIOUS
  <2>1. P[k + 1] = g[P[k]][s[k + 1]]
    BY <1>1
  <2>2. Q[k + 1] = g[Q[k]][Append(s, x)[k + 1]]
    BY <1>2
  <2>3. Append(s, x)[k + 1] = s[k + 1] /\ P[k] = Q[k]
    BY <1>4
  <2> QED
    BY <2>1, <2>2, <2>3
<1>5. \A k \in Nat : k \in S
  <2> HIDE DEF S
  <2> QED
    BY <1>3, <1>4, NatInd
<1>6. P[Len(s)] = Q[Len(s)]
  BY <1>5
<1>7. Len(Append(s, x)) = Len(s) + 1 /\ Append(s, x)[Len(s) + 1] = x
  OBVIOUS
<1>8. Q[Len(s) + 1] = g[Q[Len(s)]][x]
  BY <1>2, <1>7
<1> QED
  BY <1>1, <1>2, <1>6, <1>7, <1>8

\* A function on sets of indices like the one FoldLeft is defined by.
LEMMA IterFolds ==
    ASSUME NEW X, NEW D, NEW g \in [X -> [D -> X]], NEW b \in X, NEW s \in Seq(D), NEW H,
           H[{}] = b,
           \A u \in SUBSET (1..Len(s)) :
              u # {} /\ H[u \ {Max(u)}] \in X => H[u] = g[H[u \ {Max(u)}]][s[Max(u)]]
    PROVE  H[1..Len(s)] \in X /\ Folds(g, b, s, H[1..Len(s)])
<1>0. \A k \in 0..(Len(s) - 1) : H[1..k] \in X => H[1..(k + 1)] = g[H[1..k]][s[k + 1]]
  <2> SUFFICES ASSUME NEW k \in 0..(Len(s) - 1), H[1..k] \in X
               PROVE  H[1..(k + 1)] = g[H[1..k]][s[k + 1]]
    OBVIOUS
  <2>0. k \in Nat /\ k + 1 \in 1..(k + 1)
    OBVIOUS
  <2>1. (1..(k + 1)) \ {k + 1} = 1..k
    BY <2>0, UpToLess
  <2>2. 1..(k + 1) \subseteq 1..Len(s)
    OBVIOUS
  <2>3. Max(1..(k + 1)) = k + 1
    BY MaxUpTo
  <2> QED
    BY <2>0, <2>1, <2>2, <2>3
<1> DEFINE S == {k \in Nat : k <= Len(s) => H[1..k] \in X}
<1>1. 0 \in S
  <2>1. 1..0 = {}
    OBVIOUS
  <2> QED
    BY <2>1
<1>2. ASSUME NEW k \in Nat, k \in S PROVE k + 1 \in S
  <2> SUFFICES ASSUME k + 1 <= Len(s) PROVE H[1..(k + 1)] \in X
    OBVIOUS
  <2>1. H[1..k] \in X /\ k \in 0..(Len(s) - 1) /\ s[k + 1] \in D
    BY <1>2
  <2> QED
    BY <1>0, <2>1
<1>3. \A k \in Nat : k \in S
  <2> HIDE DEF S
  <2> QED
    BY <1>1, <1>2, NatInd
<1>4. \A k \in 0..Len(s) : H[1..k] \in X
  BY <1>3
<1> DEFINE P == [k \in 0..Len(s) |-> H[1..k]]
<1>5. P[0] = b
  <2>1. 1..0 = {} /\ 0 \in 0..Len(s)
    OBVIOUS
  <2> QED
    BY <2>1
<1>6. \A k \in 0..(Len(s) - 1) : P[k + 1] = g[P[k]][s[k + 1]]
  <2> SUFFICES ASSUME NEW k \in 0..(Len(s) - 1) PROVE P[k + 1] = g[P[k]][s[k + 1]]
    OBVIOUS
  <2>1. k \in 0..Len(s) /\ k + 1 \in 0..Len(s)
    OBVIOUS
  <2>2. P[k] = H[1..k] /\ P[k + 1] = H[1..(k + 1)]
    BY <2>1
  <2> QED
    BY <1>0, <1>4, <2>1, <2>2
<1>7. P[Len(s)] = H[1..Len(s)] /\ H[1..Len(s)] \in X
  BY <1>4
<1> HIDE DEF P
<1> QED
  BY <1>5, <1>6, <1>7 DEF Folds

\* The largest of some indices of s.
LEMMA MaxOfPart ==
    ASSUME NEW D, NEW s \in Seq(D), NEW u \in SUBSET (1..Len(s)), u # {}
    PROVE  Max(u) \in 1..Len(s) /\ s[Max(u)] \in D /\ u \ {Max(u)} \in SUBSET (1..Len(s))
<1>1. Len(s) \in Nat /\ \A i \in 1..Len(s) : s[i] \in D
  OBVIOUS
<1>2. Max(u) \in u
  BY <1>1, MaxOfUpTo, Zenon
<1> QED
  BY <1>1, <1>2

---------------------------------------------------------------------------
(* Terms, Walk and Join as such folds. *)

TermString == Seq(Letter)
Path == Seq(TermString)
NonEmptyPath == Path \ {<<>>}

LEMMA WalkType ==
    ASSUME NEW path \in Path, NEW t \in TermString
    PROVE  Walk(path, t) \in Path
<1>1. Broken \in Path
  BY DEF Broken, Path, TermString, Letter
<1>2. path # <<>> => Front(path) \in Path
  BY DEF Front, Path
<1>3. Append(path, t) \in Path
  BY DEF Path
<1> QED
  BY <1>1, <1>2, <1>3 DEF Walk

LEMMA AddCharType ==
    ASSUME NEW terms \in NonEmptyPath, NEW ch \in Letter
    PROVE  AddChar(terms, ch) \in NonEmptyPath
<1>1. CASE ch = Slash
  <2>1. <<>> \in TermString
    BY DEF TermString
  <2>2. Append(terms, <<>>) \in Path /\ Append(terms, <<>>) # <<>>
    BY <2>1 DEF NonEmptyPath, Path
  <2> QED
    BY <1>1, <2>2 DEF AddChar, NonEmptyPath
<1>2. CASE ch # Slash
  <2>1. Len(terms) \in 1..Len(terms) /\ terms \in Seq(TermString)
    BY DEF NonEmptyPath, Path
  <2>2. Append(terms[Len(terms)], ch) \in TermString
    BY <2>1 DEF TermString
  <2>3. [terms EXCEPT ![Len(terms)] = Append(@, ch)] \in Seq(TermString)
    BY <2>1, <2>2
  <2>4. Len([terms EXCEPT ![Len(terms)] = Append(@, ch)]) = Len(terms)
    BY <2>1
  <2> QED
    BY <1>2, <2>1, <2>3, <2>4 DEF AddChar, NonEmptyPath, Path
<1> QED
  BY <1>1, <1>2

LEMMA AddTermType ==
    ASSUME NEW s \in TermString, NEW t \in TermString
    PROVE  AddTerm(s, t) \in TermString
<1>1. <<Slash>> \in TermString
  BY DEF TermString, Letter
<1> QED
  BY <1>1 DEF AddTerm, TermString

WalkStep == [x \in Path |-> [t \in TermString |-> Walk(x, t)]]
CharStep == [x \in NonEmptyPath |-> [ch \in Letter |-> AddChar(x, ch)]]
JoinStep == [x \in TermString |-> [t \in TermString |-> AddTerm(x, t)]]

\* Each of the three steps, folded by FoldLeft, folds its function.
LEMMA WalkFolds ==
    ASSUME NEW b \in Path, NEW s \in Seq(TermString)
    PROVE  FoldLeft(Walk, b, s) \in Path /\ Folds(WalkStep, b, s, FoldLeft(Walk, b, s))
<1> DEFINE Is(h) == h = [u \in SUBSET (1..Len(s)) |->
                            IF u = {} THEN b ELSE Walk(h[u \ {Max(u)}], s[Max(u)])]
           H == CHOOSE h : Is(h)
<1>1. WalkStep \in [Path -> [TermString -> Path]]
  BY WalkType DEF WalkStep
<1>2. PICK h \in [SUBSET (1..Len(s)) -> Path] : IsIter(WalkStep, b, s, h)
  BY <1>1, IterExists
<1>3. Is(h)
  BY <1>2, MaxOfPart DEF WalkStep, IsIter
<1>4. Is(H)
  <2> HIDE DEF Is
  <2> QED
    BY <1>3
<1>5. FoldLeft(Walk, b, s) = H[1..Len(s)]
  <2>1. DOMAIN s = 1..Len(s)
    OBVIOUS
  <2>2. FoldLeft(Walk, b, s) = (CHOOSE f : f = [u \in SUBSET (DOMAIN s) |->
                  IF u = {} THEN b ELSE Walk(f[u \ {Max(u)}], s[Max(u)])])[DOMAIN s]
    BY DEF FoldLeft, MapThenFoldSet
  <2> QED
    BY <2>1, <2>2, Zenon
<1> HIDE DEF H
<1>6. \A u \in SUBSET (1..Len(s)) :
          H[u] = IF u = {} THEN b ELSE Walk(H[u \ {Max(u)}], s[Max(u)])
  BY <1>4, Zenon
<1> HIDE DEF Is
<1>7. H[{}] = b
  BY <1>6
<1>8. \A u \in SUBSET (1..Len(s)) :
          u # {} /\ H[u \ {Max(u)}] \in Path => H[u] = WalkStep[H[u \ {Max(u)}]][s[Max(u)]]
  BY <1>6, MaxOfPart DEF WalkStep
<1>9. H[1..Len(s)] \in Path /\ Folds(WalkStep, b, s, H[1..Len(s)])
  BY <1>1, <1>7, <1>8, IterFolds
<1> QED
  BY <1>5, <1>9

LEMMA TermsFolds ==
    ASSUME NEW b \in NonEmptyPath, NEW s \in Seq(Letter)
    PROVE  FoldLeft(AddChar, b, s) \in NonEmptyPath /\ Folds(CharStep, b, s, FoldLeft(AddChar, b, s))
<1> DEFINE Is(h) == h = [u \in SUBSET (1..Len(s)) |->
                            IF u = {} THEN b ELSE AddChar(h[u \ {Max(u)}], s[Max(u)])]
           H == CHOOSE h : Is(h)
<1>1. CharStep \in [NonEmptyPath -> [Letter -> NonEmptyPath]]
  BY AddCharType DEF CharStep
<1>2. PICK h \in [SUBSET (1..Len(s)) -> NonEmptyPath] : IsIter(CharStep, b, s, h)
  BY <1>1, IterExists
<1>3. Is(h)
  BY <1>2, MaxOfPart DEF CharStep, IsIter
<1>4. Is(H)
  <2> HIDE DEF Is
  <2> QED
    BY <1>3
<1>5. FoldLeft(AddChar, b, s) = H[1..Len(s)]
  <2>1. DOMAIN s = 1..Len(s)
    OBVIOUS
  <2>2. FoldLeft(AddChar, b, s) = (CHOOSE f : f = [u \in SUBSET (DOMAIN s) |->
                  IF u = {} THEN b ELSE AddChar(f[u \ {Max(u)}], s[Max(u)])])[DOMAIN s]
    BY DEF FoldLeft, MapThenFoldSet
  <2> QED
    BY <2>1, <2>2, Zenon
<1> HIDE DEF H
<1>6. \A u \in SUBSET (1..Len(s)) :
          H[u] = IF u = {} THEN b ELSE AddChar(H[u \ {Max(u)}], s[Max(u)])
  BY <1>4, Zenon
<1> HIDE DEF Is
<1>7. H[{}] = b
  BY <1>6
<1>8. \A u \in SUBSET (1..Len(s)) :
          u # {} /\ H[u \ {Max(u)}] \in NonEmptyPath => H[u] = CharStep[H[u \ {Max(u)}]][s[Max(u)]]
  BY <1>6, MaxOfPart DEF CharStep
<1>9. H[1..Len(s)] \in NonEmptyPath /\ Folds(CharStep, b, s, H[1..Len(s)])
  BY <1>1, <1>7, <1>8, IterFolds
<1> QED
  BY <1>5, <1>9

LEMMA JoinFolds ==
    ASSUME NEW b \in TermString, NEW s \in Seq(TermString)
    PROVE  FoldLeft(AddTerm, b, s) \in TermString /\ Folds(JoinStep, b, s, FoldLeft(AddTerm, b, s))
<1> DEFINE Is(h) == h = [u \in SUBSET (1..Len(s)) |->
                            IF u = {} THEN b ELSE AddTerm(h[u \ {Max(u)}], s[Max(u)])]
           H == CHOOSE h : Is(h)
<1>1. JoinStep \in [TermString -> [TermString -> TermString]]
  BY AddTermType DEF JoinStep
<1>2. PICK h \in [SUBSET (1..Len(s)) -> TermString] : IsIter(JoinStep, b, s, h)
  BY <1>1, IterExists
<1>3. Is(h)
  BY <1>2, MaxOfPart DEF JoinStep, IsIter
<1>4. Is(H)
  <2> HIDE DEF Is
  <2> QED
    BY <1>3
<1>5. FoldLeft(AddTerm, b, s) = H[1..Len(s)]
  <2>1. DOMAIN s = 1..Len(s)
    OBVIOUS
  <2>2. FoldLeft(AddTerm, b, s) = (CHOOSE f : f = [u \in SUBSET (DOMAIN s) |->
                  IF u = {} THEN b ELSE AddTerm(f[u \ {Max(u)}], s[Max(u)])])[DOMAIN s]
    BY DEF FoldLeft, MapThenFoldSet
  <2> QED
    BY <2>1, <2>2, Zenon
<1> HIDE DEF H
<1>6. \A u \in SUBSET (1..Len(s)) :
          H[u] = IF u = {} THEN b ELSE AddTerm(H[u \ {Max(u)}], s[Max(u)])
  BY <1>4, Zenon
<1> HIDE DEF Is
<1>7. H[{}] = b
  BY <1>6
<1>8. \A u \in SUBSET (1..Len(s)) :
          u # {} /\ H[u \ {Max(u)}] \in TermString => H[u] = JoinStep[H[u \ {Max(u)}]][s[Max(u)]]
  BY <1>6, MaxOfPart DEF JoinStep
<1>9. H[1..Len(s)] \in TermString /\ Folds(JoinStep, b, s, H[1..Len(s)])
  BY <1>1, <1>7, <1>8, IterFolds
<1> QED
  BY <1>5, <1>9

\* What a path, the terms of a string and a joined path are, element by element.
LEMMA WalkLaws ==
    ASSUME NEW b \in Path
    PROVE  /\ FoldLeft(Walk, b, <<>>) = b
           /\ \A s \in Path : FoldLeft(Walk, b, s) \in Path
           /\ \A s \in Path, t \in TermString :
                  FoldLeft(Walk, b, Append(s, t)) = Walk(FoldLeft(Walk, b, s), t)
<1>1. <<>> \in Seq(TermString)
  OBVIOUS
<1>2. FoldLeft(Walk, b, <<>>) = b
  BY <1>1, WalkFolds, FoldsEmpty
<1>3. \A s \in Path : FoldLeft(Walk, b, s) \in Path
  BY WalkFolds DEF Path
<1> SUFFICES ASSUME NEW s \in Path, NEW t \in TermString
             PROVE  FoldLeft(Walk, b, Append(s, t)) = Walk(FoldLeft(Walk, b, s), t)
  BY <1>2, <1>3
<1>4. s \in Seq(TermString) /\ Append(s, t) \in Seq(TermString)
  BY DEF Path
<1>5. /\ Folds(WalkStep, b, s, FoldLeft(Walk, b, s))
      /\ Folds(WalkStep, b, Append(s, t), FoldLeft(Walk, b, Append(s, t)))
  BY <1>4, WalkFolds
<1>6. FoldLeft(Walk, b, Append(s, t)) = WalkStep[FoldLeft(Walk, b, s)][t]
  BY <1>4, <1>5, FoldsAppend
<1> QED
  BY <1>3, <1>6 DEF WalkStep

LEMMA TermsLaws ==
    /\ Terms(<<>>) = << <<>> >>
    /\ \A s \in TermString : Terms(s) \in NonEmptyPath
    /\ \A s \in TermString, ch \in Letter : Terms(Append(s, ch)) = AddChar(Terms(s), ch)
<1> DEFINE b == << <<>> >>
<1>1. b \in NonEmptyPath
  BY DEF NonEmptyPath, Path, TermString
<1> HIDE DEF b
<1>2. \A s : Terms(s) = FoldLeft(AddChar, b, s)
  BY DEF Terms, b
<1>3. <<>> \in Seq(Letter)
  OBVIOUS
<1>4. FoldLeft(AddChar, b, <<>>) = b
  BY <1>1, <1>3, TermsFolds, FoldsEmpty
<1>5. \A s \in TermString : FoldLeft(AddChar, b, s) \in NonEmptyPath
  BY <1>1, TermsFolds DEF TermString
<1>6. ASSUME NEW s \in TermString, NEW ch \in Letter
      PROVE  FoldLeft(AddChar, b, Append(s, ch)) = AddChar(FoldLeft(AddChar, b, s), ch)
  <2>1. s \in Seq(Letter) /\ Append(s, ch) \in Seq(Letter)
    BY DEF TermString
  <2>2. /\ Folds(CharStep, b, s, FoldLeft(AddChar, b, s))
        /\ Folds(CharStep, b, Append(s, ch), FoldLeft(AddChar, b, Append(s, ch)))
    BY <1>1, <2>1, TermsFolds
  <2>3. FoldLeft(AddChar, b, Append(s, ch)) = CharStep[FoldLeft(AddChar, b, s)][ch]
    BY <2>1, <2>2, FoldsAppend
  <2> QED
    BY <1>5, <2>3 DEF CharStep
<1> QED
  BY <1>2, <1>4, <1>5, <1>6 DEF b

LEMMA JoinLaws ==
    /\ Join(<<>>) = <<>>
    /\ \A s \in Path : Join(s) \in TermString
    /\ \A s \in Path, t \in TermString : Join(Append(s, t)) = AddTerm(Join(s), t)
<1>1. <<>> \in TermString /\ <<>> \in Seq(TermString)
  BY DEF TermString
<1>2. Join(<<>>) = <<>>
  BY <1>1, JoinFolds, FoldsEmpty DEF Join
<1>3. \A s \in Path : Join(s) \in TermString
  BY <1>1, JoinFolds DEF Path, Join
<1>4. ASSUME NEW s \in Path, NEW t \in TermString
      PROVE  Join(Append(s, t)) = AddTerm(Join(s), t)
  <2>1. s \in Seq(TermString) /\ Append(s, t) \in Seq(TermString)
    BY DEF Path
  <2>2. Folds(JoinStep, <<>>, s, Join(s)) /\ Folds(JoinStep, <<>>, Append(s, t), Join(Append(s, t)))
    BY <1>1, <2>1, JoinFolds DEF Join
  <2>3. Join(Append(s, t)) = JoinStep[Join(s)][t]
    BY <2>1, <2>2, FoldsAppend
  <2> QED
    BY <1>3, <2>3 DEF JoinStep
<1> QED
  BY <1>2, <1>3, <1>4

Dir(start, s) == FoldLeft(Walk, start, Front(Terms(s)))
LastTerm(s) == Last(Terms(s))

\* The last element of a sequence and the rest.
LEMMA FrontLast ==
    ASSUME NEW D, NEW s \in Seq(D), NEW x \in D
    PROVE  /\ Front(Append(s, x)) = s /\ Last(Append(s, x)) = x
           /\ s # <<>> => Front(s) \in Seq(D) /\ Last(s) \in D /\ s = Append(Front(s), Last(s))
BY DEF Front, Last

LEMMA FrontLen ==
    ASSUME NEW D, NEW s \in Seq(D), s # <<>>
    PROVE  /\ Len(s) \in Nat \ {0} /\ Len(Front(s)) = Len(s) - 1
           /\ \A i \in 1..(Len(s) - 1) : Front(s)[i] = s[i]
<1>1. Len(s) \in Nat \ {0} /\ Len(s) - 1 \in Nat
  OBVIOUS
<1>2. \A i \in 1..(Len(s) - 1) : s[i] \in D
  BY <1>1
<1>3. /\ Len(SubSeq(s, 1, Len(s) - 1)) = IF 1 <= Len(s) - 1 THEN Len(s) - 1 - 1 + 1 ELSE 0
      /\ \A i \in 1..(Len(s) - 1 - 1 + 1) : SubSeq(s, 1, Len(s) - 1)[i] = s[1 + i - 1]
  BY <1>1, <1>2, SubSeqProperties
<1>4. Len(s) - 1 - 1 + 1 = Len(s) - 1
  BY <1>1
<1>5. ASSUME NEW i \in 1..(Len(s) - 1) PROVE SubSeq(s, 1, Len(s) - 1)[i] = s[i]
  <2>1. 1 + i - 1 = i
    OBVIOUS
  <2>2. SubSeq(s, 1, Len(s) - 1)[i] = s[1 + i - 1]
    BY <1>3, <1>4
  <2> QED
    BY <2>1, <2>2
<1>6. Len(SubSeq(s, 1, Len(s) - 1)) = Len(s) - 1
  <2>1. \A n \in Nat : (IF 1 <= n THEN n - 1 + 1 ELSE 0) = n
    OBVIOUS
  <2> QED
    BY <1>1, <1>3, <2>1, Zenon
<1> QED
  BY <1>1, <1>5, <1>6 DEF Front

LEMMA ReplaceLast ==
    ASSUME NEW ts \in Seq(TermString), ts # <<>>, NEW t \in TermString
    PROVE  [ts EXCEPT ![Len(ts)] = t] = Append(Front(ts), t)
<1>1. Len(ts) \in Nat \ {0} /\ Front(ts) \in Seq(TermString) /\ Len(Front(ts)) = Len(ts) - 1
  BY FrontLast, FrontLen
<1>2. \A i \in 1..(Len(ts) - 1) : Front(ts)[i] = ts[i]
  BY FrontLen
<1> DEFINE x == [ts EXCEPT ![Len(ts)] = t]
           y == Append(Front(ts), t)
<1>3. x \in Seq(TermString) /\ Len(x) = Len(ts)
  BY <1>1
<1>4. y \in Seq(TermString) /\ Len(y) = Len(ts)
  BY <1>1
<1>5. \A i \in 1..Len(ts) : x[i] = y[i]
  BY <1>1, <1>2
<1> HIDE DEF x, y
<1>6. x = y
  BY <1>3, <1>4, <1>5
<1> QED
  BY <1>6 DEF x, y

\* The parts of a string: its complete terms and the last one.
LEMMA TermsParts ==
    ASSUME NEW s \in TermString
    PROVE  /\ Front(Terms(s)) \in Path /\ LastTerm(s) \in TermString
           /\ Terms(s) = Append(Front(Terms(s)), LastTerm(s))
           /\ Front(Terms(Append(s, Slash))) = Terms(s) /\ LastTerm(Append(s, Slash)) = <<>>
           /\ \A ch \in Letter \ {Slash} :
                  /\ Front(Terms(Append(s, ch))) = Front(Terms(s))
                  /\ LastTerm(Append(s, ch)) = Append(LastTerm(s), ch)
<1>0. Slash \in Letter /\ <<>> \in TermString
  BY DEF Letter, TermString
<1>1. Terms(s) \in Seq(TermString) /\ Terms(s) # <<>>
  BY TermsLaws DEF NonEmptyPath, Path
<1>2. /\ Front(Terms(s)) \in Seq(TermString) /\ LastTerm(s) \in TermString
      /\ Terms(s) = Append(Front(Terms(s)), LastTerm(s))
  BY <1>1, FrontLast DEF LastTerm
<1>3. \A f \in Seq(TermString), t \in TermString : Front(Append(f, t)) = f /\ Last(Append(f, t)) = t
  BY FrontLast
<1>4. Front(Terms(Append(s, Slash))) = Terms(s) /\ LastTerm(Append(s, Slash)) = <<>>
  <2>1. Terms(Append(s, Slash)) = Append(Terms(s), <<>>)
    BY <1>0, TermsLaws DEF AddChar
  <2> QED
    BY <1>0, <1>1, <1>3, <2>1 DEF LastTerm
<1>5. ASSUME NEW ch \in Letter \ {Slash}
      PROVE  /\ Front(Terms(Append(s, ch))) = Front(Terms(s))
             /\ LastTerm(Append(s, ch)) = Append(LastTerm(s), ch)
  <2>1. Terms(Append(s, ch)) = [Terms(s) EXCEPT ![Len(Terms(s))] = Append(@, ch)]
    BY TermsLaws DEF AddChar
  <2>2. Append(LastTerm(s), ch) \in TermString /\ LastTerm(s) = Terms(s)[Len(Terms(s))]
    BY <1>2 DEF TermString, LastTerm, Last
  <2>3. Terms(Append(s, ch)) = Append(Front(Terms(s)), Append(LastTerm(s), ch))
    BY <1>1, <2>1, <2>2, ReplaceLast
  <2>4. LastTerm(Append(s, ch)) = Last(Terms(Append(s, ch)))
    BY DEF LastTerm
  <2> QED
    BY <1>2, <1>3, <2>2, <2>3, <2>4, Zenon
<1> QED
  BY <1>2, <1>4, <1>5 DEF Path

\* How far a string leads, character by character: the last term grows, or a slash ends it
\* and the path goes one step.
LEMMA ReadNothing ==
    ASSUME NEW start \in Path
    PROVE  Dir(start, <<>>) = start /\ LastTerm(<<>>) = <<>>
<1>1. Front(<< <<>> >>) = <<>> /\ Last(<< <<>> >>) = <<>>
  BY DEF Front, Last
<1> QED
  BY <1>1, TermsLaws, WalkLaws DEF Dir, LastTerm

LEMMA ReadAll ==
    ASSUME NEW start \in Path, NEW s \in TermString
    PROVE  /\ Dir(start, s) \in Path /\ LastTerm(s) \in TermString
           /\ FoldLeft(Walk, start, Terms(s)) = Walk(Dir(start, s), LastTerm(s))
<1>1. FoldLeft(Walk, start, Append(Front(Terms(s)), LastTerm(s))) = Walk(Dir(start, s), LastTerm(s))
  BY TermsParts, WalkLaws DEF Dir
<1>2. Dir(start, s) \in Path
  BY TermsParts, WalkLaws DEF Dir
<1>3. FoldLeft(Walk, start, Terms(s)) = Walk(Dir(start, s), LastTerm(s))
  BY TermsParts, <1>1
<1> QED
  BY <1>2, <1>3, TermsParts

LEMMA ReadSlash ==
    ASSUME NEW start \in Path, NEW s \in TermString
    PROVE  /\ Dir(start, Append(s, Slash)) = Walk(Dir(start, s), LastTerm(s))
           /\ LastTerm(Append(s, Slash)) = <<>>
BY ReadAll, TermsParts DEF Dir

LEMMA ReadChar ==
    ASSUME NEW start \in Path, NEW s \in TermString, NEW ch \in Letter \ {Slash}
    PROVE  /\ Dir(start, Append(s, ch)) = Dir(start, s)
           /\ LastTerm(Append(s, ch)) = Append(LastTerm(s), ch)
BY TermsParts DEF Dir

\* Induction over strings, by their last character.
LEMMA StringInd ==
    ASSUME NEW S, <<>> \in S, \A s \in TermString, ch \in Letter : s \in S => Append(s, ch) \in S
    PROVE  \A s \in TermString : s \in S
<1> DEFINE N == {n \in Nat : \A s \in TermString : Len(s) = n => s \in S}
<1>1. 0 \in N
  BY DEF TermString
<1>2. ASSUME NEW n \in Nat, n \in N PROVE n + 1 \in N
  <2> SUFFICES ASSUME NEW s \in TermString, Len(s) = n + 1 PROVE s \in S
    OBVIOUS
  <2>1. s \in Seq(Letter) /\ s # <<>>
    BY DEF TermString
  <2>2. Front(s) \in TermString /\ Last(s) \in Letter /\ s = Append(Front(s), Last(s)) /\ Len(Front(s)) = n
    BY <2>1, FrontLast, FrontLen DEF TermString
  <2>3. Front(s) \in S
    BY <1>2, <2>2
  <2> QED
    BY <2>2, <2>3
<1>3. \A n \in Nat : n \in N
  <2> HIDE DEF N
  <2> QED
    BY <1>1, <1>2, NatInd
<1> QED
  BY <1>3 DEF TermString

\* The first term is empty when there is none, or the first character is a slash.
LEMMA FirstTerm ==
    \A s \in TermString : Terms(s)[1] = <<>> <=> s = <<>> \/ s[1] = Slash
<1> DEFINE Ok(s) == /\ s = <<>> => Terms(s) = << <<>> >>
                    /\ s # <<>> /\ s[1] = Slash => Len(Terms(s)) >= 2 /\ Terms(s)[1] = <<>>
                    /\ s # <<>> /\ s[1] # Slash => Terms(s)[1] # <<>>
           S == {s \in TermString : Ok(s)}
<1>1. <<>> \in S
  BY TermsLaws DEF TermString
<1>2. ASSUME NEW s \in TermString, NEW ch \in Letter, s \in S PROVE Append(s, ch) \in S
  <2> DEFINE ts == Terms(s)
             u == Append(s, ch)
  <2>1. ts \in Seq(TermString) /\ ts # <<>> /\ Len(ts) \in Nat \ {0} /\ ts[1] \in TermString
    BY TermsLaws DEF NonEmptyPath, Path
  <2>2. u \in TermString /\ u # <<>> /\ (s # <<>> => u[1] = s[1]) /\ (s = <<>> => u[1] = ch)
    BY DEF TermString
  <2>3. Terms(u) = AddChar(ts, ch)
    BY TermsLaws
  <2> HIDE DEF ts, u
  <2>4. Ok(s)
    BY <1>2
  <2>5. CASE ch = Slash
    <3>1. Len(Terms(u)) >= 2 /\ Terms(u)[1] = ts[1]
      BY <2>1, <2>3, <2>5 DEF AddChar
    <3> QED
      <4>1. CASE s = <<>>
        <5>1. ts[1] = <<>>
          BY <2>4, <4>1 DEF ts
        <5> QED
          BY <2>2, <2>5, <3>1, <4>1, <5>1 DEF u
      <4>2. CASE s # <<>>
        <5>1. (s[1] = Slash => ts[1] = <<>>) /\ (s[1] # Slash => ts[1] # <<>>)
          BY <2>4, <4>2 DEF ts
        <5> QED
          BY <2>2, <3>1, <4>2, <5>1 DEF u
      <4> QED
        BY <4>1, <4>2
  <2>6. CASE ch # Slash
    <3>1. Terms(u) = [ts EXCEPT ![Len(ts)] = Append(@, ch)]
      BY <2>3, <2>6 DEF AddChar
    <3>2. CASE Len(ts) = 1
      <4>1. Terms(u)[1] = Append(ts[1], ch)
        BY <2>1, <3>1, <3>2
      <4>2. Terms(u)[1] # <<>>
        <5>1. \A t \in Seq(Letter) : Append(t, ch) # <<>>
          BY AppendProperties
        <5> QED
          BY <2>1, <4>1, <5>1 DEF TermString
      <4>3. u[1] # Slash
        BY <2>2, <2>4, <2>6, <3>2 DEF ts
      <4> QED
        BY <2>2, <4>2, <4>3 DEF u
    <3>3. CASE Len(ts) # 1
      <4>1. Terms(u)[1] = ts[1] /\ Len(Terms(u)) = Len(ts) /\ Len(ts) >= 2
        <5>1. 1 # Len(ts) /\ Len(ts) >= 2 /\ 1 \in DOMAIN ts
          <6>1. \A n \in Nat \ {0} : n # 1 => n >= 2 /\ 1 \in 1..n
            OBVIOUS
          <6>2. DOMAIN ts = 1..Len(ts)
            BY <2>1
          <6> QED
            BY <2>1, <3>3, <6>1, <6>2
        <5>2. Terms(u)[1] = ts[1]
          BY <3>1, <5>1
        <5>3. Append(ts[Len(ts)], ch) \in TermString
          BY <2>1 DEF TermString
        <5>4. Len(Terms(u)) = Len(ts)
          BY <2>1, <3>1, <5>3
        <5> QED
          BY <5>1, <5>2, <5>4
      <4>2. s # <<>>
        BY <2>4, <3>3 DEF ts
      <4> QED
        BY <2>2, <2>4, <4>1, <4>2 DEF ts, u
    <3> QED
      BY <3>2, <3>3
  <2> QED
    BY <2>5, <2>6
<1>3. \A s \in TermString : s \in S
  <2> HIDE DEF S
  <2> QED
    BY <1>1, <1>2, StringInd
<1> QED
  BY <1>3

Name == {t \in Seq(Char \cup {Dot}) : IsName(t)}

LEMMA NameFacts ==
    /\ Name \subseteq TermString
    /\ Seq(Name) \subseteq Path
    /\ \A t \in Name : t # <<>> /\ t # <<Dot>> /\ t # <<Dot, Dot>> /\ IsName(t) /\ Len(t) \in Nat \ {0}
    /\ \A t \in Name : \A i \in 1..Len(t) : t[i] \in Letter /\ t[i] # Slash
    /\ Broken \notin Seq(Name)
    /\ <<>> \in Seq(Name)
<1>1. Slash \notin Char \cup {Dot} /\ Char \cup {Dot} \subseteq Letter
  BY Distinct
<1>2. \A t \in Name : t \in Seq(Char \cup {Dot}) /\ IsName(t)
  BY DEF Name
<1>3. \A t \in Name : t \in TermString
  BY <1>1, <1>2 DEF TermString
<1>4. ASSUME NEW t \in Name
      PROVE  t # <<>> /\ t # <<Dot>> /\ t # <<Dot, Dot>> /\ IsName(t) /\ Len(t) \in Nat \ {0}
  BY <1>2 DEF IsName
<1>5. ASSUME NEW t \in Name, NEW i \in 1..Len(t)
      PROVE  t[i] \in Letter /\ t[i] # Slash
  <2>1. t[i] \in Char \cup {Dot}
    BY <1>2
  <2> QED
    BY <1>1, <2>1
<1>6. ASSUME NEW w \in Seq(Name) PROVE w \in Path
  BY <1>3 DEF Path
<1>7. ASSUME Broken \in Seq(Name) PROVE FALSE
  <2>1. Len(Broken) = 1 /\ Broken[1] = <<Dot>>
    BY DEF Broken
  <2>2. Broken[1] \in Name
    BY <1>7, <2>1
  <2> QED
    BY <1>4, <2>1, <2>2
<1> QED
  BY <1>3, <1>4, <1>5, <1>6, <1>7

\* Steps of a path of names.
LEMMA WalkNames ==
    ASSUME NEW w \in Seq(Name)
    PROVE  /\ Walk(w, <<>>) = w /\ Walk(w, <<Dot>>) = w
           /\ \A t \in Name : Walk(w, t) = Append(w, t) /\ Append(w, t) \in Seq(Name)
           /\ w # <<>> => Walk(w, <<Dot, Dot>>) = Front(w) /\ Front(w) \in Seq(Name)
           /\ w = <<>> => Walk(w, <<Dot, Dot>>) = Broken
<1>1. w # Broken
  BY NameFacts
<1>2. <<>> # <<Dot>> /\ <<Dot, Dot>> # <<>> /\ <<Dot, Dot>> # <<Dot>> /\ ~IsName(<<Dot, Dot>>)
  BY DEF IsName
<1>3. Walk(w, <<>>) = w /\ Walk(w, <<Dot>>) = w
  BY <1>1, <1>2 DEF Walk, IsName
<1>4. ASSUME NEW t \in Name PROVE Walk(w, t) = Append(w, t) /\ Append(w, t) \in Seq(Name)
  <2>1. t \notin {<<>>, <<Dot>>} /\ t # <<Dot, Dot>> /\ IsName(t)
    BY NameFacts
  <2> QED
    BY <1>1, <2>1 DEF Walk
<1>5. w # <<>> => Walk(w, <<Dot, Dot>>) = Front(w) /\ Front(w) \in Seq(Name)
  BY <1>1, <1>2, FrontLast DEF Walk
<1>6. w = <<>> => Walk(w, <<Dot, Dot>>) = Broken
  BY <1>1, <1>2 DEF Walk
<1> QED
  BY <1>3, <1>4, <1>5, <1>6

LEMMA NameAppend ==
    ASSUME NEW t \in Name, NEW ch \in Char \cup {Dot}
    PROVE  Append(t, ch) \in Name
<1>1. t \in Seq(Char \cup {Dot}) /\ t # <<>> /\ Head(t) # Dot
  BY DEF Name, IsName
<1>2. Append(t, ch) \in Seq(Char \cup {Dot}) /\ Append(t, ch) # <<>> /\ Append(t, ch)[1] = t[1]
  BY <1>1, AppendProperties
<1>3. Head(Append(t, ch)) = Append(t, ch)[1] /\ Head(t) = t[1]
  BY <1>1, <1>2
<1> QED
  BY <1>1, <1>2, <1>3 DEF Name, IsName

LEMMA NameOne ==
    ASSUME NEW ch \in Char
    PROVE  Append(<<>>, ch) \in Name /\ <<ch>> \in Name
<1>1. ch # Dot
  BY Distinct
<1> QED
  BY <1>1 DEF Name, IsName

LEMMA Twice ==
    ASSUME NEW x
    PROVE  Append(<<x>>, x) = <<x, x>>
<1> DEFINE u == Append(<<x>>, x)
           v == <<x, x>>
<1>1. <<x>> \in Seq({x}) /\ Len(<<x>>) = 1
  OBVIOUS
<1>2. u \in Seq({x}) /\ Len(u) = 2 /\ u[1] = x /\ u[2] = x
  BY <1>1
<1>3. v \in Seq({x}) /\ Len(v) = 2 /\ v[1] = x /\ v[2] = x
  OBVIOUS
<1> HIDE DEF u, v
<1>4. \A i \in 1..Len(u) : u[i] = v[i]
  BY <1>2, <1>3
<1>5. u = v
  BY <1>2, <1>3, <1>4, SeqEqual
<1> QED
  BY <1>5 DEF u, v

\* A string, one character after the other.
LEMMA Prefix ==
    ASSUME NEW s \in TermString
    PROVE  /\ SubSeq(s, 1, 0) = <<>> /\ SubSeq(s, 1, Len(s)) = s
           /\ \A n \in 0..Len(s) : SubSeq(s, 1, n) \in TermString
           /\ \A n \in 0..(Len(s) - 1) : SubSeq(s, 1, n + 1) = Append(SubSeq(s, 1, n), s[n + 1])
<1>1. s \in Seq(Letter)
  BY DEF TermString
<1>2. SubSeq(s, 1, 0) = <<>>
  BY SubSeqEmpty
<1>3. SubSeq(s, 1, Len(s)) = s
  BY <1>1, SubSeqFull
<1>4. ASSUME NEW n \in 0..Len(s) PROVE SubSeq(s, 1, n) \in TermString
  <2>1. \A i \in 1..n : s[i] \in Letter
    BY <1>1
  <2> QED
    BY <2>1, SubSeqProperties DEF TermString
<1>5. ASSUME NEW n \in 0..(Len(s) - 1)
      PROVE  SubSeq(s, 1, n + 1) = Append(SubSeq(s, 1, n), s[n + 1])
  <2>1. n + 1 \in 1..Len(s) /\ 1 \in 1..Len(s) /\ (n + 1) - 1 = n /\ n + 1 \in 1..Len(s)
    BY <1>1
  <2>2. SubSeq(s, 1, n + 1) = SubSeq(s, 1, (n + 1) - 1) \o <<s[n + 1]>>
    BY <1>1, <2>1, SubSeqRecursiveSecond
  <2>3. SubSeq(s, 1, n) \in Seq(Letter) /\ s[n + 1] \in Letter
    BY <1>1, <1>4, <2>1 DEF TermString
  <2> QED
    BY <2>1, <2>2, <2>3, AppendIsConcat
<1> QED
  BY <1>2, <1>3, <1>4, <1>5

\* An id is read as the terms it consists of: none of them goes back.
LEMMA BaseReads ==
    ASSUME BasesAreIds, NEW b \in Base
    PROVE  /\ Dir(<<>>, b) = Front(Terms(b)) /\ Front(Terms(b)) \in Seq(Name)
           /\ LastTerm(b) \in Name
<1> DEFINE F(s) == Front(Terms(s))
           Ok(n) == /\ Dir(<<>>, SubSeq(b, 1, n)) = F(SubSeq(b, 1, n))
                    /\ F(SubSeq(b, 1, n)) \in Seq(Name)
                    /\ \/ LastTerm(SubSeq(b, 1, n)) \in Name
                       \/ LastTerm(SubSeq(b, 1, n)) = <<>> /\ (n = 0 \/ b[n] = Slash)
           S == {n \in Nat : n <= Len(b) => Ok(n)}
<1>1. b \in TermString /\ Len(b) \in Nat \ {0} /\ b[1] \in Char /\ \A i \in 1..Len(b) : b[i] \in Letter
  BY BaseAssumption DEF BasesAreIds, IsId, TermString
<1>2. <<>> \in Path /\ <<>> \in TermString
  BY DEF Path, TermString
<1>3. 0 \in S
  <2>1. F(<<>>) = <<>>
    <3>1. Front(<< <<>> >>) = <<>>
      BY DEF Front
    <3> QED
      BY <3>1, TermsLaws
  <2>2. Ok(0)
    BY <1>1, <1>2, <2>1, ReadNothing, Prefix, NameFacts
  <2> QED
    BY <2>2
<1>4. ASSUME NEW n \in Nat, n \in S PROVE n + 1 \in S
  <2> SUFFICES ASSUME n + 1 <= Len(b) PROVE Ok(n + 1)
    OBVIOUS
  <2>1. Ok(n) /\ n \in 0..(Len(b) - 1) /\ n + 1 \in 1..Len(b) /\ n \in 0..Len(b)
    BY <1>1, <1>4
  <2>2. PICK s : s = SubSeq(b, 1, n)
    OBVIOUS
  <2>3. PICK ch : ch = b[n + 1]
    OBVIOUS
  <2>4. s \in TermString /\ SubSeq(b, 1, n + 1) = Append(s, ch) /\ ch \in Letter
    BY <1>1, <2>1, <2>2, <2>3, Prefix
  <2>5. /\ Dir(<<>>, s) = F(s) /\ F(s) \in Seq(Name)
        /\ LastTerm(s) \in Name \/ (LastTerm(s) = <<>> /\ (n = 0 \/ b[n] = Slash))
    BY <2>1, <2>2
  <2>6. CASE ch = Slash
    <3>1. n # 0 /\ b[n] # Slash
      <4>1. n = 0 => ch \in Char
        BY <1>1, <2>3
      <4>2. n # 0 /\ b[n] = Slash => ch \in Char
        BY <2>1, <2>3 DEF BasesAreIds, IsId
      <4> QED
        BY <2>6, <4>1, <4>2, Distinct
    <3>2. LastTerm(s) \in Name
      BY <2>5, <3>1
    <3>3. F(Append(s, Slash)) = Append(F(s), LastTerm(s))
      BY <2>4, TermsParts
    <3>4. Dir(<<>>, Append(s, Slash)) = Append(F(s), LastTerm(s))
      <4>1. Dir(<<>>, Append(s, Slash)) = Walk(Dir(<<>>, s), LastTerm(s))
        BY <1>2, <2>4, ReadSlash
      <4>2. Walk(F(s), LastTerm(s)) = Append(F(s), LastTerm(s))
        BY <2>5, <3>2, WalkNames
      <4> QED
        BY <2>5, <4>1, <4>2
    <3>5. LastTerm(Append(s, Slash)) = <<>>
      BY <2>4, TermsParts
    <3>6. Append(F(s), LastTerm(s)) \in Seq(Name)
      BY <2>5, <3>2
    <3> QED
      BY <2>3, <2>4, <2>6, <3>3, <3>4, <3>5, <3>6
  <2>7. CASE ch # Slash
    <3>1. F(Append(s, ch)) = F(s) /\ LastTerm(Append(s, ch)) = Append(LastTerm(s), ch)
      BY <2>4, <2>7, TermsParts
    <3>2. Dir(<<>>, Append(s, ch)) = Dir(<<>>, s)
      BY <1>2, <2>4, <2>7, ReadChar
    <3>3. Append(LastTerm(s), ch) \in Name
      <4>1. ch \in Char \cup {Dot}
        BY <2>4, <2>7, Distinct
      <4>2. CASE LastTerm(s) \in Name
        BY <4>1, <4>2, NameAppend
      <4>3. CASE LastTerm(s) = <<>> /\ (n = 0 \/ b[n] = Slash)
        <5>1. ch \in Char
          BY <1>1, <2>1, <2>3, <4>3 DEF BasesAreIds, IsId
        <5> QED
          BY <4>3, <5>1, NameOne
      <4> QED
        BY <2>5, <4>2, <4>3
    <3> QED
      BY <2>4, <2>5, <3>1, <3>2, <3>3
  <2> QED
    BY <2>6, <2>7
<1>5. \A n \in Nat : n \in S
  <2> HIDE DEF S
  <2> QED
    BY <1>3, <1>4, NatInd
<1>6. Ok(Len(b))
  BY <1>1, <1>5
<1>7. b[Len(b)] # Slash
  BY <1>1 DEF BasesAreIds, IsId
<1> QED
  BY <1>1, <1>6, <1>7, Prefix

\* From the id of the asker and its "..", a request leads where it leads from its directory.
LEMMA AfterBase ==
    ASSUME BasesAreIds, NEW b \in Base
    PROVE  \A r \in TermString :
              /\ Dir(<<>>, b \o <<Slash, Dot, Dot, Slash>> \o r) = Dir(Front(Terms(b)), r)
              /\ LastTerm(b \o <<Slash, Dot, Dot, Slash>> \o r) = LastTerm(r)
<1> DEFINE m == <<Slash, Dot, Dot, Slash>>
           F == Front(Terms(b))
           S == {r \in TermString : /\ Dir(<<>>, b \o m \o r) = Dir(F, r)
                                    /\ LastTerm(b \o m \o r) = LastTerm(r)}
<1>1. b \in TermString
  BY BaseAssumption DEF TermString
<1>2. /\ Dir(<<>>, b) = F /\ F \in Seq(Name) /\ LastTerm(b) \in Name
      /\ F \in Path /\ <<>> \in Path
  BY BaseReads, NameFacts
<1>3. Slash \in Letter /\ Dot \in Letter \ {Slash} /\ <<>> \in TermString
  BY Distinct DEF TermString
<1> HIDE DEF F
<1>4. <<>> \in S
  <2> DEFINE s1 == Append(b, Slash)
             s2 == Append(s1, Dot)
             s3 == Append(s2, Dot)
             s4 == Append(s3, Slash)
  <2>1. s1 \in TermString /\ s2 \in TermString /\ s3 \in TermString /\ s4 \in TermString
    BY <1>1, <1>3 DEF TermString
  <2>2. Dir(<<>>, s1) = Append(F, LastTerm(b)) /\ LastTerm(s1) = <<>>
    <3>1. Walk(F, LastTerm(b)) = Append(F, LastTerm(b))
      BY <1>2, WalkNames
    <3>2. Dir(<<>>, Append(b, Slash)) = Walk(Dir(<<>>, b), LastTerm(b)) /\ LastTerm(Append(b, Slash)) = <<>>
      BY <1>1, <1>2, ReadSlash
    <3> QED
      BY <1>2, <3>1, <3>2
  <2> HIDE DEF s1
  <2>3. Dir(<<>>, s2) = Append(F, LastTerm(b)) /\ LastTerm(s2) = <<Dot>>
    <3>1. Dir(<<>>, Append(s1, Dot)) = Dir(<<>>, s1) /\ LastTerm(Append(s1, Dot)) = Append(LastTerm(s1), Dot)
      BY <1>2, <1>3, <2>1, ReadChar
    <3> QED
      BY <2>2, <3>1
  <2> HIDE DEF s2
  <2>4. Dir(<<>>, s3) = Append(F, LastTerm(b)) /\ LastTerm(s3) = <<Dot, Dot>>
    <3>1. Dir(<<>>, Append(s2, Dot)) = Dir(<<>>, s2) /\ LastTerm(Append(s2, Dot)) = Append(LastTerm(s2), Dot)
      BY <1>2, <1>3, <2>1, ReadChar
    <3> QED
      <4>1. Append(<<Dot>>, Dot) = <<Dot, Dot>>
        BY Twice
      <4> QED
        BY <2>3, <3>1, <4>1, Zenon
  <2> HIDE DEF s3
  <2>5. Dir(<<>>, s4) = F /\ LastTerm(s4) = <<>>
    <3>1. Append(F, LastTerm(b)) \in Seq(Name) /\ Append(F, LastTerm(b)) # <<>>
      BY <1>2, AppendProperties
    <3>2. Walk(Append(F, LastTerm(b)), <<Dot, Dot>>) = Front(Append(F, LastTerm(b)))
      BY <3>1, WalkNames
    <3>3. Front(Append(F, LastTerm(b))) = F
      BY <1>2, FrontLast
    <3>4. Dir(<<>>, s4) = Walk(Dir(<<>>, s3), LastTerm(s3)) /\ LastTerm(s4) = <<>>
      BY <1>2, <2>1, ReadSlash
    <3> QED
      BY <2>4, <3>2, <3>3, <3>4
  <2>6. s4 = b \o m \o <<>>
    BY <1>1, <1>3 DEF s1, s2, s3, TermString
  <2> HIDE DEF s4, m
  <2>7. Dir(F, <<>>) = F /\ LastTerm(<<>>) = <<>>
    BY <1>2, ReadNothing
  <2> QED
    BY <1>3, <2>5, <2>6, <2>7
<1>5. ASSUME NEW r \in TermString, NEW ch \in Letter, r \in S PROVE Append(r, ch) \in S
  <2>1. /\ b \o m \o r \in TermString /\ b \o m \o Append(r, ch) = Append(b \o m \o r, ch)
        /\ Append(r, ch) \in TermString
    BY <1>1, <1>3 DEF TermString
  <2>2. PICK s : s = b \o m \o r
    OBVIOUS
  <2> HIDE DEF m
  <2>3. s \in TermString /\ Dir(<<>>, s) = Dir(F, r) /\ LastTerm(s) = LastTerm(r)
    BY <1>5, <2>1, <2>2
  <2>4. /\ Dir(<<>>, Append(s, ch)) = Dir(F, Append(r, ch))
        /\ LastTerm(Append(s, ch)) = LastTerm(Append(r, ch))
    <3>1. CASE ch = Slash
      BY <1>2, <2>3, <3>1, ReadSlash
    <3>2. CASE ch # Slash
      BY <1>2, <2>3, <3>2, ReadChar
    <3> QED
      BY <3>1, <3>2
  <2> QED
    BY <2>1, <2>2, <2>4
<1>6. \A r \in TermString : r \in S
  <2> HIDE DEF S
  <2> QED
    BY <1>4, <1>5, StringInd
<1> QED
  BY <1>6 DEF F

\* Where the terms of s lead.
PathOf(s) ==
    IF s = <<>> \/ s[1] = Slash \/ ~IsName(LastTerm(s)) THEN Broken ELSE Walk(Dir(<<>>, s), LastTerm(s))

\* ResolvedPath, which takes the request and the asker, by the input the buffer gets.
LEMMA PathOfInput ==
    ASSUME BasesAreIds, TypeOK
    PROVE  ResolvedPath = PathOf(input)
<1>1. req \in TermString /\ <<>> \in Path
  BY RequestAssumption DEF TypeOK, TermString, Path
<1> DEFINE start == IF isRelative THEN Front(Terms(base)) ELSE <<>>
<1>2. isRelative => base \in Base /\ start = Front(Terms(base)) /\ start \in Path
  <2>1. isRelative => base \in Base
    BY DEF isRelative, TypeOK
  <2> QED
    BY <2>1, BaseReads, NameFacts
<1>3. start \in Path
  BY <1>1, <1>2
<1> HIDE DEF start
<1>4. /\ Last(Terms(req)) = LastTerm(req)
      /\ Terms(req)[1] = <<>> <=> req = <<>> \/ req[1] = Slash
      /\ FoldLeft(Walk, start, Terms(req)) = Walk(Dir(start, req), LastTerm(req))
  BY <1>1, <1>3, FirstTerm, ReadAll DEF LastTerm
<1>5. ResolvedPath = IF Terms(req)[1] = <<>> \/ ~IsName(Last(Terms(req))) THEN Broken
                     ELSE FoldLeft(Walk, start, Terms(req))
  BY DEF ResolvedPath, start
<1>6. ResolvedPath = IF req = <<>> \/ req[1] = Slash \/ ~IsName(LastTerm(req)) THEN Broken
                     ELSE Walk(Dir(start, req), LastTerm(req))
  BY <1>4, <1>5
<1>7. CASE ~isRelative
  <2>1. input = req /\ start = <<>>
    BY <1>7 DEF input, start
  <2> QED
    BY <1>6, <2>1 DEF PathOf
<1>8. CASE isRelative
  <2> DEFINE m == <<Slash, Dot, Dot, Slash>>
  <2>1. input = base \o m \o req
    BY <1>8 DEF input
  <2>2. Dir(<<>>, input) = Dir(start, req) /\ LastTerm(input) = LastTerm(req)
    BY <1>1, <1>2, <1>8, <2>1, AfterBase
  <2>3. req # <<>> /\ req[1] # Slash
    BY <1>1, <1>8, Distinct DEF isRelative, TermString
  <2>4. input # <<>> /\ input[1] # Slash
    <3>1. base \in Seq(Letter) /\ base # <<>> /\ base[1] \in Char
      BY <1>2, <1>8, BaseAssumption DEF BasesAreIds, IsId
    <3>2. m \o req \in Seq(Letter) /\ input = base \o (m \o req)
      BY <1>1, <2>1, <3>1 DEF TermString, Letter
    <3>3. Len(input) > 0 /\ input[1] = base[1]
      BY <3>1, <3>2
    <3> QED
      BY <3>1, <3>3, Distinct
  <2> QED
    BY <1>6, <2>2, <2>3, <2>4 DEF PathOf
<1> QED
  BY <1>7, <1>8

\* A path as the output has it: a slash after every term.
Flat(path) == IF path = <<>> THEN <<>> ELSE Append(Join(path), Slash)

\* What the output of a path of names looks like.
LEMMA FlatLaws ==
    /\ Flat(<<>>) = <<>>
    /\ \A w \in Seq(Name) : Flat(w) \in TermString
    /\ \A w \in Seq(Name) : w # <<>> => Len(Flat(w)) \in Nat \ {0} /\ Flat(w)[Len(Flat(w))] = Slash
    /\ \A w \in Seq(Name), t \in Name : /\ Join(Append(w, t)) = Flat(w) \o t
                                        /\ Flat(Append(w, t)) = Flat(w) \o t \o <<Slash>>
<1>1. Slash \in Letter /\ <<Slash>> \in Seq(Letter)
  BY DEF Letter
<1>2. ASSUME NEW w \in Seq(Name) PROVE w \in Path /\ Join(w) \in Seq(Letter) /\ Flat(w) \in Seq(Letter)
  <2>1. w \in Path /\ Join(w) \in Seq(Letter)
    BY NameFacts, JoinLaws DEF TermString
  <2> QED
    BY <1>1, <2>1 DEF Flat
<1>3. ASSUME NEW w \in Seq(Name), w # <<>>
      PROVE  Join(w) # <<>> /\ Len(Flat(w)) \in Nat \ {0} /\ Flat(w)[Len(Flat(w))] = Slash
  <2>1. Front(w) \in Seq(Name) /\ Last(w) \in Name /\ w = Append(Front(w), Last(w))
    BY <1>3, FrontLast
  <2>2. Join(w) = AddTerm(Join(Front(w)), Last(w))
    BY <1>2, <2>1, NameFacts, JoinLaws
  <2>3. Join(Front(w)) \in Seq(Letter) /\ Last(w) \in Seq(Letter) /\ Last(w) # <<>>
    BY <1>2, <2>1, NameFacts DEF TermString
  <2>4. Join(w) # <<>>
    <3>1. CASE Join(Front(w)) = <<>>
      BY <2>2, <2>3, <3>1 DEF AddTerm
    <3>2. CASE Join(Front(w)) # <<>>
      <4>1. Join(w) = Join(Front(w)) \o <<Slash>> \o Last(w)
        BY <2>2, <3>2 DEF AddTerm
      <4>2. Len(Join(w)) = Len(Join(Front(w))) + 1 + Len(Last(w))
        BY <1>1, <2>3, <4>1
      <4> QED
        BY <2>3, <4>2
    <3> QED
      BY <3>1, <3>2
  <2>5. Flat(w) = Append(Join(w), Slash) /\ Join(w) \in Seq(Letter)
    BY <1>2, <1>3 DEF Flat
  <2>6. Len(Flat(w)) = Len(Join(w)) + 1 /\ Flat(w)[Len(Join(w)) + 1] = Slash /\ Len(Join(w)) \in Nat
    BY <1>1, <2>5, AppendProperties
  <2> QED
    BY <2>4, <2>6
<1>4. ASSUME NEW w \in Seq(Name), NEW t \in Name
      PROVE  /\ Join(Append(w, t)) = Flat(w) \o t
             /\ Flat(Append(w, t)) = Flat(w) \o t \o <<Slash>>
  <2>1. t \in TermString /\ t \in Seq(Letter) /\ Append(w, t) # <<>>
    BY NameFacts, AppendProperties DEF TermString
  <2>2. Join(Append(w, t)) = AddTerm(Join(w), t)
    BY <1>2, <2>1, JoinLaws
  <2>3. Join(Append(w, t)) = Flat(w) \o t
    <3>1. CASE w = <<>>
      <4>1. Join(w) = <<>> /\ Flat(w) = <<>>
        BY <3>1, JoinLaws DEF Flat
      <4> QED
        BY <2>1, <2>2, <4>1 DEF AddTerm
    <3>2. CASE w # <<>>
      <4>1. Join(w) # <<>> /\ Flat(w) = Join(w) \o <<Slash>>
        BY <1>1, <1>2, <1>3, <3>2, AppendIsConcat DEF Flat
      <4> QED
        BY <2>2, <4>1 DEF AddTerm
    <3> QED
      BY <3>1, <3>2
  <2>4. Flat(w) \o t \in Seq(Letter)
    BY <1>2, <2>1
  <2>5. Flat(Append(w, t)) = Append(Flat(w) \o t, Slash)
    BY <2>1, <2>3 DEF Flat
  <2> QED
    BY <1>1, <2>3, <2>4, <2>5, AppendIsConcat
<1> QED
  BY <1>2, <1>3, <1>4 DEF Flat, TermString

\* s has been read up to the end of a term, and out has been written.
Between(s, out) ==
    /\ Dir(<<>>, s) \in Seq(Name)
    /\ LastTerm(s) = <<>>
    /\ out = Flat(Dir(<<>>, s))

\* s has been read up to the middle or end of a name, of which there is last.
InName(s, before, last) ==
    /\ Dir(<<>>, s) \in Seq(Name)
    /\ LastTerm(s) \in Name
    /\ LastTerm(s) = last
    /\ before = Flat(Dir(<<>>, s))

LEMMA EmptyPath == <<>> \in Path
BY DEF Path

LEMMA AfterSlash ==
    ASSUME NEW s \in TermString, NEW out, Between(s, out)
    PROVE  Between(Append(s, Slash), out)
<1>1. Dir(<<>>, Append(s, Slash)) = Walk(Dir(<<>>, s), LastTerm(s)) /\ LastTerm(Append(s, Slash)) = <<>>
  BY EmptyPath, ReadSlash
<1>2. Walk(Dir(<<>>, s), <<>>) = Dir(<<>>, s)
  BY WalkNames DEF Between
<1> QED
  BY <1>1, <1>2 DEF Between

LEMMA AfterDot ==
    ASSUME NEW s \in TermString, NEW out, Between(s, out)
    PROVE  Between(Append(Append(s, Dot), Slash), out)
<1>1. Dot \in Letter \ {Slash} /\ Append(s, Dot) \in TermString
  BY Distinct DEF TermString
<1>2. Dir(<<>>, Append(s, Dot)) = Dir(<<>>, s) /\ LastTerm(Append(s, Dot)) = Append(LastTerm(s), Dot)
  BY <1>1, EmptyPath, ReadChar
<1>3. Append(LastTerm(s), Dot) = <<Dot>>
  BY DEF Between
<1>4. /\ Dir(<<>>, Append(Append(s, Dot), Slash)) = Walk(Dir(<<>>, Append(s, Dot)), LastTerm(Append(s, Dot)))
      /\ LastTerm(Append(Append(s, Dot), Slash)) = <<>>
  BY <1>1, EmptyPath, ReadSlash
<1>5. Walk(Dir(<<>>, s), <<Dot>>) = Dir(<<>>, s)
  BY WalkNames DEF Between
<1> QED
  BY <1>2, <1>3, <1>4, <1>5 DEF Between

LEMMA DotDotRead ==
    ASSUME NEW s \in TermString, NEW out, Between(s, out)
    PROVE  /\ Append(Append(Append(s, Dot), Dot), Slash) \in TermString
           /\ Dir(<<>>, Append(Append(Append(s, Dot), Dot), Slash)) = Walk(Dir(<<>>, s), <<Dot, Dot>>)
           /\ LastTerm(Append(Append(Append(s, Dot), Dot), Slash)) = <<>>
           /\ LastTerm(Append(Append(s, Dot), Dot)) = <<Dot, Dot>>
<1> DEFINE s1 == Append(s, Dot)
           s2 == Append(s1, Dot)
           s3 == Append(s2, Slash)
<1>1. Dot \in Letter \ {Slash} /\ s1 \in TermString /\ s2 \in TermString /\ s3 \in TermString
  BY Distinct DEF TermString
<1>2. Dir(<<>>, s1) = Dir(<<>>, s) /\ LastTerm(s1) = Append(LastTerm(s), Dot)
  BY <1>1, EmptyPath, ReadChar
<1>3. Append(LastTerm(s), Dot) = <<Dot>>
  BY DEF Between
<1> HIDE DEF s1
<1>4. Dir(<<>>, s2) = Dir(<<>>, s1) /\ LastTerm(s2) = Append(LastTerm(s1), Dot)
  BY <1>1, EmptyPath, ReadChar
<1>5. Append(<<Dot>>, Dot) = <<Dot, Dot>>
  BY Twice
<1> HIDE DEF s2
<1>6. Dir(<<>>, s3) = Walk(Dir(<<>>, s2), LastTerm(s2)) /\ LastTerm(s3) = <<>>
  BY <1>1, EmptyPath, ReadSlash
<1> HIDE DEF s3
<1>7. /\ s3 \in TermString /\ Dir(<<>>, s3) = Walk(Dir(<<>>, s), <<Dot, Dot>>) /\ LastTerm(s3) = <<>>
      /\ LastTerm(s2) = <<Dot, Dot>>
  BY <1>1, <1>2, <1>3, <1>4, <1>5, <1>6, Zenon
<1> QED
  BY <1>7 DEF s1, s2, s3

\* Going back from the end of the output to the slash before takes its last term away.
LEMMA AfterDotDot ==
    ASSUME NEW s \in TermString, NEW out \in TermString, Between(s, out),
           NEW i \in 0..(Len(out) - 1), i > 0 => out[i] = Slash,
           \A j \in i..(Len(out) - 2) : out[j + 1] # Slash
    PROVE  Between(Append(Append(Append(s, Dot), Dot), Slash), SubSeq(out, 1, i))
<1> DEFINE w == Dir(<<>>, s)
           v == Front(w)
           t == Last(w)
<1>1. w \in Seq(Name) /\ out = Flat(w)
  BY DEF Between
<1>2. w # <<>>
  BY <1>1, FlatLaws DEF TermString
<1> HIDE DEF w
<1>3. v \in Seq(Name) /\ t \in Name /\ w = Append(v, t)
  BY <1>1, <1>2, FrontLast
<1> HIDE DEF v, t
<1>4. out = Flat(v) \o t \o <<Slash>>
  BY <1>1, <1>3, FlatLaws
<1>5. /\ Flat(v) \in Seq(Letter) /\ t \in Seq(Letter) /\ t # <<>> /\ Slash \in Letter
      /\ \A k \in 1..Len(t) : t[k] # Slash
  BY <1>3, FlatLaws, NameFacts, Distinct DEF TermString
<1> DEFINE m == Len(Flat(v))
           n == Len(t)
<1>6. m \in Nat /\ n \in Nat /\ n > 0 /\ Len(out) = m + n + 1
  BY <1>4, <1>5
<1>7. /\ \A k \in 1..m : out[k] = Flat(v)[k]
      /\ \A k \in (m + 1)..(m + n) : out[k] = t[k - m]
  BY <1>4, <1>5
<1>8. m > 0 => out[m] = Slash
  <2>1. m > 0 => Flat(v)[m] = Slash
    BY <1>3, FlatLaws
  <2> QED
    BY <1>6, <1>7, <2>1
<1> HIDE DEF m, n
<1>9. ~(i > m)
  <2> SUFFICES ASSUME i > m PROVE FALSE
    OBVIOUS
  <2>1. i \in (m + 1)..(m + n) /\ i - m \in 1..n
    BY <1>6
  <2>2. out[i] = t[i - m] /\ t[i - m] # Slash
    BY <1>5, <1>7, <2>1 DEF n
  <2> QED
    BY <1>6, <2>2
<1>10. ~(i < m)
  <2> SUFFICES ASSUME i < m PROVE FALSE
    OBVIOUS
  <2>1. m - 1 \in i..(Len(out) - 2) /\ (m - 1) + 1 = m /\ m > 0
    BY <1>6
  <2> QED
    BY <1>8, <2>1
<1>11. i = m
  BY <1>6, <1>9, <1>10
<1>12. SubSeq(out, 1, m) = Flat(v)
  <2>1. out \in Seq(Letter) /\ \A k \in 1..m : out[k] \in Letter
    BY <1>6 DEF TermString
  <2>2. SubSeq(out, 1, m) \in Seq(Letter) /\ Len(SubSeq(out, 1, m)) = m
    BY <1>6, <2>1
  <2>3. \A k \in 1..m : SubSeq(out, 1, m)[k] = out[k]
    BY <1>6, <2>1
  <2> QED
    BY <1>5, <1>7, <2>2, <2>3, SeqEqual DEF m
<1>13. Walk(w, <<Dot, Dot>>) = v
  BY <1>1, <1>2, WalkNames DEF v
<1> QED
  BY <1>3, <1>11, <1>12, <1>13, DotDotRead DEF Between, w

\* A name begins, goes on and ends.
LEMMA NameStarts ==
    ASSUME NEW s \in TermString, NEW out, Between(s, out), NEW ch \in Char
    PROVE  InName(Append(s, ch), out, <<ch>>)
<1>1. ch \in Letter \ {Slash}
  BY Distinct
<1>2. Dir(<<>>, Append(s, ch)) = Dir(<<>>, s) /\ LastTerm(Append(s, ch)) = Append(LastTerm(s), ch)
  BY <1>1, EmptyPath, ReadChar
<1>3. Append(<<>>, ch) = <<ch>> /\ <<ch>> \in Name
  BY NameOne
<1> QED
  BY <1>2, <1>3 DEF Between, InName

LEMMA NameGoesOn ==
    ASSUME NEW s \in TermString, NEW before, NEW last, InName(s, before, last), NEW ch \in Char \cup {Dot}
    PROVE  InName(Append(s, ch), before, Append(last, ch))
<1>1. ch \in Letter \ {Slash}
  BY Distinct
<1>2. Dir(<<>>, Append(s, ch)) = Dir(<<>>, s) /\ LastTerm(Append(s, ch)) = Append(LastTerm(s), ch)
  BY <1>1, EmptyPath, ReadChar
<1>3. Append(last, ch) \in Name
  BY NameAppend DEF InName
<1> QED
  BY <1>2, <1>3 DEF InName

LEMMA NameEnds ==
    ASSUME NEW s \in TermString, NEW before, NEW last, InName(s, before, last)
    PROVE  Between(Append(s, Slash), before \o last \o <<Slash>>)
<1>1. Dir(<<>>, Append(s, Slash)) = Walk(Dir(<<>>, s), LastTerm(s)) /\ LastTerm(Append(s, Slash)) = <<>>
  BY EmptyPath, ReadSlash
<1>2. /\ Walk(Dir(<<>>, s), LastTerm(s)) = Append(Dir(<<>>, s), LastTerm(s))
      /\ Append(Dir(<<>>, s), LastTerm(s)) \in Seq(Name)
  BY WalkNames DEF InName
<1>3. Flat(Append(Dir(<<>>, s), LastTerm(s))) = before \o last \o <<Slash>>
  BY FlatLaws DEF InName
<1> QED
  BY <1>1, <1>2, <1>3 DEF Between

\* What has been read cannot become a path any more.
Bad(s) ==
    \/ Dir(<<>>, s) = Broken
    \/ /\ Len(LastTerm(s)) >= 2 /\ LastTerm(s)[1] = Dot
       /\ LastTerm(s) # <<Dot, Dot>>

LEMMA WalkBad ==
    ASSUME NEW s \in TermString, Bad(s)
    PROVE  Walk(Dir(<<>>, s), LastTerm(s)) = Broken
<1>1. CASE Dir(<<>>, s) = Broken
  BY <1>1 DEF Walk
<1>2. CASE Dir(<<>>, s) # Broken
  <2>1. LastTerm(s) \in Seq(Letter) /\ Len(LastTerm(s)) >= 2 /\ LastTerm(s)[1] = Dot /\ LastTerm(s) # <<Dot, Dot>>
    BY <1>2, EmptyPath, ReadAll DEF Bad, TermString
  <2>2. LastTerm(s) # <<>> /\ LastTerm(s) # <<Dot>> /\ ~IsName(LastTerm(s))
    <3>1. ASSUME NEW l \in Seq(Letter), Len(l) >= 2, l[1] = Dot
          PROVE  l # <<>> /\ l # <<Dot>> /\ Head(l) = Dot
      <4>1. Len(<<>>) = 0 /\ Len(<<Dot>>) = 1
        OBVIOUS
      <4>2. l # <<>> /\ l # <<Dot>>
        <5>1. ASSUME NEW n \in Int, n >= 2 PROVE n # 0 /\ n # 1
          BY <5>1
        <5>2. Len(l) \in Int
          OBVIOUS
        <5>3. Len(l) # 0 /\ Len(l) # 1
          BY <3>1, <5>1, <5>2
        <5> QED
          BY <4>1, <5>3, Zenon
      <4> QED
        BY <3>1, <4>2
    <3> QED
      BY <2>1, <3>1 DEF IsName
  <2> QED
    BY <1>2, <2>1, <2>2 DEF Walk
<1> QED
  BY <1>1, <1>2

LEMMA StaysBad ==
    ASSUME NEW s \in TermString, Bad(s), NEW ch \in Letter
    PROVE  Bad(Append(s, ch))
<1>1. CASE ch = Slash
  BY <1>1, EmptyPath, ReadSlash, WalkBad DEF Bad
<1>2. CASE ch # Slash
  <2>1. Dir(<<>>, Append(s, ch)) = Dir(<<>>, s) /\ LastTerm(Append(s, ch)) = Append(LastTerm(s), ch)
    BY <1>2, EmptyPath, ReadChar
  <2>2. CASE Dir(<<>>, s) = Broken
    BY <2>1, <2>2 DEF Bad
  <2>3. CASE Dir(<<>>, s) # Broken
    <3>1. LastTerm(s) \in Seq(Letter) /\ Len(LastTerm(s)) >= 2 /\ LastTerm(s)[1] = Dot
      BY <2>3, EmptyPath, ReadAll DEF Bad, TermString
    <3>2. Len(Append(LastTerm(s), ch)) >= 3 /\ Append(LastTerm(s), ch)[1] = Dot
      BY <3>1
    <3>3. Append(LastTerm(s), ch) # <<Dot, Dot>>
      BY <3>2
    <3> QED
      BY <2>1, <3>2, <3>3 DEF Bad
  <2> QED
    BY <2>2, <2>3
<1> QED
  BY <1>1, <1>2

LEMMA BadPrefix ==
    ASSUME NEW s \in TermString, NEW n \in 0..Len(s), Bad(SubSeq(s, 1, n))
    PROVE  PathOf(s) = Broken
<1> DEFINE S == {k \in Nat : n + k <= Len(s) => Bad(SubSeq(s, 1, n + k))}
<1>1. 0 \in S
  OBVIOUS
<1>2. ASSUME NEW k \in Nat, k \in S PROVE k + 1 \in S
  <2> SUFFICES ASSUME n + (k + 1) <= Len(s) PROVE Bad(SubSeq(s, 1, n + (k + 1)))
    OBVIOUS
  <2>1. PICK m : m = n + k
    OBVIOUS
  <2>2. m \in 0..(Len(s) - 1) /\ n + (k + 1) = m + 1 /\ m \in 0..Len(s) /\ Len(s) \in Nat
    BY <2>1 DEF TermString
  <2>3. Bad(SubSeq(s, 1, m))
    BY <1>2, <2>1, <2>2
  <2>4. s[m + 1] \in Letter
    BY <2>2 DEF TermString
  <2>5. SubSeq(s, 1, m) \in TermString /\ SubSeq(s, 1, m + 1) = Append(SubSeq(s, 1, m), s[m + 1])
    BY <2>2, Prefix
  <2>6. Bad(Append(SubSeq(s, 1, m), s[m + 1]))
    BY <2>3, <2>4, <2>5, StaysBad
  <2> QED
    BY <2>2, <2>5, <2>6
<1>3. \A k \in Nat : k \in S
  <2> HIDE DEF S
  <2> QED
    BY <1>1, <1>2, NatInd
<1>4. Len(s) \in Nat /\ Len(s) - n \in Nat /\ n + (Len(s) - n) = Len(s)
  BY DEF TermString
<1>5. Len(s) - n \in S
  BY <1>3, <1>4
<1>6. Bad(SubSeq(s, 1, Len(s)))
  BY <1>4, <1>5
<1>7. Bad(s)
  BY <1>6, Prefix
<1> QED
  BY <1>7, WalkBad DEF PathOf

\* The ways an id fails at the start of a term.
LEMMA Failures ==
    ASSUME NEW s \in TermString, NEW out, Between(s, out)
    PROVE  /\ ~IsName(LastTerm(s))
           /\ ~IsName(LastTerm(Append(s, Dot)))
           /\ ~IsName(LastTerm(Append(Append(s, Dot), Dot)))
           /\ \A ch \in Char : Bad(Append(Append(s, Dot), ch))
           /\ \A ch \in Char \cup {Dot} : Bad(Append(Append(Append(s, Dot), Dot), ch))
           /\ out = <<>> => Bad(Append(Append(Append(s, Dot), Dot), Slash))
<1> DEFINE s1 == Append(s, Dot)
           s2 == Append(s1, Dot)
<1>1. Dot \in Letter \ {Slash} /\ s1 \in TermString /\ s2 \in TermString
  BY Distinct DEF TermString
<1>2. LastTerm(s1) = Append(LastTerm(s), Dot) /\ Append(LastTerm(s), Dot) = <<Dot>>
  <2>1. LastTerm(s1) = Append(LastTerm(s), Dot)
    BY <1>1, EmptyPath, ReadChar
  <2>2. Append(LastTerm(s), Dot) = <<Dot>>
    BY DEF Between
  <2> QED
    BY <2>1, <2>2
<1>3. LastTerm(s2) = <<Dot, Dot>>
  BY DotDotRead
<1>4. ~IsName(LastTerm(s)) /\ ~IsName(LastTerm(s1)) /\ ~IsName(LastTerm(s2))
  BY <1>2, <1>3 DEF IsName, Between
<1>5. ASSUME NEW ch \in Char PROVE Bad(Append(s1, ch))
  <2>1. ch \in Letter \ {Slash} /\ ch # Dot
    BY Distinct
  <2>2. LastTerm(Append(s1, ch)) = Append(<<Dot>>, ch)
    <3>1. LastTerm(Append(s1, ch)) = Append(LastTerm(s1), ch)
      BY <1>1, <2>1, EmptyPath, ReadChar
    <3> QED
      BY <1>2, <3>1, Zenon
  <2>3. Len(Append(<<Dot>>, ch)) = 2 /\ Append(<<Dot>>, ch)[1] = Dot /\ Append(<<Dot>>, ch)[2] = ch
    OBVIOUS
  <2>4. <<Dot, Dot>>[2] = Dot
    OBVIOUS
  <2>5. Append(<<Dot>>, ch) # <<Dot, Dot>>
    BY <2>1, <2>3, <2>4
  <2> HIDE DEF s1
  <2>6. 2 >= 2
    OBVIOUS
  <2> QED
    BY <2>2, <2>3, <2>5, <2>6, Zenon DEF Bad
<1>6. ASSUME NEW ch \in Char \cup {Dot} PROVE Bad(Append(s2, ch))
  <2>1. ch \in Letter \ {Slash}
    BY Distinct
  <2>2. LastTerm(Append(s2, ch)) = Append(<<Dot, Dot>>, ch)
    <3>1. LastTerm(Append(s2, ch)) = Append(LastTerm(s2), ch)
      BY <1>1, <2>1, EmptyPath, ReadChar
    <3> QED
      BY <1>3, <3>1, Zenon
  <2>3. Len(Append(<<Dot, Dot>>, ch)) = 3 /\ Append(<<Dot, Dot>>, ch)[1] = Dot
    OBVIOUS
  <2>4. Len(<<Dot, Dot>>) = 2
    OBVIOUS
  <2> QED
    BY <2>2, <2>3, <2>4 DEF Bad
<1>7. ASSUME out = <<>> PROVE Bad(Append(s2, Slash))
  <2>1. Dir(<<>>, s) = <<>>
    BY <1>7, FlatLaws DEF Between
  <2>2. Dir(<<>>, Append(s2, Slash)) = Broken
    BY <2>1, DotDotRead, WalkNames, NameFacts
  <2> QED
    BY <2>2 DEF Bad
<1> QED
  BY <1>4, <1>5, <1>6, <1>7

---------------------------------------------------------------------------
(* The buffer against the terms. *)

Read == SubSeq(input, 1, p)
Before == [i \in 1..qLast |-> buf[i - 1]]

\* What has been written is what the terms read so far come to, up to the name being copied.
ByTerms ==
    /\ pc \in {"term", "slashes"} => Between(Read, Output)
    /\ pc = "copy" => InName(Read, Before, Append(LastComponent, c))
    /\ pc = "done" => InName(input, Before, LastComponent)
    /\ pc = "error" => Len(input) >= Limit \/ PathOf(input) = Broken

\* A slash at the start of a term is the first character.
Slashes ==
    /\ pc = "term" /\ p > 0 => buf[p] # Slash
    /\ pc \in {"slashes", "copy"} => p > 0
    /\ (Running /\ p > 0) \/ pc = "done" => input # <<>> /\ input[1] # Slash

RInv == IInv /\ ByTerms /\ Slashes

\* What is still to be read is there.
LEMMA Unread ==
    ASSUME IInv, Running
    PROVE  /\ input \in TermString /\ p \in 0..Len(input) /\ Len(input) \in Nat
           /\ \A k \in p..Len(input) :
                 /\ SubSeq(input, 1, k) \in TermString
                 /\ buf[k] \in Letter \cup {Nul}
                 /\ buf[k] = Nul <=> k = Len(input)
                 /\ buf[k] # Nul => /\ k + 1 \in p..Len(input)
                                    /\ buf[k] = input[k + 1]
                                    /\ SubSeq(input, 1, k + 1) = Append(SubSeq(input, 1, k), buf[k])
           /\ SubSeq(input, 1, Len(input)) = input
<1>1. input \in Seq(Letter) /\ Len(input) \in Nat /\ p \in 0..Len(input)
  BY InputType DEF IInv, TypeOK, Places
<1>2. \A k \in p..Len(input) : buf[k] = inputAt(k)
  BY DEF IInv, InPlace
<1>3. input \in TermString
  BY <1>1 DEF TermString
<1>4. ASSUME NEW k \in p..Len(input)
      PROVE  /\ SubSeq(input, 1, k) \in TermString
             /\ buf[k] \in Letter \cup {Nul}
             /\ buf[k] = Nul <=> k = Len(input)
             /\ buf[k] # Nul => /\ k + 1 \in p..Len(input)
                                /\ buf[k] = input[k + 1]
                                /\ SubSeq(input, 1, k + 1) = Append(SubSeq(input, 1, k), buf[k])
  <2>1. k \in 0..Len(input)
    BY <1>1
  <2>2. CASE k = Len(input)
    BY <1>2, <1>3, <2>1, <2>2, InputType, Prefix DEF IInv
  <2>3. CASE k # Len(input)
    <3>1. k \in 0..(Len(input) - 1) /\ k + 1 \in p..Len(input) /\ k + 1 \in 1..Len(input)
      BY <1>1, <2>1, <2>3
    <3>2. buf[k] = input[k + 1] /\ input[k + 1] \in Letter
      BY <1>1, <1>2, <2>3, <3>1 DEF inputAt
    <3>3. SubSeq(input, 1, k + 1) = Append(SubSeq(input, 1, k), input[k + 1])
      BY <1>3, <3>1, Prefix
    <3>4. SubSeq(input, 1, k) \in TermString
      BY <1>3, <2>1, Prefix
    <3> QED
      BY <2>3, <3>1, <3>2, <3>3, <3>4, Distinct
  <2> QED
    BY <2>2, <2>3
<1> QED
  BY <1>1, <1>3, <1>4, Prefix

LEMMA InitTerms == Init => RInv
<1> SUFFICES ASSUME Init PROVE RInv
  OBVIOUS
<1>1. ByTerms /\ Slashes
  BY DEF Init, ByTerms, Slashes, Running
<1> QED
  BY <1>1, InitInv DEF RInv

LEMMA FormatTerms == RInv /\ Format => (ByTerms /\ Slashes)'
<1> SUFFICES ASSUME RInv, Format PROVE (ByTerms /\ Slashes)'
  OBVIOUS
<1>1. input' = input /\ p' = 0 /\ q' = 0
  BY DEF Format, input, isRelative, call, RInv, IInv, Places
<1>2. CASE Len(input) >= Limit
  BY <1>1, <1>2 DEF Format, ByTerms, Slashes, Running
<1>3. CASE ~(Len(input) >= Limit)
  <2>1. pc' = "term"
    BY <1>3 DEF Format
  <2>2. Read' = <<>> /\ Output' = <<>>
    <3>1. Read' = SubSeq(input, 1, 0)
      BY <1>1 DEF Read
    <3>2. Output' = [i \in 1..0 |-> buf'[i - 1]]
      BY <1>1 DEF Output
    <3>3. Output' = <<>>
      BY <3>2
    <3> QED
      BY <3>1, <3>3, SubSeqEmpty
  <2>3. Between(<<>>, <<>>)
    BY EmptyPath, ReadNothing, NameFacts, FlatLaws DEF Between
  <2> QED
    BY <1>1, <2>1, <2>2, <2>3 DEF ByTerms, Slashes, Running
<1> QED
  BY <1>2, <1>3

\* The id fails at the start of a term: it cannot become a path.
LEMMA ErrorTerms == RInv /\ Term /\ TermError => PathOf(input) = Broken
<1> SUFFICES ASSUME RInv, Term, TermError PROVE PathOf(input) = Broken
  OBVIOUS
<1>1. IInv /\ Running /\ pc = "term" /\ Between(Read, Output)
  BY DEF RInv, ByTerms, Term, Running
<1>2. PICK s : s = Read
  OBVIOUS
<1>3. PICK out : out = Output
  OBVIOUS
<1>4. PICK k : k = p
  OBVIOUS
<1>5. /\ input \in TermString /\ k \in 0..Len(input) /\ Len(input) \in Nat
      /\ SubSeq(input, 1, Len(input)) = input /\ s = SubSeq(input, 1, k)
      /\ k \in p..Len(input) /\ s \in TermString
  <2>1. /\ input \in TermString /\ p \in 0..Len(input) /\ Len(input) \in Nat
        /\ SubSeq(input, 1, Len(input)) = input
    BY <1>1, Unread
  <2>2. p \in p..Len(input)
    BY <2>1
  <2>3. SubSeq(input, 1, p) \in TermString
    BY <1>1, <2>2, Unread
  <2> QED
    BY <1>2, <1>4, <2>1, <2>2, <2>3 DEF Read
<1>60. k \in k..Len(input)
  BY <1>5
<1>6. \A j \in k..Len(input) :
         /\ buf[j] \in Letter \cup {Nul}
         /\ buf[j] = Nul <=> j = Len(input)
         /\ buf[j] # Nul => /\ j + 1 \in k..Len(input)
                            /\ SubSeq(input, 1, j + 1) = Append(SubSeq(input, 1, j), buf[j])
  BY <1>1, <1>4, Unread
<1>7. /\ ~IsName(LastTerm(s))
      /\ ~IsName(LastTerm(Append(s, Dot)))
      /\ ~IsName(LastTerm(Append(Append(s, Dot), Dot)))
      /\ \A ch \in Char : Bad(Append(Append(s, Dot), ch))
      /\ \A ch \in Char \cup {Dot} : Bad(Append(Append(Append(s, Dot), Dot), ch))
      /\ out = <<>> => Bad(Append(Append(Append(s, Dot), Dot), Slash))
  BY <1>1, <1>2, <1>3, <1>5, Failures
<1>8. CASE buf[k] = Nul
  <2>1. s = input
    BY <1>5, <1>6, <1>60, <1>8
  <2> QED
    BY <1>7, <2>1 DEF PathOf
<1>9. CASE buf[k] = Slash
  <2>1. k = 0
    BY <1>1, <1>4, <1>5, <1>9 DEF RInv, Slashes
  <2>2. buf[k] # Nul
    BY <1>9, Distinct
  <2>3. input[1] = Slash
    <3>1. buf[k] = input[k + 1]
      BY <1>1, <1>4, <1>5, <2>2, Unread
    <3>2. k + 1 = 1
      BY <2>1
    <3> QED
      BY <1>9, <3>1, <3>2
  <2> QED
    BY <2>3 DEF PathOf
<1>10. CASE buf[k] = Dot
  <2>1. /\ k + 1 \in k..Len(input) /\ SubSeq(input, 1, k + 1) = Append(s, Dot)
        /\ buf[k + 1] # Slash /\ (AtDotDot => q = 0)
    BY <1>4, <1>5, <1>6, <1>10, Distinct DEF TermError
  <2>2. CASE buf[k + 1] = Nul
    BY <1>5, <1>6, <1>7, <2>1, <2>2 DEF PathOf
  <2>3. CASE buf[k + 1] \in Char
    <3>1. /\ (k + 1) + 1 \in k..Len(input)
          /\ SubSeq(input, 1, (k + 1) + 1) = Append(Append(s, Dot), buf[k + 1])
      BY <1>6, <2>1, <2>3, Distinct
    <3>2. Bad(SubSeq(input, 1, (k + 1) + 1))
      BY <1>7, <2>3, <3>1
    <3>3. (k + 1) + 1 \in 0..Len(input)
      BY <1>5, <3>1
    <3> QED
      BY <1>5, <3>2, <3>3, BadPrefix
  <2>4. CASE buf[k + 1] = Dot
    <3>1. /\ (k + 1) + 1 \in k..Len(input)
          /\ SubSeq(input, 1, (k + 1) + 1) = Append(Append(s, Dot), Dot)
      BY <1>6, <2>1, <2>4, Distinct
    <3>2. PICK j : j = (k + 1) + 1
      OBVIOUS
    <3>3. j \in k..Len(input) /\ SubSeq(input, 1, j) = Append(Append(s, Dot), Dot) /\ j = k + 2
      BY <1>5, <3>1, <3>2
    <3>4. CASE buf[j] = Nul
      BY <1>5, <1>6, <1>7, <3>3, <3>4 DEF PathOf
    <3>5. CASE buf[j] # Nul
      <4>1. /\ j + 1 \in 0..Len(input)
            /\ SubSeq(input, 1, j + 1) = Append(Append(Append(s, Dot), Dot), buf[j])
        <5>1. /\ j + 1 \in k..Len(input)
              /\ SubSeq(input, 1, j + 1) = Append(SubSeq(input, 1, j), buf[j])
          BY <1>6, <3>3, <3>5
        <5> QED
          BY <1>5, <3>3, <5>1
      <4>2. buf[j] = Slash => out = <<>>
        <5>1. buf[j] = Slash => AtDotDot
          BY <1>4, <1>10, <2>4, <3>3 DEF AtDotDot
        <5>2. q = 0 => Output = <<>>
          BY DEF Output
        <5> QED
          BY <1>3, <2>1, <5>1, <5>2
      <4>3. buf[j] \in Char \cup {Dot, Slash}
        BY <1>6, <3>3, <3>5, Distinct
      <4>4. Bad(SubSeq(input, 1, j + 1))
        BY <1>7, <4>1, <4>2, <4>3
      <4> QED
        BY <1>5, <4>1, <4>4, BadPrefix
    <3> QED
      BY <3>4, <3>5
  <2> QED
    BY <1>6, <2>1, <2>2, <2>3, <2>4, Distinct
<1> QED
  BY <1>4, <1>8, <1>9, <1>10 DEF TermError

LEMMA TermTerms == RInv /\ Term => (ByTerms /\ Slashes)'
<1> SUFFICES ASSUME RInv, Term PROVE (ByTerms /\ Slashes)'
  OBVIOUS
<1>1. IInv /\ Running /\ pc = "term" /\ Between(Read, Output)
  BY DEF RInv, ByTerms, Term, Running
<1>2. input' = input /\ buf' = buf /\ qLast' = q
  BY DEF Term, input, isRelative, call
<1>3. p \in Nat /\ q \in Nat /\ q <= p
  BY <1>1 DEF IInv, TypeOK, InPlace
<1>4. PICK s : s = Read
  OBVIOUS
<1>5. PICK out : out = Output
  OBVIOUS
<1>6. /\ input \in TermString /\ p \in p..Len(input) /\ p \in 0..Len(input) /\ Len(input) \in Nat
      /\ s = SubSeq(input, 1, p) /\ s \in TermString
  <2>1. input \in TermString /\ p \in 0..Len(input) /\ Len(input) \in Nat
    BY <1>1, Unread
  <2>2. p \in p..Len(input)
    BY <2>1
  <2>3. SubSeq(input, 1, p) \in TermString
    BY <1>1, <2>2, Unread
  <2> QED
    BY <1>4, <2>1, <2>2, <2>3 DEF Read
<1>7. \A j \in p..Len(input) :
         buf[j] # Nul => /\ j + 1 \in p..Len(input)
                         /\ buf[j] = input[j + 1]
                         /\ SubSeq(input, 1, j + 1) = Append(SubSeq(input, 1, j), buf[j])
  BY <1>1, Unread
<1>8. buf[p] # Slash /\ buf[p] # Nul => input # <<>> /\ input[1] # Slash
  <2>1. CASE p > 0
    BY <1>1, <2>1 DEF RInv, Slashes
  <2>2. CASE p = 0
    <3>1. buf[p] # Nul => buf[p] = input[1] /\ input # <<>>
      BY <1>6, <1>7, <2>2 DEF TermString
    <3> QED
      BY <3>1
  <2> QED
    BY <1>3, <2>1, <2>2
<1>9. Between(s, out)
  BY <1>1, <1>4, <1>5
<1>10. CASE TermDot
  <2>1. buf[p] = Dot /\ buf[p + 1] = Slash /\ pc' = "slashes" /\ p' = p + 2 /\ q' = q
    BY <1>10 DEF TermDot
  <2>2. p + 1 \in p..Len(input) /\ SubSeq(input, 1, p + 1) = Append(s, Dot)
    BY <1>6, <1>7, <2>1, Distinct
  <2>3. SubSeq(input, 1, (p + 1) + 1) = Append(Append(s, Dot), Slash)
    BY <1>7, <2>1, <2>2, Distinct
  <2>4. Read' = Append(Append(s, Dot), Slash) /\ Output' = out
    <3>1. Output' = Output
      BY <1>2, <2>1 DEF Output
    <3>2. p' = (p + 1) + 1
      BY <1>3, <2>1
    <3> QED
      BY <1>2, <1>5, <2>3, <3>1, <3>2 DEF Read
  <2>5. Between(Append(Append(s, Dot), Slash), out)
    BY <1>6, <1>9, AfterDot
  <2>6. input # <<>> /\ input[1] # Slash
    BY <1>8, <2>1, Distinct
  <2> QED
    BY <1>2, <1>3, <2>1, <2>4, <2>5, <2>6 DEF ByTerms, Slashes
<1>11. CASE TermDotDot
  <2>1. /\ buf[p] = Dot /\ buf[p + 1] = Dot /\ buf[p + 2] = Slash
        /\ pc' = "slashes" /\ p' = p + 3 /\ q # 0
    BY <1>11 DEF TermDotDot, AtDotDot
  <2>2. PICK i \in 0..(q - 1) : IsStartOfLast(i) /\ q' = i
    BY <1>11 DEF TermDotDot
  <2>3. p + 1 \in p..Len(input) /\ SubSeq(input, 1, p + 1) = Append(s, Dot)
    BY <1>6, <1>7, <2>1, Distinct
  <2>4. (p + 1) + 1 \in p..Len(input) /\ SubSeq(input, 1, (p + 1) + 1) = Append(Append(s, Dot), Dot)
    BY <1>7, <2>1, <2>3, Distinct
  <2>5. (p + 1) + 1 = p + 2 /\ (p + 2) + 1 = p + 3
    BY <1>3
  <2>6. SubSeq(input, 1, p + 3) = Append(Append(Append(s, Dot), Dot), Slash)
    BY <1>7, <2>1, <2>4, <2>5, Distinct
  <2>7. Read' = Append(Append(Append(s, Dot), Dot), Slash)
    BY <1>2, <2>1, <2>6 DEF Read
  <2>8. /\ out \in TermString /\ Len(out) = q
        /\ \A j \in 1..q : out[j] = buf[j - 1]
    <3>1. \A j \in 1..q : buf[j - 1] \in Letter
      BY <1>1, <1>3 DEF IInv, Components
    <3> QED
      BY <1>3, <1>5, <3>1 DEF Output, TermString
  <2>9. i > 0 => out[i] = Slash
    BY <1>3, <2>2, <2>8 DEF IsStartOfLast
  <2>10. ASSUME NEW j \in i..(Len(out) - 2) PROVE out[j + 1] # Slash
    <3>1. j \in i..(q - 2) /\ j + 1 \in 1..q /\ (j + 1) - 1 = j
      BY <1>3, <2>2, <2>8
    <3> QED
      BY <2>2, <2>8, <3>1 DEF IsStartOfLast
  <2>11. Output' = SubSeq(out, 1, i)
    <3>1. Output' = [j \in 1..i |-> buf[j - 1]]
      BY <1>2, <2>2 DEF Output
    <3>2. i \in Nat /\ i < q
      BY <1>3, <2>2
    <3>3. out \in Seq(Letter) /\ \A j \in 1..i : out[j] \in Letter
      BY <2>8, <3>2 DEF TermString
    <3>4. /\ SubSeq(out, 1, i) \in Seq(Letter) /\ Len(SubSeq(out, 1, i)) = i
          /\ \A j \in 1..i : SubSeq(out, 1, i)[j] = out[j]
      BY <2>8, <3>2, <3>3
    <3>5. \A j \in 1..i : Output'[j] = out[j]
      BY <2>8, <3>1, <3>2
    <3>6. Output' \in Seq(Letter) /\ Len(Output') = i
      <4>1. ASSUME NEW j \in 1..i PROVE buf[j - 1] \in Letter
        <5>1. j \in 1..q
          BY <2>8, <3>2
        <5> QED
          BY <2>8, <3>3, <5>1
      <4> QED
        BY <3>1, <3>2, <4>1
    <3> QED
      BY <3>4, <3>5, <3>6, SeqEqual
  <2>12. Between(Append(Append(Append(s, Dot), Dot), Slash), SubSeq(out, 1, i))
    BY <1>6, <1>9, <2>2, <2>8, <2>9, <2>10, AfterDotDot
  <2>13. input # <<>> /\ input[1] # Slash
    BY <1>8, <2>1, Distinct
  <2> QED
    BY <1>2, <1>3, <2>1, <2>7, <2>11, <2>12, <2>13 DEF ByTerms, Slashes
<1>12. CASE TermName
  <2>1. buf[p] \in Char /\ pc' = "copy" /\ c' = buf[p] /\ p' = p + 1 /\ q' = q
    BY <1>12 DEF TermName
  <2>2. Read' = Append(s, buf[p])
    BY <1>2, <1>6, <1>7, <2>1, Distinct DEF Read
  <2>3. Before' = out
    BY <1>2, <1>5 DEF Before, Output
  <2>4. LastComponent' = <<>>
    <3>1. LastComponent' = [j \in 1..(q - q) |-> buf[q + j - 1]]
      BY <1>2, <2>1 DEF LastComponent
    <3>2. q - q = 0
      BY <1>3
    <3> QED
      BY <3>1, <3>2
  <2>5. InName(Append(s, buf[p]), out, <<buf[p]>>)
    BY <1>6, <1>9, <2>1, NameStarts
  <2>6. Append(<<>>, buf[p]) = <<buf[p]>>
    OBVIOUS
  <2>7. input # <<>> /\ input[1] # Slash
    BY <1>8, <2>1, Distinct
  <2> QED
    BY <1>2, <1>3, <2>1, <2>2, <2>3, <2>4, <2>5, <2>6, <2>7 DEF ByTerms, Slashes
<1>13. CASE TermError
  <2>1. PathOf(input') = Broken
    BY <1>2, <1>13, ErrorTerms
  <2> QED
    BY <2>1, <1>13 DEF TermError, ByTerms, Slashes, Running
<1> QED
  BY <1>10, <1>11, <1>12, <1>13 DEF Term

\* A buffer's first bytes are those before a place and those after it.
LEMMA TwoPieces ==
    ASSUME NEW b2, NEW a \in Nat, NEW n \in Nat, a <= n, \A i \in 1..n : b2[i - 1] \in Letter
    PROVE  [i \in 1..n |-> b2[i - 1]]
             = [i \in 1..a |-> b2[i - 1]] \o [i \in 1..(n - a) |-> b2[a + i - 1]]
<1> DEFINE u == [i \in 1..n |-> b2[i - 1]]
           v == [i \in 1..a |-> b2[i - 1]]
           w == [i \in 1..(n - a) |-> b2[a + i - 1]]
<1>1. u \in Seq(Letter) /\ Len(u) = n /\ \A i \in 1..n : u[i] = b2[i - 1]
  OBVIOUS
<1>2. v \in Seq(Letter) /\ Len(v) = a /\ \A i \in 1..a : v[i] = b2[i - 1]
  <2>1. \A i \in 1..a : b2[i - 1] \in Letter
    OBVIOUS
  <2> QED
    BY <2>1
<1>3. w \in Seq(Letter) /\ Len(w) = n - a /\ \A i \in 1..(n - a) : w[i] = b2[a + i - 1]
  <2>1. ASSUME NEW i \in 1..(n - a) PROVE b2[a + i - 1] \in Letter
    <3>1. a + i \in 1..n
      OBVIOUS
    <3> QED
      BY <3>1
  <2>2. PICK m : m = n - a
    OBVIOUS
  <2>3. m \in Nat
    BY <2>2
  <2>4. w = [i \in 1..m |-> b2[a + i - 1]]
    BY <2>2
  <2>5. \A i \in 1..m : b2[a + i - 1] \in Letter
    BY <2>1, <2>2
  <2> HIDE DEF w
  <2>6. w \in Seq(Letter) /\ Len(w) = m /\ \A i \in 1..m : w[i] = b2[a + i - 1]
    BY <2>3, <2>4, <2>5
  <2> QED
    BY <2>2, <2>6
<1> HIDE DEF u, v, w
<1>4. v \o w \in Seq(Letter) /\ Len(v \o w) = n
  <2>1. v \o w \in Seq(Letter) /\ Len(v \o w) = Len(v) + Len(w)
    BY <1>2, <1>3, ConcatProperties
  <2>2. a + (n - a) = n
    OBVIOUS
  <2> QED
    BY <1>2, <1>3, <2>1, <2>2
<1>5. ASSUME NEW i \in 1..n PROVE (v \o w)[i] = u[i]
  <2>1. CASE i <= a
    <3>1. (v \o w)[i] = v[i]
      BY <1>2, <1>3, <2>1
    <3> QED
      BY <1>1, <1>2, <2>1, <3>1
  <2>2. CASE i > a
    <3>1. (v \o w)[i] = w[i - a] /\ i - a \in 1..(n - a)
      BY <1>2, <1>3, <2>2
    <3>2. a + (i - a) - 1 = i - 1
      OBVIOUS
    <3> QED
      BY <1>1, <1>3, <3>1, <3>2
  <2>3. i <= a \/ i > a
    OBVIOUS
  <2> QED
    BY <2>1, <2>2, <2>3, Zenon
<1>6. u = v \o w
  BY <1>1, <1>4, <1>5, SeqEqual
<1> QED
  BY <1>6 DEF u, v, w

LEMMA Pieces ==
    ASSUME NEW b2, NEW a \in Nat, NEW n \in Nat, a <= n, b2[n + 1] = Slash,
           \A i \in 1..(n + 2) : b2[i - 1] \in Letter
    PROVE  [i \in 1..(n + 2) |-> b2[i - 1]]
             = [i \in 1..a |-> b2[i - 1]] \o [i \in 1..((n + 1) - a) |-> b2[a + i - 1]] \o <<Slash>>
<1> DEFINE u == [i \in 1..(n + 2) |-> b2[i - 1]]
           x == [i \in 1..(n + 1) |-> b2[i - 1]]
<1>1. u \in Seq(Letter) /\ Len(u) = n + 2 /\ \A i \in 1..(n + 2) : u[i] = b2[i - 1]
  OBVIOUS
<1>2. x \in Seq(Letter) /\ Len(x) = n + 1 /\ \A i \in 1..(n + 1) : x[i] = b2[i - 1]
  <2>1. \A i \in 1..(n + 1) : b2[i - 1] \in Letter
    OBVIOUS
  <2> QED
    BY <2>1
<1>3. x = [i \in 1..a |-> b2[i - 1]] \o [i \in 1..((n + 1) - a) |-> b2[a + i - 1]]
  BY TwoPieces
<1> HIDE DEF u, x
<1>4. <<Slash>> \in Seq(Letter) /\ Len(<<Slash>>) = 1 /\ <<Slash>>[1] = Slash
  BY Distinct
<1>5. x \o <<Slash>> \in Seq(Letter) /\ Len(x \o <<Slash>>) = n + 2
  BY <1>2, <1>4
<1>6. ASSUME NEW i \in 1..(n + 2) PROVE (x \o <<Slash>>)[i] = u[i]
  <2>1. CASE i <= n + 1
    <3>1. (x \o <<Slash>>)[i] = x[i] /\ i \in 1..(n + 1)
      BY <1>2, <1>4, <2>1
    <3> QED
      BY <1>1, <1>2, <3>1
  <2>2. CASE i = n + 2
    <3>1. (x \o <<Slash>>)[i] = <<Slash>>[1] /\ i - 1 = n + 1
      BY <1>2, <1>4, <2>2
    <3> QED
      BY <1>1, <1>4, <3>1
  <2>3. i <= n + 1 \/ i = n + 2
    OBVIOUS
  <2> QED
    BY <2>1, <2>2, <2>3, Zenon
<1>7. u = x \o <<Slash>>
  BY <1>1, <1>5, <1>6, SeqEqual
<1> QED
  BY <1>3, <1>7 DEF u

LEMMA CopyTerms == RInv /\ CopyName => (ByTerms /\ Slashes)'
<1> SUFFICES ASSUME RInv, CopyName PROVE (ByTerms /\ Slashes)'
  OBVIOUS
<1>1. IInv /\ Running /\ pc = "copy" /\ InName(Read, Before, Append(LastComponent, c)) /\ p > 0
  BY DEF RInv, ByTerms, Slashes, CopyName, Running
<1>2. input' = input /\ qLast' = qLast /\ p' = p + 1
  BY DEF CopyName, input, isRelative, call
<1>3. /\ p \in Nat /\ q \in Nat /\ qLast \in Nat /\ qLast <= q /\ q < p /\ p < Limit
      /\ buf \in [Index -> Byte] /\ Limit \in Nat /\ q \in Index
      /\ \A i \in qLast..(q - 1) : buf[i] # Slash
      /\ \A i \in 0..(q - 1) : buf[i] \in Letter
      /\ c \in Char \cup {Dot}
  <2>1. CopyOK /\ LastOK /\ p <= Len(input) /\ Len(input) < Limit /\ Len(input) \in Nat
    BY <1>1, InputType DEF IInv, Places
  <2>2. Limit \in Nat /\ p \in Nat /\ q \in Nat /\ qLast \in Nat /\ buf \in [Index -> Byte]
    BY <1>1, LimitAssumption DEF IInv, TypeOK
  <2> QED
    BY <1>1, <2>1, <2>2 DEF CopyOK, LastOK, Index, IInv, Components
<1>4. PICK s : s = Read
  OBVIOUS
<1>5. PICK before : before = Before
  OBVIOUS
<1>6. PICK last : last = LastComponent
  OBVIOUS
<1>7. /\ s = SubSeq(input, 1, p) /\ s \in TermString
      /\ buf[p] \in Letter \cup {Nul}
      /\ buf[p] = Nul <=> p = Len(input)
      /\ buf[p] # Nul => SubSeq(input, 1, p + 1) = Append(s, buf[p])
      /\ SubSeq(input, 1, Len(input)) = input
  <2>1. p \in p..Len(input) /\ SubSeq(input, 1, Len(input)) = input
    BY <1>1, Unread
  <2> QED
    BY <1>1, <1>4, <2>1, Unread DEF Read
<1>8. InName(s, before, Append(last, c))
  BY <1>1, <1>4, <1>5, <1>6
<1>9. input # <<>> /\ input[1] # Slash
  BY <1>1 DEF RInv, Slashes
\* The character just read goes behind the part of the name that is there.
<1>10. ASSUME NEW b2 \in [Index -> Byte], b2[q] = c, \A i \in 0..(q - 1) : b2[i] = buf[i]
       PROVE  /\ [i \in 1..qLast |-> b2[i - 1]] = before
              /\ [i \in 1..((q + 1) - qLast) |-> b2[qLast + i - 1]] = Append(last, c)
  <2>1. [i \in 1..qLast |-> b2[i - 1]] = before
    <3>1. \A i \in 1..qLast : i - 1 \in 0..(q - 1)
      BY <1>3
    <3>2. \A i \in 1..qLast : b2[i - 1] = buf[i - 1]
      BY <1>10, <3>1
    <3> QED
      BY <1>5, <3>2 DEF Before
  <2>2. /\ last \in Seq(Letter) /\ Len(last) = q - qLast
        /\ \A i \in 1..(q - qLast) : last[i] = buf[qLast + i - 1]
    <3>1. \A i \in 1..(q - qLast) : qLast + i - 1 \in 0..(q - 1)
      BY <1>3
    <3>2. \A i \in 1..(q - qLast) : buf[qLast + i - 1] \in Letter
      BY <1>3, <3>1
    <3>3. q - qLast \in Nat
      BY <1>3
    <3> QED
      BY <1>6, <3>2, <3>3 DEF LastComponent
  <2> DEFINE u == [i \in 1..((q + 1) - qLast) |-> b2[qLast + i - 1]]
  <2>3. PICK n : n = q - qLast
    OBVIOUS
  <2>4. n \in Nat /\ (q + 1) - qLast = n + 1 /\ Len(last) = n
    BY <1>3, <2>2, <2>3
  <2>5. c \in Letter
    BY <1>3, Distinct
  <2>6. ASSUME NEW i \in 1..n
        PROVE  u[i] = last[i] /\ u[i] \in Letter
    <3>1. i \in 1..((q + 1) - qLast) /\ qLast + i - 1 \in 0..(q - 1) /\ i \in 1..(q - qLast)
      BY <1>3, <2>3, <2>4
    <3>2. b2[qLast + i - 1] = buf[qLast + i - 1] /\ buf[qLast + i - 1] \in Letter
      BY <1>3, <1>10, <3>1
    <3> QED
      BY <2>2, <3>1, <3>2
  <2>7. u[n + 1] = c
    <3>1. n + 1 \in 1..((q + 1) - qLast) /\ qLast + (n + 1) - 1 = q
      BY <1>3, <2>3, <2>4
    <3> QED
      BY <1>10, <3>1
  <2>8. DOMAIN u = 1..(n + 1) /\ u = [i \in 1..(n + 1) |-> u[i]]
    BY <2>4
  <2> HIDE DEF u
  <2>9. \A i \in 1..(n + 1) : u[i] \in Letter
    BY <2>4, <2>5, <2>6, <2>7
  <2>10. u \in Seq(Letter) /\ Len(u) = n + 1
    BY <2>4, <2>8, <2>9
  <2>11. /\ Append(last, c) \in Seq(Letter) /\ Len(Append(last, c)) = n + 1
         /\ \A i \in 1..n : Append(last, c)[i] = last[i]
         /\ Append(last, c)[n + 1] = c
    BY <2>2, <2>4, <2>5, AppendProperties
  <2>12. \A i \in 1..(n + 1) : u[i] = Append(last, c)[i]
    BY <2>4, <2>6, <2>7, <2>11
  <2>13. u = Append(last, c)
    BY <2>10, <2>11, <2>12, SeqEqual
  <2> QED
    BY <2>1, <2>13 DEF u
<1>11. CASE buf[p] = Slash
  <2>1. /\ q' = q + 2 /\ pc' = "slashes" /\ buf' = [buf EXCEPT ![q] = c, ![q + 1] = Slash]
    BY <1>11, Distinct DEF CopyName
  <2>2. /\ buf'[q] = c /\ buf'[q + 1] = Slash /\ buf' \in [Index -> Byte]
        /\ \A i \in 0..(q - 1) : buf'[i] = buf[i]
    BY <1>3, <2>1, Distinct DEF Index
  <2>3. PICK b2 : b2 = buf'
    OBVIOUS
  <2>4. /\ [i \in 1..qLast |-> b2[i - 1]] = before
        /\ [i \in 1..((q + 1) - qLast) |-> b2[qLast + i - 1]] = Append(last, c)
    BY <1>10, <2>2, <2>3
  <2>5. Output' = before \o Append(last, c) \o <<Slash>>
    <3>1. Output' = [i \in 1..(q + 2) |-> b2[i - 1]]
      BY <2>1, <2>3 DEF Output
    <3>2. \A i \in 1..(q + 2) : b2[i - 1] \in Letter
      <4>1. c \in Letter /\ Slash \in Letter
        BY <1>3, Distinct
      <4>2. ASSUME NEW i \in 1..(q + 2) PROVE b2[i - 1] \in Letter
        <5>1. i - 1 \in 0..(q - 1) \/ i - 1 = q \/ i - 1 = q + 1
          BY <1>3
        <5> QED
          BY <1>3, <2>2, <2>3, <4>1, <5>1
      <4> QED
        BY <4>2
    <3>3. PICK n : n = q
      OBVIOUS
    <3>4. PICK a : a = qLast
      OBVIOUS
    <3>5. a \in Nat /\ n \in Nat /\ a <= n /\ b2[n + 1] = Slash
      BY <1>3, <2>2, <2>3, <3>3, <3>4
    <3>6. [i \in 1..(n + 2) |-> b2[i - 1]]
             = [i \in 1..a |-> b2[i - 1]] \o [i \in 1..((n + 1) - a) |-> b2[a + i - 1]] \o <<Slash>>
      <4>1. \A i \in 1..(n + 2) : b2[i - 1] \in Letter
        BY <3>2, <3>3, Zenon
      <4> QED
        BY <3>5, <4>1, Pieces, Zenon
    <3> QED
      BY <2>4, <3>1, <3>3, <3>4, <3>6, Zenon
  <2>6. Between(Append(s, Slash), before \o Append(last, c) \o <<Slash>>)
    BY <1>7, <1>8, NameEnds
  <2>7. Read' = Append(s, Slash)
    BY <1>2, <1>7, <1>11, Distinct DEF Read
  <2> QED
    BY <1>2, <1>3, <1>9, <2>1, <2>5, <2>6, <2>7 DEF ByTerms, Slashes
<1>12. CASE buf[p] # Slash
  <2>1. /\ q' = q + 1 /\ c' = buf[p] /\ buf' = [buf EXCEPT ![q] = c]
        /\ pc' = IF buf[p] = Nul THEN "done" ELSE "copy"
    BY <1>12 DEF CopyName
  <2>2. /\ buf'[q] = c /\ buf' \in [Index -> Byte]
        /\ \A i \in 0..(q - 1) : buf'[i] = buf[i]
    BY <1>3, <2>1, Distinct DEF Index
  <2>3. PICK b2 : b2 = buf'
    OBVIOUS
  <2>4. /\ [i \in 1..qLast |-> b2[i - 1]] = before
        /\ [i \in 1..((q + 1) - qLast) |-> b2[qLast + i - 1]] = Append(last, c)
    BY <1>10, <2>2, <2>3
  <2>5. Before' = before /\ LastComponent' = Append(last, c)
    BY <1>2, <2>1, <2>3, <2>4 DEF Before, LastComponent
  <2>6. CASE buf[p] = Nul
    <3>1. s = input
      BY <1>7, <2>6
    <3> QED
      BY <1>2, <1>8, <1>9, <2>1, <2>5, <2>6, <3>1 DEF ByTerms, Slashes, Running
  <2>7. CASE buf[p] # Nul
    <3>1. buf[p] \in Char \cup {Dot}
      BY <1>7, <1>12, <2>7, Distinct
    <3>2. InName(Append(s, buf[p]), before, Append(Append(last, c), buf[p]))
      BY <1>7, <1>8, <3>1, NameGoesOn
    <3>3. Read' = Append(s, buf[p])
      BY <1>2, <1>7, <2>7 DEF Read
    <3> QED
      BY <1>2, <1>3, <1>9, <2>1, <2>5, <2>7, <3>2, <3>3 DEF ByTerms, Slashes
  <2> QED
    BY <2>6, <2>7
<1> QED
  BY <1>11, <1>12

LEMMA EatTerms == RInv /\ EatSlash => (ByTerms /\ Slashes)'
<1> SUFFICES ASSUME RInv, EatSlash PROVE (ByTerms /\ Slashes)'
  OBVIOUS
<1>1. IInv /\ Running /\ pc = "slashes" /\ Between(Read, Output) /\ p > 0
  BY DEF RInv, ByTerms, Slashes, EatSlash, Running
<1>2. input' = input /\ buf' = buf /\ q' = q /\ Output' = Output
  BY DEF EatSlash, input, isRelative, call, Output
<1>3. input # <<>> /\ input[1] # Slash
  BY <1>1 DEF RInv, Slashes
<1>4. CASE buf[p] = Slash
  <2>1. pc' = "slashes" /\ p' = p + 1
    BY <1>4 DEF EatSlash
  <2>2. PICK s : s = Read
    OBVIOUS
  <2>3. PICK out : out = Output
    OBVIOUS
  <2>4. p \in p..Len(input) /\ p \in Nat
    <3>1. p \in 0..Len(input) /\ Len(input) \in Nat
      BY <1>1, Unread
    <3> QED
      BY <3>1
  <2>5. s \in TermString /\ SubSeq(input, 1, p + 1) = Append(s, Slash)
    BY <1>1, <1>4, <2>2, <2>4, Unread, Distinct DEF Read
  <2>6. Between(Append(s, Slash), out)
    BY <1>1, <2>2, <2>3, <2>5, AfterSlash
  <2>7. Read' = Append(s, Slash)
    BY <1>2, <2>1, <2>5 DEF Read
  <2> QED
    BY <1>2, <1>3, <2>1, <2>3, <2>4, <2>6, <2>7 DEF ByTerms, Slashes
<1>5. CASE buf[p] # Slash
  <2>1. pc' = "term" /\ p' = p
    BY <1>5 DEF EatSlash
  <2>2. Read' = Read
    BY <1>2, <2>1 DEF Read
  <2> QED
    BY <1>1, <1>2, <1>3, <1>5, <2>1, <2>2 DEF ByTerms, Slashes
<1> QED
  BY <1>4, <1>5

LEMMA TermsInvariance == Spec => []RInv
<1>1. RInv /\ UNCHANGED vars => RInv'
  BY DEF vars, RInv, IInv, TypeOK, InPlace, Components, Places, Running, CopyOK, LastOK, input,
         isRelative, inputAt, ByTerms, Slashes, Read, Before, Output, LastComponent
<1>2. RInv /\ [Next]_vars => RInv'
  <2>1. RInv /\ Next => IInv'
    BY FormatStep, TermStep, CopyStep, EatStep DEF Next, RInv
  <2>2. RInv /\ Next => (ByTerms /\ Slashes)'
    BY FormatTerms, TermTerms, CopyTerms, EatTerms DEF Next
  <2> QED
    BY <1>1, <2>1, <2>2 DEF RInv
<1> QED
  BY InitTerms, <1>2, PTL DEF Spec

\* The resolver's work on bytes is CommonJS resolution by terms: for every id asked for, from
\* every module, the bytes it leaves are the joined terms of the path, the last component is
\* its last term, and it fails exactly on ids that are too long or lead nowhere
\* (duk_module_duktape.c:31-186).  The ids of the modules that ask must be resolved ones.
THEOREM ResolutionIsByTerms ==
    ASSUME BasesAreIds
    PROVE  Spec => []ResolvesByTerms
<1>1. RInv => ResolvesByTerms
  <2> SUFFICES ASSUME RInv PROVE ResolvesByTerms
    OBVIOUS
  <2>1. TypeOK /\ ResolvedPath = PathOf(input)
    BY PathOfInput DEF RInv, IInv
  <2>2. CASE pc = "done"
    <3>1. PICK w : w = Dir(<<>>, input)
      OBVIOUS
    <3>2. PICK l : l = LastTerm(input)
      OBVIOUS
    <3>3. /\ w \in Seq(Name) /\ l \in Name /\ l = LastComponent /\ Before = Flat(w)
          /\ input # <<>> /\ input[1] # Slash
      BY <2>2, <3>1, <3>2 DEF RInv, ByTerms, Slashes, InName
    <3>4. ResolvedPath = Append(w, l) /\ Append(w, l) \in Seq(Name)
      BY <2>1, <3>1, <3>2, <3>3, NameFacts, WalkNames DEF PathOf
    <3>5. ResolvedPath # Broken
      BY <3>4, NameFacts
    <3>6. Last(ResolvedPath) = l
      BY <3>3, <3>4, FrontLast
    <3>7. Join(ResolvedPath) = Before \o LastComponent
      BY <3>3, <3>4, FlatLaws
    <3>8. Output = Before \o LastComponent
      <4>1. /\ qLast \in Nat /\ q \in Nat /\ qLast <= q
            /\ \A i \in 0..(q - 1) : buf[i] \in Letter
        BY <2>2 DEF RInv, IInv, TypeOK, Places, LastOK, Components
      <4>2. \A i \in 1..q : buf[i - 1] \in Letter
        BY <4>1
      <4>3. PICK b2, a, n : b2 = buf /\ a = qLast /\ n = q
        OBVIOUS
      <4>4. [i \in 1..n |-> b2[i - 1]]
              = [i \in 1..a |-> b2[i - 1]] \o [i \in 1..(n - a) |-> b2[a + i - 1]]
        BY <4>1, <4>2, <4>3, TwoPieces
      <4> QED
        BY <4>3, <4>4, Zenon DEF Output, Before, LastComponent
    <3>9. Len(input) < Limit
      BY <2>2 DEF RInv, IInv, Places
    <3> QED
      BY <2>2, <3>3, <3>5, <3>6, <3>7, <3>8, <3>9 DEF ResolvesByTerms
  <2>3. CASE pc = "error"
    <3>1. Len(input) >= Limit \/ ResolvedPath = Broken
      BY <2>1, <2>3 DEF RInv, ByTerms
    <3>2. Len(input) \in Nat /\ Limit \in Nat
      BY <2>1, InputType, LimitAssumption
    <3> QED
      BY <2>3, <3>1, <3>2 DEF ResolvesByTerms
  <2>4. CASE pc \notin {"done", "error"}
    BY <2>4 DEF ResolvesByTerms
  <2> QED
    BY <2>2, <2>3, <2>4
<1> QED
  BY <1>1, TermsInvariance, PTL

\* What the resolver returns is an id that a module's require may start from, as the theorem
\* above asks: the fresh require of a module has its resolved id
\* (duk_module_duktape.c:268-274).
THEOREM ResolvedIdsMayAsk == Spec => [](pc = "done" => IsId(Output))
<1>1. IInv => (pc = "done" => IsId(Output))
  <2> SUFFICES ASSUME IInv, pc = "done" PROVE IsId(Output)
    OBVIOUS
  <2>1. LastOK /\ qLast < q /\ q \in Nat /\ qLast \in Nat
    BY DEF IInv, Places, TypeOK
  <2>2. \A i \in 0..(q - 1) : buf[i] \in Letter
    BY DEF IInv, Components
  <2>3. /\ Output \in Seq(Letter) /\ Len(Output) = q
        /\ \A i \in 1..q : Output[i] = buf[i - 1]
    <3>1. \A i \in 1..q : buf[i - 1] \in Letter
      BY <2>1, <2>2
    <3> QED
      BY <2>1, <3>1 DEF Output
  <2>4. Output # <<>> /\ Output[1] \in Char
    <3>1. buf[0] \in Char
      BY <2>1 DEF IInv, Components
    <3> QED
      BY <2>1, <2>3, <3>1
  <2>5. ASSUME NEW i \in 1..q, Output[i] = Slash
        PROVE  i < q /\ Output[i + 1] \in Char
    <3>1. buf[i - 1] = Slash /\ i - 1 \in 0..(q - 1)
      BY <2>1, <2>3, <2>5
    <3>2. i - 1 < qLast
      BY <2>1, <3>1 DEF LastOK
    <3>3. i \in 0..(q - 1) /\ i > 0 /\ i < q /\ i + 1 \in 1..q /\ (i + 1) - 1 = i
      BY <2>1, <3>2
    <3>4. buf[i] \in Char
      BY <3>1, <3>3 DEF IInv, Components
    <3> QED
      BY <2>3, <3>3, <3>4
  <2> QED
    BY <2>3, <2>4, <2>5 DEF IsId
<1> QED
  BY <1>1, Invariance, PTL

\* How far the resolver is from its end: the bytes it has not read count most.
Left == 3 * ((Len(input) + 1) - p)
          + CASE pc = "format" -> 3 [] pc = "slashes" -> 2 [] pc \in {"term", "copy"} -> 1 [] OTHER -> 0

Closer == Left \in Nat /\ Left' \in Nat /\ Left' < Left

\* Every round of the resolver's loops brings it closer to its end, so that no id keeps it
\* busy for more than 3 * Len(input) + 6 of them (duk_module_duktape.c:90-171).
THEOREM EveryRoundCounts == Spec => [][Closer]_vars
<1>1. IInv /\ Next => Closer
  <2> SUFFICES ASSUME IInv, Next PROVE Closer
    OBVIOUS
  <2>1. PICK n \in Nat : n = Len(input) /\ input' = input
    BY InputType DEF IInv, Next, Format, Term, CopyName, EatSlash, input, isRelative, call
  <2>2. p \in Nat
    BY DEF IInv, TypeOK
  <2>3. CASE Format
    <3>1. p = 0 /\ p' = 0 /\ pc = "format" /\ pc' \in {"term", "error"}
      BY <2>3 DEF Format, IInv, Places
    <3>2. Left = 3 * ((n + 1) - 0) + 3 /\ Left' = 3 * ((n + 1) - 0) + IF pc' = "term" THEN 1 ELSE 0
      BY <2>1, <3>1 DEF Left
    <3> QED
      BY <3>2 DEF Closer
  <2>4. CASE Running
    <3>1. p <= n /\ \A i \in p..n : buf[i] = Nul <=> i = n
      BY <2>1, <2>4, Unread DEF IInv, Places
    <3>2. CASE pc = "term"
      <4>1. Term
        BY <3>2 DEF Next, Format, CopyName, EatSlash
      <4>2. /\ \/ pc' = "slashes" /\ p' \in {p + 2, p + 3} /\ p' <= n
               \/ pc' = "copy" /\ p' = p + 1 /\ p' <= n
               \/ pc' = "error" /\ p' = p
        <5>1. CASE TermDot
          <6>1. p + 1 <= n
            BY <2>2, <3>1, <5>1, Distinct DEF TermDot
          <6>2. p + 2 <= n
            BY <2>2, <3>1, <5>1, <6>1, Distinct DEF TermDot
          <6> QED
            BY <5>1, <6>2 DEF TermDot
        <5>2. CASE TermDotDot
          <6>1. p + 1 <= n
            BY <2>2, <3>1, <5>2, Distinct DEF TermDotDot, AtDotDot
          <6>2. p + 2 <= n
            BY <2>2, <3>1, <5>2, <6>1, Distinct DEF TermDotDot, AtDotDot
          <6>3. p + 3 <= n
            BY <2>2, <3>1, <5>2, <6>2, Distinct DEF TermDotDot, AtDotDot
          <6> QED
            BY <5>2, <6>3 DEF TermDotDot
        <5>3. CASE TermName
          BY <2>2, <3>1, <5>3, Distinct DEF TermName
        <5>4. CASE TermError
          BY <5>4 DEF TermError
        <5> QED
          BY <4>1, <5>1, <5>2, <5>3, <5>4 DEF Term
      <4>3. Left = 3 * ((n + 1) - p) + 1
        BY <2>1, <3>2 DEF Left
      <4>4. Left' = 3 * ((n + 1) - p') + IF pc' = "slashes" THEN 2 ELSE IF pc' = "copy" THEN 1 ELSE 0
        BY <2>1, <4>2 DEF Left
      <4> QED
        BY <2>2, <3>1, <4>2, <4>3, <4>4 DEF Closer
    <3>3. CASE pc = "copy"
      <4>1. p' = p + 1 /\ pc' \in {"done", "slashes", "copy"} /\ (pc' = "done" \/ p' <= n)
        <5>1. CopyName
          BY <3>3 DEF Next, Format, Term, EatSlash
        <5> QED
          BY <2>2, <3>1, <5>1 DEF CopyName
      <4>2. Left = 3 * ((n + 1) - p) + 1
        BY <2>1, <3>3 DEF Left
      <4>3. Left' = 3 * ((n + 1) - (p + 1)) + IF pc' = "slashes" THEN 2 ELSE IF pc' = "copy" THEN 1 ELSE 0
        BY <2>1, <4>1 DEF Left
      <4> QED
        BY <2>2, <3>1, <4>1, <4>2, <4>3 DEF Closer
    <3>4. CASE pc = "slashes"
      <4>1. \/ p' = p + 1 /\ pc' = "slashes" /\ p' <= n
            \/ p' = p /\ pc' = "term"
        <5>1. EatSlash
          BY <3>4 DEF Next, Format, Term, CopyName
        <5> QED
          BY <2>2, <3>1, <3>4, <5>1, Distinct DEF EatSlash
      <4>2. Left = 3 * ((n + 1) - p) + 2
        BY <2>1, <3>4 DEF Left
      <4>3. Left' = 3 * ((n + 1) - p') + IF pc' = "slashes" THEN 2 ELSE 1
        BY <2>1, <4>1 DEF Left
      <4> QED
        BY <2>2, <3>1, <4>1, <4>2, <4>3 DEF Closer
    <3> QED
      BY <2>4, <3>2, <3>3, <3>4 DEF Running
  <2> QED
    BY <2>3, <2>4 DEF Next, Format, Term, CopyName, EatSlash, Running
<1> QED
  BY <1>1, Invariance, PTL DEF Spec
===============================================================================
