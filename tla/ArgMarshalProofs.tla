--------------------------- MODULE ArgMarshalProofs ---------------------------
(***************************************************************************)
(* Theorems about ArgMarshal, for any number of arguments and parameters.  *)
(***************************************************************************)
EXTENDS ArgMarshal, SequenceTheorems, TLAPS

USE BoundAssumption


\* The letters of values that JavaScript passes to Go.
GoLetters == {"none", "bool", "double", "lstring", "buffer", "jarray", "jobject", "ecmafunc"}

\* The first and the last word of argument k under a letter.
First(letter, k) == [arg |-> k, part |-> IF letter \in TwoWords THEN "len"
                                        ELSE IF letter = "error" THEN "stale" ELSE "value"]
Final(letter, k) == [arg |-> k, part |-> IF letter \in TwoWords THEN "ptr"
                                        ELSE IF letter = "error" THEN "stale" ELSE "value"]

\* The words form a chain: those of one argument follow each other, and after its last one
\* come the next argument's.
Chained ==
    /\ \A p \in DOMAIN words :
         /\ words[p].arg \in DOMAIN fmt
         /\ words[p].part = "len" =>
              /\ words[p] = First(fmt[words[p].arg], words[p].arg)
              /\ p + 1 \in DOMAIN words
              /\ words[p + 1] = Final(fmt[words[p].arg], words[p].arg)
         /\ words[p].part # "len" =>
              /\ words[p] = Final(fmt[words[p].arg], words[p].arg)
              /\ p + 1 \in DOMAIN words =>
                   /\ words[p].arg + 1 \in DOMAIN fmt
                   /\ words[p + 1] = First(fmt[words[p].arg + 1], words[p].arg + 1)
              /\ p + 1 \notin DOMAIN words => words[p].arg = Len(fmt)
    /\ fmt # <<>> => 1 \in DOMAIN words /\ words[1] = First(fmt[1], 1)
    /\ fmt = <<>> => words = <<>>

\* The reader is at the first word of the argument that is next, and a Go function has a
\* parameter for it.
InStep ==
    /\ at = "read" => Len(args) = nargs
    /\ at = "read" /\ nth \in DOMAIN fmt => j \in DOMAIN words /\ words[j] = First(fmt[nth], nth)
    /\ at \in {"idle", "write"} => got = <<>> /\ j = 1
    /\ at = "idle" => fmt = <<>>
    /\ at = "read" /\ dir = "toGo" => ~Refused(nargs)

\* Each argument has the letter of its kind.
Lettered ==
    /\ dir = "toGo" => \A k \in DOMAIN fmt : args[k] \in JsValue /\ fmt[k] = JsLetter(args[k])
    /\ dir = "toJs" => \A k \in DOMAIN fmt : args[k] \in GoValue /\ fmt[k] = GoLetter(args[k])
    /\ dir = "javaToJs" => \A k \in DOMAIN fmt : args[k] \in JavaValue /\ fmt[k] = JavaLetter(args[k])

Given == [made : Made \cup JsValue \cup GoValue \cup JavaValue \cup {"cut"}, words : Seq(Word)]

IInv == TypeOK /\ Len(words) <= 2 * Len(fmt) /\ got \in Seq(Given)
            /\ Chained /\ InStep /\ Lettered /\ OwnWords

---------------------------------------------------------------------------
(* The letters and the words each side has for them. *)

LEMMA JsLetters ==
    ASSUME NEW v \in JsValue, NEW k
    PROVE  /\ JsLetter(v) \in GoLetters
           /\ JsWords(v, k) = IF JsLetter(v) \in TwoWords THEN Two(k) ELSE One(k)
<1>1. JsLetter(v) \in GoLetters
  BY DEF JsLetter, GoLetters
<1> QED
  BY <1>1 DEF JsWords, GoLetters, TwoWords

LEMMA GoLetterFacts ==
    ASSUME NEW v \in GoValue, NEW k
    PROVE  /\ GoLetter(v) \in Letter
           /\ GoWords(GoLetter(v), k) =
                IF GoLetter(v) \in TwoWords THEN Two(k)
                ELSE IF GoLetter(v) = "error" THEN <<[arg |-> k, part |-> "stale"]>> ELSE One(k)
BY DEF GoLetter, Letter, GoWords, TwoWords

LEMMA JavaLetterFacts ==
    ASSUME NEW v \in JavaValue, NEW k
    PROVE  /\ JavaLetter(v) \in Letter /\ JavaLetter(v) # "error"
           /\ JavaWords(JavaLetter(v), k) = IF JavaLetter(v) \in TwoWords THEN Two(k) ELSE One(k)
BY DEF JavaValue, JavaLetter, Letter, JavaWords, TwoWords

LEMMA SlotsAgree ==
    /\ \A l \in GoLetters : goSlots(l) = IF l \in TwoWords THEN 2 ELSE 1
    /\ \A l \in Letter \ {"error"} : jsSlots(l) = IF l \in TwoWords THEN 2 ELSE 1
    /\ GoLetters \subseteq Letter \ {"error"}
BY DEF goSlots, jsSlots, TwoWords, GoLetters, Letter

\* What a type is made of is a type.
LEMMA MadeIsMade ==
    ASSUME NEW l, NEW v, NEW p \in Param
    PROVE  MakeArg(l, v, p) \in Made
<1>1. Unmarshal(v, p) \in Made
  BY DEF Unmarshal, Made, Param, Numeric, SliceKind
<1> QED
  BY <1>1 DEF MakeArg, Made, Param, SliceKind, Numeric

---------------------------------------------------------------------------
(* Writing. *)

LEMMA Facts ==
    ASSUME IInv
    PROVE  /\ DOMAIN fmt = 1..Len(fmt) /\ Len(fmt) \in Nat
           /\ DOMAIN args = DOMAIN fmt /\ Len(args) = Len(fmt)
           /\ DOMAIN words = 1..Len(words) /\ Len(words) \in Nat
           /\ DOMAIN got = 1..Len(got) /\ Len(got) \in Nat
           /\ \A k \in DOMAIN fmt : fmt[k] \in Letter
           /\ \A p \in DOMAIN words : words[p] \in Word
           /\ nargs \in Nat /\ nargs <= MaxArgs
BY DEF IInv, TypeOK

LEMMA AddOne ==
    ASSUME NEW S, NEW s \in Seq(S), NEW a \in S
    PROVE  /\ s \o <<a>> \in Seq(S) /\ Len(s \o <<a>>) = Len(s) + 1
           /\ \A p \in 1..Len(s) : (s \o <<a>>)[p] = s[p]
           /\ (s \o <<a>>)[Len(s) + 1] = a
<1>1. <<a>> \in Seq(S) /\ Len(<<a>>) = 1 /\ <<a>>[1] = a
  OBVIOUS
<1> QED
  BY <1>1, ConcatProperties

LEMMA AddTwo ==
    ASSUME NEW S, NEW s \in Seq(S), NEW a \in S, NEW b \in S
    PROVE  /\ s \o <<a, b>> \in Seq(S) /\ Len(s \o <<a, b>>) = Len(s) + 2
           /\ \A p \in 1..Len(s) : (s \o <<a, b>>)[p] = s[p]
           /\ (s \o <<a, b>>)[Len(s) + 1] = a /\ (s \o <<a, b>>)[Len(s) + 2] = b
<1>1. <<a, b>> \in Seq(S) /\ Len(<<a, b>>) = 2 /\ <<a, b>>[1] = a /\ <<a, b>>[2] = b
  OBVIOUS
<1> QED
  BY <1>1, ConcatProperties

\* One more argument with its words keeps the chain.
LEMMA Extended ==
    ASSUME IInv, at = "write", Len(args) < nargs,
           NEW v \in JsValue \cup GoValue \cup JavaValue, NEW l \in Letter, NEW ws, Write(v, l, ws),
           ws = IF l \in TwoWords THEN Two(Len(args) + 1)
                ELSE IF l = "error" THEN <<[arg |-> Len(args) + 1, part |-> "stale"]>>
                ELSE One(Len(args) + 1)
    PROVE  /\ args' \in Seq(JsValue \cup GoValue \cup JavaValue) /\ fmt' \in Seq(Letter)
           /\ Len(fmt') = Len(fmt) + 1 /\ Len(args') = Len(fmt) + 1
           /\ words' \in Seq(Word) /\ Len(words') <= 2 * Len(fmt')
           /\ Len(words') >= Len(words)
           /\ \A k \in DOMAIN fmt : fmt'[k] = fmt[k] /\ args'[k] = args[k]
           /\ fmt'[Len(fmt) + 1] = l /\ args'[Len(fmt) + 1] = v
           /\ Chained'
<1> DEFINE k == Len(fmt) + 1
<1>0. /\ Len(args) = Len(fmt) /\ k \in 1..MaxArgs /\ DOMAIN fmt = 1..Len(fmt) /\ Len(fmt) \in Nat
      /\ DOMAIN words = 1..Len(words) /\ Len(words) \in Nat /\ words \in Seq(Word)
      /\ fmt \in Seq(Letter) /\ args \in Seq(JsValue \cup GoValue \cup JavaValue)
      /\ Len(words) <= 2 * Len(fmt) /\ Chained
  BY Facts DEF IInv, TypeOK
<1>1. /\ args' \in Seq(JsValue \cup GoValue \cup JavaValue) /\ fmt' \in Seq(Letter)
      /\ Len(fmt') = k /\ Len(args') = k /\ DOMAIN fmt' = 1..k
      /\ \A i \in DOMAIN fmt : fmt'[i] = fmt[i] /\ args'[i] = args[i]
      /\ fmt'[k] = l /\ args'[k] = v
  BY <1>0 DEF Write
<1>2. words' = words \o ws
  BY DEF Write
<1>3. First(l, k) \in Word /\ Final(l, k) \in Word
  BY <1>0 DEF First, Final, Word
<1>4. CASE l \in TwoWords
  <2>1. ws = <<First(l, k), Final(l, k)>>
    BY <1>0, <1>4 DEF Two, First, Final
  <2>2. /\ words' \in Seq(Word) /\ Len(words') = Len(words) + 2 /\ DOMAIN words' = 1..(Len(words) + 2)
        /\ \A p \in DOMAIN words : words'[p] = words[p]
        /\ words'[Len(words) + 1] = First(l, k) /\ words'[Len(words) + 2] = Final(l, k)
    <3>1. words' = words \o <<First(l, k), Final(l, k)>>
      BY <1>2, <2>1
    <3>2. words' \in Seq(Word) /\ Len(words') = Len(words) + 2
      BY <1>0, <1>3, <3>1, AddTwo
    <3>3. DOMAIN words' = 1..(Len(words) + 2)
      BY <3>2
    <3>4. /\ \A p \in 1..Len(words) : words'[p] = words[p]
          /\ words'[Len(words) + 1] = First(l, k) /\ words'[Len(words) + 2] = Final(l, k)
      BY <1>0, <1>3, <3>1, AddTwo
    <3> QED
      BY <1>0, <3>2, <3>3, <3>4
  <2>3. First(l, k).part = "len" /\ First(l, k).arg = k /\ Final(l, k).part = "ptr" /\ Final(l, k).arg = k
    BY <1>4 DEF First, Final
  <2>4. Chained'
    <3>1. ASSUME NEW p \in DOMAIN words'
          PROVE  /\ words'[p].arg \in DOMAIN fmt'
                 /\ words'[p].part = "len" =>
                      /\ words'[p] = First(fmt'[words'[p].arg], words'[p].arg)
                      /\ p + 1 \in DOMAIN words'
                      /\ words'[p + 1] = Final(fmt'[words'[p].arg], words'[p].arg)
                 /\ words'[p].part # "len" =>
                      /\ words'[p] = Final(fmt'[words'[p].arg], words'[p].arg)
                      /\ p + 1 \in DOMAIN words' =>
                           /\ words'[p].arg + 1 \in DOMAIN fmt'
                           /\ words'[p + 1] = First(fmt'[words'[p].arg + 1], words'[p].arg + 1)
                      /\ p + 1 \notin DOMAIN words' => words'[p].arg = Len(fmt')
      <4>1. CASE p \in 1..(Len(words) - 1)
        <5>1. p \in DOMAIN words /\ p + 1 \in DOMAIN words /\ p + 1 \in DOMAIN words'
          BY <1>0, <2>2, <4>1
        <5>2. words'[p] = words[p] /\ words'[p + 1] = words[p + 1]
          BY <2>2, <5>1
        <5> QED
          BY <1>0, <1>1, <5>1, <5>2 DEF Chained
      <4>2. CASE p = Len(words)
        <5>1. p \in DOMAIN words /\ p + 1 \notin DOMAIN words /\ p + 1 \in DOMAIN words'
          BY <1>0, <2>2, <4>2
        <5>2. words'[p] = words[p] /\ words'[p + 1] = First(l, k)
          BY <2>2, <4>2, <5>1
        <5>3. /\ words[p].part # "len" /\ words[p].arg = Len(fmt) /\ words[p].arg \in DOMAIN fmt
              /\ words[p] = Final(fmt[words[p].arg], words[p].arg)
          BY <1>0, <5>1 DEF Chained
        <5> QED
          BY <1>0, <1>1, <5>1, <5>2, <5>3
      <4>3. CASE p = Len(words) + 1
        BY <1>0, <1>1, <2>2, <2>3, <4>3
      <4>4. CASE p = Len(words) + 2
        BY <1>0, <1>1, <2>2, <2>3, <4>4
      <4> QED
        BY <1>0, <2>2, <4>1, <4>2, <4>3, <4>4
    <3>2. 1 \in DOMAIN words' /\ words'[1] = First(fmt'[1], 1)
      <4>1. CASE fmt = <<>>
        BY <1>0, <1>1, <2>2, <4>1 DEF Chained
      <4>2. CASE fmt # <<>>
        <5>1. 1 \in DOMAIN words /\ words[1] = First(fmt[1], 1) /\ 1 \in DOMAIN fmt
          BY <1>0, <4>2 DEF Chained
        <5>2. words'[1] = words[1] /\ fmt'[1] = fmt[1]
          BY <1>1, <2>2, <5>1
        <5>3. 1 \in DOMAIN words'
          BY <1>0, <2>2
        <5> QED
          BY <5>1, <5>2, <5>3
      <4> QED
        BY <4>1, <4>2
    <3>3. fmt' # <<>>
      BY <1>0, <1>1
    <3> QED
      BY <3>1, <3>2, <3>3 DEF Chained
  <2> QED
    BY <1>0, <1>1, <2>2, <2>4
<1>5. CASE l \notin TwoWords
  <2>1. ws = <<Final(l, k)>> /\ First(l, k) = Final(l, k) /\ Final(l, k).part # "len" /\ Final(l, k).arg = k
    BY <1>0, <1>5 DEF One, First, Final
  <2>2. /\ words' \in Seq(Word) /\ Len(words') = Len(words) + 1 /\ DOMAIN words' = 1..(Len(words) + 1)
        /\ \A p \in DOMAIN words : words'[p] = words[p]
        /\ words'[Len(words) + 1] = Final(l, k)
    <3>1. words' = words \o <<Final(l, k)>>
      BY <1>2, <2>1
    <3>2. words' \in Seq(Word) /\ Len(words') = Len(words) + 1
      BY <1>0, <1>3, <3>1, AddOne
    <3>3. DOMAIN words' = 1..(Len(words) + 1)
      BY <3>2
    <3>4. /\ \A p \in 1..Len(words) : words'[p] = words[p]
          /\ words'[Len(words) + 1] = Final(l, k)
      BY <1>0, <1>3, <3>1, AddOne
    <3> QED
      BY <1>0, <3>2, <3>3, <3>4
  <2>4. Chained'
    <3>1. ASSUME NEW p \in DOMAIN words'
          PROVE  /\ words'[p].arg \in DOMAIN fmt'
                 /\ words'[p].part = "len" =>
                      /\ words'[p] = First(fmt'[words'[p].arg], words'[p].arg)
                      /\ p + 1 \in DOMAIN words'
                      /\ words'[p + 1] = Final(fmt'[words'[p].arg], words'[p].arg)
                 /\ words'[p].part # "len" =>
                      /\ words'[p] = Final(fmt'[words'[p].arg], words'[p].arg)
                      /\ p + 1 \in DOMAIN words' =>
                           /\ words'[p].arg + 1 \in DOMAIN fmt'
                           /\ words'[p + 1] = First(fmt'[words'[p].arg + 1], words'[p].arg + 1)
                      /\ p + 1 \notin DOMAIN words' => words'[p].arg = Len(fmt')
      <4>1. CASE p \in 1..(Len(words) - 1)
        <5>1. p \in DOMAIN words /\ p + 1 \in DOMAIN words /\ p + 1 \in DOMAIN words'
          BY <1>0, <2>2, <4>1
        <5>2. words'[p] = words[p] /\ words'[p + 1] = words[p + 1]
          BY <2>2, <5>1
        <5> QED
          BY <1>0, <1>1, <5>1, <5>2 DEF Chained
      <4>2. CASE p = Len(words)
        <5>1. p \in DOMAIN words /\ p + 1 \notin DOMAIN words /\ p + 1 \in DOMAIN words'
          BY <1>0, <2>2, <4>2
        <5>2. words'[p] = words[p] /\ words'[p + 1] = First(l, k)
          BY <2>1, <2>2, <4>2, <5>1
        <5>3. /\ words[p].part # "len" /\ words[p].arg = Len(fmt) /\ words[p].arg \in DOMAIN fmt
              /\ words[p] = Final(fmt[words[p].arg], words[p].arg)
          BY <1>0, <5>1 DEF Chained
        <5> QED
          BY <1>0, <1>1, <5>1, <5>2, <5>3
      <4>3. CASE p = Len(words) + 1
        BY <1>0, <1>1, <2>1, <2>2, <4>3
      <4> QED
        BY <1>0, <2>2, <4>1, <4>2, <4>3
    <3>2. 1 \in DOMAIN words' /\ words'[1] = First(fmt'[1], 1)
      <4>1. CASE fmt = <<>>
        BY <1>0, <1>1, <2>1, <2>2, <4>1 DEF Chained
      <4>2. CASE fmt # <<>>
        <5>1. 1 \in DOMAIN words /\ words[1] = First(fmt[1], 1) /\ 1 \in DOMAIN fmt
          BY <1>0, <4>2 DEF Chained
        <5>2. words'[1] = words[1] /\ fmt'[1] = fmt[1]
          BY <1>1, <2>2, <5>1
        <5>3. 1 \in DOMAIN words'
          BY <1>0, <2>2
        <5> QED
          BY <5>1, <5>2, <5>3
      <4> QED
        BY <4>1, <4>2
    <3>3. fmt' # <<>>
      BY <1>0, <1>1
    <3> QED
      BY <3>1, <3>2, <3>3 DEF Chained
  <2> QED
    BY <1>0, <1>1, <2>2, <2>4
<1> QED
  BY <1>4, <1>5

LEMMA WriteKeeps ==
    ASSUME IInv, at = "write", Len(args) < nargs,
           NEW v \in JsValue \cup GoValue \cup JavaValue, NEW l \in Letter, NEW ws, Write(v, l, ws),
           ws = IF l \in TwoWords THEN Two(Len(args) + 1)
                ELSE IF l = "error" THEN <<[arg |-> Len(args) + 1, part |-> "stale"]>>
                ELSE One(Len(args) + 1),
           dir = "toGo" => v \in JsValue /\ l = JsLetter(v),
           dir = "toJs" => v \in GoValue /\ l = GoLetter(v),
           dir = "javaToJs" => v \in JavaValue /\ l = JavaLetter(v),
           UNCHANGED <<call, j, got, at, ret, result, block>>
    PROVE  IInv'
<1>1. /\ args' \in Seq(JsValue \cup GoValue \cup JavaValue) /\ fmt' \in Seq(Letter)
      /\ Len(fmt') = Len(fmt) + 1 /\ Len(args') = Len(fmt) + 1
      /\ words' \in Seq(Word) /\ Len(words') <= 2 * Len(fmt') /\ Len(words') >= Len(words)
      /\ \A k \in DOMAIN fmt : fmt'[k] = fmt[k] /\ args'[k] = args[k]
      /\ fmt'[Len(fmt) + 1] = l /\ args'[Len(fmt) + 1] = v
      /\ Chained'
  BY Extended
<1>2. got = <<>> /\ j = 1 /\ Len(args) = Len(fmt) /\ nargs \in Nat
  BY Facts DEF IInv, InStep
<1>3. UNCHANGED <<dir, sig, nargs, j, got, at, ret, result, block>>
  BY DEF call
<1>4. TypeOK'
  <2>1. Len(fmt') = Len(args') /\ Len(args') <= nargs' /\ Len(words') <= 2 * nargs'
    BY <1>1, <1>2, <1>3, Facts
  <2>2. j' \in 1..(Len(words') + 1) /\ Len(got') <= Len(args')
    BY <1>1, <1>2, <1>3, Facts
  <2> QED
    BY <1>1, <1>3, <2>1, <2>2 DEF IInv, TypeOK
<1>5. InStep'
  BY <1>2, <1>3 DEF InStep
<1>6. Lettered'
  <2>1. DOMAIN fmt' = 1..(Len(fmt) + 1) /\ DOMAIN fmt = 1..Len(fmt) /\ Len(fmt) \in Nat
    BY <1>1, Facts
  <2>2. ASSUME NEW k \in DOMAIN fmt', k \in DOMAIN fmt
        PROVE  /\ dir' = "toGo" => args'[k] \in JsValue /\ fmt'[k] = JsLetter(args'[k])
               /\ dir' = "toJs" => args'[k] \in GoValue /\ fmt'[k] = GoLetter(args'[k])
               /\ dir' = "javaToJs" => args'[k] \in JavaValue /\ fmt'[k] = JavaLetter(args'[k])
    BY <1>1, <1>3, <2>2 DEF IInv, Lettered
  <2>3. /\ dir' = "toGo" => v \in JsValue /\ l = JsLetter(v)
        /\ dir' = "toJs" => v \in GoValue /\ l = GoLetter(v)
        /\ dir' = "javaToJs" => v \in JavaValue /\ l = JavaLetter(v)
    BY <1>3
  <2>4. ASSUME NEW k \in DOMAIN fmt', k \notin DOMAIN fmt
        PROVE  args'[k] = v /\ fmt'[k] = l
    BY <1>1, <2>1, <2>4
  <2> QED
    BY <2>2, <2>3, <2>4 DEF Lettered
<1>7. OwnWords' /\ got' \in Seq(Given)
  BY <1>2, <1>3 DEF OwnWords, IInv
<1> QED
  BY <1>1, <1>4, <1>5, <1>6, <1>7 DEF IInv

---------------------------------------------------------------------------
(* Reading. *)

\* A reader that takes as many words as the letter has gets the argument's own, and is then at
\* the first word of the next one.
LEMMA Walk ==
    ASSUME IInv, at = "read", Len(got) < nargs, fmt[nth] # "error",
           NEW slots, slots = IF fmt[nth] \in TwoWords THEN 2 ELSE 1
    PROVE  /\ nth \in DOMAIN fmt /\ nth \in 1..nargs
           /\ Taken(slots) = IF fmt[nth] \in TwoWords THEN Two(nth) ELSE One(nth)
           /\ Taken(slots) \in Seq(Word)
           /\ Read(slots) = args[nth]
           /\ j + slots \in 1..(Len(words) + 1)
           /\ nth + 1 \in DOMAIN fmt =>
                j + slots \in DOMAIN words /\ words[j + slots] = First(fmt[nth + 1], nth + 1)
<1>1. nth \in DOMAIN fmt /\ nth \in 1..nargs /\ nth \in Nat
  BY Facts DEF IInv, InStep, nth
<1>2. j \in DOMAIN words /\ words[j] = First(fmt[nth], nth) /\ DOMAIN words = 1..Len(words) /\ Len(words) \in Nat
  BY <1>1, Facts DEF IInv, InStep
<1>3. Chained /\ DOMAIN fmt = 1..Len(fmt) /\ Len(fmt) \in Nat /\ \A p \in DOMAIN words : words[p] \in Word
  BY Facts DEF IInv
<1>4. words[j].arg = nth
  BY <1>2 DEF First
<1>5. CASE fmt[nth] \in TwoWords
  <2>1. words[j].part = "len" /\ words[j] = [arg |-> nth, part |-> "len"]
    BY <1>2, <1>5 DEF First
  <2>2. /\ j + 1 \in DOMAIN words
        /\ words[j + 1] = Final(fmt[words[j].arg], words[j].arg)
    BY <1>2, <1>3, <2>1 DEF Chained
  <2>3. words[j + 1] = Final(fmt[nth], nth)
    BY <1>4, <2>2
  <2>4. words[j + 1].part # "len" /\ words[j + 1].arg = nth /\ words[j + 1] = [arg |-> nth, part |-> "ptr"]
    BY <1>5, <2>3 DEF Final
  <2>5. /\ (j + 1) + 1 \in DOMAIN words =>
             /\ words[j + 1].arg + 1 \in DOMAIN fmt
             /\ words[(j + 1) + 1] = First(fmt[words[j + 1].arg + 1], words[j + 1].arg + 1)
        /\ (j + 1) + 1 \notin DOMAIN words => words[j + 1].arg = Len(fmt)
    BY <1>3, <2>2, <2>4 DEF Chained
  <2>6. slots = 2 /\ j + slots = (j + 1) + 1 /\ j + slots - 1 = j + 1
    BY <1>2, <1>5
  <2>7. nth + 1 \in DOMAIN fmt =>
          j + slots \in DOMAIN words /\ words[j + slots] = First(fmt[nth + 1], nth + 1)
    BY <1>1, <1>3, <2>4, <2>5, <2>6
  <2>8. Taken(slots) = <<words[j], words[j + 1]>> /\ Read(slots) = args[nth]
    BY <2>4, <2>6 DEF Taken, Read
  <2>9. Taken(slots) = Two(nth)
    BY <2>1, <2>4, <2>8 DEF Two
  <2>10. Taken(slots) \in Seq(Word)
    <3>1. words[j] \in Word /\ words[j + 1] \in Word
      BY <1>2, <1>3, <2>2
    <3>2. <<words[j], words[j + 1]>> \in Seq(Word)
      BY <3>1
    <3> QED
      BY <2>8, <3>2
  <2>11. j + slots \in 1..(Len(words) + 1)
    BY <1>2, <2>2, <2>6
  <2> QED
    BY <1>1, <1>5, <2>7, <2>8, <2>9, <2>10, <2>11
<1>6. CASE fmt[nth] \notin TwoWords
  <2>1. words[j].part # "len" /\ words[j] = [arg |-> nth, part |-> "value"]
    BY <1>2, <1>6 DEF First
  <2>2. /\ j + 1 \in DOMAIN words =>
             /\ words[j].arg + 1 \in DOMAIN fmt
             /\ words[j + 1] = First(fmt[words[j].arg + 1], words[j].arg + 1)
        /\ j + 1 \notin DOMAIN words => words[j].arg = Len(fmt)
    BY <1>2, <1>3, <2>1 DEF Chained
  <2>3. slots = 1 /\ j + slots - 1 = j
    BY <1>2, <1>6
  <2>4. nth + 1 \in DOMAIN fmt =>
          j + slots \in DOMAIN words /\ words[j + slots] = First(fmt[nth + 1], nth + 1)
    BY <1>1, <1>3, <1>4, <2>2, <2>3
  <2>5. Taken(slots) = <<words[j]>> /\ Read(slots) = args[nth]
    BY <1>4, <2>3 DEF Taken, Read
  <2>6. Taken(slots) = One(nth)
    BY <2>1, <2>5 DEF One
  <2>7. Taken(slots) \in Seq(Word)
    <3>1. words[j] \in Word
      BY <1>2, <1>3
    <3>2. <<words[j]>> \in Seq(Word)
      BY <3>1
    <3> QED
      BY <2>5, <3>2
  <2>8. j + slots \in 1..(Len(words) + 1)
    BY <1>2, <2>3
  <2> QED
    BY <1>1, <1>6, <2>4, <2>5, <2>6, <2>7, <2>8
<1> QED
  BY <1>5, <1>6

LEMMA ReadKeeps ==
    ASSUME IInv, at = "read", Len(got) < nargs, fmt[nth] # "error",
           NEW slots, slots = IF fmt[nth] \in TwoWords THEN 2 ELSE 1,
           NEW m \in Made \cup JsValue \cup GoValue \cup JavaValue \cup {"cut"},
           got' = Append(got, [made |-> m, words |-> Taken(slots)]),
           j' = j + slots, UNCHANGED <<call, written, ret>>,
           at' \in {"read", "done"}, TypeOK => (result' \in {result, "refused", "panicked"}),
           block' \in {"none", "live", "freed"}
    PROVE  IInv'
<1>1. UNCHANGED <<dir, sig, nargs, args, fmt, words, ret>>
  BY DEF call, written
<1>2. /\ nth \in DOMAIN fmt /\ nth \in 1..nargs
      /\ Taken(slots) = IF fmt[nth] \in TwoWords THEN Two(nth) ELSE One(nth)
      /\ Taken(slots) \in Seq(Word)
      /\ j + slots \in 1..(Len(words) + 1)
      /\ nth + 1 \in DOMAIN fmt =>
           j + slots \in DOMAIN words /\ words[j + slots] = First(fmt[nth + 1], nth + 1)
  BY Walk
<1>3. /\ got' \in Seq(Given) /\ Len(got') = Len(got) + 1 /\ DOMAIN got' = 1..(Len(got) + 1)
      /\ \A k \in 1..Len(got) : got'[k] = got[k]
      /\ got'[nth].words = Taken(slots)
  <2>1. [made |-> m, words |-> Taken(slots)] \in Given
    BY <1>2 DEF Given
  <2>2. got \in Seq(Given) /\ Len(got) \in Nat
    BY Facts DEF IInv
  <2> QED
    BY <2>1, <2>2 DEF nth
<1>4. TypeOK'
  <2>1. Len(got') <= Len(args')
    BY <1>1, <1>2, <1>3, Facts DEF nth
  <2> QED
    BY <1>1, <1>2, <2>1 DEF IInv, TypeOK
<1>5. InStep'
  <2>1. nth' = nth + 1
    BY <1>3 DEF nth
  <2> QED
    BY <1>1, <1>2, <2>1 DEF IInv, InStep, Refused, arity
<1>6. OwnWords'
  <2>1. DOMAIN got = 1..Len(got) /\ Len(got) \in Nat
    BY Facts
  <2> QED
    BY <1>1, <1>2, <1>3, <2>1 DEF IInv, OwnWords, nth
<1>7. Chained' /\ Lettered' /\ Len(words') <= 2 * Len(fmt')
  BY <1>1 DEF IInv, Chained, Lettered
<1> QED
  BY <1>3, <1>4, <1>5, <1>6, <1>7 DEF IInv

\* While arguments are read, the Go function has a parameter for each.
LEMMA HasParam ==
    ASSUME TypeOK, NEW k \in 1..nargs, ~Refused(nargs)
    PROVE  getFuncArgType(k) \in Param /\ ParamType(k) \in Param
<1>1. /\ sig.params \in UNION {[1..n -> Param] : n \in 0..MaxParams}
      /\ sig.variadic \in BOOLEAN /\ sig.variadic => sig.params # <<>>
  BY DEF TypeOK, Sig
<1>2. PICK n \in 0..MaxParams : sig.params \in [1..n -> Param]
  BY <1>1
<1>3. arity = n
  <2>1. n \in Nat
    OBVIOUS
  <2> QED
    BY <1>2, <2>1, LenProperties, SeqDef DEF arity
<1>4. nargs \in Nat
  BY DEF TypeOK
<1>5. sig.variadic => n >= 1
  <2>1. n = 0 => sig.params = <<>>
    BY <1>2
  <2> QED
    BY <1>1, <2>1
<1> QED
  BY <1>1, <1>2, <1>3, <1>4, <1>5 DEF Refused, getFuncArgType, ParamType

---------------------------------------------------------------------------
(* Every step keeps the invariant. *)

LEMMA InitInv == Init => IInv
<1> SUFFICES ASSUME Init PROVE IInv
  OBVIOUS
<1>1. <<>> \in [1..0 -> Param] /\ 0 \in 0..MaxParams
  OBVIOUS
<1>2. sig \in Sig
  BY <1>1 DEF Init, Sig
<1>3. TypeOK
  BY <1>2 DEF Init, TypeOK
<1>4. Chained /\ InStep /\ Lettered /\ OwnWords
  BY DEF Init, Chained, InStep, Lettered, OwnWords, nth
<1> QED
  BY <1>3, <1>4 DEF Init, IInv

\* A step that reads and writes no argument.
Passes ==
    /\ UNCHANGED <<args, fmt, words, j, got>>
    /\ at' \in {"write", "read", "run", "done"}
    /\ sig' \in Sig /\ nargs' \in 0..MaxArgs /\ dir' \in {"toGo", "toJs", "javaToJs"}
    /\ UNCHANGED <<dir, sig, nargs>> \/ (at = "idle" /\ at' # "read")
    /\ ret' \in Seq(GoResult \cup JsResult) /\ block' \in {"none", "live", "freed"}
    /\ result' \in {"none", "threw", "refused", "panicked", "undefined", "exception", "cut",
                    "value", "error", "raised", "crashed"}
    /\ at' = "write" => at = "idle"
    /\ at' = "read" => at = "write" /\ Len(args) = nargs /\ (dir = "toGo" => ~Refused(nargs))

LEMMA StepsKeep == ASSUME IInv, Passes PROVE IInv'
<1>0. /\ at' \in {"write", "read", "run", "done"}
      /\ UNCHANGED <<dir, sig, nargs>> \/ (at = "idle" /\ at' # "read")
      /\ at' = "write" => at = "idle"
      /\ at' = "read" => at = "write" /\ Len(args) = nargs /\ (dir = "toGo" => ~Refused(nargs))
  BY DEF Passes
<1>1. UNCHANGED <<args, fmt, words, j, got>>
  BY DEF Passes
<1>2. at = "idle" => args = <<>> /\ fmt = <<>> /\ words = <<>>
  BY Facts DEF IInv, InStep, Chained
<1>3. TypeOK'
  <2>1. nargs' \in Nat /\ nargs \in Nat
    BY Facts DEF Passes
  <2>2. Len(args) <= nargs' /\ Len(words) <= 2 * nargs'
    <3>1. CASE nargs' = nargs
      BY <3>1 DEF IInv, TypeOK
    <3>2. CASE at = "idle"
      <4>1. Len(args) = 0 /\ Len(words) = 0
        BY <1>2, <3>2
      <4>2. \A m \in Nat : 0 <= m /\ 0 <= 2 * m
        OBVIOUS
      <4> QED
        BY <2>1, <4>1, <4>2
    <3> QED
      BY <1>0, <3>1, <3>2
  <2>3. Len(args') <= nargs' /\ Len(words') <= 2 * nargs'
    BY <1>1, <2>2
  <2> QED
    BY <1>1, <2>3 DEF IInv, TypeOK, Passes
<1>4. InStep'
  <2>1. at' = "read" => UNCHANGED <<dir, sig, nargs>>
    BY <1>0
  <2>2. at' = "read" => got = <<>> /\ j = 1 /\ (1 \in DOMAIN fmt => 1 \in DOMAIN words /\ words[1] = First(fmt[1], 1))
    BY <1>0 DEF IInv, InStep, Chained
  <2>3. at' = "read" /\ dir' = "toGo" => ~Refused(nargs)'
    BY <1>0, <2>1 DEF Refused, arity
  <2>4. at' = "write" => got = <<>> /\ j = 1
    BY <1>0 DEF IInv, InStep
  <2> QED
    BY <1>0, <1>1, <2>1, <2>2, <2>3, <2>4 DEF InStep, nth
<1>5. Chained' /\ OwnWords' /\ Len(words') <= 2 * Len(fmt') /\ got' \in Seq(Given)
  BY <1>1 DEF IInv, Chained, OwnWords
<1>6. Lettered'
  <2>1. CASE at = "idle"
    BY <1>1, <1>2, <2>1 DEF Lettered
  <2>2. CASE at # "idle"
    BY <1>0, <1>1, <2>2 DEF IInv, Lettered
  <2> QED
    BY <2>1, <2>2
<1> QED
  BY <1>3, <1>4, <1>5, <1>6 DEF IInv

\* What callGoFunc makes of results is one of the ways a call ends.
LEMMA FromGoEnds ==
    ASSUME NEW rs
    PROVE  FromGo(rs) \in {"undefined", "exception", "panicked", "cut", "value"}
BY DEF FromGo

LEMMA GoResultsTyped == GoResults \subseteq Seq(GoResult \cup JsResult)
<1>1. \A r \in GoResult, q \in GoResult :
        /\ <<>> \in Seq(GoResult \cup JsResult) /\ <<r>> \in Seq(GoResult \cup JsResult)
        /\ <<r, q>> \in Seq(GoResult \cup JsResult) /\ <<r, r, r>> \in Seq(GoResult \cup JsResult)
  OBVIOUS
<1>2. ASSUME NEW rs \in GoResults
      PROVE  \/ rs = <<>> \/ \E r \in GoResult : rs = <<r>> \/ rs = <<r, r, r>>
             \/ \E r \in GoResult, q \in GoResult : rs = <<r, q>>
  BY DEF GoResults
<1>3. <<>> \in Seq(GoResult \cup JsResult)
  OBVIOUS
<1> QED
  BY <1>1, <1>2, <1>3

LEMMA NextInv == IInv /\ [Next]_vars => IInv'
<1> SUFFICES ASSUME IInv, [Next]_vars PROVE IInv'
  OBVIOUS
<1>0. /\ TypeOK /\ sig \in Sig /\ nargs \in 0..MaxArgs /\ nargs \in Nat /\ dir \in {"toGo", "toJs", "javaToJs"}
      /\ ret \in Seq(GoResult \cup JsResult) /\ block \in {"none", "live", "freed"}
      /\ result \in {"none", "threw", "refused", "panicked", "undefined", "exception", "cut",
                     "value", "error", "raised", "crashed"}
  BY Facts DEF IInv, TypeOK
<1>1. ASSUME NEW s \in Sig, NEW k \in 0..MaxArgs, native_func_bridge(s, k)
      PROVE  IInv'
  <2>a. Passes
    BY <1>0, <1>1 DEF native_func_bridge, Passes, call, written
  <2> QED
    BY <2>a, StepsKeep
<1>2. ASSUME NEW v \in JsValue, WriteJs(v)
      PROVE  IInv'
  <2>1. /\ JsLetter(v) \in GoLetters
        /\ JsWords(v, Len(args) + 1) = IF JsLetter(v) \in TwoWords THEN Two(Len(args) + 1) ELSE One(Len(args) + 1)
    BY JsLetters
  <2>2. JsLetter(v) \in Letter /\ JsLetter(v) # "error"
    BY <2>1, SlotsAgree
  <2> QED
    BY <1>2, <2>1, <2>2, WriteKeeps DEF WriteJs
<1>3. ASSUME EncodeThrows
      PROVE  IInv'
  <2>a. Passes
    BY <1>0, <1>3 DEF EncodeThrows, End, Passes, call, written
  <2> QED
    BY <2>a, StepsKeep
<1>4. ASSUME CallGoFunc
      PROVE  IInv'
  <2>1. CASE Refused(nargs)
    <3>a. Passes
      BY <1>0, <1>4, <2>1 DEF CallGoFunc, End, Free, Passes, call, written
    <3> QED
      BY <3>a, StepsKeep
  <2>2. CASE ~Refused(nargs)
    <3>a. Passes
      BY <1>0, <1>4, <2>2 DEF CallGoFunc, Passes, call, written
    <3> QED
      BY <3>a, StepsKeep
  <2> QED
    BY <2>1, <2>2
<1>5. ASSUME ReadGo
      PROVE  IInv'
  <2>1. /\ at = "read" /\ dir = "toGo" /\ Len(got) < nargs /\ UNCHANGED <<call, written, ret>>
        /\ got' = Append(got, [made |-> made, words |-> Taken(goSlots(fmt[nth]))])
        /\ j' = j + goSlots(fmt[nth])
    BY <1>5 DEF ReadGo
  <2>2. nth \in DOMAIN fmt /\ nth \in 1..nargs /\ ~Refused(nargs)
    BY <1>0, <2>1, Facts DEF IInv, InStep, nth
  <2>3. fmt[nth] \in GoLetters
    BY <2>1, <2>2, JsLetters DEF IInv, Lettered
  <2>4. goSlots(fmt[nth]) = (IF fmt[nth] \in TwoWords THEN 2 ELSE 1) /\ fmt[nth] # "error"
    BY <2>3, SlotsAgree
  <2>5. made \in Made
    BY <1>0, <2>2, HasParam, MadeIsMade DEF made
  <2>6. at' \in {"read", "done"} /\ result' \in {result, "refused", "panicked"} /\ block' \in {"none", "live", "freed"}
    BY <1>0, <1>5 DEF ReadGo, End, Free
  <2> QED
    BY <2>1, <2>4, <2>5, <2>6, ReadKeeps
<1>6. ASSUME CallGo
      PROVE  IInv'
  <2>a. Passes
    BY <1>0, <1>6 DEF CallGo, End, Passes, call, written
  <2> QED
    BY <2>a, StepsKeep
<1>7. ASSUME NEW rs \in GoResults, GoReturns(rs)
      PROVE  IInv'
  <2>1. rs \in Seq(GoResult \cup JsResult)
    BY GoResultsTyped
  <2>2. FromGo(rs) \in {"undefined", "exception", "panicked", "cut", "value"}
    BY FromGoEnds
  <2>3. block' \in {"none", "live", "freed"}
    BY <1>0, <1>7 DEF GoReturns, Free
  <2> QED
    <3>a. Passes
      BY <1>0, <1>7, <2>1, <2>2, <2>3 DEF GoReturns, End, Passes, call, written
    <3> QED
      BY <3>a, StepsKeep
<1>8. ASSUME NEW k \in 0..MaxArgs, CallFunc(k)
      PROVE  IInv'
  <2>a. Passes
    BY <1>0, <1>8 DEF CallFunc, Passes, call, written
  <2> QED
    BY <2>a, StepsKeep
<1>9. ASSUME NEW v \in GoValue, parseArgs(v)
      PROVE  IInv'
  <2>1. /\ GoLetter(v) \in Letter
        /\ GoWords(GoLetter(v), Len(args) + 1) =
             IF GoLetter(v) \in TwoWords THEN Two(Len(args) + 1)
             ELSE IF GoLetter(v) = "error" THEN <<[arg |-> Len(args) + 1, part |-> "stale"]>>
             ELSE One(Len(args) + 1)
    BY GoLetterFacts
  <2>2. CASE v = "nil*EcmaObject"
    <3>a. Passes
      BY <1>0, <1>9, <2>2 DEF parseArgs, End, Passes, call, written
    <3> QED
      BY <3>a, StepsKeep
  <2>3. CASE v # "nil*EcmaObject"
    BY <1>9, <2>1, <2>3, WriteKeeps DEF parseArgs
  <2> QED
    BY <2>2, <2>3
<1>9a. ASSUME NEW v \in JavaValue, SET_BYTES_ELEM(v)
       PROVE  IInv'
  <2>1. /\ JavaLetter(v) \in Letter /\ JavaLetter(v) # "error"
        /\ JavaWords(JavaLetter(v), Len(args) + 1) =
             IF JavaLetter(v) \in TwoWords THEN Two(Len(args) + 1) ELSE One(Len(args) + 1)
    BY JavaLetterFacts
  <2> QED
    BY <1>9a, <2>1, WriteKeeps DEF SET_BYTES_ELEM
<1>9b. ASSUME NEW k \in 0..MaxArgs, JavaCallFunc(k)
       PROVE  IInv'
  <2>a. Passes
    <3>1. /\ at = "idle" /\ dir' = "javaToJs" /\ nargs' = k /\ sig' = sig
          /\ UNCHANGED <<args, fmt, words, j, got, ret, block>>
          /\ at' \in {"write", "done"} /\ result' \in {result, "crashed", "threw"}
      BY <1>9b DEF JavaCallFunc, End, written
    <3>2. result' \in {"none", "threw", "refused", "panicked", "undefined", "exception", "cut",
                       "value", "error", "raised", "crashed"}
      BY <1>0, <3>1
    <3>3. sig' \in Sig /\ nargs' \in 0..MaxArgs /\ dir' \in {"toGo", "toJs", "javaToJs"}
      BY <1>0, <3>1
    <3>4. at' # "read" /\ at' \in {"write", "read", "run", "done"}
      BY <3>1
    <3>5. ret' \in Seq(GoResult \cup JsResult) /\ block' \in {"none", "live", "freed"}
      BY <1>0, <3>1
    <3> QED
      BY <3>1, <3>2, <3>3, <3>4, <3>5 DEF Passes
  <2> QED
    BY <2>a, StepsKeep
<1>10. ASSUME PushArgs
       PROVE  IInv'
  <2>a. Passes
    BY <1>0, <1>10 DEF PushArgs, Passes, call, written
  <2> QED
    BY <2>a, StepsKeep
<1>11. ASSUME ReadJs
       PROVE  IInv'
  <2>1. /\ at = "read" /\ dir # "toGo" /\ Len(got) < nargs /\ fmt[nth] # "error"
        /\ UNCHANGED <<call, written, at, ret, result, block>>
        /\ got' = Append(got, [made |-> jsValue(Read(jsSlots(fmt[nth]))), words |-> Taken(jsSlots(fmt[nth]))])
        /\ j' = j + jsSlots(fmt[nth])
    BY <1>11 DEF ReadJs
  <2>2. nth \in DOMAIN fmt /\ fmt[nth] \in Letter
    BY <1>0, <2>1, Facts DEF IInv, InStep, nth
  <2>3. jsSlots(fmt[nth]) = IF fmt[nth] \in TwoWords THEN 2 ELSE 1
    BY <2>1, <2>2, SlotsAgree
  <2>4. Read(jsSlots(fmt[nth])) = args[nth]
    BY <2>1, <2>3, Walk
  <2>5. args[nth] \in GoValue \cup JavaValue
    BY <1>0, <2>1, <2>2 DEF IInv, Lettered
  <2>6. jsValue(Read(jsSlots(fmt[nth]))) \in GoValue \cup JavaValue \cup {"cut"}
    BY <2>4, <2>5 DEF jsValue
  <2> QED
    BY <1>0, <2>1, <2>3, <2>6, ReadKeeps
<1>12. ASSUME ThrowError \/ DecodeThrows
       PROVE  IInv'
  <2>a. Passes
    BY <1>0, <1>12 DEF ThrowError, DecodeThrows, End, Passes, call, written
  <2> QED
    BY <2>a, StepsKeep
<1>13. ASSUME CallJs
       PROVE  IInv'
  <2>a. Passes
    BY <1>0, <1>13 DEF CallJs, Passes, call, written
  <2> QED
    BY <2>a, StepsKeep
<1>14. ASSUME NEW v \in JsValue \cup {JsError}, NEW threw \in BOOLEAN, JsReturns(v, threw)
       PROVE  IInv'
  <2>1. [value |-> v, threw |-> threw] \in JsResult
    BY DEF JsResult
  <2>2. <<[value |-> v, threw |-> threw]>> \in Seq(GoResult \cup JsResult)
    BY <2>1
  <2> QED
    <3>a. Passes
      BY <1>0, <1>14, <2>2 DEF JsReturns, End, parseResult, resultReceived, Passes, call, written
    <3> QED
      BY <3>a, StepsKeep
<1>15. ASSUME ResultUnencodable
       PROVE  IInv'
  <2>a. Passes
    BY <1>0, <1>15 DEF ResultUnencodable, End, Passes, call, written
  <2> QED
    BY <2>a, StepsKeep
<1>16. CASE UNCHANGED vars
  <2>1. UNCHANGED <<dir, sig, nargs, args, fmt, words, j, got, at, ret, result, block>>
    BY <1>16 DEF vars, call, written
  <2>2. TypeOK' /\ OwnWords' /\ Lettered'
    BY <2>1 DEF IInv, TypeOK, OwnWords, Lettered
  <2>3. Chained'
    BY <2>1 DEF IInv, Chained
  <2>4. InStep'
    BY <2>1 DEF IInv, InStep, nth, Refused, arity
  <2> QED
    BY <2>1, <2>2, <2>3, <2>4 DEF IInv
<1> QED
  BY <1>1, <1>2, <1>3, <1>4, <1>5, <1>6, <1>7, <1>8, <1>9, <1>9a, <1>9b, <1>10, <1>11, <1>12,
     <1>13, <1>14, <1>15, <1>16 DEF Next, ToGo, ToJs

LEMMA Invariance == Spec => []IInv
BY InitInv, NextInv, PTL DEF Spec

\* Types, and with them the room for two words an argument that both sides allot: no loop
\* writes past it and no loop reads past what was written.
THEOREM WordsFit == Spec => []TypeOK
<1>1. IInv => TypeOK
  BY DEF IInv
<1> QED
  BY <1>1, Invariance, PTL

\* The five loops agree on every format: each argument is read from its own words.
THEOREM LoopsAgree == Spec => []OwnWords
<1>1. IInv => OwnWords
  BY DEF IInv
<1> QED
  BY <1>1, Invariance, PTL

---------------------------------------------------------------------------
(* How calls end. *)

Ended ==
    /\ at = "idle" \/ dir # "toGo" => block = "none"
    /\ at # "done" => ret = <<>> /\ result = "none"
    /\ ErrorsCross /\ BlockFreed

LEMMA FromGoException ==
    ASSUME NEW rs \in GoResults
    PROVE  /\ FromGo(rs) = "exception" <=>
                /\ Len(rs) \in 1..2
                /\ \/ rs[Len(rs)].value = "error"
                   \/ rs[1].value = "error" /\ rs[Len(rs)].value = "nil"
           /\ FromGo(rs) = "panicked" => rs # <<>>
<1>1. CASE rs = <<>>
  BY <1>1 DEF FromGo
<1>2. ASSUME NEW r \in GoResult, rs = <<r>>
      PROVE  FromGo(rs) = "exception" <=> r.value = "error"
  BY <1>2 DEF FromGo
<1>3. ASSUME NEW r, NEW q, rs = <<r, q>>
      PROVE  FromGo(rs) = "exception" <=>
               q.value = "error" \/ (r.value = "error" /\ q.value = "nil")
  BY <1>3 DEF FromGo
<1>4. ASSUME NEW r, rs = <<r, r, r>>
      PROVE  FromGo(rs) = "undefined" /\ Len(rs) = 3
  BY <1>4 DEF FromGo
<1>5. \/ rs = <<>> \/ \E r \in GoResult : rs = <<r>> \/ rs = <<r, r, r>>
      \/ \E r \in GoResult, q \in GoResult : rs = <<r, q>>
  BY DEF GoResults
<1>6. ASSUME NEW r \in GoResult, rs = <<r>>
      PROVE  Len(rs) = 1 /\ rs[1] = r /\ rs # <<>>
  BY <1>6
<1>7. ASSUME NEW r, NEW q, rs = <<r, q>>
      PROVE  Len(rs) = 2 /\ rs[1] = r /\ rs[2] = q /\ rs # <<>>
  BY <1>7
<1>8. FromGo(<<>>) = "undefined" /\ Len(<<>>) = 0
  BY DEF FromGo
<1> QED
  BY <1>2, <1>3, <1>4, <1>5, <1>6, <1>7, <1>8

LEMMA EndedKept == IInv /\ Ended /\ [Next]_vars => Ended'
<1> SUFFICES ASSUME IInv, Ended, [Next]_vars PROVE Ended'
  OBVIOUS
<1>0. /\ dir \in {"toGo", "toJs", "javaToJs"} /\ block \in {"none", "live", "freed"}
      /\ at = "idle" \/ dir # "toGo" => block = "none"
      /\ at # "done" => ret = <<>> /\ result = "none"
      /\ ErrorsCross /\ BlockFreed
  BY DEF IInv, TypeOK, Ended
<1>1. ASSUME ~(at' = "done"), UNCHANGED <<ret, result>>, at # "done",
             (dir' # "toGo" => block' = "none") /\ at' # "idle"
      PROVE  Ended'
  BY <1>0, <1>1 DEF Ended, ErrorsCross, BlockFreed
<1>2. ASSUME at # "done", at' = "done", UNCHANGED <<dir, ret>>, result' # "exception",
             dir # "toGo" => UNCHANGED block,
             block' = "live" => result' \in {"threw", "panicked"}
      PROVE  Ended'
  BY <1>0, <1>2 DEF Ended, ErrorsCross, BlockFreed
<1>3. ASSUME NEW s \in Sig, NEW k \in 0..MaxArgs, native_func_bridge(s, k)
      PROVE  Ended'
  BY <1>1, <1>3 DEF native_func_bridge
<1>4. ASSUME NEW v \in JsValue, WriteJs(v)
      PROVE  Ended'
  BY <1>0, <1>1, <1>4 DEF WriteJs, call
<1>5. ASSUME EncodeThrows
      PROVE  Ended'
  BY <1>2, <1>5 DEF EncodeThrows, End, call
<1>6. ASSUME CallGoFunc
      PROVE  Ended'
  <2>1. CASE Refused(nargs)
    BY <1>2, <1>6, <2>1 DEF CallGoFunc, End, Free, call
  <2>2. CASE ~Refused(nargs)
    BY <1>1, <1>6, <2>2 DEF CallGoFunc, call
  <2> QED
    BY <2>1, <2>2
<1>7. ASSUME ReadGo
      PROVE  Ended'
  <2>1. CASE at' = "read" /\ UNCHANGED <<result, block>>
    BY <1>1, <1>7, <2>1 DEF ReadGo, call
  <2>2. CASE End("panicked") /\ UNCHANGED block
    BY <1>2, <1>7, <2>2 DEF ReadGo, End, call
  <2>3. CASE End("refused") /\ Free
    BY <1>2, <1>7, <2>3 DEF ReadGo, End, Free, call
  <2> QED
    BY <1>7, <2>1, <2>2, <2>3 DEF ReadGo
<1>8. ASSUME CallGo
      PROVE  Ended'
  <2>1. CASE at' = "run" /\ UNCHANGED result
    BY <1>1, <1>8, <2>1 DEF CallGo, call
  <2>2. CASE End("panicked")
    BY <1>2, <1>8, <2>2 DEF CallGo, End, call
  <2> QED
    BY <1>8, <2>1, <2>2 DEF CallGo
<1>9. ASSUME NEW rs \in GoResults, GoReturns(rs)
      PROVE  Ended'
  <2>1. /\ dir' = "toGo" /\ at' = "done" /\ ret' = rs /\ result' = FromGo(rs)
        /\ block' = "live" => FromGo(rs) = "panicked"
    BY <1>0, <1>9 DEF GoReturns, End, Free, call
  <2>2. ErrorsCross'
    BY <2>1, FromGoException DEF ErrorsCross
  <2> QED
    BY <2>1, <2>2 DEF Ended, BlockFreed
<1>10. ASSUME NEW k \in 0..MaxArgs, CallFunc(k)
       PROVE  Ended'
  BY <1>0, <1>1, <1>10 DEF CallFunc
<1>11. ASSUME NEW v \in GoValue, parseArgs(v)
       PROVE  Ended'
  <2>1. CASE v = "nil*EcmaObject"
    BY <1>0, <1>2, <1>11, <2>1 DEF parseArgs, End, call
  <2>2. CASE v # "nil*EcmaObject"
    BY <1>0, <1>1, <1>11, <2>2 DEF parseArgs, call
  <2> QED
    BY <2>1, <2>2
<1>11a. ASSUME NEW v \in JavaValue, SET_BYTES_ELEM(v)
        PROVE  Ended'
  BY <1>0, <1>1, <1>11a DEF SET_BYTES_ELEM, call
<1>11b. ASSUME NEW k \in 0..MaxArgs, JavaCallFunc(k)
        PROVE  Ended'
  BY <1>0, <1>11b DEF JavaCallFunc, End, Ended, ErrorsCross, BlockFreed
<1>12. ASSUME PushArgs \/ ReadJs \/ CallJs
       PROVE  Ended'
  BY <1>0, <1>1, <1>12 DEF PushArgs, ReadJs, CallJs, call
<1>13. ASSUME ThrowError \/ DecodeThrows \/ ResultUnencodable
       PROVE  Ended'
  BY <1>0, <1>2, <1>13 DEF ThrowError, DecodeThrows, ResultUnencodable, End, call
<1>14. ASSUME NEW v \in JsValue \cup {JsError}, NEW threw \in BOOLEAN, JsReturns(v, threw)
       PROVE  Ended'
  <2>1. /\ dir # "toGo" /\ dir' = dir /\ at' = "done" /\ block' = block
        /\ ret' = <<[value |-> v, threw |-> threw]>>
        /\ dir = "toJs" => result' = parseResult(v, threw)
    BY <1>14 DEF JsReturns, End, call
  <2>2. ret'[1].threw = threw /\ ret'[1].value = v
    BY <2>1
  <2>3. dir = "toJs" => (result' = "error" <=> threw \/ v = JsError)
    BY <2>1 DEF parseResult
  <2> QED
    BY <1>0, <2>1, <2>2, <2>3 DEF Ended, ErrorsCross, BlockFreed
<1>15. CASE UNCHANGED vars
  BY <1>15 DEF vars, call, Ended, ErrorsCross, BlockFreed
<1> QED
  BY <1>3, <1>4, <1>5, <1>6, <1>7, <1>8, <1>9, <1>10, <1>11, <1>11a, <1>11b, <1>12, <1>13,
     <1>14, <1>15 DEF Next, ToGo, ToJs

LEMMA EndedInv == Spec => [](IInv /\ Ended)
<1>1. Init => Ended
  BY DEF Init, Ended, ErrorsCross, BlockFreed
<1> QED
  BY <1>1, InitInv, NextInv, EndedKept, PTL DEF Spec

\* An error of either side's function is an error on the other side, and nothing else is.
THEOREM ErrorsCrossTheBorder == Spec => []ErrorsCross
<1>1. Ended => ErrorsCross
  BY DEF Ended
<1> QED
  BY <1>1, EndedInv, PTL

\* native_func_bridge frees its block on every path but a throw and a panic.
THEOREM BlockAlwaysFreed == Spec => []BlockFreed
<1>1. Ended => BlockFreed
  BY DEF Ended
<1> QED
  BY <1>1, EndedInv, PTL

---------------------------------------------------------------------------
(* What the arguments of a Go function are made into. *)

Fits(k) == got[k].made # "nil" /\ Convertible(got[k].made, getFuncArgType(k))

Checked ==
    dir = "toGo" =>
        /\ got # <<>> => ~Refused(nargs)
        /\ \A k \in DOMAIN got : got[k].made = MakeArg(fmt[k], args[k], getFuncArgType(k))
        /\ at = "read" => \A k \in DOMAIN got : Fits(k)
        /\ at = "run" \/ ret # <<>> =>
             /\ ~Refused(nargs)
             /\ \A k \in 1..nargs : k \in DOMAIN got /\ Assignable(got[k].made, ParamType(k))
        /\ result = "refused" /\ ~Refused(nargs) =>
             \E k \in DOMAIN got : ~Convertible(got[k].made, getFuncArgType(k))
        /\ at = "done" /\ result = "panicked" /\ ret = <<>> =>
             \E k \in DOMAIN got :
                 got[k].made = "nil" \/ (Fits(k) /\ ~Assignable(got[k].made, ParamType(k)))

LEMMA CheckedKept == IInv /\ Ended /\ Checked /\ [Next]_vars => Checked'
<1> SUFFICES ASSUME IInv, Ended, Checked, [Next]_vars PROVE Checked'
  OBVIOUS
<1> DEFINE Same == UNCHANGED <<dir, sig, nargs, args, fmt, got>>
<1>0. /\ at # "done" => ret = <<>> /\ result = "none"
      /\ at \in {"idle", "write"} => got = <<>>
      /\ at = "read" /\ dir = "toGo" => ~Refused(nargs)
      /\ DOMAIN got = 1..Len(got) /\ Len(got) \in Nat /\ nargs \in Nat
  BY Facts DEF IInv, InStep, Ended
<1>1. ASSUME Same
      PROVE  /\ \A k : /\ getFuncArgType(k)' = getFuncArgType(k) /\ ParamType(k)' = ParamType(k)
                       /\ Fits(k)' = Fits(k)
             /\ Refused(nargs)' = Refused(nargs)
  BY <1>1 DEF getFuncArgType, ParamType, Fits, Refused, arity
\* Steps before any argument is read, or of the other direction.
<1>2. ASSUME got' = <<>>, at' \in {"idle", "write", "read", "done"}, UNCHANGED ret, at # "done",
             result' # "panicked", result' = "refused" => Refused(nargs)'
      PROVE  Checked'
  BY <1>0, <1>2 DEF Checked
<1>3. ASSUME dir' # "toGo"
      PROVE  Checked'
  BY <1>3 DEF Checked
<1>4. ASSUME NEW s \in Sig, NEW k \in 0..MaxArgs, native_func_bridge(s, k)
      PROVE  Checked'
  BY <1>0, <1>2, <1>4 DEF native_func_bridge
<1>5. ASSUME NEW v \in JsValue, WriteJs(v)
      PROVE  Checked'
  BY <1>0, <1>2, <1>5 DEF WriteJs
<1>6. ASSUME EncodeThrows
      PROVE  Checked'
  BY <1>0, <1>2, <1>6 DEF EncodeThrows, End
<1>7. ASSUME CallGoFunc
      PROVE  Checked'
  <2>1. Same
    BY <1>7 DEF CallGoFunc, call, written
  <2>2. result' = "refused" => Refused(nargs)
    BY <1>0, <1>7 DEF CallGoFunc, End
  <2>3. result' = "refused" => Refused(nargs)'
    BY <1>1, <2>1, <2>2
  <2>4. at' \in {"read", "done"} /\ result' # "panicked" /\ UNCHANGED ret /\ got' = <<>> /\ at # "done"
    BY <1>0, <1>7 DEF CallGoFunc, End
  <2> QED
    BY <1>2, <2>3, <2>4
<1>8. ASSUME ReadGo
      PROVE  Checked'
  <2>1. /\ at = "read" /\ dir = "toGo" /\ dir' = "toGo" /\ Len(got) < nargs /\ ret = <<>> /\ result = "none"
        /\ UNCHANGED <<dir, sig, nargs, args, fmt, ret>>
        /\ got' = Append(got, [made |-> made, words |-> Taken(goSlots(fmt[nth]))])
    BY <1>0, <1>8 DEF ReadGo, call, written
  <2>2. nth \in DOMAIN fmt /\ nth = Len(got) + 1 /\ ~Refused(nargs)
    BY <1>0, <2>1, Facts DEF IInv, InStep, nth
  <2>3. fmt[nth] \in GoLetters
    BY <2>1, <2>2, JsLetters DEF IInv, Lettered
  <2>4. goSlots(fmt[nth]) = (IF fmt[nth] \in TwoWords THEN 2 ELSE 1) /\ fmt[nth] # "error"
    BY <2>3, SlotsAgree
  <2>5. Read(goSlots(fmt[nth])) = args[nth]
    BY <2>1, <2>4, Walk
  <2>6. made = MakeArg(fmt[nth], args[nth], getFuncArgType(nth))
    BY <2>5 DEF made
  <2>7. /\ DOMAIN got' = 1..(Len(got) + 1) /\ got' # <<>>
        /\ \A k \in DOMAIN got : got'[k] = got[k]
        /\ got'[nth].made = made
    <3>1. got \in Seq(Given)
      BY DEF IInv
    <3> QED
      BY <1>0, <2>1, <2>2, <3>1
  <2>8. /\ \A k : getFuncArgType(k)' = getFuncArgType(k) /\ ParamType(k)' = ParamType(k)
        /\ Refused(nargs)' = Refused(nargs)
    BY <2>1 DEF getFuncArgType, ParamType, Refused, arity
  <2>9. \A k \in DOMAIN got' : got'[k].made = MakeArg(fmt[k], args[k], getFuncArgType(k))
    BY <1>0, <2>1, <2>2, <2>6, <2>7 DEF Checked
  <2>10. \A k \in DOMAIN got : Fits(k)' = Fits(k)
    BY <2>7, <2>8 DEF Fits
  <2>11. \A k \in DOMAIN got : Fits(k)
    BY <2>1 DEF Checked
  <2>12. ASSUME NEW k, k = nth, made # "nil", Convertible(made, getFuncArgType(nth))
         PROVE  Fits(k)'
    <3>1. got'[k].made = made /\ getFuncArgType(k)' = getFuncArgType(nth)
      BY <2>7, <2>8, <2>12
    <3> QED
      BY <2>12, <3>1 DEF Fits
  <2>12a. nth \in DOMAIN got' /\ \A k \in DOMAIN got' : k \in DOMAIN got \/ k = nth
    BY <1>0, <2>2, <2>7
  <2>13. \/ at' = "done" /\ result' = "panicked" /\ made = "nil"
         \/ at' = "done" /\ result' = "refused" /\ ~Convertible(made, getFuncArgType(nth))
         \/ at' = "read" /\ result' = "none" /\ made # "nil" /\ Convertible(made, getFuncArgType(nth))
    BY <1>8, <2>1 DEF ReadGo, End
  <2>14. at' = "read" => \A k \in DOMAIN got' : Fits(k)'
    <3>1. ASSUME at' = "read", NEW k \in DOMAIN got' PROVE Fits(k)'
      <4>1. CASE k \in DOMAIN got
        BY <2>10, <2>11, <4>1
      <4>2. CASE k = nth
        BY <2>12, <2>13, <3>1, <4>2
      <4> QED
        BY <2>12a, <4>1, <4>2
    <3> QED
      BY <3>1
  <2>15. result' = "refused" => \E k \in DOMAIN got' : ~Convertible(got'[k].made, getFuncArgType(k))
    BY <2>1, <2>7, <2>12a, <2>13
  <2>16. result' = "panicked" => \E k \in DOMAIN got' : got'[k].made = "nil"
    BY <2>1, <2>7, <2>12a, <2>13
  <2> QED
    BY <2>1, <2>2, <2>8, <2>9, <2>13, <2>14, <2>15, <2>16 DEF Checked
<1>9. ASSUME CallGo
      PROVE  Checked'
  <2>1. /\ Same /\ at = "read" /\ dir = "toGo" /\ Len(got) = nargs /\ UNCHANGED ret /\ ret = <<>> /\ result = "none"
    BY <1>0, <1>9 DEF CallGo, call, written
  <2>2. /\ \A k : getFuncArgType(k)' = getFuncArgType(k) /\ ParamType(k)' = ParamType(k) /\ Fits(k)' = Fits(k)
        /\ Refused(nargs)' = Refused(nargs)
    BY <1>1, <2>1
  <2>3. /\ ~Refused(nargs) /\ \A k \in DOMAIN got : Fits(k)
        /\ \A k \in DOMAIN got : got[k].made = MakeArg(fmt[k], args[k], getFuncArgType(k))
    BY <1>0, <2>1 DEF Checked
  <2>4. DOMAIN got = 1..nargs
    BY <1>0, <2>1
  <2>5. CASE \A k \in 1..nargs : Assignable(got[k].made, ParamType(k))
    <3>1. at' = "run" /\ result' = "none"
      BY <1>9, <2>1, <2>5 DEF CallGo
    <3> QED
      BY <2>1, <2>2, <2>3, <2>4, <2>5, <3>1 DEF Checked
  <2>6. CASE ~\A k \in 1..nargs : Assignable(got[k].made, ParamType(k))
    <3>1. at' = "done" /\ result' = "panicked"
      BY <1>9, <2>6 DEF CallGo, End
    <3>2. \E k \in DOMAIN got : Fits(k) /\ ~Assignable(got[k].made, ParamType(k))
      BY <2>3, <2>4, <2>6
    <3> QED
      BY <2>1, <2>2, <2>3, <3>1, <3>2 DEF Checked
  <2> QED
    BY <2>5, <2>6
<1>10. ASSUME NEW rs \in GoResults, GoReturns(rs)
       PROVE  Checked'
  <2>1. /\ Same /\ at = "run" /\ dir = "toGo" /\ at' = "done" /\ ret' = rs /\ result' = FromGo(rs)
    BY <1>10 DEF GoReturns, End, call, written
  <2>2. /\ \A k : getFuncArgType(k)' = getFuncArgType(k) /\ ParamType(k)' = ParamType(k) /\ Fits(k)' = Fits(k)
        /\ Refused(nargs)' = Refused(nargs)
    BY <1>1, <2>1
  <2>3. /\ ~Refused(nargs)
        /\ \A k \in DOMAIN got : got[k].made = MakeArg(fmt[k], args[k], getFuncArgType(k))
        /\ \A k \in 1..nargs : k \in DOMAIN got /\ Assignable(got[k].made, ParamType(k))
    BY <2>1 DEF Checked
  <2>4. result' # "refused" /\ (result' = "panicked" => ret' # <<>>)
    BY <2>1, FromGoEnds, FromGoException
  <2> QED
    BY <2>1, <2>2, <2>3, <2>4 DEF Checked
<1>11. ASSUME NEW k \in 0..MaxArgs, CallFunc(k)
       PROVE  Checked'
  BY <1>3, <1>11 DEF CallFunc
<1>12. ASSUME NEW v \in GoValue, parseArgs(v)
       PROVE  Checked'
  BY <1>3, <1>12 DEF parseArgs, call
<1>12a. ASSUME NEW v \in JavaValue, SET_BYTES_ELEM(v)
        PROVE  Checked'
  BY <1>3, <1>12a DEF SET_BYTES_ELEM, call
<1>12b. ASSUME NEW k \in 0..MaxArgs, JavaCallFunc(k)
        PROVE  Checked'
  BY <1>3, <1>12b DEF JavaCallFunc
<1>13. ASSUME PushArgs \/ ReadJs \/ CallJs \/ ThrowError \/ DecodeThrows \/ ResultUnencodable
       PROVE  Checked'
  BY <1>3, <1>13 DEF PushArgs, ReadJs, CallJs, ThrowError, DecodeThrows, ResultUnencodable, call
<1>14. ASSUME NEW v \in JsValue \cup {JsError}, NEW threw \in BOOLEAN, JsReturns(v, threw)
       PROVE  Checked'
  BY <1>3, <1>14 DEF JsReturns, call
<1>15. CASE UNCHANGED vars
  <2>1. Same /\ UNCHANGED <<at, ret, result>>
    BY <1>15 DEF vars, call, written
  <2>2. /\ \A k : getFuncArgType(k)' = getFuncArgType(k) /\ ParamType(k)' = ParamType(k) /\ Fits(k)' = Fits(k)
        /\ Refused(nargs)' = Refused(nargs)
    BY <1>1, <2>1
  <2> QED
    BY <2>1, <2>2 DEF Checked
<1> QED
  BY <1>4, <1>5, <1>6, <1>7, <1>8, <1>9, <1>10, <1>11, <1>12, <1>12a, <1>12b, <1>13,
     <1>14, <1>15 DEF Next, ToGo, ToJs

\* Whichever parameter a value was made for, reflect's Call takes what was made for another
\* only if the value suits that.
LEMMA TakenSuits ==
    ASSUME NEW v \in JsValue, NEW p \in Param, NEW q \in Param
    PROVE  LET m == MakeArg(JsLetter(v), v, q) IN
           /\ Assignable(m, p) => Suits(v, p)
           /\ m = "nil" => v = "null"
<1>1. JsLetter(v) \in {"none", "bool", "double", "ecmafunc", "lstring", "buffer", "jarray", "jobject"}
  BY DEF JsLetter
<1> QED
  BY <1>1 DEF Param, Numeric, SliceKind, JsValue, Json, MakeArg, JsLetter, Unmarshal, Assignable, Suits

\* What is made of a suitable value for its own parameter is taken, but in the cases named.
LEMMA MadeFits ==
    ASSUME NEW v \in JsValue, NEW p \in Param
    PROVE  LET m == MakeArg(JsLetter(v), v, p) IN
           /\ ~Convertible(m, p) => ~Suits(v, p) \/ Composite(v, p)
           /\ Convertible(m, p) /\ ~Assignable(m, p) =>
                \/ v = "null"
                \/ p = "Duration" /\ v \in {"number", "1"}
                \/ p = "int" /\ v = "1"
BY DEF Param, Numeric, SliceKind, JsValue, Json, MakeArg, JsLetter, Unmarshal,
       Assignable, Convertible, Suits, Composite

\* An argument is made for the parameter it becomes, unless it comes just before the variadic
\* ones.
LEMMA OwnType ==
    ASSUME TypeOK, NEW k \in 1..nargs, ~Misread(k)
    PROVE  getFuncArgType(k) = ParamType(k)
<1>1. PICK n \in 0..MaxParams : sig.params \in [1..n -> Param]
  BY DEF TypeOK, Sig
<1>2. arity \in Nat
  <2>1. n \in Nat
    OBVIOUS
  <2> QED
    BY <1>1, <2>1, LenProperties, SeqDef DEF arity
<1>3. k \in Nat
  BY DEF TypeOK
<1> QED
  BY <1>2, <1>3 DEF Misread, getFuncArgType, ParamType

\* A Go function runs with arguments that suit its parameters only, and a call with suitable
\* arguments is refused, or panics, in the cases named only: for every signature, and any
\* number of arguments.
THEOREM GoCallsFit == Spec => []CallsFit
<1>1. Init => Checked
  BY DEF Init, Checked
<1>2. Spec => [](IInv /\ Ended /\ Checked)
  BY <1>1, EndedInv, CheckedKept, PTL DEF Spec
<1>3. ASSUME IInv, Ended, Checked
      PROVE  CallsFit
  <2> SUFFICES ASSUME dir = "toGo"
      PROVE  /\ ret # <<>> \/ at = "run" => \A k \in 1..nargs : Suits(args[k], ParamType(k))
             /\ result = "refused" /\ ~Refused(nargs) =>
                  \E k \in DOMAIN got : \/ ~Suits(args[k], ParamType(k))
                                        \/ Misread(k)
                                        \/ Composite(args[k], ParamType(k))
             /\ result = "panicked" /\ at = "done" /\ ret = <<>> =>
                  \E k \in DOMAIN got : \/ args[k] = "null"
                                        \/ Misread(k)
                                        \/ ParamType(k) = "Duration" /\ args[k] \in {"number", "1"}
                                        \/ ParamType(k) = "int" /\ args[k] = "1"
    BY DEF CallsFit
  <2>1. /\ TypeOK
        /\ got # <<>> => ~Refused(nargs)
        /\ \A k \in DOMAIN got : got[k].made = MakeArg(fmt[k], args[k], getFuncArgType(k))
        /\ at = "run" \/ ret # <<>> =>
             /\ ~Refused(nargs)
             /\ \A k \in 1..nargs : k \in DOMAIN got /\ Assignable(got[k].made, ParamType(k))
        /\ result = "refused" /\ ~Refused(nargs) =>
             \E k \in DOMAIN got : ~Convertible(got[k].made, getFuncArgType(k))
        /\ at = "done" /\ result = "panicked" /\ ret = <<>> =>
             \E k \in DOMAIN got :
                 got[k].made = "nil" \/ (Fits(k) /\ ~Assignable(got[k].made, ParamType(k)))
    BY <1>3 DEF Checked, IInv
  <2>2. ASSUME NEW k \in DOMAIN got
        PROVE  /\ Assignable(got[k].made, ParamType(k)) => Suits(args[k], ParamType(k))
               /\ ~Convertible(got[k].made, getFuncArgType(k)) =>
                    ~Suits(args[k], ParamType(k)) \/ Misread(k) \/ Composite(args[k], ParamType(k))
               /\ Fits(k) /\ ~Assignable(got[k].made, ParamType(k)) =>
                    \/ args[k] = "null"
                    \/ Misread(k)
                    \/ ParamType(k) = "Duration" /\ args[k] \in {"number", "1"}
                    \/ ParamType(k) = "int" /\ args[k] = "1"
               /\ got[k].made = "nil" => args[k] = "null"
    <3>1. k \in DOMAIN fmt /\ k \in 1..nargs /\ got # <<>>
      <4>1. Len(got) <= Len(args) /\ Len(args) <= nargs
        BY <1>3 DEF IInv, TypeOK
      <4>2. DOMAIN got = 1..Len(got) /\ got # <<>>
        BY <1>3, <2>2, Facts
      <4> QED
        BY <1>3, <2>2, <4>1, <4>2, Facts
    <3>2. args[k] \in JsValue /\ fmt[k] = JsLetter(args[k])
      BY <1>3, <3>1 DEF IInv, Lettered
    <3>3. ParamType(k) \in Param /\ getFuncArgType(k) \in Param
      BY <2>1, <3>1, HasParam
    <3>4. got[k].made = MakeArg(JsLetter(args[k]), args[k], getFuncArgType(k))
      BY <2>1, <3>2
    <3>5. /\ Assignable(got[k].made, ParamType(k)) => Suits(args[k], ParamType(k))
          /\ got[k].made = "nil" => args[k] = "null"
      BY <3>2, <3>3, <3>4, TakenSuits
    <3>6. CASE Misread(k)
      BY <3>5, <3>6
    <3>7. CASE ~Misread(k)
      <4>1. getFuncArgType(k) = ParamType(k)
        BY <2>1, <3>1, <3>7, OwnType
      <4> QED
        BY <3>2, <3>3, <3>4, <3>5, <4>1, MadeFits DEF Fits
    <3> QED
      BY <3>6, <3>7
  <2> QED
    BY <2>1, <2>2
<1> QED
  BY <1>2, <1>3, PTL
===============================================================================
