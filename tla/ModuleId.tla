------------------------------- MODULE ModuleId -------------------------------
(***************************************************************************)
(* duk__resolve_module_id (duk_module_duktape.c): turns the id a script    *)
(* gives to require() into the absolute id of a module.  The function      *)
(* works in one buffer on its stack, writes its output over its input and  *)
(* checks no output bound, "on purpose: the output is never longer than    *)
(* the input" (duk_module_duktape.c:48-52).  The model is its loop over    *)
(* that buffer; a state is the buffer and the function's pointers, as      *)
(* indices.  One action is one round of one of its loops.                  *)
(***************************************************************************)
EXTENDS Integers, SequencesExt

CONSTANTS
    Char,       \* the characters of names, other than the three below
    Request,    \* the ids scripts ask for: sequences of characters
    Base,       \* the ids of the modules they ask from: sequences of characters
    NoBase,     \* a script outside of any module: require.id is undefined
    Limit       \* DUK_COMMONJS_MODULE_ID_LIMIT, the size of the buffer

Slash == "/"
Dot == "."
Nul == "NUL"        \* the end of a C string
Junk == "junk"      \* a byte of the buffer that was never written

Letter == Char \cup {Slash, Dot}
Byte == Letter \cup {Nul, Junk}

ASSUME CharAssumption == {Slash, Dot, Nul, Junk} \cap Char = {}
ASSUME RequestAssumption == Request \subseteq Seq(Letter)
ASSUME BaseAssumption == Base \subseteq Seq(Letter)
ASSUME NoBaseAssumption == NoBase \notin Seq(Letter)
ASSUME LimitAssumption == Limit \in Nat \ {0}

VARIABLES
    pc,         \* where the function is: "format", "term", "copy", "slashes", "done" or "error"
    req,        \* the id asked for
    base,       \* the id of the module that asks, or NoBase
    buf,        \* the buffer
    p,          \* the next byte to read
    q,          \* the next byte to write
    qLast,      \* where the last component starts
    c           \* the character just read, while a name is copied

vars == <<pc, req, base, buf, p, q, qLast, c>>
\* What the function was called with.
call == <<req, base>>

Index == 0..(Limit - 1)

\* The id to work on: relative ids start from the module that asks, whose own name ".." drops.
isRelative == base # NoBase /\ req # <<>> /\ Head(req) = Dot
input == IF isRelative THEN base \o <<Slash, Dot, Dot, Slash>> \o req ELSE req

Init ==
    /\ pc = "format"
    /\ req \in Request
    /\ base \in Base \cup {NoBase}
    /\ buf = [i \in Index |-> Junk]
    /\ p = 0 /\ q = 0 /\ qLast = 0
    /\ c = Nul

\* Fault: does not ask whether snprintf had to cut the input.
FormatCut ==
    /\ pc = "format"
    /\ pc' = "term"
    /\ buf' = [i \in Index |-> CASE i < Len(input) /\ i < Limit - 1 -> input[i + 1]
                                 [] i = Len(input) \/ i = Limit - 1 -> Nul
                                 [] OTHER -> Junk]
    /\ UNCHANGED <<call, p, q, qLast, c>>

\* snprintf into the buffer; an input that does not fit with its end is refused.
Format ==
    /\ pc = "format"
    /\ IF Len(input) >= Limit
       THEN pc' = "error" /\ UNCHANGED buf
       ELSE /\ pc' = "term"
            /\ buf' = [i \in Index |-> IF i < Len(input) THEN input[i + 1]
                                       ELSE IF i = Len(input) THEN Nul ELSE Junk]
    /\ UNCHANGED <<call, p, q, qLast, c>>

---------------------------------------------------------------------------
(* At the start of a term. *)

\* "." is followed by a slash and eaten.
TermDot ==
    /\ buf[p] = Dot
    /\ buf[p + 1] = Slash
    /\ pc' = "slashes"
    /\ p' = p + 2
    /\ UNCHANGED <<q, c>>

AtDotDot ==
    /\ buf[p] = Dot
    /\ buf[p + 1] = Dot
    /\ buf[p + 2] = Slash

\* Backtracking from the slash at the output's end stops after the slash before it, or at the
\* start of the buffer.
IsStartOfLast(i) ==
    /\ i > 0 => buf[i - 1] = Slash
    /\ \A j \in i..(q - 2) : buf[j] # Slash

\* Fault: backtracks without a look at the start of the buffer.
TermDotDotUnchecked ==
    /\ AtDotDot
    /\ pc' = "slashes"
    /\ p' = p + 3
    /\ IF q = 0 THEN q' = -1 ELSE \E i \in 0..(q - 1) : IsStartOfLast(i) /\ q' = i
    /\ UNCHANGED c

\* ".." is followed by a slash and takes back the output's last component, which must exist.
TermDotDot ==
    /\ AtDotDot
    /\ q # 0
    /\ pc' = "slashes"
    /\ p' = p + 3
    /\ \E i \in 0..(q - 1) : IsStartOfLast(i) /\ q' = i
    /\ UNCHANGED c

\* Fault: a name may start with a dot.
TermNameDotted ==
    /\ buf[p] \in Char \cup {Dot}
    /\ pc' = "copy"
    /\ c' = buf[p]
    /\ p' = p + 1
    /\ UNCHANGED q

\* An ordinary name: its first character has been read.
TermName ==
    /\ buf[p] \in Char
    /\ pc' = "copy"
    /\ c' = buf[p]
    /\ p' = p + 1
    /\ UNCHANGED q

\* No term, or one that starts with a dot and is neither of the above.
TermError ==
    /\ \/ buf[p] \in {Nul, Slash}
       \/ /\ buf[p] = Dot
          /\ buf[p + 1] # Slash
          /\ AtDotDot => q = 0
    /\ pc' = "error"
    /\ UNCHANGED <<p, q, c>>

Term ==
    /\ pc = "term"
    /\ qLast' = q
    /\ TermDot \/ TermDotDot \/ TermName \/ TermError
    /\ UNCHANGED <<call, buf>>

---------------------------------------------------------------------------

\* Writes the character just read and reads the next, which may end the name or the id.
CopyName ==
    /\ pc = "copy"
    /\ LET next == buf[p]
       IN /\ buf' = IF next = Slash THEN [buf EXCEPT ![q] = c, ![q + 1] = Slash]
                                    ELSE [buf EXCEPT ![q] = c]
          /\ q' = IF next = Slash THEN q + 2 ELSE q + 1
          /\ pc' = IF next = Nul THEN "done" ELSE IF next = Slash THEN "slashes" ELSE "copy"
          /\ c' = next
    /\ p' = p + 1
    /\ UNCHANGED <<call, qLast>>

\* Fault: the slashes after a term are left where they are.
EatNoSlash ==
    /\ pc = "slashes"
    /\ pc' = "term"
    /\ UNCHANGED <<call, buf, p, q, qLast, c>>

\* Fault: looks at the same slash again.
EatSlashForever ==
    /\ pc = "slashes"
    /\ IF buf[p] = Slash THEN UNCHANGED <<p, pc>> ELSE pc' = "term" /\ UNCHANGED p
    /\ UNCHANGED <<call, buf, q, qLast, c>>

EatSlash ==
    /\ pc = "slashes"
    /\ IF buf[p] = Slash THEN p' = p + 1 /\ UNCHANGED pc
                         ELSE pc' = "term" /\ UNCHANGED p
    /\ UNCHANGED <<call, buf, q, qLast, c>>

Next == Format \/ Term \/ CopyName \/ EatSlash

Spec == Init /\ [][Next]_vars

\* The function is a sequential loop: while it can go on it does.
FairSpec == Spec /\ WF_vars(Next)

---------------------------------------------------------------------------
(* What require() may expect of it. *)

\* The buffer's pointers stay in the buffer.
TypeOK ==
    /\ pc \in {"format", "term", "copy", "slashes", "done", "error"}
    /\ req \in Request
    /\ base \in Base \cup {NoBase}
    /\ buf \in [Index -> Byte]
    /\ p \in 0..Limit
    /\ q \in 0..Limit
    /\ qLast \in 0..Limit
    /\ c \in Letter \cup {Nul}

\* The byte at i of the input as a C string.
inputAt(i) == IF i = Len(input) THEN Nul ELSE input[i + 1]

Running == pc \in {"term", "copy", "slashes"}

\* The output never overtakes the input it is written over: while the function runs, what it
\* has yet to read is there as it was given, up to its end and not beyond (the assertions of
\* lines 94, 121, 122, 125, 178-180 and the comment of lines 48-52).
InPlace ==
    /\ q <= p
    /\ Running => /\ p <= Len(input)
                  /\ \A i \in p..Len(input) : buf[i] = inputAt(i)

Output == [i \in 1..q |-> buf[i - 1]]
LastComponent == [i \in 1..(q - qLast) |-> buf[qLast + i - 1]]

\* A resolved id "only contains terms and slashes, and no '.' or '..' terms"
\* (duk_bridge.c:400-401): every slash is between two names, no name starts with a dot, and
\* the last component is the last name.  modSearch appends it to a directory.
Canonical ==
    pc = "done" =>
        /\ q > 0
        /\ buf[0] \in Char
        /\ \A i \in 0..(q - 1) : buf[i] \in Letter
        /\ \A i \in 0..(q - 1) : buf[i] = Slash => i + 1 < q /\ buf[i + 1] \in Char
        /\ qLast < q
        /\ qLast > 0 => buf[qLast - 1] = Slash
        /\ \A i \in qLast..(q - 1) : buf[i] # Slash

\* The same of an id: a fresh require's id is one that was resolved before.  It is not
\* writable, but a script may redefine it; the ids TLC uses are such.
IsId(id) ==
    /\ id # <<>> /\ id[1] \in Char
    /\ \A i \in 1..Len(id) : id[i] = Slash => i < Len(id) /\ id[i + 1] \in Char
BasesAreIds == \A b \in Base : IsId(b)

---------------------------------------------------------------------------
(* Resolution by terms, as CommonJS defines it, without a buffer. *)

AddChar(terms, ch) ==
    IF ch = Slash THEN Append(terms, <<>>)
                  ELSE [terms EXCEPT ![Len(terms)] = Append(@, ch)]

\* What is between the slashes of s.
Terms(s) == FoldLeft(AddChar, << <<>> >>, s)

IsName(t) == t # <<>> /\ Head(t) # Dot
Broken == << <<Dot>> >>     \* no path at all

\* The path one term further on; empty terms are repeated slashes.
Walk(path, t) ==
    IF path = Broken THEN Broken
    ELSE CASE t \in {<<>>, <<Dot>>}               -> path
           [] t = <<Dot, Dot>> /\ path # <<>>     -> Front(path)
           [] IsName(t)                           -> Append(path, t)
           [] OTHER                               -> Broken

\* The path of the module asked for: from the directory of the asker if relative.  The first
\* term may not be empty, and the last must name the module.
ResolvedPath ==
    LET terms == Terms(req)
        start == IF isRelative THEN Front(Terms(base)) ELSE <<>>
    IN IF terms[1] = <<>> \/ ~IsName(Last(terms)) THEN Broken ELSE FoldLeft(Walk, start, terms)

AddTerm(s, t) == IF s = <<>> THEN t ELSE s \o <<Slash>> \o t
Join(path) == FoldLeft(AddTerm, <<>>, path)

\* The buffer's bytes come to the same as the terms: same module, same last component, and
\* an error exactly when there is no such path or the input is too long.
ResolvesByTerms ==
    /\ pc = "done" => /\ Output = Join(ResolvedPath)
                      /\ LastComponent = Last(ResolvedPath)
    /\ pc \in {"done", "error"} =>
          (pc = "done" <=> ResolvedPath # Broken /\ Len(input) < Limit)

\* Every resolution ends.
Terminates == <>(pc \in {"done", "error"})
===============================================================================
