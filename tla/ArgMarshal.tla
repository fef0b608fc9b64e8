------------------------------ MODULE ArgMarshal ------------------------------
(***************************************************************************)
(* How arguments and results cross between Go, or Java, and JavaScript:    *)
(* go2c.go, CallFunc and parseResult of duk_bridge.go; J2CHelper.java and  *)
(* do_call_func of dukbridge.c; and native_func_bridge,                    *)
(* push_args_and_call_func and call_result_callback of duk_bridge.c.       *)
(*                                                                         *)
(* One side writes a format, one letter for each argument, and an array of *)
(* words, one or two for each; the other side reads both.  Nothing but the *)
(* letters says how many words an argument has, and each of the five loops *)
(* that write or read has a table of its own.                              *)
(* dir is "toGo" when JavaScript calls a Go function, "toJs" when Go calls *)
(* a JavaScript one and "javaToJs" when Java does; one call is followed    *)
(* from its start to its end.                                              *)
(* An argument is one of the kinds of value the code tells apart.          *)
(* Definitions marked "Fault" are bugs for the properties to notice.       *)
(***************************************************************************)
EXTENDS Integers, Sequences, FiniteSets

CONSTANTS
    MaxArgs,    \* bound: arguments of a call
    MaxParams   \* bound: parameters of a Go function

ASSUME BoundAssumption == MaxArgs \in Nat /\ MaxParams \in Nat

VARIABLES
    dir,    \* who calls whom
    sig,    \* the Go function's parameters
    nargs,  \* how many arguments the call has
    args,   \* the arguments written so far
    fmt,    \* their letters
    words,  \* and their words
    j,      \* the word to be read next
    got,    \* the arguments read so far: what each was made into, and from which words
    at,     \* "idle", "write", "read", "run" (the called function) or "done"
    ret,    \* what the called function came back with
    result, \* how the call ended for its caller
    block   \* the block of memory native_func_bridge has for fmt and words

call == <<dir, sig, nargs>>
written == <<args, fmt, words>>
vars == <<call, written, j, got, at, ret, result, block>>

\* Objects in JSON, by their text: objects, arrays, numbers, strings, booleans, null, and none
\* at all (toJSON returns undefined, or the object is a native function).
Json == {"{}", "[]", "1", "''", "true", "null", ""}
JsValue == {"undefined", "boolean", "number", "string", "buffer", "function"} \cup Json
JsError == "Error"

\* What Go code passes to JavaScript, by the cases of parseArg: an "int" fits in 32 bits and a
\* "bigint" does not, "int64" stands for all numbers that travel as doubles; "other" is what
\* only json.Marshal knows, "chan" not even that.
GoValue == {"nil", "bool", "int", "bigint", "int64", "string", "[]byte", "[]string", "map",
            "*EcmaObject", "nil*EcmaObject", "error", "*struct", "other", "chan"}

\* What Java code passes to JavaScript, by the cases of normalizeArgs; the last three are an
\* ObjArg's types.
JavaValue == {"null", "Boolean", "Integer", "Double", "String", "byte[]", "B", "a", "o"}

\* Go types: "int" and "float64" stand for the numeric types, "Duration" for types defined
\* with one of them, "[]int" for slices of anything but bytes; "map" is map[string]interface{},
\* "map[string]int" any other map with strings for keys.
Numeric == {"int", "float64", "Duration"}
SliceKind == {"[]byte", "[]int"}
Param == Numeric \cup SliceKind
         \cup {"bool", "string", "map", "map[string]int", "any", "*EcmaObject"}
Made == Param \cup {"[]any", "nil"}

\* A function's parameters; a variadic one's last is the type of any further argument.
Sig == {s \in [params : UNION {[1..n -> Param] : n \in 0..MaxParams}, variadic : BOOLEAN] :
          s.variadic => s.params # <<>>}

Letter == {"none", "bool", "int", "double", "lstring", "buffer", "jarray", "jobject",
           "ecmafunc", "error", "mobject"}

\* A word: the value of an argument or its length or address, or what was left in a variable
\* of the loop by an earlier argument.
Word == [arg : 1..MaxArgs, part : {"value", "len", "ptr", "stale"}]
One(k) == <<[arg |-> k, part |-> "value"]>>
Two(k) == <<[arg |-> k, part |-> "len"], [arg |-> k, part |-> "ptr"]>>

Init ==
    /\ dir = "toGo" /\ sig = [params |-> <<>>, variadic |-> FALSE] /\ nargs = 0
    /\ args = <<>> /\ fmt = <<>> /\ words = <<>>
    /\ j = 1 /\ got = <<>>
    /\ at = "idle"
    /\ ret = <<>> /\ result = "none"
    /\ block = "none"

End(r) == at' = "done" /\ result' = r
Free == block' = IF block = "live" THEN "freed" ELSE block

\* The words a reader takes for the next argument, and the argument they lead it to.
Taken(slots) == IF slots = 2 THEN <<words[j], words[j + 1]>> ELSE <<words[j]>>
Read(slots) == args[words[j + slots - 1].arg]

Write(v, letter, ws) ==
    /\ args' = Append(args, v)
    /\ fmt' = Append(fmt, letter)
    /\ words' = words \o ws

nth == Len(got) + 1

---------------------------------------------------------------------------
(* JavaScript calls a Go function: native_func_bridge. *)

\* The engine pads or cuts the arguments to the function's parameters, unless it is variadic.
native_func_bridge(s, n) ==
    /\ at = "idle"
    /\ ~s.variadic => n = Len(s.params)
    /\ dir' = "toGo" /\ sig' = s /\ nargs' = n
    /\ block' = IF n = 0 THEN "none" ELSE "live"
    /\ at' = "write"
    /\ UNCHANGED <<written, j, got, ret, result>>

JsLetter(v) ==
    IF v = "undefined" THEN "none"
    ELSE IF v = "boolean" THEN "bool"
    ELSE IF v = "number" THEN "double"
    ELSE IF v = "string" THEN "lstring"
    ELSE IF v = "buffer" THEN "buffer"
    ELSE IF v = "function" THEN "ecmafunc"
    ELSE IF v = "[]" THEN "jarray"
    ELSE "jobject"

JsWords(v, k) ==
    IF JsLetter(v) \in {"none", "bool", "double", "ecmafunc"} THEN One(k) ELSE Two(k)

\* Fault: one argument more than there are.
WriteJsBeyond(v) ==
    /\ at = "write" /\ dir = "toGo" /\ Len(args) <= nargs
    /\ Write(v, JsLetter(v), JsWords(v, Len(args) + 1))
    /\ UNCHANGED <<call, j, got, at, ret, result, block>>

WriteJs(v) ==
    /\ at = "write" /\ dir = "toGo" /\ Len(args) < nargs
    /\ Write(v, JsLetter(v), JsWords(v, Len(args) + 1))
    /\ UNCHANGED <<call, j, got, at, ret, result, block>>

\* The JSON encoder throws: it is left, and with it this function.
EncodeThrows ==
    /\ at = "write" /\ dir = "toGo" /\ Len(args) < nargs
    /\ End("threw")
    /\ UNCHANGED <<call, written, j, got, ret, block>>

---------------------------------------------------------------------------
(* callGoFunc. *)

arity == Len(sig.params)

\* Too few arguments for a variadic function: it is not called.
Refused(k) == IF sig.variadic THEN k < arity - 1 ELSE k # arity

CallGoFunc ==
    /\ at = "write" /\ dir = "toGo" /\ Len(args) = nargs
    /\ IF Refused(nargs)
         THEN End("refused") /\ Free
         ELSE at' = "read" /\ UNCHANGED <<result, block>>
    /\ UNCHANGED <<call, written, j, got, ret>>

\* Fault: takes every argument of a variadic function for a variadic one.
getFuncArgTypeLast(k) == sig.params[IF sig.variadic THEN arity ELSE k]

\* The type that argument k is made for: for k = arity - 1 it is that of the variadic arguments.
getFuncArgType(k) == sig.params[IF sig.variadic /\ k >= arity - 1 THEN arity ELSE k]

\* The one reflect's Call wants.
ParamType(k) == sig.params[IF sig.variadic /\ k >= arity THEN arity ELSE k]

\* json.Unmarshal into an interface{}.
Unmarshal(text, p) ==
    IF text = "{}" THEN "map"
    ELSE IF text = "[]" THEN "[]any"
    ELSE IF text = "1" THEN "float64"
    ELSE IF text = "''" THEN "string"
    ELSE IF text = "true" THEN "bool"
    ELSE IF text = "null" THEN "nil"
    ELSE p

\* The type of the value that is made of v, which came under a letter, for a parameter p.
MakeArg(letter, v, p) ==
    IF letter = "none" THEN p
    ELSE IF letter = "bool" THEN "bool"
    ELSE IF letter = "double" THEN IF p \in {"int", "Duration"} THEN "int" ELSE "float64"
    ELSE IF letter = "ecmafunc" THEN "*EcmaObject"
    ELSE IF letter = "lstring" THEN IF p \in SliceKind THEN "[]byte" ELSE "string"
    ELSE IF letter = "buffer" THEN IF p = "string" THEN "string" ELSE "[]byte"
    ELSE IF p \in SliceKind THEN "[]byte"
    ELSE IF p = "string" THEN "string"
    ELSE Unmarshal(v, p)

\* reflect's ConvertibleTo, and what Call demands.
Convertible(t, p) ==
    \/ t = p \/ p = "any"
    \/ t \in Numeric /\ p \in Numeric
    \/ {t, p} = {"string", "[]byte"}
Assignable(t, p) == t = p \/ p = "any"

\* Fault: a JSON text is read as one word.
goSlotsShort(letter) == IF letter \in {"lstring", "buffer"} THEN 2 ELSE 1

goSlots(letter) == IF letter \in {"lstring", "buffer", "jobject", "jarray"} THEN 2 ELSE 1

\* The next argument, made for its parameter.
made == MakeArg(fmt[nth], Read(goSlots(fmt[nth])), getFuncArgType(nth))

\* One argument: a nil interface has no type to ask, a value of the wrong type is refused.
ReadGo ==
    /\ at = "read" /\ dir = "toGo" /\ Len(got) < nargs
    /\ got' = Append(got, [made |-> made, words |-> Taken(goSlots(fmt[nth]))])
    /\ j' = j + goSlots(fmt[nth])
    /\ \/ made = "nil" /\ End("panicked") /\ UNCHANGED block
       \/ made # "nil" /\ ~Convertible(made, getFuncArgType(nth)) /\ End("refused") /\ Free
       \/ made # "nil" /\ Convertible(made, getFuncArgType(nth)) /\ UNCHANGED <<at, result, block>>
    /\ UNCHANGED <<call, written, ret>>

\* reflect's Call: the values were checked, not converted.
CallGo ==
    /\ at = "read" /\ dir = "toGo" /\ Len(got) = nargs
    /\ IF \A k \in 1..nargs : Assignable(got[k].made, ParamType(k))
         THEN at' = "run" /\ UNCHANGED result
         ELSE End("panicked")
    /\ UNCHANGED <<call, written, j, got, ret, block>>

\* A result: what it is, and whether the function's type says so or only "interface".
GoResult == [value : (GoValue \ {"other", "chan"}) \cup {"unknown"}, static : BOOLEAN]

\* What callGoFunc and then native_func_bridge make of the results.
FromGo(rs) ==
    IF rs = <<>> \/ Len(rs) > 2 THEN "undefined"
    ELSE IF Len(rs) = 2 /\ rs[2].value # "nil"
           THEN IF rs[2].value = "error" THEN "exception" ELSE "undefined"
    ELSE LET v == rs[1].value IN
         IF v \in {"nil", "unknown"} \/ (v = "*struct" /\ ~rs[1].static) THEN "undefined"
         ELSE IF v \in {"int", "bigint", "int64"}
           THEN IF ~rs[1].static THEN "panicked" ELSE IF v = "bigint" THEN "cut" ELSE "value"
         ELSE IF v = "nil*EcmaObject" THEN "panicked"
         ELSE IF v = "error" THEN "exception"
         ELSE "value"

\* Fault: an error leaves the bridge before the block is freed.
GoReturnsEarly(rs) ==
    /\ at = "run" /\ dir = "toGo"
    /\ ret' = rs
    /\ End(FromGo(rs))
    /\ IF FromGo(rs) \in {"panicked", "exception"} THEN UNCHANGED block ELSE Free
    /\ UNCHANGED <<call, written, j, got>>

GoReturns(rs) ==
    /\ at = "run" /\ dir = "toGo"
    /\ ret' = rs
    /\ End(FromGo(rs))
    /\ IF FromGo(rs) = "panicked" THEN UNCHANGED block ELSE Free
    /\ UNCHANGED <<call, written, j, got>>

---------------------------------------------------------------------------
(* Go calls a JavaScript function: CallFunc, CallFileFunc, CallEcmascriptFunc. *)

CallFunc(k) ==
    /\ at = "idle"
    /\ dir' = "toJs" /\ nargs' = k
    /\ at' = "write"
    /\ UNCHANGED <<sig, written, j, got, ret, result, block>>

\* parseArg.
GoLetter(v) ==
    IF v \in {"nil", "chan"} THEN "none"
    ELSE IF v = "bool" THEN "bool"
    ELSE IF v \in {"int", "bigint"} THEN "int"
    ELSE IF v = "int64" THEN "double"
    ELSE IF v = "string" THEN "lstring"
    ELSE IF v = "[]byte" THEN "buffer"
    ELSE IF v = "[]string" THEN "jarray"
    ELSE IF v \in {"*EcmaObject", "nil*EcmaObject"} THEN "ecmafunc"
    ELSE IF v = "error" THEN "error"
    ELSE IF v = "*struct" THEN "mobject"
    ELSE "jobject"

\* The words of parseArgs: an error has a length and an address, but is given one word, from the variable
\* the values of earlier arguments went through.
GoWords(letter, k) ==
    IF letter \in {"lstring", "buffer", "jobject", "jarray", "mobject"} THEN Two(k)
    ELSE IF letter = "error" THEN <<[arg |-> k, part |-> "stale"]>>
    ELSE One(k)

\* A nil *EcmaObject is not a nil interface: its handle is asked for all the same.
parseArgs(v) ==
    /\ at = "write" /\ dir = "toJs" /\ Len(args) < nargs
    /\ \/ /\ v # "nil*EcmaObject"
          /\ Write(v, GoLetter(v), GoWords(GoLetter(v), Len(args) + 1))
          /\ UNCHANGED <<at, result>>
       \/ v = "nil*EcmaObject" /\ End("panicked") /\ UNCHANGED written
    /\ UNCHANGED <<call, j, got, ret, block>>

(* Java calls a JavaScript function: J2CHelper.java and do_call_func of dukbridge.c. *)

\* callFunc and callFileFunc: an array of arguments, or null, whose length is asked for all
\* the same; an argument of another class is refused with an exception.
JavaCallFunc(k) ==
    /\ at = "idle"
    /\ dir' = "javaToJs" /\ nargs' = k
    /\ \/ at' = "write" /\ UNCHANGED result
       \/ k = 0 /\ End("crashed")
       \/ k > 0 /\ End("threw")
    /\ UNCHANGED <<sig, written, j, got, ret, block>>

JavaLetter(v) ==
    IF v = "null" THEN "none"
    ELSE IF v = "Boolean" THEN "bool"
    ELSE IF v = "Integer" THEN "int"
    ELSE IF v = "Double" THEN "double"
    ELSE IF v \in {"String", "byte[]"} THEN "lstring"
    ELSE IF v = "B" THEN "buffer"
    ELSE IF v = "a" THEN "jarray"
    ELSE "jobject"

JavaWords(letter, k) == IF letter \in {"none", "bool", "int", "double"} THEN One(k) ELSE Two(k)

SET_BYTES_ELEM(v) ==
    /\ at = "write" /\ dir = "javaToJs" /\ Len(args) < nargs
    /\ Write(v, JavaLetter(v), JavaWords(JavaLetter(v), Len(args) + 1))
    /\ UNCHANGED <<call, j, got, at, ret, result, block>>

---------------------------------------------------------------------------
(* push_args_and_call_func and call_func. *)

PushArgs ==
    /\ at = "write" /\ dir # "toGo" /\ Len(args) = nargs
    /\ at' = "read"
    /\ UNCHANGED <<call, written, j, got, ret, result, block>>

jsSlots(letter) ==
    IF letter \in {"lstring", "error", "buffer", "mobject", "jobject", "jarray"} THEN 2 ELSE 1

\* What the word before an error left in the loop's variable is not zero.
Setters(k) == {m \in 1..(k - 1) : fmt[m] \in {"none", "bool", "int", "double", "ecmafunc"}}
StaleNonzero(k) == \E m \in Setters(k) : fmt[m] # "none" /\ \A o \in Setters(k) : o <= m

\* Of a word under "int" the low 32 bits are an int: not all of a big one, and of an Integer
\* the low half of the double that setValue made of it, which is 0 for all small numbers.
jsValue(v) == IF v \in {"bigint", "Integer"} THEN "cut" ELSE v

\* push_args_and_call_func.
ReadJs ==
    /\ at = "read" /\ dir # "toGo" /\ Len(got) < nargs
    /\ fmt[nth] # "error"
    /\ got' = Append(got, [made |-> jsValue(Read(jsSlots(fmt[nth]))), words |-> Taken(jsSlots(fmt[nth]))])
    /\ j' = j + jsSlots(fmt[nth])
    /\ UNCHANGED <<call, written, at, ret, result, block>>

\* An error is thrown at once, its text read from the next word, which is an address only if
\* it is another argument's: a length left by an earlier argument makes the read wild.
ThrowError ==
    /\ at = "read" /\ dir # "toGo" /\ Len(got) < nargs
    /\ fmt[nth] = "error"
    /\ \/ End("raised")
       \/ StaleNonzero(nth) /\ nth < nargs /\ End("crashed")
    /\ UNCHANGED <<call, written, j, got, ret, block>>

\* A JSON text that Java passes need not be one: the decoder throws.
DecodeThrows ==
    /\ at = "read" /\ dir # "toGo" /\ Len(got) < nargs
    /\ args[nth] \in {"a", "o"}
    /\ End("raised")
    /\ UNCHANGED <<call, written, j, got, ret, block>>

CallJs ==
    /\ at = "read" /\ dir # "toGo" /\ Len(got) = nargs
    /\ at' = "run"
    /\ UNCHANGED <<call, written, j, got, ret, result, block>>

\* Fault: only the return code counts.
parseResultCode(v, threw) == IF threw THEN "error" ELSE "value"

\* go_resultReceived and parseResult: a function that returns an Error object failed as well.
parseResult(v, threw) == IF v = JsError \/ threw THEN "error" ELSE "value"

\* resultReceived of dukbridge.c, and do_call_func: the return code is not looked at.
resultReceived(v) == IF v \in {"undefined", "function", JsError} THEN "undefined" ELSE "value"

JsResult == [value : JsValue \cup {JsError}, threw : BOOLEAN]

\* call_func: the value returned or thrown goes to the callback; it may have no JSON.
JsReturns(v, threw) ==
    /\ at = "run" /\ dir # "toGo"
    /\ ret' = <<[value |-> v, threw |-> threw]>>
    /\ End(IF dir = "toJs" THEN parseResult(v, threw) ELSE resultReceived(v))
    /\ UNCHANGED <<call, written, j, got, block>>

ResultUnencodable ==
    /\ at = "run" /\ dir # "toGo"
    /\ End("raised")
    /\ UNCHANGED <<call, written, j, got, ret, block>>

---------------------------------------------------------------------------

\* Up to three results, of which only the first two are looked at.
GoResults ==
    {<<>>} \cup {<<r>> : r \in GoResult}
           \cup {<<r, s>> : r \in GoResult, s \in {t \in GoResult : t.value \in {"nil", "error", "unknown"}}}
           \cup {<<r, r, r>> : r \in GoResult}

ToGo ==
    \/ at = "idle" /\ \E s \in Sig, k \in 0..MaxArgs : native_func_bridge(s, k)
    \/ at = "write" /\ \E v \in JsValue : WriteJs(v)
    \/ EncodeThrows \/ CallGoFunc \/ ReadGo \/ CallGo
    \/ at = "run" /\ \E rs \in GoResults : GoReturns(rs)

ToJs ==
    \/ at = "idle" /\ \E k \in 0..MaxArgs : CallFunc(k) \/ JavaCallFunc(k)
    \/ at = "write" /\ \E v \in GoValue : parseArgs(v)
    \/ at = "write" /\ \E v \in JavaValue : SET_BYTES_ELEM(v)
    \/ PushArgs \/ ReadJs \/ ThrowError \/ DecodeThrows \/ CallJs
    \/ at = "run" /\ \E v \in JsValue \cup {JsError}, threw \in BOOLEAN : JsReturns(v, threw)
    \/ ResultUnencodable

Next == ToGo \/ ToJs

Spec == Init /\ [][Next]_vars

---------------------------------------------------------------------------

\* Types: the arrays never outgrow the two words for each argument that both sides allot.
TypeOK ==
    /\ dir \in {"toGo", "toJs", "javaToJs"} /\ sig \in Sig /\ nargs \in 0..MaxArgs
    /\ args \in Seq(JsValue \cup GoValue \cup JavaValue)
    /\ fmt \in Seq(Letter) /\ Len(fmt) = Len(args) /\ Len(args) <= nargs
    /\ words \in Seq(Word) /\ Len(words) <= 2 * nargs
    /\ j \in 1..(Len(words) + 1)
    /\ Len(got) <= Len(args)
    /\ at \in {"idle", "write", "read", "run", "done"}
    /\ ret \in Seq(GoResult \cup JsResult)
    /\ result \in {"none", "threw", "refused", "panicked", "undefined", "exception", "cut",
                   "value", "error", "raised", "crashed"}
    /\ block \in {"none", "live", "freed"}

\* Every argument is read from the words that were written for it, all of them and no others,
\* whatever comes before it: the loops of the two sides agree on each letter.  (An error is
\* never read: it ends the call.)
TwoWords == {"lstring", "buffer", "jobject", "jarray", "mobject"}
OwnWords ==
    \A k \in DOMAIN got : got[k].words = IF fmt[k] \in TwoWords THEN Two(k) ELSE One(k)

\* Which JavaScript values suit a Go parameter, by the list of README.md:134-139: its type's
\* own values; text for strings and []byte; anything for an interface{}; and nothing at all,
\* which is the parameter's zero value.
Suits(v, p) ==
    \/ p = "any"
    \/ v \in {"undefined", ""}
    \/ p = "bool" /\ v \in {"boolean", "true"}
    \/ p \in Numeric /\ v \in {"number", "1"}
    \/ p \in {"string", "[]byte"} /\ v \in {"string", "buffer"} \cup Json
    \/ p = "[]int" /\ v = "[]"
    \/ p \in {"map", "map[string]int"} /\ v = "{}"
    \/ p = "*EcmaObject" /\ v = "function"

\* Argument k comes just before the variadic ones, and its type is not theirs.
Misread(k) == sig.variadic /\ k = arity - 1 /\ sig.params[k] # sig.params[arity]

\* An array, or no JSON at all, for a slice of anything but bytes, or an object for a map of
\* anything but interface{}.
Composite(v, p) ==
    \/ p = "[]int" /\ v \in {"[]", ""}
    \/ p = "map[string]int" /\ v = "{}"

\* Whatever a Go function's parameters are, it never runs with an argument that does not suit
\* the parameter it becomes.  And calls with suitable arguments fail in these ways only: they
\* are refused for the argument before the variadic ones (go2c.go:284), or for an array or an
\* object, of which the bridge makes bytes and map[string]interface{} (go2c.go:396-402); and
\* the bridge panics for that same argument, for a number where the type is defined as one
\* (go2c.go:412-418), for an object whose JSON is a number, or for one whose JSON is null.
\* README.md:134-137 makes none of these exceptions.
CallsFit ==
    dir = "toGo" =>
        /\ ret # <<>> \/ at = "run" => \A k \in 1..nargs : Suits(args[k], ParamType(k))
        /\ result = "refused" /\ ~Refused(nargs) =>
             \E k \in DOMAIN got : \/ ~Suits(args[k], ParamType(k))
                                   \/ Misread(k)
                                   \/ Composite(args[k], ParamType(k))
        /\ result = "panicked" /\ at = "done" /\ ret = <<>> =>
             \E k \in DOMAIN got : \/ args[k] = "null"
                                   \/ Misread(k)
                                   \/ ParamType(k) = "Duration" /\ args[k] \in {"number", "1"}
                                   \/ ParamType(k) = "int" /\ args[k] = "1"

\* Errors cross the border: JavaScript gets an exception exactly if the Go function returned
\* an error (README.md:140-141), and Go an error exactly if the JavaScript function threw, or
\* returned an Error object.
ErrorsCross ==
    /\ dir = "toGo" /\ at = "done" =>
         (result = "exception" <=>
            /\ Len(ret) \in 1..2
            /\ \/ ret[Len(ret)].value = "error"
               \/ ret[1].value = "error" /\ ret[Len(ret)].value = "nil")
    /\ dir = "toJs" /\ ret # <<>> => (result = "error" <=> ret[1].threw \/ ret[1].value = JsError)

\* native_func_bridge leaves no memory behind, whatever callGoFunc made of the call, unless
\* the conversion of an argument threw (or the process is going down).
BlockFreed == at = "done" /\ block = "live" => result \in {"threw", "panicked"}

\* An argument under the letter 'i' is the int in its word (duk_bridge.h:158): an Integer
\* that Java passes arrives as itself.
IntegersArrive ==
    dir = "javaToJs" =>
        \A k \in DOMAIN got : args[k] = "Integer" => got[k].made = "Integer"
================================================================================
