----------------------------- MODULE JavaBridge -----------------------------
(***************************************************************************)
(* The Java bridge (duk-bridge-java): the lives of DukBridge objects and   *)
(* their environments (DukBridge.java), and the file reader that           *)
(* dukbridge.c keeps in two global variables for all of them.              *)
(*                                                                         *)
(* Java code may have any number of threads.  A thread that calls a native *)
(* method runs JavaScript, which may read files (require, evalFile); the   *)
(* reader is Java code again, that may call native methods in turn.        *)
(* stack[t] is that nesting, the innermost last:                           *)
(*    "js"    a native method is running JavaScript                        *)
(*    "java"  the reader's readFile is running for it                      *)
(*    "set"   jsSetFileReader is between dropping the old reader and       *)
(*            keeping the new one                                          *)
(* An environment is used by one thread at a time (Duktape demands it).    *)
(* What calls carry is in ArgMarshal.                                      *)
(* Definitions marked "Fault" are bugs for the properties to notice.       *)
(***************************************************************************)
EXTENDS Integers, Sequences

CONSTANTS
    Thread,     \* the threads of the Java program
    Bridge,     \* its DukBridge objects
    NoThread,   \* NULL
    MaxDepth    \* bound: nested calls of a thread

ASSUME ThreadAssumption == NoThread \notin Thread
ASSUME BoundAssumption == MaxDepth \in Nat

VARIABLES
    obj,          \* obj[b]: "new", "usable", "failed" (its constructor threw) or "finalized"
    field,        \* field[b]: what its field env holds, 0 or its environment
    heap,         \* heap[b]: its environment: "none", "live" or "destroyed"
    destroyed,    \* destroyed[b]: how many times it was destroyed
    stack,        \* stack[t]: the calls in progress
    g_env,        \* the JNI environment kept for the reader, by the thread it is of
    g_fileReader, \* the global reference to the reader: "null", "live" or "deleted"
    pending,      \* pending[t]: an exception waits for the native method to return
    user,         \* history: the first thread that used the reader
    careless,     \* history: another did as well, or a reader threw
    misuse        \* history: JNI was used against its rules

lives == <<obj, field, heap, destroyed>>
reader == <<g_env, g_fileReader>>
history == <<user, careless, misuse>>
vars == <<lives, stack, reader, pending, history>>

Frame == [kind : {"js", "java", "set"}, of : Bridge]

TypeOK ==
    /\ obj \in [Bridge -> {"new", "usable", "failed", "finalized"}]
    /\ field \in [Bridge -> {"0", "env"}]
    /\ heap \in [Bridge -> {"none", "live", "destroyed"}]
    /\ destroyed \in [Bridge -> Nat]
    /\ stack \in [Thread -> Seq(Frame)]
    /\ g_env \in Thread \cup {NoThread}
    /\ g_fileReader \in {"null", "live", "deleted"}
    /\ pending \in [Thread -> BOOLEAN]
    /\ user \in Thread \cup {NoThread}
    /\ careless \in BOOLEAN /\ misuse \in BOOLEAN

Init ==
    /\ obj = [b \in Bridge |-> "new"]
    /\ field = [b \in Bridge |-> "0"]
    /\ heap = [b \in Bridge |-> "none"]
    /\ destroyed = [b \in Bridge |-> 0]
    /\ stack = [t \in Thread |-> <<>>]
    /\ g_env = NoThread /\ g_fileReader = "null"
    /\ pending = [t \in Thread |-> FALSE]
    /\ user = NoThread /\ careless = FALSE /\ misuse = FALSE

Depth(t) == Len(stack[t])
Top(t, kind) == stack[t] # <<>> /\ stack[t][Depth(t)].kind = kind
\* Java code is running.
JavaTurn(t) == stack[t] = <<>> \/ Top(t, "java")
UsedBy(t, b) == \E i \in 1..Depth(t) : stack[t][i].of = b

Push(t, kind, b) == stack' = [stack EXCEPT ![t] = Append(@, [kind |-> kind, of |-> b])]
Pop(t) == stack' = [stack EXCEPT ![t] = SubSeq(@, 1, Len(@) - 1)]

\* Thread t uses the reader's variables; the JNI is misused if bad.
Uses(t, bad) ==
    /\ user' = IF user = NoThread THEN t ELSE user
    /\ careless' = (careless \/ user \notin {NoThread, t})
    /\ misuse' = (misuse \/ bad)

------------------------------------------------------------------------------
(* DukBridge.java. *)

Made(b, o, f, h, n) ==
    /\ obj' = [obj EXCEPT ![b] = o]
    /\ field' = [field EXCEPT ![b] = f]
    /\ heap' = [heap EXCEPT ![b] = h]
    /\ destroyed' = [destroyed EXCEPT ![b] = @ + n]
    /\ UNCHANGED <<reader, pending, stack, history>>

\* Fault: the field is set before the module loader is added.
DukBridgeEarly(t, b) ==
    /\ JavaTurn(t) /\ obj[b] = "new"
    /\ \/ Made(b, "failed", "0", "none", 0)
       \/ Made(b, "failed", "env", "destroyed", 1)
       \/ Made(b, "usable", "env", "live", 0)

\* The constructor: there may be no environment; and with a module loader it fails always,
\* as jsAddModuleLoader does, and destroys the environment it has made.
DukBridge(t, b) ==
    /\ JavaTurn(t) /\ obj[b] = "new"
    /\ \/ Made(b, "failed", "0", "none", 0)
       \/ Made(b, "failed", "0", "destroyed", 1)
       \/ Made(b, "usable", "env", "live", 0)

\* The garbage collector's thread finds an object, whose constructor may have thrown, out of
\* use.  jsDestroyEnv(0) does nothing.
finalize(b) ==
    /\ obj[b] \in {"usable", "failed"}
    /\ \A t \in Thread : ~UsedBy(t, b)
    /\ IF field[b] = "env"
         THEN Made(b, "finalized", "env", "destroyed", 1)
         ELSE Made(b, "finalized", "0", heap[b], 0)

------------------------------------------------------------------------------
(* dukbridge.c. *)

\* A native method is called on an object whose environment no other thread is using: jsEval,
\* jsEvalFile, jsCallFunc and all others that may read a file.
NativeCall(t, b) ==
    /\ JavaTurn(t) /\ Depth(t) < MaxDepth
    /\ obj[b] = "usable" /\ \A u \in Thread \ {t} : ~UsedBy(u, b)
    /\ Push(t, "js", b)
    /\ UNCHANGED <<lives, reader, pending, history>>

\* It returns; for a result other than none it makes a Java object, with its own JNI
\* environment.  An exception that waited is thrown now.
NativeReturns(t) ==
    /\ Top(t, "js")
    /\ Pop(t)
    /\ pending' = [pending EXCEPT ![t] = FALSE]
    /\ \E none \in BOOLEAN : misuse' = (misuse \/ (~none /\ pending[t]))
    /\ UNCHANGED <<lives, reader, user, careless>>

\* jsSetFileReader: the reader of all environments is replaced.
DeleteGlobalRef(t, b) ==
    /\ JavaTurn(t) /\ Depth(t) < MaxDepth
    /\ obj[b] = "usable" /\ \A u \in Thread \ {t} : ~UsedBy(u, b)
    /\ Push(t, "set", b)
    /\ g_fileReader' = IF g_fileReader = "null" THEN "null" ELSE "deleted"
    /\ Uses(t, g_fileReader = "deleted")
    /\ UNCHANGED <<lives, g_env, pending>>

\* Fault: the reader is kept by a local reference, which dies with the call.
NewLocalRef(t) ==
    /\ Top(t, "set")
    /\ Pop(t)
    /\ g_fileReader' = "deleted"
    /\ g_env' = IF g_env = NoThread THEN t ELSE g_env
    /\ UNCHANGED <<lives, pending, history>>

NewGlobalRef(t) ==
    /\ Top(t, "set")
    /\ Pop(t)
    /\ g_fileReader' = "live"
    /\ g_env' = IF g_env = NoThread THEN t ELSE g_env
    /\ UNCHANGED <<lives, pending, history>>

\* fileReaderBridge: JavaScript reads a file, and there is a reader to call.
fileReaderBridge(t) ==
    /\ Top(t, "js") /\ Depth(t) < MaxDepth
    /\ g_env # NoThread
    /\ Push(t, "java", stack[t][Depth(t)].of)
    /\ Uses(t, g_env # t \/ g_fileReader = "deleted" \/ pending[t])
    /\ UNCHANGED <<lives, reader, pending>>

\* readFile returns: the bytes are copied; null is an error to JavaScript.
readFileReturns(t) ==
    /\ Top(t, "java")
    /\ Pop(t)
    /\ Uses(t, g_env # t)
    /\ UNCHANGED <<lives, reader, pending>>

\* readFile throws: nobody asks for exceptions, so that it waits while JavaScript goes on.
readFileThrows(t) ==
    /\ Top(t, "java")
    /\ Pop(t)
    /\ pending' = [pending EXCEPT ![t] = TRUE]
    /\ careless' = TRUE
    /\ UNCHANGED <<lives, reader, user, misuse>>

Next ==
    \/ \E t \in Thread, b \in Bridge : DukBridge(t, b) \/ NativeCall(t, b) \/ DeleteGlobalRef(t, b)
    \/ \E b \in Bridge : finalize(b)
    \/ \E t \in Thread :
         \/ NativeReturns(t) \/ NewGlobalRef(t)
         \/ fileReaderBridge(t) \/ readFileReturns(t) \/ readFileThrows(t)

Spec == Init /\ [][Next]_vars

------------------------------------------------------------------------------

\* An environment is destroyed once, by its object's finalizer or by the constructor that gave
\* up (which leaves an object to be finalized as well), never while a call is in it, and never
\* left behind by an object that is gone.
EnvDestroyedOnce ==
    \A b \in Bridge :
        /\ destroyed[b] = IF heap[b] = "destroyed" THEN 1 ELSE 0
        /\ heap[b] = "live" <=> obj[b] = "usable"
        /\ \A t \in Thread : UsedBy(t, b) => heap[b] = "live"

\* The reader's two global variables serve one thread well, whatever bridges it has, however
\* readers and calls nest and replace each other: JNI is misused only after a second thread
\* has used the reader, or a reader has thrown.
OneThreadIsSafe == misuse => careless
==============================================================================
