------------------------------- MODULE V2KPool -------------------------------
(***************************************************************************)
(* duk-bridge-go/val2key.go: the pool that gives integer keys to Go values *)
(* that must not cross into C.  One server goroutine (bgLoop) owns the two *)
(* maps.  The clients talk to it over two UNBUFFERED channels: a request   *)
(* goes in on od, an answer comes out on res, and no answer names its      *)
(* client.  The keys are readings of a clock (native_module_key.go:33),    *)
(* and nothing is assumed of the clock: it may show one reading twice and  *)
(* it may be set back.  The history variable repeats says which keys it    *)
(* spoiled that way; no action reads it.                                   *)
(*                                                                         *)
(* A send or a receive on an unbuffered channel is one step of both ends.  *)
(* A map from keys is a total function here: Nil marks an absent entry,    *)
(* which is also what getVal answers for one.                              *)
(*                                                                         *)
(* A definition marked "Fault" is no part of the model: it is what the one *)
(* after it would be with a plausible bug, and PROJECT.json names the      *)
(* property that notices.                                                  *)
(***************************************************************************)
EXTENDS Naturals

CONSTANTS
    Client,     \* the goroutines that share the pool
    Val,        \* the values they register
    Time,       \* the readings of the clock (nanoseconds since the epoch)
    MaxCalls,   \* bound: V2K calls in a behaviour
    Nil,        \* Go's nil
    Err,        \* an error of the key generator
    None        \* no request, no answer

ASSUME BoundAssumption == MaxCalls \in Nat
ASSUME NilAssumption == Nil \notin Val \cup Time
ASSUME ErrAssumption == Err \notin Val \cup Time \cup {Nil}

VARIABLES
    pc,             \* pc[c]: "idle", "send" (at p.od <- ...) or "recv" (at <-p.res)
    req,            \* req[c]: the opWithData c is sending, or waiting on the answer of
    got,            \* got[c]: what c's last call returned (None while it is in the next)
    srv,            \* bgLoop: "recv" (at <-p.od), "handle", "reply" (at p.res <- ...), "gone"
    od,             \* the opWithData bgLoop is at work on
    out,            \* what bgLoop is sending on res
    k2v,            \* k2v[k]: the value under key k
    v2k,            \* v2k[v]: the key of value v
    valHashable,    \* the constructor's argument
    calls,          \* V2K calls begun (bounds the instance)
    issued,         \* history: the <<key, value>> pairs the pool ever made
    repeats         \* history: the keys the pool gave out more than once

vars == <<pc, req, got, srv, od, out, k2v, v2k, valHashable, calls, issued, repeats>>
clientVars == <<pc, req, got>>
history == <<issued, repeats>>
poolVars == <<k2v, v2k, history>>

IssuedKeys == {p[1] : p \in issued}

Request ==
    [op : {"v2k", "removeV"}, data : Val]
        \cup [op : {"k2v", "removeK"}, data : Time]
        \cup [op : {"exit"}, data : {Nil}]

\* Fault: GetVal does not wait for its answer.
AsksOnlyForKeys == {"v2k"}

\* The operations whose caller waits for an answer on res.
Asks == {"v2k", "k2v"}

TypeOK ==
    /\ pc \in [Client -> {"idle", "send", "recv"}]
    /\ req \in [Client -> Request \cup {None}]
    /\ got \in [Client -> Val \cup Time \cup {Nil, Err, None}]
    /\ srv \in {"recv", "handle", "reply", "gone"}
    /\ od \in Request \cup {None}
    /\ out \in Val \cup Time \cup {Nil, Err, None}
    /\ k2v \in [Time -> Val \cup {Nil}]
    /\ v2k \in [Val -> Time \cup {Nil}]
    /\ valHashable \in BOOLEAN
    /\ calls \in 0..MaxCalls
    /\ issued \subseteq Time \X Val
    /\ repeats \subseteq Time

Init ==
    /\ pc = [c \in Client |-> "idle"]
    /\ req = [c \in Client |-> None]
    /\ got = [c \in Client |-> None]
    /\ srv = "recv"
    /\ od = None
    /\ out = None
    /\ k2v = [k \in Time |-> Nil]
    /\ v2k = [v \in Val |-> Nil]
    /\ valHashable \in BOOLEAN
    /\ calls = 0
    /\ issued = {}
    /\ repeats = {}

------------------------------------------------------------------------------
(* The clients. *)

\* c enters an exported method and blocks on the send of request r.
Enter(c, r) ==
    /\ pc[c] = "idle"
    /\ pc' = [pc EXCEPT ![c] = "send"]
    /\ req' = [req EXCEPT ![c] = r]
    /\ got' = [got EXCEPT ![c] = None]
    /\ UNCHANGED <<srv, od, out, poolVars, valHashable>>

V2K(c) ==
    /\ calls < MaxCalls
    /\ calls' = calls + 1
    /\ \E v \in Val : Enter(c, [op |-> "v2k", data |-> v])

GetVal(c) ==
    /\ \E k \in IssuedKeys : Enter(c, [op |-> "k2v", data |-> k])
    /\ UNCHANGED calls

RemoveKey(c) ==
    /\ \E k \in IssuedKeys : Enter(c, [op |-> "removeK", data |-> k])
    /\ UNCHANGED calls

RemoveVal(c) ==
    /\ \E v \in Val : Enter(c, [op |-> "removeV", data |-> v])
    /\ UNCHANGED calls

Quit(c) ==
    /\ Enter(c, [op |-> "exit", data |-> Nil])
    /\ UNCHANGED calls

\* Fault: requests are taken while an answer is on its way (a buffered or shared channel).
TakeBuffered(c) ==
    /\ pc[c] = "send"
    /\ srv \in {"recv", "reply"}
    /\ srv' = "handle"
    /\ od' = req[c]
    /\ pc' = [pc EXCEPT ![c] = IF req[c].op \in Asks THEN "recv" ELSE "idle"]
    /\ UNCHANGED <<req, got, out, poolVars, valHashable, calls>>

\* The rendezvous on od: bgLoop has the request.  A caller that expects an answer goes on
\* to wait on res; the others return, whether or not their request has been handled.
Take(c) ==
    /\ pc[c] = "send"
    /\ srv = "recv"
    /\ srv' = "handle"
    /\ od' = req[c]
    /\ IF req[c].op \in Asks
         THEN /\ pc' = [pc EXCEPT ![c] = "recv"]
              /\ UNCHANGED <<req, got>>
         ELSE /\ pc' = [pc EXCEPT ![c] = "idle"]
              /\ req' = [req EXCEPT ![c] = None]
              /\ got' = [got EXCEPT ![c] = None]
    /\ UNCHANGED <<out, poolVars, valHashable, calls>>

\* The rendezvous on res: whoever waits there gets the answer.
Deliver(c) ==
    /\ srv = "reply"
    /\ pc[c] = "recv"
    /\ got' = [got EXCEPT ![c] = out]
    /\ pc' = [pc EXCEPT ![c] = "idle"]
    /\ req' = [req EXCEPT ![c] = None]
    /\ srv' = "recv"
    /\ od' = None
    /\ out' = None
    /\ UNCHANGED <<poolVars, valHashable, calls>>

------------------------------------------------------------------------------
(* The handlers of bgLoop. *)

Handling(op) == srv = "handle" /\ od.op = op

\* p.res <- r: the handler is done but for the receiver.
Reply(r) ==
    /\ srv' = "reply"
    /\ out' = r
    /\ UNCHANGED <<clientVars, od, valHashable, calls>>

\* A handler that answers nothing returns to the head of the loop.
Loop ==
    /\ srv' = "recv"
    /\ od' = None
    /\ UNCHANGED <<clientVars, out, history, valHashable, calls>>

\* What time.Now().UnixNano() answers: nothing keeps two calls from getting one reading (a
\* coarse clock), or the second from getting an earlier one (a clock set back).
ReadClock == Time

HasKey(v) == valHashable /\ v2k[v] # Nil

val2KeyKnown ==
    /\ Handling("v2k")
    /\ HasKey(od.data)
    /\ Reply(v2k[od.data])
    /\ UNCHANGED poolVars

\* The history: key k was given out for value v.
Issue(k, v) ==
    /\ issued' = issued \cup {<<k, v>>}
    /\ repeats' = repeats \cup ({k} \cap IssuedKeys)

\* Fault: the reverse map is filled the wrong way round.
val2KeyNewSwapped ==
    /\ Handling("v2k")
    /\ ~HasKey(od.data)
    /\ \E k \in ReadClock :
         /\ k2v' = [k2v EXCEPT ![k] = od.data]
         /\ v2k' = IF valHashable THEN [v2k EXCEPT ![od.data] = od.data] ELSE v2k
         /\ Issue(k, od.data)
         /\ Reply(k)

\* Fault: a value is moved to its newest key.
val2KeyNewMoves ==
    /\ Handling("v2k")
    /\ \E k \in ReadClock :
         /\ k2v' = [j \in Time |-> IF j = k THEN od.data
                                   ELSE IF k2v[j] = od.data THEN Nil ELSE k2v[j]]
         /\ v2k' = IF valHashable THEN [v2k EXCEPT ![od.data] = k] ELSE v2k
         /\ Issue(k, od.data)
         /\ Reply(k)

\* Whatever is under the new key already is overwritten.
val2KeyNew ==
    /\ Handling("v2k")
    /\ ~HasKey(od.data)
    /\ \E k \in ReadClock :
         /\ k2v' = [k2v EXCEPT ![k] = od.data]
         /\ v2k' = IF valHashable THEN [v2k EXCEPT ![od.data] = k] ELSE v2k
         /\ Issue(k, od.data)
         /\ Reply(k)

val2KeyFails ==
    /\ Handling("v2k")
    /\ ~HasKey(od.data)
    /\ Reply(Err)
    /\ UNCHANGED poolVars

\* Fault: an unknown key is not answered.
getValSilent ==
    /\ Handling("k2v")
    /\ UNCHANGED <<k2v, v2k>>
    /\ IF k2v[od.data] # Nil
         THEN Reply(k2v[od.data]) /\ UNCHANGED history
         ELSE Loop

getVal ==
    /\ Handling("k2v")
    /\ Reply(k2v[od.data])
    /\ UNCHANGED poolVars

\* Fault: the reverse entry stays.
removeKeyHalf ==
    /\ Handling("removeK")
    /\ k2v' = [k2v EXCEPT ![od.data] = Nil]
    /\ UNCHANGED v2k
    /\ Loop

removeKey ==
    /\ Handling("removeK")
    /\ IF k2v[od.data] # Nil
         THEN /\ k2v' = [k2v EXCEPT ![od.data] = Nil]
              /\ v2k' = [v2k EXCEPT ![k2v[od.data]] = Nil]
         ELSE UNCHANGED <<k2v, v2k>>
    /\ Loop

removeVal ==
    /\ Handling("removeV")
    /\ IF HasKey(od.data)
         THEN /\ v2k' = [v2k EXCEPT ![od.data] = Nil]
              /\ k2v' = [k2v EXCEPT ![v2k[od.data]] = Nil]
         ELSE UNCHANGED <<k2v, v2k>>
    /\ Loop

releaseAll ==
    /\ Handling("exit")
    /\ k2v' = [k \in Time |-> Nil]
    /\ v2k' = [v \in Val |-> Nil]
    /\ srv' = "gone"
    /\ od' = None
    /\ UNCHANGED <<clientVars, out, history, valHashable, calls>>

bgLoop ==
    \/ val2KeyKnown \/ val2KeyNew \/ val2KeyFails
    \/ getVal \/ removeKey \/ removeVal \/ releaseAll

ClientStep(c) ==
    \/ V2K(c) \/ GetVal(c) \/ RemoveKey(c) \/ RemoveVal(c) \/ Quit(c)
    \/ Take(c) \/ Deliver(c)

Next == bgLoop \/ \E c \in Client : ClientStep(c)

Spec == Init /\ [][Next]_vars

\* The Go scheduler runs every goroutine that can run, and the queue of senders blocked on
\* an unbuffered channel is first in first out: no sender is passed over for ever.
Fairness ==
    /\ WF_vars(bgLoop)
    /\ \A c \in Client : SF_vars(Take(c)) /\ WF_vars(Deliver(c))

FairSpec == Spec /\ Fairness

------------------------------------------------------------------------------
(* Properties. *)

\* An answer on res carries no address, so it reaches its caller only if nobody else waits:
\* at most one goroutine is past its send, and what the server works on is its request
\* (V2K and GetVal, val2key.go:118-131).
AnswerGoesToAsker ==
    /\ \A c \in Client : pc[c] = "recv" => srv \in {"handle", "reply"} /\ od = req[c]
    /\ \A c, d \in Client : pc[c] = "recv" /\ pc[d] = "recv" => c = d

\* The server never blocks on an answer that nobody waits for (p.res <- in val2Key and
\* getVal): it could serve nobody any more.
SomebodyWaits == srv = "reply" => \E c \in Client : pc[c] = "recv"

\* "different val mapped to different key" (val2key.go:18), but getUniqueId's clock
\* (native_module_key.go:33) may repeat one.  What that spoils, and nothing else: in a
\* hashable pool a value always has the key that leads to it (so it can be removed and is
\* never registered twice), and every key that was given out only once belongs to the value
\* that has it, whatever became of the other keys.  In another pool v2k stays empty.
MapsAgree ==
    /\ valHashable => \A k \in Time, v \in Val :
         /\ k2v[k] = v => v2k[v] = k
         /\ k \notin repeats /\ v2k[v] = k => k2v[k] = v
    /\ ~valHashable => \A v \in Val : v2k[v] = Nil

\* A key that was given out once loses its value only to its own removal, to the removal of
\* that value or to Quit: never to the registration of another value, and never to a removal
\* meant for another key, even one that was given out twice.
KeysKept ==
    [][\A k \in Time :
         k \notin repeats' /\ k2v[k] # Nil /\ k2v'[k] # k2v[k] =>
             /\ k2v'[k] = Nil /\ srv = "handle"
             /\ \/ od.op = "removeK" /\ od.data = k
                \/ od.op = "removeV" /\ od.data = k2v[k]
                \/ od.op = "exit"]_vars

\* Every call returns, unless the pool was quit: then its server is gone and the send on od
\* blocks for ever.
CallsReturn ==
    \A c \in Client : pc[c] # "idle" ~> pc[c] = "idle" \/ srv = "gone"

\* The pool is the atomic table of V2KSpec.  A removal takes effect when its request is
\* taken (its caller returns then), a V2K or a GetVal when bgLoop handles it.
tableSeen ==
    IF srv # "handle" THEN k2v
    ELSE IF od.op = "removeK" THEN [k2v EXCEPT ![od.data] = Nil]
    ELSE IF od.op = "removeV" /\ HasKey(od.data) THEN [k2v EXCEPT ![v2k[od.data]] = Nil]
    ELSE IF od.op = "exit" THEN [k \in Time |-> Nil]
    ELSE k2v

Answered(c) == pc[c] = "recv" /\ srv = "reply"

Table == INSTANCE V2KSpec WITH
    Key   <- Time,
    st    <- [c \in Client |-> IF pc[c] = "idle" THEN "idle"
                               ELSE IF Answered(c) THEN "done" ELSE "called"],
    ret   <- [c \in Client |-> IF Answered(c) THEN out ELSE got[c]],
    table <- tableSeen,
    used  <- IssuedKeys,
    clash <- repeats # {},
    reuse <- valHashable,
    open  <- srv # "gone" /\ ~Handling("exit")

\* To its callers the pool is an atomic table (V2KSpec): one with values that are not hashable,
\* as the pool of the bridge's modules, whatever the clock does, and a hashable one until the
\* clock repeats a reading.
AtomicTable == Table!Spec
==============================================================================
