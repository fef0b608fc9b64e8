---------------------------- MODULE V2KPoolProofs ----------------------------
(***************************************************************************)
(* Theorems about V2KPool, for every set of clients, values and readings   *)
(* of the clock.                                                           *)
(***************************************************************************)
EXTENDS V2KPool, TLAPS

USE BoundAssumption

\* Where the request and the answer are.  A request is in the hands of its sender until it
\* is taken; the server has one while it handles or replies; a caller that waits for the
\* answer of the request at hand exists exactly while the request is one that asks.
Protocol ==
    /\ \A c \in Client : pc[c] = "send" => req[c] \in Request
    /\ srv \in {"handle", "reply"} => od \in Request
    /\ srv = "reply" => od.op \in Asks
    /\ srv \in {"handle", "reply"} /\ od.op \in Asks => \E c \in Client : pc[c] = "recv"
    /\ srv \in {"handle", "reply"} /\ od.op \notin Asks => \A c \in Client : pc[c] # "recv"

\* Both maps hold only what was issued.
Held ==
    /\ \A k \in Time : k2v[k] # Nil => <<k, k2v[k]>> \in issued
    /\ \A v \in Val : v2k[v] # Nil => <<v2k[v], v>> \in issued

\* Every step keeps the types, of the steps a Protocol-abiding state can take.
LEMMA TypeStep == TypeOK /\ Protocol /\ [Next]_vars => TypeOK'
<1> SUFFICES ASSUME TypeOK, Protocol, [Next]_vars PROVE TypeOK'
  OBVIOUS
<1> USE DEF TypeOK, poolVars, clientVars, history
<1>1. ASSUME NEW c \in Client, V2K(c) PROVE TypeOK'
  BY <1>1 DEF V2K, Enter, Request
<1>2. ASSUME NEW c \in Client, GetVal(c) PROVE TypeOK'
  BY <1>2 DEF GetVal, Enter, Request, IssuedKeys
<1>3. ASSUME NEW c \in Client, RemoveKey(c) PROVE TypeOK'
  BY <1>3 DEF RemoveKey, Enter, Request, IssuedKeys
<1>4. ASSUME NEW c \in Client, RemoveVal(c) PROVE TypeOK'
  BY <1>4 DEF RemoveVal, Enter, Request
<1>5. ASSUME NEW c \in Client, Quit(c) PROVE TypeOK'
  BY <1>5 DEF Quit, Enter, Request
<1>6. ASSUME NEW c \in Client, Take(c) PROVE TypeOK'
  BY <1>6 DEF Take
<1>7. ASSUME NEW c \in Client, Deliver(c) PROVE TypeOK'
  BY <1>7 DEF Deliver
<1>8. CASE val2KeyKnown
  BY <1>8 DEF val2KeyKnown, Handling, Reply, Protocol, Request, HasKey
<1>9. CASE val2KeyNew
  BY <1>9 DEF val2KeyNew, Handling, Reply, Protocol, Request, ReadClock, Issue
<1>10. CASE val2KeyFails
  BY <1>10 DEF val2KeyFails, Reply
<1>11. CASE getVal
  BY <1>11 DEF getVal, Handling, Reply, Protocol, Request
<1>12. CASE removeKey
  BY <1>12 DEF removeKey, Handling, Loop, Protocol, Request
<1>13. CASE removeVal
  BY <1>13 DEF removeVal, Handling, Loop, Protocol, Request, HasKey
<1>14. CASE releaseAll
  BY <1>14 DEF releaseAll
<1>15. CASE UNCHANGED vars
  BY <1>15 DEF vars
<1>16. QED
  BY <1>1, <1>2, <1>3, <1>4, <1>5, <1>6, <1>7, <1>8, <1>9, <1>10, <1>11, <1>12, <1>13,
     <1>14, <1>15 DEF Next, bgLoop, ClientStep

\* Every step keeps the request with the one caller that waits for its answer.
LEMMA ProtocolStep ==
    TypeOK /\ Protocol /\ AnswerGoesToAsker /\ [Next]_vars => Protocol' /\ AnswerGoesToAsker'
<1> SUFFICES ASSUME TypeOK, Protocol, AnswerGoesToAsker, [Next]_vars
             PROVE  Protocol' /\ AnswerGoesToAsker'
  OBVIOUS
<1> USE DEF Protocol, AnswerGoesToAsker
<1>0. pc \in [Client -> {"idle", "send", "recv"}] /\ req \in [Client -> Request \cup {None}]
  BY DEF TypeOK
<1>1. ASSUME NEW c \in Client, NEW r \in Request, Enter(c, r)
      PROVE  Protocol' /\ AnswerGoesToAsker'
  BY <1>0, <1>1 DEF Enter, poolVars
<1>2. ASSUME NEW c \in Client, V2K(c) \/ GetVal(c) \/ RemoveKey(c) \/ RemoveVal(c) \/ Quit(c)
      PROVE  \E r \in Request : Enter(c, r)
  <2>1. IssuedKeys \subseteq Time
    BY DEF IssuedKeys, TypeOK
  <2>2. CASE V2K(c) \/ RemoveVal(c) \/ Quit(c)
    BY <2>2 DEF V2K, RemoveVal, Quit, Request
  <2>3. CASE GetVal(c) \/ RemoveKey(c)
    BY <2>1, <2>3 DEF GetVal, RemoveKey, Request
  <2>4. QED
    BY <1>2, <2>2, <2>3
<1>3. ASSUME NEW c \in Client, Take(c) PROVE Protocol' /\ AnswerGoesToAsker'
  BY <1>0, <1>3 DEF Take, poolVars
<1>4. ASSUME NEW c \in Client, Deliver(c) PROVE Protocol' /\ AnswerGoesToAsker'
  BY <1>0, <1>4 DEF Deliver, poolVars
<1>5. ASSUME NEW r, NEW op \in Asks, Handling(op), Reply(r)
      PROVE  Protocol' /\ AnswerGoesToAsker'
  BY <1>0, <1>5 DEF Handling, Reply, clientVars
<1>6. CASE val2KeyKnown \/ val2KeyNew \/ val2KeyFails \/ getVal
  BY <1>5, <1>6 DEF val2KeyKnown, val2KeyNew, val2KeyFails, getVal, Asks
<1>7. CASE removeKey \/ removeVal \/ releaseAll
  BY <1>0, <1>7 DEF removeKey, removeVal, releaseAll, Loop, Handling, clientVars, Asks
<1>8. CASE UNCHANGED vars
  BY <1>8 DEF vars
<1>9. QED
  BY <1>1, <1>2, <1>3, <1>4, <1>6, <1>7, <1>8 DEF Next, bgLoop, ClientStep

\* The clients and the server keep to the protocol: the variables keep their types, at most
\* one caller waits for an answer, and it is the one whose request is at hand.
THEOREM AnswersFind == Spec => [](TypeOK /\ Protocol /\ AnswerGoesToAsker)
<1>1. Init => TypeOK /\ Protocol /\ AnswerGoesToAsker
  BY DEF Init, TypeOK, Protocol, AnswerGoesToAsker
<1>2. QED
  BY <1>1, TypeStep, ProtocolStep, PTL DEF Spec

\* Every variable keeps to the type its Go declaration gives it.
THEOREM Typing == Spec => []TypeOK
  BY AnswersFind, PTL

\* The server never sends an answer that nobody waits for (p.res <- in val2Key and getVal).
THEOREM NoOrphanAnswer == Spec => []SomebodyWaits
<1>1. Protocol => SomebodyWaits
  BY DEF Protocol, SomebodyWaits
<1>2. QED
  BY <1>1, AnswersFind, PTL

------------------------------------------------------------------------------
(* The two maps. *)

\* What the client steps leave alone.
LEMMA ClientFrame ==
    ASSUME NEW c \in Client, ClientStep(c)
    PROVE  UNCHANGED <<k2v, v2k, issued, repeats, valHashable>>
  BY DEF ClientStep, V2K, GetVal, RemoveKey, RemoveVal, Quit, Enter, Take, Deliver, poolVars,
         history

\* What val2Key does for a value without a key.
LEMMA NewKey ==
    ASSUME TypeOK, Protocol, val2KeyNew
    PROVE  /\ od.data \in Val /\ ~HasKey(od.data) /\ valHashable' = valHashable
           /\ \E k \in Time :
                /\ k2v' = [k2v EXCEPT ![k] = od.data]
                /\ v2k' = IF valHashable THEN [v2k EXCEPT ![od.data] = k] ELSE v2k
                /\ issued' = issued \cup {<<k, od.data>>}
                /\ repeats' = repeats \cup ({k} \cap IssuedKeys)
  BY DEF val2KeyNew, Handling, Protocol, Request, ReadClock, Issue, Reply

\* Every step keeps in the maps only what was issued.
LEMMA HeldStep == ASSUME TypeOK, Protocol, Held, [Next]_vars PROVE Held'
<1> USE DEF Held
<1>0. /\ issued \subseteq Time \X Val
      /\ k2v \in [Time -> Val \cup {Nil}] /\ v2k \in [Val -> Time \cup {Nil}]
  BY DEF TypeOK
<1>1. CASE UNCHANGED <<k2v, v2k, issued>>
  BY <1>1
<1>2. CASE val2KeyNew
  BY <1>0, <1>2, NewKey
<1>3. CASE removeKey
  BY <1>0, <1>3 DEF removeKey, Loop, history
<1>4. CASE removeVal
  BY <1>0, <1>4 DEF removeVal, Loop, history
<1>5. CASE releaseAll
  BY <1>0, <1>5 DEF releaseAll, history
<1>6. CASE val2KeyKnown \/ val2KeyFails \/ getVal
  BY <1>1, <1>6 DEF val2KeyKnown, val2KeyFails, getVal, poolVars, history
<1>7. QED
  BY <1>1, <1>2, <1>3, <1>4, <1>5, <1>6, ClientFrame DEF Next, bgLoop, vars

\* A key that does not become a repeated one was in no map when it was given out.
LEMMA FreshUnlessRepeated ==
    ASSUME TypeOK, Held, NEW k \in Time, k \notin IssuedKeys
    PROVE  k2v[k] = Nil /\ \A v \in Val : v2k[v] # k
<1>1. \A v \in Val : <<k, v>> \notin issued
  BY DEF IssuedKeys
<1>2. k2v[k] \in Val \cup {Nil}
  BY DEF TypeOK
<1>3. QED
  BY <1>1, <1>2, NilAssumption DEF Held

\* Every step keeps the two maps in agreement.
LEMMA MapsStep ==
    ASSUME TypeOK, Protocol, Held, MapsAgree, [Next]_vars
    PROVE  MapsAgree'
<1> USE DEF MapsAgree
<1>0. /\ k2v \in [Time -> Val \cup {Nil}] /\ v2k \in [Val -> Time \cup {Nil}]
      /\ issued \subseteq Time \X Val /\ valHashable \in BOOLEAN
  BY DEF TypeOK
<1>1. CASE UNCHANGED <<k2v, v2k, repeats, valHashable>>
  BY <1>1
<1>2. CASE val2KeyNew
  <2>1. PICK k \in Time :
          /\ k2v' = [k2v EXCEPT ![k] = od.data]
          /\ v2k' = IF valHashable THEN [v2k EXCEPT ![od.data] = k] ELSE v2k
          /\ repeats' = repeats \cup ({k} \cap IssuedKeys)
    BY <1>2, NewKey
  <2>2. od.data \in Val /\ ~HasKey(od.data) /\ valHashable' = valHashable
    BY <1>2, NewKey
  <2>3. k \notin repeats' => \A v \in Val : v2k[v] # k
    BY <2>1, FreshUnlessRepeated
  <2>4. CASE valHashable
    <3>1. \A j \in Time : k2v[j] # od.data
      BY <2>2, <2>4, NilAssumption DEF HasKey
    <3>2. ASSUME NEW j \in Time, NEW v \in Val, k2v'[j] = v PROVE v2k'[v] = j
      BY <1>0, <2>1, <2>2, <2>4, <3>1, <3>2
    <3>3. ASSUME NEW j \in Time, NEW v \in Val, j \notin repeats', v2k'[v] = j
          PROVE  k2v'[j] = v
      BY <1>0, <2>1, <2>2, <2>3, <2>4, <3>3
    <3>4. QED
      BY <2>2, <2>4, <3>2, <3>3
  <2>5. QED
    BY <1>0, <2>1, <2>2, <2>4
<1>3. CASE removeKey
  <2>1. od.data \in Time
    BY <1>3 DEF removeKey, Handling, Protocol, Request
  <2>2. CASE k2v[od.data] = Nil
    BY <1>1, <1>3, <2>2 DEF removeKey, Loop, history
  <2>3. CASE k2v[od.data] # Nil
    <3> DEFINE x == od.data
               y == k2v[x]
    <3>1. /\ k2v' = [k2v EXCEPT ![x] = Nil] /\ v2k' = [v2k EXCEPT ![y] = Nil]
          /\ valHashable' = valHashable /\ repeats' = repeats
      BY <1>3, <2>3 DEF removeKey, Loop, history
    <3>2. x \in Time /\ y \in Val
      BY <1>0, <2>1, <2>3
    <3> HIDE DEF x, y
    <3>3. k2v[x] = y
      BY DEF y
    <3>4. QED
      BY <1>0, <3>1, <3>2, <3>3, NilAssumption
  <2>4. QED
    BY <2>2, <2>3
<1>4. CASE removeVal
  <2>1. od.data \in Val
    BY <1>4 DEF removeVal, Handling, Protocol, Request
  <2>2. CASE ~HasKey(od.data)
    BY <1>1, <1>4, <2>2 DEF removeVal, Loop, history
  <2>3. CASE HasKey(od.data)
    BY <1>0, <1>4, <2>1, <2>3, NilAssumption DEF removeVal, Loop, HasKey, history
  <2>4. QED
    BY <2>2, <2>3
<1>5. CASE releaseAll
  BY <1>0, <1>5, NilAssumption DEF releaseAll, history
<1>6. CASE val2KeyKnown \/ val2KeyFails \/ getVal
  BY <1>1, <1>6 DEF val2KeyKnown, val2KeyFails, getVal, poolVars, Reply, history
<1>7. QED
  BY <1>1, <1>2, <1>3, <1>4, <1>5, <1>6, ClientFrame DEF Next, bgLoop, vars

\* Whatever the clock shows, the maps agree on every key that was given out once, and every
\* value leads to no key but its own.
THEOREM MapsAlwaysAgree == Spec => []MapsAgree
<1>1. Init => Held /\ MapsAgree
  BY NilAssumption DEF Init, Held, MapsAgree
<1>2. TypeOK /\ Protocol /\ Held /\ MapsAgree /\ [Next]_vars => Held' /\ MapsAgree'
  BY HeldStep, MapsStep
<1>3. QED
  BY <1>1, <1>2, AnswersFind, PTL DEF Spec

\* Whatever the clock shows, a key that was given out once keeps its value until it or that
\* value is removed, or the pool is quit.
THEOREM KeysKeptUntilRemoved == Spec => KeysKept
<1> DEFINE Kept == \A k \in Time :
         k \notin repeats' /\ k2v[k] # Nil /\ k2v'[k] # k2v[k] =>
             /\ k2v'[k] = Nil /\ srv = "handle"
             /\ \/ od.op = "removeK" /\ od.data = k
                \/ od.op = "removeV" /\ od.data = k2v[k]
                \/ od.op = "exit"
<1>1. Init => Held /\ MapsAgree
  BY NilAssumption DEF Init, Held, MapsAgree
<1>2. TypeOK /\ Protocol /\ Held /\ MapsAgree /\ [Next]_vars => Held' /\ MapsAgree'
  BY HeldStep, MapsStep
<1>3. ASSUME TypeOK, Protocol, Held, MapsAgree, [Next]_vars PROVE [Kept]_vars
  <2>0. /\ k2v \in [Time -> Val \cup {Nil}] /\ v2k \in [Val -> Time \cup {Nil}]
    BY <1>3 DEF TypeOK
  <2>1. CASE UNCHANGED k2v
    BY <2>1
  <2>2. CASE val2KeyNew
    <3>1. PICK k \in Time : /\ k2v' = [k2v EXCEPT ![k] = od.data]
                            /\ repeats' = repeats \cup ({k} \cap IssuedKeys)
      BY <1>3, <2>2, NewKey
    <3>2. k \notin repeats' => k2v[k] = Nil
      BY <1>3, <3>1, FreshUnlessRepeated
    <3>3. QED
      BY <2>0, <3>1, <3>2
  <2>3. CASE removeKey
    BY <2>0, <2>3 DEF removeKey, Handling
  <2>4. CASE removeVal
    <3>1. od.data \in Val /\ repeats' = repeats
      BY <1>3, <2>4 DEF removeVal, Handling, Protocol, Request, Loop, history
    <3>2. HasKey(od.data) => \A k \in Time : k \notin repeats /\ v2k[od.data] = k => k2v[k] = od.data
      BY <1>3, <3>1 DEF MapsAgree, HasKey
    <3>3. QED
      BY <2>0, <2>4, <3>1, <3>2 DEF removeVal, Handling
  <2>5. CASE releaseAll
    BY <2>0, <2>5 DEF releaseAll, Handling
  <2>6. CASE val2KeyKnown \/ val2KeyFails \/ getVal
    BY <2>1, <2>6 DEF val2KeyKnown, val2KeyFails, getVal, poolVars
  <2>7. QED
    BY <1>3, <2>1, <2>2, <2>3, <2>4, <2>5, <2>6, ClientFrame DEF Next, bgLoop, vars
<1>4. QED
  BY <1>1, <1>2, <1>3, AnswersFind, PTL DEF Spec, KeysKept

------------------------------------------------------------------------------
(* The pool implements the atomic table: every step of the pool is a step of V2KSpec, or  *)
(* one its callers do not see.                                                            *)

\* A caller blocked on od has its call begun; its values as V2KSpec sees them do not change.
LEMMA EnterCalls ==
    ASSUME TypeOK, NEW c \in Client, NEW r \in Request, Enter(c, r)
    PROVE  Table!Call(c)
<1>1. pc \in [Client -> {"idle", "send", "recv"}] /\ got \in [Client -> Val \cup Time \cup {Nil, Err, None}]
  BY DEF TypeOK
<1>2. r \in Table!Request
  BY DEF Request, Table!Request
<1>3. /\ pc[c] = "idle" /\ pc' = [pc EXCEPT ![c] = "send"]
      /\ req' = [req EXCEPT ![c] = r] /\ got' = [got EXCEPT ![c] = None]
      /\ srv' = srv /\ od' = od /\ out' = out /\ k2v' = k2v /\ v2k' = v2k
      /\ issued' = issued /\ repeats' = repeats /\ valHashable' = valHashable
  BY DEF Enter, poolVars, history
<1>4. \A d \in Client : Answered(d)' = Answered(d)
  BY <1>1, <1>3 DEF Answered
<1>5. ~Answered(c) /\ ~Answered(c)'
  BY <1>1, <1>3 DEF Answered
<1>6. tableSeen' = tableSeen /\ IssuedKeys' = IssuedKeys /\ Handling("exit")' = Handling("exit")
  BY <1>3 DEF tableSeen, IssuedKeys, Handling, HasKey
<1>7. QED
  BY <1>1, <1>2, <1>3, <1>4, <1>5, <1>6 DEF Table!Call

\* The rendezvous on od is the effect of a removal or of Quit, and no more than a move of the
\* request for a call that waits for its answer.
LEMMA TakeEffect ==
    ASSUME TypeOK, Protocol, MapsAgree, valHashable => repeats = {}, NEW c \in Client, Take(c)
    PROVE  Table!Next \/ UNCHANGED Table!vars
<1>1. /\ pc \in [Client -> {"idle", "send", "recv"}] /\ req \in [Client -> Request \cup {None}]
      /\ got \in [Client -> Val \cup Time \cup {Nil, Err, None}]
      /\ k2v \in [Time -> Val \cup {Nil}] /\ v2k \in [Val -> Time \cup {Nil}]
      /\ valHashable \in BOOLEAN
  BY DEF TypeOK
<1>2. /\ pc[c] = "send" /\ srv = "recv" /\ srv' = "handle" /\ od' = req[c]
      /\ out' = out /\ k2v' = k2v /\ v2k' = v2k /\ issued' = issued
      /\ repeats' = repeats /\ valHashable' = valHashable
  BY DEF Take, poolVars, history
<1>3. req[c] \in Request
  BY <1>2 DEF Protocol
<1>4. \A d \in Client : ~Answered(d) /\ ~Answered(d)'
  BY <1>2 DEF Answered
<1>5. tableSeen = k2v /\ IssuedKeys' = IssuedKeys /\ ~Handling("exit")
  BY <1>2 DEF tableSeen, IssuedKeys, Handling
<1>6. CASE req[c].op \in Asks
  <2>1. pc' = [pc EXCEPT ![c] = "recv"] /\ req' = req /\ got' = got
    BY <1>6 DEF Take
  <2>2. tableSeen' = k2v /\ ~Handling("exit")'
    BY <1>2, <1>6 DEF tableSeen, Handling, Asks
  <2>3. QED
    BY <1>1, <1>2, <1>4, <1>5, <2>1, <2>2 DEF Table!vars
<1>7. CASE req[c].op \notin Asks
  <2>1. /\ pc' = [pc EXCEPT ![c] = "idle"] /\ req' = [req EXCEPT ![c] = None]
        /\ got' = [got EXCEPT ![c] = None]
    BY <1>7 DEF Take
  <2>2. CASE req[c].op = "exit"
    <3>1. tableSeen' = [k \in Time |-> Nil] /\ Handling("exit")'
      BY <1>2, <2>2 DEF tableSeen, Handling
    <3>2. Table!Close(c)
      BY <1>1, <1>2, <1>4, <1>5, <2>1, <2>2, <3>1 DEF Table!Close
    <3>3. QED
      BY <3>2 DEF Table!Next
  <2>3. CASE req[c].op = "removeK"
    <3>1. tableSeen' = [k2v EXCEPT ![req[c].data] = Nil] /\ ~Handling("exit")'
      BY <1>2, <2>3 DEF tableSeen, Handling
    <3>2. Table!Remove(c)
      BY <1>1, <1>2, <1>4, <1>5, <2>1, <2>3, <3>1 DEF Table!Remove
    <3>3. QED
      BY <3>2 DEF Table!Next
  <2>4. CASE req[c].op = "removeV"
    <3> DEFINE v == req[c].data
    <3>1. v \in Val /\ ~Handling("exit")'
      BY <1>2, <1>3, <2>4 DEF Request, Handling
    <3>2. tableSeen' = IF HasKey(v) THEN [k2v EXCEPT ![v2k[v]] = Nil] ELSE k2v
      BY <1>2, <2>4 DEF tableSeen, HasKey
    <3>3. tableSeen' = [k \in Time |-> IF valHashable /\ k2v[k] = v THEN Nil ELSE k2v[k]]
      <4> HIDE DEF v
      <4>1. CASE HasKey(v)
        <5>1. valHashable /\ v2k[v] \in Time /\ \A k \in Time : k2v[k] = v <=> k = v2k[v]
          BY <1>1, <3>1, <4>1 DEF HasKey, MapsAgree
        <5>2. QED
          BY <1>1, <3>2, <4>1, <5>1
      <4>2. CASE ~HasKey(v)
        <5>1. \A k \in Time : ~(valHashable /\ k2v[k] = v)
          BY <1>1, <3>1, <4>2, NilAssumption DEF HasKey, MapsAgree
        <5>2. QED
          BY <1>1, <3>2, <4>2, <5>1
      <4>3. QED
        BY <4>1, <4>2
    <3>4. Table!Remove(c)
      BY <1>1, <1>2, <1>4, <1>5, <2>1, <2>4, <3>1, <3>3 DEF Table!Remove
    <3>5. QED
      BY <3>4 DEF Table!Next
  <2>5. QED
    BY <1>3, <1>7, <2>2, <2>3, <2>4 DEF Request, Asks
<1>8. QED
  BY <1>6, <1>7

\* The rendezvous on res is the return of the call.
LEMMA DeliverReturns ==
    ASSUME TypeOK, AnswerGoesToAsker, NEW c \in Client, Deliver(c)
    PROVE  Table!Return(c)
<1>1. /\ pc \in [Client -> {"idle", "send", "recv"}] /\ req \in [Client -> Request \cup {None}]
      /\ got \in [Client -> Val \cup Time \cup {Nil, Err, None}]
  BY DEF TypeOK
<1>2. /\ srv = "reply" /\ pc[c] = "recv" /\ got' = [got EXCEPT ![c] = out]
      /\ pc' = [pc EXCEPT ![c] = "idle"] /\ req' = [req EXCEPT ![c] = None] /\ srv' = "recv"
      /\ k2v' = k2v /\ issued' = issued /\ repeats' = repeats /\ valHashable' = valHashable
  BY DEF Deliver, poolVars, history
<1>3. \A d \in Client : Answered(d) <=> d = c
  BY <1>2 DEF Answered, AnswerGoesToAsker
<1>4. \A d \in Client : ~Answered(d)'
  BY <1>2 DEF Answered
<1>5. /\ tableSeen' = k2v /\ tableSeen = k2v /\ IssuedKeys' = IssuedKeys
      /\ ~Handling("exit") /\ ~Handling("exit")'
  BY <1>2 DEF tableSeen, IssuedKeys, Handling
<1>6. QED
  BY <1>1, <1>2, <1>3, <1>4, <1>5 DEF Table!Return

\* A handler that replies r to the request at hand answers the one call that waits for it.
LEMMA ReplyAnswers ==
    ASSUME TypeOK, Protocol, AnswerGoesToAsker, NEW op \in Asks, NEW r, Handling(op), Reply(r)
    PROVE  \E c \in Client :
               /\ Table!Answer(c, r)
               /\ pc[c] = "recv" /\ ~Answered(c) /\ req[c] = od /\ srv # "gone" /\ ~Handling("exit")
               /\ tableSeen = k2v /\ tableSeen' = k2v'
<1>1. /\ pc \in [Client -> {"idle", "send", "recv"}]
      /\ got \in [Client -> Val \cup Time \cup {Nil, Err, None}]
  BY DEF TypeOK
<1>2. /\ srv = "handle" /\ od.op \in Asks /\ srv' = "reply" /\ out' = r /\ pc' = pc /\ req' = req
      /\ got' = got /\ od' = od /\ valHashable' = valHashable
  BY DEF Handling, Reply, clientVars
<1>3. PICK c \in Client : pc[c] = "recv"
  BY <1>2 DEF Protocol
<1>4. req[c] = od /\ \A d \in Client : pc[d] = "recv" <=> d = c
  BY <1>3 DEF AnswerGoesToAsker
<1>5. \A d \in Client : ~Answered(d) /\ (Answered(d)' <=> d = c)
  BY <1>2, <1>4 DEF Answered
<1>6. /\ tableSeen = k2v /\ tableSeen' = k2v' /\ ~Handling("exit") /\ ~Handling("exit")'
      /\ srv # "gone" /\ srv' # "gone"
  BY <1>2 DEF tableSeen, Handling, Asks
<1>7. Table!Answer(c, r)
  BY <1>1, <1>2, <1>3, <1>4, <1>5, <1>6 DEF Table!Answer
<1>8. QED
  BY <1>3, <1>4, <1>5, <1>6, <1>7

\* What val2Key and getVal do is the effect of the call.
LEMMA HandlerAnswers ==
    ASSUME TypeOK, Protocol, AnswerGoesToAsker, MapsAgree, valHashable => repeats = {},
           val2KeyKnown \/ val2KeyNew \/ val2KeyFails \/ getVal
    PROVE  Table!Next
<1>1. /\ k2v \in [Time -> Val \cup {Nil}] /\ v2k \in [Val -> Time \cup {Nil}]
      /\ issued \subseteq Time \X Val /\ valHashable \in BOOLEAN
  BY DEF TypeOK
<1>2. CASE val2KeyKnown
  <2>1. PICK k : k = v2k[od.data]
    OBVIOUS
  <2>2. Handling("v2k") /\ HasKey(od.data) /\ Reply(k) /\ UNCHANGED poolVars
    BY <1>2, <2>1 DEF val2KeyKnown, Reply
  <2>3. PICK c \in Client : /\ Table!Answer(c, k) /\ pc[c] = "recv" /\ ~Answered(c)
                            /\ req[c] = od /\ srv # "gone" /\ ~Handling("exit")
                            /\ tableSeen = k2v /\ tableSeen' = k2v'
    BY <2>2, ReplyAnswers DEF Asks
  <2>4. od.op = "v2k" /\ od.data \in Val /\ k2v' = k2v /\ repeats' = repeats /\ IssuedKeys' = IssuedKeys
    BY <2>2 DEF Handling, Protocol, Request, poolVars, history, IssuedKeys
  <2>5. valHashable /\ k \in Time
    BY <1>1, <2>1, <2>2, <2>4 DEF HasKey
  <2>6. k2v[k] = od.data
    BY <2>1, <2>4, <2>5 DEF MapsAgree
  <2>7. Table!Register(c)
    BY <2>3, <2>4, <2>5, <2>6 DEF Table!Register, Table!Registered
  <2>8. QED
    BY <2>7 DEF Table!Next
<1>3. ASSUME Handling("v2k"), ~HasKey(od.data)
      PROVE  od.op = "v2k" /\ od.data \in Val /\ ~(valHashable /\ \E k \in Time : k2v[k] = od.data)
  BY <1>1, <1>3, NilAssumption DEF Handling, Protocol, Request, HasKey, MapsAgree
<1>4. CASE val2KeyNew
  <2> DEFINE v == od.data
  <2>1. PICK k \in Time : /\ k2v' = [k2v EXCEPT ![k] = v]
                          /\ issued' = issued \cup {<<k, v>>}
                          /\ repeats' = repeats \cup ({k} \cap IssuedKeys)
                          /\ Reply(k)
    BY <1>4 DEF val2KeyNew, ReadClock, Issue
  <2>2. Handling("v2k") /\ ~HasKey(v)
    BY <1>4 DEF val2KeyNew
  <2>3. PICK c \in Client : /\ Table!Answer(c, k) /\ pc[c] = "recv" /\ ~Answered(c)
                            /\ req[c] = od /\ srv # "gone" /\ ~Handling("exit")
                            /\ tableSeen = k2v /\ tableSeen' = k2v'
    BY <2>1, <2>2, ReplyAnswers DEF Asks
  <2>4. (repeats # {})' <=> repeats # {} \/ k \in IssuedKeys
    BY <2>1
  <2>6. IssuedKeys' = IssuedKeys \cup {k}
    <3>1. <<k, v>>[1] = k
      OBVIOUS
    <3>2. \A x : (\E p \in issued' : x = p[1]) <=> (\E p \in issued : x = p[1]) \/ x = k
      BY <2>1, <3>1
    <3>3. QED
      BY <3>2 DEF IssuedKeys
  <2>7. Table!Register(c)
    BY <1>3, <2>1, <2>2, <2>3, <2>4, <2>6 DEF Table!Register, Table!Registered
  <2>8. QED
    BY <2>7 DEF Table!Next
<1>5. CASE val2KeyFails
  <2>1. Handling("v2k") /\ ~HasKey(od.data) /\ Reply(Err) /\ UNCHANGED poolVars
    BY <1>5 DEF val2KeyFails
  <2>2. PICK c \in Client : /\ Table!Answer(c, Err) /\ pc[c] = "recv" /\ ~Answered(c)
                            /\ req[c] = od /\ srv # "gone" /\ ~Handling("exit")
                            /\ tableSeen = k2v /\ tableSeen' = k2v'
    BY <2>1, ReplyAnswers DEF Asks
  <2>3. k2v' = k2v /\ repeats' = repeats /\ IssuedKeys' = IssuedKeys
    BY <2>1 DEF poolVars, history, IssuedKeys
  <2>4. Table!Register(c)
    BY <1>3, <2>1, <2>2, <2>3 DEF Table!Register, Table!Registered
  <2>5. QED
    BY <2>4 DEF Table!Next
<1>6. CASE getVal
  <2>1. PICK r : r = k2v[od.data]
    OBVIOUS
  <2>2. Handling("k2v") /\ Reply(r) /\ UNCHANGED poolVars
    BY <1>6, <2>1 DEF getVal, Reply
  <2>3. PICK c \in Client : /\ Table!Answer(c, r) /\ pc[c] = "recv" /\ ~Answered(c)
                            /\ req[c] = od /\ srv # "gone" /\ ~Handling("exit")
                            /\ tableSeen = k2v /\ tableSeen' = k2v'
    BY <2>2, ReplyAnswers DEF Asks
  <2>4. od.op = "k2v" /\ k2v' = k2v /\ repeats' = repeats /\ IssuedKeys' = IssuedKeys
    BY <2>2 DEF Handling, poolVars, history, IssuedKeys
  <2>5. Table!Lookup(c)
    BY <2>1, <2>3, <2>4 DEF Table!Lookup, Table!Answer
  <2>6. QED
    BY <2>5 DEF Table!Next
<1>7. QED
  BY <1>2, <1>4, <1>5, <1>6

\* The handler of a removal or of Quit does what its caller has already been told is done.
LEMMA RemovalUnseen ==
    ASSUME TypeOK, Protocol, removeKey \/ removeVal \/ releaseAll
    PROVE  UNCHANGED Table!vars
<1>1. /\ k2v \in [Time -> Val \cup {Nil}] /\ v2k \in [Val -> Time \cup {Nil}]
  BY DEF TypeOK
<1>2. /\ srv = "handle" /\ srv' # "reply" /\ srv' # "handle" /\ pc' = pc /\ req' = req /\ got' = got
      /\ issued' = issued /\ repeats' = repeats /\ valHashable' = valHashable
  BY DEF removeKey, removeVal, releaseAll, Handling, Loop, clientVars, history
<1>3. \A d \in Client : ~Answered(d) /\ ~Answered(d)'
  BY <1>2 DEF Answered
<1>4. tableSeen' = k2v' /\ IssuedKeys' = IssuedKeys
  BY <1>2 DEF tableSeen, IssuedKeys
<1>5. tableSeen = k2v' /\ (srv' # "gone" /\ ~Handling("exit")') = (srv # "gone" /\ ~Handling("exit"))
  <2>1. CASE removeKey
    BY <1>1, <1>2, <2>1 DEF removeKey, Handling, Loop, tableSeen
  <2>2. CASE removeVal
    BY <1>1, <1>2, <2>2 DEF removeVal, Handling, Loop, tableSeen
  <2>3. CASE releaseAll
    BY <1>1, <1>2, <2>3 DEF releaseAll, Handling, tableSeen
  <2>4. QED
    BY <2>1, <2>2, <2>3
<1>6. QED
  BY <1>2, <1>3, <1>4, <1>5 DEF Table!vars

\* The pool is to its callers the atomic table that V2KSpec describes (val2key.go): whatever
\* the clock shows if its values are not hashable, and otherwise until a reading comes again.
THEOREM PoolIsAtomicTable == Spec => AtomicTable
<1>1. Init => Held /\ MapsAgree
  BY NilAssumption DEF Init, Held, MapsAgree
<1>2. TypeOK /\ Protocol /\ Held /\ MapsAgree /\ [Next]_vars => Held' /\ MapsAgree'
  BY HeldStep, MapsStep
<1>3. Init => Table!Init
  <2> SUFFICES ASSUME Init PROVE Table!Init
    OBVIOUS
  <2>1. \A c \in Client : ~Answered(c)
    BY DEF Init, Answered
  <2>2. tableSeen = k2v /\ IssuedKeys = {} /\ srv # "gone" /\ ~Handling("exit")
    BY DEF Init, tableSeen, IssuedKeys, Handling
  <2>3. QED
    BY <2>1, <2>2 DEF Init, Table!Init
<1>4. ASSUME TypeOK, Protocol, AnswerGoesToAsker, MapsAgree, [Next]_vars
      PROVE  [Table!Next]_(Table!vars)
  <2>0. CASE valHashable /\ repeats # {}
    BY <2>0 DEF Table!Next, Table!Unspecified
  <2>1. ASSUME NEW c \in Client,
               V2K(c) \/ GetVal(c) \/ RemoveKey(c) \/ RemoveVal(c) \/ Quit(c)
        PROVE  Table!Next
    <3>1. PICK r \in Request : Enter(c, r)
      BY <1>4, <2>1 DEF V2K, GetVal, RemoveKey, RemoveVal, Quit, Request, IssuedKeys, TypeOK
    <3>2. Table!Call(c)
      BY <1>4, <3>1, EnterCalls
    <3>3. QED
      BY <3>2 DEF Table!Next
  <2>2. ASSUME valHashable => repeats = {}, NEW c \in Client, Take(c)
        PROVE  Table!Next \/ UNCHANGED Table!vars
    BY <1>4, <2>2, TakeEffect
  <2>3. ASSUME NEW c \in Client, Deliver(c) PROVE Table!Next
    BY <1>4, <2>3, DeliverReturns DEF Table!Next
  <2>4. ASSUME valHashable => repeats = {}, val2KeyKnown \/ val2KeyNew \/ val2KeyFails \/ getVal
        PROVE  Table!Next
    BY <1>4, <2>4, HandlerAnswers
  <2>5. CASE removeKey \/ removeVal \/ releaseAll
    BY <1>4, <2>5, RemovalUnseen
  <2>6. CASE UNCHANGED vars
    BY <2>6 DEF vars, Table!vars, Answered, tableSeen, IssuedKeys, Handling, HasKey
  <2>7. QED
    BY <1>4, <2>0, <2>1, <2>2, <2>3, <2>4, <2>5, <2>6 DEF Next, bgLoop, ClientStep
<1>5. QED
  BY <1>1, <1>2, <1>3, <1>4, AnswersFind, PTL DEF Spec, AtomicTable, Table!Spec
==============================================================================
