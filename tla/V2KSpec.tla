------------------------------- MODULE V2KSpec -------------------------------
(***************************************************************************)
(* What a V2KPool (val2key.go) promises to the goroutines that share it:   *)
(* one atomic table from keys to values.  Every call takes effect at one   *)
(* instant between its start and its return; a removal has taken effect    *)
(* when it returns.  The generator may hand out any key, one in use        *)
(* included: its old value is lost then, and a pool in which registered    *)
(* values keep their keys promises nothing more.  There are no channels,   *)
(* no server goroutine and no reverse table here.                          *)
(***************************************************************************)
EXTENDS Integers

CONSTANTS
    Client,     \* the goroutines that call the pool
    Val,        \* the values they register
    Key,        \* the keys a pool may give out
    Nil,        \* Go's nil: "no such key"
    Err,        \* an error returned by the key generator
    None        \* nothing: no request, no result

VARIABLES
    st,         \* st[c]: "idle", "called" (no effect yet) or "done" (effect, no return yet)
    req,        \* req[c]: the call c is in
    ret,        \* ret[c]: what c's last finished call returned, or is about to
    table,      \* table[k]: the value registered under k, or Nil
    used,       \* the keys ever given out
    clash,      \* whether some key was given out more than once
    reuse,      \* whether a value already registered keeps its key (valHashable)
    open        \* FALSE once Quit has taken effect

vars == <<st, req, ret, table, used, clash, reuse, open>>

Init ==
    /\ st = [c \in Client |-> "idle"]
    /\ req = [c \in Client |-> None]
    /\ ret = [c \in Client |-> None]
    /\ table = [k \in Key |-> Nil]
    /\ used = {}
    /\ clash = FALSE
    /\ reuse \in BOOLEAN
    /\ open = TRUE

Request ==
    [op : {"v2k", "removeV"}, data : Val]
        \cup [op : {"k2v", "removeK"}, data : Key]
        \cup [op : {"exit"}, data : {Nil}]

Call(c) ==
    /\ st[c] = "idle"
    /\ st' = [st EXCEPT ![c] = "called"]
    /\ \E r \in Request : req' = [req EXCEPT ![c] = r]
    /\ ret' = [ret EXCEPT ![c] = None]
    /\ UNCHANGED <<table, used, clash, reuse, open>>

\* The call c is in takes effect and has r to return.
Answer(c, r) ==
    /\ st' = [st EXCEPT ![c] = "done"]
    /\ ret' = [ret EXCEPT ![c] = r]
    /\ UNCHANGED <<req, reuse, open>>

Registered(v) == \E k \in Key : table[k] = v

\* V2K: the key the value already has, whatever key the generator gives, or its error.
Register(c) ==
    /\ open /\ st[c] = "called" /\ req[c].op = "v2k"
    /\ LET v == req[c].data IN
       \/ /\ reuse /\ Registered(v)
          /\ \E k \in Key : table[k] = v /\ Answer(c, k)
          /\ UNCHANGED <<table, used, clash>>
       \/ /\ ~(reuse /\ Registered(v))
          /\ \E k \in Key :
               /\ Answer(c, k)
               /\ table' = [table EXCEPT ![k] = v]
               /\ used' = used \cup {k}
               /\ clash' = (clash \/ k \in used)
       \/ /\ ~(reuse /\ Registered(v))
          /\ Answer(c, Err)
          /\ UNCHANGED <<table, used, clash>>

\* GetVal: the value of the key, or nil.
Lookup(c) ==
    /\ open /\ st[c] = "called" /\ req[c].op = "k2v"
    /\ Answer(c, table[req[c].data])
    /\ UNCHANGED <<table, used, clash>>

\* RemoveKey and RemoveVal: the entry is gone when the call returns.
Remove(c) ==
    /\ open /\ st[c] = "called"
    /\ \/ /\ req[c].op = "removeK"
          /\ table' = [table EXCEPT ![req[c].data] = Nil]
       \/ /\ req[c].op = "removeV"
          /\ table' = [k \in Key |-> IF reuse /\ table[k] = req[c].data THEN Nil ELSE table[k]]
    /\ st' = [st EXCEPT ![c] = "idle"]
    /\ req' = [req EXCEPT ![c] = None]
    /\ ret' = [ret EXCEPT ![c] = None]
    /\ UNCHANGED <<used, clash, reuse, open>>

\* Quit: the table is dropped, and no later call takes effect.
Close(c) ==
    /\ open /\ st[c] = "called" /\ req[c].op = "exit"
    /\ open' = FALSE
    /\ table' = [k \in Key |-> Nil]
    /\ st' = [st EXCEPT ![c] = "idle"]
    /\ req' = [req EXCEPT ![c] = None]
    /\ ret' = [ret EXCEPT ![c] = None]
    /\ UNCHANGED <<used, clash, reuse>>

Return(c) ==
    /\ st[c] = "done"
    /\ st' = [st EXCEPT ![c] = "idle"]
    /\ req' = [req EXCEPT ![c] = None]
    /\ UNCHANGED <<ret, table, used, clash, reuse, open>>

\* With two values under one key, a pool that goes by its values may do anything.
Unspecified == reuse /\ clash

Next ==
    \/ Unspecified
    \/ \E c \in Client :
          Call(c) \/ Register(c) \/ Lookup(c) \/ Remove(c) \/ Close(c) \/ Return(c)

Spec == Init /\ [][Next]_vars
==============================================================================
