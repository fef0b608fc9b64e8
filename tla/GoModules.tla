------------------------------- MODULE GoModules -------------------------------
(***************************************************************************)
(* duk-bridge-go/module_loader.go and native_module_key.go: what Go lends  *)
(* to JavaScript environments, as keys of the value-to-key pool.           *)
(*                                                                         *)
(* Goroutines make and destroy environments.  An environment has keys for  *)
(* its module loaders; a module, or a struct passed to JavaScript, has a   *)
(* key for itself and one for each method.  JavaScript's objects carry the *)
(* keys, and their finalizers give them back.  The first loader of each    *)
(* environment is in a Go map without a lock, _firstLoaderKey.             *)
(*                                                                         *)
(* The pool is the table that V2KSpec describes: keys are fresh, and each  *)
(* call takes effect at once.  The keys of one struct are made in one step *)
(* here: nobody else knows any of them before the last one is made.        *)
(* An environment's address is free again once its heap is destroyed.      *)
(* Definitions marked "Fault" are bugs for the properties to notice.       *)
(***************************************************************************)
EXTENDS Integers

CONSTANTS
    Proc,       \* goroutines, each with one environment at a time
    Addr,       \* addresses of heaps
    Nil,        \* no address, no key
    MaxKeys,    \* bound: keys ever made
    MaxMethods  \* bound: methods of a struct

ASSUME BoundAssumption == MaxKeys \in Nat /\ MaxMethods \in Nat
ASSUME NilAssumption == Nil \notin Addr /\ Nil \notin Int

VARIABLES
    at,         \* at[p]: where goroutine p is in the life of its environment
    addr,       \* addr[p]: JSEnv.env
    keys,       \* keys[p]: JSEnv.loaderKey
    first,      \* _firstLoaderKey
    table,      \* the pool: what each key stands for
    next,       \* the next key
    heap,       \* objects in all heaps that have the bridge's finalizer
    held,       \* methods that JavaScript keeps apart from their object
    lost,       \* modules that JavaScript never got an object for
    early,      \* modules whose finalizer ran for an object that inherits it
    raced,      \* the map was read or written while it was written
    dead        \* why the process ended: "no", "panic" or "race"

vars == <<at, addr, keys, first, table, next, heap, held, lost, early, raced, dead>>
envVars == <<at, addr, keys, first>>
heapVars == <<heap, held, lost, early>>

Key == 1..MaxKeys
Entry == [kind : {"none", "loader", "module", "method"},
          env : Addr \cup {Nil}, methods : SUBSET Key]
Absent == [kind |-> "none", env |-> Nil, methods |-> {}]
Loader(a) == [kind |-> "loader", env |-> a, methods |-> {}]
Module(ms) == [kind |-> "module", env |-> Nil, methods |-> ms]
Method == [kind |-> "method", env |-> Nil, methods |-> {}]

\* An object: its heap, its module, the loader its finalizer will look for, its methods, and
\* what has yet to be finalized: the object "self", and an "heir" made by Object.create.
Object == [addr : Addr, mod : Key, udd : Key, methods : SUBSET Key,
           left : SUBSET {"self", "heir"}]

TypeOK ==
    /\ at \in [Proc -> {"none", "add", "remember", "open", "forget", "closing", "freed"}]
    /\ addr \in [Proc -> Addr \cup {Nil}]
    /\ keys \in [Proc -> SUBSET Key]
    /\ first \in [Addr -> Key \cup {Nil}]
    /\ table \in [Key -> Entry]
    /\ next \in 1..(MaxKeys + 1)
    /\ heap \subseteq Object
    /\ held \subseteq [addr : Addr, mod : Key, key : Key]
    /\ lost \subseteq Key /\ early \subseteq Key
    /\ raced \in BOOLEAN
    /\ dead \in {"no", "panic", "race"}

Init ==
    /\ at = [p \in Proc |-> "none"]
    /\ addr = [p \in Proc |-> Nil]
    /\ keys = [p \in Proc |-> {}]
    /\ first = [a \in Addr |-> Nil]
    /\ table = [k \in Key |-> Absent]
    /\ next = 1
    /\ heap = {} /\ held = {} /\ lost = {} /\ early = {}
    /\ raced = FALSE
    /\ dead = "no"

At(p, place) == dead = "no" /\ at[p] = place
Goto(p, place) == at' = [at EXCEPT ![p] = place]

\* JavaScript runs: while the environment is open and, in finalizers, while it is destroyed.
Runs(p) == At(p, "open") \/ At(p, "closing")

\* Another goroutine is writing the map.
Conflict(p) == \E q \in Proc \ {p} : at[q] \in {"remember", "forget"}
UseMap(p) == raced' = (raced \/ Conflict(p))

------------------------------------------------------------------------------
(* Environments. *)

\* NewEnv: js_create_env.
NewEnv(p) ==
    /\ At(p, "none")
    /\ \E a \in Addr :
         /\ \A q \in Proc : addr[q] = a => at[q] = "freed"
         /\ addr' = [addr EXCEPT ![p] = a]
    /\ Goto(p, "add")
    /\ UNCHANGED <<keys, first, table, next, heapVars, raced, dead>>

\* addGoModuleLoader, up to the map: a key for the loader.  The second loader is the last.
addGoModuleLoader(p) ==
    /\ At(p, "add")
    /\ next <= MaxKeys
    /\ table' = [table EXCEPT ![next] = Loader(addr[p])]
    /\ next' = next + 1
    /\ keys' = [keys EXCEPT ![p] = @ \cup {next}]
    /\ IF keys[p] = {}
         THEN Goto(p, "remember") /\ UseMap(p)
         ELSE Goto(p, "open") /\ UNCHANGED raced
    /\ UNCHANGED <<addr, first, heapVars, dead>>

\* addGoModuleLoader: the first loader has been written to the map (a race may lose the
\* write).  The program's own loader may follow.
RememberFirst(p) ==
    /\ At(p, "remember")
    /\ \/ \E k \in keys[p] : first' = [first EXCEPT ![addr[p]] = k]
       \/ raced /\ UNCHANGED first
    /\ \E place \in {"add", "open"} : Goto(p, place)
    /\ UNCHANGED <<addr, keys, table, next, heapVars, raced, dead>>

\* Fault: the loaders' keys are removed before the heap is destroyed.
DestroyRemovesLoaders(p) ==
    /\ At(p, "open")
    /\ Goto(p, "forget")
    /\ UseMap(p)
    /\ table' = [k \in Key |-> IF k \in keys[p] THEN Absent ELSE table[k]]
    /\ keys' = [keys EXCEPT ![p] = {}]
    /\ UNCHANGED <<addr, first, next, heapVars, dead>>

\* Destroy: the entry is being deleted from the map,
Destroy(p) ==
    /\ At(p, "open")
    /\ Goto(p, "forget")
    /\ UseMap(p)
    /\ UNCHANGED <<addr, keys, first, table, next, heapVars, dead>>

\* is deleted (a race may lose this write too),
ForgetFirst(p) ==
    /\ At(p, "forget")
    /\ \/ first' = [first EXCEPT ![addr[p]] = Nil]
       \/ raced /\ UNCHANGED first
    /\ Goto(p, "closing")
    /\ UNCHANGED <<addr, keys, table, next, heapVars, raced, dead>>

\* js_destroy_env: all finalizers have run, the heap is freed (and its address free again),
js_destroy_env(p) ==
    /\ At(p, "closing")
    /\ \A o \in heap : o.addr # addr[p]
    /\ held' = {h \in held : h.addr # addr[p]}
    /\ Goto(p, "freed")
    /\ UNCHANGED <<addr, keys, first, table, next, heap, lost, early, raced, dead>>

\* and the keys of the loaders are removed, one by one.
RemoveLoaderKey(p) ==
    \E k \in keys[p] :
        /\ table' = [table EXCEPT ![k] = Absent]
        /\ keys' = [keys EXCEPT ![p] = @ \ {k}]
        /\ IF keys[p] = {k}
             THEN Goto(p, "none") /\ addr' = [addr EXCEPT ![p] = Nil]
             ELSE UNCHANGED <<at, addr>>
\* Fault: only now is the map's entry deleted.
removeModuleLoaderForgets(p) ==
    /\ At(p, "freed")
    /\ RemoveLoaderKey(p)
    /\ first' = [first EXCEPT ![addr[p]] = Nil]
    /\ UNCHANGED <<next, heapVars, raced, dead>>
removeModuleLoader(p) ==
    /\ At(p, "freed")
    /\ RemoveLoaderKey(p)
    /\ UNCHANGED <<first, next, heapVars, raced, dead>>

\* The Go runtime notices concurrent use of a map, and ends the process.
MapFatal ==
    /\ dead = "no" /\ raced
    /\ dead' = "race"
    /\ UNCHANGED <<envVars, table, next, heapVars, raced>>

------------------------------------------------------------------------------
(* Modules and structs. *)

\* createMethodKeys, for a struct of n methods: the methods' keys, then the module's.
methodKeysOf(n) == next..(next + n - 1)
modKeyOf(n) == next + n
\* Fault: the clock stands still after the module's key, which the next struct gets again.
createMethodKeysCoarse(n) ==
    /\ modKeyOf(n) <= MaxKeys
    /\ table' = [k \in Key |-> IF k \in methodKeysOf(n) THEN Method
                               ELSE IF k = modKeyOf(n) THEN Module(methodKeysOf(n))
                               ELSE table[k]]
    /\ next' = modKeyOf(n)
createMethodKeys(n) ==
    /\ modKeyOf(n) <= MaxKeys
    /\ table' = [k \in Key |-> IF k \in methodKeysOf(n) THEN Method
                               ELSE IF k = modKeyOf(n) THEN Module(methodKeysOf(n))
                               ELSE table[k]]
    /\ next' = modKeyOf(n) + 1

\* init_native_obj for that struct and the loader key u, with go_getMethodsList and
\* go_getAttrsList: methods and attributes, if there are any, are added to the environment
\* that u belongs to, none if u is unknown (a crash).
init_native_obj(p, n, u) ==
    \/ /\ table[u].kind = "loader" \/ n = 0
       /\ heap' = heap \cup {[addr |-> addr[p], mod |-> modKeyOf(n), udd |-> u,
                              methods |-> methodKeysOf(n), left |-> {"self"}]}
       /\ UNCHANGED dead
    \/ table[u].kind # "loader" /\ dead' = "panic" /\ UNCHANGED heap

\* loadNativeModule: a loader that is found, by its key, loads a struct.
go_loadModule(p) ==
    /\ Runs(p)
    /\ \E u \in keys[p], n \in 0..MaxMethods :
         /\ table[u].kind = "loader"
         /\ createMethodKeys(n)
         /\ init_native_obj(p, n, u)
    /\ UNCHANGED <<envVars, held, lost, early, raced>>

\* Fault: a missing entry is not noticed.
go_createEcmascriptObjectAlways(p) ==
    /\ Runs(p)
    /\ UseMap(p)
    /\ \E n \in 0..MaxMethods :
         /\ createMethodKeys(n)
         /\ heap' = heap \cup {[addr |-> addr[p], mod |-> modKeyOf(n), udd |-> first[addr[p]],
                                methods |-> methodKeysOf(n), left |-> {"self"}]}
    /\ UNCHANGED <<envVars, held, lost, early, dead>>

\* A struct is passed to JavaScript, as an argument or a result: parseArg or callGoFunc makes
\* its keys, and go_createEcmascriptObject looks for the first loader (which a race may hide).
go_createEcmascriptObject(p) ==
    /\ Runs(p)
    /\ UseMap(p)
    /\ \E n \in 0..MaxMethods :
         /\ createMethodKeys(n)
         /\ \/ /\ first[addr[p]] = Nil \/ raced'
               /\ lost' = lost \cup {modKeyOf(n)}
               /\ UNCHANGED <<heap, dead>>
            \/ /\ first[addr[p]] # Nil
               /\ init_native_obj(p, n, first[addr[p]])
               /\ UNCHANGED lost
    /\ UNCHANGED <<envVars, held, early>>

\* The same, but the object is never made: the function called does not exist, or its file
\* cannot be read, or an argument before it is an error, or the call comes from a coroutine,
\* whose context is not the environment's.
Refused(p) ==
    /\ Runs(p)
    /\ \E n \in 0..MaxMethods :
         /\ createMethodKeys(n)
         /\ lost' = lost \cup {modKeyOf(n)}
    /\ UNCHANGED <<envVars, heap, held, early, raced, dead>>

\* Object.create(o): the new object inherits o's methods, and its finalizer.
Inherit(p, o) ==
    /\ Runs(p)
    /\ o.addr = addr[p] /\ o.left = {"self"}
    /\ heap' = (heap \ {o}) \cup {[o EXCEPT !.left = {"self", "heir"}]}
    /\ UNCHANGED <<envVars, table, next, held, lost, early, raced, dead>>

\* JavaScript keeps a method of o.
Keep(p, o) ==
    /\ Runs(p)
    /\ o.addr = addr[p]
    /\ \E k \in o.methods : held' = held \cup {[addr |-> o.addr, mod |-> o.mod, key |-> k]}
    /\ UNCHANGED <<envVars, table, next, heap, lost, early, raced, dead>>

\* Fault: the methods' keys are forgotten.
removeModuleKey(m) == table' = [table EXCEPT ![m] = Absent]
\* removeModule: the module's key, and those of the methods it is known to have.
removeModule(m) ==
    IF table[m].kind # "module"
      THEN UNCHANGED table
      ELSE table' = [k \in Key |-> IF k = m \/ k \in table[m].methods THEN Absent ELSE table[k]]

\* unload_native_obj, for an object or its heir: when nothing refers to it (an heir refers to
\* its prototype), or in any order when the heap is destroyed.  go_finalizeModule passes the
\* module to its loader, if that is found, without a look whether the module was.
unload_native_obj(p, o, who) ==
    /\ \/ At(p, "open") /\ (who = "self" => o.left = {"self"})
       \/ At(p, "closing")
    /\ o.addr = addr[p] /\ who \in o.left
    /\ early' = IF who = "heir" THEN early \cup {o.mod} ELSE early
    /\ IF table[o.udd].kind = "loader" /\ table[o.mod].kind # "module"
         THEN dead' = "panic" /\ UNCHANGED <<table, heap>>
         ELSE /\ removeModule(o.mod)
              /\ heap' = (heap \ {o}) \cup
                           (IF o.left = {who} THEN {} ELSE {[o EXCEPT !.left = @ \ {who}]})
              /\ UNCHANGED dead
    /\ UNCHANGED <<envVars, next, held, lost, raced>>

EnvStep(p) ==
    \/ NewEnv(p) \/ addGoModuleLoader(p) \/ RememberFirst(p)
    \/ Destroy(p) \/ ForgetFirst(p) \/ js_destroy_env(p) \/ removeModuleLoader(p)

JsStep(p) ==
    \/ go_loadModule(p) \/ go_createEcmascriptObject(p) \/ Refused(p)
    \/ \E o \in heap :
         \/ Inherit(p, o) \/ Keep(p, o)
         \/ \E who \in {"self", "heir"} : unload_native_obj(p, o, who)

Next == (\E p \in Proc : EnvStep(p) \/ JsStep(p)) \/ MapFatal

Spec == Init /\ [][Next]_vars

------------------------------------------------------------------------------
(* Properties; some need that nobody raced for the map. *)

Live(o) == "self" \in o.left
HasItsKeys(o) ==
    /\ table[o.mod] = Module(o.methods)
    /\ \A k \in o.methods : table[k] = Method

\* Whatever other objects, environments and goroutines do, a live object's module and methods
\* are in the pool, so that its methods can be called and its finalizer will find it, unless
\* the finalizer already ran for an object that inherits from it.  A method that JavaScript
\* keeps longer leads to a method of the same struct or, when that is gone, nowhere
\* (go_modBridge, module_loader.go:44-49): never to anybody else's.
KeptMethodsAreTheirs ==
    \A h \in held : table[h.key] # Absent =>
        /\ table[h.key] = Method
        /\ table[h.mod].kind = "module" /\ h.key \in table[h.mod].methods
LiveObjectsHaveTheirKeys ==
    /\ \A o \in heap : Live(o) /\ o.mod \notin early => HasItsKeys(o)
    /\ KeptMethodsAreTheirs

\* A finalizer, even one that runs during Destroy, finds the loader it was given, which
\* belongs to its own environment (duk_bridge.go:51-60 removes the loaders last).
FinalizersFindTheirLoader ==
    ~raced => \A o \in heap :
        /\ table[o.udd] = Loader(o.addr)
        /\ \E p \in Proc : addr[p] = o.addr /\ o.udd \in keys[p]

\* While an environment is open its entry in the map is its own first loader, although heaps
\* come and go at the same addresses.
FirstLoaderIsMine ==
    ~raced => \A p \in Proc :
        at[p] = "open" =>
            /\ first[addr[p]] \in keys[p]
            /\ table[first[addr[p]]] = Loader(addr[p])

\* Nothing stays in the pool for good, but what was lost on its way to JavaScript: a loader
\* is its environment's, a module that of a live object, a method that of a module.
KeysAreOwned ==
    dead = "no" => \A k \in Key :
        /\ table[k].kind = "loader" => \E p \in Proc : k \in keys[p]
        /\ table[k].kind = "module" => k \in lost \/ \E o \in heap : Live(o) /\ o.mod = k
        /\ table[k].kind = "method" =>
             \E m \in Key : table[m].kind = "module" /\ k \in table[m].methods

\* The process only panics in a finalizer that ran for a second object.
OnlyHeirsPanic == dead = "panic" /\ ~raced => early # {}

\* "finalizer of a module when it reaches the end of its block scope" (duk_bridge.h:353): an
\* object that is live was not finalized.
FinalizedAtItsEnd == \A o \in heap : Live(o) => HasItsKeys(o)
==============================================================================
