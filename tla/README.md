# duktape-bridge in TLA+

This directory models [duktape-bridge](../src/README.md), a bridge that embeds the Duktape
JavaScript engine in C, Go and Java programs, and checks and proves what makes it correct.
TLC checks the models on small instances; TLAPS proves theorems about them for every value
of their constants.

## The system

One *environment* (`js_create_env`, Go's `NewEnv`) is a Duktape heap, used by one thread at
a time. A *host program* calls JavaScript in it and JavaScript calls *native functions* of
the host program, which may call JavaScript again. The Go side adds state of its own that
all environments of the process share.

| Part | Source | State it keeps | Operations |
|---|---|---|---|
| Calls | `duk_bridge.c`, `duk_bridge.go` | the engine's value stack, the global object | register and unregister functions and variables, call, eval, check syntax, call a native function |
| Function handles | `duk_bridge.c`, `ecma_obj.go`, `go2c.go` | hidden global properties named by the time of day; the numbers the host program holds | save (as an argument or a result), call, pass on, destroy |
| Value-to-key pool | `val2key.go`, `native_module_key.go` | two maps owned by one goroutine; two unbuffered channels | `V2K`, `GetVal`, `RemoveKey`, `RemoveVal`, `Quit` |
| Go modules | `module_loader.go`, `native_module_key.go`, `plugin_module_loader.go` | keys of loaders, modules and methods (in the pool); the first loader of each environment | `NewEnv`, load, list methods and attributes, finalize, `Destroy` |
| Native modules | `duk_bridge.c` (`modSearch_impl` and what it calls) | loaders and module objects in the heap, their finalizers | search, load, initialize, unload |
| `require()` | `duk_module_duktape.c` | `Duktape.modLoaded` | resolve an id, look it up in the cache, load, evaluate |
| Marshalling | `go2c.go`, `duk_bridge.c` | argument blocks: a format and an array of slots | Go value to slots to JavaScript value and back |
| Java bridge | `duk-bridge-java/` | a JNI environment, a global file reader | the calls above, from Java |
| Console, print, alert | `duk_console.c`, `duk_print_alert.c` | none | output |

How they interact: a call of the host program enters C (`js_call_registered_func`), which
pushes the arguments on the value stack and runs the function under `duk_pcall`; its result
goes to a callback (`go_resultReceived`). JavaScript that calls a native function enters
`native_func_bridge`, which converts the arguments to slots and calls the function pointer
(`go_funcBridge`, `go_modBridge`), and converts the result back. Function values are saved
in the heap and cross as numbers. Go values that may not cross into C (loaders, module
structs, methods) are put in the pool and cross as their keys.

### What is hard

* **Concurrency.** Environments run on different goroutines and share the pool, whose
  answers travel on one channel without an address (`val2key.go:118-131`), and the map
  `_firstLoaderKey` without a lock (`module_loader.go:241`). Java's environments share a file
  reader in two global variables (`dukbridge.c:31-32`).
* **Re-entrancy.** One environment is sequential, but its calls nest. The conversion of an
  argument to JSON runs `toJSON` methods in the middle of another call.
* **Exceptions across C.** An exception outside of a protected call unwinds the bridge's
  own frames, or aborts the process, and leaves what those frames had saved.
* **Time as identity.** Keys and handles are readings of a clock, which may show one reading
  twice or be set back.
* **Lifetimes.** Handles are freed by hand, keys by finalizers of the heap, which run as
  late as its destruction; C keeps pointers to Go memory.
* **Positional protocols.** Value stack heights and slot counts are kept by convention on
  two sides of a language border.
* **Caches of unfinished work.** `require()` shows modules to each other before they are
  loaded, and takes them back if that fails.
* **Unchecked buffers.** The resolver writes over its own input and trusts an argument about
  lengths instead of a bound.

What makes each part correct: *pool*: an answer reaches its asker, the two maps agree, a key that
was given out once keeps its value, calls return, and all of it looks atomic from outside.
*Handles*: a handle that was made once leads to its function until it is destroyed and nowhere
afterwards, and every saved function has an owner. *Calls*: the value stack is left as it was
found, callbacks run once, errors come back as return codes. *Go modules*: a key is in the pool
exactly as long as C can use it. *`require()`*: an id is resolved to its canonical form; a module
is loaded once, everybody who asks gets the same exports, a module is partial only while a call is
loading it, failed loads leave nothing. *Native modules*: a library is closed as often as it was
opened. *Marshalling*: both sides agree on the slots, a value arrives as what it was or is
refused, errors cross. *Java bridge*: an environment is destroyed once, and JNI is used by its
rules. `PROJECT.json` lists the hazards one by one, with their lines and the properties that cover
them.

## The modules

| Module | Content |
|---|---|
| `V2KPool` | the value-to-key pool: clients, channels, the server and its handlers |
| `V2KSpec` | what the pool promises its callers: an atomic table |
| `V2KPoolProofs` | theorems about the pool |
| `EcmaHandles` | handles of JavaScript functions under nested calls |
| `EcmaHandlesProofs` | theorems about the handles |
| `BridgeCalls` | calls between host program and JavaScript, value stacks, globals, exceptions |
| `BridgeCallsProofs` | theorems about the calls |
| `GoModules` | environments on several goroutines, keys of loaders, modules and methods, finalizers |
| `GoModulesProofs` | theorems about the modules |
| `ModuleId` | the resolver of module ids, on its buffer, and resolution by terms |
| `ModuleIdProofs` | theorems about the resolver |
| `Require` | `require()`, `Duktape.modSearch`, dynamic libraries |
| `RequireProofs` | theorems about `require()` |
| `ArgMarshal` | arguments and results between Go, Java and JavaScript |
| `ArgMarshalProofs` | theorems about arguments and results |
| `JavaBridge` | lives of `DukBridge` objects, the shared file reader |
| `JavaBridgeProofs` | theorems about the Java bridge |
| `MC*` | instances of the modules for TLC |

Definitions marked *Fault* are no part of the models: each is its successor with a plausible
bug in it (a dropped reset, a swapped order), and `PROJECT.json` ("mutants") names the
property that notices when it takes its place.

### V2KPool

A goroutine in an exported method is at one of three places: `"idle"`, at the send on `od`
(`"send"`) or at the receive on `res` (`"recv"`); the server is at the head of its loop, in
a handler, or at its send on `res`. A communication on an unbuffered channel is one step of
both ends: `Take` and `Deliver`. The handlers are one step each, as nobody else touches the
maps, and have the names of the Go methods. `val2Key` has three outcomes (a key known, a key
made, an error of the generator). `V2K`, `GetVal`, ... stand for any use of the pool:
clients look up and remove any key that was ever issued, including one removed before.
The key generator reads a clock, and nothing is assumed of the clock: `ReadClock` may give any
reading of `Time`, one it gave before included, and `val2Key` then overwrites what is under that
key, as the code does. The history variables `issued` (the keys and values ever paired) and
`repeats` (the keys given out twice) let the properties say what such a clock cannot spoil:
`MapsAgree` and `KeysKept` hold of every key that was given out once, whatever became of others.

`V2KSpec` is the pool as its callers may think of it: each call takes effect at once,
somewhere between its start and its return. Under the refinement mapping a removal takes
effect when the server *takes* its request, which is when its caller returns, though the
server handles it later; registrations and lookups take effect when they are handled. The
mapping therefore shows the table with the removal in hand already done (`tableSeen`).
`Register` may give any key there too; the value that was under it is lost. Only a pool of
hashable values whose clock has repeated a key promises nothing more (`Unspecified`): its
reverse map then leads two values to one key.

### EcmaHandles

`stack` is the nesting of calls in one environment; its top decides who may move. A native
function's frame is `"convert"` while `native_func_bridge` converts its arguments and
`"native"` afterwards. `global` holds the saved functions; `pending` the handles of
conversions in progress, with the depth of their frame; `wraps` the handles the host program
holds; `stale` those it destroyed, which its wrappers still contain. `ConvertThrows` and
`Refuse` are the two ways in which a conversion ends without the native function: an
exception of the JSON encoder, and `callGoFunc`'s refusal. JavaScript that the encoder runs
(`ConvertRunsJs`) may throw too, which unwinds the conversion (`JsThrows`). A function that
JavaScript *throws* is saved like one it returns, and then dropped by `parseResult`
(`JsFuncDropped`). `aborted` remembers that a handle was lost in one of these ways. A handle is
whatever `ReadClock` answers, one in use included: the function there is overwritten, and both
holders of the number have the second one. `made` and `twice` are the handles made so far and
those made more than once.

### BridgeCalls

A frame of the host program has a value stack of its own, of which `top` counts the slots in use
and `missed` (a history variable) those left behind by calls of missing functions. `top` moves by
what a step *leaves* on the value stack. How many slots it uses meanwhile depends on the step and
its values (a string argument takes one, a buffer or a struct up to five, `duk_bridge.c:682-700`;
a registration five, 956-966): it is between one and the constant `Work`. So `Using` may
`Overflow` as soon as fewer than `Work` slots are left, must when none is, and the properties hold
for either outcome. `Raise` is an exception outside of every protected call: it unwinds to the
JavaScript that called the host frame, or aborts the process. `Deliver` is `call_result_callback`,
which may raise as well. `op`, `rc`, `cb` and `ran` record how the frame's last call went; `threw`
says whether `duk_pcall` or the compiler failed, which alone decides the return code (`rcOf`).
`globals` is what names are bound to; JavaScript may rebind or delete any of them at any time.

### GoModules

Each goroutine takes its environment through `NewEnv`, calls, and `Destroy`; `at` is where it
is, with a place of its own for each write to the map `_firstLoaderKey` (`"remember"`,
`"forget"`) and for the destruction of the heap (`"closing"`), in which finalizers run, and
may run JavaScript that loads modules and calls Go. `table` is the pool as `V2KSpec`
describes it, with atomic calls, for a clock that gives no key twice (`V2KPool` has what
happens otherwise). `createMethodKeys` makes the keys of one struct with
several calls of the pool, which the model takes in one step: until the last one is made no
other goroutine knows any of them, and a fresh key disturbs nobody.
A goroutine that uses the map while another writes it sets `raced`. From then on a write may
be lost, an entry may be missed, and the Go runtime may end the process (`MapFatal`).
Properties that depend on the map are claimed up to the first race.
`heap` has the objects with the bridge's finalizer. `left` says for which objects it has yet
to run: the module's own, and an *heir* made from it with `Object.create`, for which Duktape
runs the inherited finalizer too. Addresses of heaps are used again once freed.
`held` has the methods that JavaScript keeps apart from their object, with the struct they
are of: after the object is collected their keys must lead nowhere (`KeptMethodsAreTheirs`).
Assumed of the host program: loaders return pointers to structs, as their interface asks, and
scripts do not take finalizers apart with `Duktape.fin`.

### ModuleId

`duk__resolve_module_id` byte by byte: `buf` is the buffer on its stack, `p` and `q` its read
and write pointers as indices, and an action is one round of one of its loops. Names have
ordinary characters (`Char`), the dot and the slash; bytes never written are `Junk`, so that
reading one would show. What the function should compute is stated without a buffer:
`ResolvedPath` splits the ids at slashes and walks the terms, and `ResolvesByTerms` compares
result, last component and refusals.

### Require

`stack` has the calls of `duk__require` in progress, each with its module and the place it has
reached: in `modSearch`, in the host program's file reader, in a library's init function, in the
host program's loaders, in the compiler, or in the module's own code. In the reader, the init
function, the loaders and the module's code further modules may be required, by a `require`
function of whatever module has run its code: which one it is decides how an id is resolved, not
what the cache answers, so the model does not tell them apart. `throwing` is an exception on its
way through these calls, each of which deletes its cache entry and rethrows (`deleteRethrow`),
until a module or script catches it. `done` and `failed` are history. `given` is one of the
answers `require()` has given so far, chosen arbitrarily: what an invariant says of it holds of
every answer at every later time. `refs` counts `dlopen` less `dlclose`, for libraries whose
module objects have a finalizer (`unloadDll`), which Object.create may run early here too. Files
and libraries may come and go between two loads. Assumed: scripts leave `Duktape.modLoaded` and
`Duktape.modSearch` alone, a module sets `module.exports` only while it is loading, and ids fit in
`loadAndInitDll`'s 40 bytes.

### ArgMarshal

One call from start to end, in one of three directions: JavaScript to a Go function, Go to
JavaScript, Java to JavaScript. Arguments are kinds of values, as many as the code tells
apart. The writer appends a letter and one or two *words* for each; a word says which
argument it belongs to and which part of it it is, so `OwnWords` can say that the reader, which
sees only letters, takes the words that were meant. Types are told apart where the code does:
`"map"` is `map[string]interface{}`, which `json.Unmarshal` makes, `"map[string]int"` any other map
with strings for keys, `"[]int"` a slice of anything but bytes, `"Duration"` a type defined as a
number, and a nil `*EcmaObject` is no nil interface. `callGoFunc` is modelled with reflect's
rules for types (`Convertible`, `Assignable`; external): an argument is *made* for the type
`getFuncArgType` names, checked against it, and passed to `Call`, which wants the parameter's
own type. JSON texts that Java passes may be no JSON, which the decoder throws (`DecodeThrows`).
`result` is how the call ended for its caller; `"panicked"` and `"crashed"` end the
process.

### JavaBridge

Threads, each with a stack of native methods and file readers that call each other; `DukBridge`
objects with their field `env` and their environments; and the reader's two global variables.
JNI's rules are a history variable, `misuse`: a JNI environment used on another thread, a
deleted reference used, a call made while an exception is pending. `careless` says that a
second thread has used the reader or a reader has thrown, and `OneThreadIsSafe` that nothing
else leads to misuse. Not modelled: files that JavaScript reads while its heap is destroyed,
and readers that keep their bridge alive.

## The checks

| Run | Instance | Shows |
|---|---|---|
| `pool` | 2 goroutines, 2 values, 3 registrations, any clock of 2 readings | the pool's invariants, that calls return, that it implements `V2KSpec` |
| `handles` | 2 functions, 4 saves, any clock of 3 readings, 6 nested calls | handle fidelity, no revival, no loss but by abandoned calls |
| `handles_clock` | as `handles` | *violated*: a handle leads to another function |
| `calls` | 1 name, value stack of 6, steps of up to 2 slots, 2 arguments, 5 nested frames | stack discipline, callbacks, what an overflow takes |
| `calls_always_return` | as `calls` | *violated*: a call aborts the process |
| `modules` | 2 goroutines, 2 addresses, 5 keys, structs of up to 1 method | key lifetimes, kept methods, finalizers and `Destroy`, the map of first loaders, what panics |
| `modules_heirs` | as `modules` | *violated*: a module is finalized while its object is live |
| `resolver` | ids of up to 5 characters (7 with one letter only), buffer of 14 bytes | the output never overtakes the input, is canonical, agrees with resolution by terms; every resolution ends |
| `require` | 2 names with and without `.js`, 3 loads, 3 nested calls | one copy of each module, same exports for everybody, partial modules only while they are being loaded, libraries balanced |
| `marshal` | 2 arguments, functions of up to 3 parameters | slots agree, Go functions run with suitable arguments only, calls with suitable ones fail in the known ways only, errors cross, the block is freed |
| `java` | 2 threads, 3 bridges, 6 nested calls | environments are destroyed once; when JNI is used well |
| `java_ints` | as `marshal` | *violated*: an `Integer` arrives as 0 |

### Bounds

* **pool.** Two goroutines are enough for an answer to go astray and for one to overtake
  another; three registrations let a key be removed and its value registered again while a
  second value is live. The clock has two readings for three registrations, so that it repeats
  one, with another in between or not, and steps back.
* **handles.** Four saves fill one conversion with two functions and leave two for a call
  nested in it. Six frames are host, JavaScript, conversion, JavaScript (from `toJSON`),
  conversion, native. Three readings for four saves make repeats unavoidable, of a handle that
  is pending, held or destroyed. Functions are interchangeable, and so are readings (symmetry):
  handles are never compared but for equality.
* **calls.** Names do not influence each other, so there is one. A value stack of 6 slots (64 in
  Duktape) holds a function, its two arguments and the 2 slots of `Work` (a few in the code) with
  one to spare: every operation succeeds on an empty stack and fails on one that misses have filled,
  and in between both may happen. Five frames are a host frame inside a native function inside
  another. Frames do not share value stacks, so deeper nesting only repeats.
* **modules.** Two goroutines and two addresses let environments exist side by side, follow
  each other at one address, and race for the map. Five keys are a loader and two structs of
  one method, or two environments with a loader each (one of them two) and a struct; a second
  method would be treated as the first. Goroutines and addresses are interchangeable
  (symmetry). When the keys are used up a goroutine can only wind up its environment.
* **resolver.** Five characters over a name, a dot and a slash make every sequence of up to
  three terms, wrong ones included, and relative ids reach up to two directories from `a/b`.
  The buffer of 14 bytes (256 in the code) is one that the longest relative ids just do not fit
  in. Characters of names are not told apart by the code; the two there are let `Walk` and the
  buffer disagree about which one it is.
* **require.** Three loads are a circle of two with a retry, or a module required by two others;
  names are interchangeable (symmetry). An answer given early is watched until the end.
* **marshal.** Two arguments show every letter after every other; the words of a third would
  follow those of the second in the same way, which `LoopsAgree` proves for any number. A
  variadic function needs three parameters to have one that `getFuncArgType` gets right and
  one that it does not.
* **java.** Two threads suffice to share the reader, three bridges for one each and one left to
  the collector. Six calls are three readers inside of each other.
* `CHECK_DEADLOCK FALSE` appears where the program may stop: after `Quit` everybody who
  calls the pool is blocked, an aborted process does nothing, a resolution or a call ends, and
  bounded keys and loads run out.

### Fairness

Two liveness properties are checked. `Terminates`, of the resolver, assumes that a sequential
function goes on while it can. `CallsReturn`, of the pool, assumes weak fairness of the server
and of each receive (the Go scheduler runs what can run) and strong fairness of each send on
`od`: the runtime queues blocked senders first in, first out, so none is passed over for
ever. Clients are not assumed to call anything. Once the pool has quit, calls block for ever;
the property says so.

### What the violated runs show

Each is a place where the code does not do what its own documentation says; `PROJECT.json`
("findings") quotes both.

1. Two functions saved in one microsecond, as two arguments of one call can be, get the same
   handle: the first can no longer be called, and destroying one destroys the other
   (`handles_clock`; `duk_bridge.c:157`).
2. An exception outside of protected calls aborts the process: `js_unregister_native_func` of
   a name bound to null, a result JSON cannot encode, an error passed as an argument, and a
   value stack filled by calls of missing functions (`calls_always_return`).
3. The finalizer of a module runs for objects that inherit from the module's object: the
   module is gone while its object is live, and the object's own finalizer panics
   (`modules_heirs`; `duk_bridge.c:268`, `module_loader.go:235`).
4. Integers that Java passes to JavaScript arrive as half of a double, 0 for small numbers
   (`java_ints`; `dukbridge.c:241-246`, `duk_bridge.c:662`).

### What else the models contain

Behaviour that the models have because the code has it, and that is no run of its own. The
properties named make an exception for it, and hold of everything else:

* Two values registered at one reading of the clock get the same key, and the first is lost
  (`native_module_key.go:33`, `val2key.go:55`), though `val2key.go:18` says "different val mapped to
  different key" (`MapsAgree`, `KeysKept`: `repeats`).
* A call that is abandoned after function arguments were saved leaks them, as does a function
  that is thrown (`LostOnlyWhenAborted`: `aborted`; `duk_bridge.c:890`, `go2c.go:297-317`, `412`,
  `duk_bridge.go:75`).
* `SyntaxCheckFile` answers `nil` for a file that exists and cannot be read, for which no callback
  is called (`CallbackOnce`: `Owed`; `duk_bridge.go:159`, `duk_bridge.c:798-806`).
* `js_unregister_func` returns 1 for success (`duk_bridge.c:563`), against `duk_bridge.h:145`, which
  Go reports as an error.
* A method that JavaScript keeps returns `undefined` once its object was collected.
* Go functions with parameters that are slices, other than `[]byte`, or maps, other than
  `map[string]interface{}`, cannot be called with arrays or objects (`CallsFit`: `Composite`;
  `go2c.go:396-402`, `412`), though `src/README.md:136-137` lists them as acceptable.
* `getFuncArgType` takes the last fixed parameter of a variadic function for a variadic one, so
  that a suitable argument is refused, or makes reflect's `Call` panic (`CallsFit`: `Misread`;
  `go2c.go:284`).
* `CallsFit` names the other ways in which a call with suitable arguments goes wrong: reflect's
  `Call` panics for a number if the parameter's type is defined as one (`time.Duration`,
  `go2c.go:412`) and, for a numeric parameter that is not `float64`, for an object whose JSON is a
  number; asking for the type of what JSON's `null` was made into panics as well.
* A number returned as `interface{}` panics at `go2c.go:461`, a nil `*EcmaObject` at 481, and one
  passed as an argument at 190; a `*struct` returned as `interface{}` becomes `undefined`.
* An error passed to JavaScript after a long enough argument before it and with another one
  after it may read a wild address (`go2c.go:230`, `duk_bridge.c:678-679`).
* A library whose init function throws, or returns no object, stays open
  (`duk_bridge.c:123-129`).
* The Java file reader serves one thread only, and one that throws leaves its exception pending.

## The proofs

All are checked by `tlapm` without omitted steps. Constants are arbitrary within their named
assumptions: the special values differ from ordinary ones, the bounds are natural numbers, a
step uses one slot of the value stack at least. No theorem assumes anything of a clock.

**V2KPool.** The invariant, *Protocol*, says where the request and its caller are: while the
server handles or answers a request that asks, a caller waits, and while it handles another,
none does. With `AnswerGoesToAsker` it is inductive: the server takes a request only at the
head of its loop, and gets back there only by an answer, or by a request that has none.
Answers then reach their askers (`AnswersFind`) and find somebody waiting (`NoOrphanAnswer`):
neither depends on the clock, nor do the theorems about keys (`MapsAlwaysAgree`,
`KeysKeptUntilRemoved`). `Held` says that both maps hold only what was issued, so a key that was
not issued before is in neither (`FreshUnlessRepeated`): overwriting it can only disturb keys in
`repeats`, and the removals, the only other writes, take both halves of an entry.
`PoolIsAtomicTable` puts these together: entering a method is V2KSpec's `Call` (`EnterCalls`),
the rendezvous on `od` is a removal's effect or goes unseen (`TakeEffect`), the handlers of `V2K`
and `GetVal` are their effect (`HandlerAnswers`: as long as no key was repeated the maps agree,
so that a value has a reverse entry exactly when it is registered; afterwards V2KSpec promises
the callers of a hashable pool nothing, and those of another one the table alone, which has no
reverse entries), the handlers of removals go unseen (`RemovalUnseen`), and the rendezvous on
`res` is the return (`DeliverReturns`).

**EcmaHandles.** Fidelity needs two companions to be inductive: every handle that native code or
a conversion has, or has destroyed, is one that was made (`AllMade`), so a save under it puts it
in `twice`; and a handle made once is pending once at most, and not yet in native code's hands
(`OneOwner`), so destroying one does not take another away. The nesting itself matters only for
types (`StackType`). From this follow `HandlesAreFaithful` and `DestroyedStayDead`, also for the
handles that are not in `twice` beside others that are. `LossesAreAborts` adds that whoever lets
go of a handle passes it on, destroys it, or sets `aborted`.

**BridgeCalls.** The invariant (`IInv`) has three parts. *Nesting* is the shape of the stack:
host frames and JavaScript alternate, and exactly the host frames that are not innermost wait
for JavaScript. *FramesOK* is what holds of each host frame alone: the height of its value
stack (`Balanced`), its callbacks (`CalledBack`), and that a call in the middle is of a kind
that ends with one (`InCall`), which is why none is skipped. The third part is
`OverflowNeedsMisses`.
A step changes the stack in one of five ways (the innermost host frame goes on, is left, or
runs JavaScript; JavaScript ends, or calls a native function), with one lemma for each; an
exception is one of them too, so nothing is special about it. `OverflowStep` and `UsingStep` deal
once with steps that may run out of slots. The properties follow for value stacks of any size,
steps that use any number of slots, and any nesting.

**GoModules.** The invariant (`IInv`) is layered. *TableOK* is about the pool alone: keys past
the next one are unused, modules do not share methods, and every method is some module's.
*HeapOK* ties objects to it: an object has a module of its own, which is in the pool until a
finalizer ran. *EnvOK* says that loader keys belong to one environment each and that two
environments that run have different addresses. *MapOK* is only known without a race: an
open environment's entry in the map is its own, none is left of one that is being destroyed,
and the loader of every object is still registered. Four lemmas say what a step does to the
pool (a struct's keys made, a module removed, a loader added or removed) and one lemma for
each action that it keeps `IInv`. That `HeapOK` does without the map is why objects keep their
keys (`LiveObjectsKeepTheirKeys`) even after a race; that heaps are destroyed before loaders
are removed is what `FinalizersAlwaysFindLoaders` comes down to. For kept methods there is a
second invariant (`KeptOK`): a key below the next one that is not an existing module's method
can never become one (`Leads`), because new modules only have new methods.

**ModuleId.** The invariant adds to `InPlace` what the output looks like so far (`Components`: it
starts with a name, and each slash is followed by one or by the end) and where the function is
in it (`Places`: at the start of a term the output is empty or ends in a slash; while a name is
copied at least one byte of the input is read ahead of the output). That byte is what the
comment at `duk_module_duktape.c:48-52` relies on. The theorems hold for any ids and any
buffer.

`ResolutionIsByTerms` says that the bytes are those resolution by terms gives. Its invariant
(`RInv`) compares, at the head of each loop, what was read so far with what was written so far:
between terms the output is the join of the terms of the part that was read (`Between`); while a
name is copied it is that join with the name begun so far (`InName`); and the function has failed
only if the id is too long or its terms lead nowhere. `Terms`, `Walk` and `Join` are folds over
sequences, so the theorem needs their laws for every sequence. The library's induction theorems
take an operator and cannot be used; `NatInd` is induction for a *set* of numbers instead (the set
of lengths for which a law holds), proved from the least element of its complement. From it come
the values of a fold (`IterFolds`), one step at a time, and from these what each of the three
folds does with one more character or term. The theorem has one hypothesis, `BasesAreIds`: the
module that asks has an id whose terms are names (not empty, no dot in front), to which the code
adds the terms of a relative id unread. The resolver's own results are such ids
(`ResolvedIdsMayAsk`), and they are what a fresh `require` gets as its `id`
(`duk_module_duktape.c:261-274`); that property is not writable, but a script could redefine it.
`EveryRoundCounts` is the safety half of `Terminates`: a natural number, which counts what is left
to read, lessens with every step.

**Require.** The modules of the calls in progress increase from the outermost in (`StackOK`),
every module is loaded, failed, or in the hands of a call (`Accounted`), and the cache has just
those that have not failed (`CacheOK`). An exception unwinds the innermost call only, so these
hold throughout. `CompleteModulesAgree` needs that exports change only in the hands of a call;
`NothingIsLeftHalfLoaded` is what `Accounted` and `CacheOK` come to together.
`LibrariesStayBalanced` has a second invariant (`LibsOK`): a call that is not innermost is in
a module's code, an init function, the file reader or the loaders; while it is in an init function its module's
library is the one being initialized, and while it is still searching the module has none.
So a library opened in `modSearch` is the module's first, and an init function that comes back,
or throws, settles the library it was called for, whatever was required in between.

**ArgMarshal.** `Chained` says that the words of one argument follow those of the one before,
and `InStep` that the reader stands at the first word of the next one; `SlotsAgree` compares the
tables of the writers with those of the readers, for all kinds of values. `LoopsAgree` follows
for calls of any length. `Checked` says of a Go function's arguments how each was made and
why the call ended. Three lemmas, by cases over all values and types, say what that means:
what `Call` takes suits its parameter, whichever parameter it was made for (`TakenSuits`); what is
made of a suitable value for its own parameter is taken, but in the cases `CallsFit` names
(`MadeFits`); and only the argument before the variadic ones is made for another (`OwnType`).
`GoCallsFit` follows.

**JavaBridge.** `Fields` says what a field holds by the state of its object, `OneUser` that as
long as one thread uses the reader its variables are that thread's, the reference is deleted
only while that thread is replacing it, and nobody else is inside of the reader. The lemmas
about stacks say which calls a push or a pop leaves.

Only model-checked: `CallsReturn` and `Terminates` (liveness), because the prover handles
neither fairness nor `ENABLED`. Every other property of the passing runs is the statement of a
theorem.

## Not modelled

* The Duktape engine: what the bridge relies on is part of the models (external definitions
  in `PROJECT.json`): the value stack's limit, protected calls, the property operations.
  Memory exhaustion, and assignments to global properties that cannot be written or deleted
  (`NaN`, `undefined`, a frozen global object), are left out.
* Calls without a result callback, which only C programs make.
* Values that cannot be keys of a map: the pool's server looks up `p.v2k[v]` when it removes a key
  whatever the constructor was told (`val2key.go:76`), which panics for such a value; the models'
  values are all hashable. A `null` string given to `DukBridge`'s constructor.
* Memory: what two garbage collectors do to pointers that Go lends to C (`duk_bridge.go:323`) and
  to JavaScript's strings that Go functions get without a copy (`go2c.go:375-377`).
* Modules loaded inside of a coroutine, whose methods go to another value stack
  (`module_loader.go:118`), and loaders that return structs instead of pointers.
* Fixed buffers of `duk_bridge.c` (`initFunc`, line 114; `getExePath`, lines 386-394).
* `GoPluginModuleLoader` (opening shared objects), the console and `print`/`alert` (output), the
  commands, the examples and the C tests.

Of the repository's 104,736 lines 101,882 are the Duktape engine, so the share of all lines that
the models cover is small by construction; the table of components in `PROJECT.json` says what
of the bridge's own code they cover.

## Plan

Done: all modules above, with their theorems. What a next step could add:

1. Loading inside of coroutines, with the value stacks of `BridgeCalls`.
2. The Java functions and module loaders, once they are more than stubs.
