-------------------------------- MODULE Require --------------------------------
(***************************************************************************)
(* require() in one environment: duk__require (duk_module_duktape.c) and   *)
(* what it calls in duk_bridge.c, Duktape.modSearch with readFile,         *)
(* loadAndInitDll and loadNativeModule.                                    *)
(*                                                                         *)
(* A module is put into the cache, Duktape.modLoaded, before it is looked  *)
(* for and evaluated, so that modules may require each other in a circle;  *)
(* if that fails it is taken out again.  Evaluation runs JavaScript, and   *)
(* so may the host program's file reader, the C function that initializes  *)
(* a library and the host program's loaders: all of it may require further *)
(* modules, of its own or with the require function of any other module    *)
(* whose code has run.  Whose it is matters to how the id is resolved,     *)
(* not to the answer.  Files and libraries may come and go between two     *)
(* loads.                                                                  *)
(* Ids are resolved already (module ModuleId); "a" and "a.js" are two ids  *)
(* of one file.  Definitions marked "Fault" are bugs for the properties.   *)
(***************************************************************************)
EXTENDS Integers, Sequences, FiniteSets

CONSTANTS
    Name,       \* names of modules, without ".js"
    MaxLoads,   \* bound: modules ever put into the cache
    MaxDepth    \* bound: calls of require() inside of each other

ASSUME BoundAssumption == MaxLoads \in Nat /\ MaxDepth \in Nat

VARIABLES
    stack,      \* the calls of duk__require in progress, innermost last
    mods,       \* the module objects made so far
    modLoaded,  \* Duktape.modLoaded: for each id a module object, or None
    done,       \* the modules whose loading has succeeded
    failed,     \* and those whose loading has failed
    throwing,   \* an exception is on its way out of the innermost call
    given,      \* one of the answers of require() so far, any one of them (history)
    refs,       \* for each library, how often it is open: dlopen less dlclose
    heirs,      \* libraries' objects with an object that inherits from them
    early,      \* those for which such an object was finalized
    modSearch,  \* whether set_modSearch succeeded
    open        \* FALSE once the environment is destroyed

loadVars == <<stack, mods, modLoaded, done, failed, throwing>>
libVars == <<refs, heirs, early>>
vars == <<loadVars, given, libVars, modSearch, open>>

Id == [name : Name, js : BOOLEAN]
None == 0
Mod == 1..MaxLoads

\* An answer of require(): the module, whether it was complete, and its exports.
Use == [of : Mod \cup {None}, whole : BOOLEAN, exports : {"table", "other"}]
NoUse == [of |-> None, whole |-> FALSE, exports |-> "table"]

\* A module object: module.exports is the table it was made with or another object; lib says
\* what became of the library it opened: its initialization runs ("init"), a finalizer will
\* close it ("held"), it is closed, or nobody knows it any more ("lost").
Module == [id : Id, exports : {"table", "other"}, lib : {"none", "init", "held", "closed", "lost"}]
NewModule(id) == [id |-> id, exports |-> "table", lib |-> "none"]

\* Where a call is: modSearch, the host program's file reader, a library's initialization, the
\* host program's loaders, compilation, or the module's own code.
Frame == [mod : Mod, at : {"search", "reader", "init", "loaders", "compile", "run"}]

top == stack[Len(stack)]
me == mods[top.mod]
below == SubSeq(stack, 1, Len(stack) - 1)
In(place) == stack # <<>> /\ ~throwing /\ top.at = place
Goto(place) == stack' = [stack EXCEPT ![Len(stack)].at = place]

\* The host program's own code, which calls JavaScript under a protected call.
hosts == {"reader", "loaders"}

\* JavaScript, or code that may call it, runs.
running == {"run", "init"} \cup hosts
Runs ==
    /\ open /\ ~throwing
    /\ stack # <<>> => top.at \in running

Init ==
    /\ stack = <<>> /\ mods = <<>>
    /\ modLoaded = [id \in Id |-> None]
    /\ done = {} /\ failed = {}
    /\ throwing = FALSE
    /\ given = NoUse
    /\ refs = [n \in Name |-> 0]
    /\ heirs = {} /\ early = {}
    /\ modSearch \in BOOLEAN
    /\ open = TRUE

---------------------------------------------------------------------------
(* duk__require. *)

\* The exports of m are returned.
Give(m, whole, exports) == given' \in {given, [of |-> m, whole |-> whole, exports |-> exports]}

\* The cache knows the id: loaded, or being loaded.
RequireCached(id) ==
    /\ Runs
    /\ modLoaded[id] # None
    /\ LET m == modLoaded[id] IN Give(m, m \in done, mods[m].exports)
    /\ UNCHANGED <<loadVars, libVars, modSearch, open>>

\* It does not: a new module goes into the cache and modSearch is called.
RequireNew(id) ==
    /\ Runs
    /\ modLoaded[id] = None
    /\ Len(mods) < MaxLoads /\ Len(stack) < MaxDepth
    /\ mods' = Append(mods, NewModule(id))
    /\ modLoaded' = [modLoaded EXCEPT ![id] = Len(mods) + 1]
    /\ stack' = Append(stack, [mod |-> Len(mods) + 1, at |-> "search"])
    /\ UNCHANGED <<done, failed, throwing, given, libVars, modSearch, open>>

\* return_exports: module.exports as it is now.
ReturnExports(exports) ==
    /\ stack' = below
    /\ done' = done \cup {top.mod}
    /\ Give(top.mod, TRUE, exports)
    /\ UNCHANGED <<modLoaded, failed, throwing, modSearch, open>>

\* Fault: the entry is left in the cache.
deleteRethrowKeeps ==
    /\ open /\ throwing /\ stack # <<>> /\ top.at \notin hosts
    /\ failed' = failed \cup {top.mod}
    /\ mods' = IF me.lib = "init" THEN [mods EXCEPT ![top.mod].lib = "lost"] ELSE mods
    /\ stack' = below
    /\ UNCHANGED <<modLoaded, done, throwing, given, libVars, modSearch, open>>

\* delete_rethrow: the exception leaves this call; a library that was being initialized stays
\* open.  It does not leave the host program's code.
deleteRethrow ==
    /\ open /\ throwing /\ stack # <<>> /\ top.at \notin hosts
    /\ modLoaded' = [modLoaded EXCEPT ![me.id] = None]
    /\ failed' = failed \cup {top.mod}
    /\ mods' = IF me.lib = "init" THEN [mods EXCEPT ![top.mod].lib = "lost"] ELSE mods
    /\ stack' = below
    /\ UNCHANGED <<done, throwing, given, libVars, modSearch, open>>

\* A script or a module catches it, or a script ends with it.
Catch ==
    /\ open /\ throwing
    /\ stack # <<>> => top.at \in running
    /\ throwing' = FALSE
    /\ UNCHANGED <<stack, mods, modLoaded, done, failed, given, libVars, modSearch, open>>

\* The call fails while it is at a place.
Fails(place) ==
    /\ Goto(place)
    /\ throwing' = TRUE
    /\ UNCHANGED <<modLoaded, done, failed, given, modSearch, open>>

---------------------------------------------------------------------------
(* Duktape.modSearch. *)

\* There is no modSearch to call: mod_path did not make it a program.
NoModSearch ==
    /\ In("search") /\ ~modSearch
    /\ Fails("search")
    /\ UNCHANGED <<mods, libVars>>

\* readFile calls the host program's file reader,
ReadFile ==
    /\ In("search") /\ modSearch
    /\ Goto("reader")
    /\ UNCHANGED <<mods, modLoaded, done, failed, throwing, given, libVars, modSearch, open>>

\* which has the file: the module is JavaScript.
FoundSource ==
    /\ In("reader")
    /\ Goto("compile")
    /\ UNCHANGED <<mods, modLoaded, done, failed, throwing, given, libVars, modSearch, open>>

\* No such file, and the id says that it is one.
NoSuchFile ==
    /\ In("reader")
    /\ me.id.js
    /\ Fails("search")
    /\ UNCHANGED <<mods, libVars>>

\* Fault: looks for libraries whatever the id.
NoLibraryAtAll ==
    /\ In("reader")
    /\ Goto("loaders")
    /\ UNCHANGED <<mods, modLoaded, done, failed, throwing, given, libVars, modSearch, open>>

\* No such file.  loadAndInitDll: no library.
NoLibrary ==
    /\ In("reader")
    /\ ~me.id.js
    /\ Goto("loaders")
    /\ UNCHANGED <<mods, modLoaded, done, failed, throwing, given, libVars, modSearch, open>>

\* Fault: the library stays open.
NoInitFunctionOpen ==
    /\ In("reader")
    /\ ~me.id.js
    /\ Goto("loaders")
    /\ refs' = [refs EXCEPT ![me.id.name] = @ + 1]
    /\ UNCHANGED <<mods, modLoaded, done, failed, throwing, given, heirs, early, modSearch, open>>

\* A library without the function init_<id>: it is opened and closed again.
NoInitFunction ==
    /\ In("reader")
    /\ ~me.id.js
    /\ Goto("loaders")
    /\ refs' = [refs EXCEPT ![me.id.name] = (@ + 1) - 1]
    /\ UNCHANGED <<mods, modLoaded, done, failed, throwing, given, heirs, early, modSearch, open>>

\* Its function is called.
InitLibrary ==
    /\ In("reader")
    /\ ~me.id.js
    /\ Goto("init")
    /\ mods' = [mods EXCEPT ![top.mod].lib = "init"]
    /\ refs' = [refs EXCEPT ![me.id.name] = @ + 1]
    /\ UNCHANGED <<modLoaded, done, failed, throwing, given, heirs, early, modSearch, open>>

\* It returns an object, which gets a finalizer that closes the library, and is the module.
InitReturns ==
    /\ In("init")
    /\ mods' = [mods EXCEPT ![top.mod].lib = "held", ![top.mod].exports = "other"]
    /\ ReturnExports("other")
    /\ UNCHANGED libVars

\* It returns something else, which can have no finalizer: an exception.
InitReturnsNoObject ==
    /\ In("init")
    /\ Fails("search")
    /\ mods' = [mods EXCEPT ![top.mod].lib = "lost"]
    /\ UNCHANGED libVars

\* loadNativeModule: one of the host program's loaders makes the module,
LoaderReturns ==
    /\ In("loaders")
    /\ mods' = [mods EXCEPT ![top.mod].exports = "other"]
    /\ ReturnExports("other")
    /\ UNCHANGED libVars

\* or none does.
NotFound ==
    /\ In("loaders")
    /\ Fails("search")
    /\ UNCHANGED <<mods, libVars>>

---------------------------------------------------------------------------
(* The module's code. *)

\* Fault: an error of the compiler leaves the call without delete_rethrow.
CompileFailsKeeps ==
    /\ In("compile")
    /\ stack' = below
    /\ throwing' = TRUE
    /\ UNCHANGED <<mods, modLoaded, done, failed, given, libVars, modSearch, open>>

CompileFails ==
    /\ In("compile")
    /\ Fails("compile")
    /\ UNCHANGED <<mods, libVars>>

Evaluate ==
    /\ In("compile")
    /\ Goto("run")
    /\ UNCHANGED <<mods, modLoaded, done, failed, throwing, given, libVars, modSearch, open>>

\* module.exports = ...
SetExports ==
    /\ In("run")
    /\ mods' = [mods EXCEPT ![top.mod].exports = "other"]
    /\ UNCHANGED <<stack, modLoaded, done, failed, throwing, given, libVars, modSearch, open>>

\* Fault: the module's first table of exports is returned.
FinishTable ==
    /\ In("run")
    /\ ReturnExports("table")
    /\ UNCHANGED <<mods, libVars>>

Finish ==
    /\ In("run")
    /\ ReturnExports(me.exports)
    /\ UNCHANGED <<mods, libVars>>

\* Module code, or a library's function, throws.
Throws(place) ==
    /\ In(place)
    /\ Fails(place)
    /\ UNCHANGED <<mods, libVars>>

---------------------------------------------------------------------------
(* The objects of libraries. *)

dlclose(n, times) == refs' = [refs EXCEPT ![n] = IF @ > times THEN @ - times ELSE 0]

\* Object.create(require(...)): the new object inherits the finalizer,
Inherit(m) ==
    /\ Runs
    /\ mods[m].lib = "held" /\ m \notin early
    /\ heirs' = heirs \cup {m}
    /\ UNCHANGED <<loadVars, given, refs, early, modSearch, open>>

\* which runs when it is collected: unloadDll closes the library.
unloadDll(m) ==
    /\ Runs
    /\ m \in heirs
    /\ heirs' = heirs \ {m}
    /\ early' = early \cup {m}
    /\ dlclose(mods[m].id.name, 1)
    /\ UNCHANGED <<loadVars, given, modSearch, open>>

Held(n) == {m \in DOMAIN mods : mods[m].id.name = n /\ mods[m].lib = "held"}

\* js_destroy_env runs all finalizers; the cache keeps the objects of libraries until then.
js_destroy_env ==
    /\ Runs /\ stack = <<>>
    /\ open' = FALSE
    /\ LET closes(n) == Cardinality(Held(n)) + Cardinality(Held(n) \cap heirs)
       IN refs' = [n \in Name |-> IF refs[n] > closes(n) THEN refs[n] - closes(n) ELSE 0]
    /\ mods' = [m \in DOMAIN mods |->
                  IF mods[m].lib = "held" THEN [mods[m] EXCEPT !.lib = "closed"] ELSE mods[m]]
    /\ early' = early \cup heirs
    /\ heirs' = {}
    /\ UNCHANGED <<stack, modLoaded, done, failed, throwing, given, modSearch>>

---------------------------------------------------------------------------

Search ==
    \/ NoModSearch \/ ReadFile \/ FoundSource \/ NoSuchFile
    \/ NoLibrary \/ NoInitFunction \/ InitLibrary \/ InitReturns \/ InitReturnsNoObject
    \/ LoaderReturns \/ NotFound

Code ==
    \/ CompileFails \/ Evaluate \/ SetExports \/ Finish
    \/ \E place \in {"run", "init"} : Throws(place)
    \/ Catch \/ deleteRethrow

Libraries ==
    \/ \E m \in DOMAIN mods : Inherit(m) \/ unloadDll(m)
    \/ js_destroy_env

Next ==
    \/ \E id \in Id : RequireCached(id) \/ RequireNew(id)
    \/ Search \/ Code \/ Libraries

Spec == Init /\ [][Next]_vars

---------------------------------------------------------------------------

\* Types; only ids without ".js" get as far as libraries and loaders.
TypeOK ==
    /\ stack \in Seq(Frame)
    /\ mods \in Seq(Module)
    /\ Len(mods) <= MaxLoads
    /\ modLoaded \in [Id -> Mod \cup {None}]
    /\ done \subseteq Mod /\ failed \subseteq Mod
    /\ throwing \in BOOLEAN /\ modSearch \in BOOLEAN /\ open \in BOOLEAN
    /\ given \in Use
    /\ given.of \in DOMAIN mods \cup {None}
    /\ refs \in [Name -> Nat]
    /\ heirs \subseteq Mod /\ early \subseteq Mod
    /\ \A i \in DOMAIN stack :
         /\ stack[i].mod \in DOMAIN mods
         /\ stack[i].at \in {"init", "loaders"} => ~mods[stack[i].mod].id.js

\* The cache has exactly the modules whose loading has not failed, each under its own id: one
\* that is loading is there for circular requires, one that failed is not found again, and
\* no id is ever loaded twice side by side ("called only once even if you require it
\* multi-times", README.md:215).
OneCopy ==
    \A m \in DOMAIN mods : m \notin failed <=> modLoaded[mods[m].id] = m

\* Whoever was given a module that was complete has what everybody gets who asks now: the
\* cached module, with its last exports.
RequirersAgree ==
    given.whole =>
        /\ modLoaded[mods[given.of].id] = given.of
        /\ given.exports = mods[given.of].exports

\* What require() answers from the cache is complete, or its loading is in progress at this
\* very moment: whoever asks, a module in a circle, a script or a function of a module that was
\* loaded long ago, sees incomplete exports only while a call that will complete or remove
\* them is under way ("loading has already begun without finishing", duk_module_duktape.c:228),
\* never what an abandoned load has left.
PartialOnlyWhileLoading ==
    \A id \in Id : modLoaded[id] # None =>
        modLoaded[id] \in done \/ \E i \in DOMAIN stack : stack[i].mod = modLoaded[id]

\* A library is open as often as it is in use or was lost by an initialization that failed:
\* while its module is in the cache its code is mapped.  An object that inherits from the
\* module's breaks this.
OpenLibs(n) == {m \in DOMAIN mods : mods[m].id.name = n /\ mods[m].lib \in {"init", "held", "lost"}}
LibrariesBalanced ==
    \A n \in Name :
        (\A m \in early : mods[m].id.name # n) => refs[n] = Cardinality(OpenLibs(n))
================================================================================
