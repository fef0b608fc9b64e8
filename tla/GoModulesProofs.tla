---------------------------- MODULE GoModulesProofs ----------------------------
(***************************************************************************)
(* Theorems about GoModules, for any goroutines, addresses and numbers of  *)
(* keys and methods.                                                       *)
(*                                                                         *)
(* The inductive invariant has three parts besides the types.  TableOK is  *)
(* about the pool alone: what is past the next key is unused, and modules  *)
(* do not share methods.  HeapOK ties the objects to the pool.  EnvOK ties *)
(* the environments to the pool and the objects to their environment; the  *)
(* map is only known to be in order if nobody raced for it.                *)
(***************************************************************************)
EXTENDS GoModules, TLAPS

USE BoundAssumption, NilAssumption

IsModule(m) == table[m].kind = "module"

TableOK ==
    /\ \A k \in Key : k >= next => table[k] = Absent
    /\ \A m \in Key : IsModule(m) =>
         /\ table[m] = Module(table[m].methods)
         /\ \A k \in table[m].methods : table[k] = Method
    /\ \A m, n \in Key : IsModule(m) /\ IsModule(n) /\ m # n =>
         \A k \in table[m].methods : k \notin table[n].methods
    /\ \A k \in Key : table[k].kind = "method" =>
         \E m \in Key : IsModule(m) /\ k \in table[m].methods

HeapOK ==
    /\ \A o \in heap :
         /\ o.mod < next
         /\ IsModule(o.mod) => table[o.mod] = Module(o.methods)
         /\ Live(o) /\ o.mod \notin early => IsModule(o.mod)
    /\ \A o, u \in heap : o.mod = u.mod => o = u
    /\ dead = "no" => \A k \in Key :
         IsModule(k) => k \in lost \/ \E o \in heap : Live(o) /\ o.mod = k

Running == {"add", "remember", "open", "forget", "closing"}

EnvOK ==
    /\ \A p \in Proc : at[p] = "none" => keys[p] = {}
    /\ \A p \in Proc : at[p] # "none" => addr[p] \in Addr
    /\ \A p, q \in Proc : at[p] \in Running /\ at[q] \in Running /\ addr[p] = addr[q] => p = q
    /\ \A p \in Proc : \A k \in keys[p] : k < next /\ table[k] = Loader(addr[p])
    /\ \A p, q \in Proc : \A k \in keys[p] : k \in keys[q] => p = q
    /\ \A k \in Key : table[k].kind = "loader" => \E p \in Proc : k \in keys[p]

\* What holds as long as nobody races for the map.
MapOK ==
    /\ \A p \in Proc : at[p] = "open" => first[addr[p]] \in keys[p]
    /\ \A p \in Proc : at[p] = "add" /\ keys[p] # {} => first[addr[p]] \in keys[p]
    /\ \A p \in Proc : at[p] = "closing" => first[addr[p]] = Nil
    /\ \A o \in heap : \E p \in Proc :
         at[p] \in {"open", "forget", "closing"} /\ addr[p] = o.addr /\ o.udd \in keys[p]
    /\ OnlyHeirsPanic

IInv == TypeOK /\ TableOK /\ HeapOK /\ EnvOK /\ (~raced => MapOK)

------------------------------------------------------------------------------
(* What steps do to the table. *)

\* A struct's keys are new, and leave the others alone.
LEMMA CreateTable ==
    ASSUME TypeOK, TableOK, NEW n \in 0..MaxMethods, createMethodKeys(n)
    PROVE  /\ table' \in [Key -> Entry] /\ next' \in 1..(MaxKeys + 1) /\ next < next'
           /\ modKeyOf(n) \in Key /\ next <= modKeyOf(n) /\ modKeyOf(n) < next'
           /\ methodKeysOf(n) \subseteq Key
           /\ \A k \in methodKeysOf(n) : next <= k
           /\ table'[modKeyOf(n)] = Module(methodKeysOf(n))
           /\ \A k \in Key : k < next => table'[k] = table[k]
           /\ \A k \in Key : k >= next /\ table'[k].kind = "module" => k = modKeyOf(n)
           /\ \A k \in Key : table'[k].kind = "loader" => k < next
           /\ TableOK'
<1> DEFINE ms == methodKeysOf(n)
<1> DEFINE mod == modKeyOf(n)
<1>1. next \in Nat /\ next >= 1 /\ n \in Nat
  BY DEF TypeOK
<1>2. /\ mod \in Key /\ mod = next + n
      /\ next' = mod + 1
      /\ \A k \in Int : k \in ms <=> next <= k /\ k < mod
      /\ ms \subseteq Key
  BY <1>1 DEF createMethodKeys, modKeyOf, methodKeysOf, Key
<1>3. Module(ms) \in Entry /\ Method \in Entry
  BY <1>2 DEF Module, Method, Entry
<1>4. table' = [k \in Key |-> IF k \in ms THEN Method ELSE IF k = mod THEN Module(ms) ELSE table[k]]
  BY DEF createMethodKeys
<1> HIDE DEF ms, mod
<1>5. table' \in [Key -> Entry]
  BY <1>3, <1>4 DEF TypeOK
<1>6. /\ table'[mod] = Module(ms)
      /\ \A k \in ms : table'[k] = Method
      /\ \A k \in Key : k < next => table'[k] = table[k]
      /\ \A k \in Key : k >= next /\ k \notin ms /\ k # mod => table'[k] = Absent
  BY <1>1, <1>2, <1>4 DEF TableOK, Key
<1>7. /\ Module(ms).kind = "module" /\ Module(ms).methods = ms
      /\ Method.kind = "method" /\ Absent.kind = "none"
  BY DEF Module, Method, Absent
<1>8. \A k \in Key : k >= next /\ table'[k].kind = "module" => k = mod
  BY <1>6, <1>7
<1>9. \A k \in Key : table'[k].kind = "loader" => k < next
  BY <1>1, <1>6, <1>7 DEF Key
<1>10. \A k \in Key : k < next /\ table[k].kind = "module" =>
          \A j \in table[k].methods : j \in Key /\ j < next
  <2>1. SUFFICES ASSUME NEW k \in Key, table[k].kind = "module", NEW j \in table[k].methods
                 PROVE  j \in Key /\ j < next
    OBVIOUS
  <2>2. j \in Key /\ table[j] = Method
    BY <2>1 DEF TypeOK, TableOK, IsModule, Entry
  <2> QED
    BY <1>1, <1>7, <2>2 DEF TableOK, Key
<1>11. (\A k \in Key : k >= next => table[k] = Absent)'
  BY <1>1, <1>2, <1>6 DEF Key
<1>12. (\A m \in Key : IsModule(m) =>
          /\ table[m] = Module(table[m].methods)
          /\ \A k \in table[m].methods : table[k] = Method)'
  <2>1. SUFFICES ASSUME NEW m \in Key, table'[m].kind = "module"
                 PROVE  /\ table'[m] = Module(table'[m].methods)
                        /\ \A k \in table'[m].methods : table'[k] = Method
    BY DEF IsModule
  <2>2. CASE m = mod
    BY <1>6, <1>7, <2>2
  <2>3. CASE m < next
    BY <1>6, <1>10, <2>1, <2>3 DEF TableOK, IsModule
  <2> QED
    BY <1>1, <1>8, <2>1, <2>2, <2>3 DEF Key
<1>13. (\A m, l \in Key : IsModule(m) /\ IsModule(l) /\ m # l =>
          \A k \in table[m].methods : k \notin table[l].methods)'
  <2>1. SUFFICES ASSUME NEW m \in Key, NEW l \in Key, m # l,
                        table'[m].kind = "module", table'[l].kind = "module",
                        NEW k \in table'[m].methods, k \in table'[l].methods
                 PROVE  FALSE
    BY DEF IsModule
  <2>2. \A j \in Key : j \in ms => ~(j < next)
    BY <1>1, <1>2 DEF Key
  <2>3. CASE m < next /\ l < next
    BY <1>6, <2>1, <2>3 DEF TableOK, IsModule
  <2>4. CASE m = mod /\ l < next
    BY <1>6, <1>7, <1>10, <2>1, <2>2, <2>4
  <2>5. CASE l = mod /\ m < next
    BY <1>6, <1>7, <1>10, <2>1, <2>2, <2>5
  <2> QED
    BY <1>1, <1>8, <2>1, <2>3, <2>4, <2>5 DEF Key
<1>14. (\A k \in Key : table[k].kind = "method" =>
          \E m \in Key : IsModule(m) /\ k \in table[m].methods)'
  <2>1. SUFFICES ASSUME NEW k \in Key, table'[k].kind = "method"
                 PROVE  \E m \in Key : table'[m].kind = "module" /\ k \in table'[m].methods
    BY DEF IsModule
  <2>2. CASE k < next
    <3>1. PICK m \in Key : table[m].kind = "module" /\ k \in table[m].methods
      BY <1>6, <2>1, <2>2 DEF TableOK, IsModule
    <3>2. m < next
      BY <1>1, <1>7, <3>1 DEF TableOK, Key
    <3> QED
      BY <1>6, <3>1, <3>2
  <2>3. CASE k \in ms
    BY <1>2, <1>6, <1>7, <2>3
  <2> QED
    BY <1>1, <1>6, <1>7, <2>1, <2>2, <2>3 DEF Key
<1> QED
  BY <1>1, <1>2, <1>5, <1>6, <1>8, <1>9, <1>11, <1>12, <1>13, <1>14 DEF TableOK, ms, mod, Key

\* Removing a module takes its methods' keys, and no others.
LEMMA RemoveTable ==
    ASSUME TypeOK, TableOK, NEW m \in Key, removeModule(m), next' = next
    PROVE  /\ table' \in [Key -> Entry]
           /\ table'[m].kind # "module"
           /\ \A k \in Key : table[k].kind \notin {"module", "method"} => table'[k] = table[k]
           /\ \A k \in Key : IsModule(k) /\ k # m => table'[k] = table[k]
           /\ \A k \in Key : table'[k] # table[k] => table'[k] = Absent
           /\ TableOK'
<1>1. CASE ~IsModule(m)
  <2>1. table' = table
    BY <1>1 DEF removeModule, IsModule
  <2>2. TableOK'
    BY <2>1 DEF TableOK, IsModule
  <2> QED
    BY <1>1, <2>1, <2>2 DEF IsModule, TypeOK
<1> SUFFICES ASSUME IsModule(m)
             PROVE  /\ table' \in [Key -> Entry]
                    /\ table'[m].kind # "module"
                    /\ \A k \in Key : table[k].kind \notin {"module", "method"} => table'[k] = table[k]
                    /\ \A k \in Key : IsModule(k) /\ k # m => table'[k] = table[k]
                    /\ \A k \in Key : table'[k] # table[k] => table'[k] = Absent
                    /\ TableOK'
  BY <1>1
<1>2. table' = [k \in Key |-> IF k = m \/ k \in table[m].methods THEN Absent ELSE table[k]]
  BY DEF removeModule, IsModule
<1>3. Absent \in Entry /\ Absent.kind = "none" /\ Method.kind = "method"
  BY DEF Absent, Method, Entry
<1>4. table' \in [Key -> Entry]
  BY <1>2, <1>3 DEF TypeOK
<1>5. \A k \in Key : table'[k] = IF k = m \/ k \in table[m].methods THEN Absent ELSE table[k]
  BY <1>2
<1>6. \A k \in table[m].methods : k \in Key /\ table[k] = Method
  BY DEF TypeOK, TableOK, IsModule, Entry
<1>7. \A k \in Key : table[k].kind # "method" /\ k # m => table'[k] = table[k]
  BY <1>3, <1>5, <1>6
<1>8. table'[m] = Absent /\ \A k \in Key : table'[k] # table[k] => table'[k] = Absent
  BY <1>5
<1>9. \A k \in Key : table'[k].kind = "module" => IsModule(k) /\ k # m /\ table'[k] = table[k]
  BY <1>3, <1>8 DEF IsModule
<1>10. (\A k \in Key : k >= next => table[k] = Absent)'
  BY <1>8 DEF TableOK
<1>11. (\A k \in Key : IsModule(k) =>
          /\ table[k] = Module(table[k].methods)
          /\ \A j \in table[k].methods : table[j] = Method)'
  <2>1. SUFFICES ASSUME NEW k \in Key, table'[k].kind = "module"
                 PROVE  /\ table'[k] = Module(table'[k].methods)
                        /\ \A j \in table'[k].methods : table'[j] = Method
    BY DEF IsModule
  <2>2. IsModule(k) /\ k # m /\ table'[k] = table[k]
    BY <1>9, <2>1
  <2>3. ASSUME NEW j \in table[k].methods PROVE table'[j] = Method
    <3>1. j \in Key /\ table[j] = Method
      BY <2>2, <2>3 DEF TypeOK, TableOK, IsModule, Entry
    <3>2. j # m
      BY <1>3, <3>1 DEF IsModule
    <3>3. j \notin table[m].methods
      BY <2>2, <2>3 DEF TableOK
    <3> QED
      BY <1>5, <3>1, <3>2, <3>3
  <2> QED
    BY <2>2, <2>3 DEF TableOK
<1>12. (\A k, l \in Key : IsModule(k) /\ IsModule(l) /\ k # l =>
          \A j \in table[k].methods : j \notin table[l].methods)'
  BY <1>9 DEF TableOK, IsModule
<1>13. (\A k \in Key : table[k].kind = "method" =>
          \E l \in Key : IsModule(l) /\ k \in table[l].methods)'
  <2>1. SUFFICES ASSUME NEW k \in Key, table'[k].kind = "method"
                 PROVE  \E l \in Key : table'[l].kind = "module" /\ k \in table'[l].methods
    BY DEF IsModule
  <2>2. table'[k] = table[k]
    BY <1>3, <1>8, <2>1
  <2>3. PICK l \in Key : IsModule(l) /\ k \in table[l].methods
    BY <2>1, <2>2 DEF TableOK
  <2>4. l # m
    BY <1>3, <1>5, <2>1, <2>3
  <2>5. table'[l] = table[l]
    BY <1>7, <2>3, <2>4 DEF IsModule
  <2> QED
    BY <2>3, <2>5 DEF IsModule
<1>14. TableOK'
  BY <1>10, <1>11, <1>12, <1>13 DEF TableOK
<1> QED
  BY <1>3, <1>4, <1>7, <1>8, <1>14 DEF IsModule

\* A loader's key is new.
LEMMA AddLoader ==
    ASSUME TypeOK, TableOK, NEW a \in Addr, next <= MaxKeys,
           table' = [table EXCEPT ![next] = Loader(a)], next' = next + 1
    PROVE  /\ next \in Key /\ next' \in 1..(MaxKeys + 1)
           /\ table' \in [Key -> Entry]
           /\ table'[next] = Loader(a)
           /\ \A k \in Key : k # next => table'[k] = table[k]
           /\ table[next] = Absent
           /\ TableOK'
<1>1. next \in Key /\ next \in Nat /\ next' \in 1..(MaxKeys + 1)
  BY DEF TypeOK, Key
<1>2. Loader(a) \in Entry /\ Loader(a).kind = "loader" /\ Loader(a).methods = {}
  BY DEF Loader, Entry
<1>3. /\ table' \in [Key -> Entry]
      /\ table'[next] = Loader(a)
      /\ \A k \in Key : k # next => table'[k] = table[k]
  BY <1>1, <1>2 DEF TypeOK
<1>4. table[next] = Absent /\ Absent.kind = "none" /\ Method.kind = "method"
  <2>1. next >= next
    BY <1>1
  <2>2. table[next] = Absent
    BY <1>1, <2>1 DEF TableOK
  <2> QED
    BY <2>2 DEF Absent, Method
<1>5. \A m \in Key : IsModule(m) => m # next /\ \A k \in table[m].methods : k \in Key /\ k # next
  BY <1>4 DEF TypeOK, TableOK, IsModule, Entry
<1>6. \A m \in Key : table'[m].kind = "module" => IsModule(m) /\ table'[m] = table[m]
  BY <1>2, <1>3 DEF IsModule
<1>7. (\A k \in Key : k >= next => table[k] = Absent)'
  BY <1>1, <1>3 DEF TableOK, Key
<1>8. (\A m \in Key : IsModule(m) =>
          /\ table[m] = Module(table[m].methods)
          /\ \A k \in table[m].methods : table[k] = Method)'
  BY <1>3, <1>5, <1>6 DEF TableOK, IsModule
<1>9. (\A m, l \in Key : IsModule(m) /\ IsModule(l) /\ m # l =>
          \A k \in table[m].methods : k \notin table[l].methods)'
  BY <1>6 DEF TableOK, IsModule
<1>10. (\A k \in Key : table[k].kind = "method" =>
          \E m \in Key : IsModule(m) /\ k \in table[m].methods)'
  <2>1. SUFFICES ASSUME NEW k \in Key, table'[k].kind = "method"
                 PROVE  \E l \in Key : table'[l].kind = "module" /\ k \in table'[l].methods
    BY DEF IsModule
  <2>2. PICK l \in Key : IsModule(l) /\ k \in table[l].methods
    BY <1>2, <1>3, <2>1 DEF TableOK
  <2> QED
    BY <1>3, <1>5, <2>2 DEF IsModule
<1> QED
  BY <1>1, <1>3, <1>4, <1>7, <1>8, <1>9, <1>10 DEF TableOK, IsModule

\* A loader's key is given back.
LEMMA RemoveLoader ==
    ASSUME TypeOK, TableOK, NEW u \in Key, table[u].kind = "loader",
           table' = [table EXCEPT ![u] = Absent], next' = next
    PROVE  /\ table' \in [Key -> Entry]
           /\ table'[u] = Absent
           /\ \A k \in Key : k # u => table'[k] = table[k]
           /\ TableOK'
<1>1. Absent \in Entry /\ Absent.kind = "none" /\ Absent.methods = {} /\ Method.kind = "method"
  BY DEF Absent, Method, Entry
<1>2. /\ table' \in [Key -> Entry]
      /\ table'[u] = Absent
      /\ \A k \in Key : k # u => table'[k] = table[k]
  BY <1>1 DEF TypeOK
<1>3. \A m \in Key : IsModule(m) => m # u /\ \A k \in table[m].methods : k \in Key /\ k # u
  BY <1>1 DEF TypeOK, TableOK, IsModule, Entry
<1>4. \A m \in Key : table'[m].kind = "module" => IsModule(m) /\ table'[m] = table[m]
  BY <1>1, <1>2 DEF IsModule
<1>5. (\A k \in Key : k >= next => table[k] = Absent)'
  BY <1>2 DEF TableOK
<1>6. (\A m \in Key : IsModule(m) =>
          /\ table[m] = Module(table[m].methods)
          /\ \A k \in table[m].methods : table[k] = Method)'
  BY <1>2, <1>3, <1>4 DEF TableOK, IsModule
<1>7. (\A m, l \in Key : IsModule(m) /\ IsModule(l) /\ m # l =>
          \A k \in table[m].methods : k \notin table[l].methods)'
  BY <1>4 DEF TableOK, IsModule
<1>8. (\A k \in Key : table[k].kind = "method" =>
          \E m \in Key : IsModule(m) /\ k \in table[m].methods)'
  <2>1. SUFFICES ASSUME NEW k \in Key, table'[k].kind = "method"
                 PROVE  \E l \in Key : table'[l].kind = "module" /\ k \in table'[l].methods
    BY DEF IsModule
  <2>2. PICK l \in Key : IsModule(l) /\ k \in table[l].methods
    BY <1>1, <1>2, <2>1 DEF TableOK
  <2> QED
    BY <1>2, <1>3, <2>2 DEF IsModule
<1> QED
  BY <1>2, <1>5, <1>6, <1>7, <1>8 DEF TableOK, IsModule

------------------------------------------------------------------------------
(* The life of an environment. *)

\* The address is nobody else's.
LEMMA NewEnvStep == ASSUME IInv, NEW p \in Proc, NewEnv(p) PROVE IInv'
<1> USE DEF NewEnv, At, Goto, heapVars
<1>1. PICK a \in Addr : /\ \A q \in Proc : addr[q] = a => at[q] = "freed"
                        /\ addr' = [addr EXCEPT ![p] = a]
  OBVIOUS
<1>2. at[p] = "none" /\ keys[p] = {} /\ at' = [at EXCEPT ![p] = "add"]
  BY DEF IInv, EnvOK
<1>3. TypeOK'
  BY <1>1 DEF IInv, TypeOK
<1>4. TableOK' /\ HeapOK'
  BY DEF IInv, TableOK, HeapOK, IsModule, Live
<1>5. EnvOK'
  BY <1>1, <1>2 DEF IInv, EnvOK, TypeOK, Running
<1>6. (~raced => MapOK)'
  BY <1>1, <1>2 DEF IInv, MapOK, OnlyHeirsPanic, TypeOK
<1> QED
  BY <1>3, <1>4, <1>5, <1>6 DEF IInv

\* The new key is past all others.
LEMMA AddLoaderStep == ASSUME IInv, NEW p \in Proc, addGoModuleLoader(p) PROVE IInv'
<1> USE DEF addGoModuleLoader, At, Goto, heapVars
<1>1. at[p] = "add" /\ addr[p] \in Addr /\ next <= MaxKeys
  BY DEF IInv, EnvOK
<1>2. /\ table' = [table EXCEPT ![next] = Loader(addr[p])]
      /\ next' = next + 1
      /\ keys' = [keys EXCEPT ![p] = @ \cup {next}]
      /\ UNCHANGED <<addr, first, heap, held, lost, early, dead>>
  OBVIOUS
<1>3. \/ keys[p] = {} /\ at' = [at EXCEPT ![p] = "remember"]
      \/ keys[p] # {} /\ at' = [at EXCEPT ![p] = "open"]
  OBVIOUS
<1>4. raced' \in BOOLEAN /\ (~raced' => ~raced)
  BY DEF UseMap, Conflict, IInv, TypeOK
<1>5. /\ next \in Key /\ next' \in 1..(MaxKeys + 1)
      /\ table' \in [Key -> Entry]
      /\ table'[next] = Loader(addr[p])
      /\ \A k \in Key : k # next => table'[k] = table[k]
      /\ table[next] = Absent
      /\ TableOK'
  BY <1>1, <1>2, AddLoader DEF IInv
<1>6. next \in Nat /\ next' = next + 1
  BY <1>2, <1>5 DEF Key
<1>7. Absent.kind = "none" /\ Loader(addr[p]).kind = "loader"
  BY DEF Absent, Loader
<1>8. TypeOK'
  BY <1>2, <1>3, <1>4, <1>5 DEF IInv, TypeOK
<1>9. HeapOK'
  <2>1. \A o \in heap : o.mod \in Key /\ o.mod < next /\ o.mod # next
    BY <1>6 DEF IInv, TypeOK, HeapOK, Object, Key
  <2>2. \A k \in Key : IsModule(k)' => IsModule(k) /\ k # next /\ table'[k] = table[k]
    BY <1>5, <1>7 DEF IsModule
  <2>3. (\A o \in heap :
            /\ o.mod < next
            /\ IsModule(o.mod) => table[o.mod] = Module(o.methods)
            /\ Live(o) /\ o.mod \notin early => IsModule(o.mod))'
    BY <1>2, <1>5, <1>6, <2>1 DEF IInv, HeapOK, IsModule, Live, Key
  <2> QED
    BY <1>2, <2>2, <2>3 DEF IInv, HeapOK, Live
<1>10. EnvOK'
  <2>1. \A q \in Proc : \A k \in keys[q] : k \in Key /\ k < next /\ k # next /\ table'[k] = table[k]
    BY <1>5, <1>6 DEF IInv, EnvOK, TypeOK, Key
  <2>2. \A q \in Proc : keys'[q] = IF q = p THEN keys[p] \cup {next} ELSE keys[q]
    BY <1>2 DEF IInv, TypeOK
  <2>3. \A q \in Proc : at'[q] = IF q = p THEN at'[p] ELSE at[q]
    BY <1>3 DEF IInv, TypeOK
  <2>4. at'[p] \in {"remember", "open"}
    BY <1>3 DEF IInv, TypeOK
  <2>5. (\A q \in Proc : \A k \in keys[q] : k < next /\ table[k] = Loader(addr[q]))'
    BY <1>2, <1>5, <1>6, <2>1, <2>2 DEF IInv, EnvOK, Key
  <2>6. (\A q, r \in Proc : \A k \in keys[q] : k \in keys[r] => q = r)'
    BY <2>1, <2>2 DEF IInv, EnvOK
  <2>7. (\A k \in Key : table[k].kind = "loader" => \E q \in Proc : k \in keys[q])'
    BY <1>5, <2>2 DEF IInv, EnvOK
  <2>8. (\A q, r \in Proc : at[q] \in Running /\ at[r] \in Running /\ addr[q] = addr[r] => q = r)'
    BY <1>1, <1>2, <2>3, <2>4 DEF IInv, EnvOK, Running
  <2>9. (\A q \in Proc : at[q] = "none" => keys[q] = {})' /\ (\A q \in Proc : at[q] # "none" => addr[q] \in Addr)'
    BY <1>1, <1>2, <2>2, <2>3, <2>4 DEF IInv, EnvOK
  <2> QED
    BY <2>5, <2>6, <2>7, <2>8, <2>9 DEF EnvOK
<1>11. ASSUME ~raced' PROVE MapOK'
  <2>1. MapOK
    BY <1>4, <1>11 DEF IInv
  <2>2. \A q \in Proc : q # p => at'[q] = at[q] /\ keys'[q] = keys[q]
    BY <1>2, <1>3 DEF IInv, TypeOK
  <2>3. keys[p] \subseteq keys'[p] /\ at'[p] \in {"remember", "open"} /\ (at'[p] = "open" => keys[p] # {})
    BY <1>2, <1>3 DEF IInv, TypeOK
  <2> QED
    BY <1>1, <1>2, <2>1, <2>2, <2>3 DEF MapOK, OnlyHeirsPanic
<1> QED
  BY <1>5, <1>8, <1>9, <1>10, <1>11 DEF IInv

\* Only the environment's own entry of the map changes: no other that runs has its address.
LEMMA RememberStep == ASSUME IInv, NEW p \in Proc, RememberFirst(p) PROVE IInv'
<1> USE DEF RememberFirst, At, Goto, heapVars
<1>1. at[p] = "remember" /\ addr[p] \in Addr
  BY DEF IInv, EnvOK
<1>2. PICK place \in {"add", "open"} : at' = [at EXCEPT ![p] = place]
  OBVIOUS
<1>3. \/ \E k \in keys[p] : first' = [first EXCEPT ![addr[p]] = k]
      \/ raced /\ first' = first
  OBVIOUS
<1>4. UNCHANGED <<addr, keys, table, next, heap, held, lost, early, raced, dead>>
  OBVIOUS
<1>5. TypeOK'
  BY <1>1, <1>2, <1>3, <1>4 DEF IInv, TypeOK
<1>6. TableOK' /\ HeapOK'
  BY <1>4 DEF IInv, TableOK, HeapOK, IsModule, Live
<1>7. EnvOK'
  BY <1>1, <1>2, <1>4 DEF IInv, EnvOK, TypeOK, Running
<1>8. ASSUME ~raced' PROVE MapOK'
  <2>1. MapOK /\ ~raced
    BY <1>4, <1>8 DEF IInv
  <2>2. first'[addr[p]] \in keys[p] /\ \A a \in Addr : a # addr[p] => first'[a] = first[a]
    BY <1>1, <1>3, <2>1 DEF IInv, TypeOK
  <2>3. \A q \in Proc : q # p => at'[q] = at[q]
    BY <1>2 DEF IInv, TypeOK
  <2>4. at'[p] \in {"add", "open"}
    BY <1>2 DEF IInv, TypeOK
  <2>5. \A q \in Proc : q # p /\ at[q] \in Running => addr[q] \in Addr /\ addr[q] # addr[p]
    BY <1>1 DEF IInv, EnvOK, Running
  <2> QED
    BY <1>1, <1>4, <2>1, <2>2, <2>3, <2>4, <2>5 DEF MapOK, OnlyHeirsPanic, Running
<1> QED
  BY <1>5, <1>6, <1>7, <1>8 DEF IInv

\* Nothing but the place in the environment's life changes.
LEMMA DestroyStep == ASSUME IInv, NEW p \in Proc, Destroy(p) PROVE IInv'
<1> USE DEF Destroy, At, Goto, heapVars
<1>1. at[p] = "open" /\ at' = [at EXCEPT ![p] = "forget"]
  OBVIOUS
<1>2. raced' \in BOOLEAN /\ (~raced' => ~raced)
  BY DEF UseMap, Conflict, IInv, TypeOK
<1>3. UNCHANGED <<addr, keys, first, table, next, heap, held, lost, early, dead>>
  OBVIOUS
<1>4. TypeOK'
  BY <1>1, <1>2, <1>3 DEF IInv, TypeOK
<1>5. TableOK' /\ HeapOK'
  BY <1>3 DEF IInv, TableOK, HeapOK, IsModule, Live
<1>6. EnvOK'
  BY <1>1, <1>3 DEF IInv, EnvOK, TypeOK, Running
<1>7. ASSUME ~raced' PROVE MapOK'
  <2>1. MapOK
    BY <1>2, <1>7 DEF IInv
  <2> QED
    BY <1>1, <1>3, <2>1 DEF MapOK, OnlyHeirsPanic, IInv, TypeOK
<1> QED
  BY <1>4, <1>5, <1>6, <1>7 DEF IInv

\* Only the environment's own entry of the map is deleted.
LEMMA ForgetStep == ASSUME IInv, NEW p \in Proc, ForgetFirst(p) PROVE IInv'
<1> USE DEF ForgetFirst, At, Goto, heapVars
<1>1. at[p] = "forget" /\ at' = [at EXCEPT ![p] = "closing"] /\ addr[p] \in Addr
  BY DEF IInv, EnvOK
<1>2. first' = [first EXCEPT ![addr[p]] = Nil] \/ (raced /\ first' = first)
  OBVIOUS
<1>3. UNCHANGED <<addr, keys, table, next, heap, held, lost, early, raced, dead>>
  OBVIOUS
<1>4. TypeOK'
  BY <1>1, <1>2, <1>3 DEF IInv, TypeOK
<1>5. TableOK' /\ HeapOK'
  BY <1>3 DEF IInv, TableOK, HeapOK, IsModule, Live
<1>6. EnvOK'
  BY <1>1, <1>3 DEF IInv, EnvOK, TypeOK, Running
<1>7. ASSUME ~raced' PROVE MapOK'
  <2>1. MapOK /\ ~raced
    BY <1>3, <1>7 DEF IInv
  <2>2. first'[addr[p]] = Nil /\ \A a \in Addr : a # addr[p] => first'[a] = first[a]
    BY <1>1, <1>2, <2>1 DEF IInv, TypeOK
  <2>3. at'[p] = "closing" /\ \A q \in Proc : q # p => at'[q] = at[q]
    BY <1>1 DEF IInv, TypeOK
  <2>4. \A q \in Proc : q # p /\ at[q] \in Running => addr[q] \in Addr /\ addr[q] # addr[p]
    BY <1>1 DEF IInv, EnvOK, Running
  <2> QED
    BY <1>1, <1>3, <2>1, <2>2, <2>3, <2>4 DEF MapOK, OnlyHeirsPanic, Running
<1> QED
  BY <1>4, <1>5, <1>6, <1>7 DEF IInv

\* The objects that are left are those of other environments.
LEMMA HeapDestroyedStep == ASSUME IInv, NEW p \in Proc, js_destroy_env(p) PROVE IInv'
<1> USE DEF js_destroy_env, At, Goto
<1>1. at[p] = "closing" /\ at' = [at EXCEPT ![p] = "freed"]
  OBVIOUS
<1>2. UNCHANGED <<addr, keys, first, table, next, heap, lost, early, raced, dead>> /\ held' \subseteq held
  OBVIOUS
<1>3. TypeOK'
  BY <1>1, <1>2 DEF IInv, TypeOK
<1>4. TableOK' /\ HeapOK'
  BY <1>2 DEF IInv, TableOK, HeapOK, IsModule, Live
<1>5. EnvOK'
  BY <1>1, <1>2 DEF IInv, EnvOK, TypeOK, Running
<1>6. ASSUME ~raced' PROVE MapOK'
  <2>1. MapOK
    BY <1>2, <1>6 DEF IInv
  <2>2. at'[p] = "freed" /\ \A q \in Proc : q # p => at'[q] = at[q]
    BY <1>1 DEF IInv, TypeOK
  <2>3. \A o \in heap : o.addr # addr[p]
    OBVIOUS
  <2> QED
    BY <1>2, <2>1, <2>2, <2>3 DEF MapOK, OnlyHeirsPanic
<1> QED
  BY <1>3, <1>4, <1>5, <1>6 DEF IInv

\* A freed environment's key is no object's loader.
LEMMA RemoveLoaderStep == ASSUME IInv, NEW p \in Proc, removeModuleLoader(p) PROVE IInv'
<1> USE DEF removeModuleLoader, At, heapVars
<1>1. PICK u \in keys[p] :
        /\ table' = [table EXCEPT ![u] = Absent]
        /\ keys' = [keys EXCEPT ![p] = @ \ {u}]
        /\ IF keys[p] = {u}
             THEN Goto(p, "none") /\ addr' = [addr EXCEPT ![p] = Nil]
             ELSE UNCHANGED <<at, addr>>
  BY DEF RemoveLoaderKey
<1>2. UNCHANGED <<first, next, heap, held, lost, early, raced, dead>> /\ at[p] = "freed"
  OBVIOUS
<1>3. u \in Key /\ table[u] = Loader(addr[p])
  BY DEF IInv, TypeOK, EnvOK
<1>4. table[u].kind = "loader" /\ Absent.kind = "none"
  BY <1>3 DEF Loader, Absent
<1>5. /\ table' \in [Key -> Entry]
      /\ table'[u] = Absent
      /\ \A k \in Key : k # u => table'[k] = table[k]
      /\ TableOK'
  BY <1>1, <1>2, <1>3, <1>4, RemoveLoader DEF IInv
<1>6. \A q \in Proc : keys'[q] = IF q = p THEN keys[p] \ {u} ELSE keys[q]
  BY <1>1 DEF IInv, TypeOK
<1>7. \A q \in Proc : q # p => at'[q] = at[q] /\ addr'[q] = addr[q]
  BY <1>1 DEF IInv, TypeOK, Goto
<1>8. \/ at'[p] = "none" /\ keys'[p] = {}
      \/ at'[p] = "freed" /\ addr'[p] = addr[p]
  BY <1>1, <1>2, <1>6 DEF IInv, TypeOK, Goto
<1>9. TypeOK'
  <2>1. keys' \in [Proc -> SUBSET Key]
    BY <1>1 DEF IInv, TypeOK
  <2>2. at' \in [Proc -> {"none", "add", "remember", "open", "forget", "closing", "freed"}]
    BY <1>1 DEF IInv, TypeOK, Goto
  <2>3. addr' \in [Proc -> Addr \cup {Nil}]
    BY <1>1 DEF IInv, TypeOK
  <2> QED
    BY <1>2, <1>5, <2>1, <2>2, <2>3 DEF IInv, TypeOK
<1>10. HeapOK'
  <2>1. \A k \in Key : IsModule(k)' <=> IsModule(k)
    BY <1>4, <1>5 DEF IsModule
  <2>2. \A k \in Key : IsModule(k) => table'[k] = table[k]
    BY <1>4, <1>5 DEF IsModule
  <2>3. \A o \in heap : o.mod \in Key
    BY DEF IInv, TypeOK, Object
  <2> QED
    BY <1>2, <2>1, <2>2, <2>3 DEF IInv, HeapOK, Live
<1>11. EnvOK'
  <2>1. \A q \in Proc : \A k \in keys'[q] : k \in keys[q] /\ k \in Key /\ k # u /\ table'[k] = table[k]
    BY <1>5, <1>6 DEF IInv, EnvOK, TypeOK
  <2>2. (\A q \in Proc : \A k \in keys[q] : k < next /\ table[k] = Loader(addr[q]))'
    BY <1>2, <1>7, <1>8, <2>1 DEF IInv, EnvOK
  <2>3. (\A k \in Key : table[k].kind = "loader" => \E q \in Proc : k \in keys[q])'
    BY <1>4, <1>5, <1>6 DEF IInv, EnvOK
  <2>4. (\A q, r \in Proc : \A k \in keys[q] : k \in keys[r] => q = r)'
    BY <2>1 DEF IInv, EnvOK
  <2>5. (\A q, r \in Proc : at[q] \in Running /\ at[r] \in Running /\ addr[q] = addr[r] => q = r)'
    BY <1>7, <1>8 DEF IInv, EnvOK, Running
  <2>6. (\A q \in Proc : at[q] = "none" => keys[q] = {})' /\ (\A q \in Proc : at[q] # "none" => addr[q] \in Addr)'
    BY <1>2, <1>6, <1>7, <1>8 DEF IInv, EnvOK
  <2> QED
    BY <2>2, <2>3, <2>4, <2>5, <2>6 DEF EnvOK
<1>12. ASSUME ~raced' PROVE MapOK'
  <2>1. MapOK
    BY <1>2, <1>12 DEF IInv
  <2> QED
    BY <1>2, <1>6, <1>7, <1>8, <2>1 DEF MapOK, OnlyHeirsPanic
<1> QED
  BY <1>5, <1>9, <1>10, <1>11, <1>12 DEF IInv

------------------------------------------------------------------------------
(* Modules and structs. *)

\* New keys do not disturb the environments.
LEMMA CreateEnv ==
    ASSUME IInv, NEW n \in 0..MaxMethods, createMethodKeys(n), UNCHANGED envVars
    PROVE  EnvOK'
<1>1. /\ next < next' /\ next \in Nat /\ next' \in Nat
      /\ \A k \in Key : k < next => table'[k] = table[k]
      /\ \A k \in Key : table'[k].kind = "loader" => k < next
  BY CreateTable DEF IInv, TypeOK
<1>2. \A p \in Proc : \A k \in keys[p] : k \in Key /\ k \in Nat /\ k < next' /\ table'[k] = table[k]
  BY <1>1 DEF IInv, TypeOK, EnvOK, Key
<1>3. \A k \in Key : table'[k].kind = "loader" => table[k].kind = "loader"
  BY <1>1
<1> QED
  BY <1>2, <1>3 DEF IInv, EnvOK, Running, envVars

\* New keys, for an object or for none: the heap stays in order.
LEMMA CreateHeap ==
    ASSUME IInv, NEW n \in 0..MaxMethods, createMethodKeys(n), NEW p \in Proc, NEW u \in Key,
           addr[p] \in Addr, early' = early,
           \/ /\ heap' = heap \cup {[addr |-> addr[p], mod |-> modKeyOf(n), udd |-> u,
                                     methods |-> methodKeysOf(n), left |-> {"self"}]}
              /\ lost' = lost
           \/ heap' = heap /\ lost' = lost /\ dead' = "panic"
           \/ heap' = heap /\ lost' = lost \cup {modKeyOf(n)},
           dead' \in {"no", "panic", "race"}, dead' = "no" => dead = "no"
    PROVE  heap' \subseteq Object /\ lost' \subseteq Key /\ HeapOK'
<1> DEFINE ms == methodKeysOf(n)
<1> DEFINE mod == modKeyOf(n)
<1> DEFINE obj == [addr |-> addr[p], mod |-> mod, udd |-> u, methods |-> ms, left |-> {"self"}]
<1>1. /\ next < next' /\ next \in Nat /\ next' \in Nat
      /\ mod \in Key /\ mod \in Nat /\ next <= mod /\ mod < next' /\ ms \subseteq Key
      /\ table'[mod] = Module(ms)
      /\ \A k \in Key : k < next => table'[k] = table[k]
      /\ \A k \in Key : k >= next /\ table'[k].kind = "module" => k = mod
  BY CreateTable DEF IInv, TypeOK, Key
<1>2. obj \in Object /\ obj.mod = mod /\ obj.methods = ms /\ obj.left = {"self"}
  BY <1>1 DEF Object
<1>3. \/ heap' = heap \cup {obj} /\ lost' = lost
      \/ heap' = heap /\ lost' = lost /\ dead' = "panic"
      \/ heap' = heap /\ lost' = lost \cup {mod}
  OBVIOUS
<1> HIDE DEF ms, mod, obj
<1>4. heap' \subseteq Object /\ lost' \subseteq Key
  BY <1>1, <1>2, <1>3 DEF IInv, TypeOK
<1>5. \A o \in heap : o.mod \in Key /\ o.mod \in Nat /\ o.mod < next /\ table'[o.mod] = table[o.mod]
  BY <1>1 DEF IInv, HeapOK, TypeOK, Object, Key
<1>6. table'[mod].kind = "module"
  BY <1>1 DEF Module
<1>7. (\A o \in heap :
          /\ o.mod < next
          /\ IsModule(o.mod) => table[o.mod] = Module(o.methods)
          /\ Live(o) /\ o.mod \notin early => IsModule(o.mod))'
  <2>1. SUFFICES ASSUME NEW o \in heap'
                 PROVE  /\ o.mod < next'
                        /\ IsModule(o.mod)' => table'[o.mod] = Module(o.methods)
                        /\ Live(o) /\ o.mod \notin early => IsModule(o.mod)'
    BY DEF Live
  <2>2. CASE o \in heap
    <3>1. o.mod < next'
      BY <1>1, <1>5, <2>2
    <3> QED
      BY <1>5, <2>2, <3>1 DEF IInv, HeapOK, IsModule, Live
  <2>3. CASE o = obj
    BY <1>1, <1>2, <1>6, <2>3 DEF IsModule
  <2> QED
    BY <1>3, <2>2, <2>3
<1>8. (\A o, v \in heap : o.mod = v.mod => o = v)'
  <2>1. \A o \in heap : o.mod # mod
    BY <1>1, <1>5
  <2> QED
    BY <1>2, <1>3, <2>1 DEF IInv, HeapOK
<1>9. (dead = "no" => \A k \in Key :
          IsModule(k) => k \in lost \/ \E o \in heap : Live(o) /\ o.mod = k)'
  <2>1. SUFFICES ASSUME dead' = "no", NEW k \in Key, IsModule(k)'
                 PROVE  k \in lost' \/ \E o \in heap' : "self" \in o.left /\ o.mod = k
    BY DEF Live
  <2>2. CASE k < next
    BY <1>1, <1>3, <2>1, <2>2 DEF IInv, HeapOK, IsModule, Live
  <2>3. CASE k = mod
    <3>1. CASE heap' = heap \cup {obj}
      BY <1>2, <2>3, <3>1
    <3>2. CASE lost' = lost \cup {mod}
      BY <2>3, <3>2
    <3> QED
      BY <1>3, <2>1, <3>1, <3>2
  <2> QED
    BY <1>1, <2>1, <2>2, <2>3 DEF IsModule, Key
<1> QED
  BY <1>4, <1>7, <1>8, <1>9 DEF HeapOK

\* The loader whose key is used is the environment's own.
LEMMA LoadStep == ASSUME IInv, NEW p \in Proc, go_loadModule(p) PROVE IInv'
<1> USE DEF go_loadModule, Runs, At
<1>1. PICK u \in keys[p], n \in 0..MaxMethods :
        table[u].kind = "loader" /\ createMethodKeys(n) /\ init_native_obj(p, n, u)
  OBVIOUS
<1>2. /\ UNCHANGED <<at, addr, keys, first, held, lost, early, raced>>
      /\ at[p] \in {"open", "closing"} /\ dead = "no"
  BY DEF envVars
<1>3. /\ heap' = heap \cup {[addr |-> addr[p], mod |-> modKeyOf(n), udd |-> u,
                              methods |-> methodKeysOf(n), left |-> {"self"}]}
      /\ dead' = dead
  BY <1>1 DEF init_native_obj
<1>4. u \in Key /\ addr[p] \in Addr
  BY <1>2 DEF IInv, TypeOK, EnvOK
<1>5. table' \in [Key -> Entry] /\ next' \in 1..(MaxKeys + 1) /\ TableOK'
  BY <1>1, CreateTable DEF IInv
<1>6. heap' \subseteq Object /\ HeapOK'
  BY <1>1, <1>2, <1>3, <1>4, CreateHeap
<1>7. EnvOK'
  BY <1>1, <1>2, CreateEnv DEF envVars
<1>8. TypeOK'
  BY <1>2, <1>3, <1>5, <1>6 DEF IInv, TypeOK
<1>9. (~raced => MapOK)'
  BY <1>2, <1>3 DEF IInv, MapOK, OnlyHeirsPanic
<1> QED
  BY <1>5, <1>6, <1>7, <1>8, <1>9 DEF IInv

\* Unless somebody raced for the map, the entry that is found is a loader's.
LEMMA PassStep == ASSUME IInv, NEW p \in Proc, go_createEcmascriptObject(p) PROVE IInv'
<1> USE DEF go_createEcmascriptObject, Runs, At
<1> DEFINE u == first[addr[p]]
<1>1. PICK n \in 0..MaxMethods :
        /\ createMethodKeys(n)
        /\ \/ /\ u = Nil \/ raced'
              /\ lost' = lost \cup {modKeyOf(n)} /\ UNCHANGED <<heap, dead>>
           \/ u # Nil /\ init_native_obj(p, n, u) /\ UNCHANGED lost
  OBVIOUS
<1>2. /\ UNCHANGED <<at, addr, keys, first, held, early>>
      /\ at[p] = "open" \/ at[p] = "closing"
      /\ dead = "no"
  BY DEF envVars
<1>3. raced' \in BOOLEAN /\ (~raced' => ~raced)
  BY DEF UseMap, Conflict, IInv, TypeOK
<1>4. addr[p] \in Addr /\ u \in Key \cup {Nil}
  BY <1>2 DEF IInv, TypeOK, EnvOK
<1>5. table' \in [Key -> Entry] /\ next' \in 1..(MaxKeys + 1) /\ TableOK'
  BY <1>1, CreateTable DEF IInv
<1>6. EnvOK'
  BY <1>1, <1>2, CreateEnv DEF envVars
<1> DEFINE obj == [addr |-> addr[p], mod |-> modKeyOf(n), udd |-> u,
                   methods |-> methodKeysOf(n), left |-> {"self"}]
<1>7. \/ /\ u = Nil \/ raced'
         /\ heap' = heap /\ lost' = lost \cup {modKeyOf(n)} /\ dead' = dead
      \/ u # Nil /\ heap' = heap \cup {obj} /\ lost' = lost /\ dead' = dead
      \/ u # Nil /\ table[u].kind # "loader" /\ heap' = heap /\ lost' = lost /\ dead' = "panic"
  BY <1>1 DEF init_native_obj
<1>8. heap' \subseteq Object /\ lost' \subseteq Key /\ HeapOK' /\ dead' \in {"no", "panic"}
  <2>1. next \in Key
    BY <1>1, CreateTable DEF IInv, TypeOK, Key
  <2>2. CASE u = Nil
    BY <1>1, <1>2, <1>4, <1>7, <2>1, <2>2, CreateHeap
  <2>3. CASE u # Nil
    BY <1>1, <1>2, <1>4, <1>7, <2>3, CreateHeap
  <2> QED
    BY <2>2, <2>3
<1>9. TypeOK'
  BY <1>2, <1>3, <1>5, <1>8 DEF IInv, TypeOK
<1>10. ASSUME ~raced' PROVE MapOK'
  <2>1. MapOK
    BY <1>3, <1>10 DEF IInv
  <2>2. CASE u = Nil
    BY <1>2, <1>7, <2>1, <2>2 DEF MapOK, OnlyHeirsPanic
  <2>3. CASE u # Nil
    <3>1. at[p] = "open" /\ u \in keys[p]
      BY <1>2, <2>1, <2>3 DEF MapOK
    <3>2. table[u].kind = "loader"
      <4>1. table[u] = Loader(addr[p])
        BY <3>1 DEF IInv, EnvOK
      <4> QED
        BY <4>1 DEF Loader
    <3>3. heap' = heap \cup {obj} /\ dead' = dead
      BY <1>7, <1>10, <2>3, <3>2
    <3>4. obj.addr = addr[p] /\ obj.udd = u
      OBVIOUS
    <3> HIDE DEF obj
    <3> QED
      BY <1>2, <2>1, <3>1, <3>3, <3>4 DEF MapOK, OnlyHeirsPanic
  <2> QED
    BY <2>2, <2>3
<1> QED
  BY <1>5, <1>6, <1>8, <1>9, <1>10 DEF IInv

\* The keys are lost.
LEMMA RefusedStep == ASSUME IInv, NEW p \in Proc, Refused(p) PROVE IInv'
<1> USE DEF Refused, Runs, At
<1>1. PICK n \in 0..MaxMethods : createMethodKeys(n) /\ lost' = lost \cup {modKeyOf(n)}
  OBVIOUS
<1>2. /\ UNCHANGED <<at, addr, keys, first, heap, held, early, raced, dead>>
      /\ at[p] # "none" /\ dead = "no"
  BY DEF envVars
<1>3. addr[p] \in Addr
  BY <1>2 DEF IInv, EnvOK
<1>4. table' \in [Key -> Entry] /\ next' \in 1..(MaxKeys + 1) /\ TableOK' /\ modKeyOf(n) \in Key
  BY <1>1, CreateTable DEF IInv
<1>5. lost' \subseteq Key /\ HeapOK'
  BY <1>1, <1>2, <1>3, <1>4, CreateHeap
<1>6. EnvOK'
  BY <1>1, <1>2, CreateEnv DEF envVars
<1>7. TypeOK'
  BY <1>2, <1>4, <1>5 DEF IInv, TypeOK
<1>8. (~raced => MapOK)'
  BY <1>2 DEF IInv, MapOK, OnlyHeirsPanic
<1> QED
  BY <1>4, <1>5, <1>6, <1>7, <1>8 DEF IInv

\* An heir does not change what its prototype has.
LEMMA InheritStep == ASSUME IInv, NEW p \in Proc, NEW o \in heap, Inherit(p, o) PROVE IInv'
<1> DEFINE new == [o EXCEPT !.left = {"self", "heir"}]
<1>1. /\ heap' = (heap \ {o}) \cup {new}
      /\ UNCHANGED <<at, addr, keys, first, table, next, held, lost, early, raced, dead>>
      /\ o.left = {"self"}
  BY DEF Inherit, envVars
<1>2. /\ new \in Object /\ new.addr = o.addr /\ new.mod = o.mod /\ new.udd = o.udd
      /\ new.methods = o.methods /\ "self" \in new.left
  BY DEF IInv, TypeOK, Object
<1> HIDE DEF new
<1>3. TypeOK'
  BY <1>1, <1>2 DEF IInv, TypeOK
<1>4. TableOK' /\ EnvOK'
  BY <1>1 DEF IInv, TableOK, IsModule, EnvOK, Running
<1>5. HeapOK'
  BY <1>1, <1>2 DEF IInv, HeapOK, IsModule, Live
<1>6. (~raced => MapOK)'
  BY <1>1, <1>2 DEF IInv, MapOK, OnlyHeirsPanic
<1> QED
  BY <1>3, <1>4, <1>5, <1>6 DEF IInv

\* To keep a method changes nothing else.
LEMMA KeepStep == ASSUME IInv, NEW p \in Proc, NEW o \in heap, Keep(p, o) PROVE IInv'
<1>1. PICK k \in o.methods : held' = held \cup {[addr |-> o.addr, mod |-> o.mod, key |-> k]}
  BY DEF Keep
<1>2. UNCHANGED <<at, addr, keys, first, table, next, heap, lost, early, raced, dead>>
  BY DEF Keep, envVars
<1>3. o.addr \in Addr /\ o.mod \in Key /\ k \in Key
  BY DEF IInv, TypeOK, Object
<1>4. TypeOK'
  BY <1>1, <1>2, <1>3 DEF IInv, TypeOK
<1> QED
  BY <1>2, <1>4 DEF IInv, TableOK, HeapOK, EnvOK, MapOK, OnlyHeirsPanic, IsModule, Live, Running

\* Only the object's own module is removed.  If it panics, it ran before, or runs for an heir.
LEMMA UnloadStep ==
    ASSUME IInv, NEW p \in Proc, NEW o \in heap, NEW who \in {"self", "heir"},
           unload_native_obj(p, o, who)
    PROVE  IInv'
<1> DEFINE rest == [o EXCEPT !.left = @ \ {who}]
<1>1. /\ UNCHANGED <<at, addr, keys, first, next, held, lost, raced>>
      /\ dead = "no" /\ who \in o.left
      /\ early' = IF who = "heir" THEN early \cup {o.mod} ELSE early
  BY DEF unload_native_obj, envVars, At
<1>2. \/ /\ table[o.mod].kind # "module"
         /\ dead' = "panic" /\ table' = table /\ heap' = heap
      \/ /\ removeModule(o.mod)
         /\ heap' = (heap \ {o}) \cup (IF o.left = {who} THEN {} ELSE {rest})
         /\ dead' = dead
  BY DEF unload_native_obj
<1>3. /\ rest \in Object /\ rest.addr = o.addr /\ rest.mod = o.mod /\ rest.udd = o.udd
      /\ rest.methods = o.methods /\ rest.left = o.left \ {who} /\ o.mod \in Key
  BY DEF IInv, TypeOK, Object
<1>4. early' \subseteq Key /\ early \subseteq early' /\ (who = "heir" => o.mod \in early')
  BY <1>1, <1>3 DEF IInv, TypeOK
<1> HIDE DEF rest
<1>5. CASE dead' = "panic" /\ table[o.mod].kind # "module" /\ table' = table /\ heap' = heap
  <2>1. TypeOK'
    BY <1>1, <1>4, <1>5 DEF IInv, TypeOK
  <2>2. TableOK' /\ EnvOK'
    BY <1>1, <1>5 DEF IInv, TableOK, IsModule, EnvOK, Running
  <2>3. HeapOK'
    BY <1>1, <1>4, <1>5 DEF IInv, HeapOK, IsModule, Live
  <2>4. early' # {}
    BY <1>1, <1>4, <1>5 DEF IInv, HeapOK, IsModule, Live
  <2>5. (~raced => MapOK)'
    BY <1>1, <1>5, <2>4 DEF IInv, MapOK, OnlyHeirsPanic
  <2> QED
    BY <2>1, <2>2, <2>3, <2>5 DEF IInv
<1>6. CASE /\ removeModule(o.mod)
           /\ heap' = (heap \ {o}) \cup (IF o.left = {who} THEN {} ELSE {rest})
           /\ dead' = dead
  <2>1. /\ table' \in [Key -> Entry]
        /\ table'[o.mod].kind # "module"
        /\ \A k \in Key : table[k].kind \notin {"module", "method"} => table'[k] = table[k]
        /\ \A k \in Key : IsModule(k) /\ k # o.mod => table'[k] = table[k]
        /\ \A k \in Key : table'[k] # table[k] => table'[k] = Absent
        /\ TableOK'
    BY <1>1, <1>3, <1>6, RemoveTable DEF IInv
  <2>2. Absent.kind = "none"
    BY DEF Absent
  <2>3. \A k \in Key : IsModule(k)' <=> IsModule(k) /\ k # o.mod
    BY <2>1, <2>2 DEF IsModule
  <2>4. \A v \in heap' : (v \in heap /\ v # o) \/ v = rest
    BY <1>6
  <2>5. \A v \in heap : v # o => v \in heap' /\ v.mod \in Key /\ v.mod # o.mod
    BY <1>6 DEF IInv, TypeOK, Object, HeapOK
  <2>6. TypeOK'
    <3>1. heap' \subseteq Object
      BY <1>3, <2>4 DEF IInv, TypeOK
    <3> QED
      BY <1>1, <1>4, <1>6, <2>1, <3>1 DEF IInv, TypeOK
  <2>7. HeapOK'
    <3>1. (\A v \in heap :
              /\ v.mod < next
              /\ IsModule(v.mod) => table[v.mod] = Module(v.methods)
              /\ Live(v) /\ v.mod \notin early => IsModule(v.mod))'
      <4>1. SUFFICES ASSUME NEW v \in heap'
                     PROVE  /\ v.mod < next
                            /\ IsModule(v.mod)' => table'[v.mod] = Module(v.methods)
                            /\ "self" \in v.left /\ v.mod \notin early' => IsModule(v.mod)'
        BY <1>1 DEF Live
      <4>2. CASE v \in heap /\ v # o
        <5>1. v.mod \in Key /\ v.mod # o.mod
          BY <2>5, <4>2
        <5> QED
          BY <1>4, <2>1, <2>3, <4>2, <5>1 DEF IInv, HeapOK, Live
      <4>3. CASE v = rest
        <5>1. "self" \in rest.left => who = "heir"
          BY <1>3
        <5> QED
          BY <1>3, <1>4, <2>1, <4>3, <5>1 DEF IInv, HeapOK, IsModule
      <4> QED
        BY <2>4, <4>2, <4>3
    <3>2. (\A v, w \in heap : v.mod = w.mod => v = w)'
      BY <1>3, <2>4, <2>5 DEF IInv, HeapOK
    <3>3. (dead = "no" => \A k \in Key :
              IsModule(k) => k \in lost \/ \E v \in heap : Live(v) /\ v.mod = k)'
      <4>1. SUFFICES ASSUME dead' = "no", NEW k \in Key, IsModule(k)'
                     PROVE  k \in lost \/ \E v \in heap' : "self" \in v.left /\ v.mod = k
        BY <1>1 DEF Live
      <4>2. IsModule(k) /\ k # o.mod
        BY <2>3, <4>1
      <4>3. k \in lost \/ \E v \in heap : "self" \in v.left /\ v.mod = k
        BY <1>1, <4>2 DEF IInv, HeapOK, Live
      <4> QED
        BY <2>5, <4>2, <4>3
    <3> QED
      BY <3>1, <3>2, <3>3 DEF HeapOK
  <2>8. EnvOK'
    <3>1. \A q \in Proc : \A k \in keys[q] : k \in Key /\ table'[k] = table[k]
      <4>1. SUFFICES ASSUME NEW q \in Proc, NEW k \in keys[q]
                     PROVE  k \in Key /\ table'[k] = table[k]
        OBVIOUS
      <4>2. k \in Key /\ table[k] = Loader(addr[q])
        BY DEF IInv, TypeOK, EnvOK
      <4>3. table[k].kind = "loader"
        BY <4>2 DEF Loader
      <4> QED
        BY <2>1, <4>2, <4>3
    <3>2. \A k \in Key : table'[k].kind = "loader" => table[k].kind = "loader"
      BY <2>1, <2>2
    <3> QED
      BY <1>1, <3>1, <3>2 DEF IInv, EnvOK, Running
  <2>9. (~raced => MapOK)'
    BY <1>1, <1>3, <1>4, <1>6, <2>4 DEF IInv, MapOK, OnlyHeirsPanic
  <2> QED
    BY <2>1, <2>6, <2>7, <2>8, <2>9 DEF IInv
<1> QED
  BY <1>2, <1>5, <1>6

------------------------------------------------------------------------------
(* The invariant, and what follows. *)

\* At first there are no environments, keys or objects.
LEMMA InitInv == Init => IInv
<1> SUFFICES ASSUME Init PROVE IInv
  OBVIOUS
<1> USE DEF Init
<1>1. Absent \in Entry /\ Absent.kind = "none"
  BY DEF Absent, Entry
<1>2. TypeOK
  <2>1. /\ at \in [Proc -> {"none", "add", "remember", "open", "forget", "closing", "freed"}]
        /\ addr \in [Proc -> Addr \cup {Nil}]
        /\ keys \in [Proc -> SUBSET Key]
        /\ first \in [Addr -> Key \cup {Nil}]
    OBVIOUS
  <2>2. table \in [Key -> Entry]
    BY <1>1
  <2>3. next \in 1..(MaxKeys + 1)
    OBVIOUS
  <2> QED
    BY <2>1, <2>2, <2>3 DEF TypeOK
<1>3. \A k \in Key : table[k] = Absent
  OBVIOUS
<1>4. TableOK
  BY <1>1, <1>3 DEF TableOK, IsModule
<1>5. HeapOK
  BY <1>1, <1>3 DEF HeapOK, IsModule
<1>6. EnvOK
  BY <1>1, <1>3 DEF EnvOK, Running
<1>7. MapOK
  BY DEF MapOK, OnlyHeirsPanic
<1> QED
  BY <1>2, <1>4, <1>5, <1>6, <1>7 DEF IInv

\* Every step keeps the invariant.
LEMMA NextInv == IInv /\ [Next]_vars => IInv'
<1> SUFFICES ASSUME IInv, [Next]_vars PROVE IInv'
  OBVIOUS
<1>1. ASSUME NEW p \in Proc, EnvStep(p) PROVE IInv'
  BY <1>1, NewEnvStep, AddLoaderStep, RememberStep, DestroyStep, ForgetStep,
     HeapDestroyedStep, RemoveLoaderStep DEF EnvStep
<1>2. ASSUME NEW p \in Proc, JsStep(p) PROVE IInv'
  BY <1>2, LoadStep, PassStep, RefusedStep, InheritStep, KeepStep, UnloadStep DEF JsStep
<1>3. CASE MapFatal
  <2>1. dead' = "race" /\ UNCHANGED <<at, addr, keys, first, table, next, heap, held, lost, early, raced>>
    BY <1>3 DEF MapFatal, envVars, heapVars
  <2>2. TypeOK'
    BY <2>1 DEF IInv, TypeOK
  <2>3. TableOK' /\ EnvOK'
    BY <2>1 DEF IInv, TableOK, IsModule, EnvOK, Running
  <2>4. HeapOK' /\ (~raced => MapOK)'
    BY <2>1 DEF IInv, HeapOK, IsModule, Live, MapOK, OnlyHeirsPanic
  <2> QED
    BY <2>2, <2>3, <2>4 DEF IInv
<1>4. CASE UNCHANGED vars
  BY <1>4 DEF vars, IInv, TypeOK, TableOK, HeapOK, EnvOK, MapOK, OnlyHeirsPanic, IsModule, Live, Running
<1> QED
  BY <1>1, <1>2, <1>3, <1>4 DEF Next

\* The invariant holds in every state.
THEOREM Invariance == Spec => []IInv
  BY InitInv, NextInv, PTL DEF Spec

\* Every variable keeps its type.
THEOREM Typing == Spec => []TypeOK
<1>1. IInv => TypeOK
  BY DEF IInv
<1> QED
  BY <1>1, Invariance, PTL

------------------------------------------------------------------------------
(* Methods that JavaScript keeps. *)

\* The key k was made for a method of the struct m: it leads there or nowhere.
Leads(m, k) ==
    /\ m < next /\ k < next
    /\ table[k] = Absent \/ (IsModule(m) /\ k \in table[m].methods)

KeptOK ==
    /\ \A o \in heap : \A k \in o.methods : Leads(o.mod, k)
    /\ \A h \in held : Leads(h.mod, h.key)

\* New keys are past it.
LEMMA CreateLeads ==
    ASSUME IInv, NEW n \in 0..MaxMethods, createMethodKeys(n), NEW m \in Key, NEW k \in Key, Leads(m, k)
    PROVE  Leads(m, k)'
<1>1. /\ next < next' /\ next \in Int /\ next' \in Int
      /\ \A i \in Key : i < next => table'[i] = table[i]
  BY CreateTable DEF IInv, TypeOK
<1> QED
  BY <1>1 DEF Leads, IsModule, Key

\* It goes together with its struct.
LEMMA RemoveLeads ==
    ASSUME IInv, NEW r \in Key, removeModule(r), next' = next, NEW m \in Key, NEW k \in Key, Leads(m, k)
    PROVE  Leads(m, k)'
<1>1. CASE ~IsModule(r)
  BY <1>1 DEF removeModule, IsModule, Leads
<1>2. CASE IsModule(r)
  <2>1. \A i \in Key : table'[i] = IF i = r \/ i \in table[r].methods THEN Absent ELSE table[i]
    BY <1>2 DEF removeModule, IsModule
  <2>2. CASE table[k] = Absent
    BY <2>1, <2>2 DEF Leads
  <2>3. CASE table[k] # Absent /\ m = r
    BY <2>1, <2>3 DEF Leads
  <2>4. CASE table[k] # Absent /\ m # r
    <3>1. \A i \in Key : IsModule(i) /\ i # r => table'[i] = table[i]
      BY RemoveTable DEF IInv
    <3> QED
      BY <2>4, <3>1 DEF Leads, IsModule
  <2> QED
    BY <2>2, <2>3, <2>4
<1> QED
  BY <1>1, <1>2

\* No step leads a key elsewhere.
LEMMA LeadsStep ==
    ASSUME IInv, [Next]_vars, NEW m \in Key, NEW k \in Key, Leads(m, k)
    PROVE  Leads(m, k)'
<1>1. CASE UNCHANGED <<table, next>>
  BY <1>1 DEF Leads, IsModule
<1>2. ASSUME NEW p \in Proc, EnvStep(p) PROVE Leads(m, k)'
  <2>1. CASE addGoModuleLoader(p)
    <3>1. at[p] = "add" /\ addr[p] \in Addr /\ next <= MaxKeys
      BY <2>1 DEF addGoModuleLoader, At, IInv, EnvOK
    <3>2. next \in Int /\ next' = next + 1 /\ \A i \in Key : i # next => table'[i] = table[i]
      BY <2>1, <3>1, AddLoader DEF addGoModuleLoader, IInv, TypeOK
    <3> QED
      BY <3>2 DEF Leads, IsModule, Key
  <2>2. CASE removeModuleLoader(p)
    <3>1. PICK u \in keys[p] : table' = [table EXCEPT ![u] = Absent] /\ next' = next
      BY <2>2 DEF removeModuleLoader, RemoveLoaderKey
    <3>2. u \in Key /\ table[u] = Loader(addr[p])
      BY DEF IInv, TypeOK, EnvOK
    <3>3. ~IsModule(u)
      BY <3>2 DEF IsModule, Loader
    <3>4. \A i \in Key : table'[i] = IF i = u THEN Absent ELSE table[i]
      BY <3>1 DEF IInv, TypeOK
    <3> QED
      BY <3>1, <3>3, <3>4 DEF Leads, IsModule
  <2> QED
    BY <1>1, <1>2, <2>1, <2>2
    DEF EnvStep, NewEnv, RememberFirst, Destroy, ForgetFirst, js_destroy_env
<1>3. ASSUME NEW p \in Proc, JsStep(p) PROVE Leads(m, k)'
  <2>1. CASE \E n \in 0..MaxMethods : createMethodKeys(n)
    BY <2>1, CreateLeads
  <2>2. ASSUME NEW o \in heap, NEW who \in {"self", "heir"}, unload_native_obj(p, o, who)
        PROVE  Leads(m, k)'
    <3>1. next' = next /\ (table' = table \/ removeModule(o.mod)) /\ o.mod \in Key
      BY <2>2 DEF unload_native_obj, IInv, TypeOK, Object
    <3> QED
      BY <1>1, <3>1, RemoveLeads
  <2> QED
    BY <1>1, <1>3, <2>1, <2>2
    DEF JsStep, go_loadModule, go_createEcmascriptObject, Refused, Inherit, Keep
<1>4. CASE MapFatal
  BY <1>1, <1>4 DEF MapFatal
<1> QED
  BY <1>1, <1>2, <1>3, <1>4 DEF Next, vars

\* Objects have the methods they were made with, and what is kept is a method of an object.
LEMMA KeptStep == ASSUME IInv, KeptOK, [Next]_vars PROVE KeptOK'
<1>0. /\ \A o \in heap : o.mod \in Key /\ o.methods \subseteq Key
      /\ \A h \in held : h.mod \in Key /\ h.key \in Key
  BY DEF IInv, TypeOK, Object
<1>1. /\ \A o \in heap : \A k \in o.methods : Leads(o.mod, k)'
      /\ \A h \in held : Leads(h.mod, h.key)'
  BY <1>0, LeadsStep DEF KeptOK
<1>2. ASSUME \A o \in heap' : \E u \in heap : u.mod = o.mod /\ u.methods = o.methods,
             held' \subseteq held
      PROVE  KeptOK'
  BY <1>1, <1>2 DEF KeptOK
<1>3. ASSUME NEW p \in Proc, EnvStep(p) PROVE KeptOK'
  <2>1. heap' = heap /\ held' \subseteq held
    BY <1>3 DEF EnvStep, NewEnv, addGoModuleLoader, RememberFirst, Destroy, ForgetFirst,
                js_destroy_env, removeModuleLoader, heapVars
  <2> QED
    BY <1>2, <2>1
<1>4. ASSUME NEW p \in Proc, NEW n \in 0..MaxMethods, NEW u, createMethodKeys(n), held' = held,
             heap' \subseteq heap \cup {[addr |-> addr[p], mod |-> modKeyOf(n), udd |-> u,
                                        methods |-> methodKeysOf(n), left |-> {"self"}]}
      PROVE  KeptOK'
  <2> DEFINE obj == [addr |-> addr[p], mod |-> modKeyOf(n), udd |-> u,
                     methods |-> methodKeysOf(n), left |-> {"self"}]
  <2>1. /\ modKeyOf(n) < next' /\ table'[modKeyOf(n)] = Module(methodKeysOf(n))
        /\ modKeyOf(n) \in Key /\ methodKeysOf(n) \subseteq Key
    BY <1>4, CreateTable DEF IInv
  <2>2. \A k \in methodKeysOf(n) : k < next'
    BY <1>4 DEF IInv, TypeOK, createMethodKeys, modKeyOf, methodKeysOf
  <2>3. ASSUME NEW m \in Key, m = modKeyOf(n), NEW k \in Key, k \in methodKeysOf(n)
        PROVE  Leads(m, k)'
    BY <2>1, <2>2, <2>3 DEF Leads, IsModule, Module
  <2>4. PICK new \in {obj} : heap' \subseteq heap \cup {new}
    BY <1>4
  <2>5. new.mod = modKeyOf(n) /\ new.methods = methodKeysOf(n)
    BY <2>4
  <2> HIDE DEF obj
  <2>6. \A k \in new.methods : Leads(new.mod, k)'
    BY <2>1, <2>3, <2>5
  <2> QED
    BY <1>1, <1>4, <2>4, <2>6 DEF KeptOK
<1>5. ASSUME NEW p \in Proc, JsStep(p) PROVE KeptOK'
  <2>1. CASE go_loadModule(p)
    BY <1>4, <2>1 DEF go_loadModule, init_native_obj
  <2>2. CASE go_createEcmascriptObject(p)
    BY <1>4, <2>2 DEF go_createEcmascriptObject, init_native_obj
  <2>3. CASE Refused(p)
    BY <1>4, <2>3 DEF Refused
  <2>4. ASSUME NEW o \in heap, Inherit(p, o) PROVE KeptOK'
    BY <1>0, <1>2, <2>4 DEF Inherit, IInv, TypeOK, Object
  <2>5. ASSUME NEW o \in heap, Keep(p, o) PROVE KeptOK'
    <3>1. PICK k \in o.methods : held' = held \cup {[addr |-> o.addr, mod |-> o.mod, key |-> k]}
      BY <2>5 DEF Keep
    <3>2. heap' = heap /\ \A h \in held' : h \in held \/ (h.mod = o.mod /\ h.key = k)
      BY <2>5, <3>1 DEF Keep
    <3> QED
      BY <1>1, <3>2 DEF KeptOK
  <2>6. ASSUME NEW o \in heap, NEW who \in {"self", "heir"}, unload_native_obj(p, o, who)
        PROVE  KeptOK'
    <3> DEFINE rest == [o EXCEPT !.left = @ \ {who}]
    <3>1. rest.mod = o.mod /\ rest.methods = o.methods
      BY DEF IInv, TypeOK, Object
    <3>2. held' = held /\ heap' \subseteq heap \cup {rest}
      BY <2>6 DEF unload_native_obj
    <3> HIDE DEF rest
    <3> QED
      BY <1>2, <3>1, <3>2
  <2> QED
    BY <1>5, <2>1, <2>2, <2>3, <2>4, <2>5, <2>6 DEF JsStep
<1>6. CASE MapFatal \/ UNCHANGED vars
  BY <1>2, <1>6 DEF MapFatal, heapVars, vars
<1> QED
  BY <1>3, <1>5, <1>6 DEF Next

\* What is kept leads to its struct for good.
THEOREM KeptInvariance == Spec => []KeptOK
<1>1. Init => KeptOK
  BY DEF Init, KeptOK
<1> QED
  BY <1>1, KeptStep, Invariance, PTL DEF Spec

------------------------------------------------------------------------------
(* The properties. *)

\* A live object's module and methods are in the pool, unless its finalizer ran for an heir;
\* a method that is kept leads to its own struct or nowhere.
THEOREM LiveObjectsKeepTheirKeys == Spec => []LiveObjectsHaveTheirKeys
<1>1. ASSUME IInv, NEW o \in heap, Live(o), o.mod \notin early PROVE HasItsKeys(o)
  <2>1. o.mod \in Key /\ IsModule(o.mod) /\ table[o.mod] = Module(o.methods)
    BY <1>1 DEF IInv, HeapOK, TypeOK, Object
  <2>2. table[o.mod].methods = o.methods
    BY <2>1 DEF Module
  <2> QED
    BY <1>1, <2>1, <2>2 DEF IInv, TableOK, HasItsKeys
<1>2. ASSUME IInv, KeptOK PROVE KeptMethodsAreTheirs
  <2> SUFFICES ASSUME NEW h \in held, table[h.key] # Absent
               PROVE  /\ table[h.key] = Method
                      /\ table[h.mod].kind = "module" /\ h.key \in table[h.mod].methods
    BY DEF KeptMethodsAreTheirs
  <2>1. h.mod \in Key /\ IsModule(h.mod) /\ h.key \in table[h.mod].methods
    BY <1>2 DEF IInv, TypeOK, KeptOK, Leads
  <2> QED
    BY <1>2, <2>1 DEF IInv, TableOK, IsModule
<1>3. IInv /\ KeptOK => LiveObjectsHaveTheirKeys
  BY <1>1, <1>2 DEF LiveObjectsHaveTheirKeys
<1> QED
  BY <1>3, Invariance, KeptInvariance, PTL

\* A finalizer finds the loader it was given, if nobody raced for the map.
THEOREM FinalizersAlwaysFindLoaders == Spec => []FinalizersFindTheirLoader
<1>1. IInv => FinalizersFindTheirLoader
  BY DEF IInv, MapOK, EnvOK, FinalizersFindTheirLoader
<1> QED
  BY <1>1, Invariance, PTL

\* An open environment's entry in the map is its own loader, if nobody raced for the map.
THEOREM FirstLoaderStaysMine == Spec => []FirstLoaderIsMine
<1>1. IInv => FirstLoaderIsMine
  BY DEF IInv, MapOK, EnvOK, FirstLoaderIsMine
<1> QED
  BY <1>1, Invariance, PTL

\* Every key in the pool belongs to an environment, an object, a module, or is lost.
THEOREM KeysAlwaysOwned == Spec => []KeysAreOwned
<1>1. IInv => KeysAreOwned
  BY DEF IInv, HeapOK, EnvOK, TableOK, IsModule, KeysAreOwned
<1> QED
  BY <1>1, Invariance, PTL

\* Without a race for the map, only a finalizer that also ran for an heir panics.
THEOREM OnlyHeirsEverPanic == Spec => []OnlyHeirsPanic
<1>1. IInv => OnlyHeirsPanic
  BY DEF IInv, MapOK, OnlyHeirsPanic
<1> QED
  BY <1>1, Invariance, PTL
==============================================================================
