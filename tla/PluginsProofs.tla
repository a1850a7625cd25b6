--------------------------- MODULE PluginsProofs ----------------------------
(***************************************************************************)
(* The handles of the plugin libraries, the code called through them, the  *)
(* search, the loading of settings and the exit functions, proved for      *)
(* every set of plugins, every directory and every number of stores.       *)
(***************************************************************************)
EXTENDS Plugins, FiniteSetTheorems, FunctionTheorems, TLAPS

-----------------------------------------------------------------------------
(* Sequences, and counting their places.                                   *)

LEMMA ElementIn ==
  ASSUME NEW S, NEW q \in Seq(S), NEW k \in 1 .. Len(q)
  PROVE  q[k] \in S
  OBVIOUS

LEMMA SeqExcept ==
  ASSUME NEW S, NEW q \in Seq(S), NEW k, NEW x, k \in DOMAIN q => x \in S
  PROVE  /\ [q EXCEPT ![k] = x] \in Seq(S) /\ Len([q EXCEPT ![k] = x]) = Len(q)
         /\ \A i \in 1 .. Len(q) : [q EXCEPT ![k] = x][i] = IF i = k THEN x ELSE q[i]
<1> DEFINE r == [q EXCEPT ![k] = x]
<1>1. DOMAIN q = 1 .. Len(q) /\ DOMAIN r = 1 .. Len(q) /\ Len(q) \in Nat
  OBVIOUS
<1>2. \A i \in 1 .. Len(q) : r[i] = IF i = k THEN x ELSE q[i]
  BY <1>1
<1>3. \A i \in 1 .. Len(q) : r[i] \in S
  BY <1>1, <1>2
<1>4. r = [i \in 1 .. Len(q) |-> r[i]]
  BY <1>1
<1> HIDE DEF r
<1>5. r \in [1 .. Len(q) -> S]
  BY <1>3, <1>4, Zenon
<1>6. r \in Seq(S) /\ Len(r) = Len(q)
  BY <1>1, <1>5
<1> QED BY <1>2, <1>6 DEF r

LEMMA SeqAppend ==
  ASSUME NEW S, NEW q \in Seq(S), NEW x \in S
  PROVE  /\ Append(q, x) \in Seq(S) /\ Len(Append(q, x)) = Len(q) + 1 /\ Len(q) \in Nat
         /\ \A i \in 1 .. Len(q) : Append(q, x)[i] = q[i]
         /\ Append(q, x)[Len(q) + 1] = x
  OBVIOUS

LEMMA AppendCases ==
  ASSUME NEW S, NEW q \in Seq(S), NEW x \in S
  PROVE  \A i \in 1 .. Len(Append(q, x)) :
           Append(q, x)[i] = x \/ (i \in 1 .. Len(q) /\ Append(q, x)[i] = q[i])
<1>1. /\ Len(Append(q, x)) = Len(q) + 1 /\ Len(q) \in Nat
      /\ \A i \in 1 .. Len(q) : Append(q, x)[i] = q[i]
      /\ Append(q, x)[Len(q) + 1] = x
  BY SeqAppend
<1> SUFFICES ASSUME NEW i \in 1 .. Len(q) + 1
            PROVE  Append(q, x)[i] = x \/ (i \in 1 .. Len(q) /\ Append(q, x)[i] = q[i])
  BY <1>1
<1>2. CASE i = Len(q) + 1
  BY <1>1, <1>2, Zenon
<1>3. CASE i # Len(q) + 1
  <2>1. i \in 1 .. Len(q)
    BY <1>1, <1>3
  <2> QED BY <1>1, <2>1
<1> QED BY <1>2, <1>3

LEMMA SeqTail ==
  ASSUME NEW S, NEW q \in Seq(S), q # << >>
  PROVE  /\ Tail(q) \in Seq(S) /\ Len(Tail(q)) = Len(q) - 1 /\ Len(Tail(q)) \in Nat
         /\ Head(q) = q[1] /\ Head(q) \in S /\ 1 \in 1 .. Len(q)
         /\ \A i \in 1 .. Len(Tail(q)) : i + 1 \in 1 .. Len(q) /\ Tail(q)[i] = q[i + 1]
  OBVIOUS

(* A set of places of a list.                                              *)
LEMMA PlacesFinite ==
  ASSUME NEW n \in Nat, NEW S \in SUBSET (1 .. n)
  PROVE  IsFiniteSet(S) /\ Cardinality(S) \in Nat /\ (Cardinality(S) = 0 <=> S = {})
<1>1. IsFiniteSet(1 .. n)
  BY FS_Interval
<1>2. IsFiniteSet(S)
  BY <1>1, FS_Subset
<1> QED
  BY <1>2, FS_CardinalityType, FS_EmptySet

(* The list has one more element at its end.                               *)
LEMMA CountAtEnd ==
  ASSUME NEW n \in Nat, NEW S \in SUBSET (1 .. n), NEW T \in SUBSET (1 .. n + 1),
         \A i \in 1 .. n : i \in S <=> i \in T
  PROVE  Cardinality(T) = Cardinality(S) + (IF n + 1 \in T THEN 1 ELSE 0)
<1>1. IsFiniteSet(S) /\ Cardinality(S) \in Nat
  BY PlacesFinite
<1>5. n + 1 \notin S
  BY 1 .. n = {i \in Nat : 1 <= i /\ i <= n}
<1>6. \A i \in T : i \in 1 .. n \/ i = n + 1
  OBVIOUS
<1>7. \A i \in S : i \in 1 .. n
  OBVIOUS
<1>2. CASE n + 1 \in T
  <2>1. T = S \cup {n + 1}
    BY <1>2, <1>6, <1>7
  <2> QED BY <1>1, <1>5, <1>2, <2>1, FS_AddElement
<1>3. CASE n + 1 \notin T
  <2>1. T = S
    BY <1>3, <1>6, <1>7
  <2> QED BY <1>1, <1>3, <2>1
<1> QED BY <1>2, <1>3

(* The list has one less at its head: places move down by one.             *)
LEMMA CountAtHead ==
  ASSUME NEW n \in Nat, NEW S \in SUBSET (1 .. n), NEW T \in SUBSET (1 .. n + 1),
         \A i \in 1 .. n : i \in S <=> i + 1 \in T
  PROVE  Cardinality(T) = Cardinality(S) + (IF 1 \in T THEN 1 ELSE 0)
<1> DEFINE U == T \ {1}
          f == [i \in S |-> i + 1]
<1>1. IsFiniteSet(S) /\ IsFiniteSet(T) /\ Cardinality(T) \in Nat
  BY PlacesFinite
<1>2. f \in Bijection(S, U)
  <2>1. \A u \in U : u - 1 \in S /\ f[u - 1] = u
    OBVIOUS
  <2>2. \A i \in S : f[i] \in U
    OBVIOUS
  <2>3. \A i, j \in S : f[i] = f[j] => i = j
    OBVIOUS
  <2> QED BY <2>1, <2>2, <2>3, Fun_IsBij
<1>3. Cardinality(U) = Cardinality(S)
  BY <1>1, <1>2, FS_Bijection DEF ExistsBijection
<1>4. Cardinality(U) = IF 1 \in T THEN Cardinality(T) - 1 ELSE Cardinality(T)
  BY <1>1, FS_RemoveElement
<1> QED BY <1>1, <1>3, <1>4

-----------------------------------------------------------------------------
(* The inductive invariants.                                               *)

(* The handles of f, and the modules of f that have an exit function.      *)
Handles(l, f) == {i \in 1 .. Len(l) : l[i] = f}
Exits(l, f) == {i \in 1 .. Len(l) : l[i].file = f /\ l[i].exit}
LoadsBefore(l, k) == {i \in 1 .. Len(l) : i < k /\ l[i].load}

(* The plugin whose init runs is in the directory and may have a module;   *)
(* the loop variables are places of the lists.                             *)
InitInv ==
  /\ s >= 1 /\ m >= 1 /\ (pc = "callback" => m <= Len(plugins))
  /\ pc # "init" => init = Nobody
  /\ pc = "init" => init.file \in Files /\ init.id \in 0 .. Len(plugins)

HandleCount ==
  /\ \A f \in Files : mapped[f] = Cardinality(Handles(libs, f)) + (IF init.file = f THEN 1 ELSE 0)
  /\ pc = "off" => libs = << >> /\ init = Nobody

HandleInv == TypeOK /\ InitInv /\ HandleCount

(* What is registered is in an open library; iam_exit has taken every hook *)
(* out of the lists before it closes the first library.                    *)
HooksMapped ==
  /\ \A f \in logs \cup algs : mapped[f] > 0
  /\ \A i \in 1 .. Len(stores) : mapped[stores[i].file] > 0
  /\ \A i \in 1 .. Len(plugins) : mapped[plugins[i].file] > 0
  /\ pc = "logger_exit" => algs = {}
  /\ pc \in {"plugin_exit", "off"} => algs = {} /\ logs = {} /\ stores = << >>
  /\ pc = "off" => plugins = << >>

MappedInv == HooksMapped /\ CodeMapped

(* The exit calls owed and the one init has asked for are those of the     *)
(* modules in the list.                                                    *)
Pending(f) == IF pc = "init" /\ init.exit /\ init.file = f THEN 1 ELSE 0

ExitInv ==
  /\ \A f \in Files : owed[f] + Pending(f) = Cardinality(Exits(plugins, f))
  /\ pc = "init" => /\ init.id \in 1 .. Len(plugins)
                    /\ plugins[init.id].file = init.file
                    /\ plugins[init.id].exit = init.exit

(* The search has read a prefix of the listing, and has opened the plugins *)
(* in it but for the entry it looks at next.                               *)
Searching == pc \in {"search", "init", "settings", "callback", "flush"}
Read == IF entry = NONE THEN Len(dir) ELSE Len(dir) - Len(unread) - 1

SearchInv ==
  Searching =>
    /\ dir \in Directories
    /\ Len(unread) <= Len(dir)
    /\ \A i \in 1 .. Len(unread) : unread[i] = dir[Len(dir) - Len(unread) + i]
    /\ entry = NONE => unread = << >>
    /\ entry # NONE => Len(unread) < Len(dir) /\ entry = dir[Len(dir) - Len(unread)]
    /\ pc \notin {"search", "init"} => entry = NONE
    /\ \A f \in Files : mapped[f] = IF \E i \in 1 .. Read : dir[i] = f THEN 1 ELSE 0

(* Module i has been loaded from the stores before s that load, and from   *)
(* store s when the inner loop has been there.                             *)
Visited(i) ==
  IF s <= Len(stores) /\ stores[s].load /\ (i < m \/ (i = m /\ pc = "callback"))
  THEN 1 ELSE 0

LoopInv ==
  /\ \A i \in 1 .. Len(plugins) :
       plugins[i].cb =>
         plugins[i].loads = plugins[i].calls + (IF pc = "callback" /\ i = m THEN 1 ELSE 0)
  /\ pc \in {"search", "init"} =>
       \A i \in 1 .. Len(plugins) : plugins[i].loads = 0 /\ plugins[i].calls = 0
  /\ pc \in {"settings", "callback"} =>
       /\ s \in 1 .. Len(stores) + 1 /\ m \in 1 .. Len(plugins) + 1
       /\ (s > Len(stores) \/ ~stores[s].load) => m = 1
       /\ \A i \in 1 .. Len(plugins) :
            plugins[i].loads = Cardinality(LoadsBefore(stores, s)) + Visited(i)
  /\ pc = "callback" => /\ s <= Len(stores) /\ stores[s].load
                        /\ m <= Len(plugins) /\ plugins[m].cb
  /\ pc = "flush" =>
       \A i \in 1 .. Len(plugins) :
         plugins[i].loads = Cardinality({j \in 1 .. Len(stores) : stores[j].load})

-----------------------------------------------------------------------------
(* Every step keeps the types.                                             *)

LEMMA TypeInit == Init => TypeOK /\ InitInv
<1> SUFFICES ASSUME Init PROVE TypeOK /\ InitInv
  OBVIOUS
<1>1. /\ plugins \in Seq(ModuleSet) /\ libs \in Seq(Files) /\ stores \in Seq(StoreSet)
      /\ dir \in Seq(Files \cup Others) /\ unread \in Seq(Files \cup Others)
  BY DEF Init
<1>2. mapped \in [Files -> Nat] /\ owed \in [Files -> Int]
  BY DEF Init
<1>3. Nobody \in [file : Files \cup {NONE}, id : Nat, exit : BOOLEAN]
  BY DEF Nobody
<1> QED BY <1>1, <1>2, <1>3 DEF Init, TypeOK, InitInv

(* The search moves on.                                                    *)
LEMMA TypeSearch ==
  ASSUME TypeOK, NextEntry
  PROVE  /\ dir' \in Seq(Files \cup Others) /\ unread' \in Seq(Files \cup Others)
         /\ entry' \in Files \cup Others \cup {NONE}
         /\ Name \in Files \cup Others
<1>1. unread \in Seq(Files \cup Others) /\ dir \in Seq(Files \cup Others)
  BY DEF TypeOK
<1>2. unread # << >> => Head(unread) \in Files \cup Others /\ Tail(unread) \in Seq(Files \cup Others)
  BY <1>1, SeqTail, Zenon
<1>3. entry \in Files \cup Others
  BY DEF TypeOK, NextEntry
<1> QED BY <1>1, <1>2, <1>3 DEF NextEntry, Name

(* The library of the plugin whose init runs, and those in the list, are   *)
(* open.                                                                   *)
LEMMA OpenHandles ==
  ASSUME TypeOK, HandleCount
  PROVE  /\ \A f \in Files : Cardinality(Handles(libs, f)) \in Nat
         /\ init.file \in Files => mapped[init.file] > 0
         /\ libs # << >> => mapped[Head(libs)] > 0
<1>1. libs \in Seq(Files) /\ Len(libs) \in Nat
  BY DEF TypeOK
<1>2. \A f \in Files : Handles(libs, f) \in SUBSET (1 .. Len(libs))
  BY DEF Handles
<1>3. \A f \in Files : /\ Cardinality(Handles(libs, f)) \in Nat
                       /\ Cardinality(Handles(libs, f)) = 0 => Handles(libs, f) = {}
  BY <1>1, <1>2, PlacesFinite
<1>4. ASSUME libs # << >> PROVE 1 \in Handles(libs, Head(libs)) /\ Head(libs) \in Files
  BY <1>1, <1>4, SeqTail DEF Handles
<1> QED BY <1>3, <1>4 DEF HandleCount

LEMMA TypeStep == TypeOK /\ InitInv /\ HandleCount /\ Next => TypeOK' /\ InitInv'
<1> SUFFICES ASSUME TypeOK, InitInv, HandleCount, Next PROVE TypeOK' /\ InitInv'
  OBVIOUS
<1> DEFINE Inits == [file : Files \cup {NONE}, id : Nat, exit : BOOLEAN]
<1>n. Nobody \in Inits
  BY DEF Nobody
<1>f. FaultAssumption /\ Faults \subseteq FaultKinds
  BY FaultAssumption
<1>i. pc = "init" => init.file \in Files /\ init \in Inits /\ init.id \in 0 .. Len(plugins)
  BY DEF TypeOK, InitInv
<1>1. CASE IamInit
  <2>1. \A d \in Seq(Files \cup Others) :
          d # << >> => Head(d) \in Files \cup Others /\ Tail(d) \in Seq(Files \cup Others)
    BY SeqTail, Zenon
  <2>2. dir' \in Seq(Files \cup Others) /\ unread' \in Seq(Files \cup Others)
        /\ entry' \in Files \cup Others \cup {NONE}
    BY <1>1, <2>1, DirectoryAssumption DEF IamInit, TypeOK, search
  <2>3. /\ plugins' = << >> /\ libs' = << >> /\ stores' = << >> /\ logs' = {} /\ algs' = {}
        /\ owed' = [f \in Files |-> 0]
        /\ UNCHANGED <<mapped, init, s, m, runs>>
    BY <1>1 DEF IamInit, loop
  <2>4. pc = "off" /\ pc' \in {"running", "search"} /\ status' \in FaultKinds \cup {"none"}
    BY <1>1 DEF IamInit, InitReturns, FaultKinds
  <2>5. plugins' \in Seq(ModuleSet) /\ libs' \in Seq(Files) /\ stores' \in Seq(StoreSet)
        /\ owed' \in [Files -> Int]
    BY <2>3
  <2>6. TypeOK'
    BY <2>2, <2>3, <2>4, <2>5 DEF TypeOK
  <2> QED BY <2>3, <2>4, <2>6 DEF InitInv
<1>2. CASE SkipEntry
  <2>1. UNCHANGED <<pc, status, plugins, libs, mapped, init, logs, algs, stores, s, m, runs, owed>>
    BY <1>2 DEF SkipEntry, hooks, loop
  <2>2. NextEntry
    BY <1>2 DEF SkipEntry
  <2> QED BY <2>1, <2>2, TypeSearch DEF TypeOK, InitInv
<1>3. CASE LoadFails
  <2>1. UNCHANGED <<plugins, libs, mapped, init, logs, algs, stores, s, m, runs, owed>>
    BY <1>3 DEF LoadFails, hooks, loop
  <2>2. NextEntry /\ pc = "search"
    BY <1>3 DEF LoadFails, NextEntry
  <2>3. pc' = "running" /\ status' \in FaultKinds
    BY <1>3, <1>f DEF LoadFails, InitReturns
  <2> QED BY <2>1, <2>2, <2>3, TypeSearch DEF TypeOK, InitInv
<1>4. CASE LoadBegins
  <2>1. /\ UNCHANGED <<status, libs, logs, algs, stores, s, m, owed>>
        /\ pc' = "init" /\ runs' = Name /\ Name \in Files
        /\ mapped' = [mapped EXCEPT ![Name] = @ + 1]
    BY <1>4 DEF LoadBegins, Open, hooks, loop
  <2>2. NextEntry
    BY <1>4 DEF LoadBegins
  <2>3. PICK e \in BOOLEAN :
          \/ /\ plugins' = Append(plugins, [file |-> Name, exit |-> e, cb |-> FALSE,
                                            loads |-> 0, calls |-> 0])
             /\ init' = [file |-> Name, id |-> Len(plugins'), exit |-> e]
          \/ /\ init' = [file |-> Name, id |-> 0, exit |-> e]
             /\ UNCHANGED plugins
    BY <1>4 DEF LoadBegins
  <2>4. [file |-> Name, exit |-> e, cb |-> FALSE, loads |-> 0, calls |-> 0] \in ModuleSet
    BY <2>1 DEF ModuleSet
  <2>5. plugins \in Seq(ModuleSet)
    BY DEF TypeOK
  <2>6. plugins' \in Seq(ModuleSet) /\ Len(plugins') \in Nat
    BY <2>3, <2>4, <2>5
  <2>7. init' \in Inits /\ init'.file \in Files /\ init'.id \in 0 .. Len(plugins')
    BY <2>1, <2>3, <2>6
  <2>8. mapped' \in [Files -> Nat]
    BY <2>1 DEF TypeOK
  <2>9. TypeOK'
    BY <2>1, <2>2, <2>6, <2>7, <2>8, TypeSearch DEF TypeOK
  <2> QED BY <2>1, <2>7, <2>9 DEF InitInv
<1>5. CASE RegLog
  <2>1. UNCHANGED <<pc, status, dir, unread, entry, plugins, libs, mapped, init, algs, stores, s, m, runs, owed>> /\ pc = "init" /\ logs' = logs \cup {init.file}
    BY <1>5 DEF RegLog, Registers, search, loop
  <2>2. logs' \subseteq Files
    BY <1>i, <2>1 DEF TypeOK
  <2> QED BY <2>1, <2>2, Zenon DEF TypeOK, InitInv
<1>6. CASE RegAlgorithm
  <2>1. UNCHANGED <<pc, status, dir, unread, entry, plugins, libs, mapped, init, logs, stores, s, m, runs, owed>> /\ pc = "init" /\ algs' = algs \cup {init.file}
    BY <1>6 DEF RegAlgorithm, Registers, search, loop
  <2>2. algs' \subseteq Files
    BY <1>i, <2>1 DEF TypeOK
  <2> QED BY <2>1, <2>2, Zenon DEF TypeOK, InitInv
<1>7. CASE RegCallback
  <2>1. UNCHANGED <<pc, status, dir, unread, entry, libs, mapped, init, logs, algs, stores, s, m, runs, owed>> /\ pc = "init" /\ init.id # 0
        /\ plugins' = [plugins EXCEPT ![init.id].cb = TRUE]
    BY <1>7 DEF RegCallback, Registers, search, loop, hooks
  <2>2. init.id \in 1 .. Len(plugins) /\ plugins \in Seq(ModuleSet)
    BY <1>i, <2>1 DEF TypeOK
  <2>3. plugins[init.id] \in ModuleSet
    BY <2>2, ElementIn
  <2>4. [plugins[init.id] EXCEPT !.cb = TRUE] \in ModuleSet
    BY <2>3 DEF ModuleSet
  <2>5. plugins' = [plugins EXCEPT ![init.id] = [plugins[init.id] EXCEPT !.cb = TRUE]]
    BY <2>1
  <2>6. plugins' \in Seq(ModuleSet) /\ Len(plugins') = Len(plugins)
    BY <2>2, <2>4, <2>5, SeqExcept
  <2> QED BY <2>1, <2>2, <2>3, <2>4, <2>5, <2>6, Zenon DEF TypeOK, InitInv
<1>8. CASE RegStore
  <2>1. UNCHANGED <<pc, status, dir, unread, entry, plugins, libs, mapped, init, logs, algs, s, m, runs, owed>>
        /\ stores' = Append(stores, [file |-> init.file, load |-> FALSE, dump |-> FALSE])
        /\ pc = "init"
    BY <1>8 DEF RegStore, Registers, search, loop
  <2>2. [file |-> init.file, load |-> FALSE, dump |-> FALSE] \in StoreSet
    BY <1>i, <2>1 DEF StoreSet
  <2>3. stores' \in Seq(StoreSet)
    BY <2>1, <2>2 DEF TypeOK
  <2> QED BY <2>1, <2>2, <2>3, Zenon DEF TypeOK, InitInv
<1>9. CASE \E fn \in {"load", "dump"} : RegStoreFunction(fn)
  <2>1. UNCHANGED <<pc, status, dir, unread, entry, plugins, libs, mapped, init, logs, algs, s, m, runs, owed>> /\ pc = "init"
    BY <1>9 DEF RegStoreFunction, Registers, search, loop
  <2>2. PICK fn \in {"load", "dump"}, i \in DOMAIN stores : stores' = [stores EXCEPT ![i][fn] = TRUE]
    BY <1>9 DEF RegStoreFunction
  <2>3. stores \in Seq(StoreSet) /\ i \in 1 .. Len(stores)
    BY DEF TypeOK
  <2>4. stores[i] \in StoreSet
    BY <2>3, ElementIn
  <2>5. [stores[i] EXCEPT ![fn] = TRUE] \in StoreSet
    BY <2>4 DEF StoreSet
  <2>6. stores' = [stores EXCEPT ![i] = [stores[i] EXCEPT ![fn] = TRUE]]
    BY <2>2
  <2>7. stores' \in Seq(StoreSet)
    BY <2>3, <2>5, <2>6, SeqExcept
  <2> QED BY <2>1, <2>2, <2>3, <2>4, <2>5, <2>6, <2>7, Zenon DEF TypeOK, InitInv
<1>10. CASE LoadEnds
  <2>1. UNCHANGED <<status, dir, unread, entry, plugins, mapped, logs, algs, stores, s, m>>
        /\ pc = "init" /\ pc' = "search" /\ libs' = Append(libs, init.file)
        /\ init' = Nobody /\ runs' = NONE
        /\ owed' = IF init.exit THEN [owed EXCEPT ![init.file] = @ + 1] ELSE owed
    BY <1>10 DEF LoadEnds, search, loop, hooks
  <2>2. libs' \in Seq(Files) /\ owed' \in [Files -> Int]
    BY <1>i, <2>1 DEF TypeOK
  <2> QED BY <2>1, <2>2, <1>n, Zenon DEF TypeOK, InitInv
<1>11. CASE LoadUndone
  <2>1. UNCHANGED <<dir, unread, entry, plugins, libs, logs, algs, stores, s, m, owed>>
        /\ pc = "init" /\ init' = Nobody /\ runs' = NONE
        /\ mapped' = [mapped EXCEPT ![init.file] = @ - 1]
    BY <1>11 DEF LoadUndone, Close, search, loop, hooks
  <2>2. pc' = "running" /\ status' \in FaultKinds
    BY <1>11, <1>f DEF LoadUndone, InitReturns
  <2>3. mapped' \in [Files -> Nat]
    BY <1>i, <2>1, OpenHandles DEF TypeOK
  <2> QED BY <2>1, <2>2, <2>3, <1>n, Zenon DEF TypeOK, InitInv
<1>12. CASE SearchEnds
  <2>1. UNCHANGED <<status, dir, unread, entry, plugins, libs, mapped, init, logs, algs, stores, runs, owed>>
        /\ pc = "search" /\ pc' = "settings" /\ s' = 1 /\ m' = 1
    BY <1>12 DEF SearchEnds, search, hooks
  <2>2. s' \in Nat /\ m' \in Nat /\ s' >= 1 /\ m' >= 1
    BY <2>1
  <2> QED BY <2>1, <2>2, Zenon DEF TypeOK, InitInv
<1>13. CASE SkipStore
  <2>1. UNCHANGED <<pc, status, dir, unread, entry, plugins, libs, mapped, init, logs, algs, stores, m, runs, owed>> /\ pc = "settings" /\ s' = s + 1
    BY <1>13 DEF SkipStore, InLoop, search, hooks
  <2>2. s' \in Nat /\ s' >= 1
    BY <2>1 DEF TypeOK, InitInv
  <2> QED BY <2>1, <2>2, Zenon DEF TypeOK, InitInv
<1>14. CASE LoadModule
  <2>1. UNCHANGED <<status, dir, unread, entry, libs, mapped, init, logs, algs, stores, s, owed>> /\ pc = "settings"
        /\ plugins' = [plugins EXCEPT ![m].loads = @ + 1] /\ runs' = stores[s].file
        /\ s <= Len(stores) /\ m <= Len(plugins)
    BY <1>14 DEF LoadModule, InLoop, search, hooks
  <2>2. m \in 1 .. Len(plugins) /\ s \in 1 .. Len(stores) /\ m \in DOMAIN plugins
    BY <2>1 DEF TypeOK, InitInv
  <2>3. plugins[m] \in ModuleSet /\ stores[s] \in StoreSet
    BY <2>2, ElementIn DEF TypeOK
  <2>4. [plugins[m] EXCEPT !.loads = @ + 1] \in ModuleSet
    BY <2>3 DEF ModuleSet
  <2>5. plugins' = [plugins EXCEPT ![m] = [plugins[m] EXCEPT !.loads = @ + 1]]
    BY <2>1
  <2>6. plugins \in Seq(ModuleSet)
    BY DEF TypeOK
  <2>7. plugins' \in Seq(ModuleSet) /\ Len(plugins') = Len(plugins)
    BY <2>4, <2>5, <2>6, SeqExcept
  <2>8. runs' \in Files
    BY <2>1, <2>3 DEF StoreSet
  <2>9. m' \in Nat /\ m' >= 1 /\ s' >= 1 /\ pc' \in {"settings", "callback"}
        /\ (pc' = "callback" => m' <= Len(plugins'))
    BY <1>14, <2>1, <2>2, <2>7 DEF LoadModule, TypeOK, InitInv
  <2> QED BY <2>1, <2>2, <2>3, <2>4, <2>5, <2>6, <2>7, <2>8, <2>9, Zenon DEF TypeOK, InitInv
<1>15. CASE CallBack
  <2>1. UNCHANGED <<status, dir, unread, entry, libs, mapped, init, logs, algs, stores, s, owed>> /\ pc = "callback" /\ pc' = "settings"
        /\ plugins' = [plugins EXCEPT ![m].calls = @ + 1] /\ runs' = plugins[m].file
        /\ m' = m + 1
    BY <1>15 DEF CallBack, InLoop, search, hooks
  <2>2. m \in 1 .. Len(plugins) /\ m \in DOMAIN plugins
    BY <2>1 DEF TypeOK, InitInv
  <2>3. plugins[m] \in ModuleSet
    BY <2>2, ElementIn DEF TypeOK
  <2>4. [plugins[m] EXCEPT !.calls = @ + 1] \in ModuleSet
    BY <2>3 DEF ModuleSet
  <2>5. plugins' = [plugins EXCEPT ![m] = [plugins[m] EXCEPT !.calls = @ + 1]]
    BY <2>1
  <2>6. plugins \in Seq(ModuleSet)
    BY DEF TypeOK
  <2>7. plugins' \in Seq(ModuleSet)
    BY <2>4, <2>5, <2>6, SeqExcept
  <2>8. runs' \in Files
    BY <2>1, <2>3 DEF ModuleSet
  <2>9. m' \in Nat /\ m' >= 1 /\ s' >= 1
    BY <2>1, <2>2 DEF TypeOK, InitInv
  <2> QED BY <2>1, <2>2, <2>3, <2>4, <2>5, <2>6, <2>7, <2>8, <2>9, Zenon DEF TypeOK, InitInv
<1>16. CASE StoreDone
  <2>1. UNCHANGED <<pc, status, dir, unread, entry, plugins, libs, mapped, init, logs, algs, stores, owed>> /\ pc = "settings" /\ s <= Len(stores)
        /\ s' = s + 1 /\ m' = 1
        /\ runs' = IF stores[s].dump THEN stores[s].file ELSE NONE
    BY <1>16 DEF StoreDone, InLoop, search, hooks
  <2>2. s \in 1 .. Len(stores)
    BY <2>1 DEF TypeOK, InitInv
  <2>3. stores[s] \in StoreSet
    BY <2>2, ElementIn DEF TypeOK
  <2>4. runs' \in Files \cup {NONE}
    BY <2>1, <2>3 DEF StoreSet
  <2>5. s' \in Nat /\ m' \in Nat /\ s' >= 1 /\ m' >= 1
    BY <2>1, <2>2 DEF TypeOK
  <2> QED BY <2>1, <2>2, <2>3, <2>4, <2>5, Zenon DEF TypeOK, InitInv
<1>17. CASE LoadingDone
  <2>1. UNCHANGED <<status, dir, unread, entry, plugins, libs, mapped, init, logs, algs, stores, s, m, owed>> /\ pc = "settings" /\ pc' = "flush" /\ runs' = NONE
    BY <1>17 DEF LoadingDone, InLoop, search, hooks, loop
  <2> QED BY <2>1, Zenon DEF TypeOK, InitInv
<1>18. CASE \E f \in Files : Save(f) \/ RunAlgorithm(f)
  <2>1. UNCHANGED <<pc, status, dir, unread, entry, plugins, libs, mapped, init, logs, algs, stores, s, m, owed>> /\ runs' \in Files
    BY <1>18 DEF Save, RunAlgorithm, search, hooks, loop
  <2> QED BY <2>1, Zenon DEF TypeOK, InitInv
<1>19. CASE FlushEnds
  <2>1. UNCHANGED <<dir, unread, entry, plugins, libs, mapped, init, logs, algs, stores, s, m, owed>>
        /\ pc = "flush" /\ pc' = "running" /\ status' = "success" /\ runs' = NONE
    BY <1>19 DEF FlushEnds, InitReturns, search, hooks, loop
  <2> QED BY <2>1, Zenon DEF TypeOK, InitInv
<1>20. CASE IamExit
  <2>1. UNCHANGED <<status, dir, unread, entry, plugins, libs, mapped, init, logs, stores, s, m, owed>>
        /\ pc = "running" /\ pc' = "logger_exit" /\ algs' = {} /\ runs' = NONE
    BY <1>20 DEF IamExit, search, loop
  <2> QED BY <2>1, Zenon DEF TypeOK, InitInv
<1>21. CASE LoggerExitEnds
  <2>1. UNCHANGED <<status, dir, unread, entry, plugins, libs, mapped, init, algs, s, m, owed>>
        /\ pc = "logger_exit" /\ pc' = "plugin_exit" /\ logs' = {} /\ stores' = << >> /\ runs' = NONE
    BY <1>21 DEF LoggerExitEnds, search, loop
  <2>2. stores' \in Seq(StoreSet)
    BY <2>1
  <2> QED BY <2>1, <2>2, Zenon DEF TypeOK, InitInv
<1>22. CASE ExitPlugin
  <2>1. UNCHANGED <<pc, status, dir, unread, entry, libs, mapped, init, logs, algs, stores, s, m>>
        /\ pc = "plugin_exit" /\ plugins # << >> /\ plugins' = Tail(plugins)
        /\ runs' \in {Head(plugins).file, NONE}
        /\ \/ owed' = owed
           \/ owed' = [owed EXCEPT ![Head(plugins).file] = @ - 1]
    BY <1>22 DEF ExitPlugin, search, hooks, loop
  <2>2. plugins' \in Seq(ModuleSet) /\ Head(plugins) \in ModuleSet
    BY <2>1, SeqTail DEF TypeOK
  <2>3. Head(plugins).file \in Files
    BY <2>2 DEF ModuleSet
  <2>4. owed' \in [Files -> Int] /\ runs' \in Files \cup {NONE}
    BY <2>1, <2>3 DEF TypeOK
  <2> QED BY <2>1, <2>2, <2>3, <2>4, Zenon DEF TypeOK, InitInv
<1>23. CASE CloseLibrary
  <2>1. UNCHANGED <<pc, status, dir, unread, entry, plugins, init, logs, algs, stores, s, m, owed>>
        /\ pc = "plugin_exit" /\ libs # << >> /\ libs' = Tail(libs) /\ runs' = NONE
        /\ mapped' = [mapped EXCEPT ![Head(libs)] = @ - 1]
    BY <1>23 DEF CloseLibrary, Close, search, hooks, loop
  <2>2. libs' \in Seq(Files) /\ Head(libs) \in Files
    BY <2>1, SeqTail DEF TypeOK
  <2>3. mapped[Head(libs)] > 0 /\ mapped \in [Files -> Nat]
    BY <2>1, OpenHandles DEF TypeOK
  <2>4. \A h \in Files : mapped[h] > 0 => [mapped EXCEPT ![h] = @ - 1] \in [Files -> Nat]
    BY <2>3
  <2>5. mapped' \in [Files -> Nat]
    BY <2>1, <2>2, <2>3, <2>4, Zenon
  <2> QED BY <2>1, <2>2, <2>5, Zenon DEF TypeOK, InitInv
<1>24. CASE IamExitReturns
  <2>1. UNCHANGED <<plugins, libs, mapped, init, logs, algs, stores, owed>>
        /\ pc = "plugin_exit" /\ pc' = "off" /\ status' = "none" /\ runs' = NONE
        /\ dir' = << >> /\ unread' = << >> /\ entry' = NONE /\ s' = 1 /\ m' = 1
    BY <1>24 DEF IamExitReturns, hooks
  <2>2. dir' \in Seq(Files \cup Others) /\ unread' \in Seq(Files \cup Others)
    BY <2>1
  <2>3. s' \in Nat /\ m' \in Nat /\ s' >= 1 /\ m' >= 1
    BY <2>1
  <2> QED BY <2>1, <2>2, <2>3, Zenon DEF TypeOK, InitInv
<1> QED
  BY <1>1, <1>2, <1>3, <1>4, <1>5, <1>6, <1>7, <1>8, <1>9, <1>10, <1>11, <1>12, <1>13,
     <1>14, <1>15, <1>16, <1>17, <1>18, <1>19, <1>20, <1>21, <1>22, <1>23, <1>24
     DEF Next, Proceeds

-----------------------------------------------------------------------------
(* Open handles are those of the list and of the plugin in its init.       *)

(* Only these steps touch the handles, the list or the plugin in its init. *)
LEMMA HandleSteps ==
  ASSUME Next
  PROVE  \/ IamInit \/ LoadBegins \/ LoadEnds \/ LoadUndone \/ CloseLibrary
         \/ /\ UNCHANGED <<mapped, libs, init>>
            /\ pc' = "off" => pc = "off" \/ (libs = << >> /\ pc = "plugin_exit")
<1> USE DEF search, hooks, loop
<1>1. CASE SkipEntry \/ LoadFails \/ SearchEnds
  BY <1>1 DEF SkipEntry, LoadFails, SearchEnds, InitReturns, NextEntry
<1>2. CASE SkipStore \/ LoadModule \/ CallBack \/ StoreDone \/ LoadingDone
  BY <1>2 DEF SkipStore, LoadModule, CallBack, StoreDone, LoadingDone, InLoop
<1>3. CASE FlushEnds \/ IamExit \/ LoggerExitEnds \/ ExitPlugin \/ IamExitReturns
  BY <1>3 DEF FlushEnds, InitReturns, IamExit, LoggerExitEnds, ExitPlugin, IamExitReturns
<1>4. CASE RegLog \/ RegAlgorithm \/ RegCallback \/ RegStore
  BY <1>4 DEF RegLog, RegAlgorithm, RegCallback, RegStore, Registers
<1>5. CASE \E fn \in {"load", "dump"} : RegStoreFunction(fn)
  BY <1>5 DEF RegStoreFunction, Registers
<1>6. CASE \E f \in Files : Save(f) \/ RunAlgorithm(f)
  BY <1>6 DEF Save, RunAlgorithm
<1> QED BY <1>1, <1>2, <1>3, <1>4, <1>5, <1>6 DEF Next, Proceeds

LEMMA CountStep == TypeOK /\ InitInv /\ HandleCount /\ Next => HandleCount'
<1> SUFFICES ASSUME TypeOK, InitInv, HandleCount, Next PROVE HandleCount'
  OBVIOUS
<1>t. libs \in Seq(Files) /\ Len(libs) \in Nat /\ mapped \in [Files -> Nat] /\ NONE \notin Files
  BY EntryAssumption DEF TypeOK
<1>c. \A f \in Files : Cardinality(Handles(libs, f)) \in Nat
  BY OpenHandles
<1>p. \A f, l : Handles(l, f) \in SUBSET (1 .. Len(l))
  BY DEF Handles
<1>1. CASE IamInit
  <2>1. pc = "off" /\ libs' = << >> /\ UNCHANGED <<mapped, init>>
    BY <1>1 DEF IamInit
  <2>2. libs = << >> /\ init = Nobody
    BY <2>1 DEF HandleCount
  <2> QED BY <2>1, <2>2 DEF HandleCount
<1>2. CASE LoadBegins
  <2>1. /\ pc = "search" /\ pc' = "init" /\ libs' = libs
        /\ Name \in Files /\ mapped' = [mapped EXCEPT ![Name] = @ + 1]
        /\ init'.file = Name
    BY <1>2 DEF LoadBegins, NextEntry, Open
  <2>2. init.file = NONE
    BY <2>1 DEF InitInv, Nobody
  <2>3. \A f \in Files : mapped'[f] = mapped[f] + (IF f = Name THEN 1 ELSE 0)
    BY <1>t, <2>1
  <2> QED BY <1>t, <1>c, <2>1, <2>2, <2>3 DEF HandleCount
<1>3. CASE LoadEnds
  <2>1. /\ pc = "init" /\ pc' = "search" /\ libs' = Append(libs, init.file)
        /\ init' = Nobody /\ mapped' = mapped /\ init.file \in Files
    BY <1>3 DEF LoadEnds, InitInv
  <2>2. \A f \in Files : Cardinality(Handles(libs', f))
                          = Cardinality(Handles(libs, f)) + (IF init.file = f THEN 1 ELSE 0)
    <3> TAKE f \in Files
    <3>1. /\ Len(libs') = Len(libs) + 1 /\ libs'[Len(libs) + 1] = init.file
          /\ \A i \in 1 .. Len(libs) : libs'[i] = libs[i]
      BY <1>t, <2>1, SeqAppend
    <3>2. Handles(libs', f) \in SUBSET (1 .. Len(libs) + 1) /\ Handles(libs, f) \in SUBSET (1 .. Len(libs))
      BY <3>1, <1>p
    <3>3. \A i \in 1 .. Len(libs) : i \in Handles(libs, f) <=> i \in Handles(libs', f)
      BY <3>1, <1>t DEF Handles
    <3>4. Len(libs) + 1 \in Handles(libs', f) <=> init.file = f
      BY <3>1, <1>t DEF Handles
    <3> QED BY <1>t, <3>2, <3>3, <3>4, CountAtEnd
  <2> QED BY <1>t, <1>c, <2>1, <2>2 DEF HandleCount, Nobody
<1>4. CASE LoadUndone
  <2>1. /\ pc = "init" /\ pc' = "running" /\ libs' = libs /\ init' = Nobody
        /\ mapped' = [mapped EXCEPT ![init.file] = @ - 1] /\ init.file \in Files
    BY <1>4 DEF LoadUndone, Close, InitReturns, InitInv
  <2>2. \A f \in Files : mapped'[f] = mapped[f] - (IF f = init.file THEN 1 ELSE 0)
    BY <1>t, <2>1
  <2> QED BY <1>t, <1>c, <2>1, <2>2 DEF HandleCount, Nobody
<1>5. CASE CloseLibrary
  <2>1. /\ pc = "plugin_exit" /\ pc' = pc /\ libs # << >> /\ libs' = Tail(libs)
        /\ init' = init /\ mapped' = [mapped EXCEPT ![Head(libs)] = @ - 1]
    BY <1>5 DEF CloseLibrary, Close
  <2>2. PICK h \in Files : h = Head(libs) /\ h = libs[1]
    BY <1>t, <2>1, SeqTail
  <2>3. \A f \in Files : mapped'[f] = mapped[f] - (IF f = h THEN 1 ELSE 0)
    BY <1>t, <2>1, <2>2
  <2>4. /\ Len(libs') = Len(libs) - 1 /\ Len(libs') \in Nat /\ 1 \in 1 .. Len(libs)
        /\ \A i \in 1 .. Len(libs') : i + 1 \in 1 .. Len(libs) /\ libs'[i] = libs[i + 1]
    BY <1>t, <2>1, SeqTail
  <2>5. \A f \in Files : Cardinality(Handles(libs, f))
                          = Cardinality(Handles(libs', f)) + (IF h = f THEN 1 ELSE 0)
    <3> TAKE f \in Files
    <3>1. /\ Handles(libs, f) \in SUBSET (1 .. Len(libs') + 1)
          /\ Handles(libs', f) \in SUBSET (1 .. Len(libs'))
      BY <2>4, <1>t, <1>p
    <3>2. \A i \in 1 .. Len(libs') : i \in Handles(libs', f) <=> i + 1 \in Handles(libs, f)
      BY <2>4 DEF Handles
    <3>3. 1 \in Handles(libs, f) <=> h = f
      BY <2>2, <2>4 DEF Handles
    <3>4. Cardinality(Handles(libs, f))
            = Cardinality(Handles(libs', f)) + (IF 1 \in Handles(libs, f) THEN 1 ELSE 0)
      <4>1. Len(libs') \in Nat
        BY <2>4
      <4> QED BY <3>1, <3>2, <4>1, CountAtHead, Zenon
    <3> QED BY <3>3, <3>4, Zenon
  <2>6. \A f \in Files : Cardinality(Handles(libs', f)) \in Nat
    BY <2>4, <1>p, PlacesFinite
  <2>7. ASSUME NEW f \in Files
        PROVE  mapped'[f] = Cardinality(Handles(libs', f)) + (IF init'.file = f THEN 1 ELSE 0)
    <3>1. mapped[f] = Cardinality(Handles(libs, f)) + (IF init.file = f THEN 1 ELSE 0)
      BY DEF HandleCount
    <3> QED BY <1>c, <2>1, <2>3, <2>5, <2>6, <3>1
  <2> QED BY <2>1, <2>7 DEF HandleCount
<1>6. CASE /\ UNCHANGED <<mapped, libs, init>>
           /\ pc' = "off" => pc = "off" \/ (libs = << >> /\ pc = "plugin_exit")
  BY <1>6 DEF HandleCount, InitInv
<1> QED BY <1>1, <1>2, <1>3, <1>4, <1>5, <1>6, HandleSteps

LEMMA HandleStutter == HandleInv /\ UNCHANGED vars => HandleInv'
<1> SUFFICES ASSUME HandleInv, UNCHANGED vars PROVE HandleInv'
  OBVIOUS
<1>1. UNCHANGED <<pc, status, dir, unread, entry, plugins, libs, mapped, init, logs, algs,
                  stores, s, m, runs, owed>>
  BY DEF vars, search, hooks, loop
<1> QED BY <1>1, Zenon DEF HandleInv, TypeOK, InitInv, HandleCount

LEMMA HandleInvariant == Spec => []HandleInv
<1>1. Init => HandleCount
  <2> SUFFICES ASSUME Init PROVE HandleCount
    OBVIOUS
  <2>1. \A f \in Files : Handles(libs, f) = {}
    BY DEF Init, Handles
  <2>2. Cardinality({}) = 0
    BY FS_EmptySet
  <2>3. init.file = NONE /\ NONE \notin Files /\ libs = << >> /\ init = Nobody
    BY EntryAssumption DEF Init, Nobody
  <2>4. \A f \in Files : mapped[f] = 0
    BY DEF Init
  <2>5. ASSUME NEW f \in Files
        PROVE  mapped[f] = Cardinality(Handles(libs, f)) + (IF init.file = f THEN 1 ELSE 0)
    <3>1. Cardinality(Handles(libs, f)) = 0
      BY <2>1, <2>2, Zenon
    <3>2. init.file # f /\ mapped[f] = 0
      BY <2>3, <2>4
    <3> QED BY <3>1, <3>2
  <2> QED BY <2>3, <2>5 DEF HandleCount
<1>2. Init => HandleInv
  BY <1>1, TypeInit DEF HandleInv
<1>3. HandleInv /\ [Next]_vars => HandleInv'
  BY TypeStep, CountStep, HandleStutter DEF HandleInv
<1> QED BY <1>2, <1>3, PTL DEF Spec

(* The lists, the handles, the hooks and the loop variables keep their     *)
(* types: no close of a library that is not open, and every function that  *)
(* is called is one of a plugin.                                           *)
THEOREM TypeCorrect == Spec => []TypeOK
<1>1. HandleInv => TypeOK
  BY DEF HandleInv
<1> QED BY <1>1, HandleInvariant, PTL

(* Whatever goes wrong while plugins are loaded, and however often         *)
(* iam_init and iam_exit are called: each handle iam__os_load_library gave *)
(* is closed once, and none is open when iam_exit has returned.            *)
THEOREM HandlesBalanced == Spec => []HandlesKept
<1>1. HandleInv => HandlesKept
  BY DEF HandleInv, HandleCount, HandlesKept, Handles
<1> QED BY <1>1, HandleInvariant, PTL

-----------------------------------------------------------------------------
(* The code that is called is mapped.                                      *)

(* No init function fails and no library is closed for want of a node:     *)
(* without it the hooks of the closed library stay (FailedInitForgotten).  *)
InitsSucceed == Faults \cap {"init_failed", "no_library_node"} = {}

(* The files of the modules and of the stores.                             *)
LEMMA FilesOf ==
  ASSUME TypeOK
  PROVE  /\ \A i \in 1 .. Len(plugins) : plugins[i].file \in Files
         /\ \A i \in 1 .. Len(stores) : stores[i].file \in Files
         /\ plugins \in Seq(ModuleSet) /\ stores \in Seq(StoreSet)
         /\ Len(plugins) \in Nat /\ Len(stores) \in Nat /\ mapped \in [Files -> Nat]
<1>1. plugins \in Seq(ModuleSet) /\ stores \in Seq(StoreSet) /\ mapped \in [Files -> Nat]
  BY DEF TypeOK
<1>2. \A i \in 1 .. Len(plugins) : plugins[i] \in ModuleSet
  BY <1>1, ElementIn, Zenon
<1>3. \A i \in 1 .. Len(stores) : stores[i] \in StoreSet
  BY <1>1, ElementIn, Zenon
<1> QED BY <1>1, <1>2, <1>3 DEF ModuleSet, StoreSet

(* A module with another callback, or loaded or called once more.          *)
LEMMA SetField ==
  ASSUME NEW y \in ModuleSet
  PROVE  /\ [y EXCEPT !.cb = TRUE] \in ModuleSet
         /\ [y EXCEPT !.loads = @ + 1] \in ModuleSet
         /\ [y EXCEPT !.calls = @ + 1] \in ModuleSet
<1>1. [y EXCEPT !.cb = TRUE] \in ModuleSet
  BY DEF ModuleSet
<1>2. [y EXCEPT !.loads = @ + 1] \in ModuleSet
  BY DEF ModuleSet
<1>3. [y EXCEPT !.calls = @ + 1] \in ModuleSet
  BY DEF ModuleSet
<1> QED BY <1>1, <1>2, <1>3, Zenon

LEMMA SetCallBack ==
  ASSUME NEW q \in Seq(ModuleSet), NEW k \in 1 .. Len(q), NEW r,
         \/ r = [q EXCEPT ![k].cb = TRUE]
         \/ r = [q EXCEPT ![k].loads = @ + 1]
         \/ r = [q EXCEPT ![k].calls = @ + 1]
  PROVE  /\ Len(r) = Len(q)
         /\ \A i \in 1 .. Len(q) : r[i].file = q[i].file /\ r[i].exit = q[i].exit
<1>1. PICK y \in ModuleSet : y = q[k]
  BY ElementIn
<1>2. PICK x \in ModuleSet : r = [q EXCEPT ![k] = x] /\ x.file = y.file /\ x.exit = y.exit
  <2> DEFINE a == [y EXCEPT !.cb = TRUE]
             b == [y EXCEPT !.loads = @ + 1]
             c == [y EXCEPT !.calls = @ + 1]
  <2>1. a \in ModuleSet /\ b \in ModuleSet /\ c \in ModuleSet
    BY SetField
  <2>2. /\ a.file = y.file /\ b.file = y.file /\ c.file = y.file
        /\ a.exit = y.exit /\ b.exit = y.exit /\ c.exit = y.exit
    BY DEF ModuleSet
  <2>3. r = [q EXCEPT ![k] = a] \/ r = [q EXCEPT ![k] = b] \/ r = [q EXCEPT ![k] = c]
    BY <1>1
  <2> HIDE DEF a, b, c
  <2> QED BY <2>1, <2>2, <2>3
<1>3. Len(r) = Len(q) /\ \A i \in 1 .. Len(q) : r[i] = IF i = k THEN x ELSE q[i]
  BY <1>2, SeqExcept
<1> QED BY <1>1, <1>2, <1>3

LEMMA MappedStep ==
  ASSUME InitsSucceed, HandleInv, HandleInv', MappedInv, Next
  PROVE  MappedInv'
<1> USE DEF search, hooks, loop
<1>t. TypeOK /\ InitInv /\ HandleCount /\ TypeOK'
  BY DEF HandleInv
<1>f. /\ \A i \in 1 .. Len(plugins) : plugins[i].file \in Files
      /\ \A i \in 1 .. Len(stores) : stores[i].file \in Files
      /\ plugins \in Seq(ModuleSet) /\ stores \in Seq(StoreSet)
      /\ Len(plugins) \in Nat /\ Len(stores) \in Nat
      /\ mapped \in [Files -> Nat] /\ NONE \notin Files
  BY <1>t, FilesOf, EntryAssumption
<1>i. pc = "init" => init.file \in Files /\ mapped[init.file] > 0
  BY <1>t, OpenHandles DEF InitInv
<1>l. logs \subseteq Files /\ algs \subseteq Files /\ runs \in Files \cup {NONE}
  BY <1>t DEF TypeOK
<1>m. HooksMapped /\ CodeMapped
  BY DEF MappedInv
<1>1. CASE IamInit
  <2>1. /\ pc' \in {"running", "search"} /\ plugins' = << >> /\ stores' = << >>
        /\ logs' = {} /\ algs' = {} /\ UNCHANGED <<mapped, runs>>
    BY <1>1 DEF IamInit, InitReturns
  <2> QED BY <1>m, <2>1 DEF MappedInv, HooksMapped, CodeMapped
<1>2. CASE SkipEntry \/ LoadFails \/ LoadEnds \/ SearchEnds \/ SkipStore \/ LoadingDone \/ FlushEnds
  <2>1. /\ UNCHANGED <<plugins, stores, logs, algs, mapped>> /\ runs' \in {runs, NONE}
        /\ pc' \notin {"logger_exit", "plugin_exit", "off"}
    BY <1>2 DEF SkipEntry, LoadFails, LoadEnds, SearchEnds, SkipStore, LoadingDone, FlushEnds,
                NextEntry, InitReturns, InLoop
  <2> QED BY <1>m, <2>1 DEF MappedInv, HooksMapped, CodeMapped
<1>3. CASE LoadBegins
  <2>1. /\ UNCHANGED <<stores, logs, algs>> /\ pc' = "init" /\ Name \in Files /\ runs' = Name
        /\ mapped' = [mapped EXCEPT ![Name] = @ + 1]
    BY <1>3 DEF LoadBegins, Open
  <2>2. \A f \in Files : mapped'[f] >= mapped[f] /\ mapped[f] >= 0
    BY <1>f, <2>1
  <2>3. mapped'[Name] > 0
    BY <1>f, <2>1
  <2>4. \A i \in 1 .. Len(plugins') :
          plugins'[i].file = Name \/ (i \in 1 .. Len(plugins) /\ plugins'[i] = plugins[i])
    <3>1. PICK e \in BOOLEAN :
            \/ UNCHANGED plugins
            \/ plugins' = Append(plugins, [file |-> Name, exit |-> e, cb |-> FALSE,
                                          loads |-> 0, calls |-> 0])
      BY <1>3 DEF LoadBegins
    <3> DEFINE g == [file |-> Name, exit |-> e, cb |-> FALSE, loads |-> 0, calls |-> 0]
    <3>2. g \in ModuleSet /\ g.file = Name
      BY <2>1 DEF ModuleSet
    <3>3. plugins' = plugins \/ plugins' = Append(plugins, g)
      BY <3>1
    <3> HIDE DEF g
    <3>4. \A i \in 1 .. Len(Append(plugins, g)) :
            Append(plugins, g)[i] = g \/ (i \in 1 .. Len(plugins) /\ Append(plugins, g)[i] = plugins[i])
      BY <1>f, <3>2, AppendCases
    <3> QED BY <1>f, <3>2, <3>3, <3>4
  <2> QED BY <1>f, <1>l, <1>m, <2>1, <2>2, <2>3, <2>4 DEF MappedInv, HooksMapped, CodeMapped
<1>4. CASE LoadUndone
  BY <1>4 DEF LoadUndone, InitsSucceed
<1>5. CASE RegLog \/ RegAlgorithm
  <2>1. /\ UNCHANGED <<plugins, stores, mapped, runs, pc>> /\ pc = "init"
        /\ logs' \cup algs' \subseteq logs \cup algs \cup {init.file}
    BY <1>5 DEF RegLog, RegAlgorithm, Registers
  <2> QED BY <1>i, <1>m, <2>1 DEF MappedInv, HooksMapped, CodeMapped
<1>6. CASE RegStore
  <2>1. /\ UNCHANGED <<plugins, logs, algs, mapped, runs, pc>> /\ pc = "init"
    BY <1>6 DEF RegStore, Registers
  <2> DEFINE g == [file |-> init.file, load |-> FALSE, dump |-> FALSE]
  <2>2. g \in StoreSet /\ g.file = init.file
    BY <1>i, <2>1 DEF StoreSet
  <2>3. stores' = Append(stores, g)
    BY <1>6 DEF RegStore
  <2> HIDE DEF g
  <2>4. \A i \in 1 .. Len(stores') :
          stores'[i] = g \/ (i \in 1 .. Len(stores) /\ stores'[i] = stores[i])
    BY <1>f, <2>2, <2>3, AppendCases
  <2> QED BY <1>i, <1>m, <2>1, <2>2, <2>4 DEF MappedInv, HooksMapped, CodeMapped
<1>7. CASE \E fn \in {"load", "dump"} : RegStoreFunction(fn)
  <2>1. UNCHANGED <<plugins, logs, algs, mapped, runs, pc>> /\ pc = "init"
    BY <1>7 DEF RegStoreFunction, Registers
  <2>2. PICK fn \in {"load", "dump"}, k \in DOMAIN stores :
          stores' = [stores EXCEPT ![k] = [stores[k] EXCEPT ![fn] = TRUE]]
    BY <1>7 DEF RegStoreFunction
  <2>3. k \in 1 .. Len(stores) /\ stores[k] \in StoreSet
    BY <1>f, ElementIn
  <2>4. [stores[k] EXCEPT ![fn] = TRUE] \in StoreSet
        /\ [stores[k] EXCEPT ![fn] = TRUE].file = stores[k].file
    BY <2>3 DEF StoreSet
  <2>5. Len(stores') = Len(stores) /\ \A i \in 1 .. Len(stores) :
          stores'[i] = IF i = k THEN [stores[k] EXCEPT ![fn] = TRUE] ELSE stores[i]
    BY <1>f, <2>2, <2>4, SeqExcept
  <2>6. \A i \in 1 .. Len(stores') : i \in 1 .. Len(stores) /\ stores'[i].file = stores[i].file
    BY <2>4, <2>5
  <2> QED BY <1>m, <2>1, <2>6 DEF MappedInv, HooksMapped, CodeMapped
<1>8. CASE RegCallback \/ LoadModule \/ CallBack
  <2>1. /\ UNCHANGED <<stores, logs, algs, mapped>>
        /\ pc' \notin {"logger_exit", "plugin_exit", "off"}
    BY <1>8 DEF RegCallback, LoadModule, CallBack, Registers, InLoop
  <2>2. \A i \in 1 .. Len(plugins') : i \in 1 .. Len(plugins) /\ plugins'[i].file = plugins[i].file
    <3>1. CASE RegCallback
      <4>1. init.id \in 1 .. Len(plugins) /\ plugins' = [plugins EXCEPT ![init.id].cb = TRUE]
        BY <3>1, <1>t DEF RegCallback, Registers, InitInv
      <4> QED BY <1>f, <4>1, SetCallBack
    <3>2. CASE LoadModule
      <4>1. m \in 1 .. Len(plugins) /\ plugins' = [plugins EXCEPT ![m].loads = @ + 1]
        BY <3>2, <1>t DEF LoadModule, InitInv, TypeOK
      <4> QED BY <1>f, <4>1, SetCallBack
    <3>3. CASE CallBack
      <4>1. m \in 1 .. Len(plugins) /\ plugins' = [plugins EXCEPT ![m].calls = @ + 1]
        BY <3>3, <1>t DEF CallBack, InLoop, InitInv, TypeOK
      <4> QED BY <1>f, <4>1, SetCallBack
    <3> QED BY <1>8, <3>1, <3>2, <3>3
  <2>3. runs' = runs \/ mapped[runs'] > 0
    <3>1. CASE RegCallback
      BY <3>1 DEF RegCallback, Registers
    <3>2. CASE LoadModule
      <4>1. s \in 1 .. Len(stores) /\ runs' = stores[s].file
        BY <3>2, <1>t DEF LoadModule, InitInv, TypeOK
      <4> QED BY <1>m, <4>1 DEF HooksMapped
    <3>3. CASE CallBack
      <4>1. m \in 1 .. Len(plugins) /\ runs' = plugins[m].file
        BY <3>3, <1>t DEF CallBack, InLoop, InitInv, TypeOK
      <4> QED BY <1>m, <4>1 DEF HooksMapped
    <3> QED BY <1>8, <3>1, <3>2, <3>3
  <2> QED BY <1>m, <2>1, <2>2, <2>3 DEF MappedInv, HooksMapped, CodeMapped
<1>9. CASE StoreDone
  <2>1. /\ UNCHANGED <<plugins, stores, logs, algs, mapped, pc>> /\ pc = "settings"
        /\ s \in 1 .. Len(stores) /\ runs' \in {stores[s].file, NONE}
    BY <1>9, <1>t DEF StoreDone, InLoop, InitInv, TypeOK
  <2> QED BY <1>m, <2>1 DEF MappedInv, HooksMapped, CodeMapped
<1>10. CASE \E f \in Files : Save(f) \/ RunAlgorithm(f)
  <2>1. /\ UNCHANGED <<plugins, stores, logs, algs, mapped, pc>>
        /\ runs' \in logs \cup algs
    BY <1>10 DEF Save, RunAlgorithm
  <2> QED BY <1>m, <2>1 DEF MappedInv, HooksMapped, CodeMapped
<1>11. CASE IamExit
  <2>1. /\ UNCHANGED <<plugins, stores, logs, mapped>> /\ algs' = {} /\ runs' = NONE
        /\ pc' = "logger_exit"
    BY <1>11 DEF IamExit
  <2> QED BY <1>m, <2>1 DEF MappedInv, HooksMapped, CodeMapped
<1>12. CASE LoggerExitEnds
  <2>1. /\ UNCHANGED <<plugins, algs, mapped>> /\ logs' = {} /\ stores' = << >> /\ runs' = NONE
        /\ pc = "logger_exit" /\ pc' = "plugin_exit"
    BY <1>12 DEF LoggerExitEnds
  <2> QED BY <1>m, <2>1 DEF MappedInv, HooksMapped, CodeMapped
<1>13. CASE ExitPlugin
  <2>1. /\ UNCHANGED <<stores, logs, algs, mapped, pc>> /\ pc = "plugin_exit" /\ plugins # << >>
        /\ plugins' = Tail(plugins) /\ runs' \in {Head(plugins).file, NONE}
    BY <1>13 DEF ExitPlugin
  <2>2. /\ Head(plugins) = plugins[1] /\ 1 \in 1 .. Len(plugins)
        /\ \A i \in 1 .. Len(plugins') : i + 1 \in 1 .. Len(plugins) /\ plugins'[i] = plugins[i + 1]
    BY <1>f, <2>1, SeqTail
  <2> QED BY <1>m, <2>1, <2>2 DEF MappedInv, HooksMapped, CodeMapped
<1>14. CASE CloseLibrary \/ IamExitReturns
  <2>1. /\ UNCHANGED <<plugins, stores, logs, algs>> /\ pc = "plugin_exit" /\ plugins = << >>
        /\ runs' = NONE /\ pc' \in {"plugin_exit", "off"}
    BY <1>14 DEF CloseLibrary, IamExitReturns
  <2>2. plugins' = << >> /\ stores' = << >> /\ logs' = {} /\ algs' = {}
    BY <1>m, <2>1 DEF HooksMapped
  <2> QED BY <2>1, <2>2 DEF MappedInv, HooksMapped, CodeMapped
<1> QED
  BY <1>1, <1>2, <1>3, <1>4, <1>5, <1>6, <1>7, <1>8, <1>9, <1>10, <1>11, <1>12, <1>13, <1>14
     DEF Next, Proceeds

(* Unless an init function fails: each function of a plugin the library    *)
(* calls, in iam_init, in a drain, when an algorithm runs and in iam_exit, *)
(* is in a library that is still open.                                     *)
THEOREM CodeStaysMapped ==
  ASSUME InitsSucceed
  PROVE  Spec => []CodeMapped
<1>1. Init => MappedInv
  BY DEF Init, MappedInv, HooksMapped, CodeMapped
<1>2. ASSUME HandleInv, HandleInv', MappedInv, [Next]_vars
      PROVE  MappedInv'
  <2>1. CASE Next
    BY <1>2, <2>1, MappedStep
  <2>2. CASE UNCHANGED vars
    <3>1. UNCHANGED <<pc, plugins, mapped, logs, algs, stores, runs>>
      BY <2>2 DEF vars, hooks
    <3> QED BY <1>2, <3>1 DEF MappedInv, HooksMapped, CodeMapped
  <2> QED BY <1>2, <2>1, <2>2
<1>3. MappedInv => CodeMapped
  BY DEF MappedInv
<1> QED BY <1>1, <1>2, <1>3, HandleInvariant, PTL DEF Spec

-----------------------------------------------------------------------------
(* The exit calls owed.                                                    *)

(* With no memory for its module a plugin is never asked to exit.          *)
ModulesRegistered == InitsSucceed /\ "no_module" \notin Faults

LEMMA ExitStep ==
  ASSUME ModulesRegistered, HandleInv, ExitInv, Next
  PROVE  ExitInv'
<1> USE DEF search, hooks, loop
<1>t. TypeOK /\ InitInv /\ HandleCount
  BY DEF HandleInv
<1>f. plugins \in Seq(ModuleSet) /\ Len(plugins) \in Nat /\ owed \in [Files -> Int]
  BY <1>t DEF TypeOK
<1>p. \A f, l : Exits(l, f) \in SUBSET (1 .. Len(l))
  BY DEF Exits
<1>c. \A f \in Files : Cardinality(Exits(plugins, f)) \in Nat
  BY <1>f, <1>p, PlacesFinite
<1>1. CASE IamInit
  <2>1. plugins' = << >> /\ owed' = [f \in Files |-> 0] /\ pc' # "init"
    BY <1>1 DEF IamInit, InitReturns
  <2>2. \A f : Exits(plugins', f) = {}
    BY <2>1 DEF Exits
  <2>3. Cardinality({}) = 0
    BY FS_EmptySet
  <2>4. ASSUME NEW f \in Files PROVE owed'[f] + Pending(f)' = Cardinality(Exits(plugins', f))
    <3>1. Cardinality(Exits(plugins', f)) = 0
      BY <2>2, <2>3, Zenon
    <3>2. owed'[f] = 0 /\ Pending(f)' = 0
      BY <2>1 DEF Pending
    <3> QED BY <3>1, <3>2
  <2> QED BY <2>1, <2>4 DEF ExitInv
<1>2. CASE LoadBegins
  <2>1. /\ pc = "search" /\ pc' = "init" /\ owed' = owed /\ Name \in Files
    BY <1>2 DEF LoadBegins, NextEntry
  <2>2. PICK e \in BOOLEAN :
          /\ plugins' = Append(plugins, [file |-> Name, exit |-> e, cb |-> FALSE,
                                         loads |-> 0, calls |-> 0])
          /\ init' = [file |-> Name, id |-> Len(plugins'), exit |-> e]
    BY <1>2 DEF LoadBegins, ModulesRegistered
  <2> DEFINE g == [file |-> Name, exit |-> e, cb |-> FALSE, loads |-> 0, calls |-> 0]
  <2>3. g \in ModuleSet /\ g.file = Name /\ g.exit = e
    BY <2>1 DEF ModuleSet
  <2>4. plugins' = Append(plugins, g)
    BY <2>2
  <2> HIDE DEF g
  <2>5. /\ Len(plugins') = Len(plugins) + 1 /\ plugins'[Len(plugins) + 1] = g
        /\ \A i \in 1 .. Len(plugins) : plugins'[i] = plugins[i]
    BY <1>f, <2>3, <2>4, SeqAppend
  <2>6. init'.file = Name /\ init'.exit = e /\ init'.id = Len(plugins) + 1
    BY <2>2, <2>5
  <2>7. ASSUME NEW f \in Files
        PROVE  Cardinality(Exits(plugins', f))
                 = Cardinality(Exits(plugins, f)) + (IF e /\ Name = f THEN 1 ELSE 0)
    <3>1. /\ Exits(plugins, f) \in SUBSET (1 .. Len(plugins))
          /\ Exits(plugins', f) \in SUBSET (1 .. Len(plugins) + 1)
      BY <1>p, <2>5
    <3>2. \A i \in 1 .. Len(plugins) : i \in Exits(plugins, f) <=> i \in Exits(plugins', f)
      BY <1>f, <2>5 DEF Exits
    <3>3. Len(plugins) + 1 \in Exits(plugins', f) <=> e /\ Name = f
      BY <1>f, <2>3, <2>5 DEF Exits
    <3> QED BY <1>f, <3>1, <3>2, <3>3, CountAtEnd
  <2>8. ASSUME NEW f \in Files PROVE owed'[f] + Pending(f)' = Cardinality(Exits(plugins', f))
    <3>1. owed[f] = Cardinality(Exits(plugins, f)) /\ owed[f] \in Int
      BY <1>c, <1>f, <2>1 DEF ExitInv, Pending
    <3>2. Pending(f)' = IF e /\ Name = f THEN 1 ELSE 0
      BY <2>1, <2>6 DEF Pending
    <3> QED BY <1>c, <2>1, <2>7, <3>1, <3>2
  <2>9. init'.id \in 1 .. Len(plugins') /\ plugins'[init'.id].file = init'.file
        /\ plugins'[init'.id].exit = init'.exit
    BY <1>f, <2>3, <2>5, <2>6
  <2> QED BY <2>8, <2>9 DEF ExitInv
<1>3. CASE LoadEnds
  <2>1. /\ pc = "init" /\ pc' = "search" /\ plugins' = plugins /\ init.file \in Files
        /\ owed' = IF init.exit THEN [owed EXCEPT ![init.file] = @ + 1] ELSE owed
    BY <1>3, <1>t DEF LoadEnds, InitInv
  <2>2. ASSUME NEW f \in Files PROVE owed'[f] + Pending(f)' = Cardinality(Exits(plugins', f))
    <3>1. owed[f] + Pending(f) = Cardinality(Exits(plugins, f)) /\ owed[f] \in Int
      BY <1>f DEF ExitInv
    <3>2. Pending(f)' = 0 /\ Pending(f) = IF init.exit /\ init.file = f THEN 1 ELSE 0
      BY <2>1 DEF Pending
    <3>3. owed'[f] = owed[f] + (IF init.exit /\ init.file = f THEN 1 ELSE 0)
      BY <1>f, <2>1
    <3> QED BY <2>1, <3>1, <3>2, <3>3
  <2> QED BY <2>1, <2>2 DEF ExitInv
<1>4. CASE LoadUndone
  BY <1>4 DEF LoadUndone, ModulesRegistered, InitsSucceed
<1>5. CASE RegCallback \/ LoadModule \/ CallBack
  <2>1. UNCHANGED <<init, owed>> /\ (pc' = "init" <=> pc = "init")
    BY <1>5 DEF RegCallback, LoadModule, CallBack, Registers, InLoop
  <2>2. /\ Len(plugins') = Len(plugins)
        /\ \A i \in 1 .. Len(plugins) :
             plugins'[i].file = plugins[i].file /\ plugins'[i].exit = plugins[i].exit
    <3>1. CASE RegCallback
      <4>1. init.id \in 1 .. Len(plugins) /\ plugins' = [plugins EXCEPT ![init.id].cb = TRUE]
        BY <3>1, <1>t DEF RegCallback, Registers, InitInv
      <4> QED BY <1>f, <4>1, SetCallBack
    <3>2. CASE LoadModule
      <4>1. m \in 1 .. Len(plugins) /\ plugins' = [plugins EXCEPT ![m].loads = @ + 1]
        BY <3>2, <1>t DEF LoadModule, InitInv, TypeOK
      <4> QED BY <1>f, <4>1, SetCallBack
    <3>3. CASE CallBack
      <4>1. m \in 1 .. Len(plugins) /\ plugins' = [plugins EXCEPT ![m].calls = @ + 1]
        BY <3>3, <1>t DEF CallBack, InLoop, InitInv, TypeOK
      <4> QED BY <1>f, <4>1, SetCallBack
    <3> QED BY <1>5, <3>1, <3>2, <3>3
  <2>3. \A f : Exits(plugins', f) = Exits(plugins, f)
    BY <2>2 DEF Exits
  <2>4. \A f : Pending(f)' = Pending(f)
    BY <2>1 DEF Pending
  <2> QED BY <2>1, <2>2, <2>3, <2>4 DEF ExitInv
<1>6. CASE ExitPlugin
  <2>1. /\ pc = "plugin_exit" /\ pc' = pc /\ plugins # << >> /\ plugins' = Tail(plugins)
        /\ owed' = IF Head(plugins).exit THEN [owed EXCEPT ![Head(plugins).file] = @ - 1] ELSE owed
    BY <1>6 DEF ExitPlugin
  <2>2. /\ Len(plugins) = Len(plugins') + 1 /\ Len(plugins') \in Nat /\ Head(plugins) = plugins[1]
        /\ 1 \in 1 .. Len(plugins)
        /\ \A i \in 1 .. Len(plugins') : i + 1 \in 1 .. Len(plugins) /\ plugins'[i] = plugins[i + 1]
    BY <1>f, <2>1, SeqTail
  <2>3. ASSUME NEW f \in Files
        PROVE  Cardinality(Exits(plugins, f))
                 = Cardinality(Exits(plugins', f)) + (IF plugins[1].exit /\ plugins[1].file = f THEN 1 ELSE 0)
    <3>1. /\ Exits(plugins', f) \in SUBSET (1 .. Len(plugins'))
          /\ Exits(plugins, f) \in SUBSET (1 .. Len(plugins') + 1)
      BY <1>p, <2>2
    <3>2. \A i \in 1 .. Len(plugins') : i \in Exits(plugins', f) <=> i + 1 \in Exits(plugins, f)
      BY <2>2 DEF Exits
    <3>3. 1 \in Exits(plugins, f) <=> plugins[1].exit /\ plugins[1].file = f
      BY <2>2 DEF Exits
    <3>4. Cardinality(Exits(plugins, f))
            = Cardinality(Exits(plugins', f)) + (IF 1 \in Exits(plugins, f) THEN 1 ELSE 0)
      <4>1. Len(plugins') \in Nat
        BY <2>2
      <4> QED BY <3>1, <3>2, <4>1, CountAtHead, Zenon
    <3> QED BY <3>3, <3>4, Zenon
  <2>4. ASSUME NEW f \in Files PROVE owed'[f] + Pending(f)' = Cardinality(Exits(plugins', f))
    <3>1. owed[f] = Cardinality(Exits(plugins, f)) /\ owed[f] \in Int
      BY <1>c, <1>f, <2>1 DEF ExitInv, Pending
    <3>2. Pending(f)' = 0
      BY <2>1 DEF Pending
    <3>3. owed'[f] = owed[f] - (IF plugins[1].exit /\ plugins[1].file = f THEN 1 ELSE 0)
      BY <1>f, <2>1, <2>2
    <3>4. Cardinality(Exits(plugins', f)) \in Nat
      BY <1>p, <2>2, PlacesFinite
    <3> QED BY <2>3, <3>1, <3>2, <3>3, <3>4
  <2> QED BY <2>1, <2>4 DEF ExitInv
<1>7. CASE UNCHANGED <<plugins, owed, init>> /\ (pc' = "init" <=> pc = "init")
  <2>1. \A f : Pending(f)' = Pending(f)
    BY <1>7 DEF Pending
  <2> QED BY <1>7, <2>1 DEF ExitInv
<1>8. CASE \/ SkipEntry \/ LoadFails \/ SearchEnds \/ SkipStore \/ StoreDone \/ LoadingDone
  BY <1>7, <1>8 DEF SkipEntry, LoadFails, SearchEnds, SkipStore, StoreDone, LoadingDone, NextEntry,
                    InitReturns, InLoop
<1>9. CASE FlushEnds \/ LoggerExitEnds \/ CloseLibrary \/ IamExitReturns \/ IamExit
  BY <1>7, <1>9 DEF FlushEnds, LoggerExitEnds, CloseLibrary, IamExitReturns, IamExit, InitReturns
<1>10. CASE RegLog \/ RegAlgorithm \/ RegStore
  BY <1>7, <1>10 DEF RegLog, RegAlgorithm, RegStore, Registers
<1>11. CASE \E fn \in {"load", "dump"} : RegStoreFunction(fn)
  BY <1>7, <1>11 DEF RegStoreFunction, Registers
<1>12. CASE \E f \in Files : Save(f) \/ RunAlgorithm(f)
  BY <1>7, <1>12 DEF Save, RunAlgorithm
<1> QED
  BY <1>1, <1>2, <1>3, <1>4, <1>5, <1>6, <1>8, <1>9, <1>10, <1>11, <1>12 DEF Next, Proceeds

LEMMA ExitBegins == Init => ExitInv
<1> SUFFICES ASSUME Init PROVE ExitInv
  OBVIOUS
<1>1. \A f : Exits(plugins, f) = {}
  BY DEF Init, Exits
<1>2. Cardinality({}) = 0
  BY FS_EmptySet
<1>3. ASSUME NEW f \in Files PROVE owed[f] + Pending(f) = Cardinality(Exits(plugins, f))
  <2>1. Cardinality(Exits(plugins, f)) = 0
    BY <1>1, <1>2, Zenon
  <2>2. owed[f] = 0 /\ Pending(f) = 0
    BY DEF Init, Pending
  <2> QED BY <2>1, <2>2
<1> QED BY <1>3 DEF Init, ExitInv

LEMMA ExitSettled ==
  ASSUME HandleInv, MappedInv, ExitInv
  PROVE  ExitOwed
<1> SUFFICES ASSUME NEW f \in Files
             PROVE  owed[f] >= 0 /\ (mapped[f] = 0 => owed[f] = 0)
  BY DEF ExitOwed
<1>1. plugins \in Seq(ModuleSet) /\ Len(plugins) \in Nat /\ owed[f] \in Int /\ mapped[f] \in Nat
  BY DEF HandleInv, TypeOK
<1>2. Exits(plugins, f) \in SUBSET (1 .. Len(plugins))
  BY DEF Exits
<1>3. /\ Cardinality(Exits(plugins, f)) \in Nat
      /\ Cardinality(Exits(plugins, f)) = 0 <=> Exits(plugins, f) = {}
  BY <1>1, <1>2, PlacesFinite
<1>4. owed[f] + Pending(f) = Cardinality(Exits(plugins, f)) /\ Pending(f) \in {0, 1}
  BY DEF ExitInv, Pending
<1>5. Pending(f) = 1 => init.id \in Exits(plugins, f)
  BY DEF ExitInv, Pending, Exits
<1>6. mapped[f] = 0 => Exits(plugins, f) = {}
  BY DEF MappedInv, HooksMapped, Exits
<1> QED BY <1>1, <1>3, <1>4, <1>5, <1>6

(* Unless an init function fails or there is no memory for a module: the   *)
(* exit function of each plugin that has been loaded is called once, while *)
(* its library is open, in every session.                                  *)
THEOREM ExitsPaid ==
  ASSUME ModulesRegistered
  PROVE  Spec => []ExitOwed
<1>1. Init => MappedInv /\ ExitInv
  BY ExitBegins DEF Init, MappedInv, HooksMapped, CodeMapped
<1>2. ASSUME HandleInv, HandleInv', MappedInv, ExitInv, [Next]_vars
      PROVE  MappedInv' /\ ExitInv'
  <2>1. CASE Next
    BY <1>2, <2>1, MappedStep, ExitStep DEF ModulesRegistered
  <2>2. CASE UNCHANGED vars
    <3>1. UNCHANGED <<pc, plugins, mapped, logs, algs, stores, runs, init, owed>>
      BY <2>2 DEF vars, hooks
    <3>2. \A f : Pending(f)' = Pending(f)
      BY <3>1 DEF Pending
    <3> QED BY <1>2, <3>1, <3>2 DEF MappedInv, HooksMapped, CodeMapped, ExitInv
  <2> QED BY <1>2, <2>1, <2>2
<1>3. HandleInv /\ MappedInv /\ ExitInv => ExitOwed
  BY ExitSettled
<1> QED BY <1>1, <1>2, <1>3, HandleInvariant, PTL DEF Spec

-----------------------------------------------------------------------------
(* The search.                                                             *)

(* A directory lists each entry once, and the entry read stays as it was   *)
(* while the next one is read (src/os/unix.c; src/os/win.c reuses it).     *)
OneEntryEach ==
  /\ ~ReusesEntry
  /\ \A d \in Directories : \A i, j \in 1 .. Len(d) : d[i] = d[j] => i = j

LEMMA NothingMapped ==
  ASSUME TypeOK, HandleCount, pc = "off"
  PROVE  \A f \in Files : mapped[f] = 0
<1>1. libs = << >> /\ init.file \notin Files
  BY EntryAssumption DEF HandleCount, Nobody
<1>2. \A f \in Files : Handles(libs, f) = {}
  BY <1>1 DEF Handles
<1>3. Cardinality({}) = 0
  BY FS_EmptySet
<1> SUFFICES ASSUME NEW f \in Files PROVE mapped[f] = 0
  OBVIOUS
<1>4. Cardinality(Handles(libs, f)) = 0
  BY <1>2, <1>3, Zenon
<1> QED BY <1>1, <1>4 DEF HandleCount

(* The search loop moves on by one entry.                                  *)
LEMMA SearchMoves ==
  ASSUME TypeOK, SearchInv, NextEntry
  PROVE  /\ dir' = dir /\ dir \in Directories /\ Len(dir) \in Nat
         /\ Len(unread)' <= Len(dir)
         /\ \A i \in 1 .. Len(unread)' : unread'[i] = dir[Len(dir) - Len(unread)' + i]
         /\ entry' = NONE => unread' = << >>
         /\ entry' # NONE => Len(unread)' < Len(dir) /\ entry' = dir[Len(dir) - Len(unread)']
         /\ Read \in Nat /\ Read' = Read + 1 /\ Read' <= Len(dir) /\ dir[Read'] = entry
<1>1. /\ unread \in Seq(Files \cup Others) /\ Len(unread) \in Nat
      /\ dir \in Seq(Files \cup Others) /\ Len(dir) \in Nat
  BY DEF TypeOK
<1>2. /\ dir' = dir /\ dir \in Directories /\ entry # NONE
      /\ Len(unread) < Len(dir) /\ entry = dir[Len(dir) - Len(unread)]
      /\ \A i \in 1 .. Len(unread) : unread[i] = dir[Len(dir) - Len(unread) + i]
  BY DEF NextEntry, SearchInv, Searching
<1>3. Read = Len(dir) - Len(unread) - 1
  BY <1>2 DEF Read
<1>4. CASE unread = << >>
  <2>1. entry' = NONE /\ unread' = << >> /\ Len(unread) = 0 /\ Len(unread)' = 0
    BY <1>4 DEF NextEntry
  <2>2. Read' = Len(dir)
    BY <1>2, <2>1 DEF Read
  <2> QED BY <1>1, <1>2, <1>3, <2>1, <2>2
<1>5. CASE unread # << >>
  <2>1. entry' = Head(unread) /\ unread' = Tail(unread)
    BY <1>5 DEF NextEntry
  <2>2. /\ unread' \in Seq(Files \cup Others) /\ Len(unread') = Len(unread) - 1 /\ Len(unread') \in Nat
        /\ entry' = unread[1] /\ entry' \in Files \cup Others /\ 1 \in 1 .. Len(unread)
        /\ \A i \in 1 .. Len(unread') : i + 1 \in 1 .. Len(unread) /\ unread'[i] = unread[i + 1]
    BY <1>1, <1>5, <2>1, SeqTail
  <2>3. entry' # NONE
    BY <2>2, EntryAssumption
  <2>4. Read' = Len(dir) - Len(unread') - 1
    BY <1>2, <2>3 DEF Read
  <2>5. entry' = dir[Len(dir) - Len(unread) + 1] /\ entry' = dir[Len(dir) - Len(unread')]
    BY <1>1, <1>2, <2>2
  <2>6. ASSUME NEW i \in 1 .. Len(unread')
        PROVE  unread'[i] = dir[Len(dir) - Len(unread') + i]
    <3>1. i + 1 \in 1 .. Len(unread) /\ unread'[i] = unread[i + 1]
      BY <2>2
    <3>2. unread[i + 1] = dir[Len(dir) - Len(unread) + (i + 1)]
      BY <1>2, <3>1
    <3>3. Len(dir) - Len(unread) + (i + 1) = Len(dir) - Len(unread') + i
      BY <1>1, <2>2
    <3> QED BY <3>1, <3>2, <3>3
  <2> QED BY <1>1, <1>2, <1>3, <2>2, <2>3, <2>4, <2>5, <2>6
<1> QED BY <1>4, <1>5

LEMMA SearchStep ==
  ASSUME OneEntryEach, HandleInv, SearchInv, Next
  PROVE  SearchInv'
<1> USE DEF search, hooks, loop
<1>t. TypeOK /\ InitInv /\ HandleCount
  BY DEF HandleInv
<1>1. CASE IamInit
  <2>1. CASE pc' = "running"
    BY <2>1 DEF SearchInv, Searching
  <2>2. CASE pc' # "running"
    <3>1. PICK d \in Directories :
            /\ pc' = "search" /\ dir' = d
            /\ entry' = IF d = << >> THEN NONE ELSE Head(d)
            /\ unread' = IF d = << >> THEN << >> ELSE Tail(d)
      BY <1>1, <2>2 DEF IamInit, InitReturns
    <3>2. d \in Seq(Files \cup Others) /\ Len(d) \in Nat
      BY DirectoryAssumption
    <3>3. \A f \in Files : mapped'[f] = 0
      BY <1>1, <1>t, NothingMapped DEF IamInit
    <3>4. CASE d = << >>
      <4>1. entry' = NONE /\ unread' = << >> /\ dir' = << >> /\ Len(unread)' = 0 /\ Len(dir)' = 0
        BY <3>1, <3>4
      <4>2. Read' = 0
        BY <4>1 DEF Read
      <4> QED BY <3>1, <3>3, <4>1, <4>2 DEF SearchInv, Searching
    <3>5. CASE d # << >>
      <4>1. /\ unread' = Tail(d) /\ Len(unread') = Len(d) - 1 /\ entry' = d[1]
            /\ entry' \in Files \cup Others /\ Len(unread') \in Nat
            /\ \A i \in 1 .. Len(unread') : unread'[i] = d[i + 1]
        BY <3>1, <3>2, <3>5, SeqTail
      <4>2. entry' # NONE
        BY <4>1, EntryAssumption
      <4>3. Read' = 0
        BY <3>1, <3>2, <4>1, <4>2 DEF Read
      <4>4. ASSUME NEW i \in 1 .. Len(unread')
            PROVE  unread'[i] = d[Len(d) - Len(unread') + i]
        <5>1. unread'[i] = d[i + 1]
          BY <4>1, Zenon
        <5>2. Len(unread') = Len(d) - 1
          BY <4>1, Zenon
        <5>3. Len(d) - Len(unread') + i = i + 1
          BY <3>2, <5>2
        <5> QED BY <5>1, <5>3
      <4>5. Len(d) - Len(unread') = 1 /\ Len(unread') < Len(d) /\ Len(unread') <= Len(d)
        BY <3>2, <4>1
      <4>6. \A f \in Files : mapped'[f] = IF \E i \in 1 .. Read' : dir'[i] = f THEN 1 ELSE 0
        BY <3>3, <4>3
      <4> QED BY <3>1, <4>1, <4>2, <4>4, <4>5, <4>6 DEF SearchInv, Searching
    <3> QED BY <3>4, <3>5
  <2> QED BY <2>1, <2>2
<1>2. CASE LoadFails \/ LoadUndone \/ FlushEnds
  <2>1. pc' = "running"
    BY <1>2 DEF LoadFails, LoadUndone, FlushEnds, InitReturns
  <2> QED BY <2>1 DEF SearchInv, Searching
<1>3. CASE SkipEntry
  <2>1. NextEntry /\ pc = "search" /\ pc' = "search" /\ mapped' = mapped
    BY <1>3 DEF SkipEntry, NextEntry
  <2>2. entry \notin Files
    BY <1>3, EntryAssumption DEF SkipEntry, Name, OneEntryEach
  <2>3. /\ dir' = dir /\ dir \in Directories /\ Len(dir) \in Nat
        /\ Read \in Nat /\ Read' = Read + 1 /\ Read' <= Len(dir) /\ dir[Read'] = entry
    BY <1>t, <2>1, SearchMoves
  <2>4. \A f \in Files : (\E i \in 1 .. Read' : dir[i] = f) <=> (\E i \in 1 .. Read : dir[i] = f)
    BY <2>2, <2>3
  <2>5. \A f \in Files : mapped[f] = IF \E i \in 1 .. Read : dir[i] = f THEN 1 ELSE 0
    BY <2>1 DEF SearchInv, Searching
  <2>6. \A f \in Files : mapped'[f] = IF \E i \in 1 .. Read' : dir'[i] = f THEN 1 ELSE 0
    BY <2>1, <2>3, <2>4, <2>5
  <2> QED BY <1>t, <2>1, <2>3, <2>6, SearchMoves DEF SearchInv
<1>4. CASE LoadBegins
  <2>1. NextEntry /\ pc = "search" /\ pc' = "init" /\ Open(Name)
    BY <1>4 DEF LoadBegins, NextEntry
  <2>2. entry = Name /\ Name \in Files
    BY <1>4 DEF LoadBegins, Name, OneEntryEach
  <2>3. /\ dir' = dir /\ dir \in Directories /\ Len(dir) \in Nat
        /\ Read \in Nat /\ Read' = Read + 1 /\ Read' <= Len(dir) /\ dir[Read'] = entry
    BY <1>t, <2>1, SearchMoves
  <2>4. \A i \in 1 .. Read : dir[i] # entry
    BY <2>3 DEF OneEntryEach
  <2>5. \A f \in Files : (\E i \in 1 .. Read' : dir[i] = f) <=> (f = entry \/ \E i \in 1 .. Read : dir[i] = f)
    BY <2>3
  <2>6. \A f \in Files : mapped[f] = IF \E i \in 1 .. Read : dir[i] = f THEN 1 ELSE 0
    BY <2>1 DEF SearchInv, Searching
  <2>7. \A f \in Files : mapped'[f] = mapped[f] + (IF f = entry THEN 1 ELSE 0)
    BY <1>t, <2>1, <2>2 DEF Open, TypeOK
  <2>8. \A f \in Files : mapped'[f] = IF \E i \in 1 .. Read' : dir'[i] = f THEN 1 ELSE 0
    BY <2>3, <2>4, <2>5, <2>6, <2>7
  <2> QED BY <1>t, <2>1, <2>3, <2>8, SearchMoves DEF SearchInv
<1>5. CASE /\ UNCHANGED <<mapped, dir, unread, entry>> /\ (Searching' => Searching)
           /\ (pc' \in {"search", "init"} => pc \in {"search", "init"})
           /\ (pc' \in {"settings", "callback", "flush"} /\ pc \in {"search", "init"} => entry = NONE)
  <2>1. Read' = Read
    BY <1>5 DEF Read
  <2> QED BY <1>5, <2>1 DEF SearchInv, Searching
<1>6. CASE LoadEnds \/ SearchEnds
  BY <1>5, <1>6 DEF LoadEnds, SearchEnds, Searching
<1>7. CASE SkipStore \/ LoadModule \/ CallBack \/ StoreDone \/ LoadingDone
  BY <1>5, <1>7 DEF SkipStore, LoadModule, CallBack, StoreDone, LoadingDone, InLoop, Searching
<1>8. CASE IamExit \/ LoggerExitEnds \/ ExitPlugin \/ CloseLibrary \/ IamExitReturns
  <2>1. pc' \in {"logger_exit", "plugin_exit", "off"}
    BY <1>8 DEF IamExit, LoggerExitEnds, ExitPlugin, CloseLibrary, IamExitReturns
  <2> QED BY <2>1 DEF SearchInv, Searching
<1>9. CASE RegLog \/ RegAlgorithm \/ RegCallback \/ RegStore
  BY <1>5, <1>9 DEF RegLog, RegAlgorithm, RegCallback, RegStore, Registers, Searching
<1>10. CASE \E fn \in {"load", "dump"} : RegStoreFunction(fn)
  BY <1>5, <1>10 DEF RegStoreFunction, Registers, Searching
<1>11. CASE \E f \in Files : Save(f) \/ RunAlgorithm(f)
  BY <1>5, <1>11 DEF Save, RunAlgorithm, Searching
<1> QED
  BY <1>1, <1>2, <1>3, <1>4, <1>6, <1>7, <1>8, <1>9, <1>10, <1>11 DEF Next, Proceeds

(* Where the directory's entries are not overwritten while they are read,  *)
(* a search that succeeds has opened every plugin library of the directory *)
(* once and no other.                                                      *)
THEOREM EachLoadedOnce ==
  ASSUME OneEntryEach
  PROVE  Spec => []LoadedOnce
<1>1. Init => SearchInv
  BY DEF Init, SearchInv, Searching
<1>2. ASSUME HandleInv, SearchInv, [Next]_vars PROVE SearchInv'
  <2>1. CASE Next
    BY <1>2, <2>1, SearchStep
  <2>2. CASE UNCHANGED vars
    <3>1. UNCHANGED <<pc, dir, unread, entry, mapped>>
      BY <2>2 DEF vars, search
    <3>2. Read' = Read
      BY <3>1 DEF Read
    <3> QED BY <1>2, <3>1, <3>2 DEF SearchInv, Searching
  <2> QED BY <1>2, <2>1, <2>2
<1>3. ASSUME HandleInv, SearchInv PROVE LoadedOnce
  <2> SUFFICES ASSUME pc \in {"settings", "callback", "flush"}, NEW f \in Files
               PROVE  mapped[f] = IF f \in ToSet(dir) THEN 1 ELSE 0
    BY DEF LoadedOnce
  <2>1. /\ entry = NONE
        /\ mapped[f] = IF \E i \in 1 .. Read : dir[i] = f THEN 1 ELSE 0
    BY <1>3 DEF SearchInv, Searching
  <2>2. dir \in Seq(Files \cup Others) /\ Read = Len(dir)
    BY <1>3, <2>1 DEF Read, HandleInv, TypeOK
  <2>3. f \in ToSet(dir) <=> \E i \in 1 .. Len(dir) : dir[i] = f
    BY <2>2 DEF ToSet
  <2> QED BY <2>1, <2>2, <2>3
<1> QED BY <1>1, <1>2, <1>3, HandleInvariant, PTL DEF Spec

-----------------------------------------------------------------------------
(* The loading of settings.                                                *)

LEMMA OneMoreStore ==
  ASSUME NEW l \in Seq(StoreSet), NEW k \in 1 .. Len(l)
  PROVE  Cardinality(LoadsBefore(l, k + 1))
           = Cardinality(LoadsBefore(l, k)) + (IF l[k].load THEN 1 ELSE 0)
<1>1. PICK n \in Nat : k = n + 1
  BY k \in Nat, k - 1 \in Nat
<1>2. LoadsBefore(l, k) \in SUBSET (1 .. n) /\ LoadsBefore(l, k + 1) \in SUBSET (1 .. n + 1)
  BY <1>1 DEF LoadsBefore
<1>3. \A i \in 1 .. n : i \in LoadsBefore(l, k) <=> i \in LoadsBefore(l, k + 1)
  BY <1>1 DEF LoadsBefore
<1>4. n + 1 \in LoadsBefore(l, k + 1) <=> l[k].load
  BY <1>1 DEF LoadsBefore
<1> QED BY <1>2, <1>3, <1>4, CountAtEnd

(* What the three changes of a module do to its counts.                    *)
LEMMA FieldCounts ==
  ASSUME NEW q \in Seq(ModuleSet), NEW k \in 1 .. Len(q), NEW r
  PROVE  /\ r = [q EXCEPT ![k].cb = TRUE] =>
               /\ Len(r) = Len(q)
               /\ \A i \in 1 .. Len(q) : r[i].loads = q[i].loads /\ r[i].calls = q[i].calls
         /\ r = [q EXCEPT ![k].loads = @ + 1] =>
               /\ Len(r) = Len(q)
               /\ \A i \in 1 .. Len(q) : /\ r[i].loads = q[i].loads + (IF i = k THEN 1 ELSE 0)
                                         /\ r[i].calls = q[i].calls /\ r[i].cb = q[i].cb
         /\ r = [q EXCEPT ![k].calls = @ + 1] =>
               /\ Len(r) = Len(q)
               /\ \A i \in 1 .. Len(q) : /\ r[i].calls = q[i].calls + (IF i = k THEN 1 ELSE 0)
                                         /\ r[i].loads = q[i].loads /\ r[i].cb = q[i].cb
<1>1. PICK y \in ModuleSet : y = q[k]
  BY ElementIn
<1>0. \A i \in 1 .. Len(q) : q[i].loads \in Nat /\ q[i].calls \in Nat
  <2>1. \A i \in 1 .. Len(q) : q[i] \in ModuleSet
    BY ElementIn, Zenon
  <2> QED BY <2>1, Zenon DEF ModuleSet
<1> DEFINE a == [y EXCEPT !.cb = TRUE]
           b == [y EXCEPT !.loads = @ + 1]
           c == [y EXCEPT !.calls = @ + 1]
<1>2. a \in ModuleSet /\ b \in ModuleSet /\ c \in ModuleSet
  BY SetField
<1>3. /\ a.loads = y.loads /\ a.calls = y.calls
      /\ b.loads = y.loads + 1 /\ b.calls = y.calls /\ b.cb = y.cb
      /\ c.calls = y.calls + 1 /\ c.loads = y.loads /\ c.cb = y.cb
  BY DEF ModuleSet
<1>4. /\ r = [q EXCEPT ![k].cb = TRUE] => r = [q EXCEPT ![k] = a]
      /\ r = [q EXCEPT ![k].loads = @ + 1] => r = [q EXCEPT ![k] = b]
      /\ r = [q EXCEPT ![k].calls = @ + 1] => r = [q EXCEPT ![k] = c]
  BY <1>1
<1> HIDE DEF a, b, c
<1>5. \A x \in ModuleSet : r = [q EXCEPT ![k] = x] =>
        /\ Len(r) = Len(q) /\ \A i \in 1 .. Len(q) : r[i] = IF i = k THEN x ELSE q[i]
  BY SeqExcept
<1>6. ASSUME r = [q EXCEPT ![k].cb = TRUE]
      PROVE  /\ Len(r) = Len(q)
             /\ \A i \in 1 .. Len(q) : r[i].loads = q[i].loads /\ r[i].calls = q[i].calls
  <2>1. Len(r) = Len(q) /\ \A i \in 1 .. Len(q) : r[i] = IF i = k THEN a ELSE q[i]
    BY <1>2, <1>4, <1>5, <1>6, Zenon
  <2> QED BY <1>1, <1>3, <2>1
<1>7. ASSUME r = [q EXCEPT ![k].loads = @ + 1]
      PROVE  /\ Len(r) = Len(q)
             /\ \A i \in 1 .. Len(q) : /\ r[i].loads = q[i].loads + (IF i = k THEN 1 ELSE 0)
                                       /\ r[i].calls = q[i].calls /\ r[i].cb = q[i].cb
  <2>1. Len(r) = Len(q) /\ \A i \in 1 .. Len(q) : r[i] = IF i = k THEN b ELSE q[i]
    BY <1>2, <1>4, <1>5, <1>7, Zenon
  <2> QED BY <1>0, <1>1, <1>3, <2>1
<1>8. ASSUME r = [q EXCEPT ![k].calls = @ + 1]
      PROVE  /\ Len(r) = Len(q)
             /\ \A i \in 1 .. Len(q) : /\ r[i].calls = q[i].calls + (IF i = k THEN 1 ELSE 0)
                                       /\ r[i].loads = q[i].loads /\ r[i].cb = q[i].cb
  <2>1. Len(r) = Len(q) /\ \A i \in 1 .. Len(q) : r[i] = IF i = k THEN c ELSE q[i]
    BY <1>2, <1>4, <1>5, <1>8, Zenon
  <2> QED BY <1>0, <1>1, <1>3, <2>1
<1> QED BY <1>6, <1>7, <1>8

LEMMA LoopStep ==
  ASSUME HandleInv, LoopInv, Next
  PROVE  LoopInv'
<1> USE DEF search, hooks, loop
<1>t. TypeOK /\ InitInv
  BY DEF HandleInv
<1>f. /\ plugins \in Seq(ModuleSet) /\ stores \in Seq(StoreSet)
      /\ Len(plugins) \in Nat /\ Len(stores) \in Nat /\ s \in Nat /\ m \in Nat /\ s >= 1 /\ m >= 1
  BY <1>t, FilesOf DEF TypeOK, InitInv
<1>g. \A i \in 1 .. Len(plugins) :
        plugins[i].loads \in Nat /\ plugins[i].calls \in Nat /\ plugins[i].cb \in BOOLEAN
  <2>1. \A i \in 1 .. Len(plugins) : plugins[i] \in ModuleSet
    BY <1>f, ElementIn, Zenon
  <2> QED BY <2>1, Zenon DEF ModuleSet
<1>h. \A k : Cardinality(LoadsBefore(stores, k)) \in Nat
  <2>1. \A k : LoadsBefore(stores, k) \in SUBSET (1 .. Len(stores))
    BY DEF LoadsBefore
  <2> QED BY <1>f, <2>1, PlacesFinite
<1>1. CASE IamInit
  <2>1. plugins' = << >> /\ pc' \in {"running", "search"} /\ Len(plugins') = 0
    BY <1>1 DEF IamInit, InitReturns
  <2> QED BY <2>1 DEF LoopInv
<1>2. CASE /\ plugins' = plugins /\ pc # "callback"
           /\ pc' \notin {"settings", "callback", "flush"}
           /\ (pc' \in {"search", "init"} => pc \in {"search", "init"})
  BY <1>2 DEF LoopInv
<1>3. CASE SkipEntry \/ LoadFails \/ LoadEnds \/ LoadUndone \/ FlushEnds
  BY <1>2, <1>3 DEF SkipEntry, LoadFails, LoadEnds, LoadUndone, FlushEnds, NextEntry, InitReturns
<1>4. CASE RegLog \/ RegAlgorithm \/ RegStore
  BY <1>2, <1>4 DEF RegLog, RegAlgorithm, RegStore, Registers
<1>5. CASE \E fn \in {"load", "dump"} : RegStoreFunction(fn)
  BY <1>2, <1>5 DEF RegStoreFunction, Registers
<1>6. CASE IamExit \/ LoggerExitEnds \/ CloseLibrary \/ IamExitReturns
  BY <1>2, <1>6 DEF IamExit, LoggerExitEnds, CloseLibrary, IamExitReturns
<1>7. CASE \E f \in Files : Save(f) \/ RunAlgorithm(f)
  <2>1. UNCHANGED <<pc, plugins, stores, s, m>>
    BY <1>7 DEF Save, RunAlgorithm
  <2>2. UNCHANGED LoopInv
    BY <2>1 DEF LoopInv, LoadsBefore, Visited
  <2> QED BY <2>2
<1>8. CASE LoadBegins
  <2>1. pc = "search" /\ pc' = "init" /\ Name \in Files
    BY <1>8 DEF LoadBegins, NextEntry
  <2>2. PICK e \in BOOLEAN :
          \/ UNCHANGED plugins
          \/ plugins' = Append(plugins, [file |-> Name, exit |-> e, cb |-> FALSE,
                                        loads |-> 0, calls |-> 0])
    BY <1>8 DEF LoadBegins
  <2> DEFINE g == [file |-> Name, exit |-> e, cb |-> FALSE, loads |-> 0, calls |-> 0]
  <2>3. g \in ModuleSet /\ g.loads = 0 /\ g.calls = 0
    BY <2>1 DEF ModuleSet
  <2>4. plugins' = plugins \/ plugins' = Append(plugins, g)
    BY <2>2
  <2> HIDE DEF g
  <2>5. \A i \in 1 .. Len(Append(plugins, g)) :
          \/ Append(plugins, g)[i] = g
          \/ i \in 1 .. Len(plugins) /\ Append(plugins, g)[i] = plugins[i]
    BY <1>f, <2>3, AppendCases
  <2>6. \A i \in 1 .. Len(plugins) : plugins[i].loads = 0 /\ plugins[i].calls = 0
    BY <2>1 DEF LoopInv
  <2>7. \A i \in 1 .. Len(plugins') : plugins'[i].loads = 0 /\ plugins'[i].calls = 0
    BY <2>3, <2>4, <2>5, <2>6
  <2> QED BY <2>1, <2>7 DEF LoopInv
<1>9. CASE RegCallback
  <2>1. /\ pc = "init" /\ pc' = "init" /\ init.id \in 1 .. Len(plugins)
        /\ plugins' = [plugins EXCEPT ![init.id].cb = TRUE]
    BY <1>9, <1>t DEF RegCallback, Registers, InitInv
  <2>2. \A i \in 1 .. Len(plugins) : plugins[i].loads = 0 /\ plugins[i].calls = 0
    BY <2>1 DEF LoopInv
  <2>3. \A i \in 1 .. Len(plugins') : plugins'[i].loads = 0 /\ plugins'[i].calls = 0
    BY <1>f, <2>1, <2>2, FieldCounts
  <2> QED BY <2>1, <2>3 DEF LoopInv
<1>10. CASE SearchEnds
  <2>1. /\ pc = "search" /\ pc' = "settings" /\ s' = 1 /\ m' = 1
        /\ UNCHANGED <<plugins, stores>>
    BY <1>10 DEF SearchEnds
  <2>2. \A i \in 1 .. Len(plugins) : plugins[i].loads = 0 /\ plugins[i].calls = 0
    BY <2>1 DEF LoopInv
  <2>3. LoadsBefore(stores, 1) = {} /\ Cardinality({}) = 0
    BY <1>f, FS_EmptySet DEF LoadsBefore
  <2>4. Cardinality(LoadsBefore(stores, s)') = 0
    BY <2>1, <2>3 DEF LoadsBefore
  <2>5. \A i \in 1 .. Len(plugins) : Visited(i)' = 0
    BY <2>1 DEF Visited
  <2>6. s' \in 1 .. Len(stores)' + 1 /\ m' \in 1 .. Len(plugins)' + 1
    BY <1>f, <2>1
  <2> QED BY <2>1, <2>2, <2>4, <2>5, <2>6 DEF LoopInv
<1>11. CASE SkipStore
  <2>1. /\ pc = "settings" /\ pc' = "settings" /\ s \in 1 .. Len(stores) /\ ~stores[s].load
        /\ s' = s + 1 /\ UNCHANGED <<m, plugins, stores>>
    BY <1>11, <1>f DEF SkipStore, InLoop
  <2>2. m = 1 /\ \A i \in 1 .. Len(plugins) :
                   plugins[i].loads = Cardinality(LoadsBefore(stores, s)) + Visited(i)
    BY <2>1 DEF LoopInv
  <2>3. \A i \in 1 .. Len(plugins) : Visited(i) = 0 /\ Visited(i)' = 0
    BY <2>1, <2>2 DEF Visited
  <2>4. Cardinality(LoadsBefore(stores, s)') = Cardinality(LoadsBefore(stores, s))
    <3>1. LoadsBefore(stores, s)' = LoadsBefore(stores, s + 1)
      BY <2>1 DEF LoadsBefore
    <3> QED BY <1>f, <1>h, <2>1, <3>1, OneMoreStore
  <2>5. s' \in 1 .. Len(stores)' + 1 /\ m' \in 1 .. Len(plugins)' + 1 /\ m' = 1
    BY <1>f, <2>1, <2>2
  <2> QED BY <2>1, <2>2, <2>3, <2>4, <2>5 DEF LoopInv
<1>12. CASE LoadModule
  <2>1. /\ pc = "settings" /\ s \in 1 .. Len(stores) /\ stores[s].load /\ m \in 1 .. Len(plugins)
        /\ plugins' = [plugins EXCEPT ![m].loads = @ + 1] /\ UNCHANGED <<s, stores>>
    BY <1>12, <1>f DEF LoadModule, InLoop
  <2>2. \/ plugins[m].cb /\ pc' = "callback" /\ m' = m
        \/ ~plugins[m].cb /\ pc' = "settings" /\ m' = m + 1
    BY <1>12, <2>1 DEF LoadModule
  <2>3. /\ Len(plugins') = Len(plugins)
        /\ \A i \in 1 .. Len(plugins) :
             /\ plugins'[i].loads = plugins[i].loads + (IF i = m THEN 1 ELSE 0)
             /\ plugins'[i].calls = plugins[i].calls /\ plugins'[i].cb = plugins[i].cb
    BY <1>f, <2>1, FieldCounts
  <2>4. LoadsBefore(stores, s)' = LoadsBefore(stores, s)
    BY <2>1 DEF LoadsBefore
  <2>5. \A i \in 1 .. Len(plugins) : Visited(i)' = Visited(i) + (IF i = m THEN 1 ELSE 0)
    BY <1>f, <2>1, <2>2 DEF Visited
  <2>6. \A i \in 1 .. Len(plugins) : /\ plugins[i].loads = Cardinality(LoadsBefore(stores, s)) + Visited(i)
                                     /\ Visited(i) \in Nat
                                     /\ plugins[i].cb => plugins[i].loads = plugins[i].calls
    BY <1>g, <2>1 DEF LoopInv, Visited
  <2>7. \A i \in 1 .. Len(plugins') :
          plugins'[i].loads = Cardinality(LoadsBefore(stores, s)') + Visited(i)'
    BY <1>h, <2>3, <2>4, <2>5, <2>6
  <2>8. \A i \in 1 .. Len(plugins') : plugins'[i].cb =>
          plugins'[i].loads = plugins'[i].calls + (IF pc' = "callback" /\ i = m' THEN 1 ELSE 0)
    <3> SUFFICES ASSUME NEW i \in 1 .. Len(plugins), plugins[i].cb
                 PROVE  plugins'[i].loads
                          = plugins'[i].calls + (IF pc' = "callback" /\ i = m' THEN 1 ELSE 0)
      BY <2>3
    <3>1. /\ plugins[i].loads = plugins[i].calls /\ plugins'[i].calls = plugins[i].calls
          /\ plugins'[i].loads = plugins[i].loads + (IF i = m THEN 1 ELSE 0)
          /\ plugins[i].calls \in Nat
      BY <1>g, <2>3, <2>6
    <3>2. pc' = "callback" /\ i = m' <=> i = m
      BY <1>f, <2>2
    <3> QED BY <3>1, <3>2
  <2>9. /\ s' \in 1 .. Len(stores)' + 1 /\ m' \in 1 .. Len(plugins)' + 1
        /\ ~(s' > Len(stores)' \/ ~stores'[s'].load)
        /\ pc' \in {"settings", "callback"}
        /\ pc' = "callback" => /\ s' <= Len(stores') /\ stores'[s'].load
                               /\ m' <= Len(plugins') /\ plugins'[m'].cb
    BY <1>f, <2>1, <2>2, <2>3
  <2> QED BY <2>7, <2>8, <2>9 DEF LoopInv
<1>13. CASE CallBack
  <2>1. /\ pc = "callback" /\ pc' = "settings" /\ m' = m + 1 /\ UNCHANGED <<s, stores>>
        /\ plugins' = [plugins EXCEPT ![m].calls = @ + 1]
    BY <1>13 DEF CallBack, InLoop
  <2>2. s \in 1 .. Len(stores) /\ stores[s].load /\ m \in 1 .. Len(plugins) /\ plugins[m].cb
    BY <1>f, <2>1 DEF LoopInv
  <2>3. /\ Len(plugins') = Len(plugins)
        /\ \A i \in 1 .. Len(plugins) :
             /\ plugins'[i].calls = plugins[i].calls + (IF i = m THEN 1 ELSE 0)
             /\ plugins'[i].loads = plugins[i].loads /\ plugins'[i].cb = plugins[i].cb
    BY <1>f, <2>1, <2>2, FieldCounts
  <2>4. LoadsBefore(stores, s)' = LoadsBefore(stores, s)
    BY <2>1 DEF LoadsBefore
  <2>5. \A i \in 1 .. Len(plugins) : Visited(i)' = Visited(i)
    BY <1>f, <2>1, <2>2 DEF Visited
  <2>6. \A i \in 1 .. Len(plugins) :
          /\ plugins[i].loads = Cardinality(LoadsBefore(stores, s)) + Visited(i)
          /\ plugins[i].cb => plugins[i].loads = plugins[i].calls + (IF i = m THEN 1 ELSE 0)
    BY <1>g, <2>1 DEF LoopInv
  <2>7. \A i \in 1 .. Len(plugins') :
          plugins'[i].loads = Cardinality(LoadsBefore(stores, s)') + Visited(i)'
    BY <2>3, <2>4, <2>5, <2>6
  <2>8. \A i \in 1 .. Len(plugins') : plugins'[i].cb => plugins'[i].loads = plugins'[i].calls
    BY <1>g, <2>3, <2>6
  <2>9. /\ s' \in 1 .. Len(stores)' + 1 /\ m' \in 1 .. Len(plugins)' + 1
        /\ ~(s' > Len(stores)' \/ ~stores'[s'].load)
    BY <1>f, <2>1, <2>2, <2>3
  <2>10. \A i \in 1 .. Len(plugins') : plugins'[i].calls \in Nat
    BY <1>g, <2>3
  <2> QED BY <2>1, <2>7, <2>8, <2>9, <2>10 DEF LoopInv
<1>14. CASE StoreDone
  <2>1. /\ pc = "settings" /\ pc' = "settings" /\ s \in 1 .. Len(stores) /\ stores[s].load
        /\ m > Len(plugins) /\ s' = s + 1 /\ m' = 1 /\ UNCHANGED <<plugins, stores>>
    BY <1>14, <1>f DEF StoreDone, InLoop
  <2>2. \A i \in 1 .. Len(plugins) :
          plugins[i].loads = Cardinality(LoadsBefore(stores, s)) + Visited(i)
    BY <2>1 DEF LoopInv
  <2>3. \A i \in 1 .. Len(plugins) : Visited(i) = 1 /\ Visited(i)' = 0
    BY <1>f, <2>1 DEF Visited
  <2>4. Cardinality(LoadsBefore(stores, s)') = Cardinality(LoadsBefore(stores, s)) + 1
    <3>1. LoadsBefore(stores, s)' = LoadsBefore(stores, s + 1)
      BY <2>1 DEF LoadsBefore
    <3> QED BY <1>f, <1>h, <2>1, <3>1, OneMoreStore
  <2>5. s' \in 1 .. Len(stores)' + 1 /\ m' \in 1 .. Len(plugins)' + 1
    BY <1>f, <2>1
  <2>6. \A i \in 1 .. Len(plugins') :
          plugins'[i].loads = Cardinality(LoadsBefore(stores, s)') + Visited(i)'
    BY <1>h, <2>1, <2>2, <2>3, <2>4
  <2> QED BY <2>1, <2>5, <2>6 DEF LoopInv
<1>15. CASE LoadingDone
  <2>1. pc = "settings" /\ pc' = "flush" /\ s > Len(stores) /\ UNCHANGED <<plugins, stores, s, m>>
    BY <1>15 DEF LoadingDone, InLoop
  <2>2. LoadsBefore(stores, s) = {j \in 1 .. Len(stores) : stores[j].load}
    BY <1>f, <2>1 DEF LoadsBefore
  <2>3. \A i \in 1 .. Len(plugins) : plugins[i].loads = Cardinality(LoadsBefore(stores, s))
    <3>1. \A i \in 1 .. Len(plugins) : Visited(i) = 0
      BY <1>f, <2>1 DEF Visited
    <3> QED BY <1>h, <2>1, <3>1 DEF LoopInv
  <2> QED BY <2>1, <2>2, <2>3 DEF LoopInv
<1>16. CASE ExitPlugin
  <2>1. pc = "plugin_exit" /\ pc' = "plugin_exit" /\ plugins # << >> /\ plugins' = Tail(plugins)
    BY <1>16 DEF ExitPlugin
  <2>2. \A i \in 1 .. Len(plugins') : i + 1 \in 1 .. Len(plugins) /\ plugins'[i] = plugins[i + 1]
    BY <1>f, <2>1, SeqTail
  <2>3. \A i \in 1 .. Len(plugins) : plugins[i].cb => plugins[i].loads = plugins[i].calls + 0
    BY <2>1 DEF LoopInv
  <2> QED BY <2>1, <2>2, <2>3 DEF LoopInv
<1> QED
  BY <1>1, <1>3, <1>4, <1>5, <1>6, <1>7, <1>8, <1>9, <1>10, <1>11, <1>12, <1>13, <1>14, <1>15,
     <1>16 DEF Next, Proceeds

(* For every plugin, whatever fails: its callback is called once after     *)
(* each load of its settings; and when the settings are in, they have been *)
(* loaded once from each setting store that loads.                         *)
THEOREM SettingsDelivered == Spec => []SettingsReachPlugins
<1>1. Init => LoopInv
  <2> SUFFICES ASSUME Init PROVE LoopInv
    OBVIOUS
  <2>1. plugins = << >> /\ pc = "off" /\ Len(plugins) = 0
    BY DEF Init
  <2> QED BY <2>1 DEF LoopInv
<1>2. ASSUME HandleInv, LoopInv, [Next]_vars PROVE LoopInv'
  <2>1. CASE Next
    BY <1>2, <2>1, LoopStep
  <2>2. CASE UNCHANGED vars
    <3>1. UNCHANGED <<pc, plugins, stores, s, m>>
      BY <2>2 DEF vars, hooks, loop
    <3> QED BY <1>2, <3>1 DEF LoopInv, LoadsBefore, Visited
  <2> QED BY <1>2, <2>1, <2>2
<1>3. LoopInv => SettingsReachPlugins
  BY DEF LoopInv, SettingsReachPlugins
<1> QED BY <1>1, <1>2, <1>3, HandleInvariant, PTL DEF Spec
=============================================================================
