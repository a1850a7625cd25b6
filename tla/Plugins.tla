------------------------------ MODULE Plugins -------------------------------
(***************************************************************************)
(* src/plugin_manager.c with src/init.c and the loading loop of            *)
(* src/setting_manager.c: iam_init searches the plugin directory, opens    *)
(* each library, registers its module and calls its init function, has the *)
(* setting stores load each module's settings, and flushes the logger;     *)
(* iam_exit undoes it.  What a plugin registers while its init runs (log   *)
(* stores, setting stores, callbacks, algorithms, its exit function) is a  *)
(* pointer into its library, called long after: the module follows which   *)
(* libraries are mapped when their code runs.                              *)
(***************************************************************************)
EXTENDS Integers, FiniteSets, SequencesExt

CONSTANTS
  Files,        \* the plugin libraries (entries that end in IAM_SHARED_EXT)
  Others,       \* the other entries of the plugin directory
  NONE,
  Directories,  \* the listings of the directory, sequences of entries
  ReusesEntry,  \* findnext overwrites the entry read before (src/os/win.c)
  Faults,       \* what may go wrong, a subset of FaultKinds
  MaxStores     \* bound: setting stores registered in one session

FaultKinds == {"dir_not_found", "open_error", "init_not_found", "no_init_call",
               "no_module", "init_failed", "no_library_node"}

ASSUME EntryAssumption == Files \cap Others = {} /\ NONE \notin Files \cup Others
ASSUME DirectoryAssumption == Directories \subseteq Seq(Files \cup Others)
ASSUME FaultAssumption ==
  ReusesEntry \in BOOLEAN /\ Faults \subseteq FaultKinds /\ MaxStores \in Nat

VARIABLES
  pc,        \* where iam_init or iam_exit is
  status,    \* what this session's iam_init returned
  dir,       \* the listing of the open directory
  unread,    \* the entries not read yet
  entry,     \* the entry f points to, NONE when readdir is done
  plugins,   \* iam__plugins
  libs,      \* iam__libraries
  mapped,    \* per library, how many handles are open
  init,      \* the plugin whose init function runs: [file, id, exit]
  logs,      \* the plugins that own a log store
  algs,      \* the plugins that own an algorithm
  stores,    \* iam__setting_stores
  s, m,      \* the loop variables of iam__setting_manager_load
  runs,      \* the plugin whose code the last step called, or NONE
  owed       \* history: exit calls a plugin may still expect in this session

search == <<dir, unread, entry>>
hooks == <<logs, algs, stores>>
loop == <<s, m>>
vars == <<pc, status, search, plugins, libs, mapped, init, hooks, loop, runs, owed>>

Nobody == [file |-> NONE, id |-> 0, exit |-> FALSE]

Init ==
  /\ pc = "off" /\ status = "none"
  /\ dir = << >> /\ unread = << >> /\ entry = NONE
  /\ plugins = << >> /\ libs = << >> /\ mapped = [f \in Files |-> 0]
  /\ init = Nobody
  /\ logs = {} /\ algs = {} /\ stores = << >>
  /\ s = 1 /\ m = 1 /\ runs = NONE
  /\ owed = [f \in Files |-> 0]

Open(f) == mapped' = [mapped EXCEPT ![f] = @ + 1]
Close(f) == mapped' = [mapped EXCEPT ![f] = @ - 1]

(* iam_init returns the status r; its callers run on whatever it is        *)
(* (viewer.c and iam_py.c ignore it) and call iam_exit in the end.         *)
InitReturns(r) == pc' = "running" /\ status' = r

(* iam_init up to the search: the managers' lists are emptied.             *)
IamInit ==
  /\ pc = "off"
  /\ plugins' = << >> /\ libs' = << >>
  /\ logs' = {} /\ algs' = {} /\ stores' = << >>
  /\ \/ /\ "dir_not_found" \in Faults
        /\ InitReturns("dir_not_found")
        /\ UNCHANGED search
     \/ \E d \in Directories :
          /\ pc' = "search" /\ status' = "none"
          /\ dir' = d
          /\ entry' = IF d = << >> THEN NONE ELSE Head(d)
          /\ unread' = IF d = << >> THEN << >> ELSE Tail(d)
  /\ owed' = [f \in Files |-> 0]
  /\ UNCHANGED <<mapped, init, loop, runs>>

(* Variant: the name of the entry read ahead.                              *)
NameAhead == IF unread # << >> THEN Head(unread) ELSE entry

(* One turn of the search loop reads the name through a pointer into the   *)
(* entry, then moves on to the next entry, then looks at the name.         *)
Name == IF ReusesEntry /\ unread # << >> THEN Head(unread) ELSE entry

NextEntry ==
  /\ pc = "search" /\ entry # NONE
  /\ entry' = IF unread = << >> THEN NONE ELSE Head(unread)
  /\ unread' = IF unread = << >> THEN << >> ELSE Tail(unread)
  /\ UNCHANGED dir

SkipEntry ==
  /\ NextEntry
  /\ Name \in Others
  /\ UNCHANGED <<pc, status, plugins, libs, mapped, init, hooks, loop, runs, owed>>

(* iam__plugin_manager_load gives up before it registers anything; a       *)
(* library it has opened is closed.                                        *)
LoadFails ==
  /\ NextEntry
  /\ Name \in Files
  /\ \E r \in Faults \cap {"open_error", "init_not_found", "no_init_call"} :
       InitReturns(r)
  /\ UNCHANGED <<plugins, libs, mapped, init, hooks, loop, runs, owed>>

(* The library is opened, iam_plugin_exit asked for the exit function, the *)
(* module registered and the init function called.  The result of the      *)
(* registration is not checked: with no memory init is given NULL.         *)
LoadBegins ==
  /\ NextEntry
  /\ Name \in Files
  /\ Open(Name)
  /\ \E e \in BOOLEAN :
       \/ /\ plugins' = Append(plugins, [file |-> Name, exit |-> e, cb |-> FALSE,
                                         loads |-> 0, calls |-> 0])
          /\ init' = [file |-> Name, id |-> Len(plugins'), exit |-> e]
       \/ /\ "no_module" \in Faults
          /\ init' = [file |-> Name, id |-> 0, exit |-> e]
          /\ UNCHANGED plugins
  /\ pc' = "init" /\ runs' = Name
  /\ UNCHANGED <<status, libs, hooks, loop, owed>>

(* What an init function may register.                                     *)
Registers == pc = "init" /\ UNCHANGED <<pc, status, search, libs, mapped, init,
                                        loop, runs, owed>>

RegLog == Registers /\ logs' = logs \cup {init.file} /\ UNCHANGED <<plugins, algs, stores>>

RegAlgorithm == Registers /\ algs' = algs \cup {init.file} /\ UNCHANGED <<plugins, logs, stores>>

(* iam_setting_reg_callback writes to the module: with NULL the program    *)
(* ends there.                                                             *)
RegCallback ==
  /\ Registers /\ init.id # 0
  /\ plugins' = [plugins EXCEPT ![init.id].cb = TRUE]
  /\ UNCHANGED hooks

RegStore ==
  /\ Registers /\ Len(stores) < MaxStores
  /\ stores' = Append(stores, [file |-> init.file, load |-> FALSE, dump |-> FALSE])
  /\ UNCHANGED <<plugins, logs, algs>>

RegStoreFunction(fn) ==
  /\ Registers
  /\ \E i \in DOMAIN stores :
       stores[i].file = init.file /\ stores' = [stores EXCEPT ![i][fn] = TRUE]
  /\ UNCHANGED <<plugins, logs, algs>>

(* The init function returned 0 and the library is kept, or it is closed   *)
(* again; its module and hooks are not taken back.                         *)
LoadEnds ==
  /\ pc = "init"
  /\ pc' = "search"
  /\ libs' = Append(libs, init.file)
  /\ owed' = IF init.exit THEN [owed EXCEPT ![init.file] = @ + 1] ELSE owed
  /\ init' = Nobody /\ runs' = NONE
  /\ UNCHANGED <<status, search, plugins, mapped, hooks, loop>>

(* Variants: the library of a failed plugin is not closed, or is kept in   *)
(* the list and closed again by iam_exit.                                  *)
LoadUndoneOpen ==
  /\ pc = "init"
  /\ \E r \in Faults \cap {"init_failed", "no_library_node"} : InitReturns(r)
  /\ init' = Nobody /\ runs' = NONE
  /\ UNCHANGED <<search, plugins, libs, mapped, hooks, loop, owed>>

LoadUndoneListed ==
  /\ pc = "init"
  /\ \E r \in Faults \cap {"init_failed", "no_library_node"} : InitReturns(r)
  /\ Close(init.file)
  /\ libs' = Append(libs, init.file)
  /\ init' = Nobody /\ runs' = NONE
  /\ UNCHANGED <<search, plugins, hooks, loop, owed>>

LoadUndone ==
  /\ pc = "init"
  /\ \E r \in Faults \cap {"init_failed", "no_library_node"} : InitReturns(r)
  /\ Close(init.file)
  /\ init' = Nobody /\ runs' = NONE
  /\ UNCHANGED <<search, plugins, libs, hooks, loop, owed>>

SearchEnds ==
  /\ pc = "search" /\ entry = NONE
  /\ pc' = "settings" /\ s' = 1 /\ m' = 1
  /\ UNCHANGED <<status, search, plugins, libs, mapped, init, hooks, runs, owed>>

(* iam__setting_manager_load: for each store with a load function, for     *)
(* each module, load its settings and call it back; then dump the store.   *)
InLoop(l) == pc = l /\ UNCHANGED <<status, search, libs, mapped, init, hooks, owed>>

(* Variant: the outer loop does not move past a store without load.        *)
SkipStoreStays ==
  /\ InLoop("settings") /\ s <= Len(stores) /\ ~stores[s].load
  /\ UNCHANGED vars

SkipStore ==
  /\ InLoop("settings") /\ s <= Len(stores) /\ ~stores[s].load
  /\ s' = s + 1
  /\ UNCHANGED <<pc, m, plugins, runs>>

LoadModule ==
  /\ InLoop("settings") /\ s <= Len(stores) /\ stores[s].load /\ m <= Len(plugins)
  /\ plugins' = [plugins EXCEPT ![m].loads = @ + 1]
  /\ runs' = stores[s].file
  /\ IF plugins[m].cb THEN pc' = "callback" /\ m' = m ELSE pc' = pc /\ m' = m + 1
  /\ UNCHANGED s

CallBack ==
  /\ InLoop("callback")
  /\ plugins' = [plugins EXCEPT ![m].calls = @ + 1]
  /\ runs' = plugins[m].file
  /\ pc' = "settings" /\ m' = m + 1
  /\ UNCHANGED s

(* Variant: the inner loop is not started again for the next store.        *)
StoreDoneNoReset ==
  /\ InLoop("settings") /\ s <= Len(stores) /\ stores[s].load /\ m > Len(plugins)
  /\ runs' = IF stores[s].dump THEN stores[s].file ELSE NONE
  /\ s' = s + 1
  /\ UNCHANGED <<pc, m, plugins>>

StoreDone ==
  /\ InLoop("settings") /\ s <= Len(stores) /\ stores[s].load /\ m > Len(plugins)
  /\ runs' = IF stores[s].dump THEN stores[s].file ELSE NONE
  /\ s' = s + 1 /\ m' = 1
  /\ UNCHANGED <<pc, plugins>>

LoadingDone ==
  /\ InLoop("settings") /\ s > Len(stores)
  /\ pc' = "flush" /\ runs' = NONE
  /\ UNCHANGED <<plugins, loop>>

(* Module Logger in its drains: the log stores' save functions are called. *)
Save(f) ==
  /\ pc \in {"flush", "logger_exit"} /\ f \in logs
  /\ runs' = f
  /\ UNCHANGED <<pc, status, search, plugins, libs, mapped, init, hooks, loop, owed>>

FlushEnds ==
  /\ pc = "flush"
  /\ InitReturns("success") /\ runs' = NONE
  /\ UNCHANGED <<search, plugins, libs, mapped, init, hooks, loop, owed>>

(* iam_real_alg_fit and iam_real_alg_predict.                              *)
RunAlgorithm(f) ==
  /\ pc = "running" /\ f \in algs
  /\ runs' = f
  /\ UNCHANGED <<pc, status, search, plugins, libs, mapped, init, hooks, loop, owed>>

(* iam_exit: algorithms, logger, setting stores, plugins, libraries.       *)
IamExit ==
  /\ pc = "running"
  /\ pc' = "logger_exit" /\ algs' = {} /\ runs' = NONE
  /\ UNCHANGED <<status, search, plugins, libs, mapped, init, logs, stores, loop, owed>>

LoggerExitEnds ==
  /\ pc = "logger_exit"
  /\ pc' = "plugin_exit" /\ logs' = {} /\ stores' = << >> /\ runs' = NONE
  /\ UNCHANGED <<status, search, plugins, libs, mapped, init, algs, loop, owed>>

(* Variant: the modules are freed without their exit functions.            *)
ExitSilently ==
  /\ pc = "plugin_exit" /\ plugins # << >>
  /\ plugins' = Tail(plugins) /\ runs' = NONE
  /\ UNCHANGED <<pc, status, search, libs, mapped, init, hooks, loop, owed>>

ExitPlugin ==
  /\ pc = "plugin_exit" /\ plugins # << >>
  /\ LET g == Head(plugins)
     IN  IF g.exit
         THEN runs' = g.file /\ owed' = [owed EXCEPT ![g.file] = @ - 1]
         ELSE runs' = NONE /\ owed' = owed
  /\ plugins' = Tail(plugins)
  /\ UNCHANGED <<pc, status, search, libs, mapped, init, hooks, loop>>

(* Variant: the libraries are closed before the plugins have exited.       *)
CloseLibraryFirst ==
  /\ pc = "plugin_exit" /\ libs # << >>
  /\ Close(Head(libs))
  /\ libs' = Tail(libs) /\ runs' = NONE
  /\ UNCHANGED <<pc, status, search, plugins, init, hooks, loop, owed>>

CloseLibrary ==
  /\ pc = "plugin_exit" /\ plugins = << >> /\ libs # << >>
  /\ Close(Head(libs))
  /\ libs' = Tail(libs) /\ runs' = NONE
  /\ UNCHANGED <<pc, status, search, plugins, init, hooks, loop, owed>>

IamExitReturns ==
  /\ pc = "plugin_exit" /\ plugins = << >> /\ libs = << >>
  /\ pc' = "off" /\ status' = "none" /\ runs' = NONE
  /\ dir' = << >> /\ unread' = << >> /\ entry' = NONE /\ s' = 1 /\ m' = 1
  /\ UNCHANGED <<plugins, libs, mapped, init, hooks, owed>>

(* The library's own steps; what a plugin's or the program's code decides  *)
(* to call is not among them.                                              *)
Proceeds ==
  \/ SkipEntry \/ LoadFails \/ LoadBegins \/ LoadEnds \/ LoadUndone \/ SearchEnds
  \/ SkipStore \/ LoadModule \/ CallBack \/ StoreDone \/ LoadingDone
  \/ FlushEnds \/ LoggerExitEnds \/ ExitPlugin \/ CloseLibrary \/ IamExitReturns

Next ==
  \/ IamInit \/ IamExit \/ Proceeds
  \/ RegLog \/ RegAlgorithm \/ RegCallback \/ RegStore
  \/ \E fn \in {"load", "dump"} : RegStoreFunction(fn)
  \/ \E f \in Files : Save(f) \/ RunAlgorithm(f)

(* iam_init and iam_exit are one thread's straight-line code; that the     *)
(* plugins' functions return, and a drain ends (Logger!DrainEnds), is the  *)
(* plugins' part.                                                          *)
Spec == Init /\ [][Next]_vars /\ WF_vars(Proceeds)
-----------------------------------------------------------------------------
ModuleSet == [file : Files, exit : BOOLEAN, cb : BOOLEAN, loads : Nat, calls : Nat]
StoreSet == [file : Files, load : BOOLEAN, dump : BOOLEAN]

(* The lists, the handles and the hooks have their types.                  *)
TypeOK ==
  /\ pc \in {"off", "search", "init", "settings", "callback", "flush", "running",
             "logger_exit", "plugin_exit"}
  /\ status \in FaultKinds \cup {"none", "success"}
  /\ dir \in Seq(Files \cup Others) /\ unread \in Seq(Files \cup Others)
  /\ entry \in Files \cup Others \cup {NONE}
  /\ plugins \in Seq(ModuleSet)
  /\ libs \in Seq(Files) /\ mapped \in [Files -> Nat]
  /\ init \in [file : Files \cup {NONE}, id : Nat, exit : BOOLEAN]
  /\ logs \subseteq Files /\ algs \subseteq Files
  /\ stores \in Seq(StoreSet)
  /\ s \in Nat /\ m \in Nat /\ runs \in Files \cup {NONE} /\ owed \in [Files -> Int]

(* No function of a plugin is called once its library is closed: neither a *)
(* save in a drain, a load, a dump or a callback, an algorithm nor an exit *)
(* function, in whatever session and after whatever failure.               *)
CodeMapped == runs # NONE => mapped[runs] > 0

(* Every handle opened is closed: open handles are those of the libraries  *)
(* list and of the plugin whose init runs, and none is left when iam_exit  *)
(* has returned, however far iam_init came.                                *)
HandlesKept ==
  /\ \A f \in Files :
       mapped[f] = Cardinality({i \in 1 .. Len(libs) : libs[i] = f})
                   + (IF init.file = f THEN 1 ELSE 0)
  /\ pc = "off" => libs = << >> /\ init = Nobody

(* A search that succeeds has loaded each plugin of the directory once.    *)
LoadedOnce ==
  pc \in {"settings", "callback", "flush"} =>
    \A f \in Files : mapped[f] = IF f \in ToSet(dir) THEN 1 ELSE 0

(* When the settings are in, every module's settings have been loaded from *)
(* every store that loads, and a module with a callback has been called    *)
(* back after each load and before anything else was loaded: what the      *)
(* callback prepares (the log file, the detectors) is there when the       *)
(* module's save, fit or exit function needs it.                           *)
SettingsReachPlugins ==
  LET loading == Cardinality({i \in 1 .. Len(stores) : stores[i].load})
  IN  /\ \A i \in 1 .. Len(plugins) :
           plugins[i].cb =>
             plugins[i].loads = plugins[i].calls + (IF pc = "callback" /\ i = m THEN 1 ELSE 0)
      /\ pc = "flush" => \A i \in 1 .. Len(plugins) : plugins[i].loads = loading

(* A plugin whose init function succeeded has its exit function called     *)
(* exactly once, and before its library is closed; one that failed never.  *)
ExitOwed == \A f \in Files : owed[f] >= 0 /\ (mapped[f] = 0 => owed[f] = 0)

(* iam_init and iam_exit return.                                           *)
IamReturns == pc \notin {"off", "running"} ~> pc \in {"off", "running"}

(* tests/test_plugin.c:106 (the test of a failing init function) expects   *)
(* the library closed and nothing appended to a list: no module of a       *)
(* closed library stays registered.                                        *)
FailedInitForgotten ==
  pc = "running" => \A i \in 1 .. Len(plugins) : mapped[plugins[i].file] > 0
=============================================================================
