------------------------------ MODULE Programs ------------------------------
(***************************************************************************)
(* The programs of examples/ on the whole library: the Python extension    *)
(* iam_py.c (init_lib, exit_lib, fit and predict, in any order a script    *)
(* calls them) and print_info of viewer.c, with what they reach: the       *)
(* cursors of info.c and setting.c, the ring of texts in variable.c, the   *)
(* algorithms of algorithm_manager.c, and the plugins of the repository,   *)
(* whose static variables live as long as their library is mapped.         *)
(*                                                                         *)
(* iam_init and iam_exit, step by step in module Plugins, are one step     *)
(* each; of the failures of iam_init those that register nothing are       *)
(* here.  A call whose arguments Python refuses changes nothing.           *)
(***************************************************************************)
EXTENDS Integers, SequencesExt

CONSTANTS
  Listings,    \* what the plugin directory may hold, sequences of plugins
  DetIds,      \* detector sets a script asks for, or setting.json says
  SetCount,    \* sets of detectors that exist (8)
  BufferSize,  \* IAM__BS (128)
  MaxSym       \* MAX_SYM_UINT64 (20), the longest text of a number

Plugin == {"NSA_RV", "NSA_RA", "NSA_RS", "log_txt", "setting_json"}

(* The plugins with something that their callback prepares: the detectors, *)
(* the open log file.                                                      *)
Holders == {"NSA_RV", "log_txt"}

ASSUME ListingAssumption == Listings \subseteq Seq(Plugin)
ASSUME DetIdAssumption == DetIds \subseteq Nat /\ 0 \in DetIds /\ SetCount \in Nat
ASSUME BufferAssumption == MaxSym \in Nat \ {0} /\ BufferSize \in Nat /\ MaxSym < BufferSize

(* The settings each plugin registers, in order.                           *)
Settings == [
  NSA_RV |-> <<"attr_n", "det_n", "det_r", "isVdetectors", "det_id">>,
  NSA_RA |-> <<"t", "coeff">>,
  NSA_RS |-> << >>,
  log_txt |-> <<"logfile">>,
  setting_json |-> << >>]

SettingName ==
  {"attr_n", "det_n", "det_r", "isVdetectors", "det_id", "t", "coeff", "logfile"}

(* The values of a setting that are numbers, and so pass through the ring. *)
Numbers(s) ==
  CASE s = "t" -> 3
    [] s = "coeff" -> 2
    [] s \in {"isVdetectors", "logfile"} -> 0
    [] OTHER -> 1

VARIABLES
  pc,       \* "ready", in a call, or "undefined"
  cause,    \* what the undefined behaviour came from
  plugins,  \* iam__plugins
  algs,     \* iam__real_algs: [id, fn], fn for fit and predict
  kept,     \* holders an iam_init forgot: their libraries stay mapped
  mem,      \* of each holder: "none", "held" or "freed"
  isVdetectors, det_id,
  cursor,   \* iam__module_current: the modules still to be read (rest), of
            \* which list: the "current" one, one "lost", or one "freed"
  unread,   \* current_setting of the module in hand: the settings to be read
  asked,    \* the arguments of fit or predict
  left,     \* values of the setting in hand still to be printed
  iam__var_i,
  printed,  \* history: what print_info has printed
  complete  \* history: each iam_init got as far as the callbacks, and
            \* log_txt, if it is there, opened its file

library == <<plugins, algs, kept, complete>>
statics == <<mem, isVdetectors, det_id>>
view == <<left, iam__var_i, printed>>
vars == <<pc, cause, library, statics, cursor, unread, asked, view>>

NULL == [rest |-> << >>, of |-> "current"]
Nobody == [alg |-> "", v |-> FALSE, id |-> 0]

(* A process has begun.                                                    *)
Init ==
  /\ pc = "ready" /\ cause = ""
  /\ plugins = << >> /\ algs = {} /\ kept = {} /\ complete = TRUE
  /\ mem = [h \in Holders |-> "none"] /\ isVdetectors = TRUE /\ det_id = 0
  /\ cursor = NULL /\ unread = << >> /\ asked = Nobody
  /\ left = 0 /\ iam__var_i = 0 /\ printed = << >>

Undefined(c) == pc' = "undefined" /\ cause' = c

(* Another process instead of the one that is lost.                        *)
Restart ==
  /\ pc = "undefined" /\ pc' = "ready" /\ cause' = ""
  /\ plugins' = << >> /\ algs' = {} /\ kept' = {} /\ complete' = TRUE
  /\ mem' = [h \in Holders |-> "none"] /\ isVdetectors' = TRUE /\ det_id' = 0
  /\ cursor' = NULL /\ unread' = << >> /\ asked' = Nobody
  /\ left' = 0 /\ iam__var_i' = 0 /\ printed' = << >>
-----------------------------------------------------------------------------
(* init_lib and exit_lib.                                                  *)

(* The plugins that register an algorithm: NSA_RV gives it fit and         *)
(* predict, NSA_RA does not; its two pointers are what malloc left there.  *)
(* NSA_RS registers a binary algorithm, which nothing calls.  A call goes  *)
(* to all algorithms of the name, so that their order is left out.         *)
Registered(ps, junk) ==
  {[id |-> p, fn |-> IF p = "NSA_RV" THEN "NSA_RV" ELSE junk] :
     p \in ToSet(ps) \cap {"NSA_RV", "NSA_RA"}}

(* The store loads each module's settings and the callbacks run: NSA_RV    *)
(* allocates its detectors, log_txt opens its file unless that fails.      *)
Configure(ps, opens) ==
  /\ mem' = [h \in Holders |->
               IF h \notin ToSet(ps) THEN mem[h]
               ELSE IF h = "log_txt" /\ ~opens THEN "none" ELSE "held"]
  /\ IF "NSA_RV" \in ToSet(ps) THEN isVdetectors' \in BOOLEAN /\ det_id' \in DetIds
     ELSE UNCHANGED <<isVdetectors, det_id>>

(* iam__module_current when iam__plugins becomes empty.                    *)
Abandoned(how) ==
  IF cursor.rest # << >> /\ cursor.of = "current" THEN [cursor EXCEPT !.of = how] ELSE cursor

(* iam_init on the listing l, of which the first n plugins load.  It sets  *)
(* up lists over whatever they held.  Then come the settings, if there is  *)
(* a store, and the flush, which has log_txt write to its file.            *)
IamInit(l, n, junk, opens) ==
  LET ps == SubSeq(l, 1, n)
      success == n = Len(l)
      stores == success /\ "setting_json" \in ToSet(ps)
  IN  /\ pc = "ready"
      /\ plugins' = ps /\ algs' = Registered(ps, junk)
      /\ kept' = kept \cup (Holders \cap ToSet(plugins))
      /\ IF stores THEN Configure(ps, opens) ELSE UNCHANGED statics
      /\ complete' = (complete /\ stores /\ (opens \/ "log_txt" \notin ToSet(ps)))
      /\ IF success /\ "log_txt" \in ToSet(ps) /\ mem'["log_txt"] # "held"
         THEN Undefined("memory") ELSE UNCHANGED <<pc, cause>>
      /\ cursor' = Abandoned("lost")
      /\ UNCHANGED <<unread, asked, view>>

(* What iam_exit leaves of the plugins' memory, once their exit functions  *)
(* ran and their libraries are closed.  nsa_rv_exit frees nothing when it  *)
(* cannot open activations_count.txt (writes = FALSE).                     *)
Released(writes) ==
  [h \in Holders |->
     IF h \notin ToSet(plugins) THEN mem[h]
     ELSE IF h \notin kept THEN "none"
     ELSE IF h = "NSA_RV" /\ ~writes THEN mem[h] ELSE "freed"]

(* Exit functions that find their memory missing.                          *)
ExitsWithout(writes) ==
  \/ "log_txt" \in ToSet(plugins) /\ mem["log_txt"] # "held"
  \/ "NSA_RV" \in ToSet(plugins) /\ writes /\ mem["NSA_RV"] # "held"

(* Variant: the list of modules still has its nodes after iam_exit.        *)
IamExitKeepsList(writes) ==
  /\ pc = "ready"
  /\ IF ExitsWithout(writes) THEN Undefined("memory") ELSE UNCHANGED <<pc, cause>>
  /\ mem' = Released(writes)
  /\ UNCHANGED <<library, isVdetectors, det_id, cursor, unread, asked, view>>

IamExit(writes) ==
  /\ pc = "ready"
  /\ IF ExitsWithout(writes) THEN Undefined("memory") ELSE UNCHANGED <<pc, cause>>
  /\ mem' = Released(writes)
  /\ IF "NSA_RV" \in ToSet(plugins) \ kept THEN isVdetectors' = TRUE /\ det_id' = 0
     ELSE UNCHANGED <<isVdetectors, det_id>>
  /\ plugins' = << >> /\ algs' = {}
  /\ cursor' = Abandoned("freed")
  /\ UNCHANGED <<kept, complete, unread, asked, view>>
-----------------------------------------------------------------------------
(* iam_module_rewind and iam_module_read.                                  *)
Rewind == cursor' = [rest |-> plugins, of |-> "current"]

Reads(m) ==
  /\ cursor.rest # << >> /\ m = Head(cursor.rest)
  /\ cursor' = [cursor EXCEPT !.rest = Tail(@)]
-----------------------------------------------------------------------------
(* fit and predict: set_mode looks for the algorithm's module and, if that *)
(* is NSA_RV, sets two of its settings; then the call goes to each         *)
(* algorithm of that name with a function.                                 *)

Ask(alg, v, id) ==
  /\ pc = "ready" /\ pc' = "find"
  /\ asked' = [alg |-> alg, v |-> v, id |-> id]
  /\ Rewind
  /\ UNCHANGED <<cause, library, statics, unread, view>>

(* Variant: a module that is not the one looked for is read for ever.      *)
PassByStays ==
  /\ pc = "find" /\ cursor.rest # << >>
  /\ Head(cursor.rest) # asked.alg
  /\ UNCHANGED vars

PassBy ==
  /\ pc = "find"
  /\ \E m \in Plugin : Reads(m) /\ m # asked.alg
  /\ UNCHANGED <<pc, cause, library, statics, unread, asked, view>>

Find ==
  /\ pc = "find" /\ Reads(asked.alg)
  /\ IF asked.alg = "NSA_RV" THEN pc' = "mode" /\ unread' = Settings[asked.alg]
     ELSE pc' = "call" /\ UNCHANGED unread
  /\ UNCHANGED <<cause, library, statics, asked, view>>

FindNone ==
  /\ pc = "find" /\ cursor.rest = << >>
  /\ pc' = "call"
  /\ UNCHANGED <<cause, library, statics, cursor, unread, asked, view>>

(* Variant: the loop over the settings ends at the first one that is set.  *)
SetModeOnce ==
  /\ pc = "mode" /\ unread # << >>
  /\ isVdetectors' = IF Head(unread) = "isVdetectors" THEN asked.v ELSE isVdetectors
  /\ unread' = IF Head(unread) = "isVdetectors" THEN << >> ELSE Tail(unread)
  /\ UNCHANGED <<pc, cause, library, mem, det_id, cursor, asked, view>>

SetMode ==
  /\ pc = "mode" /\ unread # << >>
  /\ isVdetectors' = IF Head(unread) = "isVdetectors" THEN asked.v ELSE isVdetectors
  /\ det_id' = IF Head(unread) = "det_id" THEN asked.id ELSE det_id
  /\ unread' = Tail(unread)
  /\ UNCHANGED <<pc, cause, library, mem, cursor, asked, view>>

SetModeEnds ==
  /\ pc = "mode" /\ unread = << >>
  /\ pc' = "call"
  /\ UNCHANGED <<cause, library, statics, cursor, unread, asked, view>>

(* The functions that iam_real_alg_fit or iam_real_alg_predict calls.      *)
Called == {a.fn : a \in {a \in algs : a.id = asked.alg}} \ {"NULL"}

Call ==
  /\ pc = "call"
  /\ IF Called = {} THEN pc' = "ready" /\ UNCHANGED cause
     ELSE IF "junk" \in Called THEN Undefined("function")
     ELSE IF det_id >= SetCount THEN Undefined("set")
     ELSE IF mem["NSA_RV"] # "held" THEN Undefined("memory")
     ELSE pc' = "running" /\ UNCHANGED cause
  /\ asked' = IF pc' = "running" THEN asked ELSE Nobody
  /\ UNCHANGED <<library, statics, cursor, unread, view>>

(* fit or predict of NSA_RV (module NsaRv) returns.                        *)
Return ==
  /\ pc = "running"
  /\ pc' = "ready" /\ asked' = Nobody
  /\ UNCHANGED <<cause, library, statics, cursor, unread, view>>
-----------------------------------------------------------------------------
(* print_info.                                                             *)
PrintInfo ==
  /\ pc = "ready" /\ pc' = "view"
  /\ Rewind
  /\ UNCHANGED <<cause, library, statics, unread, asked, view>>

(* Variant: the settings of a module are read on from where they are.      *)
PrintModuleNoRewind ==
  /\ pc = "view"
  /\ \E m \in Plugin : Reads(m) /\ printed' = Append(printed, m)
  /\ pc' = "print"
  /\ UNCHANGED <<cause, library, statics, unread, asked, left, iam__var_i>>

PrintModule ==
  /\ pc = "view"
  /\ \E m \in Plugin :
       Reads(m) /\ printed' = Append(printed, m) /\ unread' = Settings[m]
  /\ pc' = "print"
  /\ UNCHANGED <<cause, library, statics, asked, left, iam__var_i>>

PrintSetting ==
  /\ pc = "print" /\ left = 0 /\ unread # << >>
  /\ printed' = Append(printed, Head(unread))
  /\ left' = Numbers(Head(unread)) /\ unread' = Tail(unread)
  /\ UNCHANGED <<pc, cause, library, statics, cursor, asked, iam__var_i>>

(* Variant: the ring starts anew one symbol too late.                      *)
NextTextLate(n) == IF iam__var_i + n + MaxSym > BufferSize THEN 0 ELSE iam__var_i + n

(* Where the text after one of n symbols goes.                             *)
NextText(n) == IF iam__var_i + n + MaxSym >= BufferSize THEN 0 ELSE iam__var_i + n

PrintValue ==
  /\ pc = "print" /\ left > 0
  /\ \E n \in 1 .. MaxSym : iam__var_i' = NextText(n)
  /\ left' = left - 1
  /\ UNCHANGED <<pc, cause, library, statics, cursor, unread, asked, printed>>

PrintModuleEnds ==
  /\ pc = "print" /\ left = 0 /\ unread = << >>
  /\ pc' = "view"
  /\ UNCHANGED <<cause, library, statics, cursor, unread, asked, view>>

PrintEnds ==
  /\ pc = "view" /\ cursor.rest = << >>
  /\ pc' = "ready" /\ printed' = << >>
  /\ UNCHANGED <<cause, library, statics, cursor, unread, asked, left, iam__var_i>>
-----------------------------------------------------------------------------
(* The steps of a call in progress.                                        *)
Proceeds ==
  \/ PassBy \/ Find \/ FindNone \/ SetMode \/ SetModeEnds \/ Call \/ Return
  \/ PrintModule \/ PrintSetting \/ PrintValue \/ PrintModuleEnds \/ PrintEnds

Next ==
  \/ Proceeds \/ PrintInfo \/ Restart
  \/ \E l \in Listings, junk \in {"NULL", "junk"}, opens \in BOOLEAN :
       \E n \in 0 .. Len(l) : IamInit(l, n, junk, opens)
  \/ \E writes \in BOOLEAN : IamExit(writes)
  \/ \E alg \in Plugin \cup {"other"}, v \in BOOLEAN, id \in DetIds : Ask(alg, v, id)

(* The calls are one thread's straight-line code.                          *)
Spec == Init /\ [][Next]_vars /\ WF_vars(Proceeds)
-----------------------------------------------------------------------------
(* The variables have their types; above all, wherever the next text goes, *)
(* the longest number and its final NUL fit into the ring.                 *)
TypeOK ==
  /\ pc \in {"ready", "find", "mode", "call", "running", "view", "print", "undefined"}
  /\ cause \in {"", "memory", "function", "set"}
  /\ plugins \in Seq(Plugin) /\ kept \subseteq Holders /\ complete \in BOOLEAN
  /\ algs \subseteq [id : Plugin, fn : {"NSA_RV", "NULL", "junk"}]
  /\ mem \in [Holders -> {"none", "held", "freed"}]
  /\ isVdetectors \in BOOLEAN /\ det_id \in DetIds
  /\ cursor \in [rest : Seq(Plugin), of : {"current", "lost", "freed"}]
  /\ unread \in Seq(SettingName)
  /\ asked \in [alg : Plugin \cup {"other", ""}, v : BOOLEAN, id : DetIds]
  /\ left \in Nat /\ printed \in Seq(Plugin \cup SettingName)
  /\ iam__var_i \in Nat /\ iam__var_i + MaxSym < BufferSize

(* Scripts call init_lib, exit_lib, fit, predict in any order, a second    *)
(* init_lib or exit_lib included: as long as every iam_init reached the    *)
(* callbacks, no plugin's function ever misses its memory.  The cursor     *)
(* that set_mode leaves in the middle of a list is never read after        *)
(* iam_exit has freed that list.                                           *)
AnyOrderSafe ==
  /\ cause = "memory" => ~complete
  /\ pc \in {"find", "view"} /\ cursor.rest # << >> => cursor.of # "freed"

(* When a function of NSA_RV runs, it runs in the mode and on the set of   *)
(* detectors of this call, whatever calls and sessions came before.        *)
RunsAsAsked ==
  pc = "running" => asked.alg = "NSA_RV" /\ isVdetectors = asked.v /\ det_id = asked.id

(* print_info shows each module and each of its settings once, in the      *)
(* order of registration, however far other readers had come.              *)
ViewerComplete ==
  [][pc = "view" /\ pc' = "ready" =>
       printed = FlattenSeq([j \in DOMAIN plugins |-> <<plugins[j]>> \o Settings[plugins[j]]])]_vars

(* Every call returns, or the program is lost.                             *)
CallsReturn == pc \notin {"ready", "undefined"} ~> pc \in {"ready", "undefined"}
=============================================================================
