--------------------------- MODULE ProgramsProofs ---------------------------
(***************************************************************************)
(* The programs: what any order of calls of the Python module and the      *)
(* viewer does, proved for every set of plugin directories and every size  *)
(* of the ring of texts.                                                   *)
(***************************************************************************)
EXTENDS Programs, SequenceTheorems, Induction, TLAPS

-----------------------------------------------------------------------------
(* The inductive invariants.                                               *)

(* The algorithms are those of the modules in the list, and only NSA_RV's  *)
(* has a function.                                                         *)
AlgInv ==
  \A a \in algs : a.id \in ToSet(plugins) /\ (a.fn = "NSA_RV" => a.id = "NSA_RV")

(* What its callback prepares is there for each plugin in the list, as     *)
(* long as each iam_init got that far.                                     *)
HoldInv ==
  /\ complete /\ pc # "undefined" => \A h \in Holders \cap ToSet(plugins) : mem[h] = "held"
  /\ cause = "memory" => ~complete

(* A reader reads the list it has rewound to.                              *)
CursorInv == pc \in {"find", "view", "print"} => cursor.of = "current"

SafeInv == AlgInv /\ HoldInv /\ CursorInv

(* On the way to NSA_RV's function both of its settings are still to be    *)
(* passed, or have the values asked for.                                   *)
ModeSet == isVdetectors = asked.v /\ det_id = asked.id

AskedInv ==
  /\ pc = "find" /\ "NSA_RV" \in ToSet(plugins) /\ asked.alg = "NSA_RV" =>
       "NSA_RV" \in ToSet(cursor.rest)
  /\ pc = "mode" => /\ isVdetectors = asked.v \/ "isVdetectors" \in ToSet(unread)
                    /\ det_id = asked.id \/ "det_id" \in ToSet(unread)
  /\ pc = "call" /\ "NSA_RV" \in ToSet(plugins) /\ asked.alg = "NSA_RV" => ModeSet
  /\ RunsAsAsked

-----------------------------------------------------------------------------
(* Sequences.                                                              *)

LEMMA ToSetIs ==
  ASSUME NEW S, NEW q \in Seq(S)
  PROVE  ToSet(q) = {q[n] : n \in 1 .. Len(q)}
<1>1. DOMAIN q = 1 .. Len(q)
  OBVIOUS
<1> QED BY <1>1, Zenon DEF ToSet

LEMMA Taken ==
  ASSUME NEW S, NEW q \in Seq(S), q # << >>
  PROVE  /\ Head(q) \in S /\ Tail(q) \in Seq(S) /\ Head(q) \in ToSet(q)
         /\ \A x \in ToSet(q) : x = Head(q) \/ x \in ToSet(Tail(q))
<1>1. /\ Head(q) = q[1] /\ Tail(q) \in Seq(S) /\ Head(q) \in S /\ 1 \in 1 .. Len(q)
      /\ Len(q) \in Nat /\ Len(Tail(q)) = Len(q) - 1
      /\ \A n \in 1 .. Len(Tail(q)) : Tail(q)[n] = q[n + 1]
  OBVIOUS
<1>2. ToSet(q) = {q[n] : n \in 1 .. Len(q)} /\ ToSet(Tail(q)) = {Tail(q)[n] : n \in 1 .. Len(Tail(q))}
  BY <1>1, ToSetIs, Zenon
<1>3. ASSUME NEW n \in 1 .. Len(q)
      PROVE  q[n] = Head(q) \/ q[n] \in ToSet(Tail(q))
  <2>1. CASE n = 1
    BY <1>1, <2>1
  <2>2. CASE n # 1
    <3>1. n - 1 \in 1 .. Len(Tail(q)) /\ Tail(q)[n - 1] = q[(n - 1) + 1] /\ (n - 1) + 1 = n
      BY <1>1, <2>2
    <3> QED BY <1>2, <3>1
  <2> QED BY <2>1, <2>2
<1> QED BY <1>1, <1>2, <1>3

LEMMA ElementsOf ==
  ASSUME NEW S, NEW q \in Seq(S)
  PROVE  ToSet(q) \subseteq S
  BY DEF ToSet

LEMMA NoElements == ToSet(<< >>) = {}
  BY DEF ToSet

LEMMA AppendTyped ==
  ASSUME NEW S, NEW q \in Seq(S), NEW x \in S
  PROVE  Append(q, x) \in Seq(S)
  OBVIOUS

LEMMA FirstOf ==
  ASSUME NEW S, NEW q \in Seq(S), NEW n \in 0 .. Len(q)
  PROVE  SubSeq(q, 1, n) \in Seq(S)
<1>1. \A j \in 1 .. n : q[j] \in S
  OBVIOUS
<1>2. 1 \in Int /\ n \in Int
  OBVIOUS
<1> QED BY <1>1, <1>2, SubSeqProperties, Zenon

-----------------------------------------------------------------------------
(* The data of the plugins.                                                *)

LEMMA SettingsTyped ==
  \A p \in Plugin : Settings[p] \in Seq(SettingName)
<1>1. /\ Settings["NSA_RV"] = <<"attr_n", "det_n", "det_r", "isVdetectors", "det_id">>
      /\ Settings["NSA_RA"] = <<"t", "coeff">> /\ Settings["log_txt"] = <<"logfile">>
      /\ Settings["NSA_RS"] = << >> /\ Settings["setting_json"] = << >>
  BY DEF Settings
<1>2. /\ "attr_n" \in SettingName /\ "det_n" \in SettingName /\ "det_r" \in SettingName
      /\ "isVdetectors" \in SettingName /\ "det_id" \in SettingName
      /\ "t" \in SettingName /\ "coeff" \in SettingName /\ "logfile" \in SettingName
  BY DEF SettingName
<1>3. Settings["NSA_RV"] \in Seq(SettingName)
  BY <1>1, <1>2
<1>4. Settings["NSA_RA"] \in Seq(SettingName)
  BY <1>1, <1>2
<1>5. Settings["log_txt"] \in Seq(SettingName)
  BY <1>1, <1>2
<1>6. Settings["NSA_RS"] \in Seq(SettingName) /\ Settings["setting_json"] \in Seq(SettingName)
  BY <1>1
<1> QED BY <1>3, <1>4, <1>5, <1>6 DEF Plugin

LEMMA NumbersTyped == \A x : Numbers(x) \in Nat
<1> TAKE x
<1>1. CASE x = "t"
  BY <1>1 DEF Numbers
<1>2. CASE x = "coeff"
  BY <1>2 DEF Numbers
<1>3. CASE x \in {"isVdetectors", "logfile"}
  BY <1>3 DEF Numbers
<1>4. CASE x # "t" /\ x # "coeff" /\ x \notin {"isVdetectors", "logfile"}
  BY <1>4 DEF Numbers
<1> QED BY <1>1, <1>2, <1>3, <1>4

LEMMA SettingsOfNsaRv ==
  /\ Settings["NSA_RV"] \in Seq(SettingName)
  /\ "isVdetectors" \in ToSet(Settings["NSA_RV"]) /\ "det_id" \in ToSet(Settings["NSA_RV"])
<1> DEFINE q == <<"attr_n", "det_n", "det_r", "isVdetectors", "det_id">>
<1>1. Settings["NSA_RV"] = q
  BY DEF Settings
<1>2. Len(q) = 5 /\ q[4] = "isVdetectors" /\ q[5] = "det_id"
  OBVIOUS
<1>3. Settings["NSA_RV"] \in Seq(SettingName)
  BY SettingsTyped DEF Plugin
<1> HIDE DEF q
<1>4. ToSet(q) = {q[n] : n \in 1 .. 5}
  BY <1>1, <1>2, <1>3, ToSetIs
<1>5. 4 \in 1 .. 5 /\ 5 \in 1 .. 5
  OBVIOUS
<1>6. q[4] \in ToSet(q) /\ q[5] \in ToSet(q)
  BY <1>4, <1>5, Zenon
<1> QED BY <1>1, <1>2, <1>3, <1>6

(* The ring: the next text starts where the longest number still fits.     *)
LEMMA RingTyped ==
  ASSUME iam__var_i \in Nat, iam__var_i + MaxSym < BufferSize, NEW n \in 1 .. MaxSym
  PROVE  NextText(n) \in Nat /\ NextText(n) + MaxSym < BufferSize
<1>1. MaxSym \in Nat /\ BufferSize \in Nat /\ MaxSym < BufferSize
  BY BufferAssumption
<1> QED BY <1>1 DEF NextText
-----------------------------------------------------------------------------
(* Types.                                                                  *)

LEMMA TypeInit == Init => TypeOK
<1> SUFFICES ASSUME Init PROVE TypeOK
  OBVIOUS
<1>1. mem = [h \in Holders |-> "none"] /\ cursor = NULL /\ asked = Nobody
  BY Zenon DEF Init
<1>2. mem \in [Holders -> {"none", "held", "freed"}]
  BY <1>1
<1>3. cursor \in [rest : Seq(Plugin), of : {"current", "lost", "freed"}]
  BY <1>1 DEF NULL
<1>4. asked \in [alg : Plugin \cup {"other", ""}, v : BOOLEAN, id : DetIds]
  BY <1>1, DetIdAssumption DEF Nobody
<1>5. iam__var_i = 0 /\ left = 0
  BY Zenon DEF Init
<1>6. iam__var_i \in Nat /\ iam__var_i + MaxSym < BufferSize /\ left \in Nat
  BY <1>5, BufferAssumption
<1>7. det_id \in DetIds /\ isVdetectors \in BOOLEAN /\ complete \in BOOLEAN
  BY DetIdAssumption, Zenon DEF Init
<1>8. plugins = << >> /\ unread = << >> /\ printed = << >>
  BY Zenon DEF Init
<1>9. plugins \in Seq(Plugin) /\ unread \in Seq(SettingName) /\ printed \in Seq(Plugin \cup SettingName)
  BY <1>8
<1>10. pc = "ready" /\ cause = "" /\ kept = {} /\ algs = {}
  BY Zenon DEF Init
<1> QED BY <1>2, <1>3, <1>4, <1>6, <1>7, <1>9, <1>10, Zenon DEF TypeOK

LEMMA TypeRestart == Restart => TypeOK'
<1> SUFFICES ASSUME Restart PROVE TypeOK'
  OBVIOUS
<1>1. mem' = [h \in Holders |-> "none"] /\ cursor' = NULL /\ asked' = Nobody
  BY Zenon DEF Restart
<1>2. mem' \in [Holders -> {"none", "held", "freed"}]
  BY <1>1
<1>3. cursor' \in [rest : Seq(Plugin), of : {"current", "lost", "freed"}]
  BY <1>1 DEF NULL
<1>4. asked' \in [alg : Plugin \cup {"other", ""}, v : BOOLEAN, id : DetIds]
  BY <1>1, DetIdAssumption DEF Nobody
<1>5. iam__var_i' = 0 /\ left' = 0
  BY Zenon DEF Restart
<1>6. iam__var_i' \in Nat /\ iam__var_i' + MaxSym < BufferSize /\ left' \in Nat
  BY <1>5, BufferAssumption
<1>7. det_id' \in DetIds /\ isVdetectors' \in BOOLEAN /\ complete' \in BOOLEAN
  BY DetIdAssumption, Zenon DEF Restart
<1>8. plugins' = << >> /\ unread' = << >> /\ printed' = << >>
  BY Zenon DEF Restart
<1>9. plugins' \in Seq(Plugin) /\ unread' \in Seq(SettingName) /\ printed' \in Seq(Plugin \cup SettingName)
  BY <1>8
<1>10. pc' = "ready" /\ cause' = "" /\ kept' = {} /\ algs' = {}
  BY Zenon DEF Restart
<1> QED BY <1>2, <1>3, <1>4, <1>6, <1>7, <1>9, <1>10, Zenon DEF TypeOK

(* A record of two fields stays one when a field changes.                  *)
LEMMA CursorOf ==
  ASSUME NEW S, NEW T, NEW c \in [rest : S, of : T], NEW t \in T
  PROVE  [c EXCEPT !.of = t] \in [rest : S, of : T]
  OBVIOUS

LEMMA CursorRest ==
  ASSUME NEW S, NEW T, NEW c \in [rest : S, of : T], NEW r \in S
  PROVE  /\ [c EXCEPT !.rest = r] \in [rest : S, of : T]
         /\ [c EXCEPT !.rest = r].rest = r /\ [c EXCEPT !.rest = r].of = c.of
  OBVIOUS

(* What stays of a list that is abandoned under its reader.                *)
LEMMA AbandonedTyped ==
  ASSUME TypeOK, NEW how \in {"lost", "freed"}
  PROVE  Abandoned(how) \in [rest : Seq(Plugin), of : {"current", "lost", "freed"}]
  BY CursorOf DEF TypeOK, Abandoned

(* A module read: it is the first of those still to be read.               *)
LEMMA ReadsTyped ==
  ASSUME TypeOK, NEW m, Reads(m)
  PROVE  /\ cursor' \in [rest : Seq(Plugin), of : {"current", "lost", "freed"}]
         /\ m \in Plugin
         /\ cursor'.of = cursor.of
         /\ \A x \in ToSet(cursor.rest) : x = m \/ x \in ToSet(cursor'.rest)
<1> DEFINE q == cursor.rest
<1>1. /\ cursor \in [rest : Seq(Plugin), of : {"current", "lost", "freed"}]
      /\ cursor.rest \in Seq(Plugin)
  BY DEF TypeOK
<1>2. /\ Head(cursor.rest) \in Plugin /\ Tail(cursor.rest) \in Seq(Plugin)
      /\ \A x \in ToSet(cursor.rest) : x = Head(cursor.rest) \/ x \in ToSet(Tail(cursor.rest))
  BY <1>1, Taken, Zenon DEF Reads
<1>3. cursor' = [cursor EXCEPT !.rest = Tail(cursor.rest)] /\ m = Head(cursor.rest)
  BY DEF Reads
<1> QED BY <1>1, <1>2, <1>3, CursorRest, Zenon

(* The set up of the settings gives each holder a memory of a known state. *)
LEMMA ConfigureTyped ==
  ASSUME TypeOK, NEW ps, NEW opens \in BOOLEAN, Configure(ps, opens)
  PROVE  /\ mem' \in [Holders -> {"none", "held", "freed"}]
         /\ isVdetectors' \in BOOLEAN /\ det_id' \in DetIds
         /\ opens \/ "log_txt" \notin ToSet(ps) =>
              \A h \in Holders \cap ToSet(ps) : mem'[h] = "held"
<1>1. mem' = [h \in Holders |->
                IF h \notin ToSet(ps) THEN mem[h]
                ELSE IF h = "log_txt" /\ ~opens THEN "none" ELSE "held"]
  BY DEF Configure
<1>2. mem \in [Holders -> {"none", "held", "freed"}]
  BY DEF TypeOK
<1>3. mem' \in [Holders -> {"none", "held", "freed"}]
  BY <1>1, <1>2
<1>4. isVdetectors' \in BOOLEAN /\ det_id' \in DetIds
  BY Zenon DEF Configure, TypeOK
<1>5. opens \/ "log_txt" \notin ToSet(ps) =>
        \A h \in Holders \cap ToSet(ps) : mem'[h] = "held"
  BY <1>1
<1> QED BY <1>3, <1>4, <1>5

(* What the functions and texts of the registered algorithms are.          *)
LEMMA RegisteredTyped ==
  ASSUME NEW ps \in Seq(Plugin), NEW junk \in {"NULL", "junk"}
  PROVE  /\ Registered(ps, junk) \subseteq [id : Plugin, fn : {"NSA_RV", "NULL", "junk"}]
         /\ \A a \in Registered(ps, junk) :
              a.id \in ToSet(ps) /\ (a.fn = "NSA_RV" => a.id = "NSA_RV")
<1>1. ASSUME NEW a \in Registered(ps, junk)
      PROVE  /\ a \in [id : Plugin, fn : {"NSA_RV", "NULL", "junk"}]
             /\ a.id \in ToSet(ps) /\ (a.fn = "NSA_RV" => a.id = "NSA_RV")
  <2>1. PICK p \in ToSet(ps) \cap {"NSA_RV", "NSA_RA"} :
               a = [id |-> p, fn |-> IF p = "NSA_RV" THEN "NSA_RV" ELSE junk]
    BY Zenon DEF Registered
  <2>2. p \in Plugin
    BY ElementsOf
  <2> QED BY <2>1, <2>2
<1> QED BY <1>1, Zenon

LEMMA ReleasedTyped ==
  ASSUME TypeOK, NEW writes \in BOOLEAN
  PROVE  Released(writes) \in [Holders -> {"none", "held", "freed"}]
  BY DEF TypeOK, Released

LEMMA TypeAsk ==
  ASSUME TypeOK, NEW alg \in Plugin \cup {"other"}, NEW v \in BOOLEAN, NEW id \in DetIds, Ask(alg, v, id)
  PROVE  TypeOK'
<1>1. UNCHANGED <<cause, plugins, algs, kept, complete, mem,
                  isVdetectors, det_id, unread, left, iam__var_i, printed>>
  BY Zenon DEF Ask, library, statics, view, Rewind
<1>2. pc' = "find" /\ asked' = [alg |-> alg, v |-> v, id |-> id]
  BY Zenon DEF Ask
<1>3. cursor' = [rest |-> plugins, of |-> "current"]
  BY Zenon DEF Ask, Rewind
<1>4. asked' \in [alg : Plugin \cup {"other", ""}, v : BOOLEAN, id : DetIds]
  BY <1>2
<1>5. cursor' \in [rest : Seq(Plugin), of : {"current", "lost", "freed"}]
  BY <1>3 DEF TypeOK
<1> QED BY <1>1, <1>2, <1>3, <1>4, <1>5, Zenon DEF TypeOK

LEMMA TypePassBy ==
  ASSUME TypeOK, PassBy
  PROVE  TypeOK'
<1>1. UNCHANGED <<pc, cause, plugins, algs, kept, complete, mem,
                  isVdetectors, det_id, unread, asked, left, iam__var_i, printed>>
  BY Zenon DEF PassBy, library, statics, view, Rewind
<1>2. cursor' \in [rest : Seq(Plugin), of : {"current", "lost", "freed"}]
  BY ReadsTyped, Zenon DEF PassBy
<1> QED BY <1>1, <1>2, Zenon DEF TypeOK

LEMMA TypeFind ==
  ASSUME TypeOK, Find
  PROVE  TypeOK'
<1>1. UNCHANGED <<cause, plugins, algs, kept, complete, mem,
                  isVdetectors, det_id, asked, left, iam__var_i, printed>>
  BY Zenon DEF Find, library, statics, view, Rewind
<1>2. cursor' \in [rest : Seq(Plugin), of : {"current", "lost", "freed"}]
  BY ReadsTyped, Zenon DEF Find
<1>3. asked.alg \in Plugin
  BY ReadsTyped, Zenon DEF Find
<1>4. unread' \in Seq(SettingName)
  BY <1>3, SettingsTyped, Zenon DEF Find, TypeOK
<1>5. pc' \in {"mode", "call"}
  BY Zenon DEF Find
<1> QED BY <1>1, <1>2, <1>3, <1>4, <1>5, Zenon DEF TypeOK

LEMMA TypeFindNone ==
  ASSUME TypeOK, FindNone
  PROVE  TypeOK'
<1>1. UNCHANGED <<cause, plugins, algs, kept, complete, mem, isVdetectors,
                  det_id, cursor, unread, asked, left, iam__var_i, printed>>
  BY Zenon DEF FindNone, library, statics, view
<1>2. pc' = "call"
  BY Zenon DEF FindNone
<1> QED BY <1>1, <1>2, Zenon DEF TypeOK

LEMMA TypeSetMode ==
  ASSUME TypeOK, SetMode
  PROVE  TypeOK'
<1>1. UNCHANGED <<pc, cause, plugins, algs, kept, complete,
                  mem, cursor, asked, left, iam__var_i, printed>>
  BY Zenon DEF SetMode, library, statics, view
<1>2. unread' = Tail(unread) /\ unread # << >>
  BY Zenon DEF SetMode
<1>3. unread' \in Seq(SettingName)
  BY <1>2, Taken, Zenon DEF TypeOK
<1>4. asked.v \in BOOLEAN /\ asked.id \in DetIds
  BY DEF TypeOK
<1>5. isVdetectors' \in BOOLEAN /\ det_id' \in DetIds
  BY <1>4, Zenon DEF SetMode, TypeOK
<1> QED BY <1>1, <1>2, <1>3, <1>4, <1>5, Zenon DEF TypeOK

LEMMA TypeSetModeEnds ==
  ASSUME TypeOK, SetModeEnds
  PROVE  TypeOK'
<1>1. UNCHANGED <<cause, plugins, algs, kept, complete, mem, isVdetectors,
                  det_id, cursor, unread, asked, left, iam__var_i, printed>>
  BY Zenon DEF SetModeEnds, library, statics, view
<1>2. pc' = "call"
  BY Zenon DEF SetModeEnds
<1> QED BY <1>1, <1>2, Zenon DEF TypeOK

LEMMA TypeCall ==
  ASSUME TypeOK, Call
  PROVE  TypeOK'
<1>1. UNCHANGED <<plugins, algs, kept, complete, mem, isVdetectors,
                  det_id, cursor, unread, left, iam__var_i, printed>>
  BY Zenon DEF Call, library, statics, view
<1>2. Nobody \in [alg : Plugin \cup {"other", ""}, v : BOOLEAN, id : DetIds]
  BY DetIdAssumption DEF Nobody
<1>3. asked' \in [alg : Plugin \cup {"other", ""}, v : BOOLEAN, id : DetIds]
  BY <1>2, Zenon DEF Call, TypeOK
<1>4. pc' \in {"ready", "running", "undefined"}
  BY Zenon DEF Call, Undefined
<1>5. cause' \in {"", "memory", "function", "set"}
  BY Zenon DEF Call, Undefined, TypeOK
<1> QED BY <1>1, <1>2, <1>3, <1>4, <1>5, Zenon DEF TypeOK

LEMMA TypeReturn ==
  ASSUME TypeOK, Return
  PROVE  TypeOK'
<1>1. UNCHANGED <<cause, plugins, algs, kept, complete, mem,
                  isVdetectors, det_id, cursor, unread, left, iam__var_i, printed>>
  BY Zenon DEF Return, library, statics, view
<1>2. Nobody \in [alg : Plugin \cup {"other", ""}, v : BOOLEAN, id : DetIds]
  BY DetIdAssumption DEF Nobody
<1>3. pc' = "ready" /\ asked' = Nobody
  BY Zenon DEF Return
<1> QED BY <1>1, <1>2, <1>3, Zenon DEF TypeOK

LEMMA TypePrintInfo ==
  ASSUME TypeOK, PrintInfo
  PROVE  TypeOK'
<1>1. UNCHANGED <<cause, plugins, algs, kept, complete, mem,
                  isVdetectors, det_id, unread, asked, left, iam__var_i, printed>>
  BY Zenon DEF PrintInfo, library, statics, view, Rewind
<1>2. cursor' = [rest |-> plugins, of |-> "current"]
  BY Zenon DEF PrintInfo, Rewind
<1>3. cursor' \in [rest : Seq(Plugin), of : {"current", "lost", "freed"}]
  BY <1>2 DEF TypeOK
<1>4. pc' = "view"
  BY Zenon DEF PrintInfo
<1> QED BY <1>1, <1>2, <1>3, <1>4, Zenon DEF TypeOK

LEMMA TypePrintModule ==
  ASSUME TypeOK, PrintModule
  PROVE  TypeOK'
<1>1. UNCHANGED <<cause, plugins, algs, kept, complete,
                  mem, isVdetectors, det_id, asked, left, iam__var_i>>
  BY Zenon DEF PrintModule, library, statics, view, Rewind
<1>2. PICK m \in Plugin : Reads(m) /\ printed' = Append(printed, m) /\ unread' = Settings[m]
  BY Zenon DEF PrintModule
<1>3. cursor' \in [rest : Seq(Plugin), of : {"current", "lost", "freed"}]
  BY <1>2, ReadsTyped, Zenon
<1>4. unread' \in Seq(SettingName)
  BY <1>2, SettingsTyped, Zenon
<1>5. printed' \in Seq(Plugin \cup SettingName)
  BY <1>2, AppendTyped, Zenon DEF TypeOK
<1>6. pc' = "print"
  BY Zenon DEF PrintModule
<1> QED BY <1>1, <1>2, <1>3, <1>4, <1>5, <1>6, Zenon DEF TypeOK

LEMMA TypePrintSetting ==
  ASSUME TypeOK, PrintSetting
  PROVE  TypeOK'
<1>1. UNCHANGED <<pc, cause, plugins, algs, kept, complete,
                  mem, isVdetectors, det_id, cursor, asked, iam__var_i>>
  BY Zenon DEF PrintSetting, library, statics, view
<1>2. /\ unread # << >> /\ unread' = Tail(unread) /\ left' = Numbers(Head(unread))
      /\ printed' = Append(printed, Head(unread))
  BY Zenon DEF PrintSetting
<1>3. Head(unread) \in SettingName /\ unread' \in Seq(SettingName)
  BY <1>2, Taken, Zenon DEF TypeOK
<1>4. printed' \in Seq(Plugin \cup SettingName)
  BY <1>2, <1>3, AppendTyped, Zenon DEF TypeOK
<1>5. left' \in Nat
  BY <1>2, NumbersTyped, Zenon
<1> QED BY <1>1, <1>2, <1>3, <1>4, <1>5, Zenon DEF TypeOK

LEMMA TypePrintValue ==
  ASSUME TypeOK, PrintValue
  PROVE  TypeOK'
<1>1. UNCHANGED <<pc, cause, plugins, algs, kept, complete,
                  mem, isVdetectors, det_id, cursor, unread, asked, printed>>
  BY Zenon DEF PrintValue, library, statics, view
<1>2. left > 0 /\ left' = left - 1
  BY Zenon DEF PrintValue
<1>3. left \in Nat
  BY DEF TypeOK
<1>4. left' \in Nat
  BY <1>2, <1>3
<1>5. iam__var_i' \in Nat /\ iam__var_i' + MaxSym < BufferSize
  BY RingTyped, Zenon DEF PrintValue, TypeOK
<1> QED BY <1>1, <1>2, <1>3, <1>4, <1>5, Zenon DEF TypeOK

LEMMA TypePrintModuleEnds ==
  ASSUME TypeOK, PrintModuleEnds
  PROVE  TypeOK'
<1>1. UNCHANGED <<cause, plugins, algs, kept, complete, mem, isVdetectors,
                  det_id, cursor, unread, asked, left, iam__var_i, printed>>
  BY Zenon DEF PrintModuleEnds, library, statics, view
<1>2. pc' = "view"
  BY Zenon DEF PrintModuleEnds
<1> QED BY <1>1, <1>2, Zenon DEF TypeOK

LEMMA TypePrintEnds ==
  ASSUME TypeOK, PrintEnds
  PROVE  TypeOK'
<1>1. UNCHANGED <<cause, plugins, algs, kept, complete, mem,
                  isVdetectors, det_id, cursor, unread, asked, left, iam__var_i>>
  BY Zenon DEF PrintEnds, library, statics, view
<1>2. pc' = "ready" /\ printed' = << >>
  BY Zenon DEF PrintEnds
<1>3. printed' \in Seq(Plugin \cup SettingName)
  BY <1>2
<1> QED BY <1>1, <1>2, <1>3, Zenon DEF TypeOK

LEMMA TypeIamInit ==
  ASSUME TypeOK, NEW l \in Listings, NEW junk \in {"NULL", "junk"}, NEW opens \in BOOLEAN,
         NEW n \in 0 .. Len(l), IamInit(l, n, junk, opens)
  PROVE  TypeOK'
<1>1. UNCHANGED <<unread, asked, left, iam__var_i, printed>>
  BY Zenon DEF IamInit, library, statics, view, Rewind
<1>2. plugins' = SubSeq(l, 1, n) /\ plugins' \in Seq(Plugin)
  BY FirstOf, ListingAssumption, Zenon DEF IamInit
<1>3. algs' \subseteq [id : Plugin, fn : {"NSA_RV", "NULL", "junk"}]
  BY <1>2, RegisteredTyped, Zenon DEF IamInit
<1>4. kept' \subseteq Holders
  BY Zenon DEF IamInit, TypeOK
<1>5. /\ mem' \in [Holders -> {"none", "held", "freed"}]
      /\ isVdetectors' \in BOOLEAN /\ det_id' \in DetIds
  BY <1>2, ConfigureTyped, Zenon DEF IamInit, TypeOK, statics
<1>6. complete' \in BOOLEAN
  BY Zenon DEF IamInit
<1>7. pc' \in {"ready", "undefined"} /\ cause' \in {"", "memory", "function", "set"}
  BY Zenon DEF IamInit, Undefined, TypeOK
<1>8. cursor' \in [rest : Seq(Plugin), of : {"current", "lost", "freed"}]
  BY AbandonedTyped, Zenon DEF IamInit
<1> QED BY <1>1, <1>2, <1>3, <1>4, <1>5, <1>6, <1>7, <1>8, Zenon DEF TypeOK

LEMMA TypeIamExit ==
  ASSUME TypeOK, NEW writes \in BOOLEAN, IamExit(writes)
  PROVE  TypeOK'
<1>1. UNCHANGED <<kept, complete, unread, asked, left, iam__var_i, printed>>
  BY Zenon DEF IamExit, library, statics, view, Rewind
<1>2. plugins' = << >> /\ algs' = {}
  BY Zenon DEF IamExit
<1>3. plugins' \in Seq(Plugin)
  BY <1>2
<1>4. mem' \in [Holders -> {"none", "held", "freed"}]
  BY ReleasedTyped, Zenon DEF IamExit
<1>5. isVdetectors' \in BOOLEAN /\ det_id' \in DetIds
  BY DetIdAssumption, Zenon DEF IamExit, TypeOK
<1>6. pc' \in {"ready", "undefined"} /\ cause' \in {"", "memory", "function", "set"}
  BY Zenon DEF IamExit, Undefined, TypeOK
<1>7. cursor' \in [rest : Seq(Plugin), of : {"current", "lost", "freed"}]
  BY AbandonedTyped, Zenon DEF IamExit
<1> QED BY <1>1, <1>2, <1>3, <1>4, <1>5, <1>6, <1>7, Zenon DEF TypeOK

LEMMA TypeStep == TypeOK /\ [Next]_vars => TypeOK'
<1> SUFFICES ASSUME TypeOK, [Next]_vars PROVE TypeOK'
  OBVIOUS
<1>1. CASE Proceeds
  BY <1>1, TypePassBy, TypeFind, TypeFindNone, TypeSetMode, TypeSetModeEnds, TypeCall, TypeReturn,
     TypePrintModule, TypePrintSetting, TypePrintValue, TypePrintModuleEnds, TypePrintEnds, Zenon
     DEF Proceeds
<1>2. CASE PrintInfo \/ Restart
  BY <1>2, TypePrintInfo, TypeRestart, Zenon
<1>3. CASE \E l \in Listings, junk \in {"NULL", "junk"}, opens \in BOOLEAN :
             \E n \in 0 .. Len(l) : IamInit(l, n, junk, opens)
  BY <1>3, TypeIamInit, Zenon
<1>4. CASE \E writes \in BOOLEAN : IamExit(writes)
  BY <1>4, TypeIamExit, Zenon
<1>5. CASE \E alg \in Plugin \cup {"other"}, v \in BOOLEAN, id \in DetIds : Ask(alg, v, id)
  BY <1>5, TypeAsk, Zenon
<1>6. CASE UNCHANGED vars
  <2>1. UNCHANGED <<pc, cause, plugins, algs, kept, complete, mem, isVdetectors, det_id, cursor,
                    unread, asked, left, iam__var_i, printed>>
    BY <1>6, Zenon DEF vars, library, statics, view
  <2> QED BY <2>1, Zenon DEF TypeOK
<1> QED BY <1>1, <1>2, <1>3, <1>4, <1>5, <1>6, Zenon DEF Next

(* Whatever order a script calls init_lib, exit_lib, fit and predict in,   *)
(* and however often the viewer is run, the variables keep their types; in *)
(* particular iam__var_i is always at a place of the ring where the        *)
(* longest number and its NUL still fit (IAM__TO_STR of variable.c).       *)
THEOREM TypeCorrect == Spec => []TypeOK
<1> QED BY TypeInit, TypeStep, PTL DEF Spec

-----------------------------------------------------------------------------
(* The memory behind the callbacks.                                        *)

LEMMA SafeInit == Init => SafeInv
<1> SUFFICES ASSUME Init PROVE SafeInv
  OBVIOUS
<1>1. algs = {} /\ plugins = << >> /\ cause = "" /\ pc = "ready"
  BY Zenon DEF Init
<1> QED BY <1>1, NoElements, Zenon DEF SafeInv, AlgInv, HoldInv, CursorInv

LEMMA SafeRestart == Restart => SafeInv'
<1> SUFFICES ASSUME Restart PROVE SafeInv'
  OBVIOUS
<1>1. algs' = {} /\ plugins' = << >> /\ cause' = "" /\ pc' = "ready"
  BY Zenon DEF Restart
<1> QED BY <1>1, NoElements, Zenon DEF SafeInv, AlgInv, HoldInv, CursorInv

(* A complete iam_init has run the callback of every holder; any other     *)
(* makes complete FALSE for good.                                          *)
LEMMA SafeIamInit ==
  ASSUME TypeOK, SafeInv, NEW l \in Listings, NEW junk \in {"NULL", "junk"},
         NEW opens \in BOOLEAN, NEW n \in 0 .. Len(l), IamInit(l, n, junk, opens)
  PROVE  SafeInv'
<1> DEFINE ps == SubSeq(l, 1, n)
<1>1. plugins' = ps /\ ps \in Seq(Plugin)
  BY FirstOf, ListingAssumption, Zenon DEF IamInit
<1>2. AlgInv'
  <2>1. algs' = Registered(ps, junk)
    BY Zenon DEF IamInit
  <2> HIDE DEF ps
  <2> QED BY <1>1, <2>1, RegisteredTyped, Zenon DEF AlgInv
<1>3. pc = "ready" /\ (complete' => complete)
  BY Zenon DEF IamInit
<1>4. complete' => \A h \in Holders \cap ToSet(ps) : mem'[h] = "held"
  <2>1. complete' => Configure(ps, opens) /\ (opens \/ "log_txt" \notin ToSet(ps))
    BY Zenon DEF IamInit
  <2> HIDE DEF ps
  <2> QED BY <2>1, ConfigureTyped, Zenon
<1>5. cause' = "memory" => ~complete'
  <2>1. \/ "log_txt" \in ToSet(ps) /\ mem'["log_txt"] # "held"
        \/ cause' = cause
    BY Zenon DEF IamInit
  <2>2. "log_txt" \in Holders
    BY DEF Holders
  <2> HIDE DEF ps
  <2> QED BY <1>3, <1>4, <2>1, <2>2, Zenon DEF SafeInv, HoldInv
<1>6. pc' \in {"ready", "undefined"}
  BY Zenon DEF IamInit, Undefined
<1> HIDE DEF ps
<1>7. HoldInv'
  BY <1>1, <1>4, <1>5, Zenon DEF HoldInv
<1>8. CursorInv'
  BY <1>6 DEF CursorInv
<1> QED BY <1>2, <1>7, <1>8, Zenon DEF SafeInv

(* No exit function misses its memory after complete iam_inits only.       *)
LEMMA SafeIamExit ==
  ASSUME TypeOK, SafeInv, NEW writes \in BOOLEAN, IamExit(writes)
  PROVE  SafeInv'
<1>1. pc = "ready" /\ plugins' = << >> /\ algs' = {} /\ complete' = complete
  BY Zenon DEF IamExit, library
<1>2. pc' \in {"ready", "undefined"}
  BY Zenon DEF IamExit, Undefined
<1>3. complete => ~ExitsWithout(writes)
  <2>1. "log_txt" \in Holders /\ "NSA_RV" \in Holders
    BY DEF Holders
  <2>2. pc # "undefined"
    BY <1>1
  <2> QED BY <2>1, <2>2, Zenon DEF SafeInv, HoldInv, ExitsWithout
<1>4. cause' = "memory" => ~complete
  BY <1>3, Zenon DEF IamExit, SafeInv, HoldInv
<1> QED BY <1>1, <1>2, <1>4, NoElements DEF SafeInv, AlgInv, HoldInv, CursorInv

(* A call finds an algorithm with a function only if NSA_RV is in the      *)
(* list, and then the detectors are there.                                 *)
LEMMA CalledIsLoaded ==
  ASSUME TypeOK, AlgInv, Called # {}, "junk" \notin Called
  PROVE  asked.alg = "NSA_RV" /\ "NSA_RV" \in ToSet(plugins)
<1>1. PICK a \in algs : a.id = asked.alg /\ a.fn # "NULL" /\ a.fn # "junk"
  BY Zenon DEF Called
<1>2. a \in [id : Plugin, fn : {"NSA_RV", "NULL", "junk"}]
  BY Zenon DEF TypeOK
<1>3. a.fn = "NSA_RV"
  BY <1>1, <1>2
<1> QED BY <1>1, <1>3, Zenon DEF AlgInv

LEMMA SafeCall == ASSUME TypeOK, SafeInv, Call PROVE SafeInv'
<1>1. pc = "call" /\ UNCHANGED <<plugins, algs, complete, mem>>
  BY Zenon DEF Call, library, statics
<1>2. pc' \in {"ready", "undefined", "running"}
  BY Zenon DEF Call, Undefined
<1>3. cause' = "memory" => ~complete
  <2>1. cause' = "memory" =>
          \/ cause = "memory"
          \/ Called # {} /\ "junk" \notin Called /\ mem["NSA_RV"] # "held"
    BY Zenon DEF Call, Undefined
  <2>2. "NSA_RV" \in Holders /\ pc # "undefined"
    BY <1>1 DEF Holders
  <2> QED BY <2>1, <2>2, CalledIsLoaded, Zenon DEF SafeInv, HoldInv
<1>4. AlgInv' /\ CursorInv'
  BY <1>1, <1>2 DEF SafeInv, AlgInv, CursorInv
<1>5. HoldInv'
  <2>1. pc # "undefined"
    BY <1>1
  <2> QED BY <1>1, <1>3, <2>1, Zenon DEF SafeInv, HoldInv
<1> QED BY <1>4, <1>5, Zenon DEF SafeInv

(* The other steps leave the plugins and their memory alone, and read the  *)
(* list they have rewound to.                                              *)
LEMMA SafeOther ==
  ASSUME TypeOK, SafeInv, UNCHANGED <<cause, plugins, algs, complete, mem>>,
         pc # "undefined",
         pc' \in {"find", "view", "print"} => cursor'.of = "current"
  PROVE  SafeInv'
<1>1. AlgInv'
  BY Zenon DEF SafeInv, AlgInv
<1>2. HoldInv'
  BY Zenon DEF SafeInv, HoldInv
<1> QED BY <1>1, <1>2, Zenon DEF SafeInv, CursorInv

LEMMA SafeReads ==
  ASSUME TypeOK, SafeInv, PassBy \/ Find \/ PrintModule
  PROVE  SafeInv'
<1>1. /\ UNCHANGED <<cause, plugins, algs, complete, mem>>
      /\ pc \in {"find", "view"}
  BY Zenon DEF PassBy, Find, PrintModule, library, statics
<1>2. PICK m : Reads(m)
  BY Zenon DEF PassBy, Find, PrintModule
<1>3. pc # "undefined"
  BY <1>1
<1>4. cursor'.of = "current"
  BY <1>1, <1>2, ReadsTyped DEF SafeInv, CursorInv
<1> QED BY <1>1, <1>3, <1>4, SafeOther, Zenon

LEMMA SafeRewinds ==
  ASSUME TypeOK, SafeInv,
         PrintInfo \/ \E alg \in Plugin \cup {"other"}, v \in BOOLEAN, id \in DetIds : Ask(alg, v, id)
  PROVE  SafeInv'
<1>1. /\ UNCHANGED <<cause, plugins, algs, complete, mem>>
      /\ pc = "ready" /\ Rewind
  BY Zenon DEF PrintInfo, Ask, library, statics
<1>2. cursor'.of = "current" /\ pc # "undefined"
  BY <1>1 DEF Rewind
<1> QED BY <1>1, <1>2, SafeOther, Zenon

LEMMA SafeGoesOn ==
  ASSUME TypeOK, SafeInv,
         \/ FindNone \/ SetMode \/ SetModeEnds \/ Return \/ PrintSetting \/ PrintValue
         \/ PrintModuleEnds \/ PrintEnds
  PROVE  SafeInv'
<1>1. UNCHANGED <<cause, plugins, algs, complete, mem, cursor>>
  BY Zenon DEF FindNone, SetMode, SetModeEnds, Return, PrintSetting, PrintValue, PrintModuleEnds,
     PrintEnds, library, statics
<1>2. pc # "undefined"
  BY DEF FindNone, SetMode, SetModeEnds, Return, PrintSetting, PrintValue, PrintModuleEnds, PrintEnds
<1>3. pc' \in {"find", "view", "print"} => pc \in {"find", "view", "print"}
  BY DEF FindNone, SetMode, SetModeEnds, Return, PrintSetting, PrintValue, PrintModuleEnds, PrintEnds
<1>4. pc' \in {"find", "view", "print"} => cursor'.of = "current"
  BY <1>1, <1>3, Zenon DEF SafeInv, CursorInv
<1> QED BY <1>1, <1>2, <1>4, SafeOther, Zenon

LEMMA SafeStep == TypeOK /\ SafeInv /\ [Next]_vars => SafeInv'
<1> SUFFICES ASSUME TypeOK, SafeInv, [Next]_vars PROVE SafeInv'
  OBVIOUS
<1>1. CASE Proceeds
  BY <1>1, SafeReads, SafeGoesOn, SafeCall, Zenon DEF Proceeds
<1>2. CASE Restart
  BY <1>2, SafeRestart, Zenon
<1>3. CASE \E l \in Listings, junk \in {"NULL", "junk"}, opens \in BOOLEAN :
             \E n \in 0 .. Len(l) : IamInit(l, n, junk, opens)
  BY <1>3, SafeIamInit, Zenon
<1>4. CASE \E writes \in BOOLEAN : IamExit(writes)
  BY <1>4, SafeIamExit, Zenon
<1>5. CASE \/ PrintInfo
           \/ \E alg \in Plugin \cup {"other"}, v \in BOOLEAN, id \in DetIds : Ask(alg, v, id)
  BY <1>5, SafeRewinds, Zenon
<1>6. CASE UNCHANGED vars
  <2>1. UNCHANGED <<pc, cause, plugins, algs, complete, mem, cursor>>
    BY <1>6, Zenon DEF vars, library, statics
  <2> QED BY <2>1, Zenon DEF SafeInv, AlgInv, HoldInv, CursorInv
<1> QED BY <1>1, <1>2, <1>3, <1>4, <1>5, <1>6, Zenon DEF Next

LEMMA SafeImplies == SafeInv => AnyOrderSafe
  BY DEF SafeInv, HoldInv, CursorInv, AnyOrderSafe

(* init_lib, exit_lib, fit, predict and the viewer in any order: as long   *)
(* as each iam_init got to the callbacks of the settings, no exit function *)
(* and no algorithm misses what its callback prepares, and no reader of    *)
(* the list of modules has a node of a list that iam_exit has freed.       *)
THEOREM AnyOrder == Spec => []AnyOrderSafe
<1>1. TypeOK /\ SafeInv => AnyOrderSafe
  BY SafeImplies, Zenon
<1> QED BY <1>1, TypeInit, TypeStep, SafeInit, SafeStep, PTL DEF Spec

-----------------------------------------------------------------------------
(* The mode of a call.                                                     *)

LEMMA AskedIdle == pc' \in {"ready", "undefined", "view", "print"} => AskedInv'
  BY DEF AskedInv, RunsAsAsked

LEMMA AskedInit == Init => AskedInv
  BY Zenon DEF Init, AskedInv, RunsAsAsked

LEMMA AskedAsk ==
  ASSUME TypeOK, NEW alg, NEW v, NEW id, Ask(alg, v, id)
  PROVE  AskedInv'
<1>1. pc' = "find" /\ plugins' = plugins /\ cursor' = [rest |-> plugins, of |-> "current"]
  BY Zenon DEF Ask, Rewind, library
<1>2. cursor'.rest = plugins'
  BY <1>1
<1> QED BY <1>1, <1>2 DEF AskedInv, RunsAsAsked

LEMMA AskedPassBy == ASSUME TypeOK, AskedInv, PassBy PROVE AskedInv'
<1>1. pc = "find" /\ pc' = "find" /\ UNCHANGED <<plugins, asked>>
  BY Zenon DEF PassBy, library
<1>2. PICK m : Reads(m) /\ m # asked.alg
  BY Zenon DEF PassBy
<1>3. \A x \in ToSet(cursor.rest) : x = m \/ x \in ToSet(cursor'.rest)
  BY <1>2, ReadsTyped, Zenon
<1>4. "NSA_RV" \in ToSet(plugins) /\ asked.alg = "NSA_RV" => "NSA_RV" \in ToSet(cursor'.rest)
  BY <1>1, <1>2, <1>3, Zenon DEF AskedInv
<1> QED BY <1>1, <1>4 DEF AskedInv, RunsAsAsked

LEMMA AskedFind == ASSUME TypeOK, AskedInv, Find PROVE AskedInv'
<1>1. asked' = asked
  BY Zenon DEF Find
<1>2. CASE asked.alg = "NSA_RV"
  <2>1. pc' = "mode" /\ unread' = Settings["NSA_RV"]
    BY <1>2, Zenon DEF Find
  <2>2. "isVdetectors" \in ToSet(unread') /\ "det_id" \in ToSet(unread')
    BY <2>1, SettingsOfNsaRv, Zenon
  <2> QED BY <2>1, <2>2 DEF AskedInv, RunsAsAsked
<1>3. CASE asked.alg # "NSA_RV"
  <2>1. pc' = "call"
    BY <1>3, Zenon DEF Find
  <2> QED BY <1>1, <1>3, <2>1 DEF AskedInv, RunsAsAsked
<1> QED BY <1>2, <1>3

LEMMA AskedFindNone == ASSUME AskedInv, FindNone PROVE AskedInv'
<1>1. pc = "find" /\ pc' = "call" /\ cursor.rest = << >> /\ UNCHANGED <<plugins, asked>>
  BY Zenon DEF FindNone, library
<1>2. ~("NSA_RV" \in ToSet(plugins) /\ asked.alg = "NSA_RV")
  BY <1>1, NoElements, Zenon DEF AskedInv
<1> QED BY <1>1, <1>2 DEF AskedInv, RunsAsAsked

LEMMA AskedSetMode == ASSUME TypeOK, AskedInv, SetMode PROVE AskedInv'
<1>1. pc = "mode" /\ pc' = "mode" /\ asked' = asked /\ unread # << >> /\ unread' = Tail(unread)
  BY Zenon DEF SetMode
<1>2. \A x \in ToSet(unread) : x = Head(unread) \/ x \in ToSet(unread')
  BY <1>1, Taken, Zenon DEF TypeOK
<1>3. isVdetectors' = asked.v \/ "isVdetectors" \in ToSet(unread')
  BY <1>1, <1>2, Zenon DEF SetMode, AskedInv
<1>4. det_id' = asked.id \/ "det_id" \in ToSet(unread')
  BY <1>1, <1>2, Zenon DEF SetMode, AskedInv
<1> QED BY <1>1, <1>3, <1>4 DEF AskedInv, RunsAsAsked

LEMMA AskedSetModeEnds == ASSUME AskedInv, SetModeEnds PROVE AskedInv'
<1>1. /\ pc = "mode" /\ pc' = "call" /\ unread = << >>
      /\ UNCHANGED <<asked, isVdetectors, det_id>>
  BY Zenon DEF SetModeEnds, statics
<1>2. ModeSet
  BY <1>1, NoElements, Zenon DEF AskedInv, ModeSet
<1> QED BY <1>1, <1>2 DEF AskedInv, RunsAsAsked, ModeSet

LEMMA AskedCall == ASSUME TypeOK, SafeInv, AskedInv, Call PROVE AskedInv'
<1>1. pc = "call" /\ UNCHANGED <<isVdetectors, det_id>>
  BY Zenon DEF Call, statics
<1>2. pc' \in {"ready", "undefined", "running"}
  BY Zenon DEF Call, Undefined
<1>3. CASE pc' = "running"
  <2>1. Called # {} /\ "junk" \notin Called /\ asked' = asked
    BY <1>3 DEF Call, Undefined
  <2>2. asked.alg = "NSA_RV" /\ ModeSet
    BY <1>1, <2>1, CalledIsLoaded, Zenon DEF AskedInv, SafeInv
  <2> QED BY <1>1, <1>3, <2>1, <2>2 DEF AskedInv, RunsAsAsked, ModeSet
<1>4. CASE pc' # "running"
  BY <1>2, <1>4, AskedIdle
<1> QED BY <1>3, <1>4

LEMMA AskedElsewhere ==
  ASSUME \/ Restart \/ PrintInfo \/ Return \/ PrintModule \/ PrintSetting \/ PrintValue
         \/ PrintModuleEnds \/ PrintEnds
         \/ \E l, n, junk, opens : IamInit(l, n, junk, opens)
         \/ \E writes : IamExit(writes)
  PROVE  AskedInv'
<1>1. pc' \in {"ready", "undefined", "view", "print"}
  BY Zenon DEF Restart, PrintInfo, Return, PrintModule, PrintSetting, PrintValue, PrintModuleEnds,
     PrintEnds, IamInit, IamExit, Undefined
<1> QED BY <1>1, AskedIdle

LEMMA AskedStep == TypeOK /\ SafeInv /\ AskedInv /\ [Next]_vars => AskedInv'
<1> SUFFICES ASSUME TypeOK, SafeInv, AskedInv, [Next]_vars PROVE AskedInv'
  OBVIOUS
<1>1. CASE Proceeds
  BY <1>1, AskedPassBy, AskedFind, AskedFindNone, AskedSetMode, AskedSetModeEnds, AskedCall,
     AskedElsewhere, Zenon DEF Proceeds
<1>2. CASE PrintInfo \/ Restart
  BY <1>2, AskedElsewhere, Zenon
<1>3. CASE \E l \in Listings, junk \in {"NULL", "junk"}, opens \in BOOLEAN :
             \E n \in 0 .. Len(l) : IamInit(l, n, junk, opens)
  BY <1>3, AskedElsewhere, Zenon
<1>4. CASE \E writes \in BOOLEAN : IamExit(writes)
  BY <1>4, AskedElsewhere, Zenon
<1>5. CASE \E alg \in Plugin \cup {"other"}, v \in BOOLEAN, id \in DetIds : Ask(alg, v, id)
  BY <1>5, AskedAsk, Zenon
<1>6. CASE UNCHANGED vars
  <2>1. UNCHANGED <<pc, plugins, isVdetectors, det_id, cursor, unread, asked>>
    BY <1>6, Zenon DEF vars, library, statics
  <2> QED BY <2>1, Zenon DEF AskedInv, ModeSet, RunsAsAsked
<1> QED BY <1>1, <1>2, <1>3, <1>4, <1>5, <1>6, Zenon DEF Next

(* fit and predict of NSA_RV run in the mode and on the set of detectors   *)
(* of the call that reaches them (set_mode of iam_py.c), although both are *)
(* static variables that outlive calls, sessions and even iam_exit.        *)
THEOREM RunsInMode == Spec => []RunsAsAsked
<1>1. AskedInv => RunsAsAsked
  BY Zenon DEF AskedInv
<1> QED BY <1>1, TypeInit, TypeStep, SafeInit, SafeStep, AskedInit, AskedStep, PTL DEF Spec

-----------------------------------------------------------------------------
(* What print_info shows.                                                  *)

(* The pieces of seqs one after the other.                                 *)
Joined(g, T, seqs) ==
  /\ g \in [0 .. Len(seqs) -> Seq(T)] /\ g[0] = << >>
  /\ \A i \in 1 .. Len(seqs) : g[i] = g[i - 1] \o seqs[i]

LEMMA JoinedIs ==
  ASSUME NEW T, NEW seqs \in Seq(Seq(T))
  PROVE  \E g : Joined(g, T, seqs)
<1> DEFINE n == Len(seqs)
           base == << >>
           F == [p \in Seq(T) \X (1 .. n) |-> p[1] \o seqs[p[2]]]
<1>1. n \in Nat /\ base \in Seq(T) /\ \A i \in 1 .. n : seqs[i] \in Seq(T)
  OBVIOUS
<1>2. F \in [Seq(T) \X (1 .. n) -> Seq(T)]
  BY <1>1
<1>3. PICK g \in [0 .. n -> Seq(T)] : Iterates(g, n, base, F)
  <2> HIDE DEF F, n, base
  <2> QED BY <1>1, <1>2, Iteration, Zenon
<1>4. ASSUME NEW i \in 1 .. n
      PROVE  g[i] = g[i - 1] \o seqs[i]
  <2>1. i - 1 \in 0 .. n
    BY <1>1
  <2>2. g[i] = F[<<g[i - 1], i>>]
    BY <1>3, Zenon DEF Iterates
  <2> QED BY <2>1, <2>2
<1>5. g[0] = << >>
  BY <1>3, Zenon DEF Iterates
<1> QED BY <1>4, <1>5 DEF Joined

LEMMA FlattenIs ==
  ASSUME NEW T, NEW seqs \in Seq(Seq(T)), NEW g, Joined(g, T, seqs)
  PROVE  FlattenSeq(seqs) = g[Len(seqs)]
<1> DEFINE n == Len(seqs)
           G(h) == [i \in 1 .. n |-> IF i = 1 THEN seqs[i] ELSE h[i - 1] \o seqs[i]]
           flatten == CHOOSE h : h = G(h)
           f == [i \in 1 .. n |-> g[i]]
<1>1. n \in Nat /\ \A i \in 1 .. n : seqs[i] \in Seq(T)
  OBVIOUS
<1>2. /\ \A i \in 0 .. n : g[i] \in Seq(T)
      /\ g[0] = << >> /\ \A i \in 1 .. n : g[i] = g[i - 1] \o seqs[i]
  BY DEF Joined
<1>3. CASE n = 0
  <2>1. seqs = << >> /\ FlattenSeq(seqs) = seqs
    BY <1>3 DEF FlattenSeq
  <2> QED BY <1>2, <1>3, <2>1
<1>4. CASE n # 0
  <2>1. FlattenSeq(seqs) = flatten[n]
    BY <1>4 DEF FlattenSeq
  <2>2. f = G(f)
    <3>1. ASSUME NEW i \in 1 .. n
          PROVE  f[i] = G(f)[i]
      <4>1. CASE i = 1
        <5>1. g[i] = g[i - 1] \o seqs[i] /\ seqs[i] \in Seq(T)
          BY <1>1, <1>2, Zenon
        <5>2. << >> \o seqs[i] = seqs[i]
          BY <5>1, ConcatEmptySeq
        <5>3. i - 1 = 0
          BY <4>1
        <5>4. g[i - 1] = << >>
          BY <1>2, <5>3, Zenon
        <5> QED BY <4>1, <5>1, <5>2, <5>4
      <4>2. CASE i # 1
        <5>1. i - 1 \in 1 .. n
          BY <1>1, <4>2
        <5> QED BY <1>2, <4>2, <5>1
      <4> QED BY <4>1, <4>2
    <3> QED BY <3>1
  <2>3. flatten = G(flatten)
    BY <2>2, Zenon
  <2> HIDE DEF flatten
  <2>4. \A i \in 1 .. n : flatten[i] = IF i = 1 THEN seqs[i] ELSE flatten[i - 1] \o seqs[i]
    BY <2>3, Zenon
  <2> DEFINE S == {i \in 0 .. n : i # 0 => flatten[i] = g[i]}
  <2>5. 0 \in S
    BY <1>1
  <2>6. ASSUME NEW i \in 0 .. n - 1, i \in S
        PROVE  i + 1 \in S
    <3>1. i + 1 \in 1 .. n /\ (i + 1) - 1 = i /\ i + 1 \in 0 .. n
      BY <1>1
    <3>2. g[i + 1] = g[i] \o seqs[i + 1]
      BY <1>2, <3>1
    <3>3. CASE i = 0
      <4>1. i + 1 = 1 /\ seqs[i + 1] \in Seq(T)
        BY <1>1, <3>1, <3>3
      <4>2. << >> \o seqs[i + 1] = seqs[i + 1]
        BY <4>1, ConcatEmptySeq
      <4>3. g[i + 1] = << >> \o seqs[i + 1]
        BY <1>2, <3>2, <3>3
      <4>4. flatten[i + 1] = seqs[i + 1]
        BY <2>4, <3>1, <4>1, Zenon
      <4> QED BY <3>1, <4>2, <4>3, <4>4
    <3>4. CASE i # 0
      <4>0. i + 1 # 1
        BY <3>4
      <4>1. flatten[i + 1] = flatten[i] \o seqs[i + 1]
        BY <2>4, <3>1, <4>0, Zenon
      <4> QED BY <2>6, <3>1, <3>2, <3>4, <4>1
    <3> QED BY <3>3, <3>4
  <2>7. \A i \in 0 .. n : i \in S
    <3> HIDE DEF S, n
    <3> QED BY <1>1, <2>5, <2>6, UpTo, Zenon
  <2>8. n \in 0 .. n
    BY <1>1
  <2> QED BY <1>4, <2>1, <2>7, <2>8
<1> QED BY <1>3, <1>4

LEMMA FlattenAppend ==
  ASSUME NEW T, NEW seqs \in Seq(Seq(T)), NEW x \in Seq(T)
  PROVE  FlattenSeq(Append(seqs, x)) = FlattenSeq(seqs) \o x
<1> DEFINE n == Len(seqs)
           more == Append(seqs, x)
<1>1. /\ n \in Nat /\ more \in Seq(Seq(T)) /\ Len(more) = n + 1 /\ more[n + 1] = x
      /\ \A i \in 1 .. n : more[i] = seqs[i]
  OBVIOUS
<1> HIDE DEF more
<1>2. PICK g : Joined(g, T, more)
  BY <1>1, JoinedIs
<1> DEFINE f == [i \in 0 .. n |-> g[i]]
<1>3. /\ \A i \in 0 .. n + 1 : g[i] \in Seq(T)
      /\ g[0] = << >> /\ \A i \in 1 .. n + 1 : g[i] = g[i - 1] \o more[i]
  BY <1>1, <1>2 DEF Joined
<1>4. Joined(f, T, seqs)
  <2>1. f \in [0 .. n -> Seq(T)] /\ f[0] = << >>
    BY <1>1, <1>3
  <2>2. ASSUME NEW i \in 1 .. n
        PROVE  f[i] = f[i - 1] \o seqs[i]
    <3>1. i - 1 \in 0 .. n /\ i \in 0 .. n /\ i \in 1 .. n + 1
      BY <1>1
    <3> QED BY <1>1, <1>3, <3>1
  <2> QED BY <2>1, <2>2 DEF Joined
<1>5. FlattenSeq(seqs) = f[n] /\ FlattenSeq(more) = g[n + 1]
  <2> HIDE DEF f
  <2> QED BY <1>1, <1>2, <1>4, FlattenIs
<1>6. f[n] = g[n] /\ n + 1 \in 1 .. n + 1 /\ (n + 1) - 1 = n
  BY <1>1
<1>7. g[n + 1] = g[n] \o x
  BY <1>1, <1>3, <1>6
<1> QED BY <1>5, <1>6, <1>7 DEF more

(* The modules ps with their settings, as the viewer shows them.           *)
Word == Plugin \cup SettingName
Piece(p) == <<p>> \o Settings[p]
Listing(ps) == FlattenSeq([j \in DOMAIN ps |-> Piece(ps[j])])

LEMMA PieceTyped == \A p \in Plugin : Piece(p) \in Seq(Word)
<1> TAKE p \in Plugin
<1>1. Settings[p] \in Seq(Word)
  BY SettingsTyped DEF Word
<1>2. <<p>> \in Seq(Word)
  BY DEF Word
<1> QED BY <1>1, <1>2 DEF Piece

LEMMA ListingEmpty == Listing(<< >>) = << >>
  BY DEF Listing, FlattenSeq

LEMMA ListingAppend ==
  ASSUME NEW ps \in Seq(Plugin), NEW p \in Plugin
  PROVE  Listing(Append(ps, p)) = Listing(ps) \o Piece(p)
<1> DEFINE seqs == [j \in DOMAIN ps |-> Piece(ps[j])]
           more == [j \in DOMAIN Append(ps, p) |-> Piece(Append(ps, p)[j])]
<1>1. seqs \in Seq(Seq(Word)) /\ Len(seqs) = Len(ps)
  <2>1. DOMAIN ps = 1 .. Len(ps) /\ Len(ps) \in Nat /\ \A j \in 1 .. Len(ps) : ps[j] \in Plugin
    OBVIOUS
  <2>2. \A j \in 1 .. Len(ps) : Piece(ps[j]) \in Seq(Word)
    BY <2>1, PieceTyped
  <2> QED BY <2>1, <2>2
<1>2. more = Append(seqs, Piece(p))
  <2>1. /\ DOMAIN Append(ps, p) = 1 .. Len(ps) + 1 /\ DOMAIN ps = 1 .. Len(ps)
        /\ \A j \in 1 .. Len(ps) : Append(ps, p)[j] = ps[j]
        /\ Append(ps, p)[Len(ps) + 1] = p /\ Len(ps) \in Nat
    OBVIOUS
  <2>2. \A j \in 1 .. Len(ps) : seqs[j] = Piece(ps[j])
    BY <2>1
  <2> HIDE DEF seqs
  <2>3. \A j \in 1 .. Len(ps) + 1 : more[j] = Append(seqs, Piece(p))[j]
    BY <1>1, <2>1, <2>2
  <2> DEFINE A == Append(seqs, Piece(p))
  <2>4. A \in Seq(Seq(Word)) /\ Len(A) = Len(ps) + 1
    BY <1>1, <2>1, PieceTyped
  <2> HIDE DEF A
  <2>5. A = [j \in 1 .. Len(ps) + 1 |-> A[j]]
    BY <2>4
  <2>6. more = [j \in 1 .. Len(ps) + 1 |-> more[j]]
    BY <2>1
  <2> HIDE DEF more
  <2> QED BY <2>3, <2>5, <2>6 DEF A
<1>3. Piece(p) \in Seq(Word)
  BY PieceTyped
<1> HIDE DEF seqs, more
<1>4. FlattenSeq(more) = FlattenSeq(seqs) \o Piece(p)
  BY <1>1, <1>2, <1>3, FlattenAppend
<1> QED BY <1>4, Zenon DEF Listing, seqs, more

LEMMA ListingTyped ==
  ASSUME NEW ps \in Seq(Plugin)
  PROVE  Listing(ps) \in Seq(Word)
<1> DEFINE seqs == [j \in DOMAIN ps |-> Piece(ps[j])]
<1>1. seqs \in Seq(Seq(Word))
  <2>1. DOMAIN ps = 1 .. Len(ps) /\ Len(ps) \in Nat /\ \A j \in 1 .. Len(ps) : ps[j] \in Plugin
    OBVIOUS
  <2>2. \A j \in 1 .. Len(ps) : Piece(ps[j]) \in Seq(Word)
    BY <2>1, PieceTyped
  <2> QED BY <2>1, <2>2
<1> HIDE DEF seqs
<1>2. PICK g : Joined(g, Word, seqs)
  BY <1>1, JoinedIs
<1>3. FlattenSeq(seqs) = g[Len(seqs)]
  BY <1>1, <1>2, FlattenIs
<1>4. Len(seqs) \in 0 .. Len(seqs)
  BY <1>1
<1> QED BY <1>2, <1>3, <1>4 DEF Joined, Listing, seqs

(* What is printed are the modules read so far with their settings; in the *)
(* middle of one, its settings still to be read complete it.               *)
ViewInv ==
  /\ pc \notin {"view", "print"} => printed = << >>
  /\ pc = "view" =>
       \E done \in Seq(Plugin) : plugins = done \o cursor.rest /\ printed = Listing(done)
  /\ pc = "print" =>
       \E done \in Seq(Plugin) : plugins = done \o cursor.rest /\ printed \o unread = Listing(done)

LEMMA MovesOver ==
  ASSUME NEW S, NEW q \in Seq(S), NEW r \in Seq(S), r # << >>
  PROVE  Append(q, Head(r)) \o Tail(r) = q \o r
<1> DEFINE a == Append(q, Head(r)) \o Tail(r)
           b == q \o r
<1>1. /\ a \in Seq(S) /\ b \in Seq(S) /\ Len(a) = Len(q) + Len(r) /\ Len(b) = Len(q) + Len(r)
      /\ Len(q) \in Nat /\ Len(r) \in Nat
  OBVIOUS
<1>2. \A n \in 1 .. Len(q) + Len(r) : a[n] = b[n]
  OBVIOUS
<1> HIDE DEF a, b
<1>3. a = b
  BY <1>1, <1>2
<1> QED BY <1>3 DEF a, b

LEMMA MovesPiece ==
  ASSUME NEW S, NEW q \in Seq(S), NEW x \in S, NEW r \in Seq(S)
  PROVE  Append(q, x) \o r = q \o (<<x>> \o r)
<1>1. <<x>> \in Seq(S) /\ Append(q, x) = q \o <<x>>
  OBVIOUS
<1>2. (q \o <<x>>) \o r = q \o (<<x>> \o r)
  BY <1>1, ConcatAssociative
<1> QED BY <1>1, <1>2

LEMMA ViewInit == Init => ViewInv
  BY DEF Init, ViewInv

LEMMA ViewPrintInfo == ASSUME TypeOK, ViewInv, PrintInfo PROVE ViewInv'
<1>1. /\ pc = "ready" /\ pc' = "view" /\ cursor' = [rest |-> plugins, of |-> "current"]
      /\ UNCHANGED <<plugins, printed>>
  BY Zenon DEF PrintInfo, Rewind, library, view
<1>2. printed = << >> /\ << >> \in Seq(Plugin) /\ plugins = << >> \o plugins
  <2>1. printed = << >>
    BY <1>1 DEF ViewInv
  <2>2. plugins \in Seq(Plugin)
    BY DEF TypeOK
  <2> QED BY <2>1, <2>2, ConcatEmptySeq
<1>3. cursor'.rest = plugins
  BY <1>1
<1>4. plugins' = << >> \o cursor'.rest /\ printed' = Listing(<< >>)
  BY <1>1, <1>2, <1>3, ListingEmpty, Zenon
<1> QED BY <1>1, <1>2, <1>4 DEF ViewInv

LEMMA ViewPrintModule == ASSUME TypeOK, ViewInv, PrintModule PROVE ViewInv'
<1>1. PICK m \in Plugin : Reads(m) /\ printed' = Append(printed, m) /\ unread' = Settings[m]
  BY Zenon DEF PrintModule
<1>2. pc = "view" /\ pc' = "print" /\ plugins' = plugins
  BY Zenon DEF PrintModule, library
<1>3. PICK done \in Seq(Plugin) : plugins = done \o cursor.rest /\ printed = Listing(done)
  BY <1>2 DEF ViewInv
<1>4. /\ cursor.rest \in Seq(Plugin) /\ cursor.rest # << >> /\ m = Head(cursor.rest)
      /\ cursor'.rest = Tail(cursor.rest)
  BY <1>1 DEF TypeOK, Reads
<1>5. Append(done, m) \in Seq(Plugin) /\ plugins' = Append(done, m) \o cursor'.rest
  BY <1>2, <1>3, <1>4, MovesOver, AppendTyped, Zenon
<1>6. printed' \o unread' = Listing(Append(done, m))
  <2>1. printed \in Seq(Word) /\ Settings[m] \in Seq(Word) /\ m \in Word
    <3>1. printed \in Seq(Word)
      BY DEF TypeOK, Word
    <3>2. Settings[m] \in Seq(SettingName)
      BY SettingsTyped
    <3>3. m \in Word /\ SettingName \subseteq Word
      BY DEF Word
    <3> QED BY <3>1, <3>2, <3>3
  <2>2. Append(printed, m) \o Settings[m] = printed \o (<<m>> \o Settings[m])
    <3> DEFINE r == Settings[m]
               q == printed
    <3>1. q \in Seq(Word) /\ r \in Seq(Word) /\ m \in Word
      BY <2>1
    <3> HIDE DEF r, q
    <3>2. Append(q, m) \o r = q \o (<<m>> \o r)
      BY <3>1, MovesPiece
    <3> QED BY <3>2 DEF r, q
  <2>3. Listing(Append(done, m)) = Listing(done) \o (<<m>> \o Settings[m])
    BY <1>3, ListingAppend DEF Piece
  <2> QED BY <1>1, <1>3, <2>2, <2>3, Zenon
<1> QED BY <1>2, <1>5, <1>6 DEF ViewInv

LEMMA ViewPrintSetting == ASSUME TypeOK, ViewInv, PrintSetting PROVE ViewInv'
<1>1. /\ pc = "print" /\ pc' = "print" /\ unread # << >> /\ UNCHANGED <<plugins, cursor>>
      /\ printed' = Append(printed, Head(unread)) /\ unread' = Tail(unread)
  BY Zenon DEF PrintSetting, library
<1>2. PICK done \in Seq(Plugin) : plugins = done \o cursor.rest /\ printed \o unread = Listing(done)
  BY <1>1 DEF ViewInv
<1>3. printed \in Seq(Word) /\ unread \in Seq(Word)
  <2>1. printed \in Seq(Word) /\ unread \in Seq(SettingName)
    BY DEF TypeOK, Word
  <2>2. SettingName \subseteq Word
    BY DEF Word
  <2> QED BY <2>1, <2>2
<1>4. printed' \o unread' = printed \o unread
  BY <1>1, <1>3, MovesOver, Zenon
<1> QED BY <1>1, <1>2, <1>4 DEF ViewInv

LEMMA ViewPrintModuleEnds == ASSUME TypeOK, ViewInv, PrintModuleEnds PROVE ViewInv'
<1>1. /\ pc = "print" /\ pc' = "view" /\ unread = << >> /\ UNCHANGED <<plugins, cursor, printed>>
  BY Zenon DEF PrintModuleEnds, library, view
<1>2. PICK done \in Seq(Plugin) : plugins = done \o cursor.rest /\ printed \o unread = Listing(done)
  BY <1>1 DEF ViewInv
<1>3. printed \o << >> = printed
  BY ConcatEmptySeq DEF TypeOK
<1> QED BY <1>1, <1>2, <1>3 DEF ViewInv

LEMMA ViewPrintValue == ASSUME ViewInv, PrintValue PROVE ViewInv'
<1>1. pc = "print" /\ pc' = "print" /\ UNCHANGED <<plugins, cursor, printed, unread>>
  BY Zenon DEF PrintValue, library
<1> QED BY <1>1 DEF ViewInv

(* Nothing is printed outside the viewer.                                  *)
LEMMA ViewElsewhere ==
  ASSUME ViewInv,
         \/ Restart \/ PrintEnds
         \/ PassBy \/ Find \/ FindNone \/ SetMode \/ SetModeEnds \/ Call \/ Return
         \/ \E l, n, junk, opens : IamInit(l, n, junk, opens)
         \/ \E writes : IamExit(writes)
         \/ \E alg, v, id : Ask(alg, v, id)
  PROVE  ViewInv'
<1>1. CASE Restart \/ PrintEnds
  <2>1. pc' = "ready" /\ printed' = << >>
    BY <1>1, Zenon DEF Restart, PrintEnds
  <2> QED BY <2>1 DEF ViewInv
<1>2. CASE ~(Restart \/ PrintEnds)
  <2>1. printed' = printed
    BY <1>2, Zenon DEF PassBy, Find, FindNone, SetMode, SetModeEnds, Call, Return, IamInit, IamExit,
       Ask, view
  <2>2. pc \notin {"view", "print"}
    BY <1>2 DEF PassBy, Find, FindNone, SetMode, SetModeEnds, Call, Return, IamInit, IamExit, Ask
  <2>3. pc' \notin {"view", "print"}
    <3>1. CASE \/ PassBy \/ Find \/ FindNone \/ SetMode \/ SetModeEnds \/ Return
               \/ \E alg, v, id : Ask(alg, v, id)
      BY <3>1 DEF PassBy, Find, FindNone, SetMode, SetModeEnds, Return, Ask
    <3>2. CASE Call
      BY <3>2 DEF Call, Undefined
    <3>3. CASE \/ \E l, n, junk, opens : IamInit(l, n, junk, opens)
               \/ \E writes : IamExit(writes)
      <4>1. pc' = pc \/ pc' = "undefined"
        BY <3>3, Zenon DEF IamInit, IamExit, Undefined
      <4> QED BY <2>2, <4>1
    <3> QED BY <1>2, <3>1, <3>2, <3>3
  <2> QED BY <2>1, <2>2, <2>3 DEF ViewInv
<1> QED BY <1>1, <1>2

LEMMA ViewStep == TypeOK /\ ViewInv /\ [Next]_vars => ViewInv'
<1> SUFFICES ASSUME TypeOK, ViewInv, [Next]_vars PROVE ViewInv'
  OBVIOUS
<1>1. CASE Proceeds
  BY <1>1, ViewPrintModule, ViewPrintSetting, ViewPrintValue, ViewPrintModuleEnds, ViewElsewhere,
     Zenon DEF Proceeds
<1>2. CASE PrintInfo \/ Restart
  BY <1>2, ViewPrintInfo, ViewElsewhere, Zenon
<1>3. CASE \E l \in Listings, junk \in {"NULL", "junk"}, opens \in BOOLEAN :
             \E n \in 0 .. Len(l) : IamInit(l, n, junk, opens)
  BY <1>3, ViewElsewhere, Zenon
<1>4. CASE \E writes \in BOOLEAN : IamExit(writes)
  BY <1>4, ViewElsewhere, Zenon
<1>5. CASE \E alg \in Plugin \cup {"other"}, v \in BOOLEAN, id \in DetIds : Ask(alg, v, id)
  BY <1>5, ViewElsewhere, Zenon
<1>6. CASE UNCHANGED vars
  <2>1. UNCHANGED <<pc, plugins, cursor, unread, printed>>
    BY <1>6, Zenon DEF vars, library, view
  <2> QED BY <2>1, Zenon DEF ViewInv
<1> QED BY <1>1, <1>2, <1>3, <1>4, <1>5, <1>6, Zenon DEF Next

(* print_info of viewer.c shows each module and each of its settings once, *)
(* in the order of registration, however many modules and settings there   *)
(* are and wherever another reader left the cursors it shares.             *)
THEOREM ViewerShowsAll == Spec => ViewerComplete
<1>1. ASSUME TypeOK, ViewInv, [Next]_vars
      PROVE  pc = "view" /\ pc' = "ready" => printed = Listing(plugins)
  <2> SUFFICES ASSUME pc = "view", pc' = "ready"
               PROVE  printed = Listing(plugins)
    OBVIOUS
  <2>1. cursor.rest = << >>
    <3>1. pc' # pc
      OBVIOUS
    <3>2. ~UNCHANGED vars
      BY <3>1, Zenon DEF vars
    <3>3. Next
      BY <3>2, <1>1, Zenon
    <3>4. ~(PrintInfo \/ Restart)
      BY DEF PrintInfo, Restart
    <3>5. \A l, n, junk, opens, writes, alg, v, id :
            ~(IamInit(l, n, junk, opens) \/ IamExit(writes) \/ Ask(alg, v, id))
      BY DEF IamInit, IamExit, Ask
    <3>6. Proceeds
      BY <3>3, <3>4, <3>5, Zenon DEF Next
    <3>7. ~(PassBy \/ Find \/ FindNone \/ SetMode \/ SetModeEnds \/ Call \/ Return)
      BY DEF PassBy, Find, FindNone, SetMode, SetModeEnds, Call, Return
    <3>8. ~(PrintModule \/ PrintSetting \/ PrintValue \/ PrintModuleEnds)
      BY DEF PrintModule, PrintSetting, PrintValue, PrintModuleEnds
    <3>9. PrintEnds
      BY <3>6, <3>7, <3>8, Zenon DEF Proceeds
    <3> QED BY <3>9, Zenon DEF PrintEnds
  <2>2. PICK done \in Seq(Plugin) : plugins = done \o cursor.rest /\ printed = Listing(done)
    BY <1>1 DEF ViewInv
  <2>3. done \o << >> = done
    BY ConcatEmptySeq
  <2> QED BY <2>1, <2>2, <2>3, Zenon
<1>2. TypeOK /\ ViewInv /\ [Next]_vars =>
        [pc = "view" /\ pc' = "ready" =>
           printed = FlattenSeq([j \in DOMAIN plugins |-> <<plugins[j]>> \o Settings[plugins[j]]])]_vars
  BY <1>1, Zenon DEF Listing, Piece
<1> QED BY <1>2, TypeInit, TypeStep, ViewInit, ViewStep, PTL DEF Spec, ViewerComplete
=============================================================================
