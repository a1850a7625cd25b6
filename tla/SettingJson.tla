---------------------------- MODULE SettingJson -----------------------------
(***************************************************************************)
(* src/plugins/storage/setting_json/setting_json.c, the store that keeps   *)
(* the plugins' settings in a JSON file, with what it calls of             *)
(* src/setting.c and src/variable.c: over sessions of the library the file *)
(* is read, each module's settings are loaded from its entry or, for a     *)
(* module without one, an entry is made of the defaults, and the document  *)
(* is written back.  Between sessions a user edits the file; a crash may   *)
(* come at any step.                                                       *)
(*                                                                         *)
(* An integer is three digits of base 2: an int64 has all of them, an      *)
(* int32 the lower two, a uint8 or a bool the lowest.  A string is known   *)
(* by its length, a double by a number.                                    *)
(***************************************************************************)
EXTENDS Integers, SequencesExt

CONSTANTS
  Modules,     \* the plugins, by name
  Settings,    \* per module, what it registers: [name, kind, max, size, default]
  Orders,      \* the orders in which a session's plugins are loaded
  Cells,       \* the JSON scalars a user writes: [t, v]
  Behind,      \* what the memory behind a narrow variable holds
  NoDocument   \* the file is missing, or does not parse

Names(m) == {Settings[m][i].name : i \in DOMAIN Settings[m]}
Kinds == {"bool", "uint8", "int32", "int64", "double", "str"}
Number == 0 .. 7
Narrow == {"bool", "uint8", "int32"}
Base(kind) == CASE kind \in {"bool", "uint8"} -> 2 [] kind = "int32" -> 4

(* The store's own plugin is always among the modules.                     *)
ASSUME OrderAssumption == Orders \subseteq Seq(Modules) \ {<< >>}
ASSUME CellAssumption == Cells \subseteq [t : {"int", "real", "str"}, v : Number]
ASSUME BehindAssumption == Behind \subseteq Nat
(* A module's names differ; arrays are over the plugin's memory and hold   *)
(* wide elements (NSA_RA's int64 and double arrays).                       *)
ASSUME SettingAssumption ==
  \A m \in Modules :
    /\ Settings[m] \in Seq([name : STRING, kind : Kinds, max : Nat \ {0}, size : Nat,
                            default : Seq(Number)])
    /\ \A i, j \in DOMAIN Settings[m] :
         Settings[m][i].name = Settings[m][j].name => i = j
    /\ \A i \in DOMAIN Settings[m] :
         LET s == Settings[m][i]
         IN  /\ Len(s.default) <= s.max /\ (s.max = 1 => Len(s.default) = 1)
             /\ s.kind \in Narrow => s.max = 1 /\ s.default[1] < Base(s.kind)

VARIABLES
  pc,        \* where the session is
  closing,   \* iam_exit is running
  order,     \* the session's modules, iam__plugins
  next,      \* the one to load
  file,      \* setting.json
  root,      \* the document in memory
  has_dump,
  cut,       \* history: the last dump of the session did not write it all
  values,    \* per module and setting, the elements it holds
  zero,      \* the static buffer of iam_variable_set_value
  start,     \* history: the document the session found
  edited     \* history: the modules whose entry the user has touched

vars == <<pc, closing, order, next, file, root, has_dump, cut, values, zero, start, edited>>

Empty == [m \in {} |-> 0]
(* json_object_set: key k of d has the value x.                            *)
ObjectSet(d, k, x) == [n \in {k} \cup DOMAIN d |-> IF n = k THEN x ELSE d[n]]

(* iam_setting_reg_<type>: the setting points to the plugin's variable,    *)
(* which holds the default.                                                *)
Registered(m) == [i \in DOMAIN Settings[m] |-> Settings[m][i].default]

Init ==
  /\ pc = "off" /\ closing = FALSE /\ order = << >> /\ next = 1
  /\ file = NoDocument /\ root = Empty /\ has_dump = FALSE /\ cut = FALSE
  /\ values = [m \in Modules |-> Registered(m)] /\ zero = 0
  /\ start = Empty /\ edited = {}

(* setting_init, after the library and the plugins were loaded anew.       *)
Start ==
  /\ pc = "off"
  /\ pc' = "load" /\ next' = 1
  /\ order' \in Orders
  /\ root' = IF file = NoDocument THEN Empty ELSE file
  /\ start' = root'
  /\ UNCHANGED <<closing, file, has_dump, cut, values, zero, edited>>
-----------------------------------------------------------------------------
(* Loading.                                                                *)

Tag(kind) == CASE kind = "double" -> "real" [] kind = "str" -> "str" [] OTHER -> "int"

(* json_integer_value and json_real_value give zero for another type.      *)
ValueAs(kind, j) == IF j.t = Tag(kind) THEN j.v ELSE 0

(* iam_variable_check_str: NULL, which json_string_value gives for another *)
(* type, and a string that does not fit with its terminator are refused.   *)
Refused(s, j) == s.kind = "str" /\ (j.t # "str" \/ j.v + 1 > s.size)

(* Variant: the index is not held against max.                             *)
TakesBeyondMax(s, cells, i) == i <= Len(cells) + 1

(* iam_setting_set: element i (from 1) is there, or is the next and has    *)
(* room.                                                                   *)
Takes(s, cells, i) == i <= Len(cells) + 1 /\ i <= s.max

(* iam_variable_set_value: a bool takes whether the value is zero (its     *)
(* setter converts it), a wide variable the value.  A narrow integer takes *)
(* the low digits if they are the value once they are laid over the buffer *)
(* zero, which keeps its digits above them from call to call.              *)
Overlay(kind, z, x) ==
  IF kind \in Narrow \ {"bool"} THEN (z - (z % Base(kind))) + (x % Base(kind)) ELSE z

(* Variant: an integer is copied without a comparison.                     *)
StoresUnchecked(kind, z, x, old) == IF kind = "bool" /\ x # 0 THEN 1 ELSE x

Stores(kind, z, x, old) ==
  CASE kind = "bool" -> IF x # 0 THEN 1 ELSE 0
    [] kind \in Narrow \ {"bool"} -> IF Overlay(kind, z, x) = x THEN x % Base(kind) ELSE old
    [] OTHER -> x

(* copy_value of element i, on a record of the elements and the buffer.    *)
CopyValue(b, s, i, j) ==
  LET x == ValueAs(s.kind, j)
      old == IF i <= Len(b.cells) THEN b.cells[i] ELSE 0
      new == Stores(s.kind, b.zero, x, old)
  IN  IF Refused(s, j) \/ ~Takes(s, b.cells, i) THEN b
      ELSE [cells |-> IF i <= Len(b.cells) THEN [b.cells EXCEPT ![i] = new]
                      ELSE Append(b.cells, new),
            zero |-> Overlay(s.kind, b.zero, x)]

(* Variant: the elements of the default are given up before the loop.      *)
CopyValuesAnew(s, stg, z) ==
  LET copied[i \in 0 .. Len(stg.cells)] ==
        IF i = 0 THEN [cells |-> << >>, zero |-> z]
        ELSE CopyValue(copied[i - 1], s, i, stg.cells[i])
  IN  copied[Len(stg.cells)]

(* The loop over the elements of a value.                                  *)
CopyValues(s, stg, z) ==
  LET copied[i \in 0 .. Len(stg.cells)] ==
        IF i = 0 THEN [cells |-> s.default, zero |-> z]
        ELSE CopyValue(copied[i - 1], s, i, stg.cells[i])
  IN  copied[Len(stg.cells)]

(* One turn of load_from_json.  An array becomes the data that the later   *)
(* settings are looked up in: an array has no names.                       *)
LoadSetting(data, a, s) ==
  IF a.array \/ s.name \notin DOMAIN data
  THEN [a EXCEPT !.values = Append(@, s.default), !.missing = TRUE]
  ELSE LET stg == data[s.name]
           b == CopyValues(s, stg, a.zero)
       IN  [a EXCEPT !.values = Append(@, b.cells), !.zero = b.zero, !.array = stg.array]

(* load_from_json reads from iam_setting_rewind to the end.                *)
LoadFromJson(m, data) ==
  LET turn[i \in 0 .. Len(Settings[m])] ==
        IF i = 0 THEN [values |-> << >>, zero |-> zero, missing |-> FALSE, array |-> FALSE]
        ELSE LoadSetting(data, turn[i - 1], Settings[m][i])
  IN  turn[Len(Settings[m])]

(* iam_setting_get_int64_i copies eight bytes out of a narrow variable.    *)
Widened(s, x, b) == IF s.kind \in Narrow THEN (x + Base(s.kind) * b) % 8 ELSE x

(* Variant: the loop over the elements stops after the first.              *)
JsonOfFirst(s, cells, b) ==
  [array |-> s.max # 1, cells |-> << [t |-> Tag(s.kind), v |-> Widened(s, cells[1], b)] >>]

JsonOf(s, cells, b) ==
  [array |-> s.max # 1,
   cells |-> [i \in DOMAIN cells |-> [t |-> Tag(s.kind), v |-> Widened(s, cells[i], b)]]]

(* save_to_json: what comes after an array is put into the array by name,  *)
(* which jansson refuses.                                                  *)
Reached(m) ==
  {i \in DOMAIN Settings[m] : \A h \in 1 .. i - 1 : Settings[m][h].max = 1}

SaveToJson(m, behind) ==
  LET At(n) == CHOOSE i \in Reached(m) : Settings[m][i].name = n
  IN  [n \in {Settings[m][i].name : i \in Reached(m)} |->
         JsonOf(Settings[m][At(n)], values[m][At(n)], behind[At(n)])]

Loading(m) ==
  /\ pc = "load" /\ next <= Len(order) /\ m = order[next]
  /\ next' = next + 1
  /\ UNCHANGED <<pc, closing, order, file, cut, start>>

(* Variant: a known module is saved, not loaded.                           *)
LoadKnownSaves(m) ==
  /\ Loading(m) /\ m \in DOMAIN root
  /\ \E behind \in [DOMAIN Settings[m] -> Behind] :
       root' = [root EXCEPT ![m] = SaveToJson(m, behind)]
  /\ has_dump' = TRUE
  /\ UNCHANGED <<values, zero, edited>>

(* load of a module that has an entry.                                     *)
LoadKnown(m) ==
  /\ Loading(m) /\ m \in DOMAIN root
  /\ LET a == LoadFromJson(m, root[m])
     IN  /\ values' = [values EXCEPT ![m] = a.values]
         /\ zero' = a.zero /\ has_dump' = (has_dump \/ a.missing)
  /\ UNCHANGED <<root, edited>>

(* Variant: has_dump is not set.                                           *)
LoadNewQuietly(m) ==
  /\ Loading(m) /\ m \notin DOMAIN root
  /\ \E behind \in [DOMAIN Settings[m] -> Behind] :
       root' = ObjectSet(root, m, SaveToJson(m, behind))
  /\ edited' = edited \ {m}
  /\ UNCHANGED <<values, zero, has_dump>>

(* load of a module that has none: an entry is made and filled.            *)
LoadNew(m) ==
  /\ Loading(m) /\ m \notin DOMAIN root
  /\ \E behind \in [DOMAIN Settings[m] -> Behind] :
       root' = ObjectSet(root, m, SaveToJson(m, behind))
  /\ has_dump' = TRUE /\ edited' = edited \ {m}
  /\ UNCHANGED <<values, zero>>

LoadingDone ==
  /\ pc = "load" /\ next > Len(order)
  /\ pc' = "dump"
  /\ UNCHANGED <<closing, order, next, file, root, has_dump, cut, values, zero, start, edited>>
-----------------------------------------------------------------------------
(* The dump after loading and the one of setting_exit.                     *)

(* The statics of the plugins go with their libraries; the buffer zero is  *)
(* the process's.                                                          *)
Ends ==
  /\ pc' = "off" /\ closing' = FALSE /\ order' = << >> /\ next' = 1
  /\ root' = Empty /\ has_dump' = FALSE /\ cut' = FALSE /\ start' = Empty
  /\ values' = [m \in Modules |-> Registered(m)]
  /\ zero' \in {zero, 0}
  /\ UNCHANGED edited

DumpReturns(d, c) ==
  IF closing THEN Ends
  ELSE /\ pc' = "run" /\ has_dump' = d /\ cut' = c
       /\ UNCHANGED <<closing, order, next, root, values, zero, start, edited>>

DumpNothing ==
  /\ pc = "dump" /\ ~has_dump
  /\ DumpReturns(FALSE, cut)
  /\ UNCHANGED file

DumpNotOpened ==
  /\ pc = "dump" /\ has_dump
  /\ DumpReturns(TRUE, cut)
  /\ UNCHANGED file

(* fopen with "w" leaves nothing of the old document.                      *)
DumpOpens ==
  /\ pc = "dump" /\ has_dump
  /\ pc' = "write" /\ file' = NoDocument
  /\ UNCHANGED <<closing, order, next, root, has_dump, cut, values, zero, start, edited>>

DumpWrites ==
  /\ pc = "write"
  /\ file' = root
  /\ DumpReturns(FALSE, FALSE)

(* json_dumpf or fclose fails (a full disk).  Nobody looks at their        *)
(* results: has_dump is reset over a file that does not parse.             *)
DumpCut ==
  /\ pc = "write"
  /\ DumpReturns(FALSE, TRUE)
  /\ UNCHANGED file

SettingExit ==
  /\ pc = "run"
  /\ pc' = "dump" /\ closing' = TRUE
  /\ UNCHANGED <<order, next, file, root, has_dump, cut, values, zero, start, edited>>

Crash == pc # "off" /\ Ends /\ UNCHANGED file
-----------------------------------------------------------------------------
(* The user, between sessions.                                             *)
Edits(s) ==
  IF s.max = 1 THEN {[array |-> FALSE, cells |-> <<c>>] : c \in Cells}
  ELSE {[array |-> TRUE, cells |-> c] : c \in BoundedSeq(Cells, s.max + 1)}

EditsFile(m) ==
  /\ pc = "off" /\ file # NoDocument /\ m \in DOMAIN file
  /\ edited' = edited \cup {m}
  /\ UNCHANGED <<pc, closing, order, next, root, has_dump, cut, values, zero, start>>

EditSetting(m) ==
  /\ EditsFile(m)
  /\ \E i \in DOMAIN Settings[m] : \E stg \in Edits(Settings[m][i]) :
       file' = [file EXCEPT ![m] = ObjectSet(@, Settings[m][i].name, stg)]

RemoveSetting(m) ==
  /\ EditsFile(m)
  /\ \E n \in DOMAIN file[m] :
       file' = [file EXCEPT ![m] = [k \in DOMAIN @ \ {n} |-> @[k]]]

RemoveEntry(m) ==
  /\ EditsFile(m)
  /\ file' = [k \in DOMAIN file \ {m} |-> file[k]]

Next ==
  \/ Start \/ LoadingDone \/ SettingExit \/ Crash
  \/ DumpNothing \/ DumpNotOpened \/ DumpOpens \/ DumpWrites \/ DumpCut
  \/ \E m \in Modules :
       LoadKnown(m) \/ LoadNew(m) \/ EditSetting(m) \/ RemoveSetting(m) \/ RemoveEntry(m)

Spec == Init /\ [][Next]_vars
-----------------------------------------------------------------------------
Json == [array : BOOLEAN, cells : Seq([t : {"int", "real", "str"}, v : Number])]
IsDocument(d) ==
  /\ DOMAIN d \subseteq Modules
  /\ \A m \in DOMAIN d :
       DOMAIN d[m] \subseteq Names(m) /\ \A n \in DOMAIN d[m] : d[m][n] \in Json

(* The document has its shape and no setting more elements than room.      *)
TypeOK ==
  /\ pc \in {"off", "load", "dump", "write", "run"}
  /\ closing \in BOOLEAN /\ has_dump \in BOOLEAN /\ cut \in BOOLEAN
  /\ order \in Seq(Modules) /\ next \in 1 .. Len(order) + 1
  /\ file = NoDocument \/ IsDocument(file)
  /\ IsDocument(root) /\ IsDocument(start)
  /\ DOMAIN values = Modules
  /\ \A m \in Modules :
       /\ Len(values[m]) = Len(Settings[m])
       /\ \A i \in DOMAIN Settings[m] :
            values[m][i] \in Seq(Number) /\ Len(values[m][i]) <= Settings[m][i].max
  /\ zero \in Number /\ edited \subseteq Modules

(* The store never alters an entry it found: what the user wrote stays as  *)
(* it is, that of plugins which are not installed now included, in memory  *)
(* and in the file, unless the file is cut in the middle of a dump.        *)
EntriesKept ==
  \A d \in {root, file} \ {NoDocument} :
    pc # "off" => \A m \in DOMAIN start : m \in DOMAIN d /\ d[m] = start[m]

(* has_dump tells: once the settings are loaded the file is the document   *)
(* in memory, or a dump is still due (the one that setting_exit retries),  *)
(* or its writing failed, and then there is no document: what is there is  *)
(* never the document of an earlier session.                               *)
DumpTells == pc = "run" /\ ~has_dump => file = IF cut THEN NoDocument ELSE root

(* The file's value has the setting's shape and type, and room.            *)
Fits(s, stg) ==
  /\ stg.array = (s.max # 1) /\ Len(stg.cells) <= s.max
  /\ \A i \in DOMAIN stg.cells :
       LET j == stg.cells[i]
       IN  /\ j.t = Tag(s.kind)
           /\ s.kind = "str" => j.v < s.size
           /\ s.kind \in Narrow => j.v < Base(s.kind)

(* load_from_json goes over the elements of the file and leaves the other  *)
(* elements of the default as they are: a short array, or an empty one,    *)
(* has the tail of the default behind it.                                  *)
OverDefault(s, stg) ==
  [k \in DOMAIN s.default \cup DOMAIN stg.cells |->
     IF k \in DOMAIN stg.cells THEN stg.cells[k].v ELSE s.default[k]]

(* What the file says of a setting that no array comes before, where it    *)
(* has the setting's shape and type and fits, overrides the default        *)
(* element by element, and the plugin runs with nothing else: neither what *)
(* other entries hold nor what was loaded before for another setting.      *)
StoredIsLoaded ==
  pc = "run" =>
    \A m \in ToSet(order) \cap DOMAIN start : \A i \in Reached(m) :
      LET s == Settings[m][i]
      IN  s.name \in DOMAIN start[m] /\ Fits(s, start[m][s.name]) =>
            values[m][i] = OverDefault(s, start[m][s.name])

OwnDigits(kind, x) == IF kind \in Narrow THEN x % Base(kind) ELSE x

(* The entry made for a new module has each setting that no array comes    *)
(* before, with all elements of the default: a wide one as it is, a narrow *)
(* one in the low digits (above them is what lay behind the variable).     *)
NewEntryComplete ==
  pc = "run" =>
    \A m \in ToSet(order) \ DOMAIN start : \A i \in Reached(m) :
      LET s == Settings[m][i]
      IN  /\ s.name \in DOMAIN root[m] /\ root[m][s.name].array = (s.max # 1)
          /\ DOMAIN root[m][s.name].cells = DOMAIN s.default
          /\ \A k \in DOMAIN s.default :
               LET j == root[m][s.name].cells[k]
               IN  j.t = Tag(s.kind) /\ OwnDigits(s.kind, j.v) = s.default[k]

(* The plugin's description is "Saving settings in a json file"            *)
(* (setting_json.c:17): the entry made for a new module has every setting. *)
EntryHasAll ==
  pc = "run" => \A m \in ToSet(order) \ DOMAIN start : DOMAIN root[m] = Names(m)

(* setting.h:8: "the written values are the default values".  A plugin     *)
(* whose entry nobody touched runs with its own defaults in every session. *)
DefaultsComeBack ==
  pc = "run" => \A m \in ToSet(order) \ edited : values[m] = Registered(m)
=============================================================================
