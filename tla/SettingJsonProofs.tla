------------------------- MODULE SettingJsonProofs -------------------------
(***************************************************************************)
(* Proofs about SettingJson, for every set of plugins, settings, orders of *)
(* loading and edits: the entries the store found stay, the flag has_dump  *)
(* tells of the file, the documents and values keep their shape, a new     *)
(* entry is whole, untouched plugins run with their defaults, and what the *)
(* file says, where it fits, is what a plugin runs with.                   *)
(***************************************************************************)
EXTENDS SettingJson, Induction, TLAPS

(* d has every entry the session found, as it found it.                    *)
Keeps(d) == \A m \in DOMAIN start : m \in DOMAIN d /\ d[m] = start[m]

(* Both documents keep the entries; a document cut short is due to a dump  *)
(* in progress or the session's start, and only the first load may run     *)
(* with has_dump unset on a document that is not the file.  A cut dump     *)
(* leaves what DumpOpens left.                                             *)
Kept == pc # "off" => Keeps(root) /\ (file # NoDocument => Keeps(file))

Told ==
  /\ pc \in {"off", "load"} => ~cut
  /\ pc = "write" => file = NoDocument
  /\ pc = "load" /\ ~has_dump => file = root \/ (root = Empty /\ next = 1)
  /\ pc \in {"dump", "run"} /\ ~has_dump => file = IF cut THEN NoDocument ELSE root

Position == next \in Nat /\ (pc = "load" => order # << >> /\ order \in Seq(Modules))

IInv == Kept /\ Told /\ Position

(* What a document with one more entry holds.                              *)
LEMMA OneMore ==
  ASSUME NEW m, NEW x, NEW f, m \notin DOMAIN f
  PROVE  \A k \in DOMAIN f : k \in DOMAIN ObjectSet(f, m, x) /\ ObjectSet(f, m, x)[k] = f[k]
BY DEF ObjectSet

(* Before the first session there is nothing to keep or tell.              *)
LEMMA Starts == Init => IInv
BY DEF Init, IInv, Kept, Told, Position

(* The end of a session, and the return of a dump to the program.          *)
LEMMA Ended == ASSUME IInv, Ends PROVE IInv'
BY DEF IInv, Ends, Kept, Told, Position

(* setting_init takes the file as its document.                            *)
LEMMA StartSafe == ASSUME IInv, Start PROVE IInv'
<1>1. Keeps(root)' /\ (file' # NoDocument => Keeps(file)')
  <2>1. CASE file = NoDocument BY <2>1 DEF Start, Keeps
  <2>2. CASE file # NoDocument BY <2>2 DEF Start, Keeps
  <2>3. QED BY <2>1, <2>2
<1>2. order' \in Seq(Modules) \ {<< >>} BY OrderAssumption DEF Start
<1>3. file' = root' \/ root' = Empty BY DEF Start
<1>4. QED BY <1>1, <1>2, <1>3 DEF IInv, Start, Kept, Told, Position

(* load_from_json changes no document and may only set has_dump.           *)
LEMMA LoadKnownSafe == ASSUME IInv, NEW m \in Modules, LoadKnown(m) PROVE IInv'
<1>1. UNCHANGED <<pc, order, file, cut, start, root>> /\ pc = "load" /\ next' = next + 1
  BY DEF LoadKnown, Loading
<1>2. (~has_dump)' => ~has_dump BY DEF LoadKnown
<1>3. root # Empty BY DEF LoadKnown, Empty
<1>4. Kept' BY <1>1 DEF IInv, Kept, Keeps
<1>5. Told' BY <1>1, <1>2, <1>3 DEF IInv, Told
<1>6. Position' BY <1>1 DEF IInv, Position
<1>7. QED BY <1>4, <1>5, <1>6 DEF IInv

(* find_and_exec adds an entry that was not there.                         *)
LEMMA LoadNewSafe == ASSUME IInv, NEW m \in Modules, LoadNew(m) PROVE IInv'
<1>1. /\ UNCHANGED <<pc, order, file, cut, start>> /\ pc = "load" /\ next' = next + 1
      /\ has_dump' = TRUE
  BY DEF LoadNew, Loading
<1>2. PICK x : root' = ObjectSet(root, m, x)
  <2>1. PICK b \in [DOMAIN Settings[m] -> Behind] :
          root' = ObjectSet(root, m, SaveToJson(m, b))
    BY DEF LoadNew
  <2>2. QED BY <2>1
<1>3. m \notin DOMAIN root BY DEF LoadNew
<1>4. \A k \in DOMAIN root : k \in DOMAIN root' /\ root'[k] = root[k]
  BY <1>2, <1>3, OneMore
<1>5. Kept' BY <1>1, <1>4 DEF IInv, Kept, Keeps
<1>6. QED BY <1>1, <1>5 DEF IInv, Told, Position

(* By the end of the loop a module has been loaded.                        *)
LEMMA LoadingDoneSafe == ASSUME IInv, LoadingDone PROVE IInv'
<1>1. next # 1
  <2>1. order # << >> /\ order \in Seq(Modules) BY DEF IInv, Position, LoadingDone
  <2>2. Len(order) >= 1 BY <2>1
  <2>3. QED BY <2>2 DEF IInv, Position, LoadingDone
<1>2. QED BY <1>1 DEF IInv, LoadingDone, Kept, Keeps, Told, Position

(* A dump that does nothing, fails, or has written the document.           *)
LEMMA DumpSafe ==
  ASSUME IInv, DumpNothing \/ DumpNotOpened \/ DumpWrites \/ DumpCut
  PROVE  IInv'
<1>1. CASE closing BY <1>1, Ended DEF DumpNothing, DumpNotOpened, DumpWrites, DumpCut, DumpReturns
<1>2. CASE ~closing
  <2>1. CASE DumpNothing
    BY <1>2, <2>1 DEF DumpNothing, DumpReturns, IInv, Kept, Keeps, Told, Position
  <2>2. CASE DumpNotOpened
    BY <1>2, <2>2 DEF DumpNotOpened, DumpReturns, IInv, Kept, Keeps, Told, Position
  <2>3. CASE DumpWrites
    BY <1>2, <2>3 DEF DumpWrites, DumpReturns, IInv, Kept, Keeps, Told, Position
  <2>4. CASE DumpCut
    BY <1>2, <2>4 DEF DumpCut, DumpReturns, IInv, Kept, Keeps, Told, Position
  <2>5. QED BY <2>1, <2>2, <2>3, <2>4
<1>3. QED BY <1>1, <1>2

(* While it is written the file is no document.                            *)
LEMMA DumpOpensSafe == ASSUME IInv, DumpOpens PROVE IInv'
BY DEF DumpOpens, IInv, Kept, Keeps, Told, Position

(* setting_exit changes nothing before its dump.                           *)
LEMMA SettingExitSafe == ASSUME IInv, SettingExit PROVE IInv'
BY DEF SettingExit, IInv, Kept, Keeps, Told, Position

(* The user edits between sessions.                                        *)
LEMMA EditSafe ==
  ASSUME IInv, NEW m \in Modules, EditSetting(m) \/ RemoveSetting(m) \/ RemoveEntry(m)
  PROVE  IInv'
<1>1. EditsFile(m) BY DEF EditSetting, RemoveSetting, RemoveEntry
<1>2. QED BY <1>1 DEF EditsFile, IInv, Kept, Told, Position

(* Every step keeps the invariant.                                         *)
LEMMA StepSafe == IInv /\ [Next]_vars => IInv'
<1> SUFFICES ASSUME IInv, [Next]_vars PROVE IInv' OBVIOUS
<1>1. CASE Start BY <1>1, StartSafe
<1>2. CASE LoadingDone BY <1>2, LoadingDoneSafe
<1>3. CASE SettingExit BY <1>3, SettingExitSafe
<1>4. CASE Crash BY <1>4, Ended DEF Crash
<1>5. CASE DumpNothing \/ DumpNotOpened \/ DumpWrites \/ DumpCut BY <1>5, DumpSafe
<1>6. CASE DumpOpens BY <1>6, DumpOpensSafe
<1>7. CASE \E m \in Modules : LoadKnown(m) BY <1>7, LoadKnownSafe
<1>8. CASE \E m \in Modules : LoadNew(m) BY <1>8, LoadNewSafe
<1>9. CASE \E m \in Modules : EditSetting(m) \/ RemoveSetting(m) \/ RemoveEntry(m)
  BY <1>9, EditSafe
<1>10. CASE UNCHANGED vars
  BY <1>10 DEF vars, IInv, Kept, Keeps, Told, Position
<1>11. QED BY <1>1, <1>2, <1>3, <1>4, <1>5, <1>6, <1>7, <1>8, <1>9, <1>10 DEF Next

(* The invariant holds in every reachable state.                           *)
LEMMA Invariance == Spec => []IInv
<1>1. QED BY Starts, StepSafe, PTL DEF Spec

(* The store alters no entry it found, in memory or in the file            *)
(* (find_and_exec, save_to_json and dump of setting_json.c).               *)
THEOREM EntriesUntouched == Spec => []EntriesKept
<1>1. IInv => EntriesKept BY DEF IInv, Kept, Keeps, EntriesKept
<1>2. QED BY <1>1, Invariance, PTL

(* Once the settings are loaded, has_dump unset means that the file is the *)
(* document in memory (load_from_json, save_to_json and dump).             *)
THEOREM FlagTells == Spec => []DumpTells
<1>1. IInv => DumpTells BY DEF IInv, Told, DumpTells
<1>2. QED BY <1>1, Invariance, PTL
-----------------------------------------------------------------------------
(* Settings and cells.                                                     *)

Setting == [name : STRING, kind : Kinds, max : Nat \ {0}, size : Nat, default : Seq(Number)]
Cell == [t : {"int", "real", "str"}, v : Number]

(* What SettingAssumption says of one setting.                             *)
Proper(s) ==
  /\ s \in Setting /\ Len(s.default) <= s.max /\ (s.max = 1 => Len(s.default) = 1)
  /\ s.kind \in Narrow => s.max = 1 /\ s.default[1] < Base(s.kind)

LEMMA AllProper ==
  ASSUME NEW m \in Modules
  PROVE  /\ Settings[m] \in Seq(Setting)
         /\ \A i \in DOMAIN Settings[m] : Proper(Settings[m][i])
<1>1. Settings[m] \in Seq(Setting)
  BY SettingAssumption, Zenon DEF Setting
<1>2. ASSUME NEW i \in DOMAIN Settings[m]
      PROVE  Proper(Settings[m][i])
  <2>1. Settings[m][i] \in Setting
    BY <1>1
  <2>2. LET s == Settings[m][i]
        IN  /\ Len(s.default) <= s.max /\ (s.max = 1 => Len(s.default) = 1)
            /\ s.kind \in Narrow => s.max = 1 /\ s.default[1] < Base(s.kind)
    BY SettingAssumption, Zenon
  <2> QED BY <2>1, <2>2, Zenon DEF Proper
<1> QED BY <1>1, <1>2, Zenon

LEMMA NamesDiffer ==
  ASSUME NEW m \in Modules, NEW i \in DOMAIN Settings[m], NEW j \in DOMAIN Settings[m],
         Settings[m][i].name = Settings[m][j].name
  PROVE  i = j
  BY SettingAssumption, Zenon

LEMMA SettingFields ==
  ASSUME NEW s, Proper(s)
  PROVE  /\ s.kind \in Kinds /\ s.max \in Nat \ {0} /\ s.size \in Nat /\ s.default \in Seq(Number)
         /\ Len(s.default) <= s.max /\ (s.max = 1 => Len(s.default) = 1)
         /\ s.kind \in Narrow => s.max = 1 /\ s.default[1] < Base(s.kind)
  BY DEF Proper, Setting

LEMMA CellFields ==
  ASSUME NEW j \in Cell
  PROVE  j.t \in {"int", "real", "str"} /\ j.v \in Number
  BY DEF Cell

LEMMA BaseIs ==
  ASSUME NEW kind \in Kinds
  PROVE  /\ kind \in {"bool", "uint8"} => Base(kind) = 2
         /\ kind = "int32" => Base(kind) = 4
         /\ kind \in Narrow => Base(kind) \in {2, 4}
<1>1. CASE kind \in {"bool", "uint8"}
  BY <1>1 DEF Base
<1>2. CASE kind = "int32"
  BY <1>2 DEF Base
<1>3. CASE kind \notin Narrow
  BY <1>3 DEF Narrow
<1> QED BY <1>1, <1>2, <1>3 DEF Narrow

LEMMA ValueTyped ==
  ASSUME NEW kind, NEW j \in Cell
  PROVE  ValueAs(kind, j) \in Number
<1>1. 0 \in Number
  BY DEF Number
<1> QED BY <1>1, CellFields, Zenon DEF ValueAs

LEMMA OverlayTyped ==
  ASSUME NEW kind \in Kinds, NEW z \in Number, NEW x \in Number
  PROVE  Overlay(kind, z, x) \in Number
<1>1. CASE kind = "uint8"
  <2>1. Overlay(kind, z, x) = (z - (z % 2)) + (x % 2)
    BY <1>1, BaseIs DEF Overlay, Narrow
  <2> QED BY <2>1 DEF Number
<1>2. CASE kind = "int32"
  <2>1. Overlay(kind, z, x) = (z - (z % 4)) + (x % 4)
    BY <1>2, BaseIs DEF Overlay, Narrow
  <2> QED BY <2>1 DEF Number
<1>3. CASE kind \notin Narrow \ {"bool"}
  BY <1>3 DEF Overlay
<1> QED BY <1>1, <1>2, <1>3 DEF Narrow

LEMMA StoresCases ==
  ASSUME NEW kind \in Kinds, NEW z, NEW x, NEW old
  PROVE  /\ kind = "bool" => Stores(kind, z, x, old) = IF x # 0 THEN 1 ELSE 0
         /\ kind \in Narrow \ {"bool"} =>
              Stores(kind, z, x, old) = IF Overlay(kind, z, x) = x THEN x % Base(kind) ELSE old
         /\ kind \notin Narrow => Stores(kind, z, x, old) = x
<1>1. CASE kind = "bool"
  BY <1>1 DEF Stores, Narrow
<1>2. CASE kind \in Narrow \ {"bool"}
  BY <1>2 DEF Stores
<1>3. CASE kind \notin Narrow
  BY <1>3 DEF Stores, Narrow
<1> QED BY <1>1, <1>2, <1>3 DEF Narrow

LEMMA StoresTyped ==
  ASSUME NEW kind \in Kinds, NEW z \in Number, NEW x \in Number, NEW old \in Number
  PROVE  Stores(kind, z, x, old) \in Number
<1>1. CASE kind = "bool"
  BY <1>1, StoresCases DEF Number
<1>2. CASE kind \in Narrow \ {"bool"}
  <2>1. Base(kind) \in {2, 4}
    BY <1>2, BaseIs
  <2>2. x % Base(kind) \in Number
    BY <2>1 DEF Number
  <2>3. Stores(kind, z, x, old) = IF Overlay(kind, z, x) = x THEN x % Base(kind) ELSE old
    BY <1>2, StoresCases, Zenon
  <2> QED BY <2>2, <2>3, Zenon
<1>3. CASE kind \notin Narrow
  BY <1>3, StoresCases
<1> QED BY <1>1, <1>2, <1>3

-----------------------------------------------------------------------------
(* The loop over the elements of a value.                                  *)

(* The elements of setting s and the buffer zero.                          *)
Copy(s) == {b \in [cells : Seq(Number), zero : Number] : Len(b.cells) <= s.max}

LEMMA CopyFields ==
  ASSUME NEW s, NEW b \in Copy(s)
  PROVE  b.cells \in Seq(Number) /\ b.zero \in Number /\ Len(b.cells) <= s.max
  BY DEF Copy

(* One element: either nothing is stored, or it takes its place.           *)
LEMMA CopyValueCases ==
  ASSUME NEW s, Proper(s), NEW b \in Copy(s), NEW i \in Nat \ {0}, NEW j \in Cell
  PROVE  LET x == ValueAs(s.kind, j)
             old == IF i <= Len(b.cells) THEN b.cells[i] ELSE 0
             new == Stores(s.kind, b.zero, x, old)
             c == CopyValue(b, s, i, j)
         IN  /\ c \in Copy(s) /\ old \in Number /\ x \in Number
             /\ IF Refused(s, j) \/ ~Takes(s, b.cells, i) THEN c = b
                ELSE /\ c.zero = Overlay(s.kind, b.zero, x)
                     /\ i <= Len(b.cells) => c.cells = [b.cells EXCEPT ![i] = new]
                     /\ i > Len(b.cells) => i = Len(b.cells) + 1 /\ c.cells = Append(b.cells, new)
<1> DEFINE x == ValueAs(s.kind, j)
           old == IF i <= Len(b.cells) THEN b.cells[i] ELSE 0
           new == Stores(s.kind, b.zero, x, old)
           z == Overlay(s.kind, b.zero, x)
           c == CopyValue(b, s, i, j)
<1>1. /\ b.cells \in Seq(Number) /\ b.zero \in Number /\ Len(b.cells) <= s.max
      /\ s.kind \in Kinds /\ s.max \in Nat
  BY CopyFields, SettingFields
<1>2. x \in Number
  BY ValueTyped
<1>3. old \in Number
  <2>1. 0 \in Number
    BY DEF Number
  <2> QED BY <1>1, <2>1
<1> HIDE DEF x, old
<1>4. new \in Number /\ z \in Number
  BY <1>1, <1>2, <1>3, StoresTyped, OverlayTyped
<1> HIDE DEF new, z
<1>5. CASE Refused(s, j) \/ ~Takes(s, b.cells, i)
  <2>1. c = b
    BY <1>5, Zenon DEF CopyValue
  <2> QED BY <1>2, <1>3, <1>5, <2>1, Zenon DEF x, old, new, z
<1>6. CASE ~(Refused(s, j) \/ ~Takes(s, b.cells, i))
  <2> DEFINE cells == IF i <= Len(b.cells) THEN [b.cells EXCEPT ![i] = new] ELSE Append(b.cells, new)
  <2>1. c = [cells |-> cells, zero |-> z]
    BY <1>6, Zenon DEF CopyValue, x, old, new, z
  <2>2. i <= Len(b.cells) + 1 /\ i <= s.max
    BY <1>6 DEF Takes
  <2>3. CASE i <= Len(b.cells)
    <3>1. cells = [b.cells EXCEPT ![i] = new]
      BY <2>3
    <3>2. cells \in Seq(Number) /\ Len(cells) = Len(b.cells)
      BY <1>1, <1>4, <2>3, <3>1
    <3> HIDE DEF cells
    <3>3. c \in Copy(s) /\ c.zero = z /\ c.cells = cells
      BY <1>1, <1>4, <2>1, <3>2 DEF Copy
    <3>4. ~(i > Len(b.cells))
      BY <1>1, <2>3
    <3> HIDE DEF c
    <3> QED BY <1>2, <1>3, <1>6, <3>1, <3>3, <3>4, Zenon DEF x, old, new, z, c
  <2>4. CASE i > Len(b.cells)
    <3>1. cells = Append(b.cells, new) /\ i = Len(b.cells) + 1 /\ ~(i <= Len(b.cells))
      BY <1>1, <2>2, <2>4
    <3>2. cells \in Seq(Number) /\ Len(cells) = Len(b.cells) + 1
      BY <1>1, <1>4, <3>1
    <3> HIDE DEF cells
    <3>3. c \in Copy(s) /\ c.zero = z /\ c.cells = cells
      BY <1>1, <1>4, <2>1, <2>2, <3>1, <3>2 DEF Copy
    <3> HIDE DEF c
    <3> QED BY <1>2, <1>3, <1>6, <3>1, <3>3, Zenon DEF x, old, new, z, c
  <2> QED BY <1>1, <2>3, <2>4
<1> QED BY <1>5, <1>6

(* CopyValues is what the loop has made of the default by its end.         *)
Copied(c, s, stg, z) ==
  /\ c \in [0 .. Len(stg.cells) -> Copy(s)]
  /\ c[0] = [cells |-> s.default, zero |-> z]
  /\ \A i \in 1 .. Len(stg.cells) : c[i] = CopyValue(c[i - 1], s, i, stg.cells[i])

LEMMA CopyLoop ==
  ASSUME NEW s, Proper(s), NEW stg \in Json, NEW z \in Number
  PROVE  \E c : Copied(c, s, stg, z) /\ CopyValues(s, stg, z) = c[Len(stg.cells)]
<1> DEFINE n == Len(stg.cells)
           base == [cells |-> s.default, zero |-> z]
           F == [p \in Copy(s) \X (1 .. n) |-> CopyValue(p[1], s, p[2], stg.cells[p[2]])]
           G(g) == [i \in 0 .. n |-> IF i = 0 THEN base ELSE CopyValue(g[i - 1], s, i, stg.cells[i])]
           copied == CHOOSE g : g = G(g)
<1>1. n \in Nat /\ \A i \in 1 .. n : stg.cells[i] \in Cell
  <2>1. stg.cells \in Seq(Cell)
    BY DEF Json, Cell
  <2> QED BY <2>1
<1>2. base \in Copy(s)
  BY SettingFields DEF Copy
<1> HIDE DEF n, base
<1>3. ASSUME NEW b \in Copy(s), NEW i \in 1 .. n
      PROVE  CopyValue(b, s, i, stg.cells[i]) \in Copy(s)
  <2>1. i \in Nat \ {0}
    BY <1>1
  <2> QED BY <1>1, <2>1, CopyValueCases
<1>4. F \in [Copy(s) \X (1 .. n) -> Copy(s)]
  BY <1>3
<1>5. PICK f \in [0 .. n -> Copy(s)] : Iterates(f, n, base, F)
  <2> HIDE DEF F, G, copied
  <2> QED BY <1>1, <1>2, <1>4, Iteration, Zenon
<1>6. f = G(f)
  <2>1. ASSUME NEW i \in 1 .. n
        PROVE  f[i] = CopyValue(f[i - 1], s, i, stg.cells[i])
    <3>1. i - 1 \in 0 .. n
      BY <1>1
    <3>2. f[i] = F[<<f[i - 1], i>>]
      BY <1>5, Zenon DEF Iterates
    <3> QED BY <3>1, <3>2
  <2>2. ASSUME NEW i \in 0 .. n
        PROVE  f[i] = G(f)[i]
    <3>1. i = 0 \/ i \in 1 .. n
      BY <1>1
    <3>2. f[0] = base
      BY <1>5, Zenon DEF Iterates
    <3> QED BY <2>1, <3>1, <3>2
  <2> QED BY <1>5, <2>2
<1>7. copied = G(copied)
  BY <1>6, Zenon
<1> HIDE DEF copied
<1>8. copied[0] = base /\ \A i \in 1 .. n : copied[i] = CopyValue(copied[i - 1], s, i, stg.cells[i])
  <2>1. 0 \in 0 .. n /\ \A i \in 1 .. n : i \in 0 .. n /\ i # 0
    BY <1>1
  <2>2. \A i \in 0 .. n : copied[i] = IF i = 0 THEN base ELSE CopyValue(copied[i - 1], s, i, stg.cells[i])
    BY <1>7, Zenon
  <2> QED BY <2>1, <2>2, Zenon
<1>9. \A i \in 0 .. n : copied[i] \in Copy(s)
  <2> DEFINE S == {i \in 0 .. n : copied[i] \in Copy(s)}
  <2>1. 0 \in S
    BY <1>1, <1>2, <1>8
  <2>2. ASSUME NEW i \in 0 .. n - 1, i \in S
        PROVE  i + 1 \in S
    <3>1. i + 1 \in 1 .. n /\ (i + 1) - 1 = i /\ i + 1 \in 0 .. n /\ copied[i] \in Copy(s)
      BY <1>1, <2>2
    <3>2. copied[i + 1] = CopyValue(copied[i], s, i + 1, stg.cells[i + 1])
      BY <1>8, <3>1
    <3> QED BY <1>3, <3>1, <3>2
  <2> HIDE DEF S
  <2>3. \A i \in 0 .. n : i \in S
    BY <1>1, <2>1, <2>2, UpTo
  <2> QED BY <2>3 DEF S
<1>10. Copied(copied, s, stg, z)
  <2>1. copied \in [0 .. n -> Copy(s)]
    BY <1>7, <1>9
  <2> QED BY <1>8, <2>1 DEF Copied, n, base
<1>11. CopyValues(s, stg, z) = copied[n]
  BY DEF CopyValues, copied, n, base
<1> QED BY <1>10, <1>11 DEF n

-----------------------------------------------------------------------------
(* The loop over the settings of a module.                                 *)

Progress == [values : Seq(Seq(Number)), zero : Number, missing : BOOLEAN, array : BOOLEAN]

(* What a document says of a module: JSON values under names.              *)
Entry(e) == \A n \in DOMAIN e : e[n] \in Json

LEMMA ProgressFields ==
  ASSUME NEW a \in Progress
  PROVE  /\ a.values \in Seq(Seq(Number)) /\ a.zero \in Number
         /\ a.missing \in BOOLEAN /\ a.array \in BOOLEAN
  BY DEF Progress

KeepsDefault(a, x) == [a EXCEPT !.values = Append(@, x), !.missing = TRUE]
TakesStored(a, x, z, r) == [a EXCEPT !.values = Append(@, x), !.zero = z, !.array = r]

LEMMA ProgressSkips ==
  ASSUME NEW a \in Progress, NEW x \in Seq(Number), NEW b, b = KeepsDefault(a, x)
  PROVE  b \in Progress /\ b.values = Append(a.values, x) /\ b.zero = a.zero /\ b.array = a.array
<1> DEFINE v == Append(a.values, x)
<1>1. v \in Seq(Seq(Number))
  BY ProgressFields
<1>2. b = [a EXCEPT !.values = v, !.missing = TRUE]
  BY DEF KeepsDefault
<1> HIDE DEF v
<1>3. b \in Progress /\ b.values = v /\ b.zero = a.zero /\ b.array = a.array
  BY <1>1, <1>2 DEF Progress
<1> QED BY <1>3 DEF v

LEMMA ProgressTakes ==
  ASSUME NEW a \in Progress, NEW x \in Seq(Number), NEW z \in Number, NEW r \in BOOLEAN,
         NEW b, b = TakesStored(a, x, z, r)
  PROVE  b \in Progress /\ b.values = Append(a.values, x) /\ b.zero = z /\ b.array = r
<1> DEFINE v == Append(a.values, x)
<1>1. v \in Seq(Seq(Number))
  BY ProgressFields
<1>2. b = [a EXCEPT !.values = v, !.zero = z, !.array = r]
  BY DEF TakesStored
<1> HIDE DEF v
<1>3. b \in Progress /\ b.values = v /\ b.zero = z /\ b.array = r
  BY <1>1, <1>2 DEF Progress
<1> QED BY <1>3 DEF v

LEMMA CopyValuesTyped ==
  ASSUME NEW s, Proper(s), NEW stg \in Json, NEW z \in Number
  PROVE  /\ CopyValues(s, stg, z) \in Copy(s)
         /\ CopyValues(s, stg, z).cells \in Seq(Number) /\ CopyValues(s, stg, z).zero \in Number
         /\ Len(CopyValues(s, stg, z).cells) <= s.max
<1>1. Len(stg.cells) \in Nat
  BY DEF Json
<1>2. PICK c : Copied(c, s, stg, z) /\ CopyValues(s, stg, z) = c[Len(stg.cells)]
  BY CopyLoop
<1>3. c[Len(stg.cells)] \in Copy(s)
  BY <1>1, <1>2 DEF Copied
<1> QED BY <1>2, <1>3, CopyFields

(* One setting: it keeps its default or has the value of the document.     *)
Skipped(data, a, s) == a.array \/ s.name \notin DOMAIN data

LEMMA LoadSettingCases ==
  ASSUME NEW s, Proper(s), NEW data, Entry(data), NEW a \in Progress,
         NEW b, b = LoadSetting(data, a, s)
  PROVE  /\ b \in Progress
         /\ Skipped(data, a, s) =>
              b.values = Append(a.values, s.default) /\ b.zero = a.zero /\ b.array = a.array
         /\ ~Skipped(data, a, s) =>
              /\ b.values = Append(a.values, CopyValues(s, data[s.name], a.zero).cells)
              /\ b.zero = CopyValues(s, data[s.name], a.zero).zero
              /\ b.array = data[s.name].array
<1>1. CASE Skipped(data, a, s)
  <2>1. b = KeepsDefault(a, s.default)
    BY <1>1, Zenon DEF LoadSetting, Skipped, KeepsDefault
  <2>2. s.default \in Seq(Number)
    BY SettingFields
  <2> QED BY <1>1, <2>1, <2>2, ProgressSkips, Zenon
<1>2. CASE ~Skipped(data, a, s)
  <2> DEFINE stg == data[s.name]
             c == CopyValues(s, stg, a.zero)
  <2>1. b = TakesStored(a, c.cells, c.zero, stg.array)
    BY <1>2, Zenon DEF LoadSetting, Skipped, TakesStored
  <2>2. stg \in Json
    BY <1>2 DEF Skipped, Entry
  <2>3. stg.array \in BOOLEAN
    BY <2>2 DEF Json
  <2>4. c.cells \in Seq(Number) /\ c.zero \in Number
    BY <2>2, CopyValuesTyped, ProgressFields
  <2> HIDE DEF c
  <2>5. /\ b \in Progress /\ b.values = Append(a.values, c.cells) /\ b.zero = c.zero
        /\ b.array = stg.array
    BY <2>1, <2>3, <2>4, ProgressTakes
  <2> QED BY <1>2, <2>5, Zenon DEF c
<1> QED BY <1>1, <1>2

(* The turns of the loop.                                                  *)
Begun == [values |-> << >>, zero |-> zero, missing |-> FALSE, array |-> FALSE]

Turned(t, m, data) ==
  /\ t \in [0 .. Len(Settings[m]) -> Progress]
  /\ t[0] = Begun
  /\ \A i \in 1 .. Len(Settings[m]) : t[i] = LoadSetting(data, t[i - 1], Settings[m][i])

LEMMA LoadLoop ==
  ASSUME NEW m \in Modules, NEW data, Entry(data), zero \in Number
  PROVE  \E t : Turned(t, m, data) /\ LoadFromJson(m, data) = t[Len(Settings[m])]
<1> DEFINE n == Len(Settings[m])
           F == [p \in Progress \X (1 .. n) |-> LoadSetting(data, p[1], Settings[m][p[2]])]
           G(g) == [i \in 0 .. n |-> IF i = 0 THEN Begun
                                     ELSE LoadSetting(data, g[i - 1], Settings[m][i])]
           turn == CHOOSE g : g = G(g)
<1>1. n \in Nat /\ \A i \in 1 .. n : Proper(Settings[m][i])
  BY AllProper
<1>2. Begun \in Progress
  BY DEF Begun, Progress
<1> HIDE DEF n
<1>3. ASSUME NEW a \in Progress, NEW i \in 1 .. n
      PROVE  LoadSetting(data, a, Settings[m][i]) \in Progress
  BY <1>1, LoadSettingCases
<1>4. F \in [Progress \X (1 .. n) -> Progress]
  BY <1>3
<1>5. PICK f \in [0 .. n -> Progress] : Iterates(f, n, Begun, F)
  <2> HIDE DEF F, G, turn
  <2> QED BY <1>1, <1>2, <1>4, Iteration, Zenon
<1>6. f = G(f)
  <2>1. ASSUME NEW i \in 1 .. n
        PROVE  f[i] = LoadSetting(data, f[i - 1], Settings[m][i])
    <3>1. i - 1 \in 0 .. n
      BY <1>1
    <3>2. f[i] = F[<<f[i - 1], i>>]
      BY <1>5, Zenon DEF Iterates
    <3> QED BY <3>1, <3>2
  <2>2. ASSUME NEW i \in 0 .. n
        PROVE  f[i] = G(f)[i]
    <3>1. i = 0 \/ i \in 1 .. n
      BY <1>1
    <3>2. f[0] = Begun
      BY <1>5, Zenon DEF Iterates
    <3> QED BY <2>1, <3>1, <3>2
  <2> QED BY <1>5, <2>2
<1>7. turn = G(turn)
  BY <1>6, Zenon
<1> HIDE DEF turn
<1>8. turn[0] = Begun /\ \A i \in 1 .. n : turn[i] = LoadSetting(data, turn[i - 1], Settings[m][i])
  <2>1. 0 \in 0 .. n /\ \A i \in 1 .. n : i \in 0 .. n /\ i # 0
    BY <1>1
  <2>2. \A i \in 0 .. n : turn[i] = IF i = 0 THEN Begun
                                    ELSE LoadSetting(data, turn[i - 1], Settings[m][i])
    BY <1>7, Zenon
  <2> QED BY <2>1, <2>2, Zenon
<1>9. \A i \in 0 .. n : turn[i] \in Progress
  <2> DEFINE S == {i \in 0 .. n : turn[i] \in Progress}
  <2>1. 0 \in S
    BY <1>1, <1>2, <1>8
  <2>2. ASSUME NEW i \in 0 .. n - 1, i \in S
        PROVE  i + 1 \in S
    <3>1. i + 1 \in 1 .. n /\ (i + 1) - 1 = i /\ i + 1 \in 0 .. n /\ turn[i] \in Progress
      BY <1>1, <2>2
    <3>2. turn[i + 1] = LoadSetting(data, turn[i], Settings[m][i + 1])
      BY <1>8, <3>1
    <3> QED BY <1>3, <3>1, <3>2
  <2> HIDE DEF S
  <2>3. \A i \in 0 .. n : i \in S
    BY <1>1, <2>1, <2>2, UpTo
  <2> QED BY <2>3 DEF S
<1>10. Turned(turn, m, data)
  <2>1. turn \in [0 .. n -> Progress]
    BY <1>7, <1>9
  <2> QED BY <1>8, <2>1 DEF Turned, n
<1>11. LoadFromJson(m, data) = turn[n]
  BY DEF LoadFromJson, turn, n, Begun
<1> QED BY <1>10, <1>11 DEF n

(* Each turn appends the value of its setting, and later turns keep it.    *)
LoadedValue(t, m, data, i) ==
  IF Skipped(data, t[i - 1], Settings[m][i]) THEN Settings[m][i].default
  ELSE CopyValues(Settings[m][i], data[Settings[m][i].name], t[i - 1].zero).cells

LEMMA ValuesOfTurns ==
  ASSUME NEW m \in Modules, NEW data, Entry(data), NEW t, Turned(t, m, data)
  PROVE  \A n \in 0 .. Len(Settings[m]) :
           /\ Len(t[n].values) = n
           /\ \A i \in 1 .. n : t[n].values[i] = LoadedValue(t, m, data, i)
<1> DEFINE N == Len(Settings[m])
           P(n) == /\ Len(t[n].values) = n
                   /\ \A i \in 1 .. n : t[n].values[i] = LoadedValue(t, m, data, i)
           S == {n \in 0 .. N : P(n)}
<1>1. N \in Nat /\ \A i \in 1 .. N : Proper(Settings[m][i])
  BY AllProper
<1>2. P(0)
  BY DEF Turned, Begun
<1>3. ASSUME NEW n \in 0 .. N - 1, P(n)
      PROVE  P(n + 1)
  <2>1. /\ n + 1 \in 1 .. N /\ (n + 1) - 1 = n /\ n \in 0 .. N /\ n \in Nat
    BY <1>1
  <2>2. t[n] \in Progress /\ t[n + 1] = LoadSetting(data, t[n], Settings[m][n + 1])
    BY <2>1 DEF Turned
  <2>3. t[n].values \in Seq(Seq(Number)) /\ Len(t[n].values) = n
    BY <1>3, <2>2, ProgressFields
  <2>4. t[n + 1].values = Append(t[n].values, LoadedValue(t, m, data, n + 1))
    <3>1. LoadedValue(t, m, data, n + 1) =
            IF Skipped(data, t[n], Settings[m][n + 1]) THEN Settings[m][n + 1].default
            ELSE CopyValues(Settings[m][n + 1], data[Settings[m][n + 1].name], t[n].zero).cells
      BY <2>1 DEF LoadedValue
    <3>2. Proper(Settings[m][n + 1])
      BY <1>1, <2>1
    <3> DEFINE s == Settings[m][n + 1]
               b == t[n + 1]
               a == t[n]
    <3>3. /\ Skipped(data, a, s) => b.values = Append(a.values, s.default)
          /\ ~Skipped(data, a, s) =>
               b.values = Append(a.values, CopyValues(s, data[s.name], a.zero).cells)
      <4>1. Proper(s) /\ a \in Progress /\ b = LoadSetting(data, a, s)
        BY <2>2, <3>2
      <4> HIDE DEF s, a, b
      <4> QED BY <4>1, LoadSettingCases
    <3> QED BY <3>1, <3>3
  <2> HIDE DEF N
  <2>5. Len(t[n + 1].values) = n + 1 /\ t[n + 1].values[n + 1] = LoadedValue(t, m, data, n + 1)
        /\ \A i \in 1 .. n : t[n + 1].values[i] = t[n].values[i]
    <3> DEFINE q == t[n].values
               x == LoadedValue(t, m, data, n + 1)
    <3> HIDE DEF q, x
    <3>1. q \in Seq(Seq(Number)) /\ Len(q) = n
      BY <2>3 DEF q
    <3>2. /\ Len(Append(q, x)) = n + 1 /\ Append(q, x)[n + 1] = x
          /\ \A i \in 1 .. n : Append(q, x)[i] = q[i]
      BY <2>1, <3>1
    <3> QED BY <2>4, <3>2 DEF q, x
  <2>6. \A i \in 1 .. n + 1 : i = n + 1 \/ i \in 1 .. n
    BY <2>1
  <2> QED BY <1>3, <2>5, <2>6, Zenon
<1> HIDE DEF P
<1>4. 0 \in S /\ \A n \in 0 .. N - 1 : n \in S => n + 1 \in S
  BY <1>1, <1>2, <1>3
<1>5. \A n \in 0 .. N : n \in S
  <2> HIDE DEF S, N
  <2> QED BY <1>1, <1>4, UpTo, Zenon
<1> QED BY <1>5 DEF P

(* What a load makes of a module's values.                                 *)
LEMMA LoadedIs ==
  ASSUME NEW m \in Modules, NEW data, Entry(data), zero \in Number,
         NEW a, a = LoadFromJson(m, data)
  PROVE  \E t : /\ Turned(t, m, data) /\ a = t[Len(Settings[m])] /\ a \in Progress
                /\ Len(a.values) = Len(Settings[m])
                /\ \A i \in DOMAIN Settings[m] : a.values[i] = LoadedValue(t, m, data, i)
<1>1. PICK t : Turned(t, m, data) /\ a = t[Len(Settings[m])]
  BY LoadLoop, Zenon
<1>2. DOMAIN Settings[m] = 1 .. Len(Settings[m]) /\ Len(Settings[m]) \in 0 .. Len(Settings[m])
  BY AllProper
<1>3. t[Len(Settings[m])] \in Progress
  BY <1>1, <1>2 DEF Turned
<1>4. \A n \in 0 .. Len(Settings[m]) :
        /\ Len(t[n].values) = n
        /\ \A i \in 1 .. n : t[n].values[i] = LoadedValue(t, m, data, i)
  BY <1>1, ValuesOfTurns
<1> QED BY <1>1, <1>2, <1>3, <1>4, Zenon

-----------------------------------------------------------------------------
(* Documents.                                                              *)

LEMMA WidenedTyped ==
  ASSUME NEW s, Proper(s), NEW x \in Number, NEW b \in Nat
  PROVE  Widened(s, x, b) \in Number
<1>1. s.kind \in Narrow => Base(s.kind) \in {2, 4}
  BY SettingFields, BaseIs
<1>2. CASE s.kind \in Narrow
  <2>1. CASE Base(s.kind) = 2
    BY <1>2, <2>1 DEF Widened, Number
  <2>2. CASE Base(s.kind) = 4
    BY <1>2, <2>2 DEF Widened, Number
  <2> QED BY <1>1, <1>2, <2>1, <2>2
<1>3. CASE s.kind \notin Narrow
  BY <1>3 DEF Widened
<1> QED BY <1>2, <1>3

LEMMA TagTyped ==
  ASSUME NEW kind
  PROVE  Tag(kind) \in {"int", "real", "str"}
<1>1. CASE kind = "double"
  BY <1>1 DEF Tag
<1>2. CASE kind = "str"
  BY <1>2 DEF Tag
<1>3. CASE kind # "double" /\ kind # "str"
  BY <1>3 DEF Tag
<1> QED BY <1>1, <1>2, <1>3

LEMMA JsonOfTyped ==
  ASSUME NEW s, Proper(s), NEW cells \in Seq(Number), NEW b \in Nat
  PROVE  /\ JsonOf(s, cells, b) \in Json
         /\ JsonOf(s, cells, b).array = (s.max # 1)
         /\ Len(JsonOf(s, cells, b).cells) = Len(cells)
         /\ \A i \in 1 .. Len(cells) :
              JsonOf(s, cells, b).cells[i] = [t |-> Tag(s.kind), v |-> Widened(s, cells[i], b)]
<1> DEFINE q == [i \in DOMAIN cells |-> [t |-> Tag(s.kind), v |-> Widened(s, cells[i], b)]]
<1>1. DOMAIN cells = 1 .. Len(cells) /\ Len(cells) \in Nat /\ \A i \in 1 .. Len(cells) : cells[i] \in Number
  OBVIOUS
<1>2. \A i \in 1 .. Len(cells) : [t |-> Tag(s.kind), v |-> Widened(s, cells[i], b)] \in Cell
  BY <1>1, TagTyped, WidenedTyped DEF Cell
<1>3. /\ q \in Seq(Cell) /\ Len(q) = Len(cells)
      /\ \A i \in 1 .. Len(cells) : q[i] = [t |-> Tag(s.kind), v |-> Widened(s, cells[i], b)]
  BY <1>1, <1>2
<1>4. JsonOf(s, cells, b) = [array |-> s.max # 1, cells |-> q]
  BY DEF JsonOf
<1> HIDE DEF q
<1>5. /\ JsonOf(s, cells, b).array = (s.max # 1) /\ JsonOf(s, cells, b).cells = q
      /\ JsonOf(s, cells, b) \in Json
  BY <1>3, <1>4 DEF Json, Cell
<1> QED BY <1>3, <1>5, Zenon

(* The entry that is made for a module.                                    *)
LEMMA SavedIs ==
  ASSUME NEW m \in Modules, NEW behind \in [DOMAIN Settings[m] -> Behind],
         NEW e, e = SaveToJson(m, behind)
  PROVE  /\ DOMAIN e = {Settings[m][i].name : i \in Reached(m)}
         /\ \A i \in Reached(m) : e[Settings[m][i].name] = JsonOf(Settings[m][i], values[m][i], behind[i])
<1> DEFINE At(n) == CHOOSE i \in Reached(m) : Settings[m][i].name = n
<1>1. e = [n \in {Settings[m][i].name : i \in Reached(m)} |->
             JsonOf(Settings[m][At(n)], values[m][At(n)], behind[At(n)])]
  BY DEF SaveToJson
<1>2. Reached(m) \subseteq DOMAIN Settings[m]
  BY DEF Reached
<1>3. ASSUME NEW i \in Reached(m)
      PROVE  At(Settings[m][i].name) = i
  <2>1. /\ At(Settings[m][i].name) \in Reached(m)
        /\ Settings[m][At(Settings[m][i].name)].name = Settings[m][i].name
    BY Zenon
  <2> HIDE DEF At
  <2> QED BY <1>2, <2>1, NamesDiffer
<1> HIDE DEF At
<1> QED BY <1>1, <1>3, Zenon

Fine(m, e) == DOMAIN e \subseteq Names(m) /\ Entry(e)

LEMMA SavedFine ==
  ASSUME TypeOK, NEW m \in Modules, NEW behind \in [DOMAIN Settings[m] -> Behind],
         NEW e, e = SaveToJson(m, behind)
  PROVE  Fine(m, e)
<1>1. /\ DOMAIN e = {Settings[m][i].name : i \in Reached(m)}
      /\ \A i \in Reached(m) : e[Settings[m][i].name] = JsonOf(Settings[m][i], values[m][i], behind[i])
  BY SavedIs
<1>2. Reached(m) \subseteq DOMAIN Settings[m]
  BY DEF Reached
<1>3. DOMAIN e \subseteq Names(m)
  BY <1>1, <1>2, Zenon DEF Names
<1>4. ASSUME NEW i \in Reached(m)
      PROVE  e[Settings[m][i].name] \in Json
  <2>1. Proper(Settings[m][i]) /\ behind[i] \in Nat
    BY <1>2, AllProper, BehindAssumption
  <2>2. values[m][i] \in Seq(Number)
    BY <1>2, Zenon DEF TypeOK
  <2>3. JsonOf(Settings[m][i], values[m][i], behind[i]) \in Json
    BY <2>1, <2>2, JsonOfTyped, Zenon
  <2> QED BY <1>1, <2>3, Zenon
<1>5. Entry(e)
  BY <1>1, <1>4, Zenon DEF Entry
<1> QED BY <1>3, <1>5, Zenon DEF Fine

LEMMA DocumentIs ==
  ASSUME NEW d
  PROVE  IsDocument(d) <=> DOMAIN d \subseteq Modules /\ \A m \in DOMAIN d : Fine(m, d[m])
  BY Zenon DEF IsDocument, Fine, Entry

LEMMA ObjectSetIs ==
  ASSUME NEW d, NEW k, NEW x
  PROVE  /\ DOMAIN ObjectSet(d, k, x) = {k} \cup DOMAIN d
         /\ ObjectSet(d, k, x)[k] = x
         /\ \A n \in DOMAIN d \ {k} : ObjectSet(d, k, x)[n] = d[n]
  BY DEF ObjectSet

LEMMA DocumentGrows ==
  ASSUME NEW d, IsDocument(d), NEW m \in Modules, NEW e, Fine(m, e)
  PROVE  IsDocument(ObjectSet(d, m, e))
<1>1. DOMAIN d \subseteq Modules /\ \A k \in DOMAIN d : Fine(k, d[k])
  BY DocumentIs
<1> DEFINE f == ObjectSet(d, m, e)
<1>2. /\ DOMAIN f = {m} \cup DOMAIN d /\ f[m] = e
      /\ \A n \in DOMAIN d \ {m} : f[n] = d[n]
  BY DEF ObjectSet
<1> HIDE DEF f
<1>3. DOMAIN f \subseteq Modules /\ \A k \in DOMAIN f : Fine(k, f[k])
  BY <1>1, <1>2, Zenon
<1> QED BY <1>3, DocumentIs DEF f

(* The user's edits of one entry.                                          *)
LEMMA EditsTyped ==
  ASSUME NEW s, Proper(s), NEW stg \in Edits(s)
  PROVE  stg \in Json /\ stg.array = (s.max # 1)
<1>1. Cells \subseteq Cell
  BY CellAssumption DEF Cell
<1>2. CASE s.max = 1
  <2>1. PICK c \in Cells : stg = [array |-> FALSE, cells |-> <<c>>]
    BY <1>2 DEF Edits
  <2>2. <<c>> \in Seq(Cell)
    BY <1>1
  <2> QED BY <1>2, <2>1, <2>2 DEF Json, Cell
<1>3. CASE s.max # 1
  <2>1. PICK c \in BoundedSeq(Cells, s.max + 1) : stg = [array |-> TRUE, cells |-> c]
    BY <1>3 DEF Edits
  <2>2. PICK n \in 0 .. s.max + 1 : c \in [1 .. n -> Cells]
    BY Zenon DEF BoundedSeq, SeqOf
  <2>3. n \in Nat
    BY SettingFields
  <2>4. c \in Seq(Cell)
    BY <1>1, <2>2, <2>3
  <2> QED BY <1>3, <2>1, <2>4 DEF Json, Cell
<1> QED BY <1>2, <1>3

LEMMA EditedIs ==
  ASSUME NEW m \in Modules, EditSetting(m) \/ RemoveSetting(m) \/ RemoveEntry(m), IsDocument(file)
  PROVE  /\ DOMAIN file' \subseteq DOMAIN file
         /\ \A k \in DOMAIN file' \ {m} : file'[k] = file[k]
         /\ m \in DOMAIN file' => Fine(m, file'[m])
<1>1. m \in DOMAIN file /\ Fine(m, file[m])
  BY DocumentIs, Zenon DEF EditsFile, EditSetting, RemoveSetting, RemoveEntry
<1>2. CASE EditSetting(m)
  <2>1. PICK i \in DOMAIN Settings[m] : \E stg \in Edits(Settings[m][i]) :
               file' = [file EXCEPT ![m] = ObjectSet(file[m], Settings[m][i].name, stg)]
    BY <1>2, Zenon DEF EditSetting
  <2>2. PICK stg \in Edits(Settings[m][i]) :
               file' = [file EXCEPT ![m] = ObjectSet(file[m], Settings[m][i].name, stg)]
    BY <2>1
  <2> DEFINE e == ObjectSet(file[m], Settings[m][i].name, stg)
  <2>3. stg \in Json
    BY AllProper, EditsTyped
  <2>4. /\ DOMAIN e = {Settings[m][i].name} \cup DOMAIN file[m] /\ e[Settings[m][i].name] = stg
        /\ \A n \in DOMAIN file[m] \ {Settings[m][i].name} : e[n] = file[m][n]
    BY DEF ObjectSet
  <2> HIDE DEF e
  <2>5. Fine(m, e)
    BY <1>1, <2>3, <2>4, Zenon DEF Fine, Entry, Names
  <2>6. file' = [file EXCEPT ![m] = e]
    BY <2>2 DEF e
  <2> QED BY <1>1, <2>5, <2>6
<1>3. CASE RemoveSetting(m)
  <2>1. PICK n \in DOMAIN file[m] :
               file' = [file EXCEPT ![m] = [k \in DOMAIN file[m] \ {n} |-> file[m][k]]]
    BY <1>3, Zenon DEF RemoveSetting
  <2> DEFINE e == [k \in DOMAIN file[m] \ {n} |-> file[m][k]]
  <2>2. Fine(m, e)
    BY <1>1 DEF Fine, Entry
  <2> HIDE DEF e
  <2>3. file' = [file EXCEPT ![m] = e]
    BY <2>1 DEF e
  <2> QED BY <1>1, <2>2, <2>3
<1>4. CASE RemoveEntry(m)
  BY <1>4 DEF RemoveEntry
<1> QED BY <1>2, <1>3, <1>4

-----------------------------------------------------------------------------
(* Types.                                                                  *)

Holds(m, v) ==
  /\ Len(v) = Len(Settings[m])
  /\ \A i \in DOMAIN Settings[m] :
       v[i] \in Seq(Number) /\ Len(v[i]) <= Settings[m][i].max

Documents == (file = NoDocument \/ IsDocument(file)) /\ IsDocument(root) /\ IsDocument(start)
Values == DOMAIN values = Modules /\ (\A m \in Modules : Holds(m, values[m])) /\ zero \in Number
Control ==
  /\ pc \in {"off", "load", "dump", "write", "run"}
  /\ closing \in BOOLEAN /\ has_dump \in BOOLEAN /\ cut \in BOOLEAN
  /\ order \in Seq(Modules) /\ next \in 1 .. Len(order) + 1
  /\ edited \subseteq Modules

LEMMA TypeParts == TypeOK <=> Control /\ Documents /\ Values
  BY Zenon DEF TypeOK, Control, Documents, Values, Holds

LEMMA TypePartsNext == Control' /\ Documents' /\ Values' => TypeOK'
  BY Zenon DEF TypeOK, Control, Documents, Values, Holds

LEMMA EmptyDocument == IsDocument(Empty)
  BY DEF IsDocument, Empty

LEMMA RegisteredHolds ==
  ASSUME NEW m \in Modules
  PROVE  Holds(m, Registered(m))
<1>1. /\ DOMAIN Settings[m] = 1 .. Len(Settings[m]) /\ Len(Settings[m]) \in Nat
      /\ \A i \in DOMAIN Settings[m] :
           Settings[m][i].default \in Seq(Number) /\ Len(Settings[m][i].default) <= Settings[m][i].max
  BY AllProper, SettingFields
<1>2. Len(Registered(m)) = Len(Settings[m])
  BY <1>1 DEF Registered
<1>3. \A i \in DOMAIN Settings[m] : Registered(m)[i] = Settings[m][i].default
  BY DEF Registered
<1> QED BY <1>1, <1>2, <1>3, Zenon DEF Holds

(* A load leaves the settings and the buffer typed.                        *)
LEMMA LoadHolds ==
  ASSUME NEW m \in Modules, NEW data, Entry(data), zero \in Number,
         NEW a, a = LoadFromJson(m, data)
  PROVE  Holds(m, a.values) /\ a.zero \in Number /\ a.missing \in BOOLEAN
<1>1. PICK t : /\ Turned(t, m, data) /\ a = t[Len(Settings[m])] /\ a \in Progress
               /\ Len(a.values) = Len(Settings[m])
               /\ \A i \in DOMAIN Settings[m] : a.values[i] = LoadedValue(t, m, data, i)
  BY LoadedIs
<1>2. ASSUME NEW i \in DOMAIN Settings[m]
      PROVE  /\ LoadedValue(t, m, data, i) \in Seq(Number)
             /\ Len(LoadedValue(t, m, data, i)) <= Settings[m][i].max
  <2>1. Proper(Settings[m][i]) /\ i - 1 \in 0 .. Len(Settings[m])
    BY AllProper
  <2>2. t[i - 1] \in Progress
    BY <1>1, <2>1 DEF Turned
  <2>3. CASE Skipped(data, t[i - 1], Settings[m][i])
    BY <2>1, <2>3, SettingFields DEF LoadedValue
  <2>4. CASE ~Skipped(data, t[i - 1], Settings[m][i])
    <3>1. data[Settings[m][i].name] \in Json /\ t[i - 1].zero \in Number
      BY <2>2, <2>4, ProgressFields DEF Skipped, Entry
    <3> QED BY <2>1, <2>4, <3>1, CopyValuesTyped, Zenon DEF LoadedValue
  <2> QED BY <2>3, <2>4
<1>3. Holds(m, a.values)
  BY <1>1, <1>2, Zenon DEF Holds
<1> QED BY <1>1, <1>3, ProgressFields, Zenon

LEMMA TypeInit == Init => TypeOK
<1> SUFFICES ASSUME Init PROVE Control /\ Documents /\ Values
  BY TypeParts
<1>1. order = << >> /\ next = 1 /\ edited = {} /\ closing = FALSE /\ has_dump = FALSE
      /\ cut = FALSE /\ pc = "off"
  BY Zenon DEF Init
<1>2. Control
  <2>1. order \in Seq(Modules) /\ next \in 1 .. Len(order) + 1
    BY <1>1
  <2> QED BY <1>1, <2>1, Zenon DEF Control
<1>3. Documents
  BY EmptyDocument, Zenon DEF Init, Documents
<1>4. values = [m \in Modules |-> Registered(m)] /\ zero = 0
  BY Zenon DEF Init
<1>5. Values
  BY <1>4, RegisteredHolds DEF Values, Number
<1> QED BY <1>2, <1>3, <1>5

LEMMA TypeEnds ==
  ASSUME TypeOK, Ends, file' = NoDocument \/ IsDocument(file')
  PROVE  TypeOK'
<1>1. /\ order' = << >> /\ next' = 1 /\ edited' = edited /\ closing' = FALSE /\ has_dump' = FALSE
      /\ cut' = FALSE /\ pc' = "off" /\ root' = Empty /\ start' = Empty
      /\ values' = [m \in Modules |-> Registered(m)] /\ zero' \in {zero, 0}
  BY Zenon DEF Ends
<1>2. Control'
  <2>1. order' \in Seq(Modules) /\ next' \in 1 .. Len(order') + 1
    BY <1>1
  <2> QED BY <1>1, <2>1, TypeParts, Zenon DEF Control
<1>3. Documents'
  BY <1>1, EmptyDocument, TypeParts, Zenon DEF Documents
<1>4. Values'
  BY <1>1, RegisteredHolds, TypeParts DEF Values, Number
<1> QED BY <1>2, <1>3, <1>4, TypePartsNext

LEMMA TypeStart == ASSUME TypeOK, Start PROVE TypeOK'
<1>1. /\ pc' = "load" /\ next' = 1 /\ order' \in Orders /\ start' = root'
      /\ root' = (IF file = NoDocument THEN Empty ELSE file)
      /\ UNCHANGED <<closing, file, has_dump, cut, values, zero, edited>>
  BY Zenon DEF Start
<1>2. order' \in Seq(Modules) /\ next' \in 1 .. Len(order') + 1
  BY <1>1, OrderAssumption
<1>3. Control'
  BY <1>1, <1>2, TypeParts, Zenon DEF Control
<1>4. Documents'
  BY <1>1, EmptyDocument, TypeParts, Zenon DEF Documents
<1>5. Values'
  BY <1>1, TypeParts, Zenon DEF Values
<1> QED BY <1>3, <1>4, <1>5, TypePartsNext

LEMMA LoadingControl ==
  ASSUME TypeOK, NEW m \in Modules, Loading(m), has_dump' \in BOOLEAN, edited' \subseteq Modules
  PROVE  Control'
<1>1. /\ pc = "load" /\ next <= Len(order) /\ next' = next + 1
      /\ UNCHANGED <<pc, closing, order, file, cut, start>>
  BY Zenon DEF Loading
<1>2. next' \in 1 .. Len(order) + 1
  BY <1>1 DEF TypeOK
<1> QED BY <1>1, <1>2, TypeParts, Zenon DEF Control

LEMMA TypeLoadKnown == ASSUME TypeOK, NEW m \in Modules, LoadKnown(m) PROVE TypeOK'
<1> DEFINE a == LoadFromJson(m, root[m])
<1>1. /\ m \in DOMAIN root /\ values' = [values EXCEPT ![m] = a.values] /\ zero' = a.zero
      /\ has_dump' = (has_dump \/ a.missing) /\ UNCHANGED <<root, edited, file, start>>
  BY Zenon DEF LoadKnown, Loading
<1>2. Entry(root[m]) /\ zero \in Number
  BY <1>1, TypeParts, DocumentIs, Zenon DEF Documents, Values, Fine
<1> HIDE DEF a
<1>3. Holds(m, a.values) /\ a.zero \in Number /\ a.missing \in BOOLEAN
  BY <1>2, LoadHolds, Zenon DEF a
<1>4. Control'
  BY <1>1, <1>3, LoadingControl, TypeParts, Zenon DEF LoadKnown, Control
<1>5. Documents'
  BY <1>1, TypeParts, Zenon DEF Documents
<1>6. Values'
  BY <1>1, <1>3, TypeParts, Zenon DEF Values
<1> QED BY <1>4, <1>5, <1>6, TypePartsNext

LEMMA TypeLoadNew == ASSUME TypeOK, NEW m \in Modules, LoadNew(m) PROVE TypeOK'
<1>1. PICK behind \in [DOMAIN Settings[m] -> Behind] : root' = ObjectSet(root, m, SaveToJson(m, behind))
  BY Zenon DEF LoadNew
<1>2. /\ has_dump' = TRUE /\ edited' = edited \ {m}
      /\ UNCHANGED <<values, zero, file, start>>
  BY Zenon DEF LoadNew, Loading
<1>3. Fine(m, SaveToJson(m, behind))
  BY SavedFine
<1>4. Control'
  BY <1>2, LoadingControl, TypeParts, Zenon DEF LoadNew, Control
<1>5. IsDocument(root)'
  BY <1>1, <1>3, DocumentGrows, TypeParts, Zenon DEF Documents
<1>6. Documents' /\ Values'
  BY <1>2, <1>5, TypeParts, Zenon DEF Documents, Values
<1> QED BY <1>4, <1>6, TypePartsNext

LEMMA TypeDump ==
  ASSUME TypeOK, DumpNothing \/ DumpNotOpened \/ DumpWrites \/ DumpCut
  PROVE  TypeOK'
<1>1. file' = NoDocument \/ IsDocument(file')
  BY TypeParts, Zenon DEF DumpNothing, DumpNotOpened, DumpWrites, DumpCut, Documents
<1>2. PICK d \in BOOLEAN, c \in BOOLEAN : DumpReturns(d, c)
  BY TypeParts, Zenon DEF DumpNothing, DumpNotOpened, DumpWrites, DumpCut, Control
<1>3. CASE closing
  BY <1>1, <1>2, <1>3, TypeEnds, Zenon DEF DumpReturns
<1>4. CASE ~closing
  <2>1. /\ pc' = "run" /\ has_dump' = d /\ cut' = c
        /\ UNCHANGED <<closing, order, next, root, values, zero, start, edited>>
    BY <1>2, <1>4, Zenon DEF DumpReturns
  <2>2. Control' /\ Documents' /\ Values'
    BY <1>1, <2>1, TypeParts, Zenon DEF Control, Documents, Values
  <2> QED BY <2>2, TypePartsNext
<1> QED BY <1>3, <1>4

LEMMA TypeElsewhere == ASSUME TypeOK, LoadingDone \/ DumpOpens \/ SettingExit PROVE TypeOK'
<1>1. /\ UNCHANGED <<order, next, root, has_dump, cut, values, zero, start, edited>>
      /\ pc' \in {"dump", "write"} /\ closing' \in {closing, TRUE} /\ file' \in {file, NoDocument}
  BY Zenon DEF LoadingDone, DumpOpens, SettingExit
<1>2. Control' /\ Documents' /\ Values'
  BY <1>1, TypeParts, Zenon DEF Control, Documents, Values
<1> QED BY <1>2, TypePartsNext

LEMMA TypeEdit ==
  ASSUME TypeOK, NEW m \in Modules, EditSetting(m) \/ RemoveSetting(m) \/ RemoveEntry(m)
  PROVE  TypeOK'
<1>1. /\ file # NoDocument /\ edited' = edited \cup {m}
      /\ UNCHANGED <<pc, closing, order, next, root, has_dump, cut, values, zero, start>>
  BY Zenon DEF EditsFile, EditSetting, RemoveSetting, RemoveEntry
<1>2. IsDocument(file)
  BY <1>1, TypeParts, Zenon DEF Documents
<1>3. DOMAIN file \subseteq Modules /\ \A k \in DOMAIN file : Fine(k, file[k])
  BY <1>2, DocumentIs, Zenon
<1>4. /\ DOMAIN file' \subseteq DOMAIN file /\ \A k \in DOMAIN file' \ {m} : file'[k] = file[k]
      /\ m \in DOMAIN file' => Fine(m, file'[m])
  BY <1>2, EditedIs, Zenon
<1>5. DOMAIN file' \subseteq Modules /\ \A k \in DOMAIN file' : Fine(k, file'[k])
  BY <1>3, <1>4, Zenon
<1>6. IsDocument(file')
  BY <1>5, DocumentIs, Zenon
<1>7. Control' /\ Documents' /\ Values'
  BY <1>1, <1>6, TypeParts, Zenon DEF Control, Documents, Values
<1> QED BY <1>7, TypePartsNext

LEMMA TypeStep == TypeOK /\ [Next]_vars => TypeOK'
<1> SUFFICES ASSUME TypeOK, [Next]_vars PROVE TypeOK'
  OBVIOUS
<1>1. CASE Start
  BY <1>1, TypeStart
<1>2. CASE LoadingDone \/ DumpOpens \/ SettingExit
  BY <1>2, TypeElsewhere, Zenon
<1>3. CASE Crash
  BY <1>3, TypeEnds, TypeParts, Zenon DEF Crash, Documents
<1>4. CASE DumpNothing \/ DumpNotOpened \/ DumpWrites \/ DumpCut
  BY <1>4, TypeDump, Zenon
<1>5. CASE \E m \in Modules : LoadKnown(m) \/ LoadNew(m)
  BY <1>5, TypeLoadKnown, TypeLoadNew, Zenon
<1>6. CASE \E m \in Modules : EditSetting(m) \/ RemoveSetting(m) \/ RemoveEntry(m)
  BY <1>6, TypeEdit, Zenon
<1>7. CASE UNCHANGED vars
  BY <1>7, TypeParts, TypePartsNext, Zenon DEF vars, Control, Documents, Values
<1> QED BY <1>1, <1>2, <1>3, <1>4, <1>5, <1>6, <1>7, Zenon DEF Next

(* Whatever the user writes into the file, and however narrow the          *)
(* variables, the document in memory and the file keep their shape, and no *)
(* setting gets more elements than it has room for (iam_setting_set,       *)
(* load_from_json, save_to_json).                                          *)
THEOREM TypeCorrect == Spec => []TypeOK
<1> QED BY TypeInit, TypeStep, PTL DEF Spec

-----------------------------------------------------------------------------
(* Entries that the store makes.                                           *)

(* An entry as it is made for a new module.                                *)
IsDefault(m, e) ==
  /\ DOMAIN e = {Settings[m][i].name : i \in Reached(m)}
  /\ \A i \in Reached(m) : \E b \in Behind :
       e[Settings[m][i].name] = JsonOf(Settings[m][i], Settings[m][i].default, b)

(* A module without an entry has its defaults; between sessions each has.  *)
Fresh ==
  /\ \A m \in Modules \ DOMAIN root : values[m] = Registered(m)
  /\ pc = "off" => DOMAIN root = {}

(* What the session adds to the document are defaults, and by the end of   *)
(* the loop it has added each module that was missing.                     *)
Added ==
  /\ \A m \in DOMAIN root \ DOMAIN start : IsDefault(m, root[m])
  /\ pc # "off" => \A j \in 1 .. next - 1 : order[j] \in DOMAIN root
  /\ pc \notin {"off", "load"} => next > Len(order)

NewInv == Fresh /\ Added

LEMMA NoEntry == DOMAIN Empty = {}
  BY DEF Empty

LEMMA RegisteredIs ==
  ASSUME NEW m \in Modules, NEW i \in DOMAIN Settings[m]
  PROVE  Registered(m)[i] = Settings[m][i].default
  BY DEF Registered

LEMMA ReachedIn == \A m : Reached(m) \subseteq DOMAIN Settings[m]
  BY DEF Reached

LEMMA SavedDefault ==
  ASSUME NEW m \in Modules, NEW behind \in [DOMAIN Settings[m] -> Behind],
         values[m] = Registered(m), NEW e, e = SaveToJson(m, behind)
  PROVE  IsDefault(m, e)
<1>1. /\ DOMAIN e = {Settings[m][i].name : i \in Reached(m)}
      /\ \A i \in Reached(m) : e[Settings[m][i].name] = JsonOf(Settings[m][i], values[m][i], behind[i])
  BY SavedIs, Zenon
<1>2. ASSUME NEW i \in Reached(m)
      PROVE  \E b \in Behind : e[Settings[m][i].name] = JsonOf(Settings[m][i], Settings[m][i].default, b)
  <2>1. i \in DOMAIN Settings[m]
    BY ReachedIn
  <2>2. behind[i] \in Behind /\ values[m][i] = Settings[m][i].default
    BY <2>1, RegisteredIs
  <2> QED BY <1>1, <2>2, Zenon
<1> QED BY <1>1, <1>2, Zenon DEF IsDefault

LEMMA NewInit == Init => NewInv
<1> SUFFICES ASSUME Init PROVE NewInv
  OBVIOUS
<1>1. values = [m \in Modules |-> Registered(m)] /\ root = Empty /\ pc = "off"
  BY Zenon DEF Init
<1>2. Fresh
  BY <1>1, NoEntry, Zenon DEF Fresh
<1>3. Added
  BY <1>1, NoEntry, Zenon DEF Added
<1> QED BY <1>2, <1>3 DEF NewInv

LEMMA NewEnds == ASSUME Ends PROVE NewInv'
<1>1. values' = [m \in Modules |-> Registered(m)] /\ root' = Empty /\ pc' = "off"
  BY Zenon DEF Ends
<1>2. Fresh'
  BY <1>1, NoEntry, Zenon DEF Fresh
<1>3. Added'
  BY <1>1, NoEntry, Zenon DEF Added
<1> QED BY <1>2, <1>3 DEF NewInv

LEMMA NewStart == ASSUME NewInv, Start PROVE NewInv'
<1>1. /\ pc = "off" /\ pc' = "load" /\ next' = 1 /\ start' = root' /\ values' = values
  BY Zenon DEF Start
<1>2. Fresh'
  BY <1>1, Zenon DEF NewInv, Fresh
<1>3. Added'
  <2>1. 1 .. next' - 1 = {}
    BY <1>1
  <2> QED BY <1>1, <2>1, Zenon DEF Added
<1> QED BY <1>2, <1>3 DEF NewInv

(* The modules loaded so far are in the document.                          *)
LEMMA LoadingAdds ==
  ASSUME TypeOK, NewInv, NEW m \in Modules, Loading(m), m \in DOMAIN root',
         DOMAIN root \subseteq DOMAIN root'
  PROVE  /\ \A j \in 1 .. next' - 1 : order'[j] \in DOMAIN root'
         /\ pc' = "load"
<1>1. pc = "load" /\ pc' = "load" /\ order' = order /\ m = order[next] /\ next' = next + 1
  BY Zenon DEF Loading
<1>2. \A j \in 1 .. next' - 1 : j \in 1 .. next - 1 \/ j = next
  BY <1>1 DEF TypeOK
<1>3. pc # "off"
  BY <1>1
<1> QED BY <1>1, <1>2, <1>3, Zenon DEF NewInv, Added

LEMMA NewLoadKnown == ASSUME TypeOK, NewInv, NEW m \in Modules, LoadKnown(m) PROVE NewInv'
<1>1. /\ Loading(m) /\ m \in DOMAIN root /\ root' = root
      /\ \E x : values' = [values EXCEPT ![m] = x]
  BY Zenon DEF LoadKnown
<1>2. start' = start
  BY <1>1, Zenon DEF Loading
<1>3. /\ \A j \in 1 .. next' - 1 : order'[j] \in DOMAIN root'
      /\ pc' = "load"
  BY <1>1, LoadingAdds, Zenon
<1>4. pc' # "off"
  BY <1>3
<1>5. Fresh'
  BY <1>1, <1>4, TypeParts, Zenon DEF NewInv, Fresh, Values
<1>6. Added'
  BY <1>1, <1>2, <1>3, Zenon DEF NewInv, Added
<1> QED BY <1>5, <1>6 DEF NewInv

LEMMA NewLoadNew == ASSUME TypeOK, NewInv, NEW m \in Modules, LoadNew(m) PROVE NewInv'
<1>1. /\ Loading(m) /\ m \notin DOMAIN root /\ values' = values
      /\ \E behind \in [DOMAIN Settings[m] -> Behind] : root' = ObjectSet(root, m, SaveToJson(m, behind))
  BY Zenon DEF LoadNew
<1>2. PICK behind \in [DOMAIN Settings[m] -> Behind] : root' = ObjectSet(root, m, SaveToJson(m, behind))
  BY <1>1
<1>3. IsDefault(m, SaveToJson(m, behind))
  BY <1>1, SavedDefault DEF NewInv, Fresh
<1>4. /\ DOMAIN root' = {m} \cup DOMAIN root /\ root'[m] = SaveToJson(m, behind)
      /\ \A n \in DOMAIN root \ {m} : root'[n] = root[n]
  BY <1>2, Zenon DEF ObjectSet
<1>5. start' = start
  BY <1>1, Zenon DEF Loading
<1>6. /\ \A j \in 1 .. next' - 1 : order'[j] \in DOMAIN root'
      /\ pc' = "load"
  BY <1>1, <1>4, LoadingAdds, Zenon
<1>7. pc' # "off"
  BY <1>6
<1>8. Fresh'
  BY <1>1, <1>4, <1>7, Zenon DEF NewInv, Fresh
<1>9. \A k \in DOMAIN root' \ DOMAIN start' : IsDefault(k, root'[k])
  BY <1>3, <1>4, <1>5, Zenon DEF NewInv, Added
<1>10. Added'
  BY <1>6, <1>9, Zenon DEF Added
<1> QED BY <1>8, <1>10 DEF NewInv

(* The other steps of a session change neither the document in memory nor  *)
(* the plugins' values.                                                    *)
LEMMA NewStays ==
  ASSUME NewInv, UNCHANGED <<root, start, values, order, next>>,
         pc # "off" \/ pc' = "off",
         pc' = "off" => pc = "off",
         pc' \notin {"off", "load"} => next > Len(order)
  PROVE  NewInv'
<1>1. Fresh'
  BY Zenon DEF NewInv, Fresh
<1>2. Added'
  BY Zenon DEF NewInv, Added
<1> QED BY <1>1, <1>2 DEF NewInv

LEMMA NewDump ==
  ASSUME TypeOK, NewInv, DumpNothing \/ DumpNotOpened \/ DumpWrites \/ DumpCut
  PROVE  NewInv'
<1>1. PICK d, c : DumpReturns(d, c)
  BY Zenon DEF DumpNothing, DumpNotOpened, DumpWrites, DumpCut
<1>2. CASE closing
  BY <1>1, <1>2, NewEnds, Zenon DEF DumpReturns
<1>3. CASE ~closing
  <2>1. pc' = "run" /\ UNCHANGED <<order, next, root, values, start>>
    BY <1>1, <1>3, Zenon DEF DumpReturns
  <2>2. pc \in {"dump", "write"}
    BY Zenon DEF DumpNothing, DumpNotOpened, DumpWrites, DumpCut
  <2>3. next > Len(order)
    BY <2>2, Zenon DEF NewInv, Added
  <2> QED BY <2>1, <2>2, <2>3, NewStays
<1> QED BY <1>2, <1>3

LEMMA NewElsewhere ==
  ASSUME TypeOK, NewInv,
         \/ LoadingDone \/ DumpOpens \/ SettingExit
         \/ \E m \in Modules : EditSetting(m) \/ RemoveSetting(m) \/ RemoveEntry(m)
  PROVE  NewInv'
<1>1. UNCHANGED <<root, start, values, order, next>>
  BY Zenon DEF LoadingDone, DumpOpens, SettingExit, EditSetting, RemoveSetting, RemoveEntry, EditsFile
<1>2. (pc = "off" /\ pc' = "off") \/ (pc # "off" /\ pc' \in {"dump", "write"})
  BY DEF LoadingDone, DumpOpens, SettingExit, EditSetting, RemoveSetting, RemoveEntry, EditsFile
<1>3. (pc = "load" /\ next > Len(order)) \/ pc \in {"off", "dump", "run"}
  BY DEF LoadingDone, DumpOpens, SettingExit, EditSetting, RemoveSetting, RemoveEntry, EditsFile
<1>4. pc' \notin {"off", "load"} => next > Len(order)
  BY <1>2, <1>3 DEF NewInv, Added
<1> QED BY <1>1, <1>2, <1>4, NewStays

LEMMA NewStep == TypeOK /\ NewInv /\ [Next]_vars => NewInv'
<1> SUFFICES ASSUME TypeOK, NewInv, [Next]_vars PROVE NewInv'
  OBVIOUS
<1>1. CASE Start
  BY <1>1, NewStart
<1>2. CASE \/ LoadingDone \/ DumpOpens \/ SettingExit
           \/ \E m \in Modules : EditSetting(m) \/ RemoveSetting(m) \/ RemoveEntry(m)
  BY <1>2, NewElsewhere, Zenon
<1>3. CASE Crash
  BY <1>3, NewEnds, Zenon DEF Crash
<1>4. CASE DumpNothing \/ DumpNotOpened \/ DumpWrites \/ DumpCut
  BY <1>4, NewDump, Zenon
<1>5. CASE \E m \in Modules : LoadKnown(m) \/ LoadNew(m)
  BY <1>5, NewLoadKnown, NewLoadNew, Zenon
<1>6. CASE UNCHANGED vars
  BY <1>6, Zenon DEF vars, NewInv, Fresh, Added
<1> QED BY <1>1, <1>2, <1>3, <1>4, <1>5, <1>6, Zenon DEF Next

(* The low digits of a narrow value are saved, whatever lies behind it.    *)
LEMMA WidenedKeeps ==
  ASSUME NEW s, NEW x \in Number, NEW b \in Nat,
         s.kind \in Narrow => x < Base(s.kind) /\ Base(s.kind) \in {2, 4}
  PROVE  OwnDigits(s.kind, Widened(s, x, b)) = x
<1>1. CASE s.kind \in Narrow
  <2>1. Widened(s, x, b) = (x + Base(s.kind) * b) % 8
    BY <1>1 DEF Widened
  <2>2. CASE Base(s.kind) = 2
    BY <1>1, <2>1, <2>2 DEF Number, OwnDigits
  <2>3. CASE Base(s.kind) = 4
    BY <1>1, <2>1, <2>3 DEF Number, OwnDigits
  <2> QED BY <1>1, <2>2, <2>3
<1>2. CASE s.kind \notin Narrow
  BY <1>2 DEF Widened, OwnDigits
<1> QED BY <1>1, <1>2

LEMMA NewComplete == ASSUME TypeOK, NewInv PROVE NewEntryComplete
<1> DEFINE Whole(s, e) ==
      /\ s.name \in DOMAIN e /\ e[s.name].array = (s.max # 1)
      /\ DOMAIN e[s.name].cells = DOMAIN s.default
      /\ \A k \in DOMAIN s.default :
           LET j == e[s.name].cells[k]
           IN  j.t = Tag(s.kind) /\ OwnDigits(s.kind, j.v) = s.default[k]
<1> SUFFICES ASSUME pc = "run", NEW m \in ToSet(order) \ DOMAIN start, NEW i \in Reached(m)
             PROVE  Whole(Settings[m][i], root[m])
  BY Zenon DEF NewEntryComplete
<1> DEFINE s == Settings[m][i]
<1>1. PICK j \in 1 .. Len(order) : m = order[j]
  BY DEF ToSet, TypeOK
<1>2. j \in 1 .. next - 1
  BY DEF TypeOK, NewInv, Added
<1>3. m \in DOMAIN root /\ IsDefault(m, root[m])
  BY <1>1, <1>2 DEF NewInv, Added
<1>4. m \in Modules
  BY <1>1 DEF TypeOK
<1>5. i \in DOMAIN Settings[m]
  BY ReachedIn
<1>6. PICK b \in Behind : root[m][s.name] = JsonOf(s, s.default, b)
  BY <1>3, Zenon DEF IsDefault
<1>7. s.name \in DOMAIN root[m]
  BY <1>3, Zenon DEF IsDefault
<1>8. Proper(s) /\ b \in Nat
  BY <1>4, <1>5, AllProper, BehindAssumption
<1> HIDE DEF s
<1>9. \A k \in DOMAIN s.default : s.kind \in Narrow => s.default[k] < Base(s.kind) /\ Base(s.kind) \in {2, 4}
  <2>1. s.kind \in Narrow => Base(s.kind) \in {2, 4} /\ DOMAIN s.default = {1} /\ s.default[1] < Base(s.kind)
    BY <1>8, SettingFields, BaseIs
  <2> QED BY <2>1
<1>10. \A k \in DOMAIN s.default : s.default[k] \in Number
  BY <1>8, SettingFields
<1>11. \A k \in DOMAIN s.default :
         OwnDigits(s.kind, Widened(s, s.default[k], b)) = s.default[k]
  BY <1>8, <1>9, <1>10, WidenedKeeps
<1> DEFINE e == JsonOf(s, s.default, b)
<1>12. /\ e.array = (s.max # 1) /\ DOMAIN e.cells = DOMAIN s.default
       /\ \A k \in DOMAIN s.default :
            e.cells[k].t = Tag(s.kind) /\ e.cells[k].v = Widened(s, s.default[k], b)
  BY DEF JsonOf
<1> HIDE DEF e
<1>13. Whole(s, root[m])
  BY <1>6, <1>7, <1>11, <1>12 DEF e
<1> QED BY <1>13 DEF s

(* The entry made for a new module has each setting that no array comes    *)
(* before, with its default: a narrow one in the low digits, whatever lies *)
(* behind the variable (find_and_exec, save_to_json).  That settings after *)
(* an array are left out is finding setting_json_arrays.                   *)
THEOREM NewEntriesWhole == Spec => []NewEntryComplete
<1>1. TypeOK /\ NewInv => NewEntryComplete
  BY NewComplete
<1> QED BY <1>1, TypeInit, TypeStep, NewInit, NewStep, PTL DEF Spec

-----------------------------------------------------------------------------
(* Entries that nobody touched.                                            *)

(* A bool that is false by default has zeros behind it.                    *)
FalseBools ==
  \A m \in Modules : \A i \in DOMAIN Settings[m] :
    Settings[m][i].kind = "bool" /\ Settings[m][i].default[1] = 0 => Behind \subseteq {0}

(* Outside the entries the user touched, a document holds defaults.        *)
DefaultsOnly(d) == \A m \in DOMAIN d \ edited : IsDefault(m, d[m])

(* The plugins whose entries nobody touched have their defaults, and the   *)
(* documents agree.  The file has no entry the document in memory lacks:   *)
(* an entry that is made anew is nobody's work, in the file too.           *)
BackInv ==
  /\ \A m \in Modules \ edited : values[m] = Registered(m)
  /\ DefaultsOnly(root)
  /\ file # NoDocument => DefaultsOnly(file)
  /\ pc # "off" /\ file # NoDocument => DOMAIN file \subseteq DOMAIN root

(* A default that is read back, with whatever was saved from behind it, is *)
(* the default.                                                            *)
LEMMA StoresDefault ==
  ASSUME NEW s, s.kind \in Kinds, NEW z \in Number, NEW d \in Number, NEW b \in Nat,
         s.kind \in Narrow => d < Base(s.kind), s.kind = "bool" => d # 0 \/ b = 0
  PROVE  Stores(s.kind, z, Widened(s, d, b), d) = d
<1>1. CASE s.kind = "bool"
  <2>1. d < 2 /\ Widened(s, d, b) = (d + 2 * b) % 8
    BY <1>1, BaseIs DEF Widened, Narrow
  <2>2. d = 0 => Widened(s, d, b) = 0
    BY <1>1, <2>1
  <2>3. d = 1 => Widened(s, d, b) # 0
    BY <2>1
  <2>4. d \in {0, 1}
    BY <2>1 DEF Number
  <2> QED BY <1>1, <2>2, <2>3, <2>4, StoresCases
<1>2. CASE s.kind \in Narrow \ {"bool"}
  <2> DEFINE x == Widened(s, d, b)
  <2>1. Base(s.kind) \in {2, 4} /\ x = (d + Base(s.kind) * b) % 8 /\ d < Base(s.kind)
    BY <1>2, BaseIs DEF Widened
  <2>2. x % Base(s.kind) = d
    <3>1. CASE Base(s.kind) = 2
      BY <2>1, <3>1 DEF Number
    <3>2. CASE Base(s.kind) = 4
      BY <2>1, <3>2 DEF Number
    <3> QED BY <2>1, <3>1, <3>2
  <2> HIDE DEF x
  <2>3. Stores(s.kind, z, x, d) = IF Overlay(s.kind, z, x) = x THEN x % Base(s.kind) ELSE d
    BY <1>2, StoresCases
  <2> QED BY <2>2, <2>3 DEF x
<1>3. CASE s.kind \notin Narrow
  BY <1>3, StoresCases DEF Widened
<1> QED BY <1>1, <1>2, <1>3

LEMMA CopyDefault ==
  ASSUME NEW s, Proper(s), NEW z \in Number, NEW b \in Nat,
         s.kind = "bool" /\ s.default[1] = 0 => b = 0
  PROVE  CopyValues(s, JsonOf(s, s.default, b), z).cells = s.default
<1> DEFINE stg == JsonOf(s, s.default, b)
           n == Len(s.default)
<1>1. /\ s.kind \in Kinds /\ s.default \in Seq(Number) /\ (s.max = 1 => n = 1)
      /\ s.kind \in Narrow => s.max = 1 /\ s.default[1] < Base(s.kind)
  BY SettingFields
<1>2. /\ stg \in Json /\ Len(stg.cells) = n
      /\ \A i \in 1 .. n : stg.cells[i] = [t |-> Tag(s.kind), v |-> Widened(s, s.default[i], b)]
  BY <1>1, JsonOfTyped
<1>3. n \in Nat /\ \A i \in 1 .. n : s.default[i] \in Number
  BY <1>1
<1> HIDE DEF stg
<1>4. PICK c : Copied(c, s, stg, z) /\ CopyValues(s, stg, z) = c[n]
  BY <1>2, CopyLoop
<1> DEFINE S == {i \in 0 .. n : c[i].cells = s.default}
<1>5. 0 \in S
  BY <1>3, <1>4 DEF Copied
<1>6. ASSUME NEW i \in 0 .. n - 1, i \in S
      PROVE  i + 1 \in S
  <2>1. i + 1 \in 1 .. n /\ (i + 1) - 1 = i /\ i \in 0 .. n /\ i + 1 \in 0 .. n /\ i + 1 \in Nat \ {0}
    BY <1>3
  <2>2. c[i] \in Copy(s) /\ c[i + 1] = CopyValue(c[i], s, i + 1, stg.cells[i + 1])
    BY <1>2, <1>4, <2>1 DEF Copied
  <2> DEFINE d == s.default[i + 1]
             j == stg.cells[i + 1]
  <2>3. j = [t |-> Tag(s.kind), v |-> Widened(s, d, b)] /\ d \in Number
    BY <1>2, <1>3, <2>1
  <2>4. ValueAs(s.kind, j) = Widened(s, d, b)
    BY <2>3 DEF ValueAs
  <2>5. j \in Cell
    BY <2>3, TagTyped, WidenedTyped DEF Cell
  <2>6. s.kind \in Narrow => d < Base(s.kind) /\ i + 1 = 1
    <3>1. s.kind \in Narrow => n = 1
      BY <1>1, Zenon
    <3>2. n = 1 => i + 1 = 1
      BY <2>1
    <3> QED BY <1>1, <3>1, <3>2, Zenon
  <2>7. s.kind = "bool" => d # 0 \/ b = 0
    BY <2>6 DEF Narrow
  <2>8. c[i].zero \in Number /\ c[i].cells = s.default
    BY <1>6, <2>2, CopyFields
  <2>9. Stores(s.kind, c[i].zero, ValueAs(s.kind, j), d) = d
    BY <1>1, <2>3, <2>4, <2>6, <2>7, <2>8, StoresDefault
  <2> HIDE DEF j
  <2>10. c[i + 1].cells = c[i].cells \/ c[i + 1].cells = [c[i].cells EXCEPT ![i + 1] = d]
    <3> DEFINE x == ValueAs(s.kind, j)
               old == IF i + 1 <= Len(c[i].cells) THEN c[i].cells[i + 1] ELSE 0
               new == Stores(s.kind, c[i].zero, x, old)
    <3>1. i + 1 <= Len(c[i].cells) /\ old = d
      BY <2>1, <2>8
    <3>2. IF Refused(s, j) \/ ~Takes(s, c[i].cells, i + 1) THEN c[i + 1] = c[i]
          ELSE i + 1 <= Len(c[i].cells) => c[i + 1].cells = [c[i].cells EXCEPT ![i + 1] = new]
      BY <2>1, <2>2, <2>5, CopyValueCases DEF j
    <3> QED BY <2>9, <3>1, <3>2
  <2>11. [s.default EXCEPT ![i + 1] = d] = s.default
    BY <1>1, <2>1
  <2>12. c[i + 1].cells = s.default
    BY <2>8, <2>10, <2>11
  <2> QED BY <2>1, <2>12
<1>7. \A i \in 0 .. n : i \in S
  <2> HIDE DEF S, n
  <2> QED BY <1>3, <1>5, <1>6, UpTo, Zenon
<1>8. n \in 0 .. n
  BY <1>3
<1> QED BY <1>4, <1>7, <1>8 DEF stg

(* What is loaded from an entry of defaults are the defaults.              *)
LEMMA LoadsDefaults ==
  ASSUME FalseBools, NEW m \in Modules, NEW data, Entry(data), IsDefault(m, data), zero \in Number,
         NEW a, a = LoadFromJson(m, data)
  PROVE  a.values = Registered(m)
<1>1. PICK t : /\ Turned(t, m, data) /\ a \in Progress
               /\ Len(a.values) = Len(Settings[m])
               /\ \A i \in DOMAIN Settings[m] : a.values[i] = LoadedValue(t, m, data, i)
  BY LoadedIs
<1>2. DOMAIN Settings[m] = 1 .. Len(Settings[m])
  BY AllProper
<1>3. ASSUME NEW i \in DOMAIN Settings[m]
      PROVE  LoadedValue(t, m, data, i) = Settings[m][i].default
  <2> DEFINE s == Settings[m][i]
  <2>1. Proper(s) /\ i - 1 \in 0 .. Len(Settings[m])
    BY AllProper
  <2>2. CASE Skipped(data, t[i - 1], s)
    BY <2>2, Zenon DEF LoadedValue
  <2>3. CASE ~Skipped(data, t[i - 1], s)
    <3>1. s.name \in DOMAIN data
      BY <2>3 DEF Skipped
    <3>2. PICK h \in Reached(m) : Settings[m][h].name = s.name
      BY <3>1, Zenon DEF IsDefault
    <3>3. h = i
      <4>1. h \in DOMAIN Settings[m]
        BY ReachedIn
      <4> QED BY <3>2, <4>1, NamesDiffer
    <3>4. PICK b \in Behind : data[s.name] = JsonOf(s, s.default, b)
      BY <3>2, <3>3, Zenon DEF IsDefault
    <3>5. b \in Nat /\ (s.kind = "bool" /\ s.default[1] = 0 => b = 0)
      BY BehindAssumption DEF FalseBools
    <3>6. t[i - 1].zero \in Number
      BY <1>1, <2>1, ProgressFields DEF Turned
    <3>7. CopyValues(s, data[s.name], t[i - 1].zero).cells = s.default
      <4> HIDE DEF s
      <4> QED BY <2>1, <3>4, <3>5, <3>6, CopyDefault
    <3> QED BY <2>3, <3>7, Zenon DEF LoadedValue
  <2> QED BY <2>2, <2>3
<1>4. a.values \in Seq(Seq(Number)) /\ DOMAIN a.values = DOMAIN Settings[m]
  BY <1>1, <1>2, ProgressFields
<1>5. \A i \in DOMAIN Settings[m] : a.values[i] = Settings[m][i].default
  BY <1>1, <1>3
<1>6. a.values = [i \in DOMAIN Settings[m] |-> a.values[i]]
  BY <1>4
<1> QED BY <1>5, <1>6 DEF Registered

LEMMA BackInit == Init => BackInv
<1> SUFFICES ASSUME Init PROVE BackInv
  OBVIOUS
<1>1. values = [m \in Modules |-> Registered(m)] /\ root = Empty /\ pc = "off" /\ file = NoDocument
  BY Zenon DEF Init
<1> QED BY <1>1, NoEntry, Zenon DEF BackInv, DefaultsOnly

LEMMA BackEnds ==
  ASSUME BackInv, Ends, file' \in {file, root}
  PROVE  BackInv'
<1>1. /\ values' = [m \in Modules |-> Registered(m)] /\ root' = Empty /\ pc' = "off"
      /\ edited' = edited
  BY Zenon DEF Ends
<1> QED BY <1>1, NoEntry, Zenon DEF BackInv, DefaultsOnly

LEMMA BackStart == ASSUME BackInv, Start PROVE BackInv'
<1>1. /\ root' = (IF file = NoDocument THEN Empty ELSE file) /\ UNCHANGED <<file, values, edited>>
  BY Zenon DEF Start
<1> QED BY <1>1, NoEntry, Zenon DEF BackInv, DefaultsOnly

LEMMA BackLoadKnown ==
  ASSUME FalseBools, TypeOK, BackInv, NEW m \in Modules, LoadKnown(m)
  PROVE  BackInv'
<1> DEFINE a == LoadFromJson(m, root[m])
<1>1. /\ m \in DOMAIN root /\ values' = [values EXCEPT ![m] = a.values]
      /\ UNCHANGED <<pc, file, root, edited>>
  BY Zenon DEF LoadKnown, Loading
<1>2. Entry(root[m]) /\ zero \in Number /\ DOMAIN values = Modules
  BY <1>1, TypeParts, DocumentIs, Zenon DEF Documents, Values, Fine
<1>3. m \notin edited => IsDefault(m, root[m])
  BY <1>1, Zenon DEF BackInv, DefaultsOnly
<1>4. m \notin edited => a.values = Registered(m)
  BY <1>2, <1>3, LoadsDefaults
<1> HIDE DEF a
<1> QED BY <1>1, <1>2, <1>4, Zenon DEF BackInv, DefaultsOnly

LEMMA BackLoadNew ==
  ASSUME NewInv, BackInv, NEW m \in Modules, LoadNew(m)
  PROVE  BackInv'
<1>1. PICK behind \in [DOMAIN Settings[m] -> Behind] : root' = ObjectSet(root, m, SaveToJson(m, behind))
  BY Zenon DEF LoadNew
<1>2. /\ pc = "load" /\ pc' = pc /\ m \notin DOMAIN root /\ edited' = edited \ {m}
      /\ UNCHANGED <<file, values>>
  BY Zenon DEF LoadNew, Loading
<1>3. values[m] = Registered(m)
  BY <1>2, Zenon DEF NewInv, Fresh
<1>4. IsDefault(m, SaveToJson(m, behind))
  BY <1>3, SavedDefault
<1>5. /\ DOMAIN root' = {m} \cup DOMAIN root /\ root'[m] = SaveToJson(m, behind)
      /\ \A n \in DOMAIN root \ {m} : root'[n] = root[n]
  BY <1>1, Zenon DEF ObjectSet
<1>6. pc # "off"
  BY <1>2
<1>7. file # NoDocument => m \notin DOMAIN file
  BY <1>2, <1>6, Zenon DEF BackInv
<1> QED BY <1>2, <1>3, <1>4, <1>5, <1>6, <1>7, Zenon DEF BackInv, DefaultsOnly

LEMMA BackDump ==
  ASSUME BackInv, DumpNothing \/ DumpNotOpened \/ DumpWrites \/ DumpCut
  PROVE  BackInv'
<1>1. PICK d, c : DumpReturns(d, c)
  BY Zenon DEF DumpNothing, DumpNotOpened, DumpWrites, DumpCut
<1>2. file' \in {file, root}
  BY Zenon DEF DumpNothing, DumpNotOpened, DumpWrites, DumpCut
<1>3. CASE closing
  BY <1>1, <1>2, <1>3, BackEnds, Zenon DEF DumpReturns
<1>4. CASE ~closing
  <2>1. UNCHANGED <<root, values, edited>>
    BY <1>1, <1>4, Zenon DEF DumpReturns
  <2>2. pc # "off"
    BY DEF DumpNothing, DumpNotOpened, DumpWrites, DumpCut
  <2> QED BY <1>2, <2>1, <2>2, Zenon DEF BackInv, DefaultsOnly
<1> QED BY <1>3, <1>4

LEMMA BackElsewhere ==
  ASSUME BackInv, LoadingDone \/ DumpOpens \/ SettingExit
  PROVE  BackInv'
<1>1. UNCHANGED <<root, values, edited>> /\ file' \in {file, NoDocument}
  BY Zenon DEF LoadingDone, DumpOpens, SettingExit
<1>2. pc # "off"
  BY DEF LoadingDone, DumpOpens, SettingExit
<1> QED BY <1>1, <1>2, Zenon DEF BackInv, DefaultsOnly

LEMMA BackEdit ==
  ASSUME TypeOK, BackInv, NEW m \in Modules, EditSetting(m) \/ RemoveSetting(m) \/ RemoveEntry(m)
  PROVE  BackInv'
<1>1. /\ pc = "off" /\ file # NoDocument /\ edited' = edited \cup {m}
      /\ UNCHANGED <<pc, root, values>>
  BY Zenon DEF EditsFile, EditSetting, RemoveSetting, RemoveEntry
<1>2. /\ DOMAIN file' \subseteq DOMAIN file /\ \A k \in DOMAIN file' \ {m} : file'[k] = file[k]
  BY <1>1, TypeParts, EditedIs, Zenon DEF Documents
<1> QED BY <1>1, <1>2, Zenon DEF BackInv, DefaultsOnly

LEMMA BackStep == FalseBools /\ TypeOK /\ NewInv /\ BackInv /\ [Next]_vars => BackInv'
<1> SUFFICES ASSUME FalseBools, TypeOK, NewInv, BackInv, [Next]_vars PROVE BackInv'
  OBVIOUS
<1>1. CASE Start
  BY <1>1, BackStart
<1>2. CASE LoadingDone \/ DumpOpens \/ SettingExit
  BY <1>2, BackElsewhere
<1>3. CASE Crash
  BY <1>3, BackEnds, Zenon DEF Crash
<1>4. CASE DumpNothing \/ DumpNotOpened \/ DumpWrites \/ DumpCut
  BY <1>4, BackDump, Zenon
<1>5. CASE \E m \in Modules : LoadKnown(m) \/ LoadNew(m)
  BY <1>5, BackLoadKnown, BackLoadNew, Zenon
<1>6. CASE \E m \in Modules : EditSetting(m) \/ RemoveSetting(m) \/ RemoveEntry(m)
  BY <1>6, BackEdit, Zenon
<1>7. CASE UNCHANGED vars
  BY <1>7, Zenon DEF vars, BackInv, DefaultsOnly
<1> QED BY <1>1, <1>2, <1>3, <1>4, <1>5, <1>6, <1>7, Zenon DEF Next

LEMMA BackAll == ASSUME TypeOK, BackInv PROVE DefaultsComeBack
<1>1. ToSet(order) \subseteq Modules
  BY DEF ToSet, TypeOK
<1> QED BY <1>1, Zenon DEF BackInv, DefaultsComeBack

(* A plugin whose entry nobody touched runs with its own defaults in every *)
(* session, whatever was saved from behind its narrow variables            *)
(* (save_to_json, load_from_json, iam_variable_set_value).  Only a bool    *)
(* cannot tell such digits from its own: one that is false by default      *)
(* would come back true.                                                   *)
THEOREM UntouchedRun ==
  ASSUME FalseBools
  PROVE  Spec => []DefaultsComeBack
<1>1. TypeOK /\ BackInv => DefaultsComeBack
  BY BackAll
<1>2. TypeOK /\ NewInv /\ BackInv /\ [Next]_vars => BackInv'
  BY BackStep
<1> QED BY <1>1, <1>2, TypeInit, TypeStep, NewInit, NewStep, BackInit, PTL DEF Spec
-----------------------------------------------------------------------------
(* What the file says and the plugin runs with.                            *)

NarrowIntegers == Narrow \ {"bool"}

(* All narrow integers that are registered have one width.                 *)
OneWidth ==
  \A m, n \in Modules : \A i \in DOMAIN Settings[m] : \A j \in DOMAIN Settings[n] :
    {Settings[m][i].kind, Settings[n][j].kind} \subseteq NarrowIntegers =>
      Settings[m][i].kind = Settings[n][j].kind

(* The buffer holds no digits above those of a registered integer.         *)
Small(z) ==
  \A m \in Modules : \A i \in DOMAIN Settings[m] :
    Settings[m][i].kind \in NarrowIntegers => z < Base(Settings[m][i].kind)

(* Where an entry names a setting it has its shape.                        *)
ShapedEntry(m, e) ==
  \A i \in DOMAIN Settings[m] :
    Settings[m][i].name \in DOMAIN e =>
      e[Settings[m][i].name].array = (Settings[m][i].max # 1)

Shaped(d) == \A m \in DOMAIN d : ShapedEntry(m, d[m])

Matches(m, i, v) ==
  Settings[m][i].name \in DOMAIN start[m] /\ Fits(Settings[m][i], start[m][Settings[m][i].name]) =>
    v = OverDefault(Settings[m][i], start[m][Settings[m][i].name])

(* The modules loaded so far run with what the session's document says.    *)
AllMatch ==
  \A j \in 1 .. next - 1 : order[j] \in DOMAIN start =>
    \A i \in Reached(order[j]) : Matches(order[j], i, values[order[j]][i])

StoredInv ==
  /\ Small(zero) /\ Shaped(root) /\ (file # NoDocument => Shaped(file))
  /\ pc # "off" => AllMatch

LEMMA OverlayFresh ==
  ASSUME NEW kind \in NarrowIntegers, NEW z \in Number, z < Base(kind), NEW x \in Number
  PROVE  Overlay(kind, z, x) = x % Base(kind) /\ x % Base(kind) < Base(kind)
<1>1. kind \in Kinds /\ Base(kind) \in {2, 4}
  BY BaseIs DEF NarrowIntegers, Narrow, Kinds
<1>2. Overlay(kind, z, x) = (z - (z % Base(kind))) + (x % Base(kind))
  BY DEF Overlay, NarrowIntegers
<1>3. CASE Base(kind) = 2
  BY <1>2, <1>3 DEF Number
<1>4. CASE Base(kind) = 4
  BY <1>2, <1>4 DEF Number
<1> QED BY <1>1, <1>3, <1>4

LEMMA OverlaySmall ==
  ASSUME OneWidth, NEW m \in Modules, NEW i \in DOMAIN Settings[m],
         NEW z \in Number, Small(z), NEW x \in Number
  PROVE  Small(Overlay(Settings[m][i].kind, z, x))
<1> DEFINE kind == Settings[m][i].kind
<1>1. CASE kind \in NarrowIntegers
  <2>1. z < Base(kind)
    BY <1>1, Zenon DEF Small
  <2>2. Overlay(kind, z, x) < Base(kind)
    <3> HIDE DEF kind
    <3>1. Overlay(kind, z, x) = x % Base(kind) /\ x % Base(kind) < Base(kind)
      BY <1>1, <2>1, OverlayFresh
    <3> QED BY <3>1, Zenon
  <2>3. \A n \in Modules : \A j \in DOMAIN Settings[n] :
          Settings[n][j].kind \in NarrowIntegers => Settings[n][j].kind = kind
    BY <1>1 DEF OneWidth
  <2> QED BY <2>2, <2>3, Zenon DEF Small
<1>2. CASE kind \notin NarrowIntegers
  BY <1>2, Zenon DEF Overlay, NarrowIntegers
<1> QED BY <1>1, <1>2

(* One element leaves the buffer small.                                    *)
LEMMA CopySmall ==
  ASSUME OneWidth, NEW m \in Modules, NEW h \in DOMAIN Settings[m], NEW stg \in Json,
         NEW z \in Number, Small(z), NEW c, Copied(c, Settings[m][h], stg, z)
  PROVE  \A i \in 0 .. Len(stg.cells) : Small(c[i].zero)
<1> DEFINE n == Len(stg.cells)
           s == Settings[m][h]
           S == {i \in 0 .. n : Small(c[i].zero)}
<1>1. n \in Nat /\ \A i \in 1 .. n : stg.cells[i] \in Cell
  <2>1. stg.cells \in Seq(Cell)
    BY DEF Json, Cell
  <2> QED BY <2>1
<1>2. 0 \in S
  BY <1>1 DEF Copied
<1>3. ASSUME NEW i \in 0 .. n - 1, i \in S
      PROVE  i + 1 \in S
  <2>1. /\ i + 1 \in 1 .. n /\ (i + 1) - 1 = i /\ i \in 0 .. n /\ i + 1 \in 0 .. n
        /\ i + 1 \in Nat \ {0} /\ Small(c[i].zero)
    BY <1>1, <1>3
  <2>2. c[i] \in Copy(s) /\ c[i + 1] = CopyValue(c[i], s, i + 1, stg.cells[i + 1])
    BY <2>1 DEF Copied
  <2>3. Proper(s) /\ stg.cells[i + 1] \in Cell
    BY <1>1, <2>1, AllProper
  <2> DEFINE x == ValueAs(s.kind, stg.cells[i + 1])
  <2>4. x \in Number /\ c[i].zero \in Number
    BY <2>2, <2>3, ValueTyped, CopyFields
  <2>5. c[i + 1].zero = c[i].zero \/ c[i + 1].zero = Overlay(s.kind, c[i].zero, x)
    <3> DEFINE j == stg.cells[i + 1]
    <3> HIDE DEF s, j
    <3>1. IF Refused(s, j) \/ ~Takes(s, c[i].cells, i + 1) THEN c[i + 1] = c[i]
          ELSE c[i + 1].zero = Overlay(s.kind, c[i].zero, ValueAs(s.kind, j))
      <4>1. Proper(s) /\ j \in Cell /\ c[i + 1] = CopyValue(c[i], s, i + 1, j)
        BY <2>2, <2>3 DEF j
      <4> DEFINE k == i + 1
                 b == c[i]
      <4>2. b \in Copy(s) /\ k \in Nat \ {0} /\ c[k] = CopyValue(b, s, k, j)
        BY <2>1, <2>2, <4>1
      <4> HIDE DEF k, b
      <4>3. IF Refused(s, j) \/ ~Takes(s, b.cells, k) THEN c[k] = b
            ELSE c[k].zero = Overlay(s.kind, b.zero, ValueAs(s.kind, j))
        BY <4>1, <4>2, CopyValueCases
      <4> QED BY <4>3 DEF k, b
    <3> QED BY <3>1, Zenon DEF j
  <2> HIDE DEF x
  <2>6. Small(Overlay(s.kind, c[i].zero, x))
    BY <2>1, <2>4, OverlaySmall
  <2>7. Small(c[i + 1].zero)
    BY <2>1, <2>5, <2>6, Zenon
  <2> QED BY <2>1, <2>7
<1>4. \A i \in 0 .. n : i \in S
  <2> HIDE DEF S, n
  <2> QED BY <1>1, <1>2, <1>3, UpTo, Zenon
<1> QED BY <1>4

(* A cell of the setting's type that fits is stored as it is.              *)
LEMMA StoresFitting ==
  ASSUME NEW kind \in Kinds, NEW z \in Number, NEW x \in Number, NEW old,
         kind \in Narrow => x < Base(kind),
         kind \in NarrowIntegers => z < Base(kind)
  PROVE  Stores(kind, z, x, old) = x
<1>1. CASE kind = "bool"
  BY <1>1, StoresCases, BaseIs DEF Number, Narrow
<1>2. CASE kind \in NarrowIntegers
  <2>1. Base(kind) \in {2, 4} /\ x < Base(kind)
    BY <1>2, BaseIs DEF NarrowIntegers
  <2>2. x % Base(kind) = x
    BY <2>1 DEF Number
  <2>3. Overlay(kind, z, x) = x
    BY <1>2, <2>2, OverlayFresh
  <2> QED BY <1>2, <2>2, <2>3, StoresCases DEF NarrowIntegers
<1>3. CASE kind \notin Narrow
  BY <1>3, StoresCases
<1> QED BY <1>1, <1>2, <1>3 DEF NarrowIntegers

(* So is the value of the setting that the document has.                   *)
LEMMA CopyFitting ==
  ASSUME OneWidth, NEW m \in Modules, NEW h \in DOMAIN Settings[m], NEW stg \in Json,
         NEW z \in Number, Small(z), Fits(Settings[m][h], stg)
  PROVE  CopyValues(Settings[m][h], stg, z).cells = OverDefault(Settings[m][h], stg)
<1> DEFINE n == Len(stg.cells)
           s == Settings[m][h]
<1>1. /\ n \in Nat /\ DOMAIN stg.cells = 1 .. n /\ \A i \in 1 .. n : stg.cells[i] \in Cell
  <2>1. stg.cells \in Seq(Cell)
    BY DEF Json, Cell
  <2> QED BY <2>1
<1>2. Proper(s)
  BY AllProper
<1>3. PICK c : Copied(c, s, stg, z) /\ CopyValues(s, stg, z) = c[n]
  BY <1>2, CopyLoop
<1>4. \A i \in 0 .. n : Small(c[i].zero)
  BY <1>3, CopySmall
<1>5. /\ n <= s.max
      /\ \A i \in 1 .. n : /\ stg.cells[i].t = Tag(s.kind)
                           /\ s.kind = "str" => stg.cells[i].v < s.size
                           /\ s.kind \in Narrow => stg.cells[i].v < Base(s.kind)
  BY <1>1, Zenon DEF Fits
<1> DEFINE d == Len(s.default)
           P(i) == /\ Len(c[i].cells) = IF i <= d THEN d ELSE i
                   /\ \A k \in 1 .. i : c[i].cells[k] = stg.cells[k].v
                   /\ \A k \in i + 1 .. d : c[i].cells[k] = s.default[k]
           S == {i \in 0 .. n : P(i)}
<1>6. \A i \in 0 .. n : c[i] \in Copy(s) /\ c[i].cells \in Seq(Number) /\ c[i].zero \in Number
  BY <1>3, CopyFields DEF Copied
<1>7. P(0)
  BY <1>1, <1>2, <1>3, <1>6, SettingFields DEF Copied
<1>8. ASSUME NEW i \in 0 .. n - 1, P(i)
      PROVE  P(i + 1)
  <2>1. /\ i + 1 \in 1 .. n /\ (i + 1) - 1 = i /\ i \in 0 .. n /\ i + 1 \in 0 .. n
        /\ i + 1 \in Nat \ {0}
    BY <1>1
  <2>2. c[i] \in Copy(s) /\ c[i + 1] = CopyValue(c[i], s, i + 1, stg.cells[i + 1])
    BY <1>3, <2>1 DEF Copied
  <2> DEFINE j == stg.cells[i + 1]
             q == c[i].cells
             x == ValueAs(s.kind, j)
             old == IF i + 1 <= Len(q) THEN q[i + 1] ELSE 0
             new == Stores(s.kind, c[i].zero, x, old)
  <2>3. j \in Cell /\ j.t = Tag(s.kind) /\ x = j.v /\ j.v \in Number
    BY <1>1, <1>5, <2>1, CellFields DEF ValueAs
  <2>4. IF Refused(s, j) \/ ~Takes(s, q, i + 1) THEN c[i + 1] = c[i]
        ELSE /\ i + 1 <= Len(q) => c[i + 1].cells = [q EXCEPT ![i + 1] = new]
             /\ i + 1 > Len(q) => i + 1 = Len(q) + 1 /\ c[i + 1].cells = Append(q, new)
    <3> HIDE DEF s
    <3> QED BY <1>2, <2>1, <2>2, <2>3, CopyValueCases
  <2>5. /\ q \in Seq(Number) /\ Len(q) = (IF i <= d THEN d ELSE i) /\ d \in Nat
        /\ \A k \in 1 .. i : q[k] = stg.cells[k].v
        /\ \A k \in i + 1 .. d : q[k] = s.default[k]
    BY <1>2, <1>6, <1>8, <2>1, SettingFields
  <2>6. ~Refused(s, j)
    <3>1. s.kind = "str" => j.t = "str" /\ j.v < s.size
      BY <1>5, <2>1, <2>3 DEF Tag
    <3> QED BY <1>2, <2>3, <3>1, SettingFields DEF Refused, Number
  <2>7. Takes(s, q, i + 1)
    BY <1>2, <1>5, <2>1, <2>5, SettingFields DEF Takes
  <2>8. new = j.v
    <3>1. s.kind \in Kinds /\ c[i].zero \in Number
      BY <1>2, <1>6, <2>1, SettingFields
    <3>2. s.kind \in NarrowIntegers => c[i].zero < Base(s.kind)
      BY <1>4, <2>1, Zenon DEF Small
    <3>3. s.kind \in Narrow => j.v < Base(s.kind)
      BY <1>5, <2>1
    <3> HIDE DEF s, j, old, x
    <3> QED BY <2>3, <3>1, <3>2, <3>3, StoresFitting
  <2> HIDE DEF new, q, j, d
  <2>9. CASE i + 1 <= Len(q)
    <3>1. c[i + 1].cells = [q EXCEPT ![i + 1] = j.v]
      BY <2>4, <2>6, <2>7, <2>8, <2>9
    <3>2. /\ Len(c[i + 1].cells) = Len(q) /\ c[i + 1].cells[i + 1] = j.v
          /\ \A k \in 1 .. Len(q) : k # i + 1 => c[i + 1].cells[k] = q[k]
      BY <2>1, <2>5, <2>9, <3>1
    <3>3. i + 1 <= d /\ Len(q) = d
      BY <2>1, <2>5, <2>9
    <3>4. \A k \in 1 .. i + 1 : k = i + 1 \/ (k \in 1 .. i /\ k \in 1 .. Len(q) /\ k # i + 1)
      BY <2>1, <2>5, <3>3
    <3>5. \A k \in (i + 1) + 1 .. d : k \in i + 1 .. d /\ k \in 1 .. Len(q) /\ k # i + 1
      BY <2>1, <2>5, <3>3
    <3>6. \A k \in 1 .. i + 1 : c[i + 1].cells[k] = stg.cells[k].v
      BY <2>5, <3>2, <3>4, Zenon DEF j
    <3>7. \A k \in (i + 1) + 1 .. d : c[i + 1].cells[k] = s.default[k]
      BY <2>5, <3>2, <3>5, Zenon
    <3> QED BY <3>2, <3>3, <3>6, <3>7 DEF d
  <2>10. CASE i + 1 > Len(q)
    <3>1. c[i + 1].cells = Append(q, j.v) /\ i + 1 = Len(q) + 1
      BY <2>4, <2>6, <2>7, <2>8, <2>10
    <3>2. /\ Len(c[i + 1].cells) = i + 1 /\ c[i + 1].cells[i + 1] = j.v
          /\ \A k \in 1 .. i : c[i + 1].cells[k] = q[k]
      BY <2>1, <2>5, <3>1
    <3>3. \A k \in 1 .. i + 1 : k = i + 1 \/ k \in 1 .. i
      BY <2>1
    <3>4. \A k \in 1 .. i + 1 : c[i + 1].cells[k] = stg.cells[k].v
      BY <2>5, <3>2, <3>3, Zenon DEF j
    <3>5. ~(i + 1 <= d)
      BY <2>1, <2>5, <2>10
    <3>6. \A k \in (i + 1) + 1 .. d : c[i + 1].cells[k] = s.default[k]
      BY <2>1, <2>5, <3>5
    <3> QED BY <3>2, <3>4, <3>5, <3>6 DEF d
  <2> QED BY <2>1, <2>5, <2>9, <2>10
<1> HIDE DEF P
<1>9. 0 \in S /\ \A i \in 0 .. n - 1 : i \in S => i + 1 \in S
  BY <1>1, <1>7, <1>8
<1>10. \A i \in 0 .. n : i \in S
  <2> HIDE DEF S, n
  <2> QED BY <1>1, <1>9, UpTo, Zenon
<1>11. n \in 0 .. n
  BY <1>1
<1>12. P(n) /\ c[n].cells \in Seq(Number) /\ s.default \in Seq(Number)
  BY <1>2, <1>6, <1>10, <1>11, SettingFields
<1> DEFINE q == c[n].cells
           over == OverDefault(s, stg)
<1>13. /\ Len(q) = (IF n <= d THEN d ELSE n) /\ d \in Nat /\ DOMAIN q = 1 .. Len(q)
       /\ q = [k \in 1 .. Len(q) |-> q[k]] /\ DOMAIN s.default = 1 .. d
       /\ \A k \in 1 .. n : q[k] = stg.cells[k].v
       /\ \A k \in n + 1 .. d : q[k] = s.default[k]
  BY <1>12 DEF P
<1> HIDE DEF q, d, s
<1>14. 1 .. Len(q) = DOMAIN s.default \cup DOMAIN stg.cells
  BY <1>1, <1>13
<1>15. over = [k \in 1 .. Len(q) |-> IF k \in 1 .. n THEN stg.cells[k].v ELSE s.default[k]]
  BY <1>1, <1>14, Zenon DEF OverDefault
<1>16. \A k \in 1 .. Len(q) : k \notin 1 .. n => k \in n + 1 .. d
  BY <1>1, <1>13
<1>17. q = over
  <2> HIDE DEF over
  <2> QED BY <1>13, <1>15, <1>16
<1> QED BY <1>3, <1>17 DEF q, s

(* Each turn of the load starts with a small buffer, and with an entry of  *)
(* the right shapes none is after an array.                                *)
LEMMA TurnsSmall ==
  ASSUME OneWidth, NEW m \in Modules, NEW data, Entry(data), Small(zero), zero \in Number,
         NEW t, Turned(t, m, data)
  PROVE  \A i \in 0 .. Len(Settings[m]) : Small(t[i].zero)
<1> DEFINE N == Len(Settings[m])
           S == {i \in 0 .. N : Small(t[i].zero)}
<1>1. N \in Nat /\ DOMAIN Settings[m] = 1 .. N /\ \A i \in 1 .. N : Proper(Settings[m][i])
  BY AllProper
<1>2. 0 \in S
  BY <1>1 DEF Turned, Begun
<1>3. ASSUME NEW i \in 0 .. N - 1, i \in S
      PROVE  i + 1 \in S
  <2>1. /\ i + 1 \in 1 .. N /\ (i + 1) - 1 = i /\ i \in 0 .. N /\ i + 1 \in 0 .. N
        /\ i + 1 \in DOMAIN Settings[m] /\ Small(t[i].zero)
    BY <1>1, <1>3
  <2> DEFINE s == Settings[m][i + 1]
             a == t[i]
             b == t[i + 1]
  <2>2. a \in Progress /\ b = LoadSetting(data, a, s) /\ Proper(s)
    BY <1>1, <2>1 DEF Turned
  <2>3. /\ Skipped(data, a, s) => b.zero = a.zero
        /\ ~Skipped(data, a, s) => b.zero = CopyValues(s, data[s.name], a.zero).zero
    <3> HIDE DEF s, a, b
    <3> QED BY <2>2, LoadSettingCases
  <2>4. CASE Skipped(data, a, s)
    BY <2>1, <2>3, <2>4
  <2>5. CASE ~Skipped(data, a, s)
    <3>1. data[s.name] \in Json /\ a.zero \in Number
      BY <2>2, <2>5, ProgressFields DEF Skipped, Entry
    <3>2. PICK c : /\ Copied(c, s, data[s.name], a.zero)
                   /\ CopyValues(s, data[s.name], a.zero) = c[Len(data[s.name].cells)]
      BY <2>2, <3>1, CopyLoop
    <3>3. Len(data[s.name].cells) \in 0 .. Len(data[s.name].cells)
      BY <3>1 DEF Json
    <3>4. \A k \in 0 .. Len(data[s.name].cells) : Small(c[k].zero)
      BY <2>1, <3>1, <3>2, CopySmall
    <3>5. Small(CopyValues(s, data[s.name], a.zero).zero)
      BY <3>2, <3>3, <3>4, Zenon
    <3>6. Small(b.zero)
      BY <2>3, <2>5, <3>5, Zenon
    <3> QED BY <2>1, <3>6
  <2> QED BY <2>4, <2>5
<1>4. \A i \in 0 .. N : i \in S
  <2> HIDE DEF S, N
  <2> QED BY <1>1, <1>2, <1>3, UpTo, Zenon
<1> QED BY <1>4

LEMMA TurnsInNames ==
  ASSUME NEW m \in Modules, NEW data, Entry(data), ShapedEntry(m, data),
         NEW t, Turned(t, m, data)
  PROVE  \A i \in Reached(m) : t[i - 1].array = FALSE
<1> DEFINE N == Len(Settings[m])
           S == {i \in 0 .. N : i + 1 \in Reached(m) => t[i].array = FALSE}
<1>1. N \in Nat /\ DOMAIN Settings[m] = 1 .. N /\ \A i \in 1 .. N : Proper(Settings[m][i])
  BY AllProper
<1>2. 0 \in S
  BY <1>1 DEF Turned, Begun
<1>3. ASSUME NEW i \in 0 .. N - 1, i \in S
      PROVE  i + 1 \in S
  <2>1. /\ i + 1 \in 1 .. N /\ (i + 1) - 1 = i /\ i \in 0 .. N /\ i + 1 \in 0 .. N
        /\ i + 1 \in DOMAIN Settings[m] /\ (i + 1 \in Reached(m) => t[i].array = FALSE)
    BY <1>1, <1>3
  <2> SUFFICES ASSUME (i + 1) + 1 \in Reached(m)
               PROVE  t[i + 1].array = FALSE
    BY <2>1
  <2> DEFINE s == Settings[m][i + 1]
             a == t[i]
             b == t[i + 1]
  <2>2. a \in Progress /\ b = LoadSetting(data, a, s) /\ Proper(s)
    BY <1>1, <2>1 DEF Turned
  <2>3. /\ Skipped(data, a, s) => b.array = a.array
        /\ ~Skipped(data, a, s) => b.array = data[s.name].array
    <3> HIDE DEF s, a, b
    <3> QED BY <2>2, LoadSettingCases
  <2>4. s.max = 1 /\ i + 1 \in Reached(m)
    <3>1. \A h \in 1 .. ((i + 1) + 1) - 1 : Settings[m][h].max = 1
      BY Zenon DEF Reached
    <3>2. i + 1 \in 1 .. ((i + 1) + 1) - 1 /\ \A h \in 1 .. (i + 1) - 1 : h \in 1 .. ((i + 1) + 1) - 1
      BY <2>1
    <3> QED BY <2>1, <3>1, <3>2, Zenon DEF Reached
  <2>5. ~Skipped(data, a, s) => data[s.name].array = (s.max # 1)
    BY <2>1, Zenon DEF Skipped, ShapedEntry
  <2> HIDE DEF s, a
  <2>6. b.array = FALSE
    <3>1. a.array = FALSE
      BY <2>1, <2>4 DEF a
    <3>2. CASE Skipped(data, a, s)
      BY <2>3, <3>1, <3>2
    <3>3. CASE ~Skipped(data, a, s)
      <4>1. data[s.name].array = FALSE
        BY <2>4, <2>5, <3>3
      <4> QED BY <2>3, <3>3, <4>1
    <3> QED BY <3>2, <3>3
  <2> QED BY <2>6
<1>4. \A i \in 0 .. N : i \in S
  <2> HIDE DEF S, N
  <2> QED BY <1>1, <1>2, <1>3, UpTo, Zenon
<1>5. \A i \in 1 .. N : i - 1 \in 0 .. N /\ (i - 1) + 1 = i
  BY <1>1
<1> QED BY <1>1, <1>4, <1>5, ReachedIn

(* A load takes what the entry says of each setting, where it fits.        *)
LEMMA LoadsFitting ==
  ASSUME OneWidth, NEW m \in Modules, NEW data, Entry(data), ShapedEntry(m, data),
         Small(zero), zero \in Number, NEW a, a = LoadFromJson(m, data)
  PROVE  /\ Small(a.zero)
         /\ \A i \in Reached(m) :
              Settings[m][i].name \in DOMAIN data /\ Fits(Settings[m][i], data[Settings[m][i].name]) =>
                a.values[i] = OverDefault(Settings[m][i], data[Settings[m][i].name])
<1>1. PICK t : /\ Turned(t, m, data) /\ a = t[Len(Settings[m])]
               /\ \A i \in DOMAIN Settings[m] : a.values[i] = LoadedValue(t, m, data, i)
  BY LoadedIs
<1>2. /\ Len(Settings[m]) \in 0 .. Len(Settings[m])
      /\ \A i \in DOMAIN Settings[m] : i - 1 \in 0 .. Len(Settings[m])
  BY AllProper
<1>3. \A i \in 0 .. Len(Settings[m]) : Small(t[i].zero)
  BY <1>1, TurnsSmall
<1>4. \A i \in Reached(m) : t[i - 1].array = FALSE
  BY <1>1, TurnsInNames
<1>5. Small(a.zero)
  BY <1>1, <1>2, <1>3, Zenon
<1>6. ASSUME NEW i \in Reached(m), Settings[m][i].name \in DOMAIN data,
             Fits(Settings[m][i], data[Settings[m][i].name])
      PROVE  a.values[i] = OverDefault(Settings[m][i], data[Settings[m][i].name])
  <2> DEFINE stg == data[Settings[m][i].name]
             z == t[i - 1].zero
  <2>0. i \in DOMAIN Settings[m]
    BY ReachedIn
  <2>1. ~Skipped(data, t[i - 1], Settings[m][i])
    BY <1>4, <1>6, Zenon DEF Skipped
  <2>2. a.values[i] = CopyValues(Settings[m][i], stg, z).cells
    BY <1>1, <2>0, <2>1, Zenon DEF LoadedValue
  <2>3. stg \in Json
    BY <1>6 DEF Entry
  <2>4. z \in Number /\ Small(z)
    BY <2>0, <1>1, <1>2, <1>3, ProgressFields DEF Turned
  <2> HIDE DEF stg, z
  <2>5. CopyValues(Settings[m][i], stg, z).cells = OverDefault(Settings[m][i], stg)
    BY <1>6, <2>0, <2>3, <2>4, CopyFitting DEF stg
  <2> QED BY <2>2, <2>5 DEF stg
<1> QED BY <1>5, <1>6

(* The entry of a new module has the shapes of its settings.               *)
LEMMA SavedShaped ==
  ASSUME TypeOK, NEW m \in Modules, NEW behind \in [DOMAIN Settings[m] -> Behind],
         NEW e, e = SaveToJson(m, behind)
  PROVE  ShapedEntry(m, e)
<1>1. /\ DOMAIN e = {Settings[m][i].name : i \in Reached(m)}
      /\ \A i \in Reached(m) : e[Settings[m][i].name] = JsonOf(Settings[m][i], values[m][i], behind[i])
  BY SavedIs
<1>2. ASSUME NEW i \in DOMAIN Settings[m], Settings[m][i].name \in DOMAIN e
      PROVE  e[Settings[m][i].name].array = (Settings[m][i].max # 1)
  <2>1. PICK h \in Reached(m) : Settings[m][h].name = Settings[m][i].name
    BY <1>1, <1>2, Zenon
  <2>2. h \in DOMAIN Settings[m]
    BY ReachedIn
  <2>3. h = i
    BY <2>1, <2>2, NamesDiffer
  <2>4. e[Settings[m][i].name] = JsonOf(Settings[m][i], values[m][i], behind[i])
    BY <1>1, <2>1, <2>3, Zenon
  <2>5. Proper(Settings[m][i]) /\ behind[i] \in Nat /\ values[m][i] \in Seq(Number)
    <3>1. Proper(Settings[m][i]) /\ behind[i] \in Nat
      BY AllProper, BehindAssumption
    <3> QED BY <3>1, Zenon DEF TypeOK
  <2> QED BY <2>4, <2>5, JsonOfTyped
<1> QED BY <1>2, Zenon DEF ShapedEntry

(* The user's edits keep the shapes.                                       *)
LEMMA EditedShaped ==
  ASSUME NEW m \in Modules, EditSetting(m) \/ RemoveSetting(m) \/ RemoveEntry(m),
         IsDocument(file), Shaped(file)
  PROVE  Shaped(file')
<1>1. m \in DOMAIN file /\ ShapedEntry(m, file[m])
  BY Zenon DEF EditsFile, EditSetting, RemoveSetting, RemoveEntry, Shaped
<1>2. CASE EditSetting(m)
  <2>1. PICK i \in DOMAIN Settings[m] : \E stg \in Edits(Settings[m][i]) :
               file' = [file EXCEPT ![m] = ObjectSet(file[m], Settings[m][i].name, stg)]
    BY <1>2, Zenon DEF EditSetting
  <2>2. PICK stg \in Edits(Settings[m][i]) :
               file' = [file EXCEPT ![m] = ObjectSet(file[m], Settings[m][i].name, stg)]
    BY <2>1
  <2> DEFINE e == ObjectSet(file[m], Settings[m][i].name, stg)
  <2>3. stg.array = (Settings[m][i].max # 1)
    BY AllProper, EditsTyped
  <2>4. /\ DOMAIN e = {Settings[m][i].name} \cup DOMAIN file[m] /\ e[Settings[m][i].name] = stg
        /\ \A n \in DOMAIN file[m] \ {Settings[m][i].name} : e[n] = file[m][n]
    BY DEF ObjectSet
  <2> HIDE DEF e
  <2>5. ASSUME NEW h \in DOMAIN Settings[m], Settings[m][h].name \in DOMAIN e
        PROVE  e[Settings[m][h].name].array = (Settings[m][h].max # 1)
    <3>1. CASE Settings[m][h].name = Settings[m][i].name
      <4>1. h = i
        BY <3>1, NamesDiffer
      <4> QED BY <2>3, <2>4, <4>1, Zenon
    <3>2. CASE Settings[m][h].name # Settings[m][i].name
      <4>1. Settings[m][h].name \in DOMAIN file[m] \ {Settings[m][i].name}
        BY <2>4, <2>5, <3>2, Zenon
      <4> QED BY <1>1, <2>4, <4>1, Zenon DEF ShapedEntry
    <3> QED BY <3>1, <3>2
  <2>6. ShapedEntry(m, e)
    BY <2>5, Zenon DEF ShapedEntry
  <2>7. file' = [file EXCEPT ![m] = e]
    BY <2>2 DEF e
  <2> QED BY <1>1, <2>6, <2>7, Zenon DEF Shaped
<1>3. CASE RemoveSetting(m)
  <2>1. PICK n \in DOMAIN file[m] :
               file' = [file EXCEPT ![m] = [k \in DOMAIN file[m] \ {n} |-> file[m][k]]]
    BY <1>3, Zenon DEF RemoveSetting
  <2> DEFINE e == [k \in DOMAIN file[m] \ {n} |-> file[m][k]]
  <2>2. ShapedEntry(m, e)
    BY <1>1 DEF ShapedEntry
  <2> HIDE DEF e
  <2>3. file' = [file EXCEPT ![m] = e]
    BY <2>1 DEF e
  <2> QED BY <1>1, <2>2, <2>3, Zenon DEF Shaped
<1>4. CASE RemoveEntry(m)
  <2>1. file' = [k \in DOMAIN file \ {m} |-> file[k]]
    BY <1>4, Zenon DEF RemoveEntry
  <2> QED BY <2>1, Zenon DEF Shaped
<1> QED BY <1>2, <1>3, <1>4

LEMMA SmallZero == Small(0)
<1>1. ASSUME NEW m \in Modules, NEW i \in DOMAIN Settings[m], Settings[m][i].kind \in NarrowIntegers
      PROVE  0 < Base(Settings[m][i].kind)
  <2>1. Settings[m][i].kind \in Kinds
    BY AllProper, SettingFields
  <2>2. Base(Settings[m][i].kind) \in {2, 4}
    BY <1>1, <2>1, BaseIs DEF NarrowIntegers
  <2> QED BY <2>2
<1> QED BY <1>1, Zenon DEF Small

LEMMA StoredInit == Init => StoredInv
<1> SUFFICES ASSUME Init PROVE StoredInv
  OBVIOUS
<1>1. root = Empty /\ pc = "off" /\ file = NoDocument /\ zero = 0
  BY Zenon DEF Init
<1> QED BY <1>1, NoEntry, SmallZero, Zenon DEF StoredInv, Shaped, AllMatch

LEMMA StoredEnds ==
  ASSUME StoredInv, Ends, file' \in {file, root}
  PROVE  StoredInv'
<1>1. root' = Empty /\ pc' = "off" /\ zero' \in {zero, 0}
  BY Zenon DEF Ends
<1> QED BY <1>1, NoEntry, SmallZero, Zenon DEF StoredInv, Shaped, AllMatch

LEMMA StoredStart == ASSUME StoredInv, Start PROVE StoredInv'
<1>1. /\ root' = (IF file = NoDocument THEN Empty ELSE file) /\ UNCHANGED <<file, zero>> /\ next' = 1
  BY Zenon DEF Start
<1>2. 1 .. next' - 1 = {}
  BY <1>1
<1> QED BY <1>1, <1>2, NoEntry, Zenon DEF StoredInv, Shaped, AllMatch

(* Of the modules loaded before, and of the one a step loads.              *)
LEMMA LoadingMatches ==
  ASSUME TypeOK, StoredInv, NEW m \in Modules, Loading(m),
         \A n \in Modules \ {m} : values'[n] = values[n],
         m \in DOMAIN start => \A i \in Reached(m) : Matches(m, i, values'[m][i])
  PROVE  AllMatch'
<1>1. /\ pc = "load" /\ m = order[next] /\ next' = next + 1 /\ order' = order /\ start' = start
  BY Zenon DEF Loading
<1>2. \A j \in 1 .. next' - 1 : (j \in 1 .. next - 1 \/ j = next) /\ order[j] \in Modules
  BY <1>1 DEF TypeOK, Loading
<1>3. ASSUME NEW j \in 1 .. next' - 1, order[j] \in DOMAIN start, NEW i \in Reached(order[j])
      PROVE  Matches(order[j], i, values'[order[j]][i])
  <2>1. CASE order[j] = m
    BY <1>3, <2>1, Zenon
  <2>2. CASE order[j] # m
    <3>1. j \in 1 .. next - 1 /\ values'[order[j]] = values[order[j]] /\ pc # "off"
      BY <1>1, <1>2, <2>2
    <3>2. Matches(order[j], i, values[order[j]][i])
      BY <1>3, <3>1, Zenon DEF StoredInv, AllMatch
    <3> QED BY <3>1, <3>2
  <2> QED BY <2>1, <2>2
<1> QED BY <1>1, <1>3, Zenon DEF AllMatch, Matches

LEMMA StoredLoadKnown ==
  ASSUME OneWidth, TypeOK, Kept, StoredInv, NEW m \in Modules, LoadKnown(m)
  PROVE  StoredInv'
<1> DEFINE a == LoadFromJson(m, root[m])
<1>1. /\ Loading(m) /\ m \in DOMAIN root /\ values' = [values EXCEPT ![m] = a.values]
      /\ zero' = a.zero /\ UNCHANGED <<file, root>>
  BY Zenon DEF LoadKnown, Loading
<1>2. Entry(root[m]) /\ zero \in Number /\ DOMAIN values = Modules
  BY <1>1, TypeParts, DocumentIs, Zenon DEF Documents, Values, Fine
<1>3. ShapedEntry(m, root[m]) /\ Small(zero)
  BY <1>1, Zenon DEF StoredInv, Shaped
<1>4. /\ Small(a.zero)
      /\ \A i \in Reached(m) :
           Settings[m][i].name \in DOMAIN root[m] /\ Fits(Settings[m][i], root[m][Settings[m][i].name]) =>
             a.values[i] = OverDefault(Settings[m][i], root[m][Settings[m][i].name])
  BY <1>2, <1>3, LoadsFitting
<1> HIDE DEF a
<1>5. m \in DOMAIN start => root[m] = start[m]
  BY <1>1, Zenon DEF Kept, Keeps, Loading
<1>6. values'[m] = a.values /\ \A n \in Modules \ {m} : values'[n] = values[n]
  BY <1>1, <1>2
<1>7. m \in DOMAIN start => \A i \in Reached(m) : Matches(m, i, values'[m][i])
  BY <1>4, <1>5, <1>6, Zenon DEF Matches
<1>8. AllMatch'
  BY <1>1, <1>6, <1>7, LoadingMatches
<1> QED BY <1>1, <1>4, <1>8, Zenon DEF StoredInv, Shaped

LEMMA StoredLoadNew ==
  ASSUME TypeOK, Kept, StoredInv, NEW m \in Modules, LoadNew(m)
  PROVE  StoredInv'
<1>1. PICK behind \in [DOMAIN Settings[m] -> Behind] : root' = ObjectSet(root, m, SaveToJson(m, behind))
  BY Zenon DEF LoadNew
<1>2. /\ Loading(m) /\ m \notin DOMAIN root /\ UNCHANGED <<file, values, zero>>
  BY Zenon DEF LoadNew, Loading
<1>3. ShapedEntry(m, SaveToJson(m, behind))
  BY SavedShaped
<1>4. /\ DOMAIN root' = {m} \cup DOMAIN root /\ root'[m] = SaveToJson(m, behind)
      /\ \A n \in DOMAIN root \ {m} : root'[n] = root[n]
  BY <1>1, Zenon DEF ObjectSet
<1>5. m \notin DOMAIN start
  BY <1>2, Zenon DEF Kept, Keeps, Loading
<1>6. AllMatch'
  BY <1>2, <1>5, LoadingMatches, Zenon
<1>7. Shaped(root')
  BY <1>3, <1>4, Zenon DEF StoredInv, Shaped
<1> QED BY <1>2, <1>6, <1>7, Zenon DEF StoredInv, Shaped

LEMMA StoredDump ==
  ASSUME StoredInv, DumpNothing \/ DumpNotOpened \/ DumpWrites \/ DumpCut
  PROVE  StoredInv'
<1>1. PICK d, c : DumpReturns(d, c)
  BY Zenon DEF DumpNothing, DumpNotOpened, DumpWrites, DumpCut
<1>2. file' \in {file, root}
  BY Zenon DEF DumpNothing, DumpNotOpened, DumpWrites, DumpCut
<1>3. CASE closing
  BY <1>1, <1>2, <1>3, StoredEnds, Zenon DEF DumpReturns
<1>4. CASE ~closing
  <2>1. UNCHANGED <<root, values, order, next, start, zero>>
    BY <1>1, <1>4, Zenon DEF DumpReturns
  <2>2. pc # "off"
    BY DEF DumpNothing, DumpNotOpened, DumpWrites, DumpCut
  <2>3. AllMatch'
    BY <2>1, <2>2, Zenon DEF StoredInv, AllMatch, Matches
  <2> QED BY <1>2, <2>1, <2>3, Zenon DEF StoredInv, Shaped
<1> QED BY <1>3, <1>4

LEMMA StoredElsewhere ==
  ASSUME StoredInv, LoadingDone \/ DumpOpens \/ SettingExit
  PROVE  StoredInv'
<1>1. UNCHANGED <<root, values, order, next, start, zero>> /\ file' \in {file, NoDocument}
  BY Zenon DEF LoadingDone, DumpOpens, SettingExit
<1>2. pc # "off"
  BY DEF LoadingDone, DumpOpens, SettingExit
<1>3. AllMatch'
  BY <1>1, <1>2, Zenon DEF StoredInv, AllMatch, Matches
<1> QED BY <1>1, <1>3, Zenon DEF StoredInv, Shaped

LEMMA StoredEdit ==
  ASSUME TypeOK, StoredInv, NEW m \in Modules, EditSetting(m) \/ RemoveSetting(m) \/ RemoveEntry(m)
  PROVE  StoredInv'
<1>1. /\ pc = "off" /\ file # NoDocument /\ UNCHANGED <<pc, root, zero>>
  BY Zenon DEF EditsFile, EditSetting, RemoveSetting, RemoveEntry
<1>2. Shaped(file')
  BY <1>1, TypeParts, EditedShaped, Zenon DEF Documents, StoredInv
<1> QED BY <1>1, <1>2, Zenon DEF StoredInv, Shaped

LEMMA StoredStep ==
  OneWidth /\ TypeOK /\ Kept /\ StoredInv /\ [Next]_vars => StoredInv'
<1> SUFFICES ASSUME OneWidth, TypeOK, Kept, StoredInv, [Next]_vars PROVE StoredInv'
  OBVIOUS
<1>1. CASE Start
  BY <1>1, StoredStart
<1>2. CASE LoadingDone \/ DumpOpens \/ SettingExit
  BY <1>2, StoredElsewhere
<1>3. CASE Crash
  BY <1>3, StoredEnds, Zenon DEF Crash
<1>4. CASE DumpNothing \/ DumpNotOpened \/ DumpWrites \/ DumpCut
  BY <1>4, StoredDump, Zenon
<1>5. CASE \E m \in Modules : LoadKnown(m) \/ LoadNew(m)
  BY <1>5, StoredLoadKnown, StoredLoadNew, Zenon
<1>6. CASE \E m \in Modules : EditSetting(m) \/ RemoveSetting(m) \/ RemoveEntry(m)
  BY <1>6, StoredEdit, Zenon
<1>7. CASE UNCHANGED vars
  <2>1. UNCHANGED <<pc, file, root, values, order, next, start, zero>>
    BY <1>7 DEF vars
  <2>2. pc # "off" => AllMatch'
    BY <2>1, Zenon DEF StoredInv, AllMatch, Matches
  <2> QED BY <2>1, <2>2, Zenon DEF StoredInv, Shaped
<1> QED BY <1>1, <1>2, <1>3, <1>4, <1>5, <1>6, <1>7, Zenon DEF Next

LEMMA StoredAll == ASSUME TypeOK, NewInv, StoredInv PROVE StoredIsLoaded
<1> SUFFICES ASSUME pc = "run", NEW m \in ToSet(order) \cap DOMAIN start
             PROVE  \A i \in Reached(m) : Matches(m, i, values[m][i])
  BY Zenon DEF StoredIsLoaded, Matches
<1>1. PICK j \in 1 .. Len(order) : m = order[j]
  BY DEF ToSet, TypeOK
<1>2. j \in 1 .. next - 1 /\ pc # "off"
  BY DEF TypeOK, NewInv, Added
<1> QED BY <1>1, <1>2, Zenon DEF StoredInv, AllMatch

(* Of each setting that no array comes before, what the file says, where   *)
(* it fits, overrides the default element by element, and the plugin runs  *)
(* with the result (load_from_json, copy_value, iam_setting_set,           *)
(* iam_variable_set_value).  The hypothesis is what the code needs: the    *)
(* static buffer of iam_variable_set_value keeps digits of a wider         *)
(* integer, over which a narrower one is refused.  libIAM's plugins meet   *)
(* it, NSA_RV's uint8 being their one narrow integer.                      *)
THEOREM FittingRun ==
  ASSUME OneWidth
  PROVE  Spec => []StoredIsLoaded
<1>1. TypeOK /\ NewInv /\ StoredInv => StoredIsLoaded
  BY StoredAll
<1>2. TypeOK /\ IInv /\ NewInv /\ StoredInv /\ [Next]_vars => StoredInv'
  BY StoredStep, Zenon DEF IInv
<1> QED BY <1>1, <1>2, Invariance, TypeInit, TypeStep, NewInit, NewStep, StoredInit, PTL DEF Spec
=============================================================================
