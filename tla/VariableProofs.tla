--------------------------- MODULE VariableProofs ---------------------------
(***************************************************************************)
(* Proofs about Variable, for every set of values, every width of a narrow *)
(* integer, whatever lies above and behind one, every size of array and    *)
(* whether or not memory fails.  IInv adds to the properties what they     *)
(* rest on: nothing is written beyond the memory, and the memory a plugin  *)
(* passes is never shorter than max.                                       *)
(***************************************************************************)
EXTENDS Variable, TLAPS

Clean == \A i \in Index : i >= block => cells[i] = Junk
Fixed == ~v.is_resize => v.max <= block
Fresh == ~v.registered => block = 0
IInv == TypeOK /\ Filled /\ SetTells /\ ErrorsKnown /\ Clean /\ Fixed /\ Fresh

(* The initial state satisfies the invariant: no variable is registered    *)
(* and no method has been called.                                          *)
LEMMA InitInv == Init => IInv
<1> SUFFICES ASSUME Init PROVE IInv
  OBVIOUS
<1> USE CapAssumption, WidthAssumption DEF Init, Nothing
<1>1. v \in Variables
  BY DEF Variables, Widths
<1>2. Clear \in MethodStatus
  BY DEF Clear, MethodStatus, Statuses
<1>3. ret \in Results
  BY DEF Results, Statuses, Ops, Widths
<1>4. /\ block \in 0 .. Cap /\ cells \in [Index -> Int \cup {Junk}]
      /\ last = Clear /\ high = Clear /\ failed \subseteq Methods
      /\ init \in {"success", "ignored", "no_memory"}
  OBVIOUS
<1>5. erred \in BOOLEAN /\ cut \in BOOLEAN /\ skipped \subseteq Index /\ above \in Above
  OBVIOUS
<1>6. Filled /\ SetTells /\ ErrorsKnown /\ Clean /\ Fixed /\ Fresh
  BY DEF Filled, SetTells, ErrorsKnown, Clean, Fixed, Fresh, Index
<1> HIDE DEF Init
<1> QED
  BY <1>1, <1>2, <1>3, <1>4, <1>5, <1>6 DEF TypeOK, IInv

(* Changing the status of a method (IAM__SET_STATUS) keeps the types and   *)
(* hides no failure.                                                       *)
LEMMA StatusKept ==
  ASSUME last \in MethodStatus, high \in MethodStatus, failed \subseteq Methods,
         erred \in BOOLEAN, init \in {"success", "ignored", "no_memory"},
         ErrorsKnown, NEW m \in Methods, NEW s \in Statuses, SetStatus(m, s)
  PROVE  /\ last' \in MethodStatus /\ high' \in MethodStatus
         /\ failed' \subseteq Methods /\ erred' \in BOOLEAN
         /\ init' \in {"success", "ignored", "no_memory"}
         /\ ErrorsKnown'
  <1>1. \A a, b \in Statuses : Higher(a, b) \in Statuses
    BY DEF Higher
  <1>2. \A a, b \in Statuses : a # CORRECT \/ b # CORRECT => Higher(a, b) # CORRECT
    BY DEF Higher, Statuses, CORRECT, SET_NULL, NEGATIVE, MAX_ERROR,
           OUT_OF_RANGE, INDEX_ERROR
  <1>3. \A n \in Methods : last[n] \in Statuses /\ high[n] \in Statuses
    BY DEF MethodStatus, Methods
  <1>4. last' \in MethodStatus
    BY DEF SetStatus, MethodStatus, Methods
  <1>5. high' = [high EXCEPT ![m] = Higher(high[m], s)]
    BY DEF SetStatus
  <1>6. high' \in MethodStatus
    BY <1>1, <1>3, <1>5 DEF MethodStatus, Methods
  <1>7. \A n \in Methods : high'[n] = IF n = m THEN Higher(high[m], s) ELSE high[n]
    BY <1>5 DEF MethodStatus, Methods
  <1>8. failed' \subseteq Methods /\ erred' \in BOOLEAN /\ init' = "ignored"
    BY DEF SetStatus
  <1>9. \A n \in failed' : high'[n] # CORRECT
    <2>1. CASE s = CORRECT
      BY <2>1, <1>2, <1>3, <1>7 DEF SetStatus, ErrorsKnown
    <2>2. CASE s # CORRECT
      BY <2>2, <1>2, <1>3, <1>7 DEF SetStatus, ErrorsKnown
    <2> QED BY <2>1, <2>2
  <1> QED BY <1>4, <1>6, <1>8, <1>9 DEF ErrorsKnown

(* What the class remembers of its calls is well formed.                   *)
StatusInv ==
  /\ last \in MethodStatus /\ high \in MethodStatus /\ failed \subseteq Methods
  /\ erred \in BOOLEAN /\ init \in {"success", "ignored", "no_memory"}
  /\ ErrorsKnown

(* A call that leaves the variable and its memory alone.                   *)
LEMMA QuietInv ==
  ASSUME IInv, UNCHANGED elements, above' \in Above, StatusInv', ret' \in Results,
         ret'.op # "set" \/ ret'.status # CORRECT
  PROVE  IInv'
<1>0. UNCHANGED <<v, block, cells, skipped, cut>>
  BY DEF elements
<1>1. TypeOK'
  BY <1>0 DEF IInv, TypeOK, StatusInv
<1>2. Filled' /\ SetTells' /\ Clean' /\ Fixed' /\ Fresh'
  BY <1>0 DEF IInv, Filled, SetTells, Clean, Fixed, Fresh
<1> QED
  BY <1>1, <1>2 DEF IInv, StatusInv

(* The results the calls return have the types of ret.                     *)
LEMMA Returned ==
  ASSUME NEW op \in Ops, NEW i \in 0 .. Cap, NEW w \in Widths,
         NEW x \in Values \cup {0}, NEW s \in Statuses, Result(op, i, w, x, s)
  PROVE  ret' \in Results /\ ret'.op = op
  BY DEF Result, Results

(* The same of the calls that are given no value.                          *)
LEMMA ReturnedNone ==
  ASSUME NEW op \in Ops, NEW i \in 0 .. Cap, NEW s \in Statuses, Returns(op, i, s)
  PROVE  ret' \in Results /\ ret'.op = op
<1>1. "wide" \in Widths /\ 0 \in Values \cup {0}
  BY DEF Widths
<1> QED
  BY <1>1, Returned DEF Returns

(* Registrations that fail: no memory passed for a scalar, or none left.   *)
LEMMA RegFailsInv == IInv /\ (RegNull \/ RegNoMemory) => IInv'
<1> SUFFICES ASSUME IInv, RegNull \/ RegNoMemory PROVE IInv'
  OBVIOUS
<1>1. StatusInv /\ above \in Above
  BY DEF IInv, TypeOK, StatusInv
<1>2. 0 \in 0 .. Cap /\ SET_NULL \in Statuses /\ CORRECT \in Statuses
  BY CapAssumption DEF Statuses
<1>3. CASE RegNull
  <2>1. StatusInv'
    BY <1>1, <1>2, <1>3, StatusKept DEF RegNull, StatusInv, Methods
  <2>2. ret' \in Results /\ ret'.op = "reg"
    BY <1>2, <1>3, ReturnedNone DEF RegNull, Ops
  <2> QED
    BY <1>1, <1>3, <2>1, <2>2, QuietInv DEF RegNull, Ops
<1>4. CASE RegNoMemory
  <2>1. StatusInv'
    BY <1>1, <1>2, <1>4 DEF RegNoMemory, StatusInv, ErrorsKnown, MethodStatus
  <2>2. ret' \in Results /\ ret'.op = "reg"
    BY <1>2, <1>4, ReturnedNone DEF RegNoMemory, Ops
  <2> QED
    BY <1>1, <1>4, <2>1, <2>2, QuietInv DEF RegNoMemory, Ops
<1> QED
  BY <1>3, <1>4

(* iam_variable_reg over the plugin's memory or over none.                 *)
LEMMA RegInv ==
  ASSUME IInv, NEW ref \in BOOLEAN, NEW n \in 0 .. Cap, NEW w \in Widths,
         NEW u \in BOOLEAN, Reg(ref, n, w, u)
  PROVE  IInv'
<1> DEFINE max == IF ref THEN n ELSE 0
<1> DEFINE new == [Nothing EXCEPT !.max = max, !.count = IF max = 1 THEN 1 ELSE 0,
                                  !.is_resize = ~ref, !.is_unsigned = u,
                                  !.width = w, !.registered = TRUE]
<1>1. v' = new /\ block' = max /\ cut' = cut /\ skipped' = skipped /\ above' = above
  BY DEF Reg
<1>2. /\ new.max = max /\ new.count = (IF max = 1 THEN 1 ELSE 0) /\ new.registered
      /\ new.is_resize = ~ref
  BY DEF Nothing
<1>3. new \in Variables
  <2>1. max \in 0 .. Cap /\ (IF max = 1 THEN 1 ELSE 0) \in 0 .. Cap
    BY CapAssumption
  <2> QED
    BY <2>1 DEF Variables, Nothing
<1>4. PICK x \in Int :
        cells' = IF ref /\ n = 1 THEN [cells EXCEPT ![0] = x] ELSE cells
  BY ValueAssumption DEF Reg, Held
<1>5. cells' \in [Index -> Int \cup {Junk}]
  BY <1>4 DEF IInv, TypeOK
<1>6. \A i \in Index : cells'[i] = IF max = 1 /\ i = 0 THEN x ELSE Junk
  <2>1. \A i \in Index : cells[i] = Junk
    BY DEF IInv, Clean, Fresh, Index, Reg
  <2> QED
    BY <1>4, <2>1 DEF IInv, TypeOK, Reg
<1>7. 0 \in 0 .. Cap /\ CORRECT \in Statuses
  BY CapAssumption DEF Statuses
<1>8. ret' \in Results /\ ret'.op = "reg"
  BY <1>7, ReturnedNone DEF Reg, Ops
<1>9. StatusInv'
  BY <1>7 DEF IInv, TypeOK, StatusInv, ErrorsKnown, MethodStatus, Reg
<1> HIDE DEF new, max
<1>10. max \in 0 .. Cap
  BY CapAssumption DEF max
<1>11. TypeOK'
  BY <1>1, <1>3, <1>5, <1>8, <1>9, <1>10 DEF IInv, TypeOK, StatusInv
<1>12. Filled' /\ Clean' /\ Fixed' /\ Fresh' /\ SetTells'
  BY <1>1, <1>2, <1>6, <1>8, <1>10, JunkAssumption
  DEF Filled, Clean, Fixed, Fresh, SetTells, Index
<1> QED
  BY <1>9, <1>11, <1>12 DEF IInv, StatusInv

(* A plugin that writes defaults and their count.                          *)
LEMMA PresetInv ==
  ASSUME IInv, NEW n \in 1 .. Cap, Preset(n)
  PROVE  IInv'
<1>1. PICK x \in Int : cells' = [i \in Index |-> IF i < n THEN x ELSE cells[i]]
  BY ValueAssumption DEF Preset, Held
<1>2. /\ v' = [v EXCEPT !.count = n] /\ block' = block /\ cut' = cut
      /\ skipped' = skipped /\ above' = above
      /\ n <= v.max /\ ~v.is_resize /\ v.registered
  BY DEF Preset
<1>3. v' \in Variables
  BY <1>2 DEF IInv, TypeOK, Variables
<1>4. ret' \in Results /\ ret'.op = "preset"
  <2>1. 0 \in 0 .. Cap /\ CORRECT \in Statuses
    BY CapAssumption DEF Statuses
  <2> QED
    BY <2>1, ReturnedNone DEF Preset, Ops
<1>5. StatusInv'
  BY DEF IInv, TypeOK, StatusInv, ErrorsKnown, Preset, status
<1>6. TypeOK'
  BY <1>1, <1>2, <1>3, <1>4, <1>5 DEF IInv, TypeOK, StatusInv
<1>7. Filled' /\ Clean' /\ Fixed' /\ Fresh' /\ SetTells'
  <2>1. v'.count = n /\ v'.max = v.max /\ v'.registered /\ ~v'.is_resize
    BY <1>2 DEF IInv, TypeOK, Variables
  <2>2. v.max <= block /\ v.max \in Nat /\ block \in Nat
    BY <1>2 DEF IInv, TypeOK, Variables, Fixed
  <2>3. \A i \in Index : i < n => cells'[i] # Junk
    BY <1>1, JunkAssumption
  <2>4. \A i \in Index : i >= block => cells'[i] = Junk
    BY <1>1, <1>2, <2>2 DEF IInv, Clean, Index
  <2> QED
    BY <1>2, <1>4, <2>1, <2>2, <2>3, <2>4 DEF Filled, Clean, Fixed, Fresh, SetTells
<1> QED
  BY <1>5, <1>6, <1>7 DEF IInv, StatusInv

(* A call that writes nothing but the status, without an error of a setter.*)
LEMMA RefusedInv ==
  ASSUME IInv, NEW m \in Methods, NEW s \in Statuses, SetStatus(m, s),
         UNCHANGED elements, above' \in Above, ret' \in Results,
         ret'.op # "set" \/ ret'.status # CORRECT
  PROVE  IInv'
<1>1. StatusInv'
  BY StatusKept DEF IInv, TypeOK, StatusInv
<1> QED
  BY <1>1, QuietInv

(* A value refused for its sign or range, before the index is looked at.   *)
LEMMA SetRefusedInv ==
  ASSUME IInv, NEW i \in Index, NEW w \in Widths, NEW x \in Values, SetRefused(i, w, x)
  PROVE  IInv'
<1>1. Refusal(x) \in Statuses /\ Refusal(x) # CORRECT
  BY DEF SetRefused, Refusal, Statuses
<1>2. i \in 0 .. Cap /\ "set" \in Methods /\ "set" \in Ops /\ x \in Values \cup {0}
  BY CapAssumption DEF Index, Methods, Ops
<1>3. ret' \in Results
  BY <1>1, <1>2, Returned DEF SetRefused
<1>4. ret'.status # CORRECT /\ above' \in Above
  BY <1>1 DEF SetRefused, Result, IInv, TypeOK
<1> QED
  BY <1>1, <1>2, <1>3, <1>4, RefusedInv DEF SetRefused

(* A getter writes nothing but the status.                                 *)
LEMMA GetInv ==
  ASSUME IInv, NEW i \in Index, Get(i)
  PROVE  IInv'
<1> DEFINE s == IF i >= v.count THEN INDEX_ERROR ELSE CORRECT
<1>1. s \in Statuses /\ SetStatus("get", s) /\ Returns("get", i, s)
  BY DEF Get, Statuses
<1>2. i \in 0 .. Cap /\ "get" \in Methods /\ "get" \in Ops
  BY CapAssumption DEF Index, Methods, Ops
<1> HIDE DEF s
<1>3. ret' \in Results /\ ret'.op = "get"
  BY <1>1, <1>2, ReturnedNone
<1>4. UNCHANGED elements /\ above' \in Above
  BY DEF Get, IInv, TypeOK
<1> QED
  BY <1>1, <1>2, <1>3, <1>4, RefusedInv

(* set_max refused: zero, or more than the plugin's memory holds.          *)
LEMMA SetMaxRefusedInv ==
  ASSUME IInv, NEW n \in 0 .. Cap, SetMaxRefused(n)
  PROVE  IInv'
<1>1. MAX_ERROR \in Statuses /\ "set" \in Methods /\ "set_max" \in Ops
  BY DEF Statuses, Methods, Ops
<1>2. ret' \in Results /\ ret'.op = "set_max"
  BY <1>1, ReturnedNone DEF SetMaxRefused
<1>3. UNCHANGED elements /\ above' \in Above /\ SetStatus("set", MAX_ERROR)
  BY DEF SetMaxRefused, IInv, TypeOK
<1> QED
  BY <1>1, <1>2, <1>3, RefusedInv

(* A call on another setting of the class writes its status and the buffer.*)
LEMMA OtherCallInv == IInv /\ OtherCall => IInv'
<1> SUFFICES ASSUME IInv, OtherCall PROVE IInv'
  OBVIOUS
<1>1. PICK m \in {"get", "set"}, s \in {CORRECT, INDEX_ERROR} : SetStatus(m, s)
  BY DEF OtherCall
<1>2. m \in Methods /\ s \in Statuses /\ CORRECT \in Statuses /\ 0 \in 0 .. Cap
  BY CapAssumption DEF Methods, Statuses
<1>3. ret' \in Results /\ ret'.op = "other"
  BY <1>2, ReturnedNone DEF OtherCall, Ops
<1> QED
  BY <1>1, <1>2, <1>3, RefusedInv DEF OtherCall

(* set_range changes nothing the other calls rely on.                      *)
LEMMA SetRangeInv ==
  ASSUME IInv, NEW a \in Values, NEW b \in Values, SetRange(a, b)
  PROVE  IInv'
<1>1. v' = [v EXCEPT !.spec = TRUE, !.min = IF b < a THEN b ELSE a,
                     !.top = IF b < a THEN a ELSE b]
  BY DEF SetRange
<1>2. v' \in Variables
  BY <1>1 DEF IInv, TypeOK, Variables
<1>3. /\ v'.max = v.max /\ v'.count = v.count /\ v'.registered = v.registered
      /\ v'.is_resize = v.is_resize
  BY <1>1 DEF IInv, TypeOK, Variables
<1>4. ret' \in Results /\ ret'.op = "set_range"
  <2>1. 0 \in 0 .. Cap /\ last.set \in Statuses
    BY CapAssumption DEF IInv, TypeOK, MethodStatus
  <2> QED
    BY <2>1, ReturnedNone DEF SetRange, Ops
<1>5. StatusInv' /\ UNCHANGED <<block, cells, skipped, cut, above>>
  BY DEF IInv, TypeOK, StatusInv, ErrorsKnown, SetRange, status
<1>6. TypeOK'
  BY <1>2, <1>4, <1>5 DEF IInv, TypeOK, StatusInv
<1>7. Filled' /\ Clean' /\ Fixed' /\ Fresh' /\ SetTells'
  BY <1>3, <1>4, <1>5 DEF IInv, Filled, Clean, Fixed, Fresh, SetTells
<1> QED
  BY <1>5, <1>6, <1>7 DEF IInv, StatusInv

(* The resets of the status.                                               *)
LEMMA ResetInv ==
  ASSUME IInv, ResetLast \/ ResetHigh \/ ResetStatus
  PROVE  IInv'
<1>1. Clear \in MethodStatus /\ 0 \in 0 .. Cap /\ CORRECT \in Statuses
  BY CapAssumption DEF Clear, MethodStatus, Statuses
<1>2. ret' \in Results /\ ret'.op # "set"
  BY <1>1, ReturnedNone DEF ResetLast, ResetHigh, ResetStatus, Ops
<1>3. StatusInv' /\ UNCHANGED elements /\ above' \in Above
  <2>1. CASE ResetLast
    BY <1>1, <2>1 DEF IInv, TypeOK, StatusInv, ErrorsKnown, ResetLast
  <2>2. CASE ResetHigh
    BY <1>1, <2>2 DEF IInv, TypeOK, StatusInv, ErrorsKnown, ResetHigh
  <2>3. CASE ResetStatus
    BY <1>1, <2>3 DEF IInv, TypeOK, StatusInv, ErrorsKnown, ResetStatus
  <2> QED
    BY <2>1, <2>2, <2>3
<1> QED
  BY <1>2, <1>3, QuietInv

(* What Moved keeps of the cells.                                          *)
LEMMA MovedCells ==
  ASSUME IInv, NEW n \in 0 .. Cap
  PROVE  /\ Moved(n) \in [Index -> Int \cup {Junk}]
         /\ \A i \in Index : i < n => Moved(n)[i] = cells[i]
         /\ \A i \in Index : i >= n => Moved(n)[i] = Junk
  BY DEF IInv, TypeOK, Moved, Index

(* set_max, of the array's memory or of memory that can grow.              *)
LEMMA SetMaxInv ==
  ASSUME IInv, NEW n \in 0 .. Cap, SetMax(n)
  PROVE  IInv'
<1>1. PICK b \in IF v.is_resize THEN Allocated(n) ELSE {block} :
        /\ block' = b /\ cells' = Moved(b)
        /\ cut' = (cut \/ n < v.count \/ (v.is_resize /\ b = 0))
  BY DEF SetMax
<1>2. b \in 0 .. Cap
  BY CapAssumption DEF Allocated, IInv, TypeOK
<1>3. v' = [v EXCEPT !.max = n] /\ v.registered /\ n # 0
  BY DEF SetMax
<1>4. v' \in Variables /\ v'.max = n /\ v'.count = v.count
  BY <1>3 DEF IInv, TypeOK, Variables
<1>5. v'.registered /\ v'.is_resize = v.is_resize
  BY <1>3 DEF IInv, TypeOK, Variables
<1>6. ret' \in Results /\ ret'.op = "set_max"
  <2>1. CORRECT \in Statuses
    BY DEF Statuses
  <2> QED
    BY <2>1, ReturnedNone DEF SetMax, Ops
<1>7. StatusInv'
  BY DEF IInv, TypeOK, StatusInv, ErrorsKnown, SetMax, status
<1>8. cut' \in BOOLEAN /\ skipped' = skipped /\ skipped \subseteq Index /\ above' \in Above
  BY <1>1 DEF SetMax, IInv, TypeOK
<1>9. TypeOK'
  BY <1>1, <1>2, <1>4, <1>6, <1>7, <1>8, MovedCells DEF TypeOK, StatusInv
<1>10. v.max \in Nat /\ v.count \in Nat /\ block \in Nat /\ n \in Nat /\ b \in Nat
  BY <1>2 DEF IInv, TypeOK, Variables
<1>11. ~v.is_resize => b = block /\ n <= v.max
  BY <1>1 DEF SetMax
<1>12. Fixed' /\ Fresh' /\ Clean' /\ SetTells'
  BY <1>1, <1>2, <1>4, <1>5, <1>6, <1>10, <1>11, MovedCells
  DEF IInv, Fixed, Fresh, Clean, SetTells
<1>13. Filled'
  <2> SUFFICES ASSUME ~cut' PROVE Filled'
    BY DEF Filled
  <2>1. ~cut /\ v.count <= n /\ ~(v.is_resize /\ b = 0)
    <3>1. ~cut /\ ~(n < v.count) /\ ~(v.is_resize /\ b = 0)
      BY <1>1, Zenon
    <3> QED
      BY <1>10, <3>1
  <2>2. n <= b
    BY <1>1, <1>3, <1>10, <1>11, <2>1 DEF Allocated, IInv, Fixed
  <2>3. \A i \in Index : i < v.count => cells'[i] # Junk \/ i \in skipped
    BY <1>1, <1>2, <1>10, <2>1, <2>2, MovedCells DEF IInv, Filled, Index
  <2> QED
    BY <1>1, <1>4, <1>8, <2>1, <2>2, <2>3 DEF Filled
<1> QED
  BY <1>7, <1>9, <1>12, <1>13 DEF IInv, StatusInv

(* What a setter's value becomes is an integer, and the value itself where *)
(* it arrives.                                                             *)
LEMMA Copied ==
  ASSUME NEW w \in Widths, NEW x \in Int, NEW y \in Copies(w, x)
  PROVE  y \in Int /\ (Fits(w, x) => y = x /\ ~Overflows(w, x))
<1>1. Half \in Nat /\ Half > 0 /\ Behind \subseteq Int
  BY WidthAssumption
<1>2. Base \in Nat /\ Base > 0 /\ Half < Base
  BY <1>1 DEF Base
<1>3. x % Base \in Int
  BY <1>2
<1>4. 0 <= x /\ x < Base => x % Base = x /\ x \div Base = 0
  <2> SUFFICES ASSUME 0 <= x, x < Base PROVE x % Base = x /\ x \div Base = 0
    OBVIOUS
  <2> QED
    BY <1>2
<1>5. CASE w = v.width
  BY <1>5 DEF Copies, Overflows
<1>6. CASE w # v.width /\ w = "wide"
  <2>1. y = OfPattern(x % Base)
    BY <1>6 DEF Copies
  <2>2. y \in Int
    BY <1>2, <1>3, <2>1 DEF OfPattern
  <2>3. ASSUME Fits(w, x) PROVE y = x /\ ~Overflows(w, x)
    <3>1. above = 0 /\ 0 <= x /\ x < Base /\ (v.is_unsigned \/ x < Half)
      BY <1>1, <1>2, <1>6, <2>3 DEF Fits
    <3> QED
      BY <1>4, <2>1, <3>1 DEF OfPattern, Overflows
  <2> QED
    BY <2>2, <2>3
<1>7. CASE w # v.width /\ w # "wide"
  <2>1. PICK h \in Behind : y = (x % Base) + Base * h
    BY <1>7 DEF Copies
  <2>2. Base * h \in Int
    BY <1>1, <1>2
  <2> QED
    BY <1>3, <1>7, <2>1, <2>2 DEF Fits
<1> QED
  BY <1>5, <1>6, <1>7

(* The setter: stored at an index below count, appended at count, refused  *)
(* beyond it, over memory that stays, grows or is lost.                    *)
LEMMA SetValueInv ==
  ASSUME IInv, NEW i \in Index, NEW w \in Widths, NEW x \in Values, SetValue(i, w, x)
  PROVE  IInv'
<1> DEFINE stored(n) == IndexStatus(i) = CORRECT /\ i < n /\ ~Overflows(w, x)
<1>1. PICK n \in IF Grows(i) THEN Allocated(i + 1) ELSE {block}, y \in Copies(w, x) :
        /\ block' = n
        /\ cut' = (cut \/ n < block \/ (Grows(i) /\ n = 0))
        /\ cells' = IF stored(n) THEN [Moved(n) EXCEPT ![i] = y] ELSE Moved(n)
  BY DEF SetValue
<1>2. /\ i \in Nat /\ v.max \in Nat /\ v.count \in Nat /\ block \in Nat
      /\ Cap \in Nat /\ i < Cap /\ v.max <= Cap /\ v.count <= Cap
      /\ v.is_resize \in BOOLEAN
  BY CapAssumption DEF IInv, TypeOK, Variables, Index
<1>3. n \in 0 .. Cap /\ i \in 0 .. Cap
  BY <1>2 DEF Allocated, IInv, TypeOK
<1>4. IndexStatus(i) \in Statuses
  BY DEF IndexStatus, Statuses
<1>5. MaxFor(i) \in 0 .. Cap /\ (IF Appends(i) THEN v.count + 1 ELSE v.count) \in 0 .. Cap
  BY <1>2 DEF MaxFor, Appends
<1>6. v' = [v EXCEPT !.max = MaxFor(i), !.count = IF Appends(i) THEN @ + 1 ELSE @]
  BY DEF SetValue
<1>7. v' \in Variables
  BY <1>5, <1>6 DEF IInv, TypeOK, Variables
<1>8. /\ v'.max = MaxFor(i)
      /\ v'.count = IF Appends(i) THEN v.count + 1 ELSE v.count
      /\ v'.registered = v.registered /\ v'.is_resize = v.is_resize
      /\ v'.width = v.width /\ v'.is_unsigned = v.is_unsigned
  BY <1>6 DEF IInv, TypeOK, Variables
<1>9. /\ ret' \in Results /\ ret'.op = "set" /\ ret'.i = i /\ ret'.x = x /\ ret'.w = w
      /\ ret'.status = IndexStatus(i) /\ v.registered
  BY <1>3, <1>4, Returned DEF SetValue, Ops, Result
<1>10. StatusInv'
  BY <1>4, StatusKept DEF IInv, TypeOK, StatusInv, SetValue, Methods
<1>11. /\ cut' \in BOOLEAN /\ above' = above /\ above' \in Above
       /\ skipped' = IF Overflows(w, x) THEN skipped \cup {j \in {i} : Appends(i)}
                     ELSE IF IndexStatus(i) = CORRECT THEN skipped \ {i} ELSE skipped
  BY <1>1 DEF SetValue, IInv, TypeOK
<1>12. skipped' \subseteq Index
  BY <1>11 DEF IInv, TypeOK
<1>13. x \in Int /\ y \in Int /\ (Fits(w, x) => y = x /\ ~Overflows(w, x))
  BY ValueAssumption, Copied
<1> HIDE DEF stored
<1>14. /\ cells' \in [Index -> Int \cup {Junk}]
       /\ \A j \in Index : j # i => cells'[j] = Moved(n)[j]
       /\ cells'[i] = IF stored(n) THEN y ELSE Moved(n)[i]
  BY <1>1, <1>2, <1>3, <1>13, MovedCells
<1>15. TypeOK'
  BY <1>1, <1>3, <1>7, <1>9, <1>10, <1>11, <1>12, <1>14 DEF TypeOK, StatusInv
<1>16. Clean'
  BY <1>1, <1>2, <1>3, <1>14, MovedCells DEF Clean, Index, stored
<1>17. Fixed' /\ Fresh'
  BY <1>1, <1>8, <1>9 DEF IInv, Fixed, Fresh, Grows, MaxFor
<1>18. ~cut' => /\ ~cut /\ block <= n /\ (Grows(i) => n = i + 1)
  <2>1. ~cut' => ~cut /\ ~(n < block) /\ ~(Grows(i) /\ n = 0)
    BY <1>1, Zenon
  <2> QED
    BY <1>1, <1>2, <1>3, <2>1 DEF Allocated
<1>19. ASSUME ~cut' PROVE Filled' /\ SetTells'
  <2>1. v.count <= v.max /\ v.max <= block /\ block <= n
    BY <1>18, <1>19 DEF IInv, Filled
  <2>2. MaxFor(i) <= n /\ v.max <= MaxFor(i)
    BY <1>2, <1>3, <1>18, <1>19, <2>1 DEF MaxFor, Grows
  <2>3. Appends(i) => IndexStatus(i) = CORRECT /\ i < n
    BY <1>2, <1>3, <2>2 DEF Appends, IndexStatus, MaxFor, Grows
  <2>4. v'.count <= v'.max /\ v'.max <= block'
    BY <1>1, <1>2, <1>5, <1>8, <2>1, <2>2 DEF Appends
  <2>5. IndexStatus(i) = CORRECT => i < v'.count
    BY <1>2, <1>8, <2>1, <2>2 DEF IndexStatus, Appends, MaxFor, Grows, CORRECT, INDEX_ERROR
  <2>6. IndexStatus(i) = CORRECT => i < n
    BY <1>1, <1>2, <1>3, <1>7, <2>4, <2>5 DEF Variables
  <2>7. IndexStatus(i) = CORRECT /\ Fits(w, x) => cells'[i] = x
    BY <1>13, <1>14, <2>6 DEF stored
  <2>8. \A j \in Index : j < v.count => Moved(n)[j] # Junk \/ j \in skipped
    BY <1>2, <1>3, <1>18, <1>19, <2>1, MovedCells DEF IInv, Filled, Index
  <2>9. \A j \in Index : j # i /\ j < v.count => cells'[j] # Junk \/ j \in skipped'
    BY <1>11, <1>14, <2>8
  <2>10. i < v'.count => cells'[i] # Junk \/ i \in skipped'
    <3> SUFFICES ASSUME i < v'.count PROVE cells'[i] # Junk \/ i \in skipped'
      OBVIOUS
    <3>1. CASE stored(n)
      BY <1>13, <1>14, <3>1, JunkAssumption
    <3>2. CASE ~stored(n) /\ IndexStatus(i) = CORRECT
      <4>1. Overflows(w, x)
        BY <2>6, <3>2 DEF stored
      <4>2. i < v.count \/ Appends(i)
        BY <1>8
      <4> QED
        BY <1>11, <1>14, <2>8, <3>2, <4>1, <4>2
    <3>3. CASE ~stored(n) /\ IndexStatus(i) # CORRECT
      <4>1. i < v.count
        BY <1>8, <2>3, <3>3
      <4> QED
        BY <1>11, <1>14, <2>8, <3>3, <4>1
    <3> QED
      BY <3>1, <3>2, <3>3
  <2>11. \A j \in Index : j < v'.count => cells'[j] # Junk \/ j \in skipped'
    BY <1>2, <1>8, <2>9, <2>10 DEF Appends, Index
  <2>12. Fits(w, x)' <=> Fits(w, x)
    BY <1>8, <1>11 DEF Fits
  <2> QED
    BY <1>9, <2>4, <2>5, <2>7, <2>11, <2>12 DEF Filled, SetTells, Fits
<1>20. cut' => Filled' /\ SetTells'
  BY DEF Filled, SetTells
<1> QED
  BY <1>10, <1>15, <1>16, <1>17, <1>19, <1>20 DEF IInv, StatusInv

(* Every call of the interface, and a stutter, keep the invariant.         *)
LEMMA StepInv == IInv /\ [Next]_vars => IInv'
<1> SUFFICES ASSUME IInv, [Next]_vars PROVE IInv'
  OBVIOUS
<1>1. CASE RegNull \/ RegNoMemory
  BY <1>1, RegFailsInv
<1>2. CASE \E ref, u \in BOOLEAN, n \in 0 .. Cap, w \in Widths : Reg(ref, n, w, u)
  BY <1>2, RegInv
<1>3. CASE \E n \in 1 .. Cap : Preset(n)
  BY <1>3, PresetInv
<1>4. CASE \E i \in Index, w \in Widths : \E x \in Held(w, FALSE) :
             SetRefused(i, w, x) \/ SetValue(i, w, x)
  BY <1>4, SetRefusedInv, SetValueInv DEF Held
<1>5. CASE \E i \in Index : Get(i)
  BY <1>5, GetInv
<1>6. CASE \E n \in 0 .. Cap : SetMaxRefused(n) \/ SetMax(n)
  BY <1>6, SetMaxRefusedInv, SetMaxInv
<1>7. CASE \E a, b \in Values : SetRange(a, b)
  BY <1>7, SetRangeInv
<1>8. CASE OtherCall
  BY <1>8, OtherCallInv
<1>9. CASE ResetLast \/ ResetHigh \/ ResetStatus
  BY <1>9, ResetInv
<1>10. CASE UNCHANGED vars
  <2>1. UNCHANGED <<v, block, cells, last, high, init, failed, erred, ret, cut,
                  above, skipped>>
    BY <1>10 DEF vars, status, elements
  <2> QED
    BY <2>1 DEF IInv, TypeOK, Filled, SetTells, Fits, ErrorsKnown, Clean, Fixed, Fresh
<1> QED
  BY <1>1, <1>2, <1>3, <1>4, <1>5, <1>6, <1>7, <1>8, <1>9, <1>10 DEF Next

(* A setter that refuses leaves the elements and their number alone.       *)
LEMMA RefusedKeeps ==
  ASSUME IInv, Next, ret'.op = "set", ret'.status # CORRECT, ~cut'
  PROVE  UNCHANGED cells /\ v'.count = v.count
<1>1. PICK i \in Index, w \in Widths, x \in Values :
        SetRefused(i, w, x) \/ SetValue(i, w, x)
  <2>1. ASSUME NEW op, NEW i, NEW s, Returns(op, i, s)
        PROVE  op = "set"
    BY <2>1 DEF Returns, Result
  <2>2. /\ ~RegNull /\ ~RegNoMemory /\ ~OtherCall
        /\ \A ref, u \in BOOLEAN, n \in 0 .. Cap, w \in Widths : ~Reg(ref, n, w, u)
    BY <2>1 DEF RegNull, RegNoMemory, OtherCall, Reg
  <2>3. /\ \A n \in 1 .. Cap : ~Preset(n)
        /\ \A i \in Index : ~Get(i)
    BY <2>1 DEF Preset, Get
  <2>4. /\ \A n \in 0 .. Cap : ~SetMaxRefused(n) /\ ~SetMax(n)
        /\ \A a, b \in Values : ~SetRange(a, b)
    BY <2>1 DEF SetMaxRefused, SetMax, SetRange
  <2>5. ~ResetLast /\ ~ResetHigh /\ ~ResetStatus
    BY <2>1 DEF ResetLast, ResetHigh, ResetStatus
  <2> QED
    BY <2>2, <2>3, <2>4, <2>5 DEF Next, Held
<1>2. CASE SetRefused(i, w, x)
  BY <1>2 DEF SetRefused, elements
<1>3. CASE SetValue(i, w, x)
  <2>1. PICK n \in IF Grows(i) THEN Allocated(i + 1) ELSE {block}, y \in Copies(w, x) :
          /\ cut' = (cut \/ n < block \/ (Grows(i) /\ n = 0))
          /\ cells' = IF IndexStatus(i) = CORRECT /\ i < n /\ ~Overflows(w, x)
                      THEN [Moved(n) EXCEPT ![i] = y] ELSE Moved(n)
    BY <1>3 DEF SetValue
  <2>2. IndexStatus(i) # CORRECT
    BY <1>3 DEF SetValue, Result
  <2>3. ~(n < block)
    BY <2>1, Zenon
  <2>4. n \in 0 .. Cap /\ block \in 0 .. Cap
    BY <2>1, CapAssumption DEF Allocated, IInv, TypeOK, Index
  <2>5. cells' = cells
    <3>1. cells' = Moved(n)
      BY <2>1, <2>2
    <3>2. \A j \in Index : Moved(n)[j] = cells[j]
      BY <2>3, <2>4, MovedCells DEF IInv, Clean, Index
    <3> QED
      BY <2>4, <3>1, <3>2, MovedCells DEF IInv, TypeOK
  <2>6. ~Appends(i)
    <3>1. i \in Nat /\ v.max \in Nat /\ v.is_resize \in BOOLEAN
      BY CapAssumption DEF IInv, TypeOK, Variables, Index
    <3> QED
      BY <2>2, <3>1 DEF IndexStatus, Appends, MaxFor, Grows
  <2> QED
    BY <1>3, <2>5, <2>6 DEF SetValue, IInv, TypeOK, Variables
<1> QED
  BY <1>1, <1>2, <1>3

(* In every reachable state the invariant holds.                           *)
THEOREM Invariance == Spec => []IInv
  BY InitInv, StepInv, PTL DEF Spec

(* A variable, its memory and the status of its class have their types.    *)
THEOREM TypeCorrect == Spec => []TypeOK
<1>1. IInv => TypeOK
  BY DEF IInv
<1> QED
  BY <1>1, Invariance, PTL

(* As long as no element was given up, the elements a getter lets its      *)
(* caller see lie within max and within the memory, and were written, but  *)
(* for those whose value overflowed in the setter that added them.         *)
THEOREM ElementsFilled == Spec => []Filled
<1>1. IInv => Filled
  BY DEF IInv
<1> QED
  BY <1>1, Invariance, PTL

(* A setter that reports success has made the element readable, and stored *)
(* its value if it has the variable's width, or is one the narrow variable *)
(* has while the buffer is clean.                                          *)
THEOREM SetterTells == Spec => []SetTells
<1>1. IInv => SetTells
  BY DEF IInv
<1> QED
  BY <1>1, Invariance, PTL

(* No failed call is hidden by later calls or by a reset of another part   *)
(* of the status.                                                          *)
THEOREM NoErrorHidden == Spec => []ErrorsKnown
<1>1. IInv => ErrorsKnown
  BY DEF IInv
<1> QED
  BY <1>1, Invariance, PTL

(* A refusing setter leaves the elements and their number alone.           *)
THEOREM RefusalHarmless == Spec => RefusedKeepsValues
<1>1. IInv /\ [Next]_vars =>
        [ret'.op = "set" /\ ret'.status # CORRECT /\ ~cut'
           => UNCHANGED cells /\ v'.count = v.count]_vars
  BY RefusedKeeps DEF vars
<1> QED
  BY <1>1, Invariance, PTL DEF Spec, RefusedKeepsValues
=============================================================================
