------------------------------ MODULE Variable ------------------------------
(***************************************************************************)
(* src/variable.c and the settings built on it (src/setting.c): one        *)
(* integer setting, a scalar or an array over the plugin's own memory or   *)
(* over memory grown with realloc, and the class whose status the calls    *)
(* leave behind.  A setter is the chain the macros of variable.h generate: *)
(* sign and range checks, index check (which may grow the array), store,   *)
(* and `return class.status.last.set`.  A variable and a setter are narrow *)
(* or wide: iam_variable_set_value copies bytes between them.              *)
(***************************************************************************)
EXTENDS Integers

CONSTANTS
  Values,      \* the integers settings are set to
  Half,        \* a narrow integer has 2 * Half values
  Above,       \* what the buffer `zero` may hold above a narrow integer
  Behind,      \* what memory may hold behind a narrow integer
  Cap,         \* bound: elements an array may get
  Junk,        \* what memory holds before it is written
  MemoryFails  \* whether malloc and realloc may return NULL

ASSUME ValueAssumption == Values \subseteq Int
ASSUME WidthAssumption ==
  /\ Half \in Nat \ {0}
  /\ Above \subseteq Int /\ 0 \in Above
  /\ Behind \subseteq Int /\ 0 \in Behind
ASSUME JunkAssumption == Junk \notin Int
ASSUME CapAssumption == Cap \in Nat \ {0}
ASSUME MemoryAssumption == MemoryFails \in BOOLEAN

VARIABLES
  v,        \* iam_variable_t, or Nothing before a registration succeeds
  block,    \* how many elements the memory behind the setting holds
  cells,    \* what they hold
  last, high, init,  \* iam_class_t: the status of the class
  above,    \* the bytes of the static buffer `zero` a narrow value leaves alone
  ret,      \* the call that returned last, its arguments and its result
  failed,   \* history: the methods that failed since high was reset
  erred,    \* history: a call has failed since init was reset
  skipped,  \* history: elements that were added but whose value overflowed
  cut       \* history: elements were given up, by a call or for want of memory

status == <<last, high, init, failed, erred>>
elements == <<v, block, cells, skipped, cut>>
vars == <<elements, status, above, ret>>

(* iam_variable_status, the values these calls produce.                    *)
CORRECT == 0
SET_NULL == 2
NEGATIVE == 3
MAX_ERROR == 4
OUT_OF_RANGE == 5
INDEX_ERROR == 6
Statuses == {CORRECT, SET_NULL, NEGATIVE, MAX_ERROR, OUT_OF_RANGE, INDEX_ERROR}

Widths == {"narrow", "wide"}
Base == 2 * Half

Nothing == [max |-> 0, count |-> 0, is_resize |-> FALSE, is_unsigned |-> FALSE,
            width |-> "wide", spec |-> FALSE, min |-> 0, top |-> 0, registered |-> FALSE]
Clear == [reg |-> CORRECT, get |-> CORRECT, set |-> CORRECT]
Index == 0 .. Cap - 1
Allocated(n) == IF MemoryFails THEN {n, 0} ELSE {n}

Init ==
  /\ v = Nothing /\ block = 0 /\ cells = [i \in Index |-> Junk]
  /\ last = Clear /\ high = Clear /\ init = "success" /\ above = 0
  /\ ret = [op |-> "none", i |-> 0, x |-> 0, w |-> "wide", status |-> CORRECT]
  /\ failed = {} /\ erred = FALSE /\ skipped = {} /\ cut = FALSE

Higher(a, b) == IF a < b THEN b ELSE a

(* Variant: a call without an error says that init was a success.          *)
SetStatusOverwritesInit(method, s) ==
  /\ last' = [last EXCEPT ![method] = s]
  /\ high' = [high EXCEPT ![method] = Higher(@, s)]
  /\ init' = IF s = CORRECT THEN "success" ELSE "ignored"
  /\ failed' = IF s = CORRECT THEN failed ELSE failed \cup {method}
  /\ erred' = (erred \/ s # CORRECT)

(* IAM__SET_STATUS: init becomes IAM_SETTING_HAS_IGNORED whatever s is.    *)
SetStatus(method, s) ==
  /\ last' = [last EXCEPT ![method] = s]
  /\ high' = [high EXCEPT ![method] = Higher(@, s)]
  /\ init' = "ignored"
  /\ failed' = IF s = CORRECT THEN failed ELSE failed \cup {method}
  /\ erred' = (erred \/ s # CORRECT)

Result(op, i, w, x, s) ==
  ret' = [op |-> op, i |-> i, w |-> w, x |-> x, status |-> s]
Returns(op, i, s) == Result(op, i, "wide", 0, s)

(* The values of a type, of those settings are set to.                     *)
Held(w, u) ==
  {x \in Values : /\ u => x >= 0
                  /\ w = "narrow" => IF u THEN x < Base ELSE -Half <= x /\ x < Half}

(* iam_setting_reg_<type> and _arr.  ref tells whether the plugin passes   *)
(* memory; the block iam_variable_reg allocates when it does not is lost,  *)
(* the setting keeps the NULL it was given.                                *)
RegNull ==
  /\ ~v.registered
  /\ SetStatus("reg", SET_NULL)
  /\ Returns("reg", 0, SET_NULL)
  /\ UNCHANGED <<elements, above>>

RegNoMemory ==
  /\ ~v.registered /\ MemoryFails
  /\ last' = [last EXCEPT !.reg = CORRECT] /\ init' = "no_memory"
  /\ Returns("reg", 0, CORRECT)
  /\ UNCHANGED <<elements, above, high, failed, erred>>

Reg(ref, n, w, u) ==
  /\ ~v.registered
  /\ ref => n > 0
  /\ ~ref => n # 1
  /\ LET max == IF ref THEN n ELSE 0
     IN  v' = [Nothing EXCEPT !.max = max, !.count = IF max = 1 THEN 1 ELSE 0,
                              !.is_resize = ~ref, !.is_unsigned = u,
                              !.width = w, !.registered = TRUE]
  /\ block' = IF ref THEN n ELSE 0
  /\ \E x \in Held(w, u) : cells' = IF ref /\ n = 1 THEN [cells EXCEPT ![0] = x] ELSE cells
  /\ last' = [last EXCEPT !.reg = CORRECT]
  /\ Returns("reg", 0, CORRECT)
  /\ UNCHANGED <<above, high, init, failed, erred, skipped, cut>>

(* A plugin that registers an array with defaults in it says how many      *)
(* there are (NSA_RA writes info->count).                                  *)
Preset(n) ==
  /\ v.registered /\ ret.op = "reg" /\ ~v.is_resize /\ n \in 1 .. v.max
  /\ v' = [v EXCEPT !.count = n]
  /\ \E x \in Held(v.width, v.is_unsigned) :
       cells' = [i \in Index |-> IF i < n THEN x ELSE cells[i]]
  /\ Returns("preset", 0, CORRECT)
  /\ UNCHANGED <<block, status, above, skipped, cut>>

(* The checks of IAM_VB before the index is looked at.                     *)
Refusal(x) ==
  IF v.is_unsigned /\ x < 0 THEN NEGATIVE
  ELSE IF v.spec /\ ~(v.min <= x /\ x <= v.top) THEN OUT_OF_RANGE
  ELSE CORRECT

(* Variant: the value is stored first and checked afterwards.              *)
SetRefusedAfter(i, w, x) ==
  /\ v.registered /\ Refusal(x) # CORRECT
  /\ SetStatus("set", Refusal(x))
  /\ Result("set", i, w, x, Refusal(x))
  /\ cells' = IF i < v.count THEN [cells EXCEPT ![i] = x] ELSE cells
  /\ UNCHANGED <<v, block, above, skipped, cut>>

SetRefused(i, w, x) ==
  /\ v.registered /\ Refusal(x) # CORRECT
  /\ SetStatus("set", Refusal(x))
  /\ Result("set", i, w, x, Refusal(x))
  /\ UNCHANGED <<elements, above>>

(* realloc: what fits into the new block is kept.                          *)
Moved(n) == [i \in Index |-> IF i < n THEN cells[i] ELSE Junk]

(* iam_variable_set_i_is_correct: an index equal to max grows the array    *)
(* (the result of realloc is not checked) or is an error; one equal to     *)
(* count adds an element; one beyond it is an error.                       *)
Grows(i) == i = v.max /\ v.is_resize
(* Variant: max follows count instead of staying within the memory.        *)
MaxForNext(i) == IF v.is_resize THEN i + 1 ELSE v.max

MaxFor(i) == IF Grows(i) THEN i + 1 ELSE v.max
(* Variant: an element written again is counted again.                     *)
AppendsAgain(i) == i <= v.count

(* Variant: an element is added wherever the index is within max.          *)
AppendsAnywhere(i) == i >= v.count /\ i < MaxFor(i)

Appends(i) == i = v.count /\ i < MaxFor(i)
(* Variant: only an index equal to max is refused.                         *)
IndexStatusAtMax(i) ==
  IF i = v.max /\ ~v.is_resize THEN INDEX_ERROR ELSE CORRECT

IndexStatus(i) ==
  IF (i = v.max /\ ~v.is_resize) \/ (~Appends(i) /\ i > v.count)
  THEN INDEX_ERROR ELSE CORRECT

(* iam_variable_set_value.  A value of the variable's own width is copied. *)
(* Wide to narrow: `zero` gets the value's low bytes and must then equal   *)
(* the value, whose other bytes it compares with what it held there, or    *)
(* nothing is stored.  Narrow to wide: as many bytes as the variable has   *)
(* are copied, those behind the setter's argument too.                     *)
Overflows(w, x) == w = "wide" /\ v.width = "narrow" /\ x \div Base # above
OfPattern(p) == IF v.is_unsigned \/ p < Half THEN p ELSE p - Base
Copies(w, x) ==
  IF w = v.width THEN {x}
  ELSE IF w = "wide" THEN {OfPattern(x % Base)}
  ELSE {(x % Base) + Base * h : h \in {b \in Behind : v.is_unsigned => b >= 0}}

SetValue(i, w, x) ==
  /\ v.registered /\ Refusal(x) = CORRECT
  /\ v' = [v EXCEPT !.max = MaxFor(i), !.count = IF Appends(i) THEN @ + 1 ELSE @]
  /\ \E n \in IF Grows(i) THEN Allocated(i + 1) ELSE {block}, y \in Copies(w, x) :
       /\ block' = n
       /\ cut' = (cut \/ n < block \/ (Grows(i) /\ n = 0))
       /\ cells' = IF IndexStatus(i) = CORRECT /\ i < n /\ ~Overflows(w, x)
                   THEN [Moved(n) EXCEPT ![i] = y] ELSE Moved(n)
  /\ skipped' = IF Overflows(w, x) THEN skipped \cup {j \in {i} : Appends(i)}
                ELSE IF IndexStatus(i) = CORRECT THEN skipped \ {i} ELSE skipped
  /\ SetStatus("set", IndexStatus(i))
  /\ Result("set", i, w, x, IndexStatus(i))
  /\ UNCHANGED above

(* A call on another setting of the class: it leaves its status, and, of a *)
(* width between narrow and wide, its bytes in the buffer.                 *)
OtherCall ==
  /\ v.registered
  /\ above' \in Above
  /\ \E m \in {"get", "set"}, s \in {CORRECT, INDEX_ERROR} : SetStatus(m, s)
  /\ Returns("other", 0, CORRECT)
  /\ UNCHANGED elements

Get(i) ==
  /\ v.registered
  /\ LET s == IF i >= v.count THEN INDEX_ERROR ELSE CORRECT
     IN  SetStatus("get", s) /\ Returns("get", i, s)
  /\ UNCHANGED <<elements, above>>

(* iam_setting_set_max.                                                    *)
SetMaxRefused(n) ==
  /\ v.registered
  /\ n = 0 \/ (~v.is_resize /\ n > v.max)
  /\ SetStatus("set", MAX_ERROR)
  /\ Returns("set_max", n, MAX_ERROR)
  /\ UNCHANGED <<elements, above>>

(* Variant: the guard on a fixed array is gone.                            *)
SetMaxUnguarded(n) ==
  /\ v.registered
  /\ n # 0
  /\ v' = [v EXCEPT !.max = n]
  /\ \E b \in IF v.is_resize THEN Allocated(n) ELSE {block} :
       /\ block' = b
       /\ cells' = Moved(b)
       /\ cut' = (cut \/ n < v.count \/ (v.is_resize /\ b = 0))
  /\ Returns("set_max", n, CORRECT)
  /\ UNCHANGED <<status, above, skipped>>

SetMax(n) ==
  /\ v.registered
  /\ n # 0 /\ (v.is_resize \/ n <= v.max)
  /\ v' = [v EXCEPT !.max = n]
  /\ \E b \in IF v.is_resize THEN Allocated(n) ELSE {block} :
       /\ block' = b
       /\ cells' = Moved(b)
       /\ cut' = (cut \/ n < v.count \/ (v.is_resize /\ b = 0))
  /\ Returns("set_max", n, CORRECT)
  /\ UNCHANGED <<status, above, skipped>>

(* iam_setting_set_range_<type>: the result is whatever the last setter    *)
(* left in the status.                                                     *)
SetRange(a, b) ==
  /\ v.registered
  /\ v' = [v EXCEPT !.spec = TRUE, !.min = IF b < a THEN b ELSE a,
                    !.top = IF b < a THEN a ELSE b]
  /\ Returns("set_range", 0, last.set)
  /\ UNCHANGED <<block, cells, skipped, cut, above, status>>

ResetLast ==
  /\ last' = Clear
  /\ Returns("reset_last", 0, CORRECT)
  /\ UNCHANGED <<elements, above, high, init, failed, erred>>

ResetHigh ==
  /\ high' = Clear /\ failed' = {}
  /\ Returns("reset_high", 0, CORRECT)
  /\ UNCHANGED <<elements, above, last, init, erred>>

(* iam_variable_reset_status resets high twice and last never.             *)
ResetStatus ==
  /\ high' = Clear /\ failed' = {}
  /\ init' = "success" /\ erred' = FALSE
  /\ Returns("reset_status", 0, CORRECT)
  /\ UNCHANGED <<elements, above, last>>

Next ==
  \/ RegNull \/ RegNoMemory
  \/ \E ref, u \in BOOLEAN, n \in 0 .. Cap, w \in Widths : Reg(ref, n, w, u)
  \/ \E n \in 1 .. Cap : Preset(n)
  \/ \E i \in Index, w \in Widths : \E x \in Held(w, FALSE) :
       SetRefused(i, w, x) \/ SetValue(i, w, x)
  \/ \E i \in Index : Get(i)
  \/ \E n \in 0 .. Cap : SetMaxRefused(n) \/ SetMax(n)
  \/ \E a, b \in Values : SetRange(a, b)
  \/ OtherCall \/ ResetLast \/ ResetHigh \/ ResetStatus

Spec == Init /\ [][Next]_vars
-----------------------------------------------------------------------------
Methods == {"reg", "get", "set"}
MethodStatus == [reg : Statuses, get : Statuses, set : Statuses]

Variables ==
  [max : 0 .. Cap, count : 0 .. Cap, is_resize : BOOLEAN, is_unsigned : BOOLEAN,
   width : Widths, spec : BOOLEAN, min : Values \cup {0}, top : Values \cup {0},
   registered : BOOLEAN]
Ops == {"none", "reg", "preset", "set", "get", "set_max", "set_range",
        "other", "reset_last", "reset_high", "reset_status"}
Results == [op : Ops, i : 0 .. Cap, w : Widths, x : Values \cup {0}, status : Statuses]

(* The variable, its memory and the status of the class have their types.  *)
TypeOK ==
  /\ v \in Variables
  /\ block \in 0 .. Cap /\ cells \in [Index -> Int \cup {Junk}]
  /\ last \in MethodStatus /\ high \in MethodStatus /\ failed \subseteq Methods
  /\ init \in {"success", "ignored", "no_memory"}
  /\ above \in Above /\ skipped \subseteq Index
  /\ erred \in BOOLEAN /\ cut \in BOOLEAN
  /\ ret \in Results

(* As long as no element was given up (set_max below count, a realloc that *)
(* failed), the elements a getter lets its caller see are within max, max  *)
(* is within the memory, and every one of them has been written, except    *)
(* those a setter added and whose value overflowed: growing by setting     *)
(* leaves no other gap.                                                    *)
Filled ==
  ~cut => /\ v.count <= v.max /\ v.max <= block
          /\ \A i \in Index : i < v.count => cells[i] # Junk \/ i \in skipped

(* The setters whose value arrives whatever the buffer's history: those of *)
(* the variable's own width and, while the buffer is clean, wide ones of a *)
(* value the narrow variable has and that is not negative.                 *)
Fits(w, x) ==
  \/ w = v.width
  \/ w = "wide" /\ above = 0 /\ 0 <= x /\ x < (IF v.is_unsigned THEN Base ELSE Half)

(* A setter that returns IAM_VALUE_IS_CORRECT has made the element         *)
(* readable and, where the value arrives, holds it, as long as no element  *)
(* was given up.                                                           *)
SetTells ==
  ret.op = "set" /\ ret.status = CORRECT /\ ~cut =>
    ret.i < v.count /\ (Fits(ret.w, ret.x) => cells[ret.i] = ret.x)

(* include/iam/variable.h:42 has a status for a value that could not be    *)
(* written in full: a setter that reports success has stored its value.    *)
OverflowTold ==
  ret.op = "set" /\ ret.status = CORRECT /\ ~cut => cells[ret.i] = ret.x

(* include/iam/variable.h:30: when a setter returns anything else the      *)
(* values are what they were, and none was added (as long as memory does   *)
(* not fail it, SetValue reallocates even for an index it then refuses).   *)
RefusedKeepsValues ==
  [][ret'.op = "set" /\ ret'.status # CORRECT /\ ~cut'
       => UNCHANGED cells /\ v'.count = v.count]_vars

(* No later success and no reset of another part of the status hides a     *)
(* failure: init does not say success while a call has failed since it was *)
(* reset, nor high IAM_VALUE_IS_CORRECT of a method that failed.  (A value *)
(* that overflows is no failure here: it sets no status.)                  *)
ErrorsKnown ==
  /\ erred => init # "success"
  /\ \A m \in failed : high[m] # CORRECT
=============================================================================
