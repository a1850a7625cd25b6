------------------------------- MODULE NsaRv --------------------------------
(***************************************************************************)
(* src/plugins/real_encoding/NSA_RV/nsa_rv.c: negative selection.  fit     *)
(* draws detectors at random, compares each with the rows of a training    *)
(* table, draws it again while it lies too close to a normal row, moves it *)
(* towards an anomalous row when it is close to none, and gives it up      *)
(* after attempt_max draws in a row.  predict raises an alarm for a row in *)
(* the reach of a valid detector.                                          *)
(*                                                                         *)
(* The vectors are points at integer distances.  One of the eight sets of  *)
(* detectors is followed (det_id selects it before a call); the mode       *)
(* isVdetectors is given with each call, as the Python module sets it.     *)
(***************************************************************************)
EXTENDS Integers, Sequences

CONSTANTS
  Point,            \* vectors: what RAND_DET draws, and the rows
  Radius,           \* what RAND_R draws
  Distance,         \* of two points
  DetRadius,        \* det_r, the radius of all detectors if not isVdetectors
  DetCount,         \* det_n
  AttemptMax,       \* attempt_max (100)
  ActivationLimit,  \* activations in predict that spare a detector a move (3)
  Tables,           \* training tables, sequences of [x, normal]
  FitsCounted,      \* bound: calls of fit are counted up to here
  Far,              \* 1E308, the value of r_min before any row
  NoRow             \* r_minX is NULL

Table == Seq([x : Point, normal : BOOLEAN])

ASSUME GeometryAssumption ==
  /\ Radius \subseteq Nat /\ DetRadius \in Nat /\ Far \in Nat
  /\ Distance \in [Point \X Point -> Nat]
  /\ \A p, q \in Point : Distance[p, q] < Far
ASSUME CountAssumption ==
  /\ DetCount \in Nat \ {0} /\ AttemptMax \in Nat \ {0} /\ ActivationLimit \in Nat
  /\ FitsCounted \in Nat
ASSUME TableAssumption == Tables \subseteq Table
ASSUME NoRowAssumption == NoRow \notin Point

VARIABLES
  pc,           \* "idle", or in fit over the "rows"
  fits,         \* calls of fit so far, counted up to FitsCounted
  table, vmode, \* the arguments of the last fit: inX and inY, isVdetectors
  det, r,       \* detectors_array and r_array
  found,        \* activations_count_f # 0
  alarms,       \* activations_count_p, up to the limit it is compared with
  is_valid,     \* with the byte in front of the array as is_valid[-1]
  bad,          \* the detectors listed in msg
  k, i, row,    \* the detector, the label and the row (inX) in hand
  attempt,
  radius,       \* the radius read when the pass over the rows began
  euclidean,    \* of the last row compared
  r_min, r_minX,
  seen          \* history: the rows each detector was compared with, under
                \* its own radius and the row's own label, since it was
                \* drawn or moved or the pass began

data == <<det, r, found, alarms, is_valid, bad>>
pass == <<k, i, row, attempt, radius, euclidean, r_min, r_minX>>
vars == <<pc, fits, table, vmode, data, pass, seen>>

Det == 0 .. DetCount - 1
Rows == 0 .. Len(table) - 1
X(n) == table[n + 1].x
IsNormal(n) == table[n + 1].normal

(* The radius of detector d in the mode v.                                 *)
RadiusOf(d, v) == IF v THEN r[d] ELSE DetRadius

(* load_setting: the arrays are allocated, the detectors drawn, the        *)
(* counters and flags zero.                                                *)
Init ==
  /\ pc = "idle" /\ fits = 0 /\ table = << >> /\ vmode = FALSE
  /\ det \in [Det -> Point] /\ r \in [Det -> Radius]
  /\ found = [d \in Det |-> FALSE] /\ alarms = [d \in Det |-> 0]
  /\ is_valid = [d \in {-1} \cup Det |-> FALSE] /\ bad = {}
  /\ k = 0 /\ i = 0 /\ row = 0 /\ attempt = 0 /\ radius = 0 /\ euclidean = 0
  /\ r_min = Far /\ r_minX = NoRow
  /\ seen = [d \in Det |-> {}]
-----------------------------------------------------------------------------
(* fit.                                                                    *)

(* The head of the loop over detectors, for detector d of radius rd.       *)
PassBegins(d, rd, done) ==
  /\ k' = d /\ i' = 0 /\ row' = 0 /\ radius' = rd
  /\ r_min' = Far /\ r_minX' = NoRow /\ euclidean' = 0
  /\ seen' = [done EXCEPT ![d] = {}]

Fit(t, v) ==
  /\ pc = "idle" /\ pc' = "rows"
  /\ fits' = (IF fits < FitsCounted THEN fits + 1 ELSE fits) /\ table' = t /\ vmode' = v
  /\ attempt' = 0 /\ PassBegins(0, RadiusOf(0, v), [d \in Det |-> {}])
  /\ UNCHANGED data

Comparing == pc = "rows" /\ i < Len(table) /\ attempt # AttemptMax

(* Variant: the sum of the squares is not started anew for each row.       *)
MeasuredOn == Distance[det[k], X(row)] + euclidean

Measured == Distance[det[k], X(row)]

(* inX may lag behind the label, radius behind r_array.                    *)
Compared ==
  IF row = i /\ radius = RadiusOf(k, vmode) THEN [seen EXCEPT ![k] = @ \cup {i}] ELSE seen

(* A normal row in reach: the detector is drawn again and the row repeated *)
(* (i-- meets the i++ of the loop), against the radius read before.        *)
Redraw(p, q) ==
  /\ Comparing /\ IsNormal(i) /\ Measured <= radius
  /\ det' = [det EXCEPT ![k] = p]
  /\ r' = IF vmode THEN [r EXCEPT ![k] = q] ELSE r
  /\ found' = [found EXCEPT ![k] = FALSE] /\ alarms' = [alarms EXCEPT ![k] = 0]
  /\ attempt' = attempt + 1 /\ euclidean' = Measured /\ seen' = [seen EXCEPT ![k] = {}]
  /\ UNCHANGED <<pc, fits, table, vmode, is_valid, bad, k, i, row, radius, r_min, r_minX>>

(* Variants: the pointer or the attempts are not put back.                 *)
RestartNoRewind ==
  /\ Comparing /\ IsNormal(i) /\ Measured > radius /\ attempt > 0
  /\ i' = 1 /\ row' = row + 1 /\ attempt' = 0 /\ euclidean' = Measured /\ seen' = Compared
  /\ UNCHANGED <<pc, fits, table, vmode, data, k, radius, r_min, r_minX>>

RestartKeepsAttempt ==
  /\ Comparing /\ IsNormal(i) /\ Measured > radius /\ attempt > 0
  /\ i' = 1 /\ row' = 0 /\ euclidean' = Measured /\ seen' = Compared
  /\ UNCHANGED <<pc, fits, table, vmode, data, attempt, k, radius, r_min, r_minX>>

(* The new detector is out of reach of the row: from the beginning.  The   *)
(* i++ of the loop follows i = 0, and inX stands at row 0.                 *)
Restart ==
  /\ Comparing /\ IsNormal(i) /\ Measured > radius /\ attempt > 0
  /\ i' = 1 /\ row' = 0 /\ attempt' = 0 /\ euclidean' = Measured /\ seen' = Compared
  /\ UNCHANGED <<pc, fits, table, vmode, data, k, radius, r_min, r_minX>>

NextRow ==
  /\ Comparing
  /\ i' = i + 1 /\ row' = row + 1 /\ euclidean' = Measured /\ seen' = Compared
  /\ UNCHANGED <<pc, fits, table, vmode, det, r, alarms, is_valid, bad, k, attempt, radius>>

NormalRow ==
  /\ NextRow
  /\ IsNormal(i) /\ Measured > radius /\ attempt = 0
  /\ UNCHANGED <<found, r_min, r_minX>>

AnomalousRow ==
  /\ NextRow
  /\ ~IsNormal(i)
  /\ IF Measured < r_min THEN r_min' = Measured /\ r_minX' = X(row)
     ELSE UNCHANGED <<r_min, r_minX>>
  /\ found' = IF Measured <= radius THEN [found EXCEPT ![k] = TRUE] ELSE found
-----------------------------------------------------------------------------
(* What follows the loop over the rows.                                    *)

RowsDone == pc = "rows" /\ (i = Len(table) \/ attempt = AttemptMax)

(* On to the next detector, or fit returns and its locals are gone.        *)
NextDetector(done) ==
  IF k + 1 < DetCount
  THEN PassBegins(k + 1, RadiusOf(k + 1, vmode), done) /\ UNCHANGED pc
  ELSE /\ pc' = "idle" /\ k' = 0 /\ i' = 0 /\ row' = 0 /\ radius' = 0 /\ euclidean' = 0
       /\ r_min' = Far /\ r_minX' = NoRow
       /\ seen' = done

(* Close to no anomalous row although there is one.                        *)
Idle == ~found[k] /\ alarms[k] < ActivationLimit /\ r_minX # NoRow

(* Variant: a detector far from all anomalous rows is taken as it is.      *)
AcceptIdle ==
  /\ RowsDone /\ attempt # AttemptMax
  /\ is_valid' = [is_valid EXCEPT ![k] = TRUE]
  /\ NextDetector(seen)
  /\ UNCHANGED <<fits, table, vmode, det, r, found, alarms, bad, attempt>>

Accept ==
  /\ RowsDone /\ attempt # AttemptMax /\ ~Idle
  /\ is_valid' = [is_valid EXCEPT ![k] = TRUE]
  /\ NextDetector(seen)
  /\ UNCHANGED <<fits, table, vmode, det, r, found, alarms, bad, attempt>>

GivesUp ==
  /\ is_valid' = [is_valid EXCEPT ![k] = FALSE] /\ bad' = bad \cup {k}
  /\ attempt' = 0
  /\ NextDetector([seen EXCEPT ![k] = {}])
  /\ UNCHANGED <<fits, table, vmode, r, found, alarms>>

(* Variant: attempt is left at its limit for the next detector.            *)
GiveUpKeepsAttempt ==
  /\ RowsDone /\ attempt = AttemptMax
  /\ is_valid' = [is_valid EXCEPT ![k] = FALSE] /\ bad' = bad \cup {k}
  /\ NextDetector(seen)
  /\ UNCHANGED <<fits, table, vmode, det, r, found, alarms, attempt>>

GiveUp == RowsDone /\ attempt = AttemptMax /\ GivesUp /\ UNCHANGED det

(* Where the steps along the coordinates may end.  They are made while     *)
(* r_min is beyond the radius and end with the detector within the radius  *)
(* of r_minX.  But the inner loop is skipped when the last row was closer  *)
(* than r_min: s2 is then read uninitialized, the distance computed from   *)
(* it is any, and so is the place the detector is left at.                 *)
Moved ==
  IF r_min <= radius THEN {det[k]}
  ELSE IF euclidean < r_min THEN Point
  ELSE {p \in Point : Distance[p, r_minX] <= radius}

(* The detector reached r_minX: k-- has it checked again, after is_valid[k]*)
(* has been set for the detector before it.                                *)
Move(p) ==
  /\ RowsDone /\ attempt # AttemptMax /\ Idle /\ p \in Moved
  /\ det' = [det EXCEPT ![k] = p] /\ alarms' = [alarms EXCEPT ![k] = 0]
  /\ is_valid' = [is_valid EXCEPT ![k - 1] = TRUE]
  /\ attempt' = 0 /\ PassBegins(k, RadiusOf(k, vmode), seen)
  /\ UNCHANGED <<pc, fits, table, vmode, r, found, bad>>

(* The attempts to come closer were used up at the point p.                *)
MoveFails(p) ==
  /\ RowsDone /\ attempt # AttemptMax /\ Idle /\ r_min > radius
  /\ det' = [det EXCEPT ![k] = p]
  /\ GivesUp
-----------------------------------------------------------------------------
(* predict, for one row x: the first valid detector in reach counts.       *)
Reaches(d, x, v) == is_valid[d] /\ Distance[det[d], x] < RadiusOf(d, v)

Predict(x, v) ==
  /\ pc = "idle"
  /\ \E d \in Det :
       /\ Reaches(d, x, v) /\ \A e \in 0 .. d - 1 : ~Reaches(e, x, v)
       /\ alarms' = [alarms EXCEPT ![d] = IF @ < ActivationLimit THEN @ + 1 ELSE @]
  /\ UNCHANGED <<pc, fits, table, vmode, det, r, found, is_valid, bad, pass, seen>>

FitStep ==
  \/ Restart \/ NormalRow \/ AnomalousRow \/ Accept \/ GiveUp
  \/ \E p \in Point : Move(p) \/ MoveFails(p) \/ \E q \in Radius : Redraw(p, q)

Next ==
  \/ FitStep
  \/ \E t \in Tables, v \in BOOLEAN : Fit(t, v)
  \/ \E x \in Point, v \in BOOLEAN : Predict(x, v)

(* fit is straight-line code: its next step is taken.                      *)
Spec == Init /\ [][Next]_vars /\ WF_vars(FitStep)
-----------------------------------------------------------------------------
(* The arrays have their types, and the row read is never beyond the label *)
(* read, so that both lie inside the table.                                *)
TypeOK ==
  /\ pc \in {"idle", "rows"} /\ fits \in 0 .. FitsCounted
  /\ table \in Table /\ vmode \in BOOLEAN
  /\ det \in [Det -> Point] /\ r \in [Det -> Radius]
  /\ found \in [Det -> BOOLEAN] /\ alarms \in [Det -> 0 .. ActivationLimit]
  /\ is_valid \in [{-1} \cup Det -> BOOLEAN] /\ bad \subseteq Det
  /\ k \in Det /\ i \in 0 .. Len(table) /\ row \in 0 .. i
  /\ attempt \in 0 .. AttemptMax
  /\ radius \in Nat /\ euclidean \in Nat /\ r_min \in 0 .. Far
  /\ r_minX \in Point \cup {NoRow}
  /\ seen \in [Det -> SUBSET Rows]

(* The draws spent on one detector are not charged to another: attempts in *)
(* use were made at the normal row in hand, for a detector without         *)
(* activations.  So the loop over the rows ends with none or all used.     *)
AttemptSettled ==
  attempt > 0 => pc = "rows" /\ i < Len(table) /\ IsNormal(i) /\ ~found[k] /\ alarms[k] = 0

(* What negative selection promises: a valid detector that was compared    *)
(* with every row of the table, as it is now, raises no alarm for a normal *)
(* one when predict is called in the mode of the training.                 *)
NoFalseAlarm ==
  pc = "idle" =>
    \A d \in Det : seen[d] = Rows =>
      \A n \in Rows : IsNormal(n) => ~Reaches(d, X(n), vmode)

(* And it is of use: after the first training it lies close to an          *)
(* anomalous row if there is one, unless predict had it spared.            *)
ReachesAnomaly ==
  pc = "idle" /\ fits = 1 =>
    \A d \in Det : is_valid[d] /\ seen[d] = Rows /\ (\E n \in Rows : ~IsNormal(n)) =>
      \E n \in Rows : ~IsNormal(n) /\ Distance[det[d], X(n)] <= RadiusOf(d, vmode)

(* fit comes to an end unless detectors are drawn or moved for ever: the   *)
(* rows are started anew for a new detector only.                          *)
PassEnds ==
  \/ []<><<\E p \in Point : Move(p) \/ \E q \in Radius : Redraw(p, q)>>_vars
  \/ pc = "rows" ~> pc = "idle"

(* nsa_rv.c:67 restarts the loop with the comment (in Russian) "a new      *)
(* detector again with all the vectors (from the beginning)": a valid      *)
(* detector that was never given up has been compared with each row.       *)
ValidHasSeenAll ==
  pc = "idle" /\ fits > 0 => \A d \in Det \ bad : is_valid[d] => seen[d] = Rows
=============================================================================
