---------------------------- MODULE NsaRvProofs -----------------------------
(***************************************************************************)
(* Negative selection: what fit's passes leave behind, proved for every    *)
(* space of vectors, table, number of detectors and limit on the draws.    *)
(***************************************************************************)
EXTENDS NsaRv, TLAPS

-----------------------------------------------------------------------------
(* The inductive invariants.                                               *)

(* A detector is out of reach of the normal rows it was compared with.     *)
ClearOfNormal ==
  \A d \in Det : \A n \in seen[d] :
    IsNormal(n) => Distance[det[d], X(n)] > RadiusOf(d, vmode)

(* The pass over the rows: a detector just drawn has seen none; once inX   *)
(* lags behind the label, no row counts but the normal one the detector    *)
(* was taken at; the radius in hand is the detector's unless it has been   *)
(* drawn again; and an anomalous row seen is a target to move to.          *)
PassInv ==
  pc = "rows" =>
    /\ attempt > 0 => seen[k] = {}
    /\ row < i => \E c \in Rows : IsNormal(c) /\ seen[k] \subseteq {c}
    /\ row = i /\ attempt = 0 => radius = RadiusOf(k, vmode)
    /\ r_minX = NoRow => r_min = Far
    /\ \A n \in seen[k] : ~IsNormal(n) => r_minX # NoRow

(* Close to an anomalous row, if it has seen one.                          *)
Useful(d) ==
  seen[d] = Rows /\ (\E n \in Rows : ~IsNormal(n)) =>
    \E n \in Rows : ~IsNormal(n) /\ Distance[det[d], X(n)] <= RadiusOf(d, vmode)

(* The first training: nothing has been counted before it, predict has     *)
(* spared no detector, and those behind the one in hand are useful.        *)
FirstInv ==
  /\ fits = 0 => /\ pc = "idle"
                 /\ \A d \in Det : ~is_valid[d] /\ ~found[d] /\ alarms[d] = 0
  /\ fits = 1 /\ pc = "rows" =>
       /\ \A d \in Det : alarms[d] = 0
       /\ \A d \in k + 1 .. DetCount - 1 : ~found[d]
       /\ row = i /\ found[k] =>
            \E n \in Rows : ~IsNormal(n) /\ Distance[det[k], X(n)] <= radius
       /\ \A d \in 0 .. k - 1 : Useful(d)
  /\ fits = 1 /\ pc = "idle" => \A d \in Det : Useful(d)

-----------------------------------------------------------------------------
(* Distances, rows and radii.                                              *)

LEMMA ElementIn ==
  ASSUME NEW S, NEW q \in Seq(S)
  PROVE  Len(q) \in Nat /\ \A n \in 1 .. Len(q) : q[n] \in S
  OBVIOUS

LEMMA Distances ==
  \A p, q \in Point : Distance[p, q] \in Nat /\ Distance[p, q] < Far
  BY GeometryAssumption

LEMMA RowsTyped ==
  ASSUME table \in Table
  PROVE  /\ Len(table) \in Nat
         /\ \A n \in Rows : X(n) \in Point /\ IsNormal(n) \in BOOLEAN
<1>1. table \in Seq([x : Point, normal : BOOLEAN])
  BY DEF Table
<1>4. Len(table) \in Nat /\ \A n \in 1 .. Len(table) : table[n] \in [x : Point, normal : BOOLEAN]
  BY <1>1, ElementIn, Zenon
<1>2. ASSUME NEW n \in Rows
      PROVE  table[n + 1] \in [x : Point, normal : BOOLEAN]
  <2>1. n + 1 \in 1 .. Len(table)
    BY <1>4 DEF Rows
  <2> QED BY <1>4, <2>1, Zenon
<1>3. \A e \in [x : Point, normal : BOOLEAN] : e.x \in Point /\ e.normal \in BOOLEAN
  BY Zenon
<1> QED BY <1>4, <1>2, <1>3, Zenon DEF X, IsNormal

LEMMA RadiiTyped ==
  ASSUME r \in [Det -> Radius]
  PROVE  \A d \in Det, v \in BOOLEAN : RadiusOf(d, v) \in Nat
  BY GeometryAssumption DEF RadiusOf

LEMMA DetTyped == 0 \in Det /\ DetCount \in Nat /\ \A d \in Det : d \in Nat
  BY CountAssumption DEF Det

(* What the loop over the rows has in hand.                                *)
LEMMA InHandTyped ==
  ASSUME TypeOK
  PROVE  /\ i \in Nat /\ row \in Nat /\ row <= i /\ Len(table) \in Nat
         /\ i < Len(table) => /\ i \in Rows /\ row \in Rows /\ X(i) \in Point /\ X(row) \in Point
                             /\ IsNormal(i) \in BOOLEAN
                             /\ Measured \in Nat /\ Measured < Far
<1>1. /\ i \in Nat /\ row \in Nat /\ row <= i /\ Len(table) \in Nat /\ det[k] \in Point
      /\ i < Len(table) => i \in Rows /\ row \in Rows
  BY RowsTyped DEF TypeOK, Rows
<1>2. i < Len(table) => X(i) \in Point /\ X(row) \in Point /\ IsNormal(i) \in BOOLEAN
  BY <1>1, RowsTyped DEF TypeOK
<1> QED BY <1>1, <1>2, Distances DEF Measured

(* The head of the loop over detectors, and the return.                    *)
LEMMA NextDetectorTyped ==
  ASSUME TypeOK, pc = "rows", UNCHANGED <<table, vmode>>, r' = r,
         NEW done \in [Det -> SUBSET Rows], NextDetector(done)
  PROVE  /\ pc' \in {"idle", "rows"} /\ k' \in Det /\ i' = 0 /\ row' = 0
         /\ radius' \in Nat /\ euclidean' \in Nat /\ r_min' = Far /\ r_minX' = NoRow
         /\ seen' \in [Det -> SUBSET Rows]
<1>1. CASE k + 1 < DetCount
  <2>1. k + 1 \in Det
    BY <1>1, DetTyped DEF TypeOK, Det
  <2>2. PassBegins(k + 1, RadiusOf(k + 1, vmode), done) /\ pc' = pc
    BY <1>1 DEF NextDetector
  <2>3. seen' = [done EXCEPT ![k + 1] = {}]
    BY <2>2 DEF PassBegins
  <2>4. seen' \in [Det -> SUBSET Rows]
    BY <2>3
  <2>5. RadiusOf(k + 1, vmode) \in Nat
    BY <2>1, RadiiTyped DEF TypeOK
  <2> QED BY <2>1, <2>2, <2>4, <2>5 DEF PassBegins
<1>2. CASE ~(k + 1 < DetCount)
  BY <1>2, DetTyped DEF NextDetector
<1> QED BY <1>1, <1>2

LEMMA ComparedTyped ==
  ASSUME TypeOK, i < Len(table)
  PROVE  Compared \in [Det -> SUBSET Rows]
<1>1. i \in Rows /\ k \in Det /\ seen \in [Det -> SUBSET Rows]
  BY InHandTyped DEF TypeOK
<1> QED BY <1>1 DEF Compared

-----------------------------------------------------------------------------
(* Every step keeps the types.                                             *)

LEMMA TypeStep == TypeOK /\ Next => TypeOK'
<1> SUFFICES ASSUME TypeOK, Next PROVE TypeOK'
  OBVIOUS
<1> USE DEF data, pass
<1>t. /\ Len(table) \in Nat /\ i \in Nat /\ row \in Nat /\ row <= i
      /\ AttemptMax \in Nat \ {0} /\ ActivationLimit \in Nat /\ FitsCounted \in Nat /\ Far \in Nat
  BY InHandTyped, CountAssumption, GeometryAssumption
<1>1. ASSUME NEW u \in Tables, NEW v \in BOOLEAN, Fit(u, v) PROVE TypeOK'
  <2>1. /\ pc' = "rows" /\ table' = u /\ vmode' = v /\ attempt' = 0
        /\ fits' = (IF fits < FitsCounted THEN fits + 1 ELSE fits)
        /\ k' = 0 /\ i' = 0 /\ row' = 0 /\ radius' = RadiusOf(0, v) /\ r_min' = Far
        /\ r_minX' = NoRow /\ euclidean' = 0
        /\ seen' = [[d \in Det |-> {}] EXCEPT ![0] = {}]
        /\ UNCHANGED <<det, r, found, alarms, is_valid, bad>>
    BY <1>1 DEF Fit, PassBegins
  <2>2. u \in Table /\ Len(u) \in Nat
    BY TableAssumption, ElementIn, Zenon DEF Table
  <2>3. seen' \in [Det -> SUBSET Rows']
    BY <2>1
  <2>4. fits' \in 0 .. FitsCounted
    BY <1>t, <2>1 DEF TypeOK
  <2>5. radius' \in Nat /\ k' \in Det
    BY <2>1, DetTyped, RadiiTyped DEF TypeOK
  <2>6. /\ i' \in 0 .. Len(table)' /\ row' \in 0 .. i' /\ attempt' \in 0 .. AttemptMax
        /\ r_min' \in 0 .. Far /\ euclidean' \in Nat
    BY <1>t, <2>1, <2>2
  <2> QED BY <2>1, <2>2, <2>3, <2>4, <2>5, <2>6, Zenon DEF TypeOK
<1>2. ASSUME NEW p \in Point, NEW q \in Radius, Redraw(p, q) PROVE TypeOK'
  <2>1. /\ det' = [det EXCEPT ![k] = p] /\ r' = (IF vmode THEN [r EXCEPT ![k] = q] ELSE r)
        /\ found' = [found EXCEPT ![k] = FALSE] /\ alarms' = [alarms EXCEPT ![k] = 0]
        /\ attempt' = attempt + 1 /\ euclidean' = Measured /\ seen' = [seen EXCEPT ![k] = {}]
        /\ i < Len(table) /\ attempt # AttemptMax
        /\ UNCHANGED <<pc, fits, table, vmode, is_valid, bad, k, i, row, radius, r_min, r_minX>>
    BY <1>2 DEF Redraw, Comparing
  <2>2. det' \in [Det -> Point] /\ r' \in [Det -> Radius]
    BY <2>1 DEF TypeOK
  <2>3. found' \in [Det -> BOOLEAN]
    BY <2>1, Zenon DEF TypeOK
  <2>4. alarms' \in [Det -> 0 .. ActivationLimit] /\ attempt' \in 0 .. AttemptMax
    BY <1>t, <2>1 DEF TypeOK
  <2>5. euclidean' \in Nat
    BY <2>1, InHandTyped
  <2>6. seen' \in [Det -> SUBSET Rows'] /\ Rows' = Rows
    BY <2>1 DEF TypeOK, Rows
  <2> QED BY <2>1, <2>2, <2>3, <2>4, <2>5, <2>6, Zenon DEF TypeOK
<1>3. CASE Restart
  <2>1. /\ i' = 1 /\ row' = 0 /\ attempt' = 0 /\ euclidean' = Measured /\ seen' = Compared
        /\ i < Len(table)
        /\ UNCHANGED <<pc, fits, table, vmode, det, r, found, alarms, is_valid, bad, k, radius,
                       r_min, r_minX>>
    BY <1>3 DEF Restart, Comparing
  <2>2. i' \in 0 .. Len(table)' /\ row' \in 0 .. i' /\ attempt' \in 0 .. AttemptMax
    BY <1>t, <2>1
  <2>3. euclidean' \in Nat /\ seen' \in [Det -> SUBSET Rows'] /\ Rows' = Rows
    BY <2>1, InHandTyped, ComparedTyped DEF Rows
  <2> QED BY <2>1, <2>2, <2>3, Zenon DEF TypeOK
<1>4. CASE NormalRow
  <2>1. /\ i' = i + 1 /\ row' = row + 1 /\ euclidean' = Measured /\ seen' = Compared
        /\ i < Len(table)
        /\ UNCHANGED <<pc, fits, table, vmode, det, r, found, alarms, is_valid, bad, k, attempt,
                       radius, r_min, r_minX>>
    BY <1>4 DEF NormalRow, NextRow, Comparing
  <2>2. i' \in 0 .. Len(table)' /\ row' \in 0 .. i'
    BY <1>t, <2>1
  <2>3. euclidean' \in Nat /\ seen' \in [Det -> SUBSET Rows'] /\ Rows' = Rows
    BY <2>1, InHandTyped, ComparedTyped DEF Rows
  <2> QED BY <2>1, <2>2, <2>3, Zenon DEF TypeOK
<1>5. CASE AnomalousRow
  <2>1. /\ i' = i + 1 /\ row' = row + 1 /\ euclidean' = Measured /\ seen' = Compared
        /\ i < Len(table)
        /\ found' = IF Measured <= radius THEN [found EXCEPT ![k] = TRUE] ELSE found
        /\ \/ r_min' = Measured /\ r_minX' = X(row)
           \/ UNCHANGED <<r_min, r_minX>>
        /\ UNCHANGED <<pc, fits, table, vmode, det, r, alarms, is_valid, bad, k, attempt, radius>>
    BY <1>5 DEF AnomalousRow, NextRow, Comparing
  <2>2. i' \in 0 .. Len(table)' /\ row' \in 0 .. i'
    BY <1>t, <2>1
  <2>3. euclidean' \in Nat /\ seen' \in [Det -> SUBSET Rows'] /\ Rows' = Rows
    BY <2>1, InHandTyped, ComparedTyped DEF Rows
  <2>4. r_min' \in 0 .. Far /\ r_minX' \in Point \cup {NoRow}
    BY <1>t, <2>1, InHandTyped DEF TypeOK
  <2>5. found' \in [Det -> BOOLEAN]
    BY <2>1, Zenon DEF TypeOK
  <2> QED BY <2>1, <2>2, <2>3, <2>4, <2>5, Zenon DEF TypeOK
<1>6. ASSUME NEW done \in [Det -> SUBSET Rows], pc = "rows", NextDetector(done),
             UNCHANGED <<fits, table, vmode, r, found, alarms>>,
             det' \in [Det -> Point], is_valid' \in [{-1} \cup Det -> BOOLEAN],
             bad' \subseteq Det, attempt' \in 0 .. AttemptMax
      PROVE  TypeOK'
  <2>1. /\ pc' \in {"idle", "rows"} /\ k' \in Det /\ i' = 0 /\ row' = 0
        /\ radius' \in Nat /\ euclidean' \in Nat /\ r_min' = Far /\ r_minX' = NoRow
        /\ seen' \in [Det -> SUBSET Rows] /\ Rows' = Rows
    BY <1>6, NextDetectorTyped DEF Rows
  <2>2. i' \in 0 .. Len(table) /\ row' \in 0 .. i' /\ r_min' \in 0 .. Far
    BY <1>t, <2>1
  <2> QED BY <1>6, <2>1, <2>2, Zenon DEF TypeOK
<1>7. CASE Accept
  <2>1. /\ is_valid' = [is_valid EXCEPT ![k] = TRUE] /\ NextDetector(seen) /\ pc = "rows"
        /\ UNCHANGED <<fits, table, vmode, det, r, found, alarms, bad, attempt>>
    BY <1>7 DEF Accept, RowsDone
  <2>2. is_valid' \in [{-1} \cup Det -> BOOLEAN]
    BY <2>1, Zenon DEF TypeOK
  <2> QED BY <1>6, <2>1, <2>2 DEF TypeOK
<1>8. ASSUME GivesUp, pc = "rows", det' \in [Det -> Point] PROVE TypeOK'
  <2>1. /\ is_valid' = [is_valid EXCEPT ![k] = FALSE] /\ bad' = bad \cup {k} /\ attempt' = 0
        /\ NextDetector([seen EXCEPT ![k] = {}])
        /\ UNCHANGED <<fits, table, vmode, r, found, alarms>>
    BY <1>8 DEF GivesUp
  <2>2. is_valid' \in [{-1} \cup Det -> BOOLEAN]
    BY <2>1, Zenon DEF TypeOK
  <2>3. [seen EXCEPT ![k] = {}] \in [Det -> SUBSET Rows] /\ bad' \subseteq Det
        /\ attempt' \in 0 .. AttemptMax
    BY <1>t, <2>1 DEF TypeOK
  <2> QED BY <1>6, <1>8, <2>1, <2>2, <2>3
<1>9. CASE GiveUp
  <2>1. GivesUp /\ pc = "rows" /\ det' \in [Det -> Point]
    BY <1>9 DEF GiveUp, RowsDone, TypeOK
  <2> QED BY <1>8, <2>1
<1>10. ASSUME NEW p \in Point, MoveFails(p) PROVE TypeOK'
  <2>1. GivesUp /\ pc = "rows" /\ det' \in [Det -> Point]
    BY <1>10 DEF MoveFails, RowsDone, TypeOK
  <2> QED BY <1>8, <2>1
<1>11. ASSUME NEW p \in Point, Move(p) PROVE TypeOK'
  <2>1. /\ det' = [det EXCEPT ![k] = p] /\ alarms' = [alarms EXCEPT ![k] = 0]
        /\ is_valid' = [is_valid EXCEPT ![k - 1] = TRUE]
        /\ attempt' = 0 /\ k' = k /\ i' = 0 /\ row' = 0 /\ radius' = RadiusOf(k, vmode)
        /\ r_min' = Far /\ r_minX' = NoRow /\ euclidean' = 0 /\ seen' = [seen EXCEPT ![k] = {}]
        /\ UNCHANGED <<pc, fits, table, vmode, r, found, bad>>
    BY <1>11 DEF Move, PassBegins
  <2>2. det' \in [Det -> Point] /\ alarms' \in [Det -> 0 .. ActivationLimit]
    BY <1>t, <2>1 DEF TypeOK
  <2>3. is_valid' \in [{-1} \cup Det -> BOOLEAN]
    BY <2>1, Zenon DEF TypeOK
  <2>4. seen' \in [Det -> SUBSET Rows'] /\ Rows' = Rows
    BY <2>1 DEF TypeOK, Rows
  <2>5. radius' \in Nat
    BY <2>1, RadiiTyped DEF TypeOK
  <2>6. /\ i' \in 0 .. Len(table)' /\ row' \in 0 .. i' /\ attempt' \in 0 .. AttemptMax
        /\ r_min' \in 0 .. Far /\ euclidean' \in Nat
    BY <1>t, <2>1
  <2> QED BY <2>1, <2>2, <2>3, <2>4, <2>5, <2>6, Zenon DEF TypeOK
<1>12. ASSUME NEW x \in Point, NEW v \in BOOLEAN, Predict(x, v) PROVE TypeOK'
  <2>1. /\ UNCHANGED <<pc, fits, table, vmode, det, r, found, is_valid, bad, k, i, row, attempt,
                       radius, euclidean, r_min, r_minX, seen>>
        /\ \E d \in Det :
             alarms' = [alarms EXCEPT ![d] = IF @ < ActivationLimit THEN @ + 1 ELSE @]
    BY <1>12 DEF Predict
  <2>2. alarms' \in [Det -> 0 .. ActivationLimit]
    BY <1>t, <2>1 DEF TypeOK
  <2>3. Rows' = Rows
    BY <2>1 DEF Rows
  <2> QED BY <2>1, <2>2, <2>3, Zenon DEF TypeOK
<1> QED
  BY <1>1, <1>2, <1>3, <1>4, <1>5, <1>7, <1>9, <1>10, <1>11, <1>12 DEF Next, FitStep

LEMMA TypeInit == Init => TypeOK
<1> SUFFICES ASSUME Init PROVE TypeOK
  OBVIOUS
<1>1. table \in Table /\ Len(table) = 0
  BY DEF Init, Table
<1>2. found \in [Det -> BOOLEAN] /\ is_valid \in [{-1} \cup Det -> BOOLEAN]
  BY Zenon DEF Init
<1>3. alarms \in [Det -> 0 .. ActivationLimit] /\ seen \in [Det -> SUBSET Rows] /\ k \in Det
  BY CountAssumption, DetTyped DEF Init
<1>4. /\ fits \in 0 .. FitsCounted /\ attempt \in 0 .. AttemptMax /\ r_min \in 0 .. Far
      /\ i \in 0 .. Len(table) /\ row \in 0 .. i
  <2>1. fits = 0 /\ attempt = 0 /\ r_min = Far /\ i = 0 /\ row = 0
    BY DEF Init
  <2>2. FitsCounted \in Nat /\ AttemptMax \in Nat /\ Far \in Nat
    BY CountAssumption, GeometryAssumption
  <2>3. fits \in 0 .. FitsCounted /\ attempt \in 0 .. AttemptMax /\ r_min \in 0 .. Far
    BY <2>1, <2>2
  <2>4. i \in 0 .. Len(table) /\ row \in 0 .. i
    BY <1>1, <2>1
  <2> QED BY <2>3, <2>4
<1> QED BY <1>1, <1>2, <1>3, <1>4 DEF Init, TypeOK

LEMMA TypeStutter == TypeOK /\ UNCHANGED vars => TypeOK'
  BY Zenon DEF vars, data, pass, TypeOK, Rows

(* The vectors, counters and flags keep their types, and no row or label   *)
(* beyond the table is read, nor a detector beyond the array.              *)
THEOREM TypeCorrect == Spec => []TypeOK
<1>1. TypeOK /\ [Next]_vars => TypeOK'
  BY TypeStep, TypeStutter
<1> QED BY <1>1, TypeInit, PTL DEF Spec

-----------------------------------------------------------------------------
(* The attempts.                                                           *)

LEMMA AttemptStep == TypeOK /\ AttemptSettled /\ Next => AttemptSettled'
<1> SUFFICES ASSUME TypeOK, AttemptSettled, Next, attempt' > 0
             PROVE  pc' = "rows" /\ i' < Len(table') /\ IsNormal(i)' /\ ~found'[k'] /\ alarms'[k'] = 0
  BY DEF AttemptSettled
<1> USE DEF data, pass
<1>t. k \in Det /\ attempt \in Nat /\ found \in [Det -> BOOLEAN] /\ DOMAIN alarms = Det
      /\ Len(table) \in Nat /\ i \in Nat
  BY CountAssumption, InHandTyped DEF TypeOK
<1>1. ASSUME NEW p \in Point, NEW q \in Radius, Redraw(p, q)
      PROVE  pc' = "rows" /\ i' < Len(table') /\ IsNormal(i)' /\ ~found'[k'] /\ alarms'[k'] = 0
  <2>1. /\ pc' = "rows" /\ i < Len(table) /\ IsNormal(i) /\ found' = [found EXCEPT ![k] = FALSE]
        /\ alarms' = [alarms EXCEPT ![k] = 0] /\ UNCHANGED <<table, k, i>>
    BY <1>1 DEF Redraw, Comparing
  <2> QED BY <1>t, <2>1 DEF IsNormal
<1>2. CASE NormalRow \/ Restart \/ GiveUp \/ \E p \in Point : Move(p) \/ MoveFails(p)
  <2>1. attempt' = 0
    BY <1>2 DEF NormalRow, NextRow, Restart, GiveUp, GivesUp, Move, MoveFails
  <2> QED BY <2>1
<1>3. CASE AnomalousRow
  <2>1. attempt' = attempt /\ ~IsNormal(i)
    BY <1>3 DEF AnomalousRow, NextRow
  <2> QED BY <2>1 DEF AttemptSettled
<1>4. CASE Accept
  <2>1. attempt' = attempt /\ i = Len(table)
    BY <1>4 DEF Accept, RowsDone
  <2> QED BY <1>t, <2>1 DEF AttemptSettled
<1>5. CASE \E u \in Tables, v \in BOOLEAN : Fit(u, v)
  <2>1. attempt' = 0
    BY <1>5 DEF Fit
  <2> QED BY <2>1
<1>6. CASE \E x \in Point, v \in BOOLEAN : Predict(x, v)
  <2>1. attempt' = attempt /\ pc = "idle"
    BY <1>6 DEF Predict
  <2> QED BY <2>1 DEF AttemptSettled
<1> QED BY <1>1, <1>2, <1>3, <1>4, <1>5, <1>6 DEF Next, FitStep

(* The draws spent on one detector are not charged to another: attempts    *)
(* in use were made at the normal row in hand.                             *)
THEOREM AttemptsSettle == Spec => []AttemptSettled
<1>1. Init => AttemptSettled
  BY DEF Init, AttemptSettled
<1>2. TypeOK /\ AttemptSettled /\ UNCHANGED vars => AttemptSettled'
  BY DEF vars, data, pass, AttemptSettled, IsNormal
<1>3. TypeOK /\ AttemptSettled /\ [Next]_vars => AttemptSettled'
  BY <1>2, AttemptStep
<1> QED BY <1>1, <1>3, TypeCorrect, PTL DEF Spec

-----------------------------------------------------------------------------
(* Normal rows.                                                            *)

(* Any set of rows after the end of a detector's pass is one it had, or    *)
(* empty.                                                                  *)
LEMMA NextDetectorSeen ==
  ASSUME TypeOK, NEW done \in [Det -> SUBSET Rows], NextDetector(done)
  PROVE  \A d \in Det : seen'[d] = done[d] \/ seen'[d] = {}
<1>1. seen' = done \/ seen' = [done EXCEPT ![k + 1] = {}]
  BY DEF NextDetector, PassBegins
<1> QED BY <1>1

LEMMA ClearStep == TypeOK /\ ClearOfNormal /\ Next => ClearOfNormal'
<1> SUFFICES ASSUME TypeOK, ClearOfNormal, Next
             PROVE  ClearOfNormal'
  OBVIOUS
<1> USE DEF data, pass
<1>t. /\ k \in Det /\ det \in [Det -> Point] /\ r \in [Det -> Radius] /\ seen \in [Det -> SUBSET Rows]
  BY DEF TypeOK
(* A step that keeps the vectors, radii and table and has a detector see   *)
(* no more rows.                                                           *)
<1>1. ASSUME UNCHANGED <<r, table, vmode>>,
             \A d \in Det : seen'[d] = {} \/ (seen'[d] = seen[d] /\ det'[d] = det[d])
      PROVE  ClearOfNormal'
  BY <1>1 DEF ClearOfNormal, IsNormal, X, RadiusOf
<1>2. ASSUME NEW p \in Point, NEW q \in Radius, Redraw(p, q) PROVE ClearOfNormal'
  <2>1. /\ det' = [det EXCEPT ![k] = p] /\ r' = (IF vmode THEN [r EXCEPT ![k] = q] ELSE r)
        /\ seen' = [seen EXCEPT ![k] = {}] /\ UNCHANGED <<table, vmode>>
    BY <1>2 DEF Redraw
  <2>2. \A d \in Det : d # k => det'[d] = det[d] /\ r'[d] = r[d] /\ seen'[d] = seen[d]
    BY <1>t, <2>1
  <2>3. seen'[k] = {}
    BY <1>t, <2>1
  <2> QED BY <2>1, <2>2, <2>3 DEF ClearOfNormal, IsNormal, X, RadiusOf
<1>3. ASSUME Comparing, seen' = Compared, UNCHANGED <<det, r, table, vmode>>,
             IsNormal(i) => Measured > radius
      PROVE  ClearOfNormal'
  <2>1. \A d \in Det : \A n \in seen'[d] :
          n \in seen[d] \/ (d = k /\ n = i /\ row = i /\ radius = RadiusOf(k, vmode))
    BY <1>t, <1>3 DEF Compared
  <2>2. row = i /\ radius = RadiusOf(k, vmode) /\ IsNormal(i) => Distance[det[k], X(i)] > RadiusOf(k, vmode)
    BY <1>3 DEF Measured
  <2>3. ASSUME NEW d \in Det, NEW n \in seen'[d], IsNormal(n)
        PROVE  Distance[det[d], X(n)] > RadiusOf(d, vmode)
    BY <2>1, <2>2, <2>3 DEF ClearOfNormal
  <2> QED BY <1>3, <2>3 DEF ClearOfNormal, IsNormal, X, RadiusOf
<1>4. CASE Restart
  BY <1>3, <1>4 DEF Restart
<1>5. CASE NormalRow
  BY <1>3, <1>5 DEF NormalRow, NextRow
<1>6. CASE AnomalousRow
  BY <1>3, <1>6 DEF AnomalousRow, NextRow
<1>7. CASE Accept
  <2>1. NextDetector(seen) /\ UNCHANGED <<det, r, table, vmode>>
    BY <1>7 DEF Accept
  <2> QED BY <1>1, <1>t, <2>1, NextDetectorSeen
<1>8. ASSUME GivesUp, \A d \in Det : d # k => det'[d] = det[d] PROVE ClearOfNormal'
  <2>1. NextDetector([seen EXCEPT ![k] = {}]) /\ UNCHANGED <<r, table, vmode>>
    BY <1>8 DEF GivesUp
  <2>2. [seen EXCEPT ![k] = {}] \in [Det -> SUBSET Rows]
    BY <1>t
  <2>3. \A d \in Det : seen'[d] = [seen EXCEPT ![k] = {}][d] \/ seen'[d] = {}
    BY <2>1, <2>2, NextDetectorSeen
  <2>4. \A d \in Det : seen'[d] = {} \/ (seen'[d] = seen[d] /\ det'[d] = det[d])
    BY <1>t, <1>8, <2>3
  <2> QED BY <1>1, <2>1, <2>4
<1>9. CASE GiveUp
  BY <1>8, <1>9 DEF GiveUp
<1>10. ASSUME NEW p \in Point, MoveFails(p) PROVE ClearOfNormal'
  BY <1>t, <1>8, <1>10 DEF MoveFails
<1>11. ASSUME NEW p \in Point, Move(p) PROVE ClearOfNormal'
  <2>1. /\ det' = [det EXCEPT ![k] = p] /\ seen' = [seen EXCEPT ![k] = {}]
        /\ UNCHANGED <<r, table, vmode>>
    BY <1>11 DEF Move, PassBegins
  <2> QED BY <1>1, <1>t, <2>1
<1>12. ASSUME NEW u \in Tables, NEW v \in BOOLEAN, Fit(u, v) PROVE ClearOfNormal'
  <2>1. seen' = [[d \in Det |-> {}] EXCEPT ![0] = {}]
    BY <1>12 DEF Fit, PassBegins
  <2>2. \A d \in Det : seen'[d] = {}
    BY <2>1
  <2> QED BY <2>2 DEF ClearOfNormal
<1>13. ASSUME NEW x \in Point, NEW v \in BOOLEAN, Predict(x, v) PROVE ClearOfNormal'
  BY <1>1, <1>13 DEF Predict
<1> QED
  BY <1>2, <1>4, <1>5, <1>6, <1>7, <1>9, <1>10, <1>11, <1>12, <1>13 DEF Next, FitStep

(* What negative selection promises, whatever is drawn and however         *)
(* detectors are moved: a valid detector compared with every row of the    *)
(* training table raises no alarm for a normal one.                        *)
THEOREM NormalRowsPass == Spec => []NoFalseAlarm
<1>1. Init => ClearOfNormal
  BY DEF Init, ClearOfNormal
<1>2. TypeOK /\ ClearOfNormal /\ UNCHANGED vars => ClearOfNormal'
  <2> SUFFICES ASSUME ClearOfNormal, UNCHANGED <<det, r, table, vmode, seen>>
               PROVE  ClearOfNormal'
    BY DEF vars, data
  <2> QED BY DEF ClearOfNormal, IsNormal, X, RadiusOf
<1>3. TypeOK /\ ClearOfNormal /\ [Next]_vars => ClearOfNormal'
  BY <1>2, ClearStep
<1>4. ASSUME TypeOK, ClearOfNormal PROVE NoFalseAlarm
  <2> SUFFICES ASSUME NEW d \in Det, seen[d] = Rows, NEW n \in Rows, IsNormal(n)
               PROVE  ~Reaches(d, X(n), vmode)
    BY DEF NoFalseAlarm
  <2>1. Distance[det[d], X(n)] > RadiusOf(d, vmode)
    BY <1>4 DEF ClearOfNormal
  <2>2. det[d] \in Point /\ X(n) \in Point /\ RadiusOf(d, vmode) \in Nat
    BY <1>4, RowsTyped, RadiiTyped DEF TypeOK
  <2>3. Distance[det[d], X(n)] \in Nat
    BY <2>2, Distances
  <2>4. ~(Distance[det[d], X(n)] < RadiusOf(d, vmode))
    <3> DEFINE a == Distance[det[d], X(n)]
               b == RadiusOf(d, vmode)
    <3>1. a \in Nat /\ b \in Nat /\ a > b
      BY <2>1, <2>2, <2>3
    <3> HIDE DEF a, b
    <3>2. ~(a < b)
      BY <3>1
    <3> QED BY <3>2 DEF a, b
  <2> QED BY <2>4, Zenon DEF Reaches
<1> QED BY <1>1, <1>3, <1>4, TypeCorrect, PTL DEF Spec

-----------------------------------------------------------------------------
(* Anomalous rows.                                                         *)

(* A pass begins: nothing is seen and nothing lags.                        *)
LEMMA PassStarts ==
  ASSUME NEW d \in Det, NEW v \in BOOLEAN, NEW done, done \in [Det -> SUBSET Rows'],
         PassBegins(d, (IF v THEN r'[d] ELSE DetRadius), done), vmode' = v, Far \in Nat
  PROVE  PassInv'
<1>1. /\ k' = d /\ i' = 0 /\ row' = 0 /\ radius' = (IF v THEN r'[d] ELSE DetRadius)
      /\ r_min' = Far /\ r_minX' = NoRow /\ seen' = [done EXCEPT ![d] = {}]
  BY DEF PassBegins
<1>2. seen'[k'] = {}
  BY <1>1
<1>3. RadiusOf(k, vmode)' = radius'
  BY <1>1 DEF RadiusOf
<1> QED BY <1>1, <1>2, <1>3 DEF PassInv

LEMMA NextPassInv ==
  ASSUME TypeOK, NEW done \in [Det -> SUBSET Rows], NextDetector(done), pc = "rows",
         UNCHANGED <<table, vmode, r>>
  PROVE  PassInv'
<1>1. CASE k + 1 < DetCount
  <2>1. k + 1 \in Det
    BY <1>1, DetTyped DEF TypeOK, Det
  <2>2. PassBegins(k + 1, (IF vmode THEN r'[k + 1] ELSE DetRadius), done)
    BY <1>1 DEF NextDetector, RadiusOf
  <2>3. done \in [Det -> SUBSET Rows'] /\ vmode \in BOOLEAN /\ Far \in Nat
    BY GeometryAssumption DEF Rows, TypeOK
  <2> QED BY <2>1, <2>2, <2>3, PassStarts
<1>2. CASE ~(k + 1 < DetCount)
  BY <1>2 DEF NextDetector, PassInv
<1> QED BY <1>1, <1>2

LEMMA PassStep == TypeOK /\ AttemptSettled /\ PassInv /\ Next => PassInv'
<1> SUFFICES ASSUME TypeOK, AttemptSettled, PassInv, Next
             PROVE  PassInv'
  OBVIOUS
<1> USE DEF data, pass
<1>t. /\ k \in Det /\ seen \in [Det -> SUBSET Rows] /\ attempt \in Nat /\ vmode \in BOOLEAN
      /\ i \in Nat /\ row \in Nat /\ row <= i /\ Far \in Nat
  <2>1. k \in Det /\ seen \in [Det -> SUBSET Rows] /\ attempt \in 0 .. AttemptMax /\ vmode \in BOOLEAN
    BY Zenon DEF TypeOK
  <2>2. attempt \in Nat
    BY <2>1, CountAssumption
  <2>3. Far \in Nat
    BY GeometryAssumption
  <2> QED BY <2>1, <2>2, <2>3, InHandTyped, Zenon
<1>1. ASSUME NEW u \in Tables, NEW v \in BOOLEAN, Fit(u, v) PROVE PassInv'
  <2>1. /\ vmode' = v /\ table' = u /\ r' = r
        /\ PassBegins(0, (IF v THEN r'[0] ELSE DetRadius), [d \in Det |-> {}])
    BY <1>1 DEF Fit, RadiusOf
  <2>2. [d \in Det |-> {}] \in [Det -> SUBSET Rows']
    OBVIOUS
  <2> QED BY <1>t, <2>1, <2>2, DetTyped, PassStarts
<1>2. ASSUME NEW p \in Point, NEW q \in Radius, Redraw(p, q) PROVE PassInv'
  <2>1. /\ seen' = [seen EXCEPT ![k] = {}] /\ attempt' = attempt + 1 /\ IsNormal(i)
        /\ i < Len(table) /\ pc = "rows" /\ UNCHANGED <<table, vmode, k, i, row, radius, r_min, r_minX>>
    BY <1>2 DEF Redraw, Comparing
  <2>2. seen'[k'] = {} /\ attempt' > 0
    BY <1>t, <2>1
  <2>3. i \in Rows' /\ IsNormal(i)'
    BY <2>1, InHandTyped DEF Rows, IsNormal
  <2> QED BY <2>1, <2>2, <2>3 DEF PassInv
<1>3. CASE Restart
  <2>1. /\ i' = 1 /\ row' = 0 /\ attempt' = 0 /\ seen' = Compared /\ pc = "rows"
        /\ IsNormal(i) /\ i < Len(table) /\ attempt > 0
        /\ UNCHANGED <<table, vmode, k, r_min, r_minX>>
    BY <1>3 DEF Restart, Comparing
  <2>2. seen'[k'] \subseteq {i}
    BY <1>t, <2>1 DEF Compared, PassInv
  <2>3. Rows' = Rows /\ i \in Rows /\ \A c : IsNormal(c)' = IsNormal(c)
    BY <2>1, InHandTyped DEF Rows, IsNormal
  <2>4. /\ \A n \in seen'[k'] : IsNormal(n)'
        /\ \E c \in Rows' : IsNormal(c)' /\ seen'[k'] \subseteq {c}
    BY <2>1, <2>2, <2>3
  <2>5. r_minX = NoRow => r_min = Far
    BY <2>1 DEF PassInv
  <2> QED BY <2>1, <2>2, <2>3, <2>4, <2>5 DEF PassInv
<1>4. CASE NormalRow \/ AnomalousRow
  <2>1. /\ i' = i + 1 /\ row' = row + 1 /\ attempt' = attempt /\ seen' = Compared /\ pc = "rows"
        /\ i < Len(table) /\ UNCHANGED <<table, vmode, k, radius, r>>
    BY <1>4 DEF NormalRow, AnomalousRow, NextRow, Comparing
  <2>2. attempt = 0
    <3>1. CASE NormalRow
      BY <3>1 DEF NormalRow
    <3>2. CASE AnomalousRow
      BY <1>t, <3>2 DEF AnomalousRow, AttemptSettled
    <3> QED BY <1>4, <3>1, <3>2
  <2>3. seen'[k] = seen[k] \/ (row = i /\ seen'[k] = seen[k] \cup {i})
    BY <1>t, <2>1 DEF Compared
  <2>4. row' < i' => \E c \in Rows' : IsNormal(c)' /\ seen'[k'] \subseteq {c}
    <3>1. row' < i' => row < i
      BY <1>t, <2>1
    <3>2. row < i => \E c \in Rows : IsNormal(c) /\ seen[k] \subseteq {c}
      BY <2>1 DEF PassInv
    <3>3. Rows' = Rows /\ \A c : IsNormal(c)' = IsNormal(c)
      BY <2>1 DEF Rows, IsNormal
    <3> QED BY <1>t, <2>1, <2>3, <3>1, <3>2, <3>3
  <2>5. row' = i' => radius' = RadiusOf(k, vmode)'
    <3>1. row' = i' => row = i
      BY <1>t, <2>1
    <3>2. RadiusOf(k, vmode)' = RadiusOf(k, vmode)
      BY <2>1 DEF RadiusOf
    <3> QED BY <2>1, <2>2, <3>1, <3>2 DEF PassInv
  <2>6. (r_minX' = NoRow => r_min' = Far) /\ (~IsNormal(i) => r_minX' # NoRow)
        /\ (r_minX' = NoRow => r_minX = NoRow)
    <3>1. (r_minX = NoRow => r_min = Far)
      BY <2>1 DEF PassInv
    <3>2. CASE NormalRow
      BY <3>1, <3>2 DEF NormalRow
    <3>3. CASE AnomalousRow
      <4>1. Measured < Far /\ X(row) # NoRow /\ Measured \in Nat
        BY <2>1, InHandTyped, NoRowAssumption
      <4>2. \/ Measured < r_min /\ r_min' = Measured /\ r_minX' = X(row)
            \/ ~(Measured < r_min) /\ UNCHANGED <<r_min, r_minX>>
        BY <3>3 DEF AnomalousRow
      <4> QED BY <3>1, <4>1, <4>2, Zenon
    <3> QED BY <1>4, <3>2, <3>3
  <2>7. \A n \in seen'[k'] : ~IsNormal(n)' => r_minX' # NoRow
    <3>1. \A n : IsNormal(n)' = IsNormal(n)
      BY <2>1 DEF IsNormal
    <3>2. \A n \in seen[k] : ~IsNormal(n) => r_minX # NoRow
      BY <2>1 DEF PassInv
    <3> QED BY <2>1, <2>3, <2>6, <3>1, <3>2
  <2> QED BY <2>1, <2>2, <2>4, <2>5, <2>6, <2>7 DEF PassInv
<1>5. CASE Accept
  <2>1. NextDetector(seen) /\ pc = "rows" /\ UNCHANGED <<table, vmode, r>>
    BY <1>5 DEF Accept, RowsDone
  <2> QED BY <1>t, <2>1, NextPassInv
<1>6. CASE GiveUp \/ \E p \in Point : MoveFails(p)
  <2>1. /\ NextDetector([seen EXCEPT ![k] = {}]) /\ pc = "rows" /\ UNCHANGED <<table, vmode, r>>
    BY <1>6 DEF GiveUp, MoveFails, GivesUp, RowsDone
  <2>2. [seen EXCEPT ![k] = {}] \in [Det -> SUBSET Rows]
    BY <1>t
  <2> QED BY <2>1, <2>2, NextPassInv
<1>7. ASSUME NEW p \in Point, Move(p) PROVE PassInv'
  <2>1. /\ PassBegins(k, (IF vmode THEN r'[k] ELSE DetRadius), seen) /\ UNCHANGED <<table, vmode>>
    BY <1>7 DEF Move, RadiusOf
  <2>2. seen \in [Det -> SUBSET Rows']
    BY <1>t, <2>1 DEF Rows
  <2> QED BY <1>t, <2>1, <2>2, PassStarts
<1>8. CASE \E x \in Point, v \in BOOLEAN : Predict(x, v)
  BY <1>8 DEF Predict, PassInv
<1> QED BY <1>1, <1>2, <1>3, <1>4, <1>5, <1>6, <1>7, <1>8 DEF Next, FitStep

LEMMA UsefulKept ==
  ASSUME NEW d, Useful(d), UNCHANGED <<table, vmode>>,
         det'[d] = det[d], r'[d] = r[d], seen'[d] = seen[d]
  PROVE  Useful(d)'
<1>1. Rows' = Rows /\ \A n : IsNormal(n)' = IsNormal(n) /\ X(n)' = X(n)
  BY DEF Rows, IsNormal, X
<1>2. RadiusOf(d, vmode)' = RadiusOf(d, vmode)
  BY DEF RadiusOf
<1>3. SUFFICES ASSUME seen'[d] = Rows', \E n \in Rows' : ~IsNormal(n)'
               PROVE  \E n \in Rows' : ~IsNormal(n)' /\ Distance[det'[d], X(n)'] <= RadiusOf(d, vmode)'
  BY DEF Useful
<1>4. seen[d] = Rows /\ \E n \in Rows : ~IsNormal(n)
  BY <1>1, <1>3
<1>5. PICK n \in Rows : ~IsNormal(n) /\ Distance[det[d], X(n)] <= RadiusOf(d, vmode)
  BY <1>4 DEF Useful
<1> QED BY <1>1, <1>2, <1>5

LEMMA UsefulUnseen ==
  ASSUME NEW d, seen'[d] = {}
  PROVE  Useful(d)'
  BY DEF Useful

(* The detector in hand is done with: it is useful, or it has been given   *)
(* up and counts as compared with nothing.                                 *)
LEMMA NextFirst ==
  ASSUME TypeOK, FirstInv, fits = 1, pc = "rows",
         NEW done \in [Det -> SUBSET Rows], NextDetector(done),
         UNCHANGED <<fits, table, vmode, r, found, alarms>>,
         \A d \in Det : d # k => done[d] = seen[d] /\ det'[d] = det[d],
         done[k] = {} \/ (done[k] = seen[k] /\ det'[k] = det[k] /\ Useful(k))
  PROVE  FirstInv'
<1>t. k \in Det /\ k \in Nat /\ DetCount \in Nat /\ k < DetCount
  BY DetTyped DEF TypeOK, Det
<1>1. /\ \A d \in Det : alarms[d] = 0
      /\ \A d \in k + 1 .. DetCount - 1 : ~found[d]
      /\ \A d \in 0 .. k - 1 : Useful(d)
  BY DEF FirstInv
<1>2. ASSUME NEW d \in 0 .. k, seen'[d] = done[d] PROVE Useful(d)'
  <2>0. d \in Det
    BY <1>t DEF Det
  <2>1. CASE d = k
    <3>1. CASE done[k] = {}
      BY <1>2, <2>1, <3>1, UsefulUnseen
    <3>2. CASE done[k] = seen[k] /\ det'[k] = det[k] /\ Useful(k)
      BY <1>2, <2>1, <3>2, UsefulKept
    <3> QED BY <3>1, <3>2
  <2>2. CASE d # k
    <3>1. d \in 0 .. k - 1
      BY <1>t, <2>2
    <3> QED BY <1>1, <1>2, <2>0, <2>2, <3>1, UsefulKept
  <2> QED BY <2>1, <2>2
<1>3. CASE k + 1 < DetCount
  <2>1. /\ pc' = "rows" /\ k' = k + 1 /\ i' = 0 /\ row' = 0 /\ seen' = [done EXCEPT ![k + 1] = {}]
    BY <1>3 DEF NextDetector, PassBegins
  <2>2. \A d \in 0 .. k : seen'[d] = done[d]
    BY <1>t, <2>1 DEF Det
  <2>3. \A d \in 0 .. k' - 1 : Useful(d)'
    BY <1>t, <1>2, <2>1, <2>2
  <2>4. ~found'[k'] /\ \A d \in k' + 1 .. DetCount - 1 : ~found'[d]
    BY <1>t, <1>1, <1>3, <2>1
  <2> QED BY <1>1, <2>1, <2>3, <2>4 DEF FirstInv
<1>4. CASE ~(k + 1 < DetCount)
  <2>1. pc' = "idle" /\ seen' = done
    BY <1>4 DEF NextDetector
  <2>2. \A d \in Det : d \in 0 .. k
    BY <1>t, <1>4 DEF Det
  <2>3. \A d \in Det : Useful(d)'
    BY <1>2, <2>1, <2>2
  <2> QED BY <2>1, <2>3 DEF FirstInv
<1> QED BY <1>3, <1>4

(* A detector that is accepted in the first training.                      *)
LEMMA AcceptedUseful ==
  ASSUME TypeOK, AttemptSettled, PassInv, FirstInv, fits = 1, ActivationLimit > 0, Accept
  PROVE  Useful(k)
<1>t. /\ k \in Det /\ row \in Nat /\ i \in Nat /\ row <= i /\ attempt \in 0 .. AttemptMax
      /\ Len(table) \in Nat
  BY InHandTyped DEF TypeOK
<1>1. pc = "rows" /\ i = Len(table) /\ ~Idle
  BY DEF Accept, RowsDone
<1>2. attempt = 0
  BY <1>t, <1>1, CountAssumption DEF AttemptSettled
<1> SUFFICES ASSUME seen[k] = Rows, NEW n \in Rows, ~IsNormal(n)
             PROVE  \E e \in Rows : ~IsNormal(e) /\ Distance[det[k], X(e)] <= RadiusOf(k, vmode)
  BY DEF Useful
<1>3. row = i
  <2>1. ~(row < i)
    BY <1>1 DEF PassInv
  <2> QED BY <1>t, <2>1
<1>4. r_minX # NoRow /\ radius = RadiusOf(k, vmode)
  BY <1>1, <1>2, <1>3 DEF PassInv
<1>5. alarms[k] < ActivationLimit
  BY <1>t, <1>1 DEF FirstInv
<1>6. found[k]
  BY <1>1, <1>4, <1>5 DEF Idle
<1> QED BY <1>1, <1>3, <1>4, <1>6 DEF FirstInv

LEMMA FirstStep ==
  ASSUME ActivationLimit > 0, FitsCounted > 1,
         TypeOK, AttemptSettled, PassInv, FirstInv, Next
  PROVE  FirstInv'
<1> USE DEF data, pass
<1>t. /\ k \in Det /\ k \in Nat /\ DetCount \in Nat /\ det \in [Det -> Point] /\ r \in [Det -> Radius]
      /\ seen \in [Det -> SUBSET Rows] /\ found \in [Det -> BOOLEAN] /\ DOMAIN alarms = Det
      /\ i \in Nat /\ row \in Nat
  BY DetTyped, InHandTyped DEF TypeOK
<1>b. fits \in Nat /\ FitsCounted \in Nat
  BY CountAssumption DEF TypeOK
<1>d. \A d \in 0 .. k - 1 : d \in Det /\ d # k
  BY <1>t DEF Det
<1>1. ASSUME NEW u \in Tables, NEW v \in BOOLEAN, Fit(u, v) PROVE FirstInv'
  <2>1. /\ pc' = "rows" /\ k' = 0 /\ i' = 0 /\ row' = 0 /\ UNCHANGED <<found, alarms>>
        /\ fits' = (IF fits < FitsCounted THEN fits + 1 ELSE fits)
    BY <1>1 DEF Fit, PassBegins
  <2>2. CASE fits = 0
    <3>1. \A d \in Det : ~found'[d] /\ alarms'[d] = 0
      BY <2>1, <2>2 DEF FirstInv
    <3>2. ~found'[0] /\ \A d \in 1 .. DetCount - 1 : ~found'[d]
      BY <1>t, <3>1, DetTyped DEF Det
    <3>3. fits' = 1 /\ fits' # 0
      BY <1>b, <2>1, <2>2
    <3>4. ~found'[k'] /\ \A d \in k' + 1 .. DetCount - 1 : ~found'[d]
      BY <2>1, <3>2
    <3>5. \A d \in 0 .. k' - 1 : Useful(d)'
      BY <2>1
    <3> QED BY <2>1, <3>1, <3>3, <3>4, <3>5 DEF FirstInv
  <2>3. CASE fits # 0
    <3>1. fits' # 0 /\ fits' # 1
      BY <1>b, <2>1, <2>3
    <3> QED BY <3>1 DEF FirstInv
  <2> QED BY <2>2, <2>3
<1>2. ASSUME NEW x \in Point, NEW v \in BOOLEAN, Predict(x, v) PROVE FirstInv'
  <2>1. /\ pc = "idle" /\ UNCHANGED <<pc, fits, table, vmode, det, r, seen>>
        /\ \E d \in Det : is_valid[d]
    BY <1>2 DEF Predict, Reaches
  <2>2. fits # 0
    BY <2>1 DEF FirstInv
  <2>3. fits = 1 => \A d \in Det : Useful(d)'
    BY <2>1, UsefulKept DEF FirstInv
  <2> QED BY <2>1, <2>2, <2>3 DEF FirstInv
<1>3. ASSUME pc = "rows", fits' = fits, fits # 1 PROVE FirstInv'
  BY <1>3 DEF FirstInv
<1>f. ASSUME fits = 1, pc = "rows"
      PROVE  /\ \A d \in Det : alarms[d] = 0
             /\ \A d \in k + 1 .. DetCount - 1 : ~found[d]
             /\ row = i /\ found[k] =>
                  \E n \in Rows : ~IsNormal(n) /\ Distance[det[k], X(n)] <= radius
             /\ \A d \in 0 .. k - 1 : Useful(d)
  BY <1>f DEF FirstInv
<1>4. ASSUME NEW p \in Point, NEW q \in Radius, Redraw(p, q), fits = 1 PROVE FirstInv'
  <2>1. /\ det' = [det EXCEPT ![k] = p] /\ r' = (IF vmode THEN [r EXCEPT ![k] = q] ELSE r)
        /\ found' = [found EXCEPT ![k] = FALSE] /\ alarms' = [alarms EXCEPT ![k] = 0]
        /\ seen' = [seen EXCEPT ![k] = {}] /\ pc = "rows"
        /\ UNCHANGED <<pc, fits, table, vmode, k, i, row, radius>>
    BY <1>4 DEF Redraw, Comparing
  <2>2. \A d \in Det : d # k => det'[d] = det[d] /\ r'[d] = r[d] /\ seen'[d] = seen[d]
    BY <1>t, <2>1
  <2>3. \A d \in 0 .. k - 1 : Useful(d)'
    BY <1>4, <1>d, <1>f, <2>1, <2>2, UsefulKept
  <2>4. ~found'[k'] /\ \A d \in k + 1 .. DetCount - 1 : ~found'[d]
    <3>1. \A d \in k + 1 .. DetCount - 1 : d \in Det
      BY <1>t DEF Det
    <3> QED BY <1>t, <1>4, <1>f, <2>1, <3>1
  <2>5. \A d \in Det : alarms'[d] = 0
    BY <1>t, <1>4, <1>f, <2>1
  <2> QED BY <1>4, <2>1, <2>3, <2>4, <2>5 DEF FirstInv
<1>5. ASSUME Comparing, fits = 1, UNCHANGED <<pc, fits, table, vmode, det, r, alarms, k, radius>>,
             \A d \in Det : d # k => seen'[d] = seen[d] /\ found'[d] = found[d],
             row' = i' /\ found'[k] =>
               \E n \in Rows : ~IsNormal(n) /\ Distance[det[k], X(n)] <= radius
      PROVE  FirstInv'
  <2>1. pc = "rows"
    BY <1>5 DEF Comparing
  <2>2. \A d \in 0 .. k - 1 : Useful(d)'
    BY <1>5, <1>d, <1>f, <2>1, UsefulKept
  <2>3. \A d \in k + 1 .. DetCount - 1 : ~found'[d]
    <3>1. \A d \in k + 1 .. DetCount - 1 : d \in Det /\ d # k
      BY <1>t DEF Det
    <3> QED BY <1>5, <1>f, <2>1, <3>1
  <2>4. Rows' = Rows /\ \A n : IsNormal(n)' = IsNormal(n) /\ X(n)' = X(n)
    BY <1>5 DEF Rows, IsNormal, X
  <2> QED BY <1>5, <1>f, <2>1, <2>2, <2>3, <2>4 DEF FirstInv
<1>c. \A d \in Det : d # k => Compared[d] = seen[d]
  BY <1>t DEF Compared
<1>6. CASE Restart /\ fits = 1
  <2>1. row' # i'
    BY <1>6 DEF Restart
  <2> QED BY <1>5, <1>6, <1>c, <2>1 DEF Restart
<1>7. CASE NormalRow /\ fits = 1
  <2>1. row' = i' => row = i
    BY <1>t, <1>7 DEF NormalRow, NextRow
  <2>2. pc = "rows"
    BY <1>7 DEF NormalRow, NextRow, Comparing
  <2> QED BY <1>5, <1>7, <1>c, <1>f, <2>1, <2>2 DEF NormalRow, NextRow
<1>8. CASE AnomalousRow /\ fits = 1
  <2>1. row' = i' => row = i
    BY <1>t, <1>8 DEF AnomalousRow, NextRow
  <2>2. /\ pc = "rows" /\ i < Len(table) /\ ~IsNormal(i)
        /\ found' = IF Measured <= radius THEN [found EXCEPT ![k] = TRUE] ELSE found
    BY <1>8 DEF AnomalousRow, NextRow, Comparing
  <2>3. row' = i' /\ found'[k] =>
          \E n \in Rows : ~IsNormal(n) /\ Distance[det[k], X(n)] <= radius
    <3>1. CASE Measured <= radius
      BY <2>1, <2>2, <3>1, InHandTyped DEF Measured
    <3>2. CASE ~(Measured <= radius)
      BY <1>8, <1>f, <2>1, <2>2, <3>2
    <3> QED BY <3>1, <3>2
  <2>4. \A d \in Det : d # k => found'[d] = found[d]
    BY <1>t, <2>2
  <2> QED BY <1>5, <1>8, <1>c, <2>3, <2>4 DEF AnomalousRow, NextRow
<1>9. CASE Accept /\ fits = 1
  <2>1. /\ NextDetector(seen) /\ pc = "rows"
        /\ UNCHANGED <<fits, table, vmode, det, r, found, alarms>>
    BY <1>9 DEF Accept, RowsDone
  <2>2. Useful(k)
    BY <1>9, AcceptedUseful
  <2> QED BY <1>9, <1>t, <2>1, <2>2, NextFirst
<1>10. ASSUME GivesUp, pc = "rows", fits = 1, \A d \in Det : d # k => det'[d] = det[d]
       PROVE  FirstInv'
  <2>1. /\ NextDetector([seen EXCEPT ![k] = {}])
        /\ UNCHANGED <<fits, table, vmode, r, found, alarms>>
    BY <1>10 DEF GivesUp
  <2> DEFINE done == [seen EXCEPT ![k] = {}]
  <2>2. /\ done \in [Det -> SUBSET Rows] /\ done[k] = {}
        /\ \A d \in Det : d # k => done[d] = seen[d]
    BY <1>t
  <2>3. NextDetector(done)
    BY <2>1
  <2> HIDE DEF done
  <2> QED BY <1>10, <2>1, <2>2, <2>3, NextFirst
<1>11. CASE GiveUp /\ fits = 1
  BY <1>10, <1>11 DEF GiveUp, RowsDone
<1>12. ASSUME NEW p \in Point, MoveFails(p), fits = 1 PROVE FirstInv'
  BY <1>t, <1>10, <1>12 DEF MoveFails, RowsDone
<1>13. ASSUME NEW p \in Point, Move(p), fits = 1 PROVE FirstInv'
  <2>1. /\ det' = [det EXCEPT ![k] = p] /\ alarms' = [alarms EXCEPT ![k] = 0]
        /\ seen' = [seen EXCEPT ![k] = {}] /\ k' = k /\ ~found[k] /\ pc = "rows"
        /\ UNCHANGED <<pc, fits, table, vmode, r, found>>
    BY <1>13 DEF Move, PassBegins, Idle, RowsDone
  <2>2. \A d \in Det : d # k => det'[d] = det[d] /\ seen'[d] = seen[d]
    BY <1>t, <2>1
  <2>3. \A d \in 0 .. k - 1 : Useful(d)'
    BY <1>13, <1>d, <1>f, <2>1, <2>2, UsefulKept
  <2>4. \A d \in Det : alarms'[d] = 0
    BY <1>t, <1>13, <1>f, <2>1
  <2> QED BY <1>13, <1>f, <2>1, <2>3, <2>4 DEF FirstInv
<1>14. ASSUME FitStep PROVE pc = "rows" /\ fits' = fits
  BY <1>14 DEF FitStep, Restart, NormalRow, AnomalousRow, NextRow, Comparing, Accept, GiveUp,
               GivesUp, RowsDone, Move, MoveFails, Redraw
<1>15. ASSUME FitStep, fits = 1 PROVE FirstInv'
  BY <1>4, <1>6, <1>7, <1>8, <1>9, <1>11, <1>12, <1>13, <1>15 DEF FitStep
<1> QED BY <1>1, <1>2, <1>3, <1>14, <1>15 DEF Next

(* And it is of use, as long as an idle detector is ever moved and the     *)
(* first training is told from the later ones: each valid detector that    *)
(* was compared with every row lies close to an anomalous one.             *)
THEOREM AnomaliesReached ==
  ASSUME ActivationLimit > 0, FitsCounted > 1
  PROVE  Spec => []ReachesAnomaly
<1>1. Init => PassInv /\ FirstInv
  <2> SUFFICES ASSUME Init PROVE PassInv /\ FirstInv
    OBVIOUS
  <2>1. pc = "idle" /\ fits = 0 /\ \A d \in Det : ~is_valid[d] /\ ~found[d] /\ alarms[d] = 0
    BY DEF Init
  <2> QED BY <2>1 DEF PassInv, FirstInv
<1>2. ASSUME TypeOK, AttemptSettled, PassInv, FirstInv, [Next]_vars
      PROVE  PassInv' /\ FirstInv'
  <2>1. CASE Next
    BY <1>2, <2>1, PassStep, FirstStep
  <2>2. CASE UNCHANGED vars
    <3>1. UNCHANGED <<pc, fits, table, vmode, det, r, found, alarms, is_valid, k, i, row, attempt,
                      radius, r_min, r_minX, seen>>
      BY <2>2 DEF vars, data, pass
    <3>2. /\ Rows' = Rows /\ (\A n : IsNormal(n)' = IsNormal(n) /\ X(n)' = X(n))
          /\ (\A d : RadiusOf(d, vmode)' = RadiusOf(d, vmode)) /\ (\A d : Useful(d)' = Useful(d))
      BY <3>1 DEF Rows, IsNormal, X, RadiusOf, Useful
    <3>3. PassInv'
      BY <1>2, <3>1, <3>2 DEF PassInv
    <3>4. FirstInv'
      BY <1>2, <3>1, <3>2 DEF FirstInv
    <3> QED BY <3>3, <3>4
  <2> QED BY <1>2, <2>1, <2>2
<1>3. FirstInv => ReachesAnomaly
  BY DEF FirstInv, ReachesAnomaly, Useful
<1> QED BY <1>1, <1>2, <1>3, TypeCorrect, AttemptsSettle, PTL DEF Spec
=============================================================================
