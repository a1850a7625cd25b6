---------------------------- MODULE LoggerProofs ----------------------------
(***************************************************************************)
(* For every set of levels and filters, number of messages and stores, and *)
(* with memory that may run out at any call: a message put aside or being  *)
(* handed over never points to a freed text, only messages logged after    *)
(* the logger was closed can be forgotten, and the stores are given their  *)
(* messages once, in order and all of them.                                *)
(***************************************************************************)
EXTENDS Logger, TLAPS

Late == {"closed", "off"}

(* What is put aside while the logger is closed or the library off is      *)
(* late: iam__logger_manager_exit closes it with saved_logs drained.       *)
LateWhenClosed ==
  phase \in Late => \A i \in 1 .. Len(saved) : saved[i].phase \in Late

(* Messages are handed over directly only before the first iam_init.       *)
DirectEarly == (direct # << >> => ~accumulating) /\ (~accumulating => phase = "off")

Messages == [n : Nat, level : Levels \cup {{TraceBit}}, buf : Nat, phase : Phases]

IInv ==
  /\ saved \in Seq(Messages) /\ serial \in Nat /\ phase \in Phases
  /\ direct \in Seq([m : Messages, at : Nat, saving : BOOLEAN])
  /\ TextOutlivesMessage /\ LateWhenClosed /\ OnlyLateForgotten /\ DirectEarly

Frame(m) == [m |-> m, at |-> 1, saving |-> FALSE]

(* iam__logger_put adds its message to saved_logs, begins to hand it over  *)
(* or leaves both alone.                                                   *)
PutEffect(m) ==
  /\ saved' = saved \/ saved' = Append(saved, m)
  /\ direct' = direct \/ (~accumulating /\ direct' = Append(direct, Frame(m)))

LEMMA PutSaved ==
  ASSUME IInv, NEW l \in Levels \cup {{TraceBit}}, NEW t \in Nat, Put(Message(l, t))
  PROVE  Message(l, t) \in Messages /\ serial' \in Nat /\ PutEffect(Message(l, t))
<1>1. Message(l, t) \in Messages /\ serial' \in Nat
  BY DEF IInv, Put, NewMessage, Message, Messages
<1>2. PutEffect(Message(l, t))
  BY Zenon DEF Put, PutAside, PutDirect, PutNothing, PutEffect, Frame
<1> QED BY <1>1, <1>2

(* The three operations that log keep the invariant: the new message's     *)
(* text is a literal or allocated, and the message is late when it should. *)
LEMMA LogInv ==
  ASSUME IInv, NEW m \in Messages, PutEffect(m), accumulating' = accumulating,
         serial' \in Nat, phase' = phase, m.phase = phase, dropped' = dropped,
         text \subseteq text', m.buf # NoText => m.buf \in text'
  PROVE  IInv'
<1> USE DEF IInv
<1>1. saved' \in Seq(Messages) /\ phase' \in Phases
  BY DEF PutEffect
<1>2. \A i \in 1 .. Len(saved') :
        \/ i \in 1 .. Len(saved) /\ saved'[i] = saved[i]
        \/ saved'[i] = m
  <2>1. CASE saved' = saved
    BY <2>1
  <2>2. CASE saved' = Append(saved, m)
    BY <2>2
  <2> QED
    BY <2>1, <2>2 DEF PutEffect
<1>3. /\ direct' \in Seq([m : Messages, at : Nat, saving : BOOLEAN])
      /\ \A i \in 1 .. Len(direct') :
           \/ i \in 1 .. Len(direct) /\ direct'[i].m = direct[i].m
           \/ direct'[i].m = m
  <2>1. CASE direct' = direct
    BY <2>1
  <2>2. CASE direct' = Append(direct, Frame(m))
    <3>1. Frame(m) \in [m : Messages, at : Nat, saving : BOOLEAN] /\ Frame(m).m = m
      BY DEF Frame
    <3> QED BY <2>2, <3>1
  <2> QED
    BY <2>1, <2>2 DEF PutEffect
<1>4. TextOutlivesMessage'
  BY <1>2, <1>3 DEF TextOutlivesMessage, NoText
<1>5. LateWhenClosed'
  BY <1>2 DEF LateWhenClosed
<1>6. DirectEarly'
  BY DEF DirectEarly, PutEffect
<1> QED
  BY <1>1, <1>3, <1>4, <1>5, <1>6 DEF OnlyLateForgotten

(* The elements of a sequence.                                             *)
LEMMA ElementIn ==
  ASSUME NEW S, NEW q \in Seq(S), NEW k \in 1 .. Len(q)
  PROVE  q[k] \in S
  OBVIOUS

(* A sequence whose last element is replaced, or removed.                  *)
LEMMA LastReplaced ==
  ASSUME NEW S, NEW q \in Seq(S), q # << >>, NEW e \in S, NEW r,
         r = [q EXCEPT ![Len(q)] = e]
  PROVE  /\ r \in Seq(S) /\ Len(r) = Len(q) /\ r[Len(q)] = e
         /\ \A i \in 1 .. Len(q) : i # Len(q) => r[i] = q[i]
<1>1. Len(q) \in Nat /\ Len(q) \in 1 .. Len(q)
  OBVIOUS
<1> QED BY <1>1

LEMMA LastRemoved ==
  ASSUME NEW S, NEW q \in Seq(S), q # << >>, NEW r, r = Front(q)
  PROVE  /\ r \in Seq(S) /\ Len(r) = Len(q) - 1
         /\ \A i \in 1 .. Len(r) : i \in 1 .. Len(q) /\ i # Len(q) /\ r[i] = q[i]
<1>1. Len(q) \in Nat \ {0} /\ Len(q) - 1 \in Nat
  OBVIOUS
<1>2. r = SubSeq(q, 1, Len(q) - 1)
  BY DEF Front
<1>3. r \in Seq(S)
  BY <1>1, <1>2
<1>4. Len(r) = Len(q) - 1
  <2>1. CASE Len(q) = 1
    <3>1. r = SubSeq(q, 1, 0)
      BY <1>2, <2>1
    <3>2. SubSeq(q, 1, 0) = << >>
      OBVIOUS
    <3> QED BY <2>1, <3>1, <3>2
  <2>2. CASE Len(q) # 1
    <3> DEFINE n == Len(q)
    <3>1. n \in Nat /\ n # 0 /\ n # 1
      BY <1>1, <2>2
    <3>2. 1 <= n - 1
      <4> HIDE DEF n
      <4> QED BY <3>1
    <3> QED BY <1>1, <1>2, <3>2
  <2> QED BY <2>1, <2>2
<1>5. ASSUME NEW i \in 1 .. Len(r)
      PROVE  i \in 1 .. Len(q) /\ i # Len(q) /\ r[i] = q[i]
  BY <1>1, <1>2, <1>4, <1>5
<1> QED BY <1>3, <1>4, <1>5

(* Steps that touch neither the messages nor the texts, and do not let the *)
(* phase become late; and those of the direct loop.                        *)
LEMMA QuietInv ==
  ASSUME IInv, UNCHANGED <<saved, text, serial, dropped, accumulating, direct>>,
         phase' \in Phases, phase' \in Late => phase \in Late,
         accumulating \/ phase' = phase
  PROVE  IInv'
  BY DEF IInv, TextOutlivesMessage, LateWhenClosed, OnlyLateForgotten, DirectEarly

LEMMA DirectQuiet ==
  ASSUME IInv, DirectStep
  PROVE  IInv'
<1>1. UNCHANGED <<saved, text, serial, dropped, accumulating, phase>> /\ direct # << >>
  BY DEF DirectStep, DirectCall, DirectReturn, DirectSkip, DirectEnd, Directing, lists, history
<1> DEFINE F == [m : Messages, at : Nat, saving : BOOLEAN]
<1>2. direct \in Seq(F) /\ Top \in F
  <2>1. direct \in Seq(F) /\ Len(direct) \in 1 .. Len(direct)
    BY <1>1 DEF IInv
  <2> QED BY <2>1, ElementIn, Zenon DEF Top
<1>3. /\ direct' \in Seq(F)
      /\ \A i \in 1 .. Len(direct') : i \in 1 .. Len(direct) /\ direct'[i].m = direct[i].m
  <2>1. CASE DirectEnd
    <3>1. direct' = Front(direct)
      BY <2>1 DEF DirectEnd
    <3> HIDE DEF F
    <3> QED BY <1>1, <1>2, <3>1, LastRemoved
  <2>2. ASSUME NEW e \in F, e.m = Top.m, ReplaceTop(e)
        PROVE  /\ direct' \in Seq(F)
               /\ \A i \in 1 .. Len(direct') : i \in 1 .. Len(direct) /\ direct'[i].m = direct[i].m
    <3>1. direct' = [direct EXCEPT ![Len(direct)] = e]
      BY <2>2 DEF ReplaceTop
    <3> HIDE DEF F
    <3>2. /\ direct' \in Seq(F) /\ Len(direct') = Len(direct) /\ direct'[Len(direct)] = e
          /\ \A i \in 1 .. Len(direct) : i # Len(direct) => direct'[i] = direct[i]
      BY <1>1, <1>2, <3>1, LastReplaced
    <3> QED BY <2>2, <3>2 DEF Top
  <2>3. CASE DirectCall \/ DirectReturn \/ DirectSkip
    <3>1. \E e \in F : e.m = Top.m /\ ReplaceTop(e)
      <4>1. CASE DirectCall
        <5>1. [Top EXCEPT !.saving = TRUE] \in F /\ [Top EXCEPT !.saving = TRUE].m = Top.m
          BY <1>2
        <5> QED BY <4>1, <5>1 DEF DirectCall
      <4>2. CASE DirectReturn \/ DirectSkip
        <5>1. ForNextStore \in F /\ ForNextStore.m = Top.m
          BY <1>2 DEF ForNextStore
        <5> QED BY <4>2, <5>1 DEF DirectReturn, DirectSkip
      <4> QED BY <2>3, <4>1, <4>2
    <3> QED BY <2>2, <3>1
  <2> QED BY <2>1, <2>3 DEF DirectStep
<1>4. TextOutlivesMessage' /\ DirectEarly'
  BY <1>1, <1>3 DEF IInv, TextOutlivesMessage, DirectEarly
<1> QED
  BY <1>1, <1>3, <1>4 DEF IInv, LateWhenClosed, OnlyLateForgotten

(* IInv is inductive: LateWhenClosed is what remains to be known of the    *)
(* messages when iam__logger_manager_init drops the list.                  *)
LEMMA InductiveInvariant == Spec => []IInv
<1>1. Init => IInv
  BY DEF Init, IInv, TextOutlivesMessage, LateWhenClosed, OnlyLateForgotten, Phases,
     DirectEarly
<1>2. IInv /\ [Next]_vars => IInv'
  <2> SUFFICES ASSUME IInv, [Next]_vars PROVE IInv'
    OBVIOUS
  <2>1. ASSUME NEW l \in Levels, Puts(l) PROVE IInv'
    <3>1. Put(Message(l, NoText)) /\ UNCHANGED <<phase, text, dropped, accumulating>>
      BY <2>1 DEF Puts
    <3>2. Message(l, NoText).buf = NoText /\ Message(l, NoText).phase = phase
      BY DEF Message
    <3>3. l \in Levels \cup {{TraceBit}} /\ NoText \in Nat
      BY DEF NoText
    <3>4. Message(l, NoText) \in Messages /\ serial' \in Nat /\ PutEffect(Message(l, NoText))
      BY <3>1, <3>3, PutSaved
    <3> QED
      BY <3>1, <3>2, <3>4, LogInv
  <2>2. ASSUME NEW l \in Levels, Putf(l) PROVE IInv'
    <3>1. text' = text \cup {serial} /\ UNCHANGED <<phase, dropped, accumulating>>
          /\ serial \in Nat
      BY <2>2 DEF Putf, IInv
    <3>2. Message(l, serial).buf = serial /\ Message(l, serial).phase = phase
      BY DEF Message
    <3>3. CASE Put(Message(l, serial))
      BY <3>1, <3>2, <3>3, PutSaved, LogInv
    <3>4. CASE NewMessage /\ PutNothing
      <4>1. Message(l, serial) \in Messages /\ serial' \in Nat /\ PutEffect(Message(l, serial))
        BY <3>4, <3>1 DEF NewMessage, PutNothing, PutEffect, Message, Messages, IInv
      <4> QED
        BY <4>1, <3>1, <3>2, LogInv
    <3> QED
      BY <2>2, <3>3, <3>4 DEF Putf
  <2>3. ASSUME NEW f \in Filters, RegSave(f) PROVE IInv'
    <3>1. /\ Put(Message({TraceBit}, NoText))
          /\ UNCHANGED <<phase, text, dropped, accumulating>>
      BY <2>3 DEF RegSave
    <3>2. Message({TraceBit}, NoText).buf = NoText /\ Message({TraceBit}, NoText).phase = phase
      BY DEF Message
    <3> QED
      BY <3>1, <3>2, PutSaved, LogInv DEF NoText
  <2>4. CASE LoggerInit
    <3>1. \A m \in ToSet(saved) : m.phase \in Late
      BY <2>4 DEF LoggerInit, IInv, LateWhenClosed, Late, ToSet
    <3> QED
      BY <2>4, <3>1 DEF LoggerInit, IInv, TextOutlivesMessage, LateWhenClosed,
         OnlyLateForgotten, DirectEarly, Late, Phases
  <2>5. CASE Flush \/ LoadFailed \/ LoggerExit \/ IamExitReturns
    <3>1. accumulating
      BY <2>5 DEF Flush, LoadFailed, LoggerExit, IamExitReturns, IInv, DirectEarly
    <3> QED BY <2>5, <3>1, QuietInv DEF Flush, LoadFailed, LoggerExit, IamExitReturns, lists,
              drain, history, Phases, Late
  <2>6. CASE SaveCall \/ SaveReturn \/ SkipStore
    BY <2>6, QuietInv DEF SaveCall, SaveReturn, SkipStore, lists, history, IInv
  <2>7. CASE NextMessage
    <3>1. saved # << >> /\ saved' = Tail(saved) /\ UNCHANGED <<phase, text, serial, dropped, accumulating, direct>>
      BY <2>7 DEF NextMessage, Draining
    <3>2. /\ saved' \in Seq(Messages)
          /\ \A i \in 1 .. Len(saved') : i + 1 \in 1 .. Len(saved) /\ saved'[i] = saved[i + 1]
      BY <3>1 DEF IInv
    <3> QED
      BY <3>1, <3>2 DEF IInv, TextOutlivesMessage, LateWhenClosed, OnlyLateForgotten,
         DirectEarly
  <2>8. CASE FlushEnd \/ ExitEnd
    <3>1. accumulating /\ direct = << >>
      BY <2>8 DEF FlushEnd, ExitEnd, IInv, DirectEarly
    <3>2. /\ saved' = << >> /\ direct' = << >> /\ accumulating' /\ UNCHANGED <<serial, dropped>>
          /\ phase' \in Phases
      BY <2>8, <3>1 DEF FlushEnd, ExitEnd, lists, history, Phases
    <3>3. TextOutlivesMessage' /\ LateWhenClosed' /\ DirectEarly'
      BY <3>2 DEF TextOutlivesMessage, LateWhenClosed, DirectEarly
    <3> QED BY <3>2, <3>3 DEF IInv, OnlyLateForgotten
  <2>9. CASE UNCHANGED vars
    BY <2>9, QuietInv DEF vars, lists, history, IInv
  <2>10. CASE DirectStep
    BY <2>10, DirectQuiet
  <2> QED
    BY <2>1, <2>2, <2>3, <2>4, <2>5, <2>6, <2>7, <2>8, <2>9, <2>10 DEF Next, DrainStep
<1> QED
  BY <1>1, <1>2, PTL DEF Spec

(* save never reads a text that iam__logger_manager_exit has freed.        *)
THEOREM NoDanglingText == Spec => []TextOutlivesMessage
<1>1. IInv => TextOutlivesMessage
  BY DEF IInv
<1> QED
  BY <1>1, InductiveInvariant, PTL

(* Between iam_init and iam_exit no message is ever forgotten.             *)
THEOREM NothingForgotten == Spec => []OnlyLateForgotten
<1>1. IInv => OnlyLateForgotten
  BY DEF IInv
<1> QED
  BY <1>1, InductiveInvariant, PTL
-----------------------------------------------------------------------------
(* Types.                                                                  *)

FrameSet == [m : MessageSet, at : Nat \ {0}, saving : BOOLEAN]
Pairs == (1 .. MaxMessages) \X (1 .. MaxMessages)

(* What a call that logs changes.                                          *)
LEMMA PutType ==
  ASSUME TypeOK, NEW l \in Levels \cup {{TraceBit}}, NEW t \in 0 .. MaxMessages,
         Put(Message(l, t))
  PROVE  /\ serial \in 1 .. MaxMessages /\ serial' = serial + 1
         /\ serial' \in 1 .. MaxMessages + 1
         /\ saved' \in Seq(MessageSet)
         /\ direct' \in Frames
         /\ within' \subseteq (1 .. MaxMessages) \X (1 .. MaxMessages)
<1> DEFINE m == Message(l, t)
<1>1. serial \in 1 .. MaxMessages /\ serial' = serial + 1
  BY BoundAssumption DEF Put, NewMessage, TypeOK
<1>2. m \in MessageSet /\ m.n = serial
  BY <1>1 DEF Message, MessageSet, TypeOK
<1>3. /\ saved \in Seq(MessageSet) /\ direct \in Seq(FrameSet)
      /\ within \subseteq Pairs
  BY DEF TypeOK, Frames, FrameSet, Pairs
<1> HIDE DEF m
<1>4. saved' = saved \/ saved' = Append(saved, m)
  BY DEF Put, PutAside, PutDirect, PutNothing, m
<1>5. saved' \in Seq(MessageSet)
  BY <1>2, <1>3, <1>4
<1>6. direct' = direct \/ direct' = Append(direct, Frame(m))
  BY Zenon DEF Put, PutAside, PutDirect, PutNothing, Frame, m
<1>7. direct' \in Seq(FrameSet)
  <2>1. Frame(m) \in FrameSet
    BY <1>2 DEF Frame, FrameSet
  <2> QED BY <1>3, <1>6, <2>1
<1>8. \/ within' = within
      \/ within' = within \cup {<<m.n, direct[i].m.n>> : i \in 1 .. Len(direct)}
  BY Zenon DEF Put, PutAside, PutDirect, PutNothing, m
<1>9. within' \subseteq Pairs
  <2>1. \A i \in 1 .. Len(direct) : direct[i] \in FrameSet
    BY <1>3, ElementIn, Zenon
  <2>2. \A i \in 1 .. Len(direct) : direct[i].m.n \in 1 .. MaxMessages
    BY <2>1 DEF FrameSet, MessageSet
  <2>3. {<<m.n, direct[i].m.n>> : i \in 1 .. Len(direct)} \subseteq Pairs
    BY <1>1, <1>2, <2>2 DEF Pairs
  <2> QED BY <1>3, <1>8, <2>3
<1>10. serial' \in 1 .. MaxMessages + 1
  BY <1>1, BoundAssumption
<1> QED
  BY <1>1, <1>5, <1>7, <1>9, <1>10 DEF Frames, FrameSet, Pairs

(* The type invariant is inductive by itself.                              *)
LEMMA TypeStep == TypeOK /\ [Next]_vars => TypeOK'
<1> SUFFICES ASSUME TypeOK, [Next]_vars PROVE TypeOK'
  OBVIOUS
<1>1. ASSUME NEW l \in Levels, Puts(l) PROVE TypeOK'
  <2>1. Put(Message(l, NoText)) /\ UNCHANGED <<phase, accumulating, stores, bufs,
          text, at, saving, registered, delivered, drained, dropped>>
    BY <1>1 DEF Puts, drain
  <2>2. l \in Levels \cup {{TraceBit}} /\ NoText \in 0 .. MaxMessages
    BY BoundAssumption DEF NoText
  <2>3. /\ serial' \in 1 .. MaxMessages + 1 /\ saved' \in Seq(MessageSet)
        /\ direct' \in Frames /\ within' \subseteq (1 .. MaxMessages) \X (1 .. MaxMessages)
    BY <2>1, <2>2, PutType
  <2> QED BY <2>1, <2>3, Zenon DEF TypeOK
<1>2. ASSUME NEW l \in Levels, Putf(l) PROVE TypeOK'
  <2>1. /\ NewMessage /\ text' = text \cup {serial}
        /\ UNCHANGED <<phase, accumulating, stores, at, saving, registered, delivered, drained,
             dropped>>
    BY <1>2 DEF Putf, Put, drain
  <2>2. /\ serial \in 1 .. MaxMessages /\ serial' \in 1 .. MaxMessages + 1
        /\ serial \in 0 .. MaxMessages /\ text' \subseteq 1 .. MaxMessages
        /\ l \in Levels \cup {{TraceBit}}
        /\ bufs \in Seq(1 .. MaxMessages)
    BY <2>1, BoundAssumption DEF NewMessage, TypeOK
  <2>3. /\ saved' \in Seq(MessageSet) /\ bufs' \in Seq(1 .. MaxMessages)
        /\ direct' \in Frames /\ within' \subseteq (1 .. MaxMessages) \X (1 .. MaxMessages)
    <3>1. CASE Put(Message(l, serial)) /\ bufs' = Append(bufs, serial)
      <4>1. bufs' \in Seq(1 .. MaxMessages)
        BY <2>2, <3>1
      <4> QED BY <2>2, <3>1, <4>1, PutType
    <3>2. CASE UNCHANGED bufs /\ PutNothing
      BY <3>2, Zenon DEF TypeOK, PutNothing
    <3> QED BY <1>2, <3>1, <3>2 DEF Putf
  <2> QED BY <2>1, <2>2, <2>3, Zenon DEF TypeOK
<1>3. ASSUME NEW f \in Filters, RegSave(f) PROVE TypeOK'
  <2>1. /\ Put(Message({TraceBit}, NoText))
        /\ registered < MaxStores /\ registered' = registered + 1
        /\ stores' = Append(stores, [id |-> registered', filter |-> f])
        /\ UNCHANGED <<phase, accumulating, bufs, text, at, saving, delivered, drained,
             dropped>>
    BY <1>3 DEF RegSave, drain
  <2>2. registered' \in 0 .. MaxStores /\ registered' \in 1 .. MaxStores
    BY <2>1, BoundAssumption DEF TypeOK
  <2>3. stores' \in Seq([id : 1 .. MaxStores, filter : Filters])
    <3>1. stores \in Seq([id : 1 .. MaxStores, filter : Filters])
      BY DEF TypeOK
    <3> QED BY <2>1, <2>2, <3>1
  <2>4. {TraceBit} \in Levels \cup {{TraceBit}} /\ NoText \in 0 .. MaxMessages
    BY BoundAssumption DEF NoText
  <2>5. /\ serial' \in 1 .. MaxMessages + 1 /\ saved' \in Seq(MessageSet)
        /\ direct' \in Frames /\ within' \subseteq (1 .. MaxMessages) \X (1 .. MaxMessages)
    BY <2>1, <2>4, PutType
  <2> QED BY <2>1, <2>2, <2>3, <2>5, Zenon DEF TypeOK
<1>4. CASE LoggerInit
  <2>1. /\ phase' = "loading" /\ accumulating' = TRUE /\ saved' = << >> /\ stores' = << >>
        /\ dropped' = dropped \cup ToSet(saved)
        /\ UNCHANGED <<bufs, text, at, saving, serial, registered, delivered, drained, direct,
             within>>
    BY <1>4 DEF LoggerInit, drain
  <2>2. /\ dropped' \subseteq MessageSet /\ saved' \in Seq(MessageSet)
        /\ stores' \in Seq([id : 1 .. MaxStores, filter : Filters])
    BY <2>1 DEF TypeOK, ToSet
  <2> QED BY <2>1, <2>2, Zenon DEF TypeOK, Phases
<1>5. CASE Flush
  BY <1>5 DEF Flush, TypeOK, Phases, lists, drain, history
<1>6. CASE LoadFailed
  BY <1>6 DEF LoadFailed, TypeOK, Phases, lists, drain, history
<1>7. CASE LoggerExit
  BY <1>7 DEF LoggerExit, TypeOK, Phases, lists, drain, history
<1>8. CASE IamExitReturns
  BY <1>8 DEF IamExitReturns, TypeOK, Phases, lists, drain, history
<1>9. CASE SaveCall
  <2>1. /\ saving' = TRUE /\ UNCHANGED <<phase, accumulating, saved, stores, bufs, text, at,
             serial, registered, drained, dropped, direct, within>>
        /\ delivered' = [delivered EXCEPT ![stores[at].id] = Append(@, Head(saved).n)]
    BY <1>9 DEF SaveCall, lists
  <2>2. /\ Head(saved) \in MessageSet
        /\ stores[at] \in [id : 1 .. MaxStores, filter : Filters]
    <3>1. at \in 1 .. Len(stores) /\ saved # << >>
      BY <1>9 DEF SaveCall, Draining, TypeOK
    <3>2. /\ saved \in Seq(MessageSet)
          /\ stores \in Seq([id : 1 .. MaxStores, filter : Filters])
      BY DEF TypeOK
    <3>3. Head(saved) \in MessageSet
      BY <3>1, <3>2
    <3> QED BY <3>1, <3>2, <3>3, ElementIn, Zenon
  <2>3. stores[at].id \in 1 .. MaxStores /\ Head(saved).n \in 1 .. MaxMessages
    BY <2>2 DEF MessageSet
  <2>4. delivered' \in [1 .. MaxStores -> Seq(1 .. MaxMessages)]
    BY <2>1, <2>3 DEF TypeOK
  <2> QED BY <2>1, <2>4, Zenon DEF TypeOK
<1>10. CASE SaveReturn \/ SkipStore
  <2>1. /\ at' = at + 1 /\ (saving' = FALSE \/ saving' = saving)
        /\ UNCHANGED <<phase, accumulating, saved, stores, bufs, text, serial, registered,
             delivered, drained, dropped, direct, within>>
    BY <1>10 DEF SaveReturn, SkipStore, lists, history
  <2>2. at' \in Nat
    BY <1>10 DEF SaveReturn, SkipStore, TypeOK
  <2> QED BY <2>1, <2>2, Zenon DEF TypeOK
<1>11. CASE NextMessage
  <2>1. /\ saved # << >> /\ saved' = Tail(saved) /\ at' = 1
        /\ drained' = drained \cup {Head(saved)}
        /\ UNCHANGED <<phase, accumulating, stores, bufs, text, saving, serial, registered,
             delivered, dropped, direct, within>>
    BY <1>11 DEF NextMessage, Draining
  <2>2. saved' \in Seq(MessageSet) /\ Head(saved) \in MessageSet /\ at' \in Nat
    BY <2>1 DEF TypeOK
  <2> QED BY <2>1, <2>2 DEF TypeOK
<1>12. CASE FlushEnd
  BY <1>12 DEF FlushEnd, TypeOK, Phases, lists, history
<1>13. CASE ExitEnd
  <2>1. /\ phase' = "closed" /\ at' = 0 /\ stores' = << >> /\ bufs' = << >>
        /\ text' \subseteq text
        /\ UNCHANGED <<accumulating, saved, saving, serial, registered, delivered, drained,
             dropped, direct, within>>
    BY <1>13 DEF ExitEnd, history
  <2> QED BY <2>1 DEF TypeOK, Phases
<1>14. CASE UNCHANGED vars
  BY <1>14 DEF vars, lists, drain, history, TypeOK
<1>15. CASE DirectStep
  <2>1. /\ direct # << >> /\ direct \in Seq(FrameSet)
        /\ UNCHANGED <<phase, accumulating, saved, stores, bufs, text, at, saving, serial,
             registered, dropped, within>>
    BY <1>15 DEF DirectStep, DirectCall, DirectReturn, DirectSkip, DirectEnd, Directing,
       lists, drain, history, TypeOK, Frames, FrameSet
  <2>2. Len(direct) \in 1 .. Len(direct) /\ Top \in FrameSet
    BY <2>1 DEF Top
  <2>3. /\ Top.m \in MessageSet /\ Top.at \in Nat \ {0} /\ Top.m.n \in 1 .. MaxMessages
    BY <2>2 DEF FrameSet, MessageSet
  <2>4. ASSUME NEW e \in FrameSet, ReplaceTop(e)
        PROVE  direct' \in Seq(FrameSet)
    <3>1. direct' = [direct EXCEPT ![Len(direct)] = e]
      BY <2>4 DEF ReplaceTop
    <3> QED BY <2>1, <3>1, LastReplaced
  <2>5. CASE DirectCall
    <3>1. UNCHANGED drained /\ ReplaceTop([Top EXCEPT !.saving = TRUE])
      BY <2>5 DEF DirectCall
    <3>2. direct' \in Seq(FrameSet)
      <4>1. [Top EXCEPT !.saving = TRUE] \in FrameSet
        BY <2>2 DEF FrameSet
      <4> QED BY <2>4, <3>1, <4>1
    <3>3. stores[Top.at].id \in 1 .. MaxStores
      <4>1. Top.at <= Len(stores) /\ stores \in Seq([id : 1 .. MaxStores, filter : Filters])
        BY <2>5 DEF DirectCall, TypeOK
      <4>2. Top.at \in 1 .. Len(stores)
        BY <2>3, <4>1
      <4>3. stores[Top.at] \in [id : 1 .. MaxStores, filter : Filters]
        BY <4>1, <4>2, ElementIn, Zenon
      <4> QED BY <4>3
    <3>4. delivered' \in [1 .. MaxStores -> Seq(1 .. MaxMessages)]
      <4>1. delivered' = [delivered EXCEPT ![stores[Top.at].id] = Append(@, Top.m.n)]
        BY <2>5 DEF DirectCall
      <4> QED BY <2>3, <3>3, <4>1 DEF TypeOK
    <3> QED BY <2>1, <3>1, <3>2, <3>4, Zenon DEF TypeOK, Frames, FrameSet
  <2>6. CASE DirectReturn \/ DirectSkip
    <3>1. UNCHANGED <<delivered, drained>> /\ ReplaceTop(ForNextStore)
      BY <2>6 DEF DirectReturn, DirectSkip, history
    <3>2. direct' \in Seq(FrameSet)
      <4>1. ForNextStore \in FrameSet
        BY <2>3 DEF FrameSet, ForNextStore
      <4> QED BY <2>4, <3>1, <4>1
    <3> QED BY <2>1, <3>1, <3>2, Zenon DEF TypeOK, Frames, FrameSet
  <2>8. CASE DirectEnd
    <3>1. direct' = Front(direct) /\ UNCHANGED delivered /\ drained' = drained \cup {Top.m}
      BY <2>8 DEF DirectEnd
    <3>2. direct' \in Seq(FrameSet)
      BY <2>1, <3>1, LastRemoved
    <3>3. drained' \subseteq MessageSet
      BY <2>3, <3>1 DEF TypeOK
    <3> QED BY <2>1, <3>1, <3>2, <3>3, Zenon DEF TypeOK, Frames, FrameSet
  <2> QED BY <1>15, <2>5, <2>6, <2>8 DEF DirectStep
<1> QED
  BY <1>1, <1>2, <1>3, <1>4, <1>5, <1>6, <1>7, <1>8, <1>9, <1>10, <1>11, <1>12, <1>13,
     <1>14, <1>15 DEF Next, DrainStep

(* The logger's globals, the drain's position and the history have their   *)
(* types in every state.                                                   *)
THEOREM TypeCorrect == Spec => []TypeOK
<1>1. Init => TypeOK
  <2> SUFFICES ASSUME Init PROVE TypeOK
    OBVIOUS
  <2>1. delivered \in [1 .. MaxStores -> Seq(1 .. MaxMessages)]
    BY DEF Init
  <2>2. serial \in 1 .. MaxMessages + 1 /\ registered \in 0 .. MaxStores
    BY BoundAssumption DEF Init
  <2>3. /\ saved \in Seq(MessageSet) /\ bufs \in Seq(1 .. MaxMessages)
        /\ stores \in Seq([id : 1 .. MaxStores, filter : Filters])
        /\ direct \in Frames
    BY DEF Init, Frames
  <2> QED BY <2>1, <2>2, <2>3 DEF Init, TypeOK, Phases
<1> QED
  BY <1>1, TypeStep, PTL DEF Spec
-----------------------------------------------------------------------------
(* The order of delivery.                                                  *)

(* Messages are put aside in the order of their numbers, which are used    *)
(* up.                                                                     *)
Queued ==
  \A i \in 1 .. Len(saved) :
    saved[i].n < serial /\ \A j \in 1 .. Len(saved) : i < j => saved[i].n < saved[j].n

Past ==
  \A id \in 1 .. MaxStores : \A i \in 1 .. Len(delivered[id]) : delivered[id][i] < serial

(* Stores are numbered as they register; one to come has been given        *)
(* nothing.                                                                *)
Numbered ==
  /\ \A p \in 1 .. Len(stores) : stores[p].id <= registered
  /\ \A p, q \in 1 .. Len(stores) : stores[p].id = stores[q].id => p = q
  /\ \A id \in 1 .. MaxStores : id > registered => delivered[id] = << >>

(* The drain has passed the store p with the first message of saved_logs.  *)
Passed(p) == p < at \/ (p = at /\ saving)

(* What the stores have been given comes before what is put aside, but for *)
(* the message in hand and the stores the drain has passed with it.        *)
Before ==
  \A p \in 1 .. Len(stores) : \A i \in 1 .. Len(delivered[stores[p].id]) :
    \A j \in 1 .. Len(saved) :
      /\ delivered[stores[p].id][i] <= saved[j].n
      /\ ~Passed(p) => delivered[stores[p].id][i] < saved[j].n

(* The stores the drain has passed with the message in hand have it, if it *)
(* passes their filter.                                                    *)
InHand ==
  saved # << >> =>
    \A p \in 1 .. Len(stores) :
      Passed(p) /\ Passes(stores[p].filter, saved[1].level) =>
        \E i \in 1 .. Len(delivered[stores[p].id]) : delivered[stores[p].id][i] = saved[1].n

(* A save function runs on a message that is still put aside, and within a *)
(* drain; nothing is put aside before the first iam_init.                  *)
Draws ==
  /\ saving => at <= Len(stores) /\ saved # << >>
  /\ at > 0 <=> phase \in {"flushing", "closing"}
  /\ saving => at > 0
  /\ ~accumulating => saved = << >>

(* The call f of iam__logger_put has passed the store p with its message.  *)
PassedBy(f, p) == p < f.at \/ (p = f.at /\ f.saving)

(* x may reach a store before n: it was logged earlier, or by a save       *)
(* function while n was handed over directly.                              *)
MayPrecede(x, n) == x # n /\ (x < n \/ <<x, n>> \in within)
MayPrecedeNext(x, n) == x # n /\ (x < n \/ <<x, n>> \in within')

(* Of the direct calls in progress each but the last is in a save function, *)
(* which logged the messages of those above it.                            *)
Stacked ==
  \A i \in 1 .. Len(direct) :
    /\ direct[i].m.n < serial
    /\ direct[i].saving => direct[i].at <= Len(stores)
    /\ \A j \in 1 .. Len(direct) :
         i < j => direct[i].saving /\ MayPrecede(direct[j].m.n, direct[i].m.n)

(* A store that a call has yet to reach has been given only what may come  *)
(* before its message; those it has passed have it, if they let it pass.   *)
Ahead ==
  \A i \in 1 .. Len(direct) : \A p \in 1 .. Len(stores) :
    ~PassedBy(direct[i], p) =>
      \A k \in 1 .. Len(delivered[stores[p].id]) :
        MayPrecede(delivered[stores[p].id][k], direct[i].m.n)

Given ==
  \A i \in 1 .. Len(direct) : \A p \in 1 .. Len(stores) :
    PassedBy(direct[i], p) /\ Passes(stores[p].filter, direct[i].m.level) =>
      \E k \in 1 .. Len(delivered[stores[p].id]) :
        delivered[stores[p].id][k] = direct[i].m.n

DirectInv == DirectEarly /\ Stacked /\ Ahead /\ Given

OrderInv == Queued /\ Past /\ Numbered /\ Before /\ InHand /\ Draws /\ InOrderOnce

(* A message is logged; a store may have registered with it.               *)
LEMMA PutOrder ==
  ASSUME TypeOK, TypeOK', OrderInv, DirectInv, NEW m, m.n = serial, Put(m), CallerRuns,
         delivered' = delivered,
         UNCHANGED <<phase, accumulating, at, saving>>,
         \/ UNCHANGED <<stores, registered>>
         \/ /\ registered' = registered + 1
            /\ \E f \in Filters : stores' = Append(stores, [id |-> registered', filter |-> f])
  PROVE  OrderInv' /\ DirectInv'
<1>0. /\ within \subseteq within' /\ (accumulating => direct = << >>)
      /\ at = 0 \/ saving
  <2>1. within \subseteq within'
    BY DEF Put, PutAside, PutDirect, PutNothing
  <2>2. accumulating => direct = << >>
    BY DEF DirectInv, DirectEarly
  <2>3. ASSUME direct = << >> PROVE at = 0 \/ saving
    BY <2>3, Zenon DEF CallerRuns
  <2>4. ASSUME direct # << >> PROVE at = 0 \/ saving
    <3>1. phase = "off" /\ at \in Nat
      BY <2>4 DEF DirectInv, DirectEarly, TypeOK
    <3>2. ~(at > 0)
      BY <3>1 DEF OrderInv, Draws
    <3> QED BY <3>1, <3>2
  <2> QED BY <2>1, <2>2, <2>3, <2>4
<1>1. /\ serial \in Nat /\ serial' = serial + 1 /\ at \in Nat /\ registered \in Nat
      /\ saved \in Seq(MessageSet) /\ saved' \in Seq(MessageSet)
      /\ delivered \in [1 .. MaxStores -> Seq(1 .. MaxMessages)]
      /\ delivered' \in [1 .. MaxStores -> Seq(1 .. MaxMessages)]
  BY DEF TypeOK, Put, NewMessage
<1>2. /\ stores \in Seq([id : 1 .. MaxStores, filter : Filters])
      /\ stores' \in Seq([id : 1 .. MaxStores, filter : Filters])
  BY DEF TypeOK
<1>3. \A x \in MessageSet : x.n \in Nat
  BY DEF MessageSet
<1>4. \A id \in 1 .. MaxStores : \A k \in 1 .. Len(delivered[id]) :
        delivered[id][k] \in Nat /\ delivered[id][k] < serial
  <2> TAKE id \in 1 .. MaxStores
  <2> TAKE k \in 1 .. Len(delivered[id])
  <2>1. delivered[id] \in Seq(1 .. MaxMessages)
    BY <1>1
  <2>2. delivered[id][k] \in 1 .. MaxMessages
    BY <2>1, ElementIn, Zenon
  <2> QED BY <2>2, BoundAssumption DEF OrderInv, Past
(* The stores: those of before, and perhaps one more.                      *)
<1> DEFINE Joined ==
      /\ \A q \in 1 .. Len(stores') :
           \/ q \in 1 .. Len(stores) /\ stores'[q] = stores[q]
           \/ /\ q = Len(stores) + 1 /\ stores'[q].id = registered + 1
              /\ registered' = registered + 1
      /\ \A q \in 1 .. Len(stores') : stores'[q].id \in 1 .. MaxStores
      /\ \A q \in 1 .. Len(stores) : stores[q].id \in 1 .. MaxStores
      /\ registered' \in Nat /\ registered <= registered'
      /\ Len(stores) <= Len(stores')
<1>5. Joined
  <2> DEFINE Store == [id : 1 .. MaxStores, filter : Filters]
  <2>0. /\ \A q \in 1 .. Len(stores') : stores'[q] \in Store
        /\ \A q \in 1 .. Len(stores) : stores[q] \in Store
    BY <1>2, ElementIn, Zenon
  <2>00. /\ \A q \in 1 .. Len(stores') : stores'[q].id \in 1 .. MaxStores
         /\ \A q \in 1 .. Len(stores) : stores[q].id \in 1 .. MaxStores
    BY <2>0
  <2>1. CASE UNCHANGED <<stores, registered>>
    BY <1>1, <2>00, <2>1
  <2>2. ASSUME NEW f \in Filters, registered' = registered + 1,
               stores' = Append(stores, [id |-> registered', filter |-> f])
        PROVE  Joined
    <3>1. /\ Len(stores') = Len(stores) + 1
          /\ \A q \in 1 .. Len(stores') :
               \/ q \in 1 .. Len(stores) /\ stores'[q] = stores[q]
               \/ q = Len(stores) + 1 /\ stores'[q] = [id |-> registered', filter |-> f]
      BY <1>2, <2>2
    <3>2. Len(stores) \in Nat
      BY <1>2
    <3> QED BY <1>1, <2>2, <2>00, <3>1, <3>2
  <2> QED BY <2>1, <2>2
<1>6. /\ \A p \in 1 .. Len(stores') : stores'[p].id <= registered'
      /\ \A p, q \in 1 .. Len(stores') : stores'[p].id = stores'[q].id => p = q
  <2>1. /\ \A p \in 1 .. Len(stores) : stores[p].id <= registered /\ stores[p].id \in Nat
        /\ \A p, q \in 1 .. Len(stores) : stores[p].id = stores[q].id => p = q
    BY <1>5, BoundAssumption DEF OrderInv, Numbered
  <2>2. Len(stores) \in Nat /\ Len(stores') \in Nat
    BY <1>2
  <2>3. \A p \in 1 .. Len(stores') : stores'[p].id <= registered'
    BY <1>1, <1>5, <2>1
  <2>4. ASSUME NEW p \in 1 .. Len(stores'), NEW q \in 1 .. Len(stores'),
               stores'[p].id = stores'[q].id
        PROVE  p = q
    BY <1>1, <1>5, <2>1, <2>4
  <2> QED BY <2>3, <2>4
(* A store that has just registered is beyond the one the drain has        *)
(* reached, and has been given nothing.                                    *)
<1>7. \A q \in 1 .. Len(stores') : Passed(q)' <=> Passed(q)
  BY DEF Passed
<1>8. \A q \in 1 .. Len(stores') :
        ~(q \in 1 .. Len(stores)) => ~Passed(q) /\ delivered[stores'[q].id] = << >>
  <2> SUFFICES ASSUME NEW q \in 1 .. Len(stores'), ~(q \in 1 .. Len(stores))
               PROVE  ~Passed(q) /\ delivered[stores'[q].id] = << >>
    OBVIOUS
  <2>1. q = Len(stores) + 1 /\ stores'[q].id = registered + 1 /\ stores'[q].id \in 1 .. MaxStores
    BY <1>5
  <2>2. ~Passed(q)
    BY <1>0, <1>1, <1>2, <2>1 DEF Passed, OrderInv, Draws
  <2> QED BY <1>1, <2>1, <2>2 DEF OrderInv, Numbered
<1>9. ASSUME accumulating, saved' = Append(saved, m) PROVE OrderInv'
  <2>1. /\ Len(saved') = Len(saved) + 1
        /\ \A i \in 1 .. Len(saved') :
             \/ i \in 1 .. Len(saved) /\ saved'[i] = saved[i]
             \/ i = Len(saved) + 1 /\ saved'[i].n = serial
    BY <1>1, <1>9
  <2>2. Queued'
    <3>1. \A k \in 1 .. Len(saved) : saved[k].n \in Nat
      BY <1>1, <1>3
    <3>2. Len(saved) \in Nat
      BY <1>1
    <3>3. \A i \in 1 .. Len(saved') : saved'[i].n < serial'
      BY <1>1, <2>1, <3>1 DEF OrderInv, Queued
    <3>4. ASSUME NEW i \in 1 .. Len(saved'), NEW j \in 1 .. Len(saved'), i < j
          PROVE  saved'[i].n < saved'[j].n
      BY <2>1, <3>1, <3>2, <3>4 DEF OrderInv, Queued
    <3> QED BY <3>3, <3>4 DEF Queued
  <2>3. Past' /\ InOrderOnce'
    BY <1>0, <1>1, <1>4, <1>9 DEF OrderInv, Past, InOrderOnce
  <2>4. Numbered'
    BY <1>1, <1>5, <1>6, <1>9 DEF OrderInv, Numbered
  <2>5. Before'
    <3> SUFFICES ASSUME NEW p \in 1 .. Len(stores'), NEW i \in 1 .. Len(delivered'[stores'[p].id]),
                        NEW j \in 1 .. Len(saved')
                 PROVE  /\ delivered'[stores'[p].id][i] <= saved'[j].n
                        /\ ~Passed(p) => delivered'[stores'[p].id][i] < saved'[j].n
      BY <1>7 DEF Before
    <3>1. p \in 1 .. Len(stores) /\ stores'[p] = stores[p] /\ stores[p].id \in 1 .. MaxStores
      BY <1>5, <1>8, <1>9
    <3>2. delivered[stores[p].id][i] \in Nat /\ delivered[stores[p].id][i] < serial
      BY <1>4, <1>9, <3>1
    <3>3. CASE j \in 1 .. Len(saved) /\ saved'[j] = saved[j]
      BY <1>9, <3>1, <3>3 DEF OrderInv, Before
    <3>4. CASE saved'[j].n = serial
      BY <1>1, <1>9, <3>1, <3>2, <3>4
    <3> QED BY <2>1, <3>3, <3>4
  <2>6. InHand'
    <3>1. CASE saved = << >>
      <4>1. ~saving /\ at = 0
        BY <1>0, <1>1, <3>1 DEF OrderInv, Draws
      <4> QED BY <4>1, <1>1, <1>2, <1>7 DEF InHand, Passed
    <3>2. CASE saved # << >>
      <4>1. saved'[1] = saved[1]
        BY <1>1, <1>9, <3>2
      <4> SUFFICES ASSUME NEW p \in 1 .. Len(stores'), Passed(p),
                          Passes(stores'[p].filter, saved[1].level)
                   PROVE  \E i \in 1 .. Len(delivered[stores'[p].id]) :
                            delivered[stores'[p].id][i] = saved[1].n
        BY <1>7, <1>9, <4>1 DEF InHand
      <4>2. p \in 1 .. Len(stores) /\ stores'[p] = stores[p]
        BY <1>5, <1>8
      <4> QED BY <3>2, <4>2 DEF OrderInv, InHand
    <3> QED BY <3>1, <3>2
  <2>7. Draws'
    <3>1. saved' # << >>
      BY <1>1, <1>9
    <3>2. at <= Len(stores) => at <= Len(stores')
      BY <1>1, <1>2, <1>5
    <3>3. accumulating'
      BY <1>9
    <3> QED BY <3>1, <3>2, <3>3, Zenon DEF OrderInv, Draws
  <2> QED BY <2>2, <2>3, <2>4, <2>5, <2>6, <2>7 DEF OrderInv
<1>11. ASSUME UNCHANGED saved PROVE OrderInv'
  <2>1. Queued' /\ Past' /\ InOrderOnce'
    BY <1>0, <1>1, <1>3, <1>4, <1>11 DEF OrderInv, Queued, Past, InOrderOnce
  <2>2. Numbered'
    BY <1>1, <1>5, <1>6, <1>11 DEF OrderInv, Numbered
  <2>3. Before'
    <3> SUFFICES ASSUME NEW p \in 1 .. Len(stores'), NEW i \in 1 .. Len(delivered[stores'[p].id]),
                        NEW j \in 1 .. Len(saved)
                 PROVE  /\ delivered[stores'[p].id][i] <= saved[j].n
                        /\ ~Passed(p) => delivered[stores'[p].id][i] < saved[j].n
      BY <1>7, <1>11 DEF Before
    <3>1. delivered[stores'[p].id] # << >>
      BY <1>1, <1>5
    <3>2. p \in 1 .. Len(stores) /\ stores'[p] = stores[p]
      BY <1>5, <1>8, <3>1
    <3> QED BY <3>2 DEF OrderInv, Before
  <2>4. InHand'
    <3> SUFFICES ASSUME saved # << >>, NEW p \in 1 .. Len(stores'), Passed(p),
                        Passes(stores'[p].filter, saved[1].level)
                 PROVE  \E i \in 1 .. Len(delivered[stores'[p].id]) :
                          delivered[stores'[p].id][i] = saved[1].n
      BY <1>7, <1>11 DEF InHand
    <3>1. p \in 1 .. Len(stores) /\ stores'[p] = stores[p]
      BY <1>5, <1>8
    <3> QED BY <3>1 DEF OrderInv, InHand
  <2>5. Draws'
    BY <1>1, <1>2, <1>5, <1>11 DEF OrderInv, Draws
  <2> QED BY <2>1, <2>2, <2>3, <2>4, <2>5 DEF OrderInv
<1>12. DirectInv'
  <2>1. /\ direct \in Seq(FrameSet) /\ Len(direct) \in Nat
        /\ \A i \in 1 .. Len(direct) : direct[i].m.n \in Nat /\ direct[i].at \in Nat \ {0}
    <3>1. direct \in Seq(FrameSet)
      BY DEF TypeOK, Frames, FrameSet
    <3>2. ASSUME NEW i \in 1 .. Len(direct)
          PROVE  direct[i].m.n \in Nat /\ direct[i].at \in Nat \ {0}
      <4>1. direct[i] \in FrameSet
        BY <3>1, ElementIn, Zenon
      <4> QED BY <1>3, <4>1 DEF FrameSet
    <3> QED BY <3>1, <3>2
  <2>2. \A i \in 1 .. Len(direct) :
          direct[i].saving /\ direct[i].at <= Len(stores) /\ direct[i].m.n < serial
    <3>1. direct # << >> => direct[Len(direct)].saving
      BY DEF CallerRuns, Top
    <3> QED BY <2>1, <3>1 DEF DirectInv, Stacked
  <2>3. \A x, n : MayPrecede(x, n) => MayPrecedeNext(x, n)
    BY <1>0 DEF MayPrecede, MayPrecedeNext
  <2>4. \A q \in 1 .. Len(stores') : \A i \in 1 .. Len(direct) :
          ~(q \in 1 .. Len(stores)) => ~PassedBy(direct[i], q)
    BY <1>2, <1>5, <2>1, <2>2 DEF PassedBy
  <2>5. /\ \A i \in 1 .. Len(direct) : \A q \in 1 .. Len(stores') :
             ~PassedBy(direct[i], q) =>
               \A k \in 1 .. Len(delivered[stores'[q].id]) :
                 MayPrecede(delivered[stores'[q].id][k], direct[i].m.n)
        /\ \A i \in 1 .. Len(direct) : \A q \in 1 .. Len(stores') :
             PassedBy(direct[i], q) /\ Passes(stores'[q].filter, direct[i].m.level) =>
               \E k \in 1 .. Len(delivered[stores'[q].id]) :
                 delivered[stores'[q].id][k] = direct[i].m.n
    <3> SUFFICES ASSUME NEW i \in 1 .. Len(direct), NEW q \in 1 .. Len(stores')
                 PROVE  /\ ~PassedBy(direct[i], q) =>
                             \A k \in 1 .. Len(delivered[stores'[q].id]) :
                               MayPrecede(delivered[stores'[q].id][k], direct[i].m.n)
                        /\ PassedBy(direct[i], q) /\ Passes(stores'[q].filter, direct[i].m.level) =>
                             \E k \in 1 .. Len(delivered[stores'[q].id]) :
                               delivered[stores'[q].id][k] = direct[i].m.n
      OBVIOUS
    <3>1. CASE q \in 1 .. Len(stores) /\ stores'[q] = stores[q]
      BY <3>1, Zenon DEF DirectInv, Ahead, Given
    <3>2. CASE ~(q \in 1 .. Len(stores))
      <4>1. ~PassedBy(direct[i], q) /\ Len(delivered[stores'[q].id]) = 0
        BY <1>8, <2>4, <3>2
      <4> QED BY <4>1
    <3>3. (q \in 1 .. Len(stores) /\ stores'[q] = stores[q]) \/ ~(q \in 1 .. Len(stores))
      BY <1>2, <1>5
    <3> QED BY <3>1, <3>2, <3>3
  <2>6. CASE direct' = direct
    <3>1. DirectEarly'
      BY <2>6 DEF DirectInv, DirectEarly
    <3>2. Stacked'
      <4>1. \A i \in 1 .. Len(direct) : direct[i].m.n < serial' /\ direct[i].at <= Len(stores')
        BY <1>1, <1>2, <1>5, <2>1, <2>2
      <4> QED BY <1>0, <2>6, <4>1 DEF DirectInv, Stacked, MayPrecede
    <3>3. Ahead' /\ Given'
      <4>1. \A i, q : PassedBy(direct[i], q)' <=> PassedBy(direct[i], q)
        BY <2>6 DEF PassedBy
      <4>2. \A i \in 1 .. Len(direct) : \A q \in 1 .. Len(stores') :
             ~PassedBy(direct[i], q) =>
               \A k \in 1 .. Len(delivered[stores'[q].id]) :
                 MayPrecedeNext(delivered[stores'[q].id][k], direct[i].m.n)
        BY <2>3, <2>5, Zenon
      <4>3. Ahead'
        BY <2>6, <4>2 DEF Ahead, PassedBy, MayPrecede, MayPrecedeNext
      <4>4. Given'
        BY <2>5, <2>6 DEF Given, PassedBy
      <4> QED BY <4>3, <4>4
    <3> QED BY <3>1, <3>2, <3>3 DEF DirectInv
  <2>7. CASE PutDirect(m)
    <3>1. /\ direct' = Append(direct, Frame(m)) /\ ~accumulating
          /\ \A i \in 1 .. Len(direct) : <<m.n, direct[i].m.n>> \in within'
      BY <2>7 DEF PutDirect, Frame
    <3>2. /\ Len(direct') = Len(direct) + 1
          /\ \A i \in 1 .. Len(direct') :
               \/ i \in 1 .. Len(direct) /\ direct'[i] = direct[i]
               \/ i = Len(direct) + 1 /\ direct'[i] = Frame(m)
      BY <2>1, <3>1
    <3>3. /\ Frame(m).m = m /\ Frame(m).at = 1 /\ Frame(m).saving = FALSE
          /\ Frame(m).m.n = serial
      BY DEF Frame
    <3>4. DirectEarly'
      BY <3>1 DEF DirectInv, DirectEarly
    <3>5. Stacked'
      <4> SUFFICES ASSUME NEW i \in 1 .. Len(direct')
                   PROVE  /\ direct'[i].m.n < serial'
                          /\ direct'[i].saving => direct'[i].at <= Len(stores')
                          /\ \A j \in 1 .. Len(direct') :
                               i < j => direct'[i].saving /\ MayPrecedeNext(direct'[j].m.n, direct'[i].m.n)
        BY DEF Stacked, MayPrecede, MayPrecedeNext
      <4>1. CASE i \in 1 .. Len(direct) /\ direct'[i] = direct[i]
        <5>1. direct[i].m.n < serial' /\ direct[i].at <= Len(stores') /\ direct[i].saving
          BY <1>1, <1>2, <1>5, <2>1, <2>2, <4>1
        <5>2. ASSUME NEW j \in 1 .. Len(direct'), i < j
              PROVE  MayPrecedeNext(direct'[j].m.n, direct[i].m.n)
          <6>1. CASE j \in 1 .. Len(direct) /\ direct'[j] = direct[j]
            <7>1. MayPrecede(direct[j].m.n, direct[i].m.n)
              BY <4>1, <5>2, <6>1 DEF DirectInv, Stacked
            <7>2. <<direct[j].m.n, direct[i].m.n>> \in within => <<direct[j].m.n, direct[i].m.n>> \in within'
              BY <1>0
            <7> QED BY <4>1, <6>1, <7>1, <7>2 DEF MayPrecede, MayPrecedeNext
          <6>2. CASE direct'[j] = Frame(m)
            <7>1. <<serial, direct[i].m.n>> \in within' /\ serial # direct[i].m.n
              BY <1>1, <2>1, <2>2, <3>1, <4>1
            <7> QED BY <3>3, <4>1, <6>2, <7>1 DEF MayPrecedeNext
          <6> QED BY <3>2, <6>1, <6>2
        <5> QED BY <4>1, <5>1, <5>2 DEF MayPrecedeNext
      <4>2. CASE i = Len(direct) + 1 /\ direct'[i] = Frame(m)
        BY <1>1, <2>1, <3>2, <3>3, <4>2 DEF MayPrecedeNext
      <4> QED BY <3>2, <4>1, <4>2
    <3>6. Ahead' /\ Given'
      <4> SUFFICES ASSUME NEW i \in 1 .. Len(direct'), NEW q \in 1 .. Len(stores')
                   PROVE  /\ ~PassedBy(direct'[i], q) =>
                               \A k \in 1 .. Len(delivered[stores'[q].id]) :
                                 MayPrecedeNext(delivered[stores'[q].id][k], direct'[i].m.n)
                          /\ PassedBy(direct'[i], q) /\ Passes(stores'[q].filter, direct'[i].m.level) =>
                               \E k \in 1 .. Len(delivered[stores'[q].id]) :
                                 delivered[stores'[q].id][k] = direct'[i].m.n
        BY DEF Ahead, Given, PassedBy, MayPrecede, MayPrecedeNext
      <4>1. CASE i \in 1 .. Len(direct) /\ direct'[i] = direct[i]
        BY <2>3, <2>5, <4>1, Zenon
      <4>2. CASE direct'[i] = Frame(m)
        <5>1. ~PassedBy(direct'[i], q)
          BY <1>2, <3>3, <4>2 DEF PassedBy
        <5>2. \A k \in 1 .. Len(delivered[stores'[q].id]) :
                delivered[stores'[q].id][k] \in Nat /\ delivered[stores'[q].id][k] < serial
          BY <1>4, <1>5
        <5> QED BY <1>1, <3>3, <4>2, <5>1, <5>2 DEF MayPrecedeNext
      <4> QED BY <3>2, <4>1, <4>2
    <3> QED BY <3>4, <3>5, <3>6 DEF DirectInv
  <2> QED BY <2>6, <2>7 DEF Put, PutAside, PutNothing
<1> QED
  BY <1>9, <1>11, <1>12 DEF Put, PutAside, PutDirect, PutNothing

(* The types the steps below need.                                         *)
LEMMA OrderTypes ==
  ASSUME TypeOK
  PROVE  /\ serial \in Nat /\ at \in Nat /\ registered \in Nat
         /\ saved \in Seq(MessageSet) /\ Len(saved) \in Nat /\ Len(stores) \in Nat
         /\ delivered \in [1 .. MaxStores -> Seq(1 .. MaxMessages)]
         /\ \A j \in 1 .. Len(saved) : saved[j].n \in Nat
         /\ \A q \in 1 .. Len(stores) : stores[q].id \in 1 .. MaxStores
         /\ \A id \in 1 .. MaxStores : delivered[id] \in Seq(1 .. MaxMessages)
         /\ \A id \in 1 .. MaxStores : \A k \in 1 .. Len(delivered[id]) :
              delivered[id][k] \in Nat
         /\ \A q \in 1 .. Len(stores) : \A k \in 1 .. Len(delivered[stores[q].id]) :
              delivered[stores[q].id][k] \in Nat
<1>1. /\ serial \in Nat /\ at \in Nat /\ registered \in Nat
      /\ delivered \in [1 .. MaxStores -> Seq(1 .. MaxMessages)]
  BY DEF TypeOK
<1>2. saved \in Seq(MessageSet) /\ stores \in Seq([id : 1 .. MaxStores, filter : Filters])
  BY DEF TypeOK
<1>3. Len(saved) \in Nat /\ Len(stores) \in Nat
  BY <1>2
<1>4. ASSUME NEW j \in 1 .. Len(saved) PROVE saved[j].n \in Nat
  <2>1. saved[j] \in MessageSet
    BY <1>2, ElementIn, Zenon
  <2>2. saved[j].n \in 1 .. MaxMessages
    BY <2>1 DEF MessageSet
  <2> QED BY <2>2, BoundAssumption
<1>5. ASSUME NEW q \in 1 .. Len(stores) PROVE stores[q].id \in 1 .. MaxStores
  <2>1. stores[q] \in [id : 1 .. MaxStores, filter : Filters]
    BY <1>2, ElementIn, Zenon
  <2> QED BY <2>1
<1>6. ASSUME NEW id \in 1 .. MaxStores PROVE delivered[id] \in Seq(1 .. MaxMessages)
  BY <1>1
<1>7. ASSUME NEW id \in 1 .. MaxStores, NEW k \in 1 .. Len(delivered[id])
      PROVE  delivered[id][k] \in Nat
  <2>1. delivered[id][k] \in 1 .. MaxMessages
    BY <1>6, ElementIn, Zenon
  <2> QED BY <2>1, BoundAssumption
<1> QED
  BY <1>1, <1>2, <1>3, <1>4, <1>5, <1>6, <1>7

(* save is called for the message in hand: the store has been given only   *)
(* earlier ones.                                                           *)
LEMMA SaveCallOrder == ASSUME TypeOK, OrderInv, SaveCall PROVE OrderInv'
<1> DEFINE own == stores[at].id
<1>1. /\ saving' = TRUE /\ UNCHANGED <<phase, accumulating, saved, stores, at, serial, registered, within>>
      /\ delivered' = [delivered EXCEPT ![own] = Append(@, saved[1].n)]
      /\ ~saving /\ at > 0 /\ at <= Len(stores) /\ saved # << >>
  <2>1. saved # << >>
    BY DEF SaveCall, Draining
  <2>2. Head(saved) = saved[1]
    BY <2>1, OrderTypes
  <2> QED BY <2>1, <2>2, Zenon DEF SaveCall, Draining, lists
<1>2. at \in 1 .. Len(stores) /\ own \in 1 .. MaxStores /\ 1 \in 1 .. Len(saved)
  BY <1>1, OrderTypes
<1>3. /\ \A id \in 1 .. MaxStores : id # own => delivered'[id] = delivered[id]
      /\ delivered'[own] = Append(delivered[own], saved[1].n)
      /\ Len(delivered'[own]) = Len(delivered[own]) + 1
      /\ \A k \in 1 .. Len(delivered'[own]) :
           \/ k \in 1 .. Len(delivered[own]) /\ delivered'[own][k] = delivered[own][k]
           \/ k = Len(delivered[own]) + 1 /\ delivered'[own][k] = saved[1].n
  BY <1>1, <1>2, OrderTypes
<1> HIDE DEF own
<1>4. /\ \A k \in 1 .. Len(delivered[own]) : delivered[own][k] < saved[1].n
      /\ saved[1].n < serial /\ saved[1].n \in Nat /\ Len(delivered[own]) \in Nat
      /\ \A k \in 1 .. Len(delivered[own]) : delivered[own][k] \in Nat
  BY <1>1, <1>2, OrderTypes DEF OrderInv, Before, Queued, Passed, own
<1>5. \A p \in 1 .. Len(stores) : p # at => stores[p].id # own /\ (Passed(p)' <=> Passed(p))
  BY <1>1, <1>2 DEF OrderInv, Numbered, Passed, own
<1>6. Queued' /\ Draws'
  BY <1>1 DEF OrderInv, Queued, Draws
<1>7. Past'
  <2> SUFFICES ASSUME NEW id \in 1 .. MaxStores, NEW k \in 1 .. Len(delivered'[id])
               PROVE  delivered'[id][k] < serial
    BY <1>1 DEF Past
  <2>1. CASE id = own
    <3>1. CASE k \in 1 .. Len(delivered[own]) /\ delivered'[own][k] = delivered[own][k]
      BY <1>2, <2>1, <3>1 DEF OrderInv, Past
    <3> QED BY <1>3, <1>4, <2>1, <3>1
  <2>2. CASE id # own
    BY <1>3, <2>2 DEF OrderInv, Past
  <2> QED BY <2>1, <2>2
<1>8. InOrderOnce'
  <2> SUFFICES ASSUME NEW id \in 1 .. MaxStores, NEW i \in 1 .. Len(delivered'[id]),
                      NEW j \in 1 .. Len(delivered'[id]), i < j
               PROVE  MayPrecede(delivered'[id][i], delivered'[id][j])
    BY <1>1 DEF InOrderOnce, MayPrecede
  <2>1. CASE id = own
    <3>1. i \in 1 .. Len(delivered[own]) /\ delivered'[own][i] = delivered[own][i]
      BY <1>3, <1>4, <2>1
    <3>2. CASE j \in 1 .. Len(delivered[own]) /\ delivered'[own][j] = delivered[own][j]
      BY <1>2, <2>1, <3>1, <3>2 DEF OrderInv, InOrderOnce, MayPrecede
    <3>3. CASE delivered'[own][j] = saved[1].n
      BY <1>4, <2>1, <3>1, <3>3 DEF MayPrecede
    <3> QED BY <1>3, <2>1, <3>2, <3>3
  <2>2. CASE id # own
    BY <1>3, <2>2 DEF OrderInv, InOrderOnce, MayPrecede
  <2> QED BY <2>1, <2>2
<1>9. Numbered'
  <2>1. own <= registered
    BY <1>2 DEF OrderInv, Numbered, own
  <2>2. ASSUME NEW id \in 1 .. MaxStores, id > registered PROVE delivered'[id] = << >>
    <3>1. id # own
      BY <2>1, <2>2, <1>2, OrderTypes
    <3> QED BY <1>3, <2>2, <3>1 DEF OrderInv, Numbered
  <2> QED BY <1>1, <2>2 DEF OrderInv, Numbered
<1>10. Before'
  <2> SUFFICES ASSUME NEW p \in 1 .. Len(stores), NEW i \in 1 .. Len(delivered'[stores[p].id]),
                      NEW j \in 1 .. Len(saved)
               PROVE  /\ delivered'[stores[p].id][i] <= saved[j].n
                      /\ ~Passed(p)' => delivered'[stores[p].id][i] < saved[j].n
    BY <1>1 DEF Before
  <2>1. CASE p = at
    <3>1. Passed(p)'
      BY <1>1, <2>1 DEF Passed
    <3>2. saved[1].n <= saved[j].n /\ saved[j].n \in Nat
      <4>1. saved[j].n \in Nat /\ j \in Nat
        BY OrderTypes, BoundAssumption
      <4> QED BY <1>2, <1>4, <4>1 DEF OrderInv, Queued
    <3>3. delivered'[own][i] <= saved[1].n /\ delivered'[own][i] \in Nat
      BY <1>3, <1>4, <2>1 DEF own
    <3> QED BY <2>1, <3>1, <3>2, <3>3, <1>4 DEF own
  <2>2. CASE p # at
    <3>1. delivered'[stores[p].id] = delivered[stores[p].id]
      BY <1>3, <1>5, <2>2, OrderTypes
    <3> QED BY <1>5, <2>2, <3>1 DEF OrderInv, Before
  <2> QED BY <2>1, <2>2
<1>11. InHand'
  <2> SUFFICES ASSUME NEW p \in 1 .. Len(stores), Passed(p)',
                      Passes(stores[p].filter, saved[1].level)
               PROVE  \E i \in 1 .. Len(delivered'[stores[p].id]) :
                        delivered'[stores[p].id][i] = saved[1].n
    BY <1>1 DEF InHand
  <2>1. CASE p = at
    <3>1. Len(delivered[own]) + 1 \in 1 .. Len(delivered'[own])
      BY <1>3, <1>4
    <3>2. delivered'[own][Len(delivered[own]) + 1] = saved[1].n
      BY <1>3, <1>4, <3>1
    <3> QED BY <2>1, <3>1, <3>2 DEF own
  <2>2. CASE p # at
    <3>1. delivered'[stores[p].id] = delivered[stores[p].id]
      BY <1>3, <1>5, <2>2, OrderTypes
    <3> QED BY <1>1, <1>5, <2>2, <3>1 DEF OrderInv, InHand
  <2> QED BY <2>1, <2>2
<1> QED
  BY <1>6, <1>7, <1>8, <1>9, <1>10, <1>11 DEF OrderInv

(* The drain goes on to the next store, or starts: the stores it has       *)
(* passed are as many or one more, which does not let the message pass.    *)
LEMMA MoveOrder ==
  ASSUME TypeOK, OrderInv, Draws',
         UNCHANGED <<saved, stores, serial, registered, delivered, within>>,
         \A p \in 1 .. Len(stores) : Passed(p) => Passed(p)',
         saved # << >> =>
           \A p \in 1 .. Len(stores) :
             Passed(p)' => Passed(p) \/ ~Passes(stores[p].filter, saved[1].level)
  PROVE  OrderInv'
<1>1. Queued' /\ Past' /\ Numbered' /\ InOrderOnce'
  BY DEF OrderInv, Queued, Past, Numbered, InOrderOnce
<1>2. Before'
  <2> SUFFICES ASSUME NEW p \in 1 .. Len(stores), NEW i \in 1 .. Len(delivered[stores[p].id]),
                      NEW j \in 1 .. Len(saved)
               PROVE  /\ delivered[stores[p].id][i] <= saved[j].n
                      /\ ~Passed(p)' => delivered[stores[p].id][i] < saved[j].n
    BY DEF Before
  <2> QED BY DEF OrderInv, Before
<1>3. InHand'
  <2> SUFFICES ASSUME saved # << >>, NEW p \in 1 .. Len(stores), Passed(p)',
                      Passes(stores[p].filter, saved[1].level)
               PROVE  \E i \in 1 .. Len(delivered[stores[p].id]) :
                        delivered[stores[p].id][i] = saved[1].n
    BY DEF InHand
  <2> QED BY DEF OrderInv, InHand
<1> QED BY <1>1, <1>2, <1>3 DEF OrderInv

(* The first message has been through all stores and goes.                 *)
LEMMA NextMessageOrder == ASSUME TypeOK, OrderInv, NextMessage PROVE OrderInv'
<1>1. /\ saved # << >> /\ saved' = Tail(saved) /\ at' = 1 /\ at > 0 /\ at > Len(stores)
      /\ UNCHANGED <<phase, accumulating, stores, saving, serial, registered, delivered, within>>
      /\ saving' = FALSE /\ ~saving
  BY DEF NextMessage, Draining
<1>2. /\ Len(saved') = Len(saved) - 1 /\ 1 \in 1 .. Len(saved)
      /\ \A j \in 1 .. Len(saved') : j + 1 \in 1 .. Len(saved) /\ saved'[j] = saved[j + 1]
  BY <1>1, OrderTypes
<1>3. Queued'
  <2>1. \A i \in 1 .. Len(saved') : saved'[i].n < serial'
    BY <1>1, <1>2 DEF OrderInv, Queued
  <2>2. ASSUME NEW i \in 1 .. Len(saved'), NEW j \in 1 .. Len(saved'), i < j
        PROVE  saved'[i].n < saved'[j].n
    <3>1. i + 1 < j + 1 /\ i + 1 \in 1 .. Len(saved) /\ j + 1 \in 1 .. Len(saved)
      BY <1>2, <2>2
    <3>2. saved[i + 1].n < saved[j + 1].n
      BY <3>1 DEF OrderInv, Queued
    <3> QED BY <1>2, <3>2
  <2> QED BY <2>1, <2>2 DEF Queued
<1>4. Past' /\ Numbered' /\ InOrderOnce'
  BY <1>1 DEF OrderInv, Past, Numbered, InOrderOnce
<1>5. Before'
  <2> SUFFICES ASSUME NEW p \in 1 .. Len(stores), NEW i \in 1 .. Len(delivered[stores[p].id]),
                      NEW j \in 1 .. Len(saved')
               PROVE  delivered[stores[p].id][i] < saved'[j].n
    <3>1. \A p \in 1 .. Len(stores) : \A i \in 1 .. Len(delivered[stores[p].id]) :
            \A j \in 1 .. Len(saved') :
              delivered[stores[p].id][i] \in Nat /\ saved'[j].n \in Nat
      BY <1>2, OrderTypes, BoundAssumption
    <3> QED BY <1>1, <3>1 DEF Before
  <2>1. delivered[stores[p].id][i] <= saved[1].n
    BY <1>2 DEF OrderInv, Before
  <2>2. saved[1].n < saved[j + 1].n
    BY <1>2 DEF OrderInv, Queued
  <2>3. delivered[stores[p].id][i] \in Nat
    BY OrderTypes
  <2>4. saved[1].n \in Nat /\ saved[j + 1].n \in Nat /\ j \in Nat
    BY <1>2, OrderTypes
  <2> QED BY <1>2, <2>1, <2>2, <2>3, <2>4
<1>6. InHand'
  BY <1>1 DEF InHand, Passed
<1>7. Draws'
  BY <1>1 DEF OrderInv, Draws
<1> QED BY <1>3, <1>4, <1>5, <1>6, <1>7 DEF OrderInv

(* A step of the direct loop, which runs with nothing put aside.           *)
LEMMA DirectStepOrder ==
  ASSUME TypeOK, OrderInv, DirectInv, DirectStep
  PROVE  OrderInv' /\ DirectInv'
<1> DEFINE L == Len(direct)
           f == direct[L]
<1>1. /\ direct # << >> /\ direct \in Seq(FrameSet) /\ ~accumulating /\ saved = << >>
      /\ UNCHANGED <<phase, accumulating, saved, stores, at, saving, serial, registered, within>>
  BY DEF DirectStep, DirectCall, DirectReturn, DirectSkip, DirectEnd, Directing, lists, drain,
     history, TypeOK, Frames, FrameSet, DirectInv, DirectEarly, OrderInv, Draws
<1>2. /\ L \in Nat \ {0} /\ L \in 1 .. L /\ f \in FrameSet /\ Top = f
      /\ f.at \in Nat \ {0} /\ f.m.n \in Nat /\ f.saving \in BOOLEAN
  <2>1. L \in Nat \ {0} /\ L \in 1 .. L /\ f \in FrameSet /\ Top = f
    BY <1>1 DEF Top
  <2> QED BY <2>1, BoundAssumption DEF FrameSet, MessageSet
<1>3. Draws' /\ Queued' /\ Before' /\ InHand'
  BY <1>1 DEF OrderInv, Draws, Queued, Before, InHand
<1>4. DirectEarly'
  BY <1>1 DEF DirectInv, DirectEarly
<1>5. CASE DirectCall
  <2> DEFINE own == stores[f.at].id
  <2>1. /\ ~f.saving /\ f.at <= Len(stores)
        /\ direct' = [direct EXCEPT ![L] = [f EXCEPT !.saving = TRUE]]
        /\ delivered' = [delivered EXCEPT ![own] = Append(@, f.m.n)]
    BY <1>2, <1>5, Zenon DEF DirectCall, Directing, ReplaceTop
  <2>2. /\ Len(direct') = L
        /\ \A i \in 1 .. L : direct'[i].m = direct[i].m /\ direct'[i].at = direct[i].at
        /\ \A i \in 1 .. L : i # L => direct'[i] = direct[i]
        /\ direct'[L].saving
    <3> DEFINE g == [f EXCEPT !.saving = TRUE]
    <3>1. g \in FrameSet /\ g.m = f.m /\ g.at = f.at /\ g.saving
      BY <1>2 DEF FrameSet
    <3>2. direct' = [direct EXCEPT ![L] = g]
      BY <2>1
    <3> HIDE DEF g
    <3>3. /\ Len(direct') = L /\ direct'[L] = g
          /\ \A i \in 1 .. L : i # L => direct'[i] = direct[i]
      BY <1>1, <3>1, <3>2, LastReplaced
    <3> QED BY <3>1, <3>3
  <2>3. f.at \in 1 .. Len(stores) /\ own \in 1 .. MaxStores
    BY <1>2, <2>1, OrderTypes
  <2>4. /\ \A id \in 1 .. MaxStores : id # own => delivered'[id] = delivered[id]
        /\ delivered'[own] = Append(delivered[own], f.m.n)
        /\ Len(delivered'[own]) = Len(delivered[own]) + 1
        /\ Len(delivered[own]) \in Nat
        /\ \A k \in 1 .. Len(delivered'[own]) :
             \/ k \in 1 .. Len(delivered[own]) /\ delivered'[own][k] = delivered[own][k]
             \/ k = Len(delivered[own]) + 1 /\ delivered'[own][k] = f.m.n
    <3> HIDE DEF own, f, L
    <3>1. /\ delivered \in [1 .. MaxStores -> Seq(1 .. MaxMessages)]
          /\ delivered[own] \in Seq(1 .. MaxMessages)
      BY <2>3, OrderTypes
    <3>2. /\ \A id \in 1 .. MaxStores : id # own => delivered'[id] = delivered[id]
          /\ delivered'[own] = Append(delivered[own], f.m.n)
      BY <2>1, <2>3, <3>1
    <3> QED BY <3>1, <3>2
  <2>5. /\ f.m.n < serial
        /\ \A k \in 1 .. Len(delivered[own]) : MayPrecede(delivered[own][k], f.m.n)
    BY <1>2, <2>1, <2>3 DEF DirectInv, Stacked, Ahead, PassedBy
  <2>6. /\ \A p \in 1 .. Len(stores) : stores[p].id \in 1 .. MaxStores
        /\ \A p \in 1 .. Len(stores) : p # f.at => stores[p].id # own
        /\ own <= registered
    BY <2>3, OrderTypes DEF OrderInv, Numbered
  <2> HIDE DEF own
  <2>7. Past'
    <3> SUFFICES ASSUME NEW id \in 1 .. MaxStores, NEW k \in 1 .. Len(delivered'[id])
                 PROVE  delivered'[id][k] < serial
      BY <1>1 DEF Past
    <3>1. CASE id = own
      BY <2>3, <2>4, <2>5, <3>1 DEF OrderInv, Past
    <3>2. CASE id # own
      BY <2>4, <3>2 DEF OrderInv, Past
    <3> QED BY <3>1, <3>2
  <2>8. Numbered'
    <3>1. ASSUME NEW id \in 1 .. MaxStores, id > registered PROVE delivered'[id] = << >>
      <4>1. id # own
        BY <2>3, <2>6, <3>1, OrderTypes
      <4> QED BY <2>4, <3>1, <4>1 DEF OrderInv, Numbered
    <3> QED BY <1>1, <3>1 DEF OrderInv, Numbered
  <2>9. InOrderOnce'
    <3> SUFFICES ASSUME NEW id \in 1 .. MaxStores, NEW i \in 1 .. Len(delivered'[id]),
                        NEW j \in 1 .. Len(delivered'[id]), i < j
                 PROVE  MayPrecede(delivered'[id][i], delivered'[id][j])
      BY <1>1 DEF InOrderOnce, MayPrecede
    <3>1. CASE id = own
      <4>1. i \in 1 .. Len(delivered[own]) /\ delivered'[own][i] = delivered[own][i]
        BY <2>4, <3>1
      <4>2. CASE j \in 1 .. Len(delivered[own]) /\ delivered'[own][j] = delivered[own][j]
        BY <2>3, <3>1, <4>1, <4>2 DEF OrderInv, InOrderOnce, MayPrecede
      <4>3. CASE delivered'[own][j] = f.m.n
        BY <2>5, <3>1, <4>1, <4>3
      <4> QED BY <2>4, <3>1, <4>2, <4>3
    <3>2. CASE id # own
      BY <2>4, <3>2 DEF OrderInv, InOrderOnce, MayPrecede
    <3> QED BY <3>1, <3>2
  <2>10. Stacked'
    <3>1. \A i \in 1 .. L : direct'[i].saving => direct[i].saving \/ i = L
      BY <2>2
    <3>2. \A i \in 1 .. L : direct[i].saving => direct'[i].saving
      BY <2>2
    <3> SUFFICES ASSUME NEW i \in 1 .. L
                 PROVE  /\ direct[i].m.n < serial
                        /\ direct'[i].saving => direct[i].at <= Len(stores)
                        /\ \A j \in 1 .. L :
                             i < j => direct'[i].saving /\ MayPrecede(direct[j].m.n, direct[i].m.n)
      BY <1>1, <2>2 DEF Stacked, MayPrecede
    <3> QED BY <2>1, <3>1, <3>2 DEF DirectInv, Stacked
  <2>11. \A i \in 1 .. L : \A p \in 1 .. Len(stores) :
           /\ PassedBy(direct[i], p) => PassedBy(direct'[i], p)
           /\ PassedBy(direct'[i], p) => PassedBy(direct[i], p) \/ (i = L /\ p = f.at)
    BY <2>2 DEF PassedBy
  <2>12. PassedBy(direct'[L], f.at)
    BY <1>2, <2>2 DEF PassedBy
  <2>13. Ahead'
    <3> SUFFICES ASSUME NEW i \in 1 .. L, NEW p \in 1 .. Len(stores), ~PassedBy(direct'[i], p),
                        NEW k \in 1 .. Len(delivered'[stores[p].id])
                 PROVE  MayPrecede(delivered'[stores[p].id][k], direct[i].m.n)
      BY <1>1, <2>2 DEF Ahead, PassedBy, MayPrecede
    <3>1. ~PassedBy(direct[i], p)
      BY <2>11
    <3>2. CASE p = f.at
      <4>1. i < L /\ stores[p].id = own
        BY <1>2, <2>12, <3>2 DEF own
      <4>2. MayPrecede(f.m.n, direct[i].m.n)
        BY <1>2, <4>1 DEF DirectInv, Stacked
      <4>3. CASE k \in 1 .. Len(delivered[own]) /\ delivered'[own][k] = delivered[own][k]
        BY <3>1, <4>1, <4>3 DEF DirectInv, Ahead
      <4> QED BY <2>4, <4>1, <4>2, <4>3
    <3>3. CASE p # f.at
      <4>1. delivered'[stores[p].id] = delivered[stores[p].id]
        BY <2>4, <2>6, <3>3
      <4> QED BY <3>1, <4>1 DEF DirectInv, Ahead
    <3> QED BY <3>2, <3>3
  <2>14. Given'
    <3> SUFFICES ASSUME NEW i \in 1 .. L, NEW p \in 1 .. Len(stores), PassedBy(direct'[i], p),
                        Passes(stores[p].filter, direct[i].m.level)
                 PROVE  \E k \in 1 .. Len(delivered'[stores[p].id]) :
                          delivered'[stores[p].id][k] = direct[i].m.n
      BY <1>1, <2>2 DEF Given, PassedBy
    <3>1. CASE PassedBy(direct[i], p)
      <4>1. PICK k \in 1 .. Len(delivered[stores[p].id]) :
              delivered[stores[p].id][k] = direct[i].m.n
        BY <3>1 DEF DirectInv, Given
      <4>2. CASE stores[p].id = own
        <5>1. k \in 1 .. Len(delivered'[own]) /\ delivered'[own][k] = delivered[own][k]
          BY <2>3, <2>4, <4>1, <4>2, OrderTypes
        <5> QED BY <4>1, <4>2, <5>1
      <4>3. CASE stores[p].id # own
        BY <2>4, <2>6, <4>1, <4>3
      <4> QED BY <4>2, <4>3
    <3>2. CASE i = L /\ p = f.at
      <4>1. Len(delivered[own]) + 1 \in 1 .. Len(delivered'[own])
        BY <2>4
      <4>2. delivered'[own][Len(delivered[own]) + 1] = f.m.n
        BY <2>4, <4>1
      <4> QED BY <3>2, <4>1, <4>2 DEF own
    <3> QED BY <2>11, <3>1, <3>2
  <2> QED BY <1>3, <1>4, <2>7, <2>8, <2>9, <2>10, <2>13, <2>14 DEF OrderInv, DirectInv
<1>6. CASE DirectReturn \/ DirectSkip
  <2>1. /\ UNCHANGED delivered
        /\ Len(direct') = L
        /\ \A i \in 1 .. L : i # L => direct'[i] = direct[i]
        /\ direct'[L].m = f.m /\ direct'[L].at = f.at + 1 /\ ~direct'[L].saving
        /\ f.saving \/ ~Passes(stores[f.at].filter, f.m.level)
    <3> DEFINE g == ForNextStore
    <3>1. g \in FrameSet /\ g.m = f.m /\ g.at = f.at + 1 /\ ~g.saving
      BY <1>2 DEF FrameSet, ForNextStore
    <3>2. /\ UNCHANGED delivered /\ direct' = [direct EXCEPT ![L] = g]
          /\ f.saving \/ ~Passes(stores[f.at].filter, f.m.level)
      BY <1>2, <1>6, Zenon DEF DirectReturn, DirectSkip, Directing, ReplaceTop, history
    <3> HIDE DEF g
    <3>3. /\ Len(direct') = L /\ direct'[L] = g
          /\ \A i \in 1 .. L : i # L => direct'[i] = direct[i]
      BY <1>1, <3>1, <3>2, LastReplaced
    <3> QED BY <3>1, <3>2, <3>3
  <2>2. OrderInv'
    BY <1>1, <1>3, <2>1 DEF OrderInv, Past, Numbered, InOrderOnce
  <2>3. \A i \in 1 .. L : direct'[i].m = direct[i].m
    BY <2>1
  <2>4. \A i \in 1 .. L : \A p \in 1 .. Len(stores) :
          /\ PassedBy(direct[i], p) => PassedBy(direct'[i], p)
          /\ PassedBy(direct'[i], p) =>
               PassedBy(direct[i], p) \/ ~Passes(stores[p].filter, direct[i].m.level)
    <3> SUFFICES ASSUME NEW i \in 1 .. L, NEW p \in 1 .. Len(stores)
                 PROVE  /\ PassedBy(direct[i], p) => PassedBy(direct'[i], p)
                        /\ PassedBy(direct'[i], p) =>
                             PassedBy(direct[i], p) \/ ~Passes(stores[p].filter, direct[i].m.level)
      OBVIOUS
    <3>1. CASE i = L
      <4>1. PassedBy(direct'[i], p) <=> p <= f.at
        BY <1>1, <1>2, <2>1, <3>1, OrderTypes DEF PassedBy
      <4>2. PassedBy(direct[i], p) <=> (p < f.at \/ (p = f.at /\ f.saving))
        BY <3>1 DEF PassedBy
      <4> QED BY <1>2, <2>1, <3>1, <4>1, <4>2, OrderTypes
    <3>2. CASE i # L
      BY <2>1, <3>2
    <3> QED BY <3>1, <3>2
  <2>5. Stacked'
    <3> SUFFICES ASSUME NEW i \in 1 .. L
                 PROVE  /\ direct[i].m.n < serial
                        /\ direct'[i].saving => direct'[i].at <= Len(stores)
                        /\ \A j \in 1 .. L :
                             i < j => direct'[i].saving /\ MayPrecede(direct[j].m.n, direct[i].m.n)
      BY <1>1, <2>1, <2>3 DEF Stacked, MayPrecede
    <3>1. CASE i = L
      BY <1>2, <2>1, <3>1 DEF DirectInv, Stacked
    <3>2. CASE i # L
      BY <2>1, <3>2 DEF DirectInv, Stacked
    <3> QED BY <3>1, <3>2
  <2>6. Ahead'
    <3> SUFFICES ASSUME NEW i \in 1 .. L, NEW p \in 1 .. Len(stores), ~PassedBy(direct'[i], p),
                        NEW k \in 1 .. Len(delivered[stores[p].id])
                 PROVE  MayPrecede(delivered[stores[p].id][k], direct[i].m.n)
      BY <1>1, <2>1, <2>3 DEF Ahead, PassedBy, MayPrecede
    <3> QED BY <2>4 DEF DirectInv, Ahead
  <2>7. Given'
    <3> SUFFICES ASSUME NEW i \in 1 .. Len(direct'), NEW p \in 1 .. Len(stores'),
                        PassedBy(direct'[i], p),
                        Passes(stores'[p].filter, direct'[i].m.level)
                 PROVE  \E k \in 1 .. Len(delivered'[stores'[p].id]) :
                          delivered'[stores'[p].id][k] = direct'[i].m.n
      BY DEF Given, PassedBy
    <3>1. i \in 1 .. L /\ p \in 1 .. Len(stores) /\ direct'[i].m = direct[i].m /\ stores' = stores
      BY <1>1, <2>1, <2>3
    <3>2. PassedBy(direct[i], p) /\ Passes(stores[p].filter, direct[i].m.level)
      BY <2>4, <3>1
    <3>3. \E k \in 1 .. Len(delivered[stores[p].id]) :
            delivered[stores[p].id][k] = direct[i].m.n
      BY <3>1, <3>2 DEF DirectInv, Given
    <3> QED BY <2>1, <3>1, <3>3
  <2> QED BY <1>4, <2>2, <2>5, <2>6, <2>7 DEF DirectInv
<1>7. CASE DirectEnd
  <2>1. direct' = Front(direct) /\ UNCHANGED delivered
    BY <1>7 DEF DirectEnd
  <2>2. Len(direct') = L - 1 /\ \A i \in 1 .. Len(direct') : i \in 1 .. L /\ direct'[i] = direct[i]
    BY <1>1, <2>1, LastRemoved
  <2>3. OrderInv'
    BY <1>1, <1>3, <2>1 DEF OrderInv, Past, Numbered, InOrderOnce
  <2>4. Stacked' /\ Ahead' /\ Given'
    <3>1. Stacked'
      BY <1>1, <2>2 DEF DirectInv, Stacked, MayPrecede
    <3>2. Ahead'
      <4> SUFFICES ASSUME NEW i \in 1 .. Len(direct'), NEW p \in 1 .. Len(stores'),
                          ~PassedBy(direct'[i], p),
                          NEW k \in 1 .. Len(delivered'[stores'[p].id])
                   PROVE  MayPrecede(delivered'[stores'[p].id][k], direct'[i].m.n)
        BY <1>1 DEF Ahead, PassedBy, MayPrecede
      <4>1. i \in 1 .. L /\ direct'[i] = direct[i] /\ stores' = stores /\ delivered' = delivered
        BY <1>1, <2>1, <2>2
      <4> QED BY <4>1 DEF DirectInv, Ahead
    <3>3. Given'
      <4> SUFFICES ASSUME NEW i \in 1 .. Len(direct'), NEW p \in 1 .. Len(stores'),
                          PassedBy(direct'[i], p),
                          Passes(stores'[p].filter, direct'[i].m.level)
                   PROVE  \E k \in 1 .. Len(delivered'[stores'[p].id]) :
                            delivered'[stores'[p].id][k] = direct'[i].m.n
        BY DEF Given, PassedBy
      <4>1. i \in 1 .. L /\ direct'[i] = direct[i] /\ stores' = stores /\ delivered' = delivered
        BY <1>1, <2>1, <2>2
      <4> QED BY <4>1 DEF DirectInv, Given
    <3> QED BY <3>1, <3>2, <3>3
  <2> QED BY <1>4, <2>3, <2>4 DEF DirectInv
<1> QED
  BY <1>5, <1>6, <1>7 DEF DirectStep

(* Every step keeps the order.                                             *)
LEMMA OrderStep ==
  TypeOK /\ TypeOK' /\ OrderInv /\ DirectInv /\ [Next]_vars => OrderInv' /\ DirectInv'
<1> SUFFICES ASSUME TypeOK, TypeOK', OrderInv, DirectInv, [Next]_vars
             PROVE  OrderInv' /\ DirectInv'
  OBVIOUS
<1> DEFINE Rest == UNCHANGED <<saved, stores, serial, registered, delivered, within>>
<1>0. at \in Nat /\ Len(stores) \in Nat
  BY OrderTypes
<1>1. ASSUME NEW l \in Levels, Puts(l) PROVE OrderInv' /\ DirectInv'
  <2>1. /\ Put(Message(l, NoText)) /\ CallerRuns
        /\ UNCHANGED <<phase, accumulating, at, saving, stores, registered, delivered>>
    BY <1>1 DEF Puts, drain
  <2>2. Message(l, NoText).n = serial
    BY DEF Message
  <2> QED BY <2>1, <2>2, PutOrder
<1>2. ASSUME NEW l \in Levels, Putf(l) PROVE OrderInv' /\ DirectInv'
  <2>1. /\ CallerRuns
        /\ UNCHANGED <<phase, accumulating, at, saving, stores, registered, delivered>>
        /\ Put(Message(l, serial)) \/ (MemoryFails /\ NewMessage /\ PutNothing)
    BY <1>2 DEF Putf, drain
  <2>2. Message(l, serial).n = serial
    BY DEF Message
  <2>3. Put(Message(l, serial))
    BY <2>1 DEF Put
  <2> QED BY <2>1, <2>2, <2>3, PutOrder
<1>3. ASSUME NEW f \in Filters, RegSave(f) PROVE OrderInv' /\ DirectInv'
  <2>1. /\ Put(Message({TraceBit}, NoText)) /\ CallerRuns
        /\ UNCHANGED <<phase, accumulating, at, saving, delivered>>
        /\ registered' = registered + 1
        /\ stores' = Append(stores, [id |-> registered', filter |-> f])
    BY <1>3 DEF RegSave, drain
  <2>2. Message({TraceBit}, NoText).n = serial
    BY DEF Message
  <2> QED BY <2>1, <2>2, PutOrder
<1>4. ASSUME LoggerInit PROVE OrderInv'
  <2>1. /\ phase = "off" /\ phase' = "loading" /\ accumulating' = TRUE
        /\ saved' = << >> /\ stores' = << >>
        /\ UNCHANGED <<at, saving, serial, registered, delivered, within>>
    BY <1>4 DEF LoggerInit, drain
  <2>2. ~saving /\ ~(at > 0)
    BY <2>1 DEF OrderInv, Draws
  <2>3. Queued' /\ Before' /\ InHand'
    BY <2>1 DEF Queued, Before, InHand
  <2>4. Past' /\ Numbered' /\ InOrderOnce'
    BY <2>1 DEF OrderInv, Past, Numbered, InOrderOnce
  <2>5. Draws'
    BY <2>1, <2>2 DEF Draws
  <2> QED BY <2>3, <2>4, <2>5 DEF OrderInv
<1>5. ASSUME Flush \/ LoggerExit PROVE OrderInv'
  <2>1. /\ phase \in {"loading", "running"} /\ phase' \in {"flushing", "closing"} /\ at' = 1
        /\ UNCHANGED <<accumulating, saving>> /\ Rest
    BY <1>5 DEF Flush, LoggerExit, lists, history
  <2>2. ~saving /\ at = 0
    BY <1>0, <2>1 DEF OrderInv, Draws
  <2>3. Draws'
    BY <2>1, <2>2 DEF OrderInv, Draws
  <2>4. \A p \in 1 .. Len(stores) : ~Passed(p) /\ ~Passed(p)'
    BY <2>1, <2>2 DEF Passed
  <2> QED BY <2>1, <2>3, <2>4, MoveOrder
<1>6. ASSUME LoadFailed \/ IamExitReturns PROVE OrderInv'
  <2>1. /\ phase \in {"loading", "closed"} /\ phase' \in {"running", "off"}
        /\ UNCHANGED <<accumulating, at, saving>> /\ Rest
    BY <1>6 DEF LoadFailed, IamExitReturns, lists, drain, history
  <2>2. Draws'
    BY <2>1 DEF OrderInv, Draws
  <2>3. \A p \in 1 .. Len(stores) : Passed(p)' <=> Passed(p)
    BY <2>1 DEF Passed
  <2> QED BY <2>1, <2>2, <2>3, MoveOrder
<1>7. ASSUME SaveCall PROVE OrderInv'
  BY <1>7, SaveCallOrder
<1>8. ASSUME SaveReturn PROVE OrderInv'
  <2>1. /\ saving /\ saving' = FALSE /\ at' = at + 1 /\ UNCHANGED <<phase, accumulating>> /\ Rest
    BY <1>8 DEF SaveReturn, lists, history
  <2>2. Draws'
    BY <1>0, <2>1 DEF OrderInv, Draws
  <2>3. \A p \in 1 .. Len(stores) : Passed(p)' <=> Passed(p)
    BY <1>0, <2>1 DEF Passed
  <2> QED BY <2>1, <2>2, <2>3, MoveOrder
<1>9. ASSUME SkipStore PROVE OrderInv'
  <2>1. /\ ~saving /\ saving' = saving /\ at > 0 /\ at' = at + 1 /\ at <= Len(stores)
        /\ saved # << >> /\ ~Passes(stores[at].filter, Head(saved).level)
        /\ UNCHANGED <<phase, accumulating>> /\ Rest
    BY <1>9 DEF SkipStore, Draining, lists, history
  <2>2. Draws'
    BY <1>0, <2>1 DEF OrderInv, Draws
  <2>3. Head(saved) = saved[1]
    BY <2>1, OrderTypes
  <2>4. \A p \in 1 .. Len(stores) : Passed(p)' <=> Passed(p) \/ p = at
    BY <1>0, <2>1 DEF Passed
  <2> QED BY <2>1, <2>2, <2>3, <2>4, MoveOrder
<1>10. ASSUME NextMessage PROVE OrderInv'
  BY <1>10, NextMessageOrder
<1>11. ASSUME FlushEnd PROVE OrderInv'
  <2>1. /\ phase' = "running" /\ at' = 0 /\ saved = << >>
        /\ UNCHANGED <<accumulating, saving>> /\ Rest
    BY <1>11 DEF FlushEnd, lists, history
  <2>2. ~saving
    BY <2>1 DEF OrderInv, Draws
  <2>3. Draws'
    BY <2>1, <2>2 DEF OrderInv, Draws
  <2>4. Queued' /\ Before' /\ InHand'
    BY <2>1 DEF Queued, Before, InHand
  <2>5. Past' /\ Numbered' /\ InOrderOnce'
    BY <2>1 DEF OrderInv, Past, Numbered, InOrderOnce
  <2> QED BY <2>3, <2>4, <2>5 DEF OrderInv
<1>12. ASSUME ExitEnd PROVE OrderInv'
  <2>1. /\ phase' = "closed" /\ at' = 0 /\ saved = << >> /\ saved' = << >> /\ stores' = << >>
        /\ UNCHANGED <<accumulating, saving, serial, registered, delivered, within>>
    BY <1>12 DEF ExitEnd, history
  <2>2. ~saving
    BY <2>1 DEF OrderInv, Draws
  <2>3. Draws'
    BY <2>1, <2>2 DEF OrderInv, Draws
  <2>4. Queued' /\ Before' /\ InHand'
    BY <2>1 DEF Queued, Before, InHand
  <2>5. Past' /\ Numbered' /\ InOrderOnce'
    BY <2>1 DEF OrderInv, Past, Numbered, InOrderOnce
  <2> QED BY <2>3, <2>4, <2>5 DEF OrderInv
<1>13. ASSUME UNCHANGED vars PROVE OrderInv'
  <2>1. UNCHANGED <<phase, accumulating, at, saving>> /\ Rest
    BY <1>13 DEF vars, lists, drain, history
  <2>2. Draws'
    BY <2>1 DEF OrderInv, Draws
  <2>3. \A p \in 1 .. Len(stores) : Passed(p)' <=> Passed(p)
    BY <2>1 DEF Passed
  <2> QED BY <2>1, <2>2, <2>3, MoveOrder
<1>14. CASE DirectStep
  BY <1>14, DirectStepOrder
<1>15. ASSUME \/ LoggerInit \/ Flush \/ LoadFailed \/ LoggerExit \/ IamExitReturns
              \/ DrainStep
       PROVE  DirectInv'
  <2>1. accumulating' /\ direct' = << >>
    <3>1. CASE LoggerInit
      BY <3>1 DEF LoggerInit
    <3>2. CASE Flush \/ LoadFailed \/ LoggerExit \/ IamExitReturns
      <4>1. phase # "off" /\ UNCHANGED <<direct, accumulating>>
        BY <3>2 DEF Flush, LoadFailed, LoggerExit, IamExitReturns
      <4>2. accumulating /\ direct = << >>
        BY <3>2, <4>1 DEF DirectInv, DirectEarly, IamExitReturns
      <4> QED BY <4>1, <4>2
    <3>3. CASE DrainStep
      <4>1. at > 0 /\ UNCHANGED <<direct, accumulating>>
        BY <3>3 DEF DrainStep, SaveCall, SaveReturn, SkipStore, NextMessage, FlushEnd,
           ExitEnd, Draining, OrderInv, Draws
      <4>2. accumulating /\ direct = << >>
        BY <4>1 DEF OrderInv, Draws, DirectInv, DirectEarly
      <4> QED BY <4>1, <4>2
    <3> QED BY <1>15, <3>1, <3>2, <3>3
  <2> QED BY <2>1 DEF DirectInv, DirectEarly, Stacked, Ahead, Given
<1>16. ASSUME UNCHANGED vars PROVE DirectInv'
  <2>1. UNCHANGED <<phase, accumulating, direct, stores, serial, delivered, within>>
    BY <1>16 DEF vars, lists, history
  <2>2. DirectEarly' /\ Stacked'
    BY <2>1 DEF DirectInv, DirectEarly, Stacked, MayPrecede
  <2>3. Ahead'
    BY <2>1, Zenon DEF DirectInv, Ahead, PassedBy, MayPrecede
  <2>4. Given'
    <3> SUFFICES ASSUME NEW i \in 1 .. Len(direct'), NEW p \in 1 .. Len(stores'),
                        PassedBy(direct'[i], p),
                        Passes(stores'[p].filter, direct'[i].m.level)
                 PROVE  \E k \in 1 .. Len(delivered'[stores'[p].id]) :
                          delivered'[stores'[p].id][k] = direct'[i].m.n
      BY DEF Given, PassedBy
    <3> QED BY <2>1 DEF DirectInv, Given
  <2> QED BY <2>2, <2>3, <2>4 DEF DirectInv
<1> QED
  BY <1>1, <1>2, <1>3, <1>4, <1>5, <1>6, <1>7, <1>8, <1>9, <1>10, <1>11, <1>12, <1>13,
     <1>14, <1>15, <1>16 DEF Next, DrainStep

LEMMA OrderInvariant == Spec => [](OrderInv /\ DirectInv)
<1>1. Init => OrderInv /\ DirectInv
  <2> SUFFICES ASSUME Init PROVE OrderInv /\ DirectInv
    OBVIOUS
  <2>1. /\ saved = << >> /\ stores = << >> /\ at = 0 /\ ~saving /\ phase = "off"
        /\ direct = << >>
        /\ \A id \in 1 .. MaxStores : delivered[id] = << >>
    BY DEF Init
  <2>2. Queued /\ Before /\ InHand /\ Draws
    BY <2>1 DEF Queued, Before, InHand, Draws
  <2>3. Past /\ Numbered /\ InOrderOnce
    BY <2>1 DEF Past, Numbered, InOrderOnce
  <2>4. DirectInv
    BY <2>1 DEF DirectInv, DirectEarly, Stacked, Ahead, Given
  <2> QED BY <2>2, <2>3, <2>4 DEF OrderInv
<1> QED
  BY <1>1, OrderStep, TypeCorrect, PTL DEF Spec

(* Each store is given the messages in the order in which they were logged *)
(* and none twice, across direct calls, flush and exit, but for those that *)
(* a save function logs in direct mode, which may overtake the messages    *)
(* being handed over (the loops of iam__logger_put and iam__saved_logs_free *)
(* call plugin code for each store).                                       *)
THEOREM DeliveredInOrder == Spec => []InOrderOnce
<1>1. OrderInv => InOrderOnce
  BY DEF OrderInv
<1> QED
  BY <1>1, OrderInvariant, PTL

(* A hand-over ends only in NextMessage or DirectEnd, and then each store  *)
(* has been passed with it.                                                *)
LEMMA LeavesStep ==
  ASSUME TypeOK, OrderInv, DirectInv, [Next]_vars, NEW m \in drained' \ drained,
         NEW p \in 1 .. Len(stores), Passes(stores[p].filter, m.level)
  PROVE  m.n \in ToSet(delivered[stores[p].id])
<1>1. NextMessage \/ DirectEnd
  BY DEF Next, DrainStep, DirectStep, Puts, Putf, RegSave, LoggerInit, Flush, LoadFailed,
     LoggerExit, IamExitReturns, SaveCall, SaveReturn, SkipStore, FlushEnd, ExitEnd,
     DirectCall, DirectReturn, DirectSkip, vars, history
<1>2. DOMAIN delivered[stores[p].id] = 1 .. Len(delivered[stores[p].id])
  BY OrderTypes
<1>3. CASE NextMessage
  <2>1. saved # << >> /\ at > Len(stores) /\ drained' = drained \cup {Head(saved)}
    BY <1>3 DEF NextMessage, Draining
  <2>2. m = saved[1]
    BY <2>1, OrderTypes
  <2>3. Passed(p)
    BY <2>1, OrderTypes DEF Passed
  <2>4. PICK i \in 1 .. Len(delivered[stores[p].id]) : delivered[stores[p].id][i] = m.n
    BY <2>1, <2>2, <2>3 DEF OrderInv, InHand
  <2> QED BY <1>2, <2>4 DEF ToSet
<1>4. CASE DirectEnd
  <2>1. direct # << >> /\ Top.at > Len(stores) /\ drained' = drained \cup {Top.m}
    BY <1>4 DEF DirectEnd, Directing
  <2>2. direct \in Seq(FrameSet) /\ Len(direct) \in 1 .. Len(direct)
    BY <2>1 DEF TypeOK, Frames, FrameSet
  <2>3. direct[Len(direct)] \in FrameSet
    BY <2>2, ElementIn, Zenon
  <2>4. m = direct[Len(direct)].m /\ PassedBy(direct[Len(direct)], p)
    BY <2>1, <2>3, OrderTypes DEF PassedBy, Top, FrameSet
  <2>5. PICK i \in 1 .. Len(delivered[stores[p].id]) : delivered[stores[p].id][i] = m.n
    BY <2>2, <2>4 DEF DirectInv, Given
  <2> QED BY <1>2, <2>5 DEF ToSet
<1> QED
  BY <1>1, <1>3, <1>4

(* No message goes from saved_logs, and no direct hand-over ends, before   *)
(* every store registered by then that lets it pass has been given it,     *)
(* those included that a save function registers in the middle of it.      *)
THEOREM DrainComplete == Spec => LeavesDelivered
<1>1. TypeOK /\ OrderInv /\ DirectInv /\ [Next]_vars =>
        [\A m \in drained' \ drained : \A i \in 1 .. Len(stores) :
           Passes(stores[i].filter, m.level) => m.n \in ToSet(delivered[stores[i].id])]_vars
  BY LeavesStep
<1> QED
  BY <1>1, TypeCorrect, OrderInvariant, PTL DEF Spec, LeavesDelivered
=============================================================================
