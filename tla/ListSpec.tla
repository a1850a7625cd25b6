------------------------------ MODULE ListSpec ------------------------------
(***************************************************************************)
(* What src/list.c promises its callers, without a pointer: a list is a    *)
(* sequence of data.  Appending adds at the end, or fails and changes      *)
(* nothing; removing takes out the first occurrence, or changes nothing; a *)
(* destroying traversal (iam__list_clear, _clear_act, _free, _free_act)    *)
(* hands every element, in order and once, to the caller's function and/or *)
(* to free(), the elements that function appends meanwhile included, and   *)
(* leaves the list empty.                                                  *)
(***************************************************************************)
EXTENDS ListKinds, SequencesExt

CONSTANTS Data, MaxReentry

VARIABLES
  items,    \* the elements, oldest first
  kind,     \* the traversal in progress, or "none"
  stage,    \* how far its body is with the first element
  reentry,  \* appends made from within this traversal's callback
  event     \* what the caller or the callback observed last

vars == <<items, kind, stage, reentry, event>>

Init ==
  /\ items = << >>
  /\ kind = "none"
  /\ stage = "idle"
  /\ reentry = 0
  /\ event = Quiet

(* A call comes from outside every traversal, or from a callback.          *)
FromCaller == kind = "none" /\ reentry' = 0
FromCallback == stage = "called" /\ reentry < MaxReentry /\ reentry' = reentry + 1

Append1(d) ==
  /\ FromCaller \/ FromCallback
  /\ items' = Append(items, d)
  /\ event' = Appended(d)
  /\ UNCHANGED <<kind, stage>>

AppendRefused(d) ==
  /\ kind = "none" \/ stage = "called"
  /\ event' = Refused(d)
  /\ UNCHANGED <<items, kind, stage, reentry>>

Remove1(d) ==
  /\ kind = "none"
  /\ items' = RemoveFirst(items, d)
  /\ event' = Removed(d)
  /\ UNCHANGED <<kind, stage, reentry>>

Begin(k) ==
  /\ kind = "none"
  /\ items # << >>
  /\ kind' = k
  /\ stage' = "visit"
  /\ event' = Quiet
  /\ UNCHANGED <<items, reentry>>

BeginEmpty ==
  /\ kind = "none"
  /\ items = << >>
  /\ event' = Quiet
  /\ UNCHANGED <<items, kind, stage, reentry>>

Act ==
  /\ stage = "visit" /\ kind \in Calling
  /\ stage' = "called"
  /\ event' = Called(Head(items))
  /\ UNCHANGED <<items, kind, reentry>>

Release ==
  /\ kind \in Releasing /\ stage = BeforeRelease(kind)
  /\ stage' = "released"
  /\ event' = Released(Head(items))
  /\ UNCHANGED <<items, kind, reentry>>

Step ==
  /\ kind # "none" /\ stage = BodyDone(kind)
  /\ items' = Tail(items)
  /\ event' = Quiet
  /\ \/ /\ Len(items) > 1
        /\ stage' = "visit"
        /\ UNCHANGED <<kind, reentry>>
     \/ /\ Len(items) = 1
        /\ kind' = "none" /\ stage' = "idle" /\ reentry' = 0

Next ==
  \/ \E d \in Data : Append1(d) \/ AppendRefused(d) \/ Remove1(d)
  \/ \E k \in Kinds : Begin(k)
  \/ BeginEmpty \/ Act \/ Release \/ Step

Spec == Init /\ [][Next]_vars
=============================================================================
