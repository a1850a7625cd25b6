----------------------------- MODULE ListKinds -----------------------------
(***************************************************************************)
(* The vocabulary LinkedList and its abstract specification ListSpec       *)
(* share: the four destroying traversals of src/list.c, which of them call *)
(* the caller's function and which free the data, and the events that a    *)
(* caller or a callback of the list can observe.                           *)
(***************************************************************************)

Kinds == {"clear", "clear_act", "free", "free_act"}
Calling == {"clear_act", "free_act"}
Releasing == {"free", "free_act"}

(* The stage at which the body of the traversal frees the data, and the    *)
(* one at which the body is over and the loop takes its next step.         *)
BeforeRelease(k) == IF k \in Calling THEN "called" ELSE "visit"
BodyDone(k) == IF k \in Releasing THEN "released" ELSE BeforeRelease(k)

Stages == {"idle", "visit", "called", "released"}

(* Observable events: the result of an append or a removal, a call of the  *)
(* callback with an element, the release of an element's data.             *)
Quiet == [op |-> "quiet"]
Appended(d) == [op |-> "append", arg |-> d, res |-> 0]
Refused(d) == [op |-> "append", arg |-> d, res |-> 1]
Removed(d) == [op |-> "remove", arg |-> d]
Called(d) == [op |-> "act", arg |-> d]
Released(d) == [op |-> "free", arg |-> d]
=============================================================================
