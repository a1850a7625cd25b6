----------------------------- MODULE LinkedList -----------------------------
(***************************************************************************)
(* src/list.c: the singly linked list every manager of libIAM keeps its    *)
(* objects in (plugins, libraries, settings, stores, algorithms, messages, *)
(* buffers).  The heap is a partial function from addresses to nodes:      *)
(* iam__malloc extends it, iam__free takes an address out of it, and       *)
(* dereferencing any other address has no meaning.  The loops are modelled *)
(* one iteration per step, because the function a traversal calls may      *)
(* append to the list under it: the logger's save callback does when it    *)
(* logs while the saved messages are flushed.                              *)
(***************************************************************************)
EXTENDS ListKinds, SequencesExt

CONSTANTS
  Addr,       \* the addresses malloc can return
  NULL,
  Data,       \* the values of the data pointers
  MaxReentry  \* bound: appends made from within one traversal's callback

ASSUME NullAssumption == NULL \notin Addr
ASSUME ReentryAssumption == MaxReentry \in Nat

VARIABLES
  heap,     \* allocated nodes: address -> [data, next]
  head, tail, count,  \* iam__list_t
  job,      \* the call in progress: "none", "remove" or a destroying traversal
  stage,    \* how far the body of the traversal is with node p
  p,        \* the loop variable of the call in progress
  key,      \* the argument of iam__list_remove
  reentry,  \* appends made from within this traversal's callback
  event,    \* what the caller or the callback observed last
  order     \* history: the nodes of the list, oldest first

list == <<head, tail, count>>
control == <<job, stage, p, key, reentry>>
vars == <<heap, list, control, event, order>>

live == DOMAIN heap
Node == [data : Data, next : Addr \cup {NULL}]
Walking == job \in Kinds

(* iam__malloc and iam__free on the heap of nodes.                         *)
Alloc(a, n) == [b \in live \cup {a} |-> IF b = a THEN n ELSE heap[b]]
Free(h, a) == [b \in DOMAIN h \ {a} |-> h[b]]

Init ==
  /\ heap = << >>
  /\ head = NULL /\ tail = NULL /\ count = 0
  /\ job = "none" /\ stage = "idle" /\ p = NULL /\ reentry = 0
  /\ key \in Data
  /\ event = Quiet
  /\ order = << >>

(* iam__list_append, called from outside every traversal or from the       *)
(* callback of a traversal of this very list.                              *)
MayAppend ==
  \/ job = "none" /\ reentry' = 0
  \/ stage = "called" /\ reentry < MaxReentry /\ reentry' = reentry + 1

AppendNode(d) ==
  /\ MayAppend
  /\ \E a \in Addr \ live :
       LET h == Alloc(a, [data |-> d, next |-> NULL])
       IN  /\ IF head = NULL
              THEN heap' = h /\ head' = a
              ELSE heap' = [h EXCEPT ![tail].next = a] /\ head' = head
           /\ tail' = a
           /\ order' = Append(order, a)
  /\ count' = count + 1
  /\ event' = Appended(d)
  /\ UNCHANGED <<job, stage, p, key>>

AppendNoMemory(d) ==
  /\ job = "none" \/ stage = "called"
  /\ event' = Refused(d)
  /\ UNCHANGED <<heap, list, control, order>>

(* iam__list_remove: an empty list, a match at the head, or a search.      *)
RemoveEmpty(d) ==
  /\ job = "none" /\ head = NULL
  /\ event' = Removed(d)
  /\ UNCHANGED <<heap, list, control, order>>

(* Variant: list->tail is not reset when the only node goes.               *)
RemoveHeadKeepsTail(d) ==
  /\ job = "none" /\ head # NULL
  /\ heap[head].data = d
  /\ head' = heap[head].next
  /\ count' = count - 1
  /\ heap' = Free(heap, head)
  /\ order' = Tail(order)
  /\ event' = Removed(d)
  /\ UNCHANGED <<control, tail>>

RemoveHead(d) ==
  /\ job = "none" /\ head # NULL
  /\ heap[head].data = d
  /\ head' = heap[head].next
  /\ tail' = IF head' = NULL THEN NULL ELSE tail
  /\ count' = count - 1
  /\ heap' = Free(heap, head)
  /\ order' = Tail(order)
  /\ event' = Removed(d)
  /\ UNCHANGED control

RemoveSearch(d) ==
  /\ job = "none" /\ head # NULL
  /\ heap[head].data # d
  /\ job' = "remove" /\ p' = head /\ key' = d
  /\ UNCHANGED <<heap, list, stage, reentry, event, order>>

(* One iteration of the search loop.  The node after p matches, p is the   *)
(* last node, or the loop goes on.                                         *)
EndRemove ==
  /\ job' = "none" /\ p' = NULL
  /\ event' = Removed(key)
  /\ UNCHANGED <<stage, key, reentry>>

(* Variant: list->tail still points to the node freed.                     *)
UnlinkKeepsTail ==
  /\ job = "remove"
  /\ heap[p].next # NULL
  /\ heap[heap[p].next].data = key
  /\ LET tmp == heap[p].next
     IN  /\ heap' = Free([heap EXCEPT ![p].next = heap[tmp].next], tmp)
         /\ order' = RemoveFirst(order, tmp)
  /\ count' = count - 1
  /\ EndRemove
  /\ UNCHANGED <<head, tail>>

Unlink ==
  /\ job = "remove"
  /\ heap[p].next # NULL
  /\ heap[heap[p].next].data = key
  /\ LET tmp == heap[p].next
     IN  /\ heap' = Free([heap EXCEPT ![p].next = heap[tmp].next], tmp)
         /\ tail' = IF tail = tmp THEN p ELSE tail
         /\ order' = RemoveFirst(order, tmp)
  /\ count' = count - 1
  /\ EndRemove
  /\ UNCHANGED head

(* Variants: the search passes a match, or does not move.                  *)
SearchPastMatch ==
  /\ job = "remove"
  /\ heap[p].next # NULL
  /\ p' = heap[p].next
  /\ UNCHANGED <<heap, list, job, stage, key, reentry, event, order>>

SearchStays ==
  /\ job = "remove"
  /\ heap[p].next # NULL
  /\ heap[heap[p].next].data # key
  /\ UNCHANGED vars

SearchOn ==
  /\ job = "remove"
  /\ heap[p].next # NULL
  /\ heap[heap[p].next].data # key
  /\ p' = heap[p].next
  /\ UNCHANGED <<heap, list, job, stage, key, reentry, event, order>>

(* Variant: list->count goes down although nothing was found.              *)
NotFoundCounts ==
  /\ job = "remove"
  /\ heap[p].next = NULL
  /\ count' = count - 1
  /\ EndRemove
  /\ UNCHANGED <<heap, head, tail, order>>

NotFound ==
  /\ job = "remove"
  /\ heap[p].next = NULL
  /\ EndRemove
  /\ UNCHANGED <<heap, list, order>>

(* IAM__FOREACH_DEL: the loop of iam__list_clear, _clear_act, _free and    *)
(* _free_act.  The list's own fields keep their old values until the       *)
(* iam__list_init after the loop.                                          *)
Begin(k) ==
  /\ job = "none" /\ head # NULL
  /\ job' = k /\ p' = head /\ stage' = "visit"
  /\ event' = Quiet
  /\ UNCHANGED <<heap, list, key, reentry, order>>

BeginEmpty ==
  /\ job = "none" /\ head = NULL
  /\ head' = NULL /\ tail' = NULL /\ count' = 0
  /\ event' = Quiet
  /\ UNCHANGED <<heap, control, order>>

Act ==
  /\ stage = "visit" /\ job \in Calling
  /\ stage' = "called"
  /\ event' = Called(heap[p].data)
  /\ UNCHANGED <<heap, list, job, p, key, reentry, order>>

(* Variant: the data is freed before the callback has seen it.             *)
ReleaseFirst ==
  /\ job \in Releasing /\ stage \in {"visit", BeforeRelease(job)}
  /\ stage' = "released"
  /\ event' = Released(heap[p].data)
  /\ UNCHANGED <<heap, list, job, p, key, reentry, order>>

Release ==
  /\ job \in Releasing /\ stage = BeforeRelease(job)
  /\ stage' = "released"
  /\ event' = Released(heap[p].data)
  /\ UNCHANGED <<heap, list, job, p, key, reentry, order>>

Advance ==
  /\ Walking /\ stage = BodyDone(job)
  /\ heap[p].next # NULL
  /\ p' = heap[p].next
  /\ heap' = Free(heap, p)
  /\ order' = Tail(order)
  /\ stage' = "visit"
  /\ event' = Quiet
  /\ UNCHANGED <<list, job, key, reentry>>

Finish ==
  /\ Walking /\ stage = BodyDone(job)
  /\ heap[p].next = NULL
  /\ heap' = Free(heap, p)
  /\ order' = Tail(order)
  /\ head' = NULL /\ tail' = NULL /\ count' = 0
  /\ job' = "none" /\ stage' = "idle" /\ p' = NULL /\ reentry' = 0
  /\ event' = Quiet
  /\ UNCHANGED key

Loop == Unlink \/ SearchOn \/ NotFound \/ Act \/ Release \/ Advance \/ Finish

Next ==
  \/ \E d \in Data : AppendNode(d) \/ AppendNoMemory(d)
  \/ \E d \in Data : RemoveEmpty(d) \/ RemoveHead(d) \/ RemoveSearch(d)
  \/ \E k \in Kinds : Begin(k)
  \/ BeginEmpty
  \/ Loop

(* The loops are straight-line C code: once entered they go on.            *)
Spec == Init /\ [][Next]_vars /\ WF_vars(Loop)
-----------------------------------------------------------------------------
(* The fields and the control variables have the types the code gives      *)
(* them, and only an allocated node has contents.                          *)
TypeOK ==
  /\ live \subseteq Addr
  /\ heap \in [live -> Node]
  /\ head \in Addr \cup {NULL}
  /\ tail \in Addr \cup {NULL}
  /\ count \in Nat
  /\ job \in Kinds \cup {"none", "remove"}
  /\ stage \in Stages
  /\ p \in Addr \cup {NULL}
  /\ key \in Data
  /\ reentry \in Nat
  /\ order \in Seq(Addr)

(* The node from which the rest of the list hangs: list->head, or the loop *)
(* variable once a traversal has begun to free the nodes before it.        *)
First == IF Walking THEN p ELSE head

(* Between any two iterations, whatever the callback appended, the nodes   *)
(* still allocated are exactly those of the list (none leaked, none freed  *)
(* while linked), each points to the one appended after it, and list->tail *)
(* is the last one, so that the next iam__list_append neither writes to a  *)
(* freed node nor loses one.                                               *)
Linked ==
  /\ ToSet(order) = live
  /\ \A i, j \in 1 .. Len(order) : order[i] = order[j] => i = j
  /\ \A i \in 1 .. Len(order) - 1 : heap[order[i]].next = order[i + 1]
  /\ order = << >> => First = NULL
  /\ order # << >> =>
       /\ First = order[1]
       /\ tail = order[Len(order)]
       /\ heap[tail].next = NULL

(* Outside a destroying traversal list->count, which the loggers and the   *)
(* "Plugins loaded" message trust, is the number of nodes, and an empty    *)
(* list has no tail left to append to.                                     *)
Counted ==
  ~Walking => count = Len(order) /\ (order = << >> => tail = NULL)

(* A call in progress holds a node that is still allocated; a search has   *)
(* passed only nodes that do not match.                                    *)
Cursor ==
  /\ job = "none" => p = NULL /\ stage = "idle"
  /\ Walking => p \in live /\ stage # "idle" /\ head # NULL
  /\ job = "remove" =>
       /\ stage = "idle"
       /\ \E i \in 1 .. Len(order) :
            /\ order[i] = p
            /\ \A j \in 1 .. i : heap[order[j]].data # key

(* Every call returns: a removal or a traversal that has begun comes to an *)
(* end, provided its callback appends only finitely many elements.         *)
CallReturns == job # "none" ~> job = "none"

(* What a caller sees of the list: the data still to be found in it, and   *)
(* the traversal that owns it.                                             *)
contents == [i \in 1 .. Len(order) |-> heap[order[i]].data]
traversal == IF Walking THEN job ELSE "none"

(* The list keeps the promise of ListSpec: each step of the pointer code   *)
(* is a step of the sequence, or invisible.                                *)
Abstract == INSTANCE ListSpec WITH items <- contents, kind <- traversal
ListPromise == Abstract!Spec
=============================================================================
