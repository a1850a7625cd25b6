-------------------------- MODULE LinkedListProofs --------------------------
(***************************************************************************)
(* For every set of addresses and data and every number of appends from    *)
(* callbacks: the list of src/list.c stays linked in insertion order with  *)
(* no node leaked or freed while linked (Linked), its count is right       *)
(* (Counted) and every loop variable points to an allocated node (Cursor). *)
(***************************************************************************)
EXTENDS LinkedList, SequenceTheorems, TLAPS

(* Min of a set of naturals with a known least element is that element.    *)
LEMMA MinIsLeast ==
  ASSUME NEW I \in SUBSET Nat, NEW m \in I, \A x \in I : m <= x
  PROVE  Min(I) = m
<1>1. \A x \in I : x \in Nat
  OBVIOUS
<1>2. (m \in I /\ \A y \in I : m <= y) /\
      (\A x \in I : (\A y \in I : x <= y) => x = m)
  BY <1>1, SMT
<1> QED
  BY <1>2, Zenon DEF Min

(* RemoveFirst(s, e) closes the gap left by the first e.                   *)
LEMMA RemoveFirstShape ==
  ASSUME NEW S, NEW s \in Seq(S), NEW e, NEW i \in 1 .. Len(s),
         s[i] = e, \A j \in 1 .. i - 1 : s[j] # e
  PROVE  /\ RemoveFirst(s, e) \in Seq(S)
         /\ Len(RemoveFirst(s, e)) = Len(s) - 1
         /\ \A j \in 1 .. Len(s) - 1 :
              RemoveFirst(s, e)[j] = IF j < i THEN s[j] ELSE s[j + 1]
<1> DEFINE I == {j \in 1 .. Len(s) : s[j] = e}
<1>1. I \in SUBSET Nat /\ i \in I /\ \A x \in I : i <= x
  OBVIOUS
<1>2. Min(I) = i
  BY <1>1, MinIsLeast
<1>3. SelectInSeq(s, LAMBDA v : v = e) = i
  BY <1>1, <1>2 DEF SelectInSeq
<1>4. RemoveFirst(s, e) = SubSeq(s, 1, i - 1) \o SubSeq(s, i + 1, Len(s))
  BY <1>3 DEF RemoveFirst, RemoveAt
<1> DEFINE a == SubSeq(s, 1, i - 1)
           b == SubSeq(s, i + 1, Len(s))
<1>5. a \in Seq(S) /\ Len(a) = i - 1 /\ \A j \in 1 .. i - 1 : a[j] = s[j]
  OBVIOUS
<1>6. b \in Seq(S) /\ Len(b) = Len(s) - i /\ \A j \in 1 .. Len(s) - i : b[j] = s[i + j]
  OBVIOUS
<1>7. Len(s) \in Nat /\ RemoveFirst(s, e) = a \o b
  BY <1>4
<1> HIDE DEF a, b
<1>8. a \o b \in Seq(S) /\ Len(a \o b) = Len(s) - 1
  BY <1>5, <1>6, <1>7
<1>9. \A j \in 1 .. Len(s) - 1 : (a \o b)[j] = IF j < i THEN a[j] ELSE b[j + 1 - i]
  BY <1>5, <1>6, <1>7
<1> QED
  BY <1>5, <1>6, <1>7, <1>8, <1>9

-----------------------------------------------------------------------------
(* The inductive invariant.  No part of it is inductive alone: Linked      *)
(* needs Cursor to know which node a step frees, Cursor needs Linked to    *)
(* know that the node after it is allocated, and Counted both.             *)
IInv == TypeOK /\ Linked /\ Counted /\ Cursor

(* What the invariant says of the list when it is not empty.               *)
LEMMA OrderFacts ==
  ASSUME IInv
  PROVE  /\ Len(order) \in Nat
         /\ \A i \in 1 .. Len(order) : order[i] \in live /\ order[i] \in Addr
         /\ \A a \in live : \E i \in 1 .. Len(order) : order[i] = a
         /\ head # NULL <=> order # << >>
         /\ order # << >> <=> Len(order) >= 1
<1>1. /\ Len(order) \in Nat
      /\ \A i \in 1 .. Len(order) : order[i] \in live /\ order[i] \in Addr
      /\ \A a \in live : \E i \in 1 .. Len(order) : order[i] = a
      /\ order # << >> <=> Len(order) >= 1
  BY DEF IInv, TypeOK, Linked, ToSet
<1>2. head # NULL <=> order # << >>
  <2>1. CASE Walking
    BY <2>1, <1>1 DEF IInv, Cursor
  <2>2. CASE ~Walking
    BY <2>2, <1>1, NullAssumption DEF IInv, Linked, First
  <2> QED
    BY <2>1, <2>2
<1> QED
  BY <1>1, <1>2

(* An initialised list (iam__list_init) satisfies the invariant.           *)
LEMMA InitInv == Init => IInv
<1> SUFFICES ASSUME Init PROVE IInv
  OBVIOUS
<1> USE DEF Init
<1>1. DOMAIN heap = {} /\ heap \in [{} -> Node]
  OBVIOUS
<1>2. TypeOK
  BY <1>1 DEF TypeOK, live, Stages
<1>3. Linked
  BY <1>1 DEF Linked, live, First, Walking, Kinds, ToSet
<1>4. Counted
  BY DEF Counted
<1>5. Cursor
  BY DEF Cursor, Walking, Kinds
<1> QED
  BY <1>2, <1>3, <1>4, <1>5 DEF IInv

(* iam__list_append, outside a traversal or from its callback: the new     *)
(* node becomes the last one, and the one list->tail points to.            *)
LEMMA AppendInv ==
  ASSUME IInv, NEW d \in Data, AppendNode(d)
  PROVE  IInv'
<1> USE DEF AppendNode
<1>1. PICK a \in Addr \ live :
        LET h == Alloc(a, [data |-> d, next |-> NULL])
        IN  /\ IF head = NULL
               THEN heap' = h /\ head' = a
               ELSE heap' = [h EXCEPT ![tail].next = a] /\ head' = head
            /\ tail' = a
            /\ order' = Append(order, a)
  OBVIOUS
<1> DEFINE n == Len(order)
<1>2. /\ n \in Nat /\ Len(order') = n + 1
      /\ \A i \in 1 .. n : order'[i] = order[i]
      /\ order'[n + 1] = a /\ order' \in Seq(Addr) /\ order' # << >>
  BY <1>1, OrderFacts DEF IInv, TypeOK
<1>3. /\ live' = live \cup {a}
      /\ heap' \in [live' -> Node]
      /\ heap'[a] = [data |-> d, next |-> NULL]
      /\ \A b \in live : b # tail => heap'[b] = heap[b]
      /\ \A b \in live : heap'[b].data = heap[b].data
      /\ order # << >> => heap'[tail].next = a
  <2>1. CASE head = NULL
    BY <2>1, <1>1, OrderFacts DEF IInv, TypeOK, Alloc, live, Node
  <2>2. CASE head # NULL
    <3>1. tail \in live /\ tail # a
      BY <2>2, OrderFacts DEF IInv, Linked
    <3> DEFINE h == Alloc(a, [data |-> d, next |-> NULL])
    <3>2. /\ h \in [live \cup {a} -> Node]
          /\ h[a] = [data |-> d, next |-> NULL]
          /\ \A b \in live : h[b] = heap[b]
      BY <1>1 DEF IInv, TypeOK, Alloc, live, Node
    <3>3. heap' = [h EXCEPT ![tail].next = a]
      BY <2>2, <1>1
    <3> HIDE DEF h
    <3>4. heap' = [h EXCEPT ![tail] = [h[tail] EXCEPT !.next = a]]
      BY <3>3
    <3>5. h[tail] \in Node /\ [h[tail] EXCEPT !.next = a] \in Node
      BY <3>1, <3>2, <1>1 DEF Node
    <3>6. heap' \in [live \cup {a} -> Node] /\ live' = live \cup {a}
      BY <3>1, <3>2, <3>4, <3>5 DEF live
    <3> QED
      BY <3>1, <3>2, <3>4, <3>5, <3>6 DEF Node
  <2> QED
    BY <2>1, <2>2
<1>4. TypeOK'
  BY <1>1, <1>2, <1>3 DEF IInv, TypeOK, MayAppend
<1>5. Linked'
  <2>1. ToSet(order') = live'
    BY <1>2, <1>3, OrderFacts DEF IInv, Linked, ToSet
  <2>2. \A i, j \in 1 .. Len(order') : order'[i] = order'[j] => i = j
    BY <1>1, <1>2, OrderFacts DEF IInv, Linked
  <2>3. \A i \in 1 .. Len(order') - 1 : heap'[order'[i]].next = order'[i + 1]
    <3> TAKE i \in 1 .. Len(order') - 1
    <3>1. CASE i = n
      BY <3>1, <1>2, <1>3, OrderFacts DEF IInv, Linked
    <3>2. CASE i # n
      <4>1. i \in 1 .. n - 1 /\ order[i] # tail
        BY <3>2, <1>2, OrderFacts DEF IInv, Linked
      <4> QED
        BY <4>1, <1>2, <1>3, OrderFacts DEF IInv, Linked
    <3> QED
      BY <3>1, <3>2
  <2>4. First' = order'[1] /\ tail' = order'[Len(order')] /\ heap'[tail'].next = NULL
    BY <1>1, <1>2, <1>3, OrderFacts DEF IInv, Linked, First, Walking, Cursor, MayAppend, Kinds
  <2> QED
    BY <2>1, <2>2, <2>3, <2>4, <1>2 DEF Linked
<1>6. Counted'
  BY <1>2 DEF IInv, Counted, Walking
<1>7. Cursor'
  BY <1>1, <1>3 DEF IInv, Cursor, Walking, MayAppend, Kinds
<1> QED
  BY <1>4, <1>5, <1>6, <1>7 DEF IInv

(* Freeing the first node and stepping to the one after it, as             *)
(* iam__list_remove does at the head and every traversal at its end.       *)
LEMMA PopFirst ==
  ASSUME IInv, order # << >>,
         heap' = Free(heap, First), order' = Tail(order)
  PROVE  /\ heap' \in [live' -> Node] /\ live' = live \ {First}
         /\ order' \in Seq(Addr) /\ Len(order') = Len(order) - 1
         /\ \A b \in live' : heap'[b] = heap[b]
         /\ ToSet(order') = live'
         /\ \A i, j \in 1 .. Len(order') : order'[i] = order'[j] => i = j
         /\ \A i \in 1 .. Len(order') - 1 : heap'[order'[i]].next = order'[i + 1]
         /\ order' = << >> <=> heap[First].next = NULL
         /\ order' # << >> =>
              /\ heap[First].next = order'[1]
              /\ heap[First].next \in live'
              /\ tail = order'[Len(order')]
              /\ heap'[tail].next = NULL
<1> DEFINE n == Len(order)
<1>1. /\ n \in Nat /\ n >= 1 /\ First = order[1]
      /\ order \in Seq(Addr)
      /\ \A i \in 1 .. n : order[i] \in live /\ order[i] \in Addr
  BY OrderFacts DEF IInv, TypeOK, Linked
<1>2. /\ order' \in Seq(Addr) /\ Len(order') = n - 1
      /\ \A i \in 1 .. n - 1 : order'[i] = order[i + 1]
  BY <1>1
<1>3. /\ heap' \in [live' -> Node] /\ live' = live \ {First}
      /\ \A b \in live' : heap'[b] = heap[b]
  BY <1>1 DEF IInv, TypeOK, Free, live
<1>4. \A i, j \in 1 .. Len(order') : order'[i] = order'[j] => i = j
  BY <1>1, <1>2 DEF IInv, Linked
<1>5. \A i \in 1 .. n - 1 : order'[i] \in live'
  BY <1>1, <1>2, <1>3 DEF IInv, Linked
<1>6. ToSet(order') = live'
  <2>1. \A a \in live' : \E i \in 1 .. n - 1 : order'[i] = a
    <3> TAKE a \in live'
    <3>1. PICK i \in 1 .. n : order[i] = a
      BY <1>3, OrderFacts
    <3>2. i # 1
      BY <3>1, <1>1, <1>3
    <3> QED
      BY <3>1, <3>2, <1>1, <1>2
  <2>2. DOMAIN order' = 1 .. n - 1
    BY <1>1, <1>2
  <2>3. ToSet(order') = {order'[i] : i \in 1 .. n - 1}
    BY <2>2 DEF ToSet
  <2> HIDE DEF n
  <2> QED
    BY <2>1, <2>3, <1>5
<1>7. \A i \in 1 .. Len(order') - 1 : heap'[order'[i]].next = order'[i + 1]
  BY <1>1, <1>2, <1>3, <1>5 DEF IInv, Linked
<1>8. CASE n = 1
  <2>1. heap[First].next = NULL
    BY <1>8, <1>1 DEF IInv, Linked
  <2>2. order' = << >>
    BY <1>8, <1>2
  <2> QED
    BY <2>1, <2>2, <1>2, <1>3, <1>4, <1>6, <1>7
<1>9. CASE n >= 2
  <2>1. heap[First].next = order[2]
    <3>1. \A i \in 1 .. n - 1 : heap[order[i]].next = order[i + 1]
      BY DEF IInv, Linked
    <3> HIDE DEF n
    <3>2. 1 \in 1 .. n - 1 /\ 1 + 1 = 2
      BY <1>9, <1>1
    <3> QED
      BY <3>1, <3>2, <1>1
  <2>2. order' # << >> /\ order'[1] = order[2] /\ order'[1] \in live' /\ order'[1] # NULL
    <3>1. 1 \in 1 .. n - 1 /\ 2 \in 1 .. n /\ 1 + 1 = 2
      <4> HIDE DEF n
      <4> QED
        BY <1>9, <1>1
    <3>2. order'[1] = order[1 + 1] /\ order'[1] \in live'
      BY <3>1, <1>2, <1>5
    <3>3. order' # << >>
      <4>1. Len(order') # 0
        <5> HIDE DEF n
        <5> QED
          BY <1>9, <1>1, <1>2
      <4>2. Len(<< >>) = 0
        OBVIOUS
      <4> QED
        BY <4>1, <4>2, Zenon
    <3> QED
      BY <3>1, <3>2, <3>3, <1>1, NullAssumption
  <2>3. tail = order'[Len(order')] /\ heap'[tail].next = NULL
    BY <1>9, <1>1, <1>2, <1>3, <1>5 DEF IInv, Linked
  <2> QED
    BY <2>1, <2>2, <2>3, <1>2, <1>3, <1>4, <1>6, <1>7
<1>10. n = 1 \/ n >= 2
  <2> HIDE DEF n
  <2> QED
    BY <1>1
<1> QED
  BY <1>8, <1>9, <1>10

(* iam__list_remove when the first node matches.                           *)
LEMMA RemoveHeadInv ==
  ASSUME IInv, NEW d \in Data, RemoveHead(d)
  PROVE  IInv'
<1> USE DEF RemoveHead, control
<1>1. order # << >> /\ First = head /\ ~Walking /\ ~Walking' /\ count = Len(order)
  BY OrderFacts DEF IInv, Counted, First, Walking, Kinds
<1>2. heap' = Free(heap, First) /\ order' = Tail(order) /\ head' = heap[First].next
  BY <1>1
<1>3. TypeOK'
  BY <1>1, <1>2, PopFirst, OrderFacts DEF IInv, TypeOK, Linked
<1>4. Linked'
  BY <1>1, <1>2, PopFirst, NullAssumption DEF IInv, TypeOK, Linked, First
<1>5. Counted'
  BY <1>1, <1>2, PopFirst DEF IInv, Counted
<1>6. Cursor'
  BY <1>1 DEF IInv, Cursor, Walking, Kinds
<1> QED
  BY <1>3, <1>4, <1>5, <1>6 DEF IInv

(* An iteration of IAM__FOREACH_DEL that is not the last: the node left    *)
(* behind was the first of those that remain.                              *)
LEMMA AdvanceInv ==
  ASSUME IInv, Advance
  PROVE  IInv'
<1> USE DEF Advance, list
<1>1. order # << >> /\ First = p /\ Walking' /\ First' = heap[First].next
  BY OrderFacts DEF IInv, Cursor, First, Walking, Kinds
<1>2. heap' = Free(heap, First) /\ order' = Tail(order)
  BY <1>1
<1>3. order' # << >> /\ heap[First].next \in live' /\ live' \subseteq Addr
  BY <1>1, <1>2, PopFirst DEF IInv, TypeOK
<1>4. TypeOK'
  BY <1>1, <1>2, <1>3, PopFirst DEF IInv, TypeOK, Stages
<1>5. Linked'
  BY <1>1, <1>2, <1>3, PopFirst DEF Linked
<1>6. Counted' /\ Cursor'
  BY <1>1, <1>3 DEF IInv, Counted, Cursor, Walking, Kinds
<1> QED
  BY <1>4, <1>5, <1>6 DEF IInv

(* The last iteration and the iam__list_init after the loop.               *)
LEMMA FinishInv ==
  ASSUME IInv, Finish
  PROVE  IInv'
<1> USE DEF Finish
<1>1. order # << >> /\ First = p /\ ~Walking'
  BY OrderFacts DEF IInv, Cursor, First, Walking, Kinds
<1>2. heap' = Free(heap, First) /\ order' = Tail(order)
  BY <1>1
<1>3. order' = << >> /\ Len(order') = 0
  BY <1>1, <1>2, PopFirst
<1>4. TypeOK'
  BY <1>1, <1>2, <1>3, PopFirst DEF IInv, TypeOK, Stages
<1>5. Linked'
  BY <1>1, <1>2, <1>3, PopFirst DEF Linked, First
<1>6. Counted' /\ Cursor'
  BY <1>1, <1>3 DEF IInv, Counted, Cursor, Walking, Kinds
<1> QED
  BY <1>4, <1>5, <1>6 DEF IInv

(* iam__list_remove in the middle: the node after p goes, and p takes over *)
(* its place before the rest of the list, or as the tail.                  *)
LEMMA UnlinkInv ==
  ASSUME IInv, Unlink
  PROVE  IInv'
<1> USE DEF Unlink, EndRemove
<1> DEFINE n == Len(order)
           tmp == heap[p].next
<1>1. PICK i \in 1 .. n :
        order[i] = p /\ \A j \in 1 .. i : heap[order[j]].data # key
  BY DEF IInv, Cursor
<1>2. /\ n \in Nat /\ i \in Nat /\ order \in Seq(Addr)
      /\ First = head /\ head = order[1] /\ tail = order[n]
      /\ heap[tail].next = NULL
      /\ ~Walking /\ ~Walking' /\ count = n
  BY <1>1, OrderFacts DEF IInv, TypeOK, Linked, Counted, First, Walking, Kinds
<1>3. i \in 1 .. n - 1 /\ i + 1 \in 1 .. n /\ order[i + 1] = tmp
  <2>1. i # n
    BY <1>1, <1>2
  <2>2. i \in 1 .. n - 1 /\ i + 1 \in 1 .. n
    <3> HIDE DEF n
    <3> QED
      BY <2>1, <1>1, <1>2
  <2> QED
    BY <2>2, <1>1 DEF IInv, Linked
<1>4. \A j \in 1 .. i : order[j] # tmp
  BY <1>2, <1>3 DEF IInv, Linked
<1>5. /\ order' \in Seq(Addr) /\ Len(order') = n - 1
      /\ \A j \in 1 .. n - 1 : order'[j] = IF j < i + 1 THEN order[j] ELSE order[j + 1]
  <2>1. \A j \in 1 .. (i + 1) - 1 : order[j] # tmp
    BY <1>2, <1>4
  <2>2. order' = RemoveFirst(order, tmp)
    OBVIOUS
  <2>3. i + 1 \in 1 .. Len(order) /\ order[i + 1] = tmp
    BY <1>3
  <2> HIDE DEF tmp
  <2>4. /\ RemoveFirst(order, tmp) \in Seq(Addr)
        /\ Len(RemoveFirst(order, tmp)) = Len(order) - 1
        /\ \A j \in 1 .. Len(order) - 1 : RemoveFirst(order, tmp)[j]
              = IF j < i + 1 THEN order[j] ELSE order[j + 1]
    BY <2>1, <2>3, <1>2, RemoveFirstShape
  <2> QED
    BY <2>2, <2>4
<1>6. /\ tmp \in live /\ p \in live /\ tmp # p
      /\ heap[tmp].next \in Addr \cup {NULL}
  BY <1>1, <1>2, <1>3, <1>4, OrderFacts DEF IInv, TypeOK, Node
<1>7. /\ live' = live \ {tmp}
      /\ heap' \in [live' -> Node]
      /\ heap'[p].next = heap[tmp].next
      /\ \A b \in live' : heap'[b].data = heap[b].data
      /\ \A b \in live' : b # p => heap'[b] = heap[b]
  <2> DEFINE h == [heap EXCEPT ![p].next = heap[tmp].next]
  <2>1. /\ h \in [live -> Node]
        /\ h[p].next = heap[tmp].next /\ h[p].data = heap[p].data
        /\ \A b \in live : b # p => h[b] = heap[b]
    BY <1>6 DEF IInv, TypeOK, Node
  <2>2. heap' = Free(h, tmp)
    OBVIOUS
  <2> HIDE DEF h, tmp
  <2> QED
    BY <2>1, <2>2, <1>6 DEF Free, live
<1> HIDE DEF tmp
<1>8. \A j, k \in 1 .. Len(order') : order'[j] = order'[k] => j = k
  <2> TAKE j, k \in 1 .. Len(order')
  <2> DEFINE at(x) == IF x < i + 1 THEN x ELSE x + 1
  <2>1. /\ at(j) \in 1 .. n /\ order'[j] = order[at(j)]
        /\ at(k) \in 1 .. n /\ order'[k] = order[at(k)]
        /\ at(j) = at(k) => j = k
    BY <1>2, <1>3, <1>5
  <2>2. order[at(j)] = order[at(k)] => at(j) = at(k)
    <3> HIDE DEF at
    <3> QED
      BY <2>1 DEF IInv, Linked
  <2> HIDE DEF at
  <2> QED
    BY <2>1, <2>2
<1>9. ToSet(order') = live'
  <2>1. \A j \in 1 .. n - 1 : order'[j] \in live'
    BY <1>2, <1>3, <1>4, <1>5, <1>7, OrderFacts DEF IInv, Linked
  <2>2. \A a \in live' : \E j \in 1 .. n - 1 : order'[j] = a
    <3> TAKE a \in live'
    <3>1. PICK k \in 1 .. n : order[k] = a /\ k # i + 1
      BY <1>3, <1>7, OrderFacts
    <3>2. CASE k < i + 1
      BY <3>1, <3>2, <1>2, <1>3, <1>5
    <3>3. CASE k > i + 1
      <4>1. k - 1 \in 1 .. n - 1 /\ ~(k - 1 < i + 1) /\ (k - 1) + 1 = k
        BY <3>1, <3>3, <1>2, <1>3
      <4> QED
        BY <4>1, <3>1, <1>5
    <3> QED
      BY <3>1, <3>2, <3>3, <1>2
  <2>3. DOMAIN order' = 1 .. n - 1
    BY <1>5
  <2>4. ToSet(order') = {order'[j] : j \in 1 .. n - 1}
    BY <2>3 DEF ToSet
  <2> HIDE DEF n
  <2> QED
    BY <2>1, <2>2, <2>4
<1>10. \A j \in 1 .. Len(order') - 1 : heap'[order'[j]].next = order'[j + 1]
  <2> TAKE j \in 1 .. Len(order') - 1
  <2>1. j \in Nat /\ j >= 1 /\ j < n - 1 /\ j + 1 \in 1 .. n - 1 /\ j \in 1 .. n - 1
    BY <1>2, <1>5
  <2>2. order'[j] \in live'
    BY <1>2, <1>3, <1>4, <1>5, <1>7, <2>1, OrderFacts DEF IInv, Linked
  <2>3. CASE j < i
    <3>1. /\ order'[j] = order[j] /\ order'[j + 1] = order[j + 1]
          /\ j \in 1 .. n - 1 /\ j \in 1 .. n /\ i \in 1 .. n /\ j # i
      BY <2>1, <2>3, <1>2, <1>3, <1>5
    <3>2. heap[order[j]].next = order[j + 1] /\ order[j] # p
      BY <3>1, <1>1 DEF IInv, Linked
    <3> QED
      BY <3>1, <3>2, <2>2, <1>7
  <2>4. CASE j = i
    <3>1. order'[j] = p /\ order'[j + 1] = order[i + 2]
      BY <2>1, <2>4, <1>1, <1>2, <1>3, <1>5
    <3>2. heap[tmp].next = order[i + 2]
      BY <2>1, <2>4, <1>2, <1>3 DEF IInv, Linked
    <3> QED
      BY <3>1, <3>2, <1>7
  <2>5. CASE j > i
    <3>1. order'[j] = order[j + 1] /\ order'[j + 1] = order[j + 2] /\ order[j + 1] # p
      BY <2>1, <2>5, <1>1, <1>2, <1>3, <1>5 DEF IInv, Linked
    <3>2. heap[order[j + 1]].next = order[j + 2]
      BY <2>1, <2>5, <1>2 DEF IInv, Linked
    <3> QED
      BY <3>1, <3>2, <2>2, <1>7
  <2> QED
    BY <2>1, <2>3, <2>4, <2>5, <1>2
<1>11. order' # << >> /\ First' = order'[1]
  <2>1. Len(order') # 0 /\ 1 \in 1 .. n - 1 /\ 1 < i + 1
    <3> HIDE DEF n
    <3> QED
      BY <1>2, <1>3, <1>5
  <2>2. Len(<< >>) = 0
    OBVIOUS
  <2>3. order' # << >>
    BY <2>1, <2>2, Zenon
  <2> QED
    BY <2>1, <2>3, <1>2, <1>5 DEF First
<1>12. tail' = order'[Len(order')] /\ heap'[tail'].next = NULL
  <2>1. CASE tail = tmp
    <3>1. i + 1 = n
      BY <2>1, <1>2, <1>3 DEF IInv, Linked
    <3>2. order'[n - 1] = p /\ tail' = p
      BY <2>1, <3>1, <1>1, <1>2, <1>3, <1>5 DEF tmp
    <3> QED
      BY <2>1, <3>2, <1>2, <1>5, <1>7
  <2>2. CASE tail # tmp
    <3>1. i + 1 # n
      BY <2>2, <1>2, <1>3
    <3>2. order'[n - 1] = tail /\ tail' = tail
      BY <2>2, <3>1, <1>2, <1>3, <1>5 DEF tmp
    <3>3. tail # p /\ tail \in live'
      BY <2>2, <1>1, <1>2, <1>3, <1>7, OrderFacts DEF IInv, Linked
    <3> QED
      BY <3>2, <3>3, <1>2, <1>5, <1>7
  <2> QED
    BY <2>1, <2>2
<1>13. TypeOK'
  <2>1. count' \in Nat
    <3> HIDE DEF n
    <3> QED
      BY <1>2, <1>3
  <2>2. live' \subseteq Addr /\ tail' \in Addr \cup {NULL}
    BY <1>6, <1>7 DEF IInv, TypeOK, tmp
  <2> QED
    BY <2>1, <2>2, <1>5, <1>7 DEF IInv, TypeOK
<1>14. Linked'
  BY <1>8, <1>9, <1>10, <1>11, <1>12 DEF Linked
<1>15. Counted' /\ Cursor'
  BY <1>2, <1>5, <1>11 DEF IInv, Counted, Cursor, Walking, Kinds
<1> QED
  BY <1>13, <1>14, <1>15 DEF IInv

(* The steps that move a loop variable or the control and leave the nodes. *)
LEMMA SearchInv ==
  ASSUME IInv, NEW d \in Data, RemoveSearch(d) \/ SearchOn \/ NotFound
  PROVE  IInv'
<1> DEFINE n == Len(order)
<1>1. UNCHANGED <<heap, head, tail, count, order, reentry, stage>>
  BY DEF RemoveSearch, SearchOn, NotFound, EndRemove, list, control
<1>2. ~Walking /\ ~Walking' /\ stage = "idle" /\ live' = live
  BY <1>1 DEF IInv, Cursor, RemoveSearch, SearchOn, NotFound, EndRemove, Walking, Kinds, live
<1>3. Linked' /\ Counted'
  BY <1>1, <1>2 DEF IInv, Linked, Counted, First
<1>4. TypeOK' /\ Cursor'
  <2>1. CASE RemoveSearch(d)
    <3>1. n \in Nat /\ n >= 1 /\ order[1] = head /\ head \in Addr
      BY <2>1, <1>2, OrderFacts DEF IInv, Linked, First, RemoveSearch
    <3>2. \E i \in 1 .. Len(order') :
            /\ order'[i] = p'
            /\ \A j \in 1 .. i : heap'[order'[j]].data # key'
      <4>1. 1 \in 1 .. n /\ \A j \in 1 .. 1 : j = 1
        <5> HIDE DEF n
        <5> QED
          BY <3>1
      <4> QED
        BY <4>1, <3>1, <2>1, <1>1 DEF RemoveSearch
    <3> QED
      BY <2>1, <3>1, <3>2, <1>1, <1>2 DEF IInv, TypeOK, Cursor, RemoveSearch
  <2>2. CASE SearchOn
    <3>1. PICK i \in 1 .. n :
            order[i] = p /\ \A j \in 1 .. i : heap[order[j]].data # key
      BY <2>2 DEF IInv, Cursor, SearchOn
    <3>2. n \in Nat /\ i \in Nat /\ tail = order[n] /\ heap[tail].next = NULL
      BY <3>1, <2>2, OrderFacts DEF IInv, Linked
    <3>3. i + 1 \in 1 .. n /\ p' = order[i + 1] /\ i \in 1 .. n - 1
      <4>1. i # n
        BY <3>1, <3>2, <2>2 DEF SearchOn
      <4>2. i + 1 \in 1 .. n /\ i \in 1 .. n - 1
        <5> HIDE DEF n
        <5> QED
          BY <4>1, <3>1, <3>2
      <4> QED
        BY <4>2, <3>1, <2>2 DEF IInv, Linked, SearchOn
    <3>4. \A j \in 1 .. i + 1 : heap[order[j]].data # key
      <4>1. heap[order[i + 1]].data # key
        BY <3>3, <2>2 DEF SearchOn
      <4>2. \A j \in 1 .. i + 1 : j = i + 1 \/ j \in 1 .. i
        BY <3>2
      <4> QED
        BY <4>1, <4>2, <3>1
    <3>5. p' \in Addr
      BY <3>3, OrderFacts
    <3> QED
      BY <2>2, <3>3, <3>4, <3>5, <1>1, <1>2 DEF IInv, TypeOK, Cursor, SearchOn
  <2>3. CASE NotFound
    BY <2>3, <1>1, <1>2 DEF IInv, TypeOK, Cursor, NotFound, EndRemove
  <2> QED
    BY <2>1, <2>2, <2>3
<1> QED
  BY <1>3, <1>4 DEF IInv

(* The other steps of a traversal leave the nodes alone.                   *)
LEMMA TraverseInv ==
  ASSUME IInv, NEW k \in Kinds, Begin(k) \/ BeginEmpty \/ Act \/ Release
  PROVE  IInv'
<1>1. CASE Begin(k)
  <2>1. head \in live /\ Walking' /\ First' = First /\ live' = live
    BY <1>1, OrderFacts DEF IInv, Linked, Begin, list, First, Walking, Kinds, live
  <2> QED
    BY <1>1, <2>1 DEF IInv, TypeOK, Linked, Counted, Cursor, Begin, list, Stages, Kinds, Walking
<1>2. CASE BeginEmpty
  <2>1. order = << >> /\ ~Walking /\ ~Walking' /\ live' = live /\ count = 0 /\ tail = NULL
    BY <1>2, OrderFacts DEF IInv, BeginEmpty, control, Walking, Kinds, Counted, live
  <2> QED
    BY <1>2, <2>1 DEF IInv, TypeOK, Linked, Counted, Cursor, BeginEmpty, control, First
<1>3. CASE Act \/ Release
  <2>1. Walking /\ Walking' /\ UNCHANGED <<heap, list, job, p, key, reentry, order>> /\ stage' \in {"called", "released"}
    BY <1>3 DEF Act, Release, Walking, Kinds, Calling, Releasing
  <2>2. UNCHANGED <<live, First>>
    BY <2>1 DEF live, First, Walking
  <2> QED
    BY <2>1, <2>2 DEF IInv, TypeOK, Linked, Counted, Cursor, list, Stages, Walking, Kinds
<1> QED
  BY <1>1, <1>2, <1>3

(* Steps that change nothing but the event, and stuttering.                *)
LEMMA StutterInv ==
  ASSUME IInv, UNCHANGED <<heap, list, control, order>>
  PROVE  IInv'
<1>1. UNCHANGED <<live, First, Walking>>
  BY DEF live, First, Walking, control, list
<1> QED
  BY <1>1 DEF IInv, TypeOK, Linked, Counted, Cursor, list, control

(* The inductive invariant: of all the parts of IInv, none is inductive    *)
(* without the others (Linked gives the traversal its next node, Cursor    *)
(* gives Unlink a node that is allocated, Counted makes an empty list's    *)
(* tail NULL).                                                             *)
THEOREM Invariance == Spec => []IInv
<1>1. Init => IInv
  BY InitInv
<1>2. IInv /\ [Next]_vars => IInv'
  <2> SUFFICES ASSUME IInv, [Next]_vars PROVE IInv'
    OBVIOUS
  <2>1. ASSUME NEW d \in Data, AppendNode(d) PROVE IInv'
    BY <2>1, AppendInv
  <2>2. ASSUME NEW d \in Data, AppendNoMemory(d) PROVE IInv'
    BY <2>2, StutterInv DEF AppendNoMemory
  <2>3. ASSUME NEW d \in Data, RemoveEmpty(d) PROVE IInv'
    BY <2>3, StutterInv DEF RemoveEmpty
  <2>4. ASSUME NEW d \in Data, RemoveHead(d) PROVE IInv'
    BY <2>4, RemoveHeadInv
  <2>5. ASSUME NEW d \in Data, RemoveSearch(d) PROVE IInv'
    BY <2>5, SearchInv
  <2>6. CASE SearchOn \/ NotFound
    <3>1. key \in Data
      BY DEF IInv, TypeOK
    <3> QED
      BY <2>6, <3>1, SearchInv
  <2>7. CASE Unlink
    BY <2>7, UnlinkInv
  <2>8. ASSUME NEW k \in Kinds, Begin(k) PROVE IInv'
    BY <2>8, TraverseInv
  <2>9. CASE BeginEmpty \/ Act \/ Release
    <3>1. "clear" \in Kinds
      BY DEF Kinds
    <3> QED
      BY <2>9, <3>1, TraverseInv
  <2>10. CASE Advance
    BY <2>10, AdvanceInv
  <2>11. CASE Finish
    BY <2>11, FinishInv
  <2>12. CASE UNCHANGED vars
    BY <2>12, StutterInv DEF vars
  <2> QED
    BY <2>1, <2>2, <2>3, <2>4, <2>5, <2>6, <2>7, <2>8, <2>9, <2>10, <2>11, <2>12
       DEF Next, Loop
<1> QED
  BY <1>1, <1>2, PTL DEF Spec

(* The fields keep their types, whatever is appended, removed or           *)
(* traversed (iam__list_t, iam__node_t of src/list.h).                     *)
THEOREM TypeCorrect == Spec => []TypeOK
<1>1. IInv => TypeOK
  BY DEF IInv
<1> QED
  BY <1>1, Invariance, PTL

(* The nodes allocated are those of the list, linked in insertion order,   *)
(* with list->tail the last of them, callbacks' appends included.          *)
THEOREM ListLinked == Spec => []Linked
<1>1. IInv => Linked
  BY DEF IInv
<1> QED
  BY <1>1, Invariance, PTL

(* list->count is the number of nodes outside a destroying traversal.      *)
THEOREM ListCounted == Spec => []Counted
<1>1. IInv => Counted
  BY DEF IInv
<1> QED
  BY <1>1, Invariance, PTL

(* No loop of list.c ever holds a freed node.                              *)
THEOREM NoDanglingCursor == Spec => []Cursor
<1>1. IInv => Cursor
  BY DEF IInv
<1> QED
  BY <1>1, Invariance, PTL

-----------------------------------------------------------------------------
(* The pointer code implements the sequence of ListSpec.                   *)

(* The refinement mapping in terms of the nodes: one datum per node.       *)
ContentsMatch ==
  /\ contents \in Seq(Data) /\ Len(contents) = Len(order)
  /\ \A i \in 1 .. Len(order) : contents[i] = heap[order[i]].data
  /\ contents # << >> <=> order # << >>
  /\ head # NULL <=> contents # << >>

(* The invariant makes the mapping well defined,                           *)
LEMMA ContentsFacts == IInv => ContentsMatch
<1> SUFFICES ASSUME IInv PROVE ContentsMatch
  OBVIOUS
<1>1. /\ Len(order) \in Nat
      /\ \A i \in 1 .. Len(order) : heap[order[i]].data \in Data
  BY OrderFacts DEF IInv, TypeOK, Node
<1>2. /\ contents \in Seq(Data) /\ Len(contents) = Len(order)
      /\ \A i \in 1 .. Len(order) : contents[i] = heap[order[i]].data
  BY <1>1, IsASeq DEF contents
<1>3. contents # << >> <=> Len(contents) # 0
  BY <1>2, EmptySeq
<1>4. order # << >> <=> Len(order) # 0
  BY EmptySeq DEF IInv, TypeOK
<1> QED
  BY <1>2, <1>3, <1>4, OrderFacts DEF ContentsMatch

(* and so it is after a step.                                              *)
LEMMA ContentsFactsPrime == IInv' => ContentsMatch'
  BY ContentsFacts, PTL

(* iam__list_append adds its datum at the end of the sequence.             *)
LEMMA AppendContents ==
  ASSUME IInv, NEW d \in Data, AppendNode(d)
  PROVE  contents' = Append(contents, d)
<1> DEFINE n == Len(order)
<1>1. PICK a \in Addr \ live :
        LET h == Alloc(a, [data |-> d, next |-> NULL])
        IN  /\ IF head = NULL
               THEN heap' = h /\ head' = a
               ELSE heap' = [h EXCEPT ![tail].next = a] /\ head' = head
            /\ tail' = a
            /\ order' = Append(order, a)
  BY DEF AppendNode
<1>2. IInv'
  BY AppendInv
<1>3. /\ n \in Nat /\ Len(order') = n + 1
      /\ \A i \in 1 .. n : order'[i] = order[i]
      /\ order'[n + 1] = a
  BY <1>1, OrderFacts DEF IInv, TypeOK
<1>4. heap'[a].data = d /\ \A b \in live : heap'[b].data = heap[b].data
  <2> DEFINE h == Alloc(a, [data |-> d, next |-> NULL])
  <2>1. /\ h \in [live \cup {a} -> Node]
        /\ h[a].data = d /\ \A b \in live : h[b] = heap[b]
    BY <1>1 DEF IInv, TypeOK, Alloc, live, Node
  <2>2. heap' = h \/ heap' = [h EXCEPT ![tail].next = a]
    BY <1>1
  <2> HIDE DEF h
  <2> QED
    BY <2>1, <2>2 DEF Node
<1>5. /\ contents' \in Seq(Data) /\ Len(contents') = n + 1
      /\ \A i \in 1 .. n + 1 : contents'[i] = heap'[order'[i]].data
  BY <1>2, <1>3, ContentsFactsPrime DEF ContentsMatch
<1>6. /\ contents \in Seq(Data) /\ Len(contents) = n
      /\ \A i \in 1 .. n : contents[i] = heap[order[i]].data
  BY ContentsFacts DEF ContentsMatch
<1>7. \A i \in 1 .. n + 1 : contents'[i] = Append(contents, d)[i]
  BY <1>3, <1>4, <1>5, <1>6, OrderFacts, AppendProperties
<1> QED
  BY <1>3, <1>5, <1>6, <1>7, SeqEqual, AppendProperties

(* Freeing the first remaining node takes the first datum off the          *)
(* sequence.                                                               *)
LEMMA PopContents ==
  ASSUME IInv, IInv', order # << >>,
         heap' = Free(heap, First), order' = Tail(order)
  PROVE  /\ contents' = Tail(contents) /\ contents # << >>
         /\ Len(contents) = Len(order)
         /\ Head(contents) = heap[First].data /\ contents[1] = heap[First].data
         /\ Len(contents) >= 1
         /\ heap[First].next = NULL <=> Len(contents) = 1
<1> DEFINE n == Len(order)
<1>1. /\ n \in Nat /\ n >= 1 /\ First = order[1] /\ order \in Seq(Addr)
      /\ contents \in Seq(Data) /\ Len(contents) = n /\ contents # << >>
      /\ \A i \in 1 .. n : contents[i] = heap[order[i]].data
  BY OrderFacts, ContentsFacts DEF ContentsMatch, IInv, TypeOK, Linked
<1>2. /\ Len(order') = n - 1
      /\ \A i \in 1 .. n - 1 : order'[i] = order[i + 1]
  BY <1>1
<1>3. \A i \in 1 .. n - 1 : order'[i] \in live' /\ heap'[order'[i]] = heap[order'[i]]
  BY <1>2, PopFirst DEF ToSet
<1>4. /\ contents' \in Seq(Data) /\ Len(contents') = n - 1
      /\ \A i \in 1 .. n - 1 : contents'[i] = heap'[order'[i]].data
  BY <1>2, ContentsFactsPrime DEF ContentsMatch
<1>5. /\ Tail(contents) \in Seq(Data) /\ Len(Tail(contents)) = n - 1
      /\ \A i \in 1 .. n - 1 : Tail(contents)[i] = contents[i + 1]
  BY <1>1
<1>6. \A i \in 1 .. n - 1 : contents'[i] = Tail(contents)[i]
  BY <1>1, <1>2, <1>3, <1>4, <1>5
<1>7. contents' = Tail(contents)
  BY <1>4, <1>5, <1>6, SeqEqual
<1>8. 1 \in 1 .. n
  <2> HIDE DEF n
  <2> QED
    BY <1>1
<1>9. Head(contents) = contents[1] /\ contents[1] = heap[First].data
  BY <1>1, <1>8
<1>10. heap[First].next = NULL <=> n = 1
  <2>1. heap[First].next = NULL <=> order' = << >>
    BY PopFirst
  <2>2. order' = << >> <=> Len(order') = 0
    BY PopFirst, EmptySeq
  <2> HIDE DEF n
  <2> QED
    BY <2>1, <2>2, <1>1, <1>2
<1> QED
  BY <1>1, <1>7, <1>9, <1>10

(* iam__list_remove of a datum at the head takes out its first occurrence. *)
LEMMA RemoveHeadContents ==
  ASSUME IInv, NEW d \in Data, RemoveHead(d)
  PROVE  contents' = RemoveFirst(contents, d)
<1>1. order # << >> /\ First = head
  BY OrderFacts DEF IInv, First, Cursor, RemoveHead, Walking, Kinds
<1>2. heap' = Free(heap, First) /\ order' = Tail(order) /\ heap[First].data = d
  BY <1>1 DEF RemoveHead
<1>3. /\ contents' = Tail(contents) /\ contents[1] = d /\ Len(contents) >= 1
      /\ contents \in Seq(Data)
  BY <1>1, <1>2, PopContents, RemoveHeadInv, ContentsFacts DEF ContentsMatch
<1> DEFINE r == RemoveFirst(contents, d)
<1>4. /\ r \in Seq(Data) /\ Len(r) = Len(contents) - 1
      /\ \A j \in 1 .. Len(contents) - 1 :
            r[j] = IF j < 1 THEN contents[j] ELSE contents[j + 1]
  <2>1. 1 \in 1 .. Len(contents) /\ \A j \in 1 .. 1 - 1 : contents[j] # d
    BY <1>3
  <2> QED
    BY <2>1, <1>3, RemoveFirstShape
<1>5. /\ Tail(contents) \in Seq(Data) /\ Len(Tail(contents)) = Len(contents) - 1
      /\ \A j \in 1 .. Len(contents) - 1 : Tail(contents)[j] = contents[j + 1]
  BY <1>3
<1> HIDE DEF r
<1>6. \A j \in 1 .. Len(r) : r[j] = Tail(contents)[j]
  BY <1>3, <1>4, <1>5
<1>7. r = Tail(contents)
  BY <1>4, <1>5, <1>6, SeqEqual
<1> QED
  BY <1>3, <1>7 DEF r

(* The search unlinks the first occurrence of the datum: every node before *)
(* it has been passed and does not match.                                  *)
LEMMA UnlinkContents ==
  ASSUME IInv, Unlink
  PROVE  contents' = RemoveFirst(contents, key)
<1> DEFINE n == Len(order)
           tmp == heap[p].next
           r == RemoveFirst(contents, key)
<1>1. PICK i \in 1 .. n :
        order[i] = p /\ \A j \in 1 .. i : heap[order[j]].data # key
  BY DEF IInv, Cursor, Unlink
<1>2. /\ n \in Nat /\ i \in Nat /\ order \in Seq(Addr)
      /\ tail = order[n] /\ heap[tail].next = NULL
      /\ heap[tmp].data = key /\ tmp # NULL
      /\ contents \in Seq(Data) /\ Len(contents) = n
      /\ \A j \in 1 .. n : contents[j] = heap[order[j]].data
  BY <1>1, OrderFacts, ContentsFacts DEF ContentsMatch, IInv, TypeOK, Linked, Unlink
<1>3. i \in 1 .. n - 1 /\ i + 1 \in 1 .. n /\ order[i + 1] = tmp
  <2>1. i # n
    BY <1>1, <1>2
  <2>2. i \in 1 .. n - 1 /\ i + 1 \in 1 .. n
    <3> HIDE DEF n
    <3> QED
      BY <2>1, <1>1, <1>2
  <2> QED
    BY <2>2, <1>1 DEF IInv, Linked
<1>4. /\ Len(order') = n - 1
      /\ \A j \in 1 .. n - 1 : order'[j] = IF j < i + 1 THEN order[j] ELSE order[j + 1]
  <2>1. \A j \in 1 .. (i + 1) - 1 : order[j] # tmp
    BY <1>2, <1>3 DEF IInv, Linked
  <2>2. order' = RemoveFirst(order, tmp)
    BY DEF Unlink
  <2>3. i + 1 \in 1 .. Len(order) /\ order[i + 1] = tmp
    BY <1>3
  <2> HIDE DEF tmp
  <2>4. /\ Len(RemoveFirst(order, tmp)) = Len(order) - 1
        /\ \A j \in 1 .. Len(order) - 1 : RemoveFirst(order, tmp)[j]
              = IF j < i + 1 THEN order[j] ELSE order[j + 1]
    BY <2>1, <2>3, <1>2, RemoveFirstShape
  <2> QED
    BY <2>2, <2>4
<1>5. /\ r \in Seq(Data) /\ Len(r) = n - 1
      /\ \A j \in 1 .. n - 1 : r[j] = IF j < i + 1 THEN contents[j] ELSE contents[j + 1]
  <2>1. \A j \in 1 .. (i + 1) - 1 : contents[j] # key
    BY <1>1, <1>2, <1>3
  <2>2. i + 1 \in 1 .. Len(contents) /\ contents[i + 1] = key
    BY <1>2, <1>3
  <2> QED
    BY <2>1, <2>2, <1>2, RemoveFirstShape
<1>6. \A b \in live' : b \in live /\ heap'[b].data = heap[b].data
  <2> DEFINE h == [heap EXCEPT ![p].next = heap[tmp].next]
  <2>1. p \in live /\ h \in [live -> Node] /\ \A b \in live : h[b].data = heap[b].data
    BY <1>1, <1>2, <1>3, OrderFacts DEF IInv, TypeOK, Node
  <2>2. heap' = Free(h, tmp)
    BY DEF Unlink
  <2> HIDE DEF h, tmp
  <2> QED
    BY <2>1, <2>2 DEF Free, live
<1>7. /\ contents' \in Seq(Data) /\ Len(contents') = n - 1
      /\ \A j \in 1 .. n - 1 : contents'[j] = heap'[order'[j]].data /\ order'[j] \in live'
  <2>1. IInv'
    BY UnlinkInv
  <2>2. \A j \in 1 .. Len(order') : order'[j] \in live'
    BY <2>1, <1>4 DEF IInv, TypeOK, Linked, ToSet
  <2> QED
    BY <2>1, <2>2, <1>4, ContentsFactsPrime DEF ContentsMatch
<1> HIDE DEF r
<1>8. \A j \in 1 .. n - 1 : contents'[j] = r[j]
  BY <1>2, <1>3, <1>4, <1>5, <1>6, <1>7
<1>9. contents' = r
  BY <1>5, <1>7, <1>8, SeqEqual
<1> QED
  BY <1>9 DEF r

(* iam__list_remove of a datum the list does not hold changes nothing: the *)
(* search has passed every node.                                           *)
LEMMA MissingContents ==
  ASSUME IInv, NEW d \in Data, RemoveEmpty(d) \/ (NotFound /\ d = key)
  PROVE  RemoveFirst(contents, d) = contents
<1> DEFINE n == Len(order)
<1>1. /\ n \in Nat /\ contents \in Seq(Data) /\ Len(contents) = n
      /\ \A i \in 1 .. n : contents[i] = heap[order[i]].data
  BY OrderFacts, ContentsFacts DEF ContentsMatch
<1>2. \A i \in 1 .. n : contents[i] # d
  <2>1. CASE RemoveEmpty(d)
    <3>1. ~(n >= 1)
      BY <2>1, OrderFacts DEF RemoveEmpty
    <3> HIDE DEF n
    <3> QED
      BY <3>1, <1>1
  <2>2. CASE NotFound /\ d = key
    <3>1. PICK i \in 1 .. n :
            order[i] = p /\ \A j \in 1 .. i : heap[order[j]].data # key
      BY <2>2 DEF IInv, Cursor, NotFound
    <3>2. i = n
      <4>1. \A j \in 1 .. n - 1 : heap[order[j]].next # NULL
        <5> TAKE j \in 1 .. n - 1
        <5>1. j + 1 \in 1 .. n
          <6> HIDE DEF n
          <6> QED
            BY <1>1
        <5> QED
          BY <5>1, OrderFacts, NullAssumption DEF IInv, Linked
      <4>2. i \notin 1 .. n - 1
        BY <4>1, <3>1, <2>2 DEF NotFound
      <4> HIDE DEF n
      <4> QED
        BY <4>2, <3>1, <1>1
    <3> QED
      BY <3>1, <3>2, <2>2, <1>1
  <2> QED
    BY <2>1, <2>2
<1> QED
  BY <1>1, <1>2 DEF RemoveFirst

(* The instance of ListSpec has its own copy of the library's RemoveFirst  *)
(* and of the vocabulary of ListKinds.                                     *)
LEMMA SameRemoveFirst ==
  ASSUME NEW s, NEW e
  PROVE  Abstract!RemoveFirst(s, e) = RemoveFirst(s, e)
<1>1. \A S : Abstract!Min(S) = Min(S)
  BY DEF Abstract!Min, Min
<1>2. Abstract!SelectInSeq(s, LAMBDA v : v = e) = SelectInSeq(s, LAMBDA v : v = e)
  BY <1>1 DEF Abstract!SelectInSeq, SelectInSeq
<1> QED
  BY <1>2 DEF Abstract!RemoveFirst, RemoveFirst, Abstract!RemoveAt, RemoveAt

(* ListSpec and LinkedList share the definitions of ListKinds; the prover  *)
(* sees two copies of each.                                                *)
LEMMA SameVocabulary ==
  /\ Abstract!Kinds = Kinds /\ Abstract!Calling = Calling
  /\ Abstract!Releasing = Releasing /\ Abstract!Quiet = Quiet
  /\ \A d : /\ Abstract!Appended(d) = Appended(d)
           /\ Abstract!Refused(d) = Refused(d)
           /\ Abstract!Removed(d) = Removed(d)
           /\ Abstract!Called(d) = Called(d)
           /\ Abstract!Released(d) = Released(d)
  /\ \A k : /\ Abstract!BeforeRelease(k) = BeforeRelease(k)
           /\ Abstract!BodyDone(k) = BodyDone(k)
  BY DEF Abstract!Kinds, Abstract!Calling, Abstract!Releasing, Abstract!Quiet,
     Abstract!Appended, Abstract!Refused, Abstract!Removed, Abstract!Called,
     Abstract!Released, Abstract!BeforeRelease, Abstract!BodyDone, Kinds,
     Calling, Releasing, Quiet, Appended, Refused, Removed, Called, Released,
     BeforeRelease, BodyDone

(* Whatever the pointers do, a caller of src/list.c sees the sequence of   *)
(* ListSpec: the same results, callbacks in the same order, each datum     *)
(* freed once, the first occurrence removed, an empty list at the end.     *)
THEOREM Refinement == Spec => ListPromise
<1> USE SameVocabulary, SameRemoveFirst
<1>1. Init => Abstract!Init
  <2> SUFFICES ASSUME Init PROVE Abstract!Init
    OBVIOUS
  <2>1. contents = << >>
    <3>1. contents \in Seq(Data) /\ Len(contents) = Len(order) /\ Len(order) = 0
      BY InitInv, ContentsFacts, EmptySeq DEF ContentsMatch, Init
    <3> QED
      BY <3>1, EmptySeq
  <2> QED
    BY <2>1 DEF Init, Abstract!Init, traversal, Walking, Kinds
<1>2. IInv /\ IInv' /\ [Next]_vars => [Abstract!Next]_(Abstract!vars)
  <2> SUFFICES ASSUME IInv, IInv', [Next]_vars
               PROVE  [Abstract!Next]_(Abstract!vars)
    OBVIOUS
  <2> USE DEF traversal, Walking, Kinds
  <2>1. ASSUME NEW d \in Data, AppendNode(d) PROVE Abstract!Append1(d)
    BY <2>1, AppendContents DEF AppendNode, MayAppend, IInv, Cursor,
       Abstract!Append1, Abstract!FromCaller, Abstract!FromCallback
  <2>2. ASSUME NEW d \in Data, AppendNoMemory(d) PROVE Abstract!AppendRefused(d)
    <3>1. contents' = contents
      BY <2>2 DEF AppendNoMemory, contents
    <3> QED
      BY <2>2, <3>1 DEF AppendNoMemory, Abstract!AppendRefused, control
  <2>3. ASSUME NEW d \in Data, RemoveEmpty(d) PROVE Abstract!Remove1(d)
    <3>1. contents' = contents
      BY <2>3 DEF RemoveEmpty, contents
    <3> QED
      BY <2>3, <3>1, MissingContents DEF RemoveEmpty, Abstract!Remove1, control
  <2>4. ASSUME NEW d \in Data, RemoveHead(d) PROVE Abstract!Remove1(d)
    BY <2>4, RemoveHeadContents DEF RemoveHead, Abstract!Remove1, control
  <2>5. ASSUME NEW d \in Data, RemoveSearch(d) PROVE UNCHANGED Abstract!vars
    BY <2>5 DEF RemoveSearch, Abstract!vars, contents
  <2>6. CASE SearchOn
    BY <2>6 DEF SearchOn, Abstract!vars, contents
  <2>7. CASE NotFound
    <3>1. contents' = contents /\ key \in Data
      BY <2>7 DEF NotFound, contents, IInv, TypeOK
    <3>2. Abstract!Remove1(key)
      BY <2>7, <3>1, MissingContents DEF NotFound, EndRemove, Abstract!Remove1
    <3> QED
      BY <3>1, <3>2 DEF Abstract!Next
  <2>8. CASE Unlink
    <3>1. Abstract!Remove1(key) /\ key \in Data
      BY <2>8, UnlinkContents DEF Unlink, EndRemove, Abstract!Remove1, IInv, TypeOK
    <3> QED
      BY <3>1 DEF Abstract!Next
  <2>9. ASSUME NEW k \in Kinds, Begin(k) PROVE Abstract!Begin(k)
    <3>1. contents' = contents /\ contents # << >>
      BY <2>9, ContentsFacts DEF Begin, contents, ContentsMatch
    <3> QED
      BY <2>9, <3>1 DEF Begin, Abstract!Begin
  <2>10. CASE BeginEmpty
    <3>1. contents' = contents /\ contents = << >>
      BY <2>10, ContentsFacts DEF BeginEmpty, contents, ContentsMatch
    <3> QED
      BY <2>10, <3>1 DEF BeginEmpty, Abstract!Next, Abstract!BeginEmpty, control
  <2>11. CASE Act \/ Release
    <3>1. order # << >> /\ p = order[1] /\ contents' = contents
      BY <2>11, OrderFacts DEF Act, Release, Calling, Releasing, contents, IInv,
         Cursor, Linked, First
    <3>2. Head(contents) = heap[p].data
      BY <3>1, OrderFacts, ContentsFacts DEF ContentsMatch
    <3>3. CASE Act
      BY <3>1, <3>2, <3>3 DEF Act, Calling, Abstract!Next, Abstract!Act
    <3>4. CASE Release
      BY <3>1, <3>2, <3>4 DEF Release, Releasing, Abstract!Next, Abstract!Release
    <3> QED
      BY <2>11, <3>3, <3>4
  <2>12. CASE Advance \/ Finish
    <3>1. /\ order # << >> /\ First = p
          /\ heap' = Free(heap, First) /\ order' = Tail(order)
      BY <2>12, OrderFacts DEF Advance, Finish, IInv, Cursor, First
    <3>2. /\ contents' = Tail(contents) /\ Len(contents) >= 1
          /\ heap[p].next = NULL <=> Len(contents) = 1
          /\ Len(contents) \in Nat
      BY <3>1, PopContents, OrderFacts
    <3>3. CASE Advance
      <4> DEFINE m == Len(contents)
      <4>1. m \in Nat /\ m >= 1 /\ m # 1
        BY <3>2, <3>3 DEF Advance
      <4>2. m > 1
        <5> HIDE DEF m
        <5> QED
          BY <4>1
      <4> QED
        BY <3>2, <3>3, <4>2 DEF Advance, Abstract!Next, Abstract!Step
    <3>4. CASE Finish
      BY <3>2, <3>4 DEF Finish, Abstract!Next, Abstract!Step
    <3> QED
      BY <2>12, <3>3, <3>4
  <2>13. CASE UNCHANGED vars
    BY <2>13 DEF vars, control, list, Abstract!vars, contents
  <2> QED
    BY <2>1, <2>2, <2>3, <2>4, <2>5, <2>6, <2>7, <2>8, <2>9, <2>10, <2>11,
       <2>12, <2>13 DEF Next, Loop, Abstract!Next
<1> QED
  BY <1>1, <1>2, Invariance, PTL DEF Spec, ListPromise, Abstract!Spec
=============================================================================
