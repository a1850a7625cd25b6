---------------------------- MODULE MCLinkedList ----------------------------
(* LinkedList on a heap of a few nodes, and data that may occur twice.     *)
EXTENDS LinkedList
=============================================================================
