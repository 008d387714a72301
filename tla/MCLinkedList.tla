---------------------------- MODULE MCLinkedList ----------------------------
(* LinkedList for TLC; the configuration gives Count a small value. *)
EXTENDS LinkedList
=============================================================================
