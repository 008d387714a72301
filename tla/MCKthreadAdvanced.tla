-------------------------- MODULE MCKthreadAdvanced --------------------------
(* Instances of KthreadAdvanced for TLC. *)
EXTENDS KthreadAdvanced

CONSTANTS u1, u2

TwoUsers == {u1, u2}
=============================================================================
