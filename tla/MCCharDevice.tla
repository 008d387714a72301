---------------------------- MODULE MCCharDevice ----------------------------
(* An instance of CharDevice for TLC. *)
EXTENDS CharDevice

CONSTANTS u1, u2

TwoUsers == {u1, u2}
=============================================================================
