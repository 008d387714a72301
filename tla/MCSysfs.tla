------------------------------- MODULE MCSysfs -------------------------------
(* An instance of Sysfs for TLC. *)
EXTENDS Sysfs

CONSTANTS u1, u2

TwoUsers == {u1, u2}
ThreeValues == {0, 1, 2}
=============================================================================
