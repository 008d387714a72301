---------------------------- MODULE MCNotifyChain ----------------------------
(* An instance of NotifyChain for TLC. *)
EXTENDS NotifyChain

CONSTANTS c1, c2, c3

ThreeConsumers == {c1, c2, c3}
=============================================================================
