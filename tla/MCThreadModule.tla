---------------------------- MODULE MCThreadModule ----------------------------
(* An instance of ThreadModule for TLC: every file, a counter that wraps soon. *)
EXTENDS ThreadModule
=============================================================================
