---------------------------- MODULE MCPerCpuVars ----------------------------
(* An instance of PerCpuVars for TLC. *)
EXTENDS PerCpuVars

CONSTANTS cpu0, cpu1

TwoCpus == {cpu0, cpu1}
=============================================================================
