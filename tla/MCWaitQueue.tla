----------------------------- MODULE MCWaitQueue -----------------------------
(* WaitQueue for TLC; the configurations give Limit a small value. *)
EXTENDS WaitQueue
=============================================================================
