--------------------------- MODULE MCDeferredModule ---------------------------
(* DeferredModule for TLC: Files <- AllFiles checks the eight files in one run. *)
EXTENDS DeferredModule
=============================================================================
