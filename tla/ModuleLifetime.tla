---------------------------- MODULE ModuleLifetime ----------------------------
(***************************************************************************)
(* What every module of the repository that hands callbacks to the kernel   *)
(* (threads, timers, tasklets, work items) owes to it.  The module is       *)
(* loaded, allocates the storage its callbacks use, runs callbacks in some  *)
(* contexts, and is unloaded.  No callback runs without the storage, and    *)
(* the storage and the code only go away once every callback is over.       *)
(***************************************************************************)

CONSTANT Contexts   \* what can run a callback: threads, the timer softirq, workers

VARIABLES
    phase,    \* "absent", "loading", "live" or "unloading"
    memory,   \* does the storage of the callbacks exist?
    busy      \* the contexts that are executing a callback

vars == <<phase, memory, busy>>

Init ==
    /\ phase = "absent"
    /\ memory = FALSE
    /\ busy = {}

(* insmod calls the module_init function. *)
Load ==
    /\ phase = "absent"
    /\ phase' = "loading"
    /\ UNCHANGED <<memory, busy>>

Allocate ==
    /\ phase = "loading"
    /\ memory' = TRUE
    /\ UNCHANGED <<phase, busy>>

LoadSucceeds ==
    /\ phase = "loading"
    /\ memory
    /\ phase' = "live"
    /\ UNCHANGED <<memory, busy>>

(* module_init returns an error and has released what it had. *)
LoadFails ==
    /\ phase = "loading"
    /\ busy = {}
    /\ phase' = "absent"
    /\ memory' = FALSE
    /\ UNCHANGED busy

Enter(c) ==
    /\ memory
    /\ busy' = busy \cup {c}
    /\ UNCHANGED <<phase, memory>>

Leave(c) ==
    /\ c \in busy
    /\ busy' = busy \ {c}
    /\ UNCHANGED <<phase, memory>>

(* rmmod calls the module_exit function. *)
BeginUnload ==
    /\ phase = "live"
    /\ phase' = "unloading"
    /\ UNCHANGED <<memory, busy>>

(* module_exit frees the storage and returns. *)
Unload ==
    /\ phase = "unloading"
    /\ busy = {}
    /\ phase' = "absent"
    /\ memory' = FALSE
    /\ UNCHANGED busy

Next ==
    \/ Load \/ Allocate \/ LoadSucceeds \/ LoadFails
    \/ BeginUnload \/ Unload
    \/ \E c \in Contexts : Enter(c) \/ Leave(c)

Spec == Init /\ [][Next]_vars

-----------------------------------------------------------------------------
(* What the contract promises: while a callback is executing, its storage   *)
(* exists and the code of the module is loaded.                             *)
CallbacksAreCovered == busy # {} => memory /\ phase # "absent"

(* Inductive: there is storage only between init and the end of exit. *)
StorageInv == CallbacksAreCovered /\ (memory => phase # "absent")
=============================================================================
