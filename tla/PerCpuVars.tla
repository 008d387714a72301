------------------------------ MODULE PerCpuVars ------------------------------
(***************************************************************************)
(* per_cpu_vars.c: insmod assigns to one per-CPU variable and increments    *)
(* another three times, each time the copy of the processor it is running   *)
(* on.  get_cpu_var disables preemption for the assignment; nothing does    *)
(* for the increments, between which the scheduler may move the process.    *)
(*                                                                          *)
(* Abstracted: the loops that print all copies.                             *)
(***************************************************************************)
EXTENDS Naturals

CONSTANT Cpus       \* the processors that are online

VARIABLES
    loader,      \* where mod_init or mod_exit is
    cpu,         \* the processor the process runs on
    preempt,     \* may it be moved to another one?
    static_set,  \* the processors whose var_static is 786
    allocated,   \* alloc_percpu has returned var_dynamic
    var_dynamic, \* *var_dynamic of each processor
    left,        \* how many increments there are still to do
    oops         \* a kernel fault: var_dynamic is NULL

vars == <<loader, cpu, preempt, static_set, allocated, var_dynamic, left, oops>>

Init ==
    /\ loader = "alloc"
    /\ cpu \in Cpus
    /\ preempt = TRUE
    /\ static_set = {}
    /\ allocated = FALSE
    /\ var_dynamic = [c \in Cpus |-> 0]
    /\ left = 3
    /\ oops = FALSE

(* alloc_percpu; a NULL is not tested for, and the loop that prints the     *)
(* copies reads through it.                                                 *)
AllocPercpu ==
    /\ loader = "alloc"
    /\ \/ allocated' = TRUE /\ loader' = "get" /\ UNCHANGED oops
       \/ oops' = TRUE /\ UNCHANGED <<allocated, loader>>
    /\ UNCHANGED <<cpu, preempt, static_set, var_dynamic, left>>

(* get_cpu_var(var_static) = 786 *)
GetCpuVar ==
    /\ loader = "get"
    /\ preempt' = FALSE
    /\ static_set' = static_set \cup {cpu}
    /\ loader' = "put"
    /\ UNCHANGED <<cpu, allocated, var_dynamic, left, oops>>

(* put_cpu_var(var_static) *)
PutCpuVar ==
    /\ loader = "put"
    /\ preempt' = TRUE
    /\ loader' = "inc"
    /\ UNCHANGED <<cpu, static_set, allocated, var_dynamic, left, oops>>

(* One of the three this_cpu_inc; each by itself is atomic. *)
ThisCpuInc ==
    /\ loader = "inc"
    /\ var_dynamic' = [var_dynamic EXCEPT ![cpu] = @ + 1]
    /\ left' = left - 1
    /\ loader' = IF left' = 0 THEN "live" ELSE "inc"
    /\ UNCHANGED <<cpu, preempt, static_set, allocated, oops>>

(* mod_exit: free_percpu *)
ModExit ==
    /\ loader = "live"
    /\ allocated' = FALSE
    /\ loader' = "unloaded"
    /\ UNCHANGED <<cpu, preempt, static_set, var_dynamic, left, oops>>

(* The scheduler moves the process to another processor. *)
Migrate ==
    /\ preempt
    /\ cpu' \in Cpus \ {cpu}
    /\ UNCHANGED <<loader, preempt, static_set, allocated, var_dynamic, left, oops>>

Next ==
    /\ ~oops
    /\ AllocPercpu \/ GetCpuVar \/ PutCpuVar \/ ThisCpuInc \/ ModExit \/ Migrate

Spec == Init /\ [][Next]_vars

-----------------------------------------------------------------------------
TypeOK ==
    /\ loader \in {"alloc", "get", "put", "inc", "live", "unloaded"}
    /\ cpu \in Cpus
    /\ preempt \in BOOLEAN
    /\ static_set \subseteq Cpus
    /\ allocated \in BOOLEAN
    /\ var_dynamic \in [Cpus -> 0 .. 3]
    /\ left \in 0 .. 3
    /\ oops \in BOOLEAN

(* The comment in mod_init and the transcript in README.md: the variables   *)
(* are updated for one processor only, the current one.                     *)
UpdatesOneCpuOnly ==
    loader = "live" => \A c \in Cpus : c \in static_set <=> var_dynamic[c] > 0
=============================================================================
