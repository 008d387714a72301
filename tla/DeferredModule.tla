---------------------------- MODULE DeferredModule ----------------------------
(***************************************************************************)
(* The modules that ask the kernel to call them back once or again and      *)
(* again: timer.c, timer_repetitive.c, timer_hr.c, timer_hr_repetitive.c,   *)
(* tasklet.c, work_queue_simple.c, work_queue_delayed.c and                 *)
(* work_queue_shared.c.                                                     *)
(*                                                                          *)
(* All are written alike: allocate a structure, create a work queue if one  *)
(* is needed, start the timer, tasklet or work in it; on exit cancel it,    *)
(* destroy the queue, free the structure.  A record per file says how the   *)
(* callback is started and, what matters most, how it is cancelled while it *)
(* may be running on another processor.  One load and at most one unload of *)
(* one file are followed.                                                   *)
(***************************************************************************)
EXTENDS Naturals

CONSTANT Files      \* the files that may be loaded

AllFiles == {"timer", "timer_repetitive", "timer_hr", "timer_hr_repetitive", "tasklet",
             "work_queue_simple", "work_queue_delayed", "work_queue_shared"}

ASSUME FilesAssumption == Files \subseteq AllFiles

VARIABLES
    file,      \* which module is loaded
    loader,    \* where its init or exit function is
    mem,       \* does the structure of the module exist?
    queue,     \* the work queue: "none" yet, "null" or "ok"
    pending,   \* "no", "armed" (a timer runs) or "queued" (to be executed)
    cb,        \* where the callback is: "idle", "run" or "return"
    runs,      \* how often the callback was called, counted up to MaxRuns
    oops       \* a kernel fault: freed memory or a NULL queue was used

vars == <<file, loader, mem, queue, pending, cb, runs, oops>>

(* Once and more than once is all that the properties tell apart. *)
MaxRuns == 2

-----------------------------------------------------------------------------
(* One record per file.                                                     *)
(*   heap     is the structure kmalloc'ed (else it is part of the module)?  *)
(*   queue    is the callback a work item on a queue of the module's own?   *)
(*   start    how init starts it: "armed" or "queued"                       *)
(*   rearm    does the callback start itself again?                         *)
(*   cancel   "detach"  del_timer: dequeue, do not wait                     *)
(*            "sync"    del_timer_sync, hrtimer_cancel: dequeue once the    *)
(*                      callback is not running                             *)
(*            "kill"    tasklet_kill: wait until it has run                 *)
(*            "steal"   cancel_work_sync: dequeue, then wait for the worker *)

Timer ==
    [heap |-> TRUE, queue |-> FALSE, start |-> "armed", rearm |-> FALSE, cancel |-> "sync"]

TimerRepetitive ==
    [heap |-> TRUE, queue |-> FALSE, start |-> "armed", rearm |-> TRUE, cancel |-> "detach"]

TimerHr ==
    [heap |-> TRUE, queue |-> FALSE, start |-> "armed", rearm |-> FALSE, cancel |-> "sync"]

(* With hrtimer_cancel replaced by a plain dequeue. *)
TimerHrRepetitiveDetach ==
    [heap |-> TRUE, queue |-> FALSE, start |-> "armed", rearm |-> TRUE, cancel |-> "detach"]

(* With HRTIMER_NORESTART. *)
TimerHrNoRestart ==
    [heap |-> TRUE, queue |-> FALSE, start |-> "armed", rearm |-> FALSE, cancel |-> "sync"]

(* With tasklet_kill's rule for a timer that never stops by itself. *)
TimerHrRepetitiveKill ==
    [heap |-> TRUE, queue |-> FALSE, start |-> "armed", rearm |-> TRUE, cancel |-> "kill"]

TimerHrRepetitive ==
    [heap |-> TRUE, queue |-> FALSE, start |-> "armed", rearm |-> TRUE, cancel |-> "sync"]

TaskletStolen ==
    [heap |-> FALSE, queue |-> FALSE, start |-> "queued", rearm |-> FALSE, cancel |-> "sync"]

Tasklet ==
    [heap |-> FALSE, queue |-> FALSE, start |-> "queued", rearm |-> FALSE, cancel |-> "kill"]

WorkQueueSimple ==
    [heap |-> TRUE, queue |-> TRUE, start |-> "queued", rearm |-> FALSE, cancel |-> "steal"]

WorkQueueDelayed ==
    [heap |-> TRUE, queue |-> TRUE, start |-> "armed", rearm |-> FALSE, cancel |-> "steal"]

WorkQueueShared ==
    [heap |-> TRUE, queue |-> TRUE, start |-> "queued", rearm |-> FALSE, cancel |-> "steal"]

Module(f) ==
    CASE f = "timer"               -> Timer
      [] f = "timer_repetitive"    -> TimerRepetitive
      [] f = "timer_hr"            -> TimerHr
      [] f = "timer_hr_repetitive" -> TimerHrRepetitive
      [] f = "tasklet"             -> Tasklet
      [] f = "work_queue_simple"   -> WorkQueueSimple
      [] f = "work_queue_delayed"  -> WorkQueueDelayed
      [] f = "work_queue_shared"   -> WorkQueueShared

M == Module(file)

LoaderPhases == {"absent", "kmalloc", "queue", "start", "live", "cancel", "flush",
                 "destroy", "free", "failed", "unloaded"}

Init ==
    /\ file \in Files
    /\ loader = "absent"
    /\ mem = FALSE
    /\ queue = "none"
    /\ pending = "no"
    /\ cb = "idle"
    /\ runs = 0
    /\ oops = FALSE

-----------------------------------------------------------------------------
(* The module_init function *)

Insmod ==
    /\ loader = "absent"
    /\ loader' = "kmalloc"
    /\ UNCHANGED <<file, mem, queue, pending, cb, runs, oops>>

KMalloc ==
    /\ loader = "kmalloc"
    /\ \/ mem' = TRUE /\ loader' = IF M.queue THEN "queue" ELSE "start"
       \/ M.heap /\ mem' = FALSE /\ loader' = "failed"
    /\ UNCHANGED <<file, queue, pending, cb, runs, oops>>

(* As if the two returned an error pointer when they fail. *)
CreateQueueErrPtr ==
    /\ loader = "queue"
    /\ queue' \in {"ok", "err"}
    /\ loader' = IF queue' = "err" THEN "failed" ELSE "start"
    /\ UNCHANGED <<file, mem, pending, cb, runs, oops>>

(* create_workqueue, alloc_workqueue.  They return NULL on failure, which   *)
(* IS_ERR does not catch: init goes on without a queue.                     *)
CreateQueue ==
    /\ loader = "queue"
    /\ queue' \in {"ok", "null"}
    /\ loader' = "start"
    /\ UNCHANGED <<file, mem, pending, cb, runs, oops>>

(* mod_timer, hrtimer_start, tasklet_schedule, queue_work or                *)
(* queue_delayed_work.  queue_work uses the queue at once, the delayed      *)
(* variant only when the delay is over.                                     *)
Start ==
    /\ loader = "start"
    /\ IF queue = "null" /\ M.start = "queued"
         THEN oops' = TRUE /\ UNCHANGED <<loader, pending>>
         ELSE pending' = M.start /\ loader' = "live" /\ UNCHANGED oops
    /\ UNCHANGED <<file, mem, queue, cb, runs>>

-----------------------------------------------------------------------------
(* The module_exit function *)

Rmmod ==
    /\ loader = "live"
    /\ loader' = "cancel"
    /\ UNCHANGED <<file, mem, queue, pending, cb, runs, oops>>

(* del_timer *)
Detach ==
    /\ loader = "cancel"
    /\ M.cancel = "detach"
    /\ pending' = "no"
    /\ loader' = "free"
    /\ UNCHANGED <<file, mem, queue, cb, runs, oops>>

(* del_timer_sync, hrtimer_cancel: retried until the callback is not        *)
(* running; then the timer is dequeued.                                     *)
CancelSync ==
    /\ loader = "cancel"
    /\ M.cancel = "sync"
    /\ cb = "idle"
    /\ pending' = "no"
    /\ loader' = "free"
    /\ UNCHANGED <<file, mem, queue, cb, runs, oops>>

(* tasklet_kill *)
Kill ==
    /\ loader = "cancel"
    /\ M.cancel = "kill"
    /\ pending = "no"
    /\ cb = "idle"
    /\ loader' = "free"
    /\ UNCHANGED <<file, mem, queue, pending, cb, runs, oops>>

(* cancel_work_sync, cancel_delayed_work_sync, first half *)
Steal ==
    /\ loader = "cancel"
    /\ M.cancel = "steal"
    /\ pending' = "no"
    /\ loader' = "flush"
    /\ UNCHANGED <<file, mem, queue, cb, runs, oops>>

FlushNoWait ==
    /\ loader = "flush"
    /\ loader' = "destroy"
    /\ UNCHANGED <<file, mem, queue, pending, cb, runs, oops>>

(* cancel_work_sync, second half: wait for the worker that executes it. *)
Flush ==
    /\ loader = "flush"
    /\ cb = "idle"
    /\ loader' = "destroy"
    /\ UNCHANGED <<file, mem, queue, pending, cb, runs, oops>>

DestroyQueue ==
    /\ loader = "destroy"
    /\ IF queue = "null"
         THEN oops' = TRUE /\ UNCHANGED loader
         ELSE loader' = "free" /\ UNCHANGED oops
    /\ UNCHANGED <<file, mem, queue, pending, cb, runs>>

(* kfree, return, and the module's text is unmapped. *)
Free ==
    /\ loader = "free"
    /\ mem' = FALSE
    /\ loader' = "unloaded"
    /\ UNCHANGED <<file, queue, pending, cb, runs, oops>>

-----------------------------------------------------------------------------
(* The kernel's side: timer interrupt, softirq, worker *)

Call ==
    /\ pending' = "no"
    /\ cb' = "run"
    /\ runs' = IF runs < MaxRuns THEN runs + 1 ELSE MaxRuns

(* A timer expires.  For delayed work that only puts the work on its queue. *)
Expire ==
    /\ pending = "armed"
    /\ mem
    /\ \/ ~M.queue /\ cb = "idle" /\ Call /\ UNCHANGED oops
       \/ M.queue /\ queue = "ok" /\ pending' = "queued" /\ UNCHANGED <<cb, runs, oops>>
       \/ M.queue /\ queue = "null" /\ oops' = TRUE /\ UNCHANGED <<pending, cb, runs>>
    /\ UNCHANGED <<file, loader, mem, queue>>

(* The softirq or a worker gets to what is queued. *)
Execute ==
    /\ pending = "queued"
    /\ mem
    /\ cb = "idle"
    /\ Call
    /\ UNCHANGED <<file, loader, mem, queue, oops>>

(* The callback's body.  mod_timer, or the restart of an hrtimer, starts it *)
(* again before it has returned.                                            *)
Body ==
    /\ cb = "run"
    /\ mem
    /\ pending' = IF M.rearm THEN "armed" ELSE pending
    /\ cb' = "return"
    /\ UNCHANGED <<file, loader, mem, queue, runs, oops>>

Return ==
    /\ cb = "return"
    /\ loader # "unloaded"
    /\ cb' = "idle"
    /\ UNCHANGED <<file, loader, mem, queue, pending, runs, oops>>

(* A callback that is left over uses freed storage or unmapped text. *)
LeftOver ==
    /\ \/ ~mem /\ (pending # "no" \/ cb = "run")
       \/ loader = "unloaded" /\ cb # "idle"
    /\ oops' = TRUE
    /\ UNCHANGED <<file, loader, mem, queue, pending, cb, runs>>

-----------------------------------------------------------------------------
ModInit == Insmod \/ KMalloc \/ CreateQueue \/ Start

ModExit == Detach \/ CancelSync \/ Kill \/ Steal \/ Flush \/ DestroyQueue \/ Free

Kernel == Expire \/ Execute \/ Body \/ Return

Next == ~oops /\ (ModInit \/ Rmmod \/ ModExit \/ Kernel \/ LeftOver)

(* Timers expire, the softirq and the workers run, init and exit proceed.   *)
(* A repetitive timer keeps hrtimer_cancel waiting only while its callback  *)
(* runs, microseconds of its period: one of its retries finds it idle.      *)
Fairness ==
    /\ WF_vars(~oops /\ ModInit)
    /\ WF_vars(~oops /\ ModExit)
    /\ WF_vars(~oops /\ Kernel)
    /\ SF_vars(~oops /\ CancelSync)

Spec == Init /\ [][Next]_vars /\ Fairness

-----------------------------------------------------------------------------
(* Every variable keeps its type. *)
TypeOK ==
    /\ file \in Files
    /\ loader \in LoaderPhases
    /\ mem \in BOOLEAN
    /\ queue \in {"none", "null", "ok"}
    /\ pending \in {"no", "armed", "queued"}
    /\ cb \in {"idle", "run", "return"}
    /\ runs \in 0 .. MaxRuns
    /\ oops \in BOOLEAN

(* Every exit function but that of timer_repetitive.c waits for a callback  *)
(* that is running; what follows is promised by the others.                 *)
Waits == file # "timer_repetitive"

(* A callback is only running, or due to run, while the structure it is     *)
(* embedded in exists: the exit function has it finished before kfree.      *)
CallbackHasMemory == Waits /\ (cb # "idle" \/ pending # "no") => mem

(* There are two ways to a fault: a work queue that could not be created    *)
(* and is used nevertheless, and the del_timer of timer_repetitive.c.       *)
OnlyKnownFaults == oops => queue = "null" \/ ~Waits

(* The files whose callback is documented as repetitive. *)
Repeating == {"timer_repetitive", "timer_hr_repetitive"}

(* A one-shot timer, a tasklet or a work item started once runs at most     *)
(* once, and a tasklet that was scheduled has run when its module is gone.  *)
OneShot ==
    /\ file \notin Repeating => runs <= 1
    /\ file = "tasklet" /\ loader = "unloaded" => runs = 1

(* What is started is called as long as rmmod does not intervene, and a     *)
(* repetitive timer is called again and again.                              *)
CallbackIsCalled ==
    /\ loader = "live" /\ queue # "null" ~> runs > 0 \/ loader # "live"
    /\ file \in Repeating /\ loader = "live" ~> cb = "run" \/ loader # "live"

(* rmmod returns, whatever the callback is doing at the time. *)
ExitCompletes == loader = "cancel" ~> loader = "unloaded" \/ oops

-----------------------------------------------------------------------------
(* The life of the module as the kernel sees it. *)
phaseBar ==
    CASE loader \in {"absent", "failed", "unloaded"} -> "absent"
      [] loader \in {"kmalloc", "queue", "start"} -> "loading"
      [] loader = "live" -> "live"
      [] loader \in {"cancel", "flush", "destroy", "free"} -> "unloading"

Lifetime == INSTANCE ModuleLifetime WITH
    Contexts <- {"callback"},
    phase <- phaseBar,
    memory <- mem,
    busy <- IF Waits /\ cb # "idle" THEN {"callback"} ELSE {}

(* The module keeps the contract of ModuleLifetime, which only counts the   *)
(* callbacks the exit function waits for.                                   *)
KeepsLifetime == Lifetime!Spec
=============================================================================
