----------------------------- MODULE ThreadModule -----------------------------
(***************************************************************************)
(* The modules built from kernel threads: kthread_simple.c, and the six     *)
(* lock_*.c, in which readers and one writer share a counter under a lock.  *)
(*                                                                          *)
(* All of them are written alike: kmalloc, kthread_create for each thread,  *)
(* wake_up_process for each, and on exit kthread_stop for each and kfree.   *)
(* They differ in the lock, in whether a thread sleeps inside or outside    *)
(* its critical section, and in the order of the calls; a record per file   *)
(* says how.  One load and at most one unload of one file are followed.     *)
(***************************************************************************)
EXTENDS Naturals, Sequences

CONSTANT VarMod     \* the counter is computed modulo this number (2^64 for a u64)

ASSUME VarModAssumption == VarMod \in Nat \ {0, 1}

VARIABLES
    file,         \* which module is loaded
    loader,       \* where its init or exit function is
    k,            \* which thread that function is at
    mem,          \* is the structure of the module allocated?
    pc,           \* where each thread is
    should_stop,  \* the threads that kthread_stop has been called for
    holders,      \* the threads that hold the lock
    variable,     \* the counter the lock protects
    shown,        \* the value a reader last read
    moved         \* readers whose seqlock sequence has changed since read_seqbegin

vars == <<file, loader, k, mem, pc, should_stop, holders, variable, shown, moved>>
loaderVars == <<loader, k, mem>>
dataVars == <<variable, shown, moved>>

Readers == {"read_1", "read_2"}
Writer == "write_task"
Tasks == Readers \cup {Writer, "task"}

-----------------------------------------------------------------------------
(* One record per file.                                                     *)
(*   lock           what protects the counter                               *)
(*   spinning       does holding the lock forbid sleeping?                  *)
(*   sleepsHolding  does a thread sleep inside its critical section?        *)
(*   create         the threads in the order they are created and woken     *)
(*   stop           the threads in the order they are stopped               *)

KthreadSimple ==
    [lock |-> "none", spinning |-> FALSE, sleepsHolding |-> FALSE,
     create |-> <<"task">>, stop |-> <<"task">>]

LockMutex ==
    [lock |-> "exclusive", spinning |-> FALSE, sleepsHolding |-> TRUE,
     create |-> <<"read_1", "write_task">>, stop |-> <<"write_task", "read_1">>]

(* A semaphore initialised to 1. *)
LockSemaphore ==
    [lock |-> "exclusive", spinning |-> FALSE, sleepsHolding |-> TRUE,
     create |-> <<"read_1", "write_task">>, stop |-> <<"write_task", "read_1">>]

(* lock_spin_lock.c with the commented-out sleep in place. *)
LockSpinLockSleeping ==
    [lock |-> "exclusive", spinning |-> TRUE, sleepsHolding |-> TRUE,
     create |-> <<"read_1", "write_task">>, stop |-> <<"write_task", "read_1">>]

LockSpinLock ==
    [lock |-> "exclusive", spinning |-> TRUE, sleepsHolding |-> FALSE,
     create |-> <<"read_1", "write_task">>, stop |-> <<"write_task", "read_1">>]

LockRwSpinLock ==
    [lock |-> "shared", spinning |-> TRUE, sleepsHolding |-> FALSE,
     create |-> <<"read_1", "read_2", "write_task">>,
     stop |-> <<"write_task", "read_1", "read_2">>]

LockRwSemaphore ==
    [lock |-> "shared", spinning |-> FALSE, sleepsHolding |-> TRUE,
     create |-> <<"read_1", "read_2", "write_task">>,
     stop |-> <<"write_task", "read_1", "read_2">>]

LockSeqlockReadersFirst ==
    [lock |-> "seqlock", spinning |-> TRUE, sleepsHolding |-> FALSE,
     create |-> <<"read_1", "read_2", "write_task">>,
     stop |-> <<"read_1", "read_2", "write_task">>]

LockSeqlock ==
    [lock |-> "seqlock", spinning |-> TRUE, sleepsHolding |-> FALSE,
     create |-> <<"read_1", "read_2", "write_task">>,
     stop |-> <<"write_task", "read_1", "read_2">>]

Files == {"kthread_simple", "lock_mutex", "lock_semaphore", "lock_spin_lock",
          "lock_rw_spin_lock", "lock_rw_semaphore", "lock_seqlock"}

Module(f) ==
    CASE f = "kthread_simple"    -> KthreadSimple
      [] f = "lock_mutex"        -> LockMutex
      [] f = "lock_semaphore"    -> LockSemaphore
      [] f = "lock_spin_lock"    -> LockSpinLock
      [] f = "lock_rw_spin_lock" -> LockRwSpinLock
      [] f = "lock_rw_semaphore" -> LockRwSemaphore
      [] f = "lock_seqlock"      -> LockSeqlock

M == Module(file)

LoaderPhases == {"absent", "kmalloc", "create", "wake", "live", "stop", "free",
                 "err_free_mem", "failed", "unloaded"}

ThreadPhases == {"none", "parked", "woken", "top", "lock", "wait", "work", "nap",
                 "unlock", "end", "dead"}

Init ==
    /\ file \in Files
    /\ loader = "absent"
    /\ k = 1
    /\ mem = FALSE
    /\ pc = [t \in Tasks |-> "none"]
    /\ should_stop = {}
    /\ holders = {}
    /\ variable = 0
    /\ shown = [r \in Readers |-> 0]
    /\ moved = {}

-----------------------------------------------------------------------------
(* The module_init function *)

Insmod ==
    /\ loader = "absent"
    /\ loader' = "kmalloc"
    /\ UNCHANGED <<file, k, mem, pc, should_stop, holders, dataVars>>

KMalloc ==
    /\ loader = "kmalloc"
    /\ \/ mem' = TRUE /\ loader' = "create"
       \/ mem' = FALSE /\ loader' = "failed"
    /\ UNCHANGED <<file, k, pc, should_stop, holders, dataVars>>

(* Move on to the next thread, or to the label after the last one. *)
NextThread(order, label) ==
    IF k < Len(order)
      THEN k' = k + 1 /\ UNCHANGED loader
      ELSE k' = 1 /\ loader' = label

(* The thread is started as soon as it is created (kthread_run). *)
KthreadRun ==
    /\ loader = "create"
    /\ \/ /\ pc' = [pc EXCEPT ![M.create[k]] = "woken"]
          /\ NextThread(M.create, "wake")
       \/ /\ loader' = "err_free_mem"
          /\ UNCHANGED <<k, pc>>
    /\ UNCHANGED <<file, mem, should_stop, holders, dataVars>>

(* A created thread is parked until it is woken; when a creation fails, the *)
(* threads created before it stay parked.                                   *)
KthreadCreate ==
    /\ loader = "create"
    /\ \/ /\ pc' = [pc EXCEPT ![M.create[k]] = "parked"]
          /\ NextThread(M.create, "wake")
       \/ /\ loader' = "err_free_mem"
          /\ UNCHANGED <<k, pc>>
    /\ UNCHANGED <<file, mem, should_stop, holders, dataVars>>

WakeUpProcess ==
    /\ loader = "wake"
    /\ pc' = [pc EXCEPT ![M.create[k]] = "woken"]
    /\ NextThread(M.create, "live")
    /\ UNCHANGED <<file, mem, should_stop, holders, dataVars>>

ErrFreeMem ==
    /\ loader = "err_free_mem"
    /\ mem' = FALSE
    /\ loader' = "failed"
    /\ UNCHANGED <<file, k, pc, should_stop, holders, dataVars>>

-----------------------------------------------------------------------------
(* The module_exit function *)

Rmmod ==
    /\ loader = "live"
    /\ loader' = "stop"
    /\ k' = 1
    /\ UNCHANGED <<file, mem, pc, should_stop, holders, dataVars>>

(* kthread_stop: raise the flag; it does not cut msleep_interruptible short. *)
KthreadStop ==
    /\ loader = "stop"
    /\ should_stop' = should_stop \cup {M.stop[k]}
    /\ UNCHANGED <<file, loaderVars, pc, holders, dataVars>>

KthreadStopNoWait ==
    /\ loader = "stop"
    /\ M.stop[k] \in should_stop
    /\ NextThread(M.stop, "free")
    /\ UNCHANGED <<file, mem, pc, should_stop, holders, dataVars>>

(* kthread_stop: wait for the thread's exit. *)
KthreadStopWait ==
    /\ loader = "stop"
    /\ M.stop[k] \in should_stop
    /\ pc[M.stop[k]] = "dead"
    /\ NextThread(M.stop, "free")
    /\ UNCHANGED <<file, mem, pc, should_stop, holders, dataVars>>

Free ==
    /\ loader = "free"
    /\ mem' = FALSE
    /\ loader' = "unloaded"
    /\ UNCHANGED <<file, k, pc, should_stop, holders, dataVars>>

-----------------------------------------------------------------------------
(* The threads *)

Goto(t, label) == pc' = [pc EXCEPT ![t] = label]

(* kthread(): a thread stopped before it ever ran skips its callback. *)
Begin(t) ==
    /\ pc[t] = "woken"
    /\ Goto(t, IF t \in should_stop THEN "dead" ELSE "top")
    /\ UNCHANGED <<file, loaderVars, should_stop, holders, dataVars>>

(* while (kthread_should_stop() == false) *)
Loop(t) ==
    /\ pc[t] = "top"
    /\ \/ t \in should_stop /\ Goto(t, "end")
       \/ t \notin should_stop /\ Goto(t, IF M.lock = "none" THEN "nap" ELSE "lock")
    /\ UNCHANGED <<file, loaderVars, should_stop, holders, dataVars>>

(* May t take the lock now?  A writer that waits for a shared lock holds    *)
(* back new readers.  read_seqbegin waits for a writer to finish but a      *)
(* seqlock reader takes nothing.                                            *)
MayLock(t) ==
    /\ \/ holders = {}
       \/ M.lock = "shared" /\ t \in Readers /\ Writer \notin holders
    /\ t \in Readers => pc[Writer] # "wait"

Optimistic(t) == M.lock = "seqlock" /\ t \in Readers

(* The writer joins the queue of a shared lock that readers hold. *)
Wait(t) ==
    /\ pc[t] = "lock"
    /\ M.lock = "shared"
    /\ t = Writer
    /\ ~MayLock(t)
    /\ Goto(t, "wait")
    /\ UNCHANGED <<file, loaderVars, should_stop, holders, dataVars>>

(* A reader that takes no lock. *)
LockReaderUnlocked(t) ==
    /\ pc[t] \in {"lock", "wait"}
    /\ t \in Readers \/ MayLock(t)
    /\ Goto(t, "work")
    /\ holders' = IF t \in Readers THEN holders ELSE holders \cup {t}
    /\ moved' = IF t = Writer THEN Readers ELSE moved \ {t}
    /\ UNCHANGED <<file, loaderVars, should_stop, variable, shown>>

(* mutex_lock, down, spin_lock, read_lock, write_lock, down_read,           *)
(* down_write, read_seqbegin, write_seqlock.  The writer of a seqlock       *)
(* changes the sequence that every reader compares.                         *)
Lock(t) ==
    /\ pc[t] \in {"lock", "wait"}
    /\ MayLock(t)
    /\ Goto(t, "work")
    /\ holders' = IF Optimistic(t) THEN holders ELSE holders \cup {t}
    /\ moved' = IF t = Writer THEN Readers ELSE moved \ {t}
    /\ UNCHANGED <<file, loaderVars, should_stop, variable, shown>>

(* A counter that is not reduced to its width. *)
WorkWithoutWrap(t) ==
    /\ pc[t] = "work"
    /\ Goto(t, IF M.sleepsHolding THEN "nap" ELSE "unlock")
    /\ variable' = IF t = Writer THEN variable + 1 ELSE variable
    /\ shown' = IF t = Writer THEN shown ELSE [shown EXCEPT ![t] = variable]
    /\ UNCHANGED <<file, loaderVars, should_stop, holders, moved>>

(* The body: the writer increments the counter, a reader reads it. *)
Work(t) ==
    /\ pc[t] = "work"
    /\ Goto(t, IF M.sleepsHolding THEN "nap" ELSE "unlock")
    /\ IF t = Writer
         THEN /\ variable' = (variable + 1) % VarMod
              /\ UNCHANGED shown
         ELSE /\ shown' = [shown EXCEPT ![t] = variable]
              /\ UNCHANGED variable
    /\ UNCHANGED <<file, loaderVars, should_stop, holders, moved>>

(* msleep_interruptible *)
Nap(t) ==
    /\ pc[t] = "nap"
    /\ Goto(t, IF M.sleepsHolding THEN "unlock" ELSE "top")
    /\ UNCHANGED <<file, loaderVars, should_stop, holders, dataVars>>

(* read_seqretry: the read is void if a writer was there in the meantime. *)
Retry(t) ==
    /\ pc[t] = "unlock"
    /\ Optimistic(t)
    /\ t \in moved
    /\ Goto(t, "lock")
    /\ UNCHANGED <<file, loaderVars, should_stop, holders, dataVars>>

UnlockNoRetry(t) ==
    /\ pc[t] = "unlock"
    /\ Goto(t, IF M.sleepsHolding THEN "top" ELSE "nap")
    /\ holders' = holders \ {t}
    /\ moved' = IF t = Writer THEN Readers ELSE moved
    /\ UNCHANGED <<file, loaderVars, should_stop, variable, shown>>

Unlock(t) ==
    /\ pc[t] = "unlock"
    /\ ~(Optimistic(t) /\ t \in moved)
    /\ Goto(t, IF M.sleepsHolding THEN "top" ELSE "nap")
    /\ holders' = holders \ {t}
    /\ moved' = IF t = Writer THEN Readers ELSE moved
    /\ UNCHANGED <<file, loaderVars, should_stop, variable, shown>>

Return(t) ==
    /\ pc[t] = "end"
    /\ Goto(t, "dead")
    /\ UNCHANGED <<file, loaderVars, should_stop, holders, dataVars>>

-----------------------------------------------------------------------------
ModInit == Insmod \/ KMalloc \/ KthreadCreate \/ WakeUpProcess \/ ErrFreeMem

ModExit == KthreadStop \/ KthreadStopWait \/ Free

Thread(t) ==
    \/ Begin(t) \/ Loop(t) \/ Wait(t) \/ Lock(t) \/ Work(t) \/ Nap(t)
    \/ Retry(t) \/ Unlock(t) \/ Return(t)

Next == ModInit \/ Rmmod \/ ModExit \/ \E t \in Tasks : Thread(t)

(* Threads and loader are scheduled.  The locks serve their waiters: the    *)
(* mutex hands over, the semaphore and the queued spin lock are first-come  *)
(* first-served, so whoever waits while the lock is released again and      *)
(* again gets it.  Nothing of the kind is assumed of read_seqretry, and     *)
(* whether rmmod is ever called is up to the user.                          *)
Fairness ==
    /\ WF_vars(ModInit)
    /\ WF_vars(ModExit)
    /\ \A t \in Tasks : WF_vars(Thread(t)) /\ SF_vars(Lock(t))

Spec == Init /\ [][Next]_vars /\ Fairness

-----------------------------------------------------------------------------
(* Every variable keeps its type. *)
TypeOK ==
    /\ file \in Files
    /\ loader \in LoaderPhases
    /\ k \in 1 .. 3
    /\ mem \in BOOLEAN
    /\ pc \in [Tasks -> ThreadPhases]
    /\ should_stop \subseteq Tasks
    /\ holders \subseteq Tasks
    /\ variable \in 0 .. VarMod - 1
    /\ shown \in [Readers -> 0 .. VarMod - 1]
    /\ moved \subseteq Readers

InCallback(t) == pc[t] \in {"top", "lock", "wait", "work", "nap", "unlock", "end"}

(* t is between the two calls that enclose its critical section. *)
InSection(t) ==
    \/ pc[t] \in {"work", "unlock"}
    \/ pc[t] = "nap" /\ M.sleepsHolding

(* A callback only runs while the structure it dereferences is allocated,   *)
(* on every path through init, with threads created one by one, and exit.   *)
CallbackHasMemory == \A t \in Tasks : InCallback(t) => mem

(* When the code of the module is gone, after rmmod or a failed insmod, no  *)
(* thread will execute it any more: the threads have exited, or are parked  *)
(* in kthread_create for ever.                                              *)
NoThreadLeftRunning ==
    /\ loader = "unloaded" => \A t \in Tasks : pc[t] \in {"none", "dead"}
    /\ loader = "failed" => \A t \in Tasks : pc[t] \in {"none", "parked"}

(* The writer is alone in its critical section, and under a lock that is    *)
(* not shared so is a reader.  A seqlock reader excludes nobody.            *)
MutualExclusion ==
    \A s, t \in Tasks :
        /\ s # t
        /\ InSection(s) /\ InSection(t)
        => \/ M.lock = "shared" /\ s \in Readers /\ t \in Readers
           \/ Optimistic(s) \/ Optimistic(t)

(* Nobody sleeps while a spin lock is held: "spin lock disable preemption   *)
(* so can't call sleep".                                                    *)
NoSleepInAtomic ==
    M.spinning => \A t \in holders : pc[t] # "nap"

(* When a reader ends its critical section for good, the value it showed is *)
(* still the value of the counter: it was not overtaken by the writer.      *)
ReadIsCurrent ==
    [][\A t \in Readers : Unlock(t) => shown[t] = variable]_vars

(* rmmod returns, although the writer and the readers compete for the lock  *)
(* and a seqlock reader is sent back by every write.                        *)
ExitCompletes == loader = "stop" ~> loader = "unloaded"

-----------------------------------------------------------------------------
(* The life of the module as the kernel sees it. *)
phaseBar ==
    CASE loader \in {"absent", "failed", "unloaded"} -> "absent"
      [] loader \in {"kmalloc", "create", "wake", "err_free_mem"} -> "loading"
      [] loader = "live" -> "live"
      [] loader \in {"stop", "free"} -> "unloading"

Lifetime == INSTANCE ModuleLifetime WITH
    Contexts <- Tasks,
    phase <- phaseBar,
    memory <- mem,
    busy <- {t \in Tasks : InCallback(t)}

(* Each of the modules keeps the contract of ModuleLifetime. *)
KeepsLifetime == Lifetime!Spec
=============================================================================
