--------------------------- MODULE KthreadAdvanced ---------------------------
(***************************************************************************)
(* kthread_advanced.c: a kernel thread (kt_callback) whose behaviour is     *)
(* selected by writing a command to /dev/chdev (cd_write).                  *)
(*                                                                          *)
(* Four kinds of actors share cddev_info without any lock: the process that *)
(* runs insmod (cd_init) and later rmmod (cd_exit), the users of the        *)
(* character device, and the kernel thread.  An action is one access to     *)
(* that shared state, so that the windows between a test and the sleep it   *)
(* guards, and between the two statements of RESUME, are in the model.      *)
(*                                                                          *)
(* Abstracted: the text of the commands (copy_from_user, kstrtol), the      *)
(* three second log throttle (show, time), cd_read and the log messages.    *)
(* One load and at most one unload of the module are followed.              *)
(***************************************************************************)
EXTENDS Naturals, Sequences

CONSTANT Users      \* processes that may open /dev/chdev

VARIABLES
    loader,       \* where cd_init / cd_exit is
    k,            \* how many set-up steps of cd_init are done or to be undone
    res,          \* what the module has registered with the kernel
    err,          \* is cd_init's local err nonzero?
    task,         \* cddev_info.task: NULL, an error pointer or the thread
    task_state,   \* cddev_info.task_state
    written,      \* history: the commands cd_write has stored there
    last,         \* history: the last command cd_write has carried out
    should_stop,  \* KTHREAD_SHOULD_STOP of the thread
    pc,           \* where the thread is in kt_callback
    asleep,       \* the thread's state is not TASK_RUNNING
    upc,          \* where each user is
    oops          \* a kernel fault: freed, NULL or error pointer was used

vars == <<loader, k, res, err, task, task_state, written, last, should_stop, pc,
          asleep, upc, oops>>
moduleVars == <<loader, k, res, err, task>>
commandVars == <<task_state, written, last>>
threadVars == <<pc, asleep>>

(* What cd_init registers, in its order. *)
Steps == <<"region", "class", "cdev", "device">>

(* enum state; RESUME is only ever a command. *)
States == {"running", "suspend", "stop", "sleep"}
Commands == States \cup {"resume"}

InitPhases == {"insmod", "create", "start", "wake"}
ExitPhases == {"exit", "kthread_stop", "join", "teardown", "gone"}
LoaderPhases == InitPhases \cup ExitPhases \cup {"unwind", "live", "failed"}

ThreadPhases == {"none", "parked", "top", "running?", "suspend?", "stop?", "sleep?",
                 "nap", "set", "schedule", "end", "dead"}

(* The static initial values of cddev_info, before insmod. *)
Init ==
    /\ loader = "insmod"
    /\ k = 0
    /\ res = {}
    /\ err = FALSE
    /\ task = "none"
    /\ task_state = "running"
    /\ written = {}
    /\ last = "none"
    /\ should_stop = FALSE
    /\ pc = "none"
    /\ asleep = FALSE
    /\ upc = [u \in Users |-> "closed"]
    /\ oops = FALSE

-----------------------------------------------------------------------------
(* wake_up_process(cddev_info.task): ends a sleep, does nothing to a thread *)
(* that is running.  The driver holds no reference on the task: once the    *)
(* thread is dead its task_struct may have been freed or not.               *)
WakeUp ==
    \/ task = "kt" /\ pc # "dead" /\ asleep' = FALSE /\ UNCHANGED oops
    \/ task = "kt" /\ pc = "dead" /\ oops' \in BOOLEAN /\ UNCHANGED asleep
    \/ task # "kt" /\ oops' = TRUE /\ UNCHANGED asleep

-----------------------------------------------------------------------------
(* cd_init *)

(* One of the four registrations; a failure jumps to the label that undoes *)
(* the ones already made.                                                  *)
RegisterWrongLabel ==
    /\ loader = "insmod"
    /\ k < Len(Steps)
    /\ \/ /\ res' = res \cup {Steps[k + 1]}
          /\ k' = k + 1
          /\ loader' = IF k' = Len(Steps) THEN "create" ELSE "insmod"
          /\ UNCHANGED err
       \/ /\ k' = IF k = 0 THEN 0 ELSE k - 1
          /\ err' = TRUE
          /\ loader' = "unwind"
          /\ UNCHANGED res
    /\ UNCHANGED <<task, commandVars, should_stop, threadVars, upc, oops>>

Register ==
    /\ loader = "insmod"
    /\ k < Len(Steps)
    /\ \/ /\ res' = res \cup {Steps[k + 1]}
          /\ k' = k + 1
          /\ loader' = IF k' = Len(Steps) THEN "create" ELSE "insmod"
          /\ UNCHANGED err
       \/ /\ err' = TRUE
          /\ loader' = "unwind"
          /\ UNCHANGED <<k, res>>
    /\ UNCHANGED <<task, commandVars, should_stop, threadVars, upc, oops>>

(* kthread_create: the new thread is parked until its first wake-up.  The   *)
(* failure branch assigns ret, not err, so cd_init will return 0.           *)
Create ==
    /\ loader = "create"
    /\ \/ /\ task' = "kt"
          /\ pc' = "parked"
          /\ asleep' = TRUE
          /\ loader' = "start"
       \/ /\ task' = "err"
          /\ loader' = "unwind"
          /\ UNCHANGED threadVars
    /\ UNCHANGED <<k, res, err, commandVars, should_stop, upc, oops>>

(* task_state = RUNNING, after the device is already visible to users. *)
Start ==
    /\ loader = "start"
    /\ task_state' = "running"
    /\ loader' = "wake"
    /\ UNCHANGED <<written, last, k, res, err, task, should_stop, threadVars, upc, oops>>

FirstWake ==
    /\ loader = "wake"
    /\ WakeUp
    /\ loader' = "live"
    /\ UNCHANGED <<k, res, err, task, commandVars, should_stop, pc, upc>>

(* The err_ labels: device_destroy, cdev_del, class_destroy, unregister. *)
Unwind ==
    /\ loader = "unwind"
    /\ k > 0
    /\ res' = res \ {Steps[k]}
    /\ k' = k - 1
    /\ UNCHANGED <<loader, err, task, commandVars, should_stop, threadVars, upc, oops>>

(* return err: insmod fails only if err was set. *)
InitReturns ==
    /\ loader = "unwind"
    /\ k = 0
    /\ loader' = IF err THEN "failed" ELSE "live"
    /\ UNCHANGED <<k, res, err, task, commandVars, should_stop, threadVars, upc, oops>>

-----------------------------------------------------------------------------
(* cd_exit *)

(* An open file holds a reference on the module (.owner), so rmmod is       *)
(* refused until every user has closed it.                                  *)
Rmmod ==
    /\ loader = "live"
    /\ \A u \in Users : upc[u] = "closed"
    /\ loader' = "exit"
    /\ UNCHANGED <<k, res, err, task, commandVars, should_stop, threadVars, upc, oops>>

ExitTest ==
    /\ loader = "exit"
    /\ loader' = IF task_state # "stop" THEN "kthread_stop" ELSE "teardown"
    /\ k' = Len(Steps)
    /\ UNCHANGED <<res, err, task, commandVars, should_stop, threadVars, upc, oops>>

KthreadStopNoWait ==
    /\ loader = "kthread_stop"
    /\ should_stop' = TRUE
    /\ WakeUp
    /\ loader' = "teardown"
    /\ UNCHANGED <<k, res, err, task, commandVars, pc, upc>>

KthreadStopNoFlag ==
    /\ loader = "kthread_stop"
    /\ WakeUp
    /\ loader' = "join"
    /\ UNCHANGED <<k, res, err, task, commandVars, should_stop, pc, upc>>

(* kthread_stop, first half: raise the flag and wake the thread. *)
KthreadStop ==
    /\ loader = "kthread_stop"
    /\ should_stop' = TRUE
    /\ WakeUp
    /\ loader' = "join"
    /\ UNCHANGED <<k, res, err, task, commandVars, pc, upc>>

(* kthread_stop, second half: wait until the thread has exited. *)
Join ==
    /\ loader = "join"
    /\ pc = "dead"
    /\ loader' = "teardown"
    /\ UNCHANGED <<k, res, err, task, commandVars, should_stop, threadVars, upc, oops>>

(* device_destroy ... unregister_chrdev_region.  They are given what        *)
(* cd_init may have released already: destroying it twice is a fault.       *)
Teardown ==
    /\ loader = "teardown"
    /\ k > 0
    /\ res' = res \ {Steps[k]}
    /\ oops' = (Steps[k] \notin res)
    /\ k' = k - 1
    /\ loader' = IF k' = 0 THEN "gone" ELSE "teardown"
    /\ UNCHANGED <<err, task, commandVars, should_stop, threadVars, upc>>

-----------------------------------------------------------------------------
(* kt_callback.  Each comparison of the if-else chain reads task_state      *)
(* anew; a build that keeps it in a register does the four tests in a row.  *)

(* The module's text is mapped until the loader has freed it. *)
Mapped == loader \notin {"failed", "gone"}

At(label) == Mapped /\ pc = label

Goto(label) ==
    /\ pc' = label
    /\ UNCHANGED <<moduleVars, commandVars, should_stop, asleep, upc, oops>>

(* kthread(): parked until woken, kt_callback is called unless stopped. *)
Begin ==
    /\ At("parked")
    /\ ~asleep
    /\ Goto(IF should_stop THEN "dead" ELSE "top")

(* while (kthread_should_stop() == false) *)
Loop ==
    /\ At("top")
    /\ Goto(IF should_stop THEN "end" ELSE "running?")

TestRunning ==
    /\ At("running?")
    /\ Goto(IF task_state = "running" THEN "nap" ELSE "suspend?")

TestSuspendBreaks ==
    /\ At("suspend?")
    /\ Goto(IF task_state = "suspend" THEN "end" ELSE "stop?")

TestSuspend ==
    /\ At("suspend?")
    /\ Goto(IF task_state = "suspend" THEN "set" ELSE "stop?")

(* STOP as it would be without its break. *)
TestStopContinues ==
    /\ At("stop?")
    /\ Goto(IF task_state = "stop" THEN "top" ELSE "sleep?")

TestStop ==
    /\ At("stop?")
    /\ Goto(IF task_state = "stop" THEN "end" ELSE "sleep?")

(* The last branch is "unknown state": a change between two tests gets there. *)
TestSleep ==
    /\ At("sleep?")
    /\ Goto(IF task_state = "sleep" THEN "nap" ELSE "top")

(* msleep_interruptible sleeps its time out whatever wake-ups arrive. *)
Nap ==
    /\ At("nap")
    /\ Goto("top")

SetCurrentState ==
    /\ At("set")
    /\ asleep' = TRUE
    /\ pc' = "schedule"
    /\ UNCHANGED <<moduleVars, commandVars, should_stop, upc, oops>>

(* schedule() returns once a wake-up has made the thread runnable. *)
Schedule ==
    /\ At("schedule")
    /\ ~asleep
    /\ Goto("top")

DoExit ==
    /\ At("end")
    /\ Goto("dead")

(* A thread that outlives the module runs unmapped text. *)
RunsUnmapped ==
    /\ loader = "gone"
    /\ pc \notin {"none", "dead"}
    /\ ~asleep
    /\ oops' = TRUE
    /\ UNCHANGED <<moduleVars, commandVars, should_stop, threadVars, upc>>

-----------------------------------------------------------------------------
(* The users of /dev/chdev *)

(* The node exists from device_create to device_destroy; a module being     *)
(* removed can not be opened.                                               *)
CdOpen(u) ==
    /\ upc[u] = "closed"
    /\ "device" \in res
    /\ loader \notin ExitPhases
    /\ upc' = [upc EXCEPT ![u] = "open"]
    /\ UNCHANGED <<moduleVars, commandVars, should_stop, threadVars, oops>>

CdRelease(u) ==
    /\ upc[u] = "open"
    /\ upc' = [upc EXCEPT ![u] = "closed"]
    /\ UNCHANGED <<moduleVars, commandVars, should_stop, threadVars, oops>>

CdWriteRaw(u, c) ==
    /\ upc[u] = "open"
    /\ task_state' = c
    /\ written' = written \cup {c}
    /\ last' = c
    /\ UNCHANGED <<moduleVars, should_stop, threadVars, upc, oops>>

(* cd_write of SUSPEND, STOP, SLEEP or RUNNING (also the default). *)
CdWrite(u, c) ==
    /\ upc[u] = "open"
    /\ c # "resume"
    /\ task_state' = c
    /\ written' = written \cup {c}
    /\ last' = c
    /\ UNCHANGED <<moduleVars, should_stop, threadVars, upc, oops>>

ResumeWithoutWake(u) ==
    /\ upc[u] = "open"
    /\ upc' = [upc EXCEPT ![u] = "resume"]
    /\ UNCHANGED <<moduleVars, commandVars, should_stop, threadVars, oops>>

(* cd_write of RESUME, first statement: wake_up_process(task). *)
ResumeWake(u) ==
    /\ upc[u] = "open"
    /\ WakeUp
    /\ upc' = [upc EXCEPT ![u] = "resume"]
    /\ UNCHANGED <<moduleVars, commandVars, should_stop, pc>>

(* cd_write of RESUME, second statement: task_state = RUNNING. *)
ResumeSet(u) ==
    /\ upc[u] = "resume"
    /\ task_state' = "running"
    /\ last' = "resume"
    /\ upc' = [upc EXCEPT ![u] = "open"]
    /\ UNCHANGED <<written, moduleVars, should_stop, threadVars, oops>>

-----------------------------------------------------------------------------
CdInit == Register \/ Create \/ Start \/ FirstWake \/ Unwind \/ InitReturns

CdExit == ExitTest \/ KthreadStop \/ Join \/ Teardown

KtCallback ==
    \/ Begin \/ Loop
    \/ TestRunning \/ TestSuspend \/ TestStop \/ TestSleep
    \/ Nap \/ SetCurrentState \/ Schedule \/ DoExit
    \/ RunsUnmapped

User(u) ==
    \/ CdOpen(u)
    \/ CdRelease(u)
    \/ \E c \in Commands : CdWrite(u, c)
    \/ ResumeWake(u)
    \/ ResumeSet(u)

(* A kernel fault ends the behaviours that are of interest. *)
Next == ~oops /\ (CdInit \/ Rmmod \/ CdExit \/ KtCallback \/ \E u \in Users : User(u))

(* Code that is running goes on running: the preemptive scheduler never     *)
(* starves a runnable task.  When users act and whether rmmod is called is  *)
(* up to them.                                                              *)
Fairness ==
    /\ WF_vars(~oops /\ CdInit)
    /\ WF_vars(~oops /\ CdExit)
    /\ WF_vars(~oops /\ KtCallback)
    /\ \A u \in Users : WF_vars(~oops /\ ResumeSet(u))

Spec == Init /\ [][Next]_vars /\ Fairness

-----------------------------------------------------------------------------
(* Every variable keeps its type; above all task_state only holds values    *)
(* kt_callback has a branch for.                                            *)
TypeOK ==
    /\ loader \in LoaderPhases
    /\ k \in 0 .. 4
    /\ res \subseteq {"region", "class", "cdev", "device"}
    /\ err \in BOOLEAN
    /\ task \in {"none", "err", "kt"}
    /\ task_state \in States
    /\ written \subseteq Commands
    /\ last \in Commands \cup {"none"}
    /\ should_stop \in BOOLEAN
    /\ pc \in ThreadPhases
    /\ asleep \in BOOLEAN
    /\ upc \in [Users -> {"closed", "open", "resume"}]
    /\ oops \in BOOLEAN

NeverStopped == "stop" \notin written

(* Once cd_exit begins to take the device down, and after insmod failed,    *)
(* the kernel thread does not exist: nothing is left to run the code of a   *)
(* module that is unloaded.  The transcript in README.md has it so after a  *)
(* STOP too; the code does not wait for the thread then.                    *)
ThreadEndsBeforeUnload ==
    loader \in {"teardown", "gone", "failed"} => pc \in {"none", "dead"}

(* What holds of it: unless STOP was ever written, cd_exit waits for the    *)
(* thread.                                                                  *)
UnloadLeavesNoThread == NeverStopped => ThreadEndsBeforeUnload

(* Unless STOP was ever written, wake_up_process and kthread_stop are never *)
(* applied to a thread that has exited: the only faults are those of a      *)
(* RESUME before kthread_create or of a kthread_create that failed.         *)
TaskIsAliveWhenUsed == NeverStopped /\ oops => task # "kt"

(* An insmod that fails has undone every registration it made, has created  *)
(* no thread, and leaves no user with the device open.                      *)
FailedLoadReleasesAll ==
    loader = "failed" => res = {} /\ task = "none" /\ \A u \in Users : upc[u] = "closed"

(* After a RESUME that is complete and that no other command has followed,  *)
(* the thread does its periodic work again, if STOP was never written.  A   *)
(* RUNNING after SUSPEND, which wakes nobody, is not of that kind.          *)
ResumeRuns ==
    <>[](/\ loader = "live" /\ task = "kt" /\ NeverStopped
         /\ last = "resume" /\ \A u \in Users : upc[u] # "resume")
        => []<>(pc = "nap")

(* A RESUME that is repeated for ever, and not overruled, is never without  *)
(* effect for ever, unless a STOP has ended the thread.                     *)
RetriedResumeRuns ==
    /\ <>[](loader = "live" /\ task = "kt" /\ task_state = "running" /\ NeverStopped)
    /\ []<>(\E u \in Users : upc[u] = "resume")
    => []<>(pc = "nap")

(* rmmod returns, if the thread already sleeps for SUSPEND, or if it is not *)
(* told to suspend and not about to.  In the other cases the only wake-up,  *)
(* that of kthread_stop, may come before the sleep it should end.           *)
ExitCompletes ==
    /\ loader = "exit"
    /\ (pc = "schedule" /\ asleep) \/ (task_state # "suspend" /\ pc # "set")
    ~> loader = "gone" \/ oops

(* After STOP, not overruled by another command, the thread ends wherever   *)
(* it is, except where SUSPEND has put it to sleep: STOP does not wake it.  *)
StopEnds ==
    <>[](loader = "live" /\ task = "kt" /\ task_state = "stop")
        => <>[](pc = "dead" \/ (pc = "schedule" /\ asleep) \/ oops)
=============================================================================
