------------------------------ MODULE WaitQueue ------------------------------
(***************************************************************************)
(* wait_queue.c: insmod starts a timer that starts itself again, and sleeps *)
(* on a wait queue until the timer has run often enough; then it deletes    *)
(* the timer and returns.                                                   *)
(*                                                                          *)
(* Three actors: the process in wq_init and wq_exit, timer_callback in the  *)
(* timer softirq of whatever processor, and a user who may interrupt insmod *)
(* with a signal.  The callback is taken statement by statement and         *)
(* wait_event_interruptible as the kernel's macro expands: a test of the    *)
(* condition, then set-state, test, schedule in a loop.                     *)
(*                                                                          *)
(* Abstracted: the time between two calls, and how often the condition was  *)
(* raised (only whether it is 0 is ever read).                              *)
(***************************************************************************)
EXTENDS Naturals

CONSTANT Limit      \* 10 in the code: calls that do not signal yet

ASSUME LimitAssumption == Limit \in Nat

VARIABLES
    loader,     \* where wq_init or wq_exit is
    mem,        \* does *g_wq_info exist?
    count,      \* timer_count, counted up to Limit + 1
    condition,  \* is condition not 0?
    armed,      \* is the timer pending?
    cb,         \* the statement of timer_callback that is next, or "idle"
    asleep,     \* insmod is on the wait queue, TASK_INTERRUPTIBLE
    signal,     \* insmod has a signal pending
    raced,      \* history: the callback was running when del_timer was called
    oops        \* a kernel fault: freed memory or unmapped text was used

vars == <<loader, mem, count, condition, armed, cb, asleep, signal, raced, oops>>
infoVars == <<mem, count, condition>>
timerVars == <<armed, cb>>
waitVars == <<asleep, signal>>

LoaderPhases == {"absent", "kmalloc", "arm", "wait", "prepare", "interrupted", "test",
                 "schedule", "delete", "live", "kfree", "failed", "unloaded"}

(* The statements of timer_callback. *)
Statements == {"count", "condition", "wake", "rearm", "return"}

Init ==
    /\ loader = "absent"
    /\ mem = FALSE
    /\ count = 0
    /\ condition = FALSE
    /\ armed = FALSE
    /\ cb = "idle"
    /\ asleep = FALSE
    /\ signal = FALSE
    /\ raced = FALSE
    /\ oops = FALSE

-----------------------------------------------------------------------------
(* wq_init *)

Insmod ==
    /\ loader = "absent"
    /\ loader' = "kmalloc"
    /\ UNCHANGED <<infoVars, timerVars, waitVars, raced, oops>>

(* With the two fields left as kmalloc returns them. *)
KMallocOnly ==
    /\ loader = "kmalloc"
    /\ \/ mem' = TRUE /\ count' \in {0, Limit + 2} /\ loader' = "arm"
       \/ UNCHANGED <<mem, count>> /\ loader' = "failed"
    /\ UNCHANGED <<condition, timerVars, waitVars, raced, oops>>

KMalloc ==
    /\ loader = "kmalloc"
    /\ \/ mem' = TRUE /\ count' = 0 /\ condition' = FALSE /\ loader' = "arm"
       \/ UNCHANGED infoVars /\ loader' = "failed"
    /\ UNCHANGED <<timerVars, waitVars, raced, oops>>

(* The first mod_timer *)
Arm ==
    /\ loader = "arm"
    /\ armed' = TRUE
    /\ loader' = "wait"
    /\ UNCHANGED <<infoVars, cb, waitVars, raced, oops>>

(* wait_event_interruptible: nothing to do if the condition holds already. *)
WaitEvent ==
    /\ loader = "wait"
    /\ loader' = IF condition THEN "delete" ELSE "prepare"
    /\ UNCHANGED <<infoVars, timerVars, waitVars, raced, oops>>

(* prepare_to_wait_event: join the queue and change state, or learn that a  *)
(* signal is pending.                                                       *)
PrepareToWait ==
    /\ loader = "prepare"
    /\ IF signal
         THEN loader' = "interrupted" /\ UNCHANGED asleep
         ELSE loader' = "test" /\ asleep' = TRUE
    /\ UNCHANGED <<infoVars, timerVars, signal, raced, oops>>

(* The condition is tested before the signal is looked at; either ends the  *)
(* wait, and finish_wait makes the process TASK_RUNNING.  wq_init does not  *)
(* look at the result.                                                      *)
TestCondition ==
    /\ loader \in {"test", "interrupted"}
    /\ IF condition \/ loader = "interrupted"
         THEN loader' = "delete" /\ asleep' = FALSE
         ELSE loader' = "schedule" /\ UNCHANGED asleep
    /\ UNCHANGED <<infoVars, timerVars, signal, raced, oops>>

(* schedule returns once somebody has made the process runnable. *)
Schedule ==
    /\ loader = "schedule"
    /\ ~asleep
    /\ loader' = "prepare"
    /\ UNCHANGED <<infoVars, timerVars, waitVars, raced, oops>>

NoDelTimer ==
    /\ loader = "delete"
    /\ raced' = (cb # "idle")
    /\ loader' = "live"
    /\ UNCHANGED <<infoVars, timerVars, waitVars, oops>>

(* del_timer: dequeue the timer; a callback that is running goes on. *)
DelTimer ==
    /\ loader = "delete"
    /\ armed' = FALSE
    /\ raced' = (cb # "idle")
    /\ loader' = "live"
    /\ UNCHANGED <<infoVars, cb, waitVars, oops>>

-----------------------------------------------------------------------------
(* wq_exit *)

Rmmod ==
    /\ loader = "live"
    /\ loader' = "kfree"
    /\ UNCHANGED <<infoVars, timerVars, waitVars, raced, oops>>

(* kfree and return, and the module's text is unmapped. *)
KFree ==
    /\ loader = "kfree"
    /\ mem' = FALSE
    /\ loader' = "unloaded"
    /\ UNCHANGED <<count, condition, timerVars, waitVars, raced, oops>>

-----------------------------------------------------------------------------
(* timer_callback *)

(* The statement that follows s; the test of timer_count is part of count. *)
AfterWakeFirst(s) ==
    CASE s = "count"     -> IF count' > Limit THEN "wake" ELSE "rearm"
      [] s = "wake"      -> "condition"
      [] s = "condition" -> "rearm"
      [] s = "rearm"     -> "return"

After(s) ==
    CASE s = "count"     -> IF count' > Limit THEN "condition" ELSE "rearm"
      [] s = "condition" -> "wake"
      [] s = "wake"      -> "rearm"
      [] s = "rearm"     -> "return"

At(s) == mem /\ cb = s

Expire ==
    /\ mem
    /\ armed
    /\ cb = "idle"
    /\ armed' = FALSE
    /\ cb' = "count"
    /\ UNCHANGED <<loader, infoVars, waitVars, raced, oops>>

(* timer_count += 1 *)
Count ==
    /\ At("count")
    /\ count' = IF count > Limit THEN count ELSE count + 1
    /\ cb' = After("count")
    /\ UNCHANGED <<loader, mem, condition, armed, waitVars, raced, oops>>

(* condition += 1 *)
RaiseCondition ==
    /\ At("condition")
    /\ condition' = TRUE
    /\ cb' = After("condition")
    /\ UNCHANGED <<loader, mem, count, armed, waitVars, raced, oops>>

(* wake_up_interruptible_all *)
WakeUp ==
    /\ At("wake")
    /\ asleep' = FALSE
    /\ cb' = After("wake")
    /\ UNCHANGED <<loader, infoVars, armed, signal, raced, oops>>

RearmUntilLimit ==
    /\ At("rearm")
    /\ armed' = (count < Limit)
    /\ cb' = After("rearm")
    /\ UNCHANGED <<loader, infoVars, waitVars, raced, oops>>

(* mod_timer *)
Rearm ==
    /\ At("rearm")
    /\ armed' = TRUE
    /\ cb' = After("rearm")
    /\ UNCHANGED <<loader, infoVars, waitVars, raced, oops>>

Return ==
    /\ cb = "return"
    /\ loader # "unloaded"
    /\ cb' = "idle"
    /\ UNCHANGED <<loader, infoVars, armed, waitVars, raced, oops>>

(* A timer or a callback that is left over uses freed memory or unmapped    *)
(* text.                                                                    *)
LeftOver ==
    /\ ~mem
    /\ armed \/ cb # "idle"
    /\ oops' = TRUE
    /\ UNCHANGED <<loader, infoVars, timerVars, waitVars, raced>>

-----------------------------------------------------------------------------
(* A signal for insmod, from ^C say: it ends a sleep. *)
Interrupt ==
    /\ loader \in {"wait", "prepare", "test", "schedule"}
    /\ ~signal
    /\ signal' = TRUE
    /\ asleep' = FALSE
    /\ UNCHANGED <<loader, infoVars, timerVars, raced, oops>>

-----------------------------------------------------------------------------
WqInit ==
    \/ Insmod \/ KMalloc \/ Arm
    \/ WaitEvent \/ PrepareToWait \/ TestCondition \/ Schedule
    \/ DelTimer

TimerCallback == Expire \/ Count \/ RaiseCondition \/ WakeUp \/ Rearm \/ Return

Next == ~oops /\ (WqInit \/ Rmmod \/ KFree \/ TimerCallback \/ LeftOver \/ Interrupt)

(* insmod runs when it is runnable, a pending timer expires and its         *)
(* callback runs to its end.  Whether anyone interrupts, or unloads the     *)
(* module, is up to the user.                                               *)
Fairness ==
    /\ WF_vars(~oops /\ WqInit)
    /\ WF_vars(~oops /\ TimerCallback)

Spec == Init /\ [][Next]_vars /\ Fairness

-----------------------------------------------------------------------------
(* Every variable keeps its type: wq_init sets the fields of what kmalloc   *)
(* returned before the timer can look at them.                              *)
TypeOK ==
    /\ loader \in LoaderPhases
    /\ mem \in BOOLEAN
    /\ count \in 0 .. Limit + 1
    /\ condition \in BOOLEAN
    /\ armed \in BOOLEAN
    /\ cb \in Statements \cup {"idle"}
    /\ asleep \in BOOLEAN
    /\ signal \in BOOLEAN
    /\ raced \in BOOLEAN
    /\ oops \in BOOLEAN

(* No wake-up is lost: insmod sleeps while the condition holds only if the  *)
(* callback that raised it is about to wake it.  (The timer would hide the  *)
(* loss, two seconds later.)  And a wait that nobody interrupted has ended  *)
(* because of the condition.                                                *)
WakeUpReachesWaiter ==
    /\ loader = "schedule" /\ asleep /\ condition => cb = "wake"
    /\ loader = "delete" /\ ~signal => condition

(* The comment at the head of wait_queue.c: once the wait queue is          *)
(* signalled, the timer is deleted.                                         *)
Deleted == {"live", "kfree", "unloaded"}
TimerIsDeleted == loader \in Deleted /\ ~signal => ~armed

(* What holds of it, signalled or interrupted: a timer or a callback that   *)
(* is there after del_timer, and with it any fault, is due to a callback    *)
(* that was running when del_timer was called.                              *)
OnlyRacedTimerSurvives ==
    oops \/ (loader \in Deleted /\ (armed \/ cb # "idle")) => raced

(* insmod returns without anybody's help: the timer goes on until it has    *)
(* signalled the wait queue.                                                *)
InitReturns == loader = "kmalloc" ~> loader \in {"live", "failed"}
=============================================================================
