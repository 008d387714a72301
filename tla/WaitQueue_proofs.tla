--------------------------- MODULE WaitQueue_proofs ---------------------------
(***************************************************************************)
(* Proofs about WaitQueue, for any number of calls before the signal.       *)
(***************************************************************************)
EXTENDS WaitQueue, TLAPS

(* How far the loader is says whether there is storage, and that nothing    *)
(* runs before the first mod_timer.                                         *)
LoaderInv ==
    /\ mem <=> loader \notin {"absent", "kmalloc", "failed", "unloaded"}
    /\ loader \in {"absent", "kmalloc", "arm", "failed"} => ~armed /\ cb = "idle"

(* Only a signal ends the wait without the condition. *)
WaitInv ==
    /\ WakeUpReachesWaiter
    /\ loader = "interrupted" => signal

(* What del_timer leaves running was running when it was called. *)
RaceInv ==
    /\ loader \in Deleted /\ (armed \/ cb # "idle") => raced
    /\ oops => raced

Inv == TypeOK /\ LoaderInv /\ WaitInv /\ RaceInv

LEMMA InvInit == Init => Inv
<1> SUFFICES ASSUME Init
             PROVE  Inv
  OBVIOUS
<1>1. TypeOK
  <2>1. count \in 0 .. Limit + 1
    BY LimitAssumption DEF Init
  <2> QED
    BY <2>1 DEF Init, TypeOK, LoaderPhases
<1>2. LoaderInv /\ WaitInv /\ RaceInv
  BY DEF Init, LoaderInv, WaitInv, WakeUpReachesWaiter, RaceInv, Deleted
<1> QED
  BY <1>1, <1>2 DEF Inv

-----------------------------------------------------------------------------
(* Every variable keeps its type. *)
LEMMA TypeStep ==
    ASSUME TypeOK, Next
    PROVE  TypeOK'
<1> USE LimitAssumption DEF TypeOK, LoaderPhases, Statements, infoVars, timerVars, waitVars
<1>1. CASE Insmod \/ Arm
  BY <1>1 DEF Insmod, Arm
<1>2. CASE WaitEvent \/ PrepareToWait \/ TestCondition \/ Schedule
  <2>1. loader' \in LoaderPhases
    BY <1>2 DEF WaitEvent, PrepareToWait, TestCondition, Schedule
  <2>2. asleep' \in BOOLEAN
    BY <1>2 DEF WaitEvent, PrepareToWait, TestCondition, Schedule
  <2> QED
    BY <1>2, <2>1, <2>2 DEF WaitEvent, PrepareToWait, TestCondition, Schedule
<1>3. CASE KMalloc
  <2>1. count' \in 0 .. Limit + 1
    BY <1>3 DEF KMalloc
  <2> QED
    BY <1>3, <2>1 DEF KMalloc
<1>4. CASE DelTimer \/ Rmmod \/ KFree
  BY <1>4 DEF DelTimer, Rmmod, KFree
<1>5. CASE Count
  <2>1. count' \in 0 .. Limit + 1
    BY <1>5 DEF Count
  <2>2. cb' \in Statements \cup {"idle"}
    BY <1>5 DEF Count, After
  <2> QED
    BY <1>5, <2>1, <2>2 DEF Count
<1>6. CASE Expire \/ RaiseCondition \/ WakeUp \/ Rearm \/ Return
  BY <1>6 DEF Expire, RaiseCondition, WakeUp, Rearm, Return, After
<1>7. CASE LeftOver \/ Interrupt
  BY <1>7 DEF LeftOver, Interrupt
<1> QED
  BY <1>1, <1>2, <1>3, <1>4, <1>5, <1>6, <1>7 DEF Next, WqInit, TimerCallback

(* The parts about the loader, the wait and the race with del_timer. *)
LEMMA PartsStep ==
    ASSUME Inv, Next
    PROVE  (LoaderInv /\ WaitInv /\ RaceInv)'
<1> USE DEF Inv, LoaderInv, WaitInv, WakeUpReachesWaiter, RaceInv, Deleted,
        infoVars, timerVars, waitVars
<1>1. CASE Insmod
  BY <1>1 DEF Insmod
<1>2. CASE KMalloc
  BY <1>2 DEF KMalloc
<1>3. CASE Arm
  BY <1>3 DEF Arm
<1>4. CASE WaitEvent
  BY <1>4 DEF WaitEvent
<1>5. CASE PrepareToWait
  BY <1>5 DEF PrepareToWait
<1>6. CASE TestCondition
  BY <1>6 DEF TestCondition
<1>7. CASE Schedule
  BY <1>7 DEF Schedule
<1>8. CASE DelTimer
  <2>1. LoaderInv' /\ WaitInv'
    BY <1>8 DEF DelTimer
  <2>2. cb' # "idle" => raced'
    BY <1>8 DEF DelTimer
  <2>3. ~armed' /\ ~oops'
    BY <1>8 DEF DelTimer, Next
  <2> QED
    BY <2>1, <2>2, <2>3
<1>9. CASE Rmmod \/ KFree
  BY <1>9 DEF Rmmod, KFree
<1>10. CASE Expire
  BY <1>10 DEF Expire
<1>11. CASE Count
  BY <1>11 DEF Count, At
<1>12. CASE RaiseCondition
  BY <1>12 DEF RaiseCondition, At, After
<1>13. CASE WakeUp
  BY <1>13 DEF WakeUp, At
<1>14. CASE Rearm
  BY <1>14 DEF Rearm, At, After
<1>15. CASE Return
  BY <1>15 DEF Return
<1>16. CASE LeftOver
  BY <1>16 DEF LeftOver, TypeOK, LoaderPhases
<1>17. CASE Interrupt
  BY <1>17 DEF Interrupt
<1> QED
  BY <1>1, <1>2, <1>3, <1>4, <1>5, <1>6, <1>7, <1>8, <1>9, <1>10, <1>11, <1>12, <1>13, <1>14,
     <1>15, <1>16, <1>17 DEF Next, WqInit, TimerCallback

LEMMA InvStep == Inv /\ [Next]_vars => Inv'
<1> SUFFICES ASSUME Inv, [Next]_vars
             PROVE  Inv'
  OBVIOUS
<1>1. CASE Next
  BY <1>1, TypeStep, PartsStep DEF Inv
<1>2. CASE UNCHANGED vars
  BY <1>2 DEF vars, Inv, TypeOK, LoaderInv, WaitInv, WakeUpReachesWaiter, RaceInv
<1> QED
  BY <1>1, <1>2

LEMMA InvAlways == Spec => []Inv
BY InvInit, InvStep, PTL DEF Spec

-----------------------------------------------------------------------------
(* timer_callback and wq_init keep the types of what they share. *)
THEOREM TypeCorrect == Spec => []TypeOK
<1>1. Inv => TypeOK
  BY DEF Inv
<1> QED
  BY <1>1, InvAlways, PTL

(* wait_event_interruptible and the order of the two statements of          *)
(* timer_callback: insmod never sleeps on after the condition was raised.   *)
THEOREM NoWakeUpLost == Spec => []WakeUpReachesWaiter
<1>1. Inv => WakeUpReachesWaiter
  BY DEF Inv, WaitInv
<1> QED
  BY <1>1, InvAlways, PTL

(* del_timer: a timer that survives it, and the fault it leads to when      *)
(* wq_exit has freed the structure, needs a callback that was running then. *)
THEOREM SurvivorsHaveRaced == Spec => []OnlyRacedTimerSurvives
<1>1. Inv => OnlyRacedTimerSurvives
  BY DEF Inv, RaceInv, OnlyRacedTimerSurvives
<1> QED
  BY <1>1, InvAlways, PTL
=============================================================================
