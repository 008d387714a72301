----------------------- MODULE KthreadAdvanced_proofs -----------------------
(***************************************************************************)
(* Proofs about KthreadAdvanced, for any set of users.  What the driver     *)
(* promises about its thread holds as long as nobody has written STOP; the *)
(* properties say so with the history variable written.                    *)
(***************************************************************************)
EXTENDS KthreadAdvanced, TLAPS

(* The first n registrations of cd_init. *)
Prefix(n) == {Steps[i] : i \in 1 .. n}

AllClosed == \A u \in Users : upc[u] = "closed"

-----------------------------------------------------------------------------
(* The inductive invariant, in parts.                                       *)

(* cddev_info.task is the thread exactly when the thread exists, and how    *)
(* far cd_init came says which of its three values it has.                  *)
TaskInv ==
    /\ task = "kt" <=> pc # "none"
    /\ loader \in {"insmod", "create"} => task = "none"
    /\ loader \in {"start", "wake"} => task = "kt"
    /\ loader = "unwind" => task = (IF err THEN "none" ELSE "err")
    /\ loader \in {"live"} \cup ExitPhases => task # "none"
    /\ err => loader \in {"unwind", "failed"} /\ task = "none"
    /\ loader = "failed" => err

(* What is registered is a prefix of Steps, as long as it is being built up *)
(* or undone.                                                               *)
ResInv ==
    /\ loader \in {"insmod", "create", "unwind"} => res = Prefix(k)
    /\ loader = "insmod" \/ (loader = "unwind" /\ err) => k < 4
    /\ loader = "create" => k = 4
    /\ loader = "failed" => k = 0 /\ res = {}

(* Before the node exists nobody can have opened it. *)
UserInv ==
    /\ loader = "insmod" \/ err => AllClosed
    /\ loader \in ExitPhases => AllClosed

LoadInv == TypeOK /\ TaskInv /\ ResInv /\ UserInv

(* Without STOP the thread ends only when cd_exit has told it to, and the   *)
(* device is complete until cd_exit has seen the thread end.                *)
UnstoppedInv ==
    /\ task_state # "stop"
    /\ should_stop => loader \in {"join", "teardown", "gone"}
    /\ pc \in {"end", "dead"} => should_stop
    /\ loader \in {"teardown", "gone"} => pc = "dead"
    /\ task = "kt" /\ loader # "gone" => k \in 1 .. 4 /\ res = Prefix(k)
    /\ task = "kt" /\ loader \notin {"teardown", "gone"} => k = 4
    /\ oops => task # "kt"

StopInv == NeverStopped => UnstoppedInv

IInv == LoadInv /\ StopInv

-----------------------------------------------------------------------------
(* Adding the next registration, and undoing the last one. *)
LEMMA PrefixLemma ==
    /\ Len(Steps) = 4
    /\ Prefix(0) = {}
    /\ \A n \in 0 .. 4 : Prefix(n) \subseteq {"region", "class", "cdev", "device"}
    /\ \A n \in 0 .. 3 : /\ Steps[n + 1] \in {"region", "class", "cdev", "device"}
                         /\ Prefix(n) \cup {Steps[n + 1]} = Prefix(n + 1)
                         /\ "device" \notin Prefix(n)
    /\ \A n \in 1 .. 4 : /\ Steps[n] \in Prefix(n)
                         /\ Prefix(n) \ {Steps[n]} = Prefix(n - 1)
<1>1. /\ Prefix(0) = {}
      /\ Prefix(1) = {"region"}
      /\ Prefix(2) = {"region", "class"}
      /\ Prefix(3) = {"region", "class", "cdev"}
      /\ Prefix(4) = {"region", "class", "cdev", "device"}
  <2>1. /\ 1 .. 0 = {} /\ 1 .. 1 = {1} /\ 1 .. 2 = {1, 2}
        /\ 1 .. 3 = {1, 2, 3} /\ 1 .. 4 = {1, 2, 3, 4}
    OBVIOUS
  <2> QED
    BY <2>1 DEF Prefix, Steps
<1>2. /\ Len(Steps) = 4
      /\ Steps[1] = "region" /\ Steps[2] = "class" /\ Steps[3] = "cdev" /\ Steps[4] = "device"
  BY DEF Steps
<1>3. /\ \A n \in 0 .. 4 : n = 0 \/ n = 1 \/ n = 2 \/ n = 3 \/ n = 4
      /\ 0 + 1 = 1 /\ 1 + 1 = 2 /\ 2 + 1 = 3 /\ 3 + 1 = 4
      /\ 1 - 1 = 0 /\ 2 - 1 = 1 /\ 3 - 1 = 2 /\ 4 - 1 = 3
  OBVIOUS
<1> QED
  BY <1>1, <1>2, <1>3

(* The part of the invariant that holds whatever is written, one action at  *)
(* a time.                                                                  *)
LEMMA LoadInvInit == Init => LoadInv
<1> SUFFICES ASSUME Init PROVE LoadInv
  OBVIOUS
<1>1. TypeOK
  <2>1. upc \in [Users -> {"closed", "open", "resume"}]
    BY DEF Init
  <2>2. k \in 0 .. 4 /\ res = {}
    BY DEF Init
  <2> QED
    BY <2>1, <2>2 DEF Init, TypeOK, LoaderPhases, InitPhases, ThreadPhases, States, Commands
<1>2. TaskInv
  BY DEF Init, TaskInv, ExitPhases
<1>3. ResInv
  BY PrefixLemma DEF Init, ResInv
<1>4. UserInv
  BY DEF Init, UserInv, AllClosed
<1> QED
  BY <1>1, <1>2, <1>3, <1>4 DEF LoadInv

LEMMA LoadInvNext == LoadInv /\ [Next]_vars => LoadInv'
<1> SUFFICES ASSUME LoadInv, [Next]_vars
             PROVE  LoadInv'
  OBVIOUS
<1> USE DEF LoadInv, TypeOK, TaskInv, ResInv, UserInv, AllClosed, LoaderPhases,
        InitPhases, ExitPhases, ThreadPhases, States, moduleVars, threadVars,
        commandVars, Commands
<1>1. CASE Register
  <2>0. k \in 0 .. 3 /\ k + 1 \in 0 .. 4 /\ (k + 1 = 4 <=> k = 3)
    BY <1>1 DEF Register
  <2>1. res' \subseteq {"region", "class", "cdev", "device"}
    BY <1>1, <2>0, PrefixLemma DEF Register
  <2>2. TypeOK'
    BY <1>1, <2>0, <2>1 DEF Register
  <2>3. TaskInv'
    BY <1>1, PrefixLemma DEF Register
  <2>4. ResInv'
    <3>1. res = Prefix(k) /\ Prefix(k) \cup {Steps[k + 1]} = Prefix(k + 1)
      BY <1>1, <2>0, PrefixLemma DEF Register
    <3>2. CASE loader' = "unwind"
      BY <1>1, <2>0, <3>1, <3>2, PrefixLemma DEF Register
    <3>3. CASE loader' # "unwind"
      <4>1. k' = k + 1 /\ res' = Prefix(k') /\ err' = FALSE
        BY <1>1, <3>1, <3>3 DEF Register
      <4>2. loader' = IF k' = 4 THEN "create" ELSE "insmod"
        BY <1>1, <3>3, PrefixLemma DEF Register
      <4> QED
        BY <2>0, <4>1, <4>2
    <3> QED
      BY <3>2, <3>3
  <2>5. UserInv'
    BY <1>1 DEF Register
  <2> QED
    BY <2>2, <2>3, <2>4, <2>5
<1>2. CASE Create
  BY <1>2 DEF Create
<1>3. CASE Start
  BY <1>3 DEF Start
<1>4. CASE FirstWake
  <2>1. TypeOK'
    <3>1. asleep' \in BOOLEAN /\ oops' \in BOOLEAN
      BY <1>4 DEF FirstWake, WakeUp
    <3> QED
      BY <1>4, <3>1 DEF FirstWake
  <2>2. TaskInv' /\ ResInv' /\ UserInv'
    BY <1>4 DEF FirstWake
  <2> QED
    BY <2>1, <2>2
<1>5. CASE Unwind
  BY <1>5, PrefixLemma DEF Unwind
<1>6. CASE InitReturns
  BY <1>6, PrefixLemma DEF InitReturns
<1>7. CASE Rmmod
  BY <1>7 DEF Rmmod
<1>8. CASE CdExit
  <2>1. CASE ExitTest
    BY <2>1, PrefixLemma DEF ExitTest
  <2>2. CASE KthreadStop
    <3>1. TypeOK'
      <4>1. asleep' \in BOOLEAN /\ oops' \in BOOLEAN
        BY <2>2 DEF KthreadStop, WakeUp
      <4> QED
        BY <2>2, <4>1 DEF KthreadStop
    <3>2. TaskInv' /\ ResInv' /\ UserInv'
      BY <2>2 DEF KthreadStop
    <3> QED
      BY <3>1, <3>2
  <2>3. CASE Join
    BY <2>3 DEF Join
  <2>4. CASE Teardown
    <3>1. k - 1 \in 0 .. 4 /\ res' \subseteq {"region", "class", "cdev", "device"}
      <4>1. k \in 0 .. 4 /\ k > 0
        BY <2>4 DEF Teardown
      <4>2. res' \subseteq res
        BY <2>4 DEF Teardown
      <4> QED
        BY <4>1, <4>2
    <3>2. oops' \in BOOLEAN
      BY <2>4 DEF Teardown
    <3>3. loader' \in {"teardown", "gone"} /\ loader = "teardown"
      BY <2>4 DEF Teardown
    <3>4. k' = k - 1 /\ UNCHANGED <<err, task, commandVars, should_stop, threadVars, upc>>
      BY <2>4 DEF Teardown
    <3> QED
      BY <3>1, <3>2, <3>3, <3>4
  <2> QED
    BY <1>8, <2>1, <2>2, <2>3, <2>4 DEF CdExit
<1>9. CASE KtCallback
  <2>1. /\ UNCHANGED <<moduleVars, commandVars, should_stop, upc>>
        /\ pc # "none" /\ pc' \in ThreadPhases \ {"none"}
        /\ asleep' \in BOOLEAN /\ oops' \in BOOLEAN
    BY <1>9 DEF KtCallback, Begin, Loop, TestRunning, TestSuspend, TestStop, TestSleep, Nap,
       SetCurrentState, Schedule, DoExit, RunsUnmapped, At, Goto, Mapped
  <2> QED
    BY <2>1
<1>10. ASSUME NEW u \in Users, User(u)
       PROVE  LoadInv'
  <2>1. CASE CdOpen(u)
    <3>1. ~(loader = "insmod" \/ err)
      BY <2>1, PrefixLemma DEF CdOpen
    <3> QED
      BY <2>1, <3>1 DEF CdOpen
  <2>2. CASE CdRelease(u)
    BY <2>2 DEF CdRelease
  <2>3. ASSUME NEW c \in Commands, CdWrite(u, c)
        PROVE  LoadInv'
    BY <2>3 DEF CdWrite
  <2>4. CASE ResumeWake(u)
    <3>1. /\ upc[u] = "open" /\ upc' \in [Users -> {"closed", "open", "resume"}]
          /\ UNCHANGED <<moduleVars, commandVars, should_stop, pc>>
      BY <2>4 DEF ResumeWake
    <3>2. asleep' \in BOOLEAN /\ oops' \in BOOLEAN
      BY <2>4 DEF ResumeWake, WakeUp
    <3> QED
      BY <3>1, <3>2
  <2>5. CASE ResumeSet(u)
    BY <2>5 DEF ResumeSet
  <2> QED
    BY <1>10, <2>1, <2>2, <2>3, <2>4, <2>5 DEF User
<1>11. CASE UNCHANGED vars
  BY <1>11 DEF vars
<1> QED
  BY <1>1, <1>2, <1>3, <1>4, <1>5, <1>6, <1>7, <1>8, <1>9, <1>10, <1>11 DEF Next, CdInit

LEMMA LoadInvariant == Spec => []LoadInv
BY LoadInvInit, LoadInvNext, PTL DEF Spec

(* Type correctness: whatever the users write, every variable keeps its     *)
(* type; cd_write never stores a task_state kt_callback does not know.      *)
THEOREM TypeCorrect == Spec => []TypeOK
<1>1. LoadInv => TypeOK
  BY DEF LoadInv
<1> QED
  BY <1>1, LoadInvariant, PTL

(* cd_init's error labels: a failed insmod leaves no registration, no       *)
(* thread and no open file behind, whichever step failed.                   *)
THEOREM FailedLoadIsClean == Spec => []FailedLoadReleasesAll
<1>1. LoadInv => FailedLoadReleasesAll
  BY DEF LoadInv, TaskInv, ResInv, UserInv, AllClosed, FailedLoadReleasesAll
<1> QED
  BY <1>1, LoadInvariant, PTL

-----------------------------------------------------------------------------
(* Without STOP *)

LEMMA StopInvInit == Init => StopInv
  BY DEF Init, StopInv, UnstoppedInv

(* A command that was written stays written. *)
LEMMA WrittenGrows == [Next]_vars => written \subseteq written'
<1> SUFFICES ASSUME [Next]_vars
             PROVE  written \subseteq written'
  OBVIOUS
<1> USE DEF commandVars
<1>1. CASE CdInit
  BY <1>1 DEF CdInit, Register, Create, Start, FirstWake, Unwind, InitReturns
<1>2. CASE Rmmod \/ CdExit
  BY <1>2 DEF Rmmod, CdExit, ExitTest, KthreadStop, Join, Teardown
<1>3. CASE KtCallback
  BY <1>3 DEF KtCallback, Begin, Loop, TestRunning, TestSuspend, TestStop, TestSleep, Nap,
     SetCurrentState, Schedule, DoExit, RunsUnmapped, Goto
<1>4. ASSUME NEW u \in Users, User(u)
      PROVE  written \subseteq written'
  BY <1>4 DEF User, CdOpen, CdRelease, CdWrite, ResumeWake, ResumeSet
<1>5. CASE UNCHANGED vars
  BY <1>5 DEF vars
<1> QED
  BY <1>1, <1>2, <1>3, <1>4, <1>5 DEF Next

LEMMA StopInvNext ==
    ASSUME LoadInv, StopInv, [Next]_vars
    PROVE  StopInv'
<1> SUFFICES ASSUME NeverStopped'
             PROVE  UnstoppedInv'
  BY DEF StopInv
<1>n. UnstoppedInv
  BY WrittenGrows DEF NeverStopped, StopInv
<1> USE <1>n DEF UnstoppedInv, NeverStopped, moduleVars, threadVars, commandVars
<1>t. TypeOK /\ TaskInv /\ ResInv /\ UserInv
  BY DEF LoadInv
<1>1. CASE Register
  BY <1>1, <1>t DEF Register, TaskInv, TypeOK
<1>2. CASE ~oops /\ Create
  BY <1>2, <1>t DEF Create, TaskInv, ResInv, TypeOK
<1>3. CASE Start
  BY <1>3 DEF Start
<1>4. CASE FirstWake
  BY <1>4, <1>t DEF FirstWake, WakeUp, TaskInv
<1>5. CASE Unwind
  BY <1>5, <1>t DEF Unwind, TaskInv
<1>6. CASE InitReturns
  BY <1>6, <1>t DEF InitReturns, TaskInv
<1>7. CASE Rmmod
  BY <1>7 DEF Rmmod
<1>8. CASE CdExit
  <2>1. CASE ExitTest
    BY <2>1, PrefixLemma DEF ExitTest
  <2>2. CASE KthreadStop
    BY <2>2, <1>t DEF KthreadStop, WakeUp, TaskInv, ExitPhases
  <2>3. CASE Join
    BY <2>3 DEF Join
  <2>4. CASE Teardown
    <3>1. /\ k \in 1 .. 4 /\ res = Prefix(k) /\ task = "kt" /\ pc = "dead"
          /\ loader = "teardown"
      BY <2>4, <1>t DEF Teardown, TaskInv
    <3>2. Steps[k] \in res /\ res \ {Steps[k]} = Prefix(k - 1)
      BY <3>1, PrefixLemma
    <3>3. /\ k' = k - 1 /\ res' = Prefix(k') /\ oops' = FALSE
          /\ loader' = IF k' = 0 THEN "gone" ELSE "teardown"
          /\ UNCHANGED <<err, task, commandVars, should_stop, threadVars, upc>>
      BY <2>4, <3>2 DEF Teardown
    <3>4. k' # 0 => k' \in 1 .. 4
      BY <3>1, <3>3
    <3> QED
      BY <3>1, <3>3, <3>4
  <2> QED
    BY <1>8, <2>1, <2>2, <2>3, <2>4 DEF CdExit
<1>9. CASE KtCallback
  <2>1. ~RunsUnmapped
    BY <1>t DEF RunsUnmapped
  <2>2. UNCHANGED <<moduleVars, commandVars, should_stop, upc, oops>>
    BY <1>9, <2>1 DEF KtCallback, Begin, Loop, TestRunning, TestSuspend, TestStop, TestSleep,
       Nap, SetCurrentState, Schedule, DoExit, At, Goto
  <2>3. pc' \in {"end", "dead"} => should_stop
    BY <1>9, <2>1 DEF KtCallback, Begin, Loop, TestRunning, TestSuspend, TestStop, TestSleep,
       Nap, SetCurrentState, Schedule, DoExit, At, Goto
  <2>4. loader \notin {"teardown", "gone"}
    BY <1>9, <2>1 DEF KtCallback, Begin, Loop, TestRunning, TestSuspend, TestStop, TestSleep,
       Nap, SetCurrentState, Schedule, DoExit, At
  <2> QED
    BY <2>2, <2>3, <2>4
<1>10. ASSUME NEW u \in Users, User(u)
       PROVE  UnstoppedInv'
  <2>1. CASE CdOpen(u)
    BY <2>1 DEF CdOpen
  <2>2. CASE CdRelease(u)
    BY <2>2 DEF CdRelease
  <2>3. ASSUME NEW c \in Commands, CdWrite(u, c)
        PROVE  UnstoppedInv'
    BY <2>3 DEF CdWrite
  <2>4. CASE ResumeWake(u)
    <3>1. loader \notin ExitPhases
      BY <2>4, <1>t DEF ResumeWake, UserInv, AllClosed
    <3>2. pc # "dead"
      BY <3>1 DEF ExitPhases
    <3> QED
      BY <2>4, <3>2 DEF ResumeWake, WakeUp
  <2>5. CASE ResumeSet(u)
    BY <2>5 DEF ResumeSet
  <2> QED
    BY <1>10, <2>1, <2>2, <2>3, <2>4, <2>5 DEF User
<1>11. CASE UNCHANGED vars
  BY <1>11 DEF vars
<1> QED
  BY <1>1, <1>2, <1>3, <1>4, <1>5, <1>6, <1>7, <1>8, <1>9, <1>10, <1>11 DEF Next, CdInit

LEMMA StopInvariant == Spec => []IInv
<1>1. Init => IInv
  BY LoadInvInit, StopInvInit DEF IInv
<1>2. IInv /\ [Next]_vars => IInv'
  BY LoadInvNext, StopInvNext DEF IInv
<1> QED
  BY <1>1, <1>2, PTL DEF Spec

(* As long as STOP has not been written, kthread_stop in cd_exit is always executed and *)
(* waits for the thread, so no thread outlives the module or its devices.   *)
THEOREM UnloadWaitsForThread == Spec => []UnloadLeavesNoThread
<1>1. IInv => UnloadLeavesNoThread
  BY DEF IInv, StopInv, UnstoppedInv, LoadInv, TaskInv, UnloadLeavesNoThread,
        ThreadEndsBeforeUnload
<1> QED
  BY <1>1, StopInvariant, PTL

(* As long as STOP has not been written, the thread is alive at every wake_up_process   *)
(* and kthread_stop of a task that was created.                             *)
THEOREM NoUseOfDeadTask == Spec => []TaskIsAliveWhenUsed
<1>1. IInv => TaskIsAliveWhenUsed
  BY DEF IInv, StopInv, UnstoppedInv, TaskIsAliveWhenUsed
<1> QED
  BY <1>1, StopInvariant, PTL
=============================================================================
