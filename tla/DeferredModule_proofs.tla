------------------------ MODULE DeferredModule_proofs ------------------------
(***************************************************************************)
(* Proofs about DeferredModule, for any choice of the files.  What needs an *)
(* exit function that waits for the callback is claimed of the files that   *)
(* have one (Waits).                                                        *)
(***************************************************************************)
EXTENDS DeferredModule, TLAPS

-----------------------------------------------------------------------------
(* The inductive invariant, in parts *)

(* How far the loader is says whether there is storage and what was started. *)
LoaderInv ==
    /\ mem <=> loader \in {"queue", "start", "live", "cancel", "flush", "destroy", "free"}
    /\ loader \in {"absent", "kmalloc", "queue", "start", "failed"} =>
          pending = "no" /\ cb = "idle" /\ runs = 0

(* A one-shot callback is not started twice. *)
OneShotInv ==
    file \notin Repeating =>
        /\ pending # "no" => runs = 0 /\ cb = "idle"
        /\ runs <= 1
        /\ file = "tasklet" =>
              /\ loader \notin {"queue", "flush", "destroy"}
              /\ loader \in {"live", "cancel"} => pending # "no" \/ runs = 1
              /\ loader \in {"free", "unloaded"} => runs = 1

BaseInv == TypeOK /\ LoaderInv /\ OneShotInv

(* Cancelling leaves nothing queued and nothing running. *)
CancelInv ==
    Waits =>
        /\ loader = "flush" => pending = "no" /\ ~M.rearm
        /\ loader \in {"destroy", "free", "unloaded"} => pending = "no" /\ cb = "idle"
        /\ oops => queue = "null"

-----------------------------------------------------------------------------
(* What the proofs use of the table of files. *)
LEMMA ModuleFacts ==
    ASSUME file \in Files
    PROVE  /\ M.start \in {"armed", "queued"}
           /\ M.cancel \in {"detach", "sync", "kill", "steal"}
           /\ M.rearm \in BOOLEAN /\ M.queue \in BOOLEAN /\ M.heap \in BOOLEAN
           /\ M.cancel = "detach" => file = "timer_repetitive"
           /\ M.cancel = "steal" => ~M.rearm
           /\ M.rearm => file \in Repeating
           /\ file = "tasklet" => ~M.queue /\ M.cancel = "kill"
<1> USE DEF Repeating, M, Module
<1>1. CASE file = "timer"
  BY <1>1 DEF Timer
<1>2. CASE file = "timer_repetitive"
  BY <1>2 DEF TimerRepetitive
<1>3. CASE file = "timer_hr"
  BY <1>3 DEF TimerHr
<1>4. CASE file = "timer_hr_repetitive"
  BY <1>4 DEF TimerHrRepetitive
<1>5. CASE file = "tasklet"
  BY <1>5 DEF Tasklet
<1>6. CASE file = "work_queue_simple"
  BY <1>6 DEF WorkQueueSimple
<1>7. CASE file = "work_queue_delayed"
  BY <1>7 DEF WorkQueueDelayed
<1>8. CASE file = "work_queue_shared"
  BY <1>8 DEF WorkQueueShared
<1> QED
  BY <1>1, <1>2, <1>3, <1>4, <1>5, <1>6, <1>7, <1>8, FilesAssumption DEF AllFiles

LEMMA SameFile ==
    /\ Next => file' = file
    /\ file' = file => M' = M
<1>1. Next => file' = file
  BY DEF Next, ModInit, ModExit, Kernel, Insmod, KMalloc, CreateQueue, Start, Rmmod, Detach,
     CancelSync, Kill, Steal, Flush, DestroyQueue, Free, Expire, Execute, Body, Return, LeftOver
<1>2. file' = file => M' = M
  BY DEF M, Module
<1> QED
  BY <1>1, <1>2

-----------------------------------------------------------------------------
LEMMA BaseInit == Init => BaseInv
<1> SUFFICES ASSUME Init
             PROVE  BaseInv
  OBVIOUS
<1>1. TypeOK
  <2>1. runs \in 0 .. MaxRuns
    BY DEF Init, MaxRuns
  <2>2. loader \in LoaderPhases /\ mem \in BOOLEAN /\ oops \in BOOLEAN
    BY DEF Init, LoaderPhases
  <2> QED
    BY <2>1, <2>2 DEF Init, TypeOK
<1>2. LoaderInv
  BY DEF Init, LoaderInv
<1>3. OneShotInv
  BY DEF Init, OneShotInv
<1> QED
  BY <1>1, <1>2, <1>3 DEF BaseInv

LEMMA BaseNext == BaseInv /\ [Next]_vars => BaseInv'
<1> SUFFICES ASSUME BaseInv, [Next]_vars
             PROVE  BaseInv'
  OBVIOUS
<1> USE DEF BaseInv, TypeOK, LoaderInv, OneShotInv, LoaderPhases, MaxRuns
<1>m. /\ M.start \in {"armed", "queued"}
      /\ M.rearm => file \in Repeating
      /\ file = "tasklet" => ~M.queue /\ M.cancel = "kill"
  BY ModuleFacts
<1>1. CASE ModInit
  <2>1. CASE Insmod
    BY <2>1 DEF Insmod
  <2>2. CASE KMalloc
    BY <2>2, <1>m DEF KMalloc
  <2>3. CASE CreateQueue
    BY <2>3 DEF CreateQueue
  <2>4. CASE Start
    BY <2>4, <1>m DEF Start
  <2> QED
    BY <1>1, <2>1, <2>2, <2>3, <2>4 DEF ModInit
<1>2. CASE Rmmod
  BY <1>2 DEF Rmmod
<1>3. CASE ModExit
  BY <1>3, <1>m DEF ModExit, Detach, CancelSync, Kill, Steal, Flush, DestroyQueue, Free
<1>4. CASE Expire
  <2>1. CASE ~M.queue /\ cb = "idle" /\ Call /\ UNCHANGED oops
    BY <1>4, <2>1 DEF Expire, Call
  <2>2. CASE M.queue /\ pending' = "queued" /\ UNCHANGED <<cb, runs, oops>>
    BY <1>4, <2>2, <1>m DEF Expire
  <2>3. CASE M.queue /\ oops' = TRUE /\ UNCHANGED <<pending, cb, runs>>
    BY <1>4, <2>3 DEF Expire
  <2> QED
    BY <1>4, <2>1, <2>2, <2>3 DEF Expire
<1>5. CASE Execute
  BY <1>5 DEF Execute, Call
<1>6. CASE Body
  BY <1>6, <1>m DEF Body
<1>7. CASE Return
  BY <1>7 DEF Return
<1>8. CASE LeftOver
  BY <1>8 DEF LeftOver
<1>9. CASE UNCHANGED vars
  BY <1>9 DEF vars
<1> QED
  BY <1>1, <1>2, <1>3, <1>4, <1>5, <1>6, <1>7, <1>8, <1>9 DEF Next, Kernel

LEMMA BaseInvariant == Spec => []BaseInv
  BY BaseInit, BaseNext, PTL DEF Spec

(* Type correctness, for all eight files. *)
THEOREM TypeCorrect == Spec => []TypeOK
<1>1. BaseInv => TypeOK
  BY DEF BaseInv
<1> QED
  BY <1>1, BaseInvariant, PTL

(* For all eight files: what is one-shot is called at most once, and        *)
(* tasklet_kill lets the scheduled tasklet run.                             *)
THEOREM OneShotRunsOnce == Spec => []OneShot
<1>1. BaseInv => OneShot
  BY DEF BaseInv, OneShotInv, OneShot, Repeating
<1> QED
  BY <1>1, BaseInvariant, PTL

-----------------------------------------------------------------------------
LEMMA CancelNext ==
    ASSUME BaseInv, CancelInv, [Next]_vars
    PROVE  CancelInv'
<1>f. file' = file
  BY SameFile DEF vars
<1> SUFFICES ASSUME Waits
             PROVE  CancelInv'
  BY <1>f DEF CancelInv, Waits
<1> USE DEF CancelInv, Waits, BaseInv, TypeOK, LoaderInv, LoaderPhases
<1>m. M.cancel # "detach" /\ (M.cancel = "steal" => ~M.rearm)
  BY ModuleFacts
<1>s. M' = M
  BY SameFile DEF vars
<1>1. CASE ModInit /\ ~oops
  <2>1. CASE Insmod
    BY <2>1, <1>s DEF Insmod
  <2>2. CASE KMalloc
    BY <2>2, <1>s DEF KMalloc
  <2>3. CASE CreateQueue
    BY <1>1, <2>3, <1>s DEF CreateQueue
  <2>4. CASE Start
    BY <2>4, <1>s DEF Start
  <2> QED
    BY <1>1, <2>1, <2>2, <2>3, <2>4 DEF ModInit
<1>2. CASE Rmmod
  BY <1>2, <1>s DEF Rmmod
<1>3. CASE ModExit
  BY <1>3, <1>s, <1>m DEF ModExit, Detach, CancelSync, Kill, Steal, Flush, DestroyQueue, Free
<1>4. CASE Expire
  BY <1>4, <1>s DEF Expire, Call
<1>5. CASE Execute
  BY <1>5, <1>s DEF Execute, Call
<1>6. CASE Body
  BY <1>6, <1>s DEF Body
<1>7. CASE Return
  BY <1>7, <1>s DEF Return
<1>8. CASE LeftOver
  BY <1>8 DEF LeftOver
<1>9. CASE UNCHANGED vars
  BY <1>9, <1>s DEF vars
<1> QED
  BY <1>1, <1>2, <1>3, <1>4, <1>5, <1>6, <1>7, <1>8, <1>9 DEF Next, Kernel

LEMMA CancelInvariant == Spec => [](BaseInv /\ CancelInv)
<1>1. Init => CancelInv
  BY DEF Init, CancelInv
<1>2. BaseInv /\ CancelInv /\ [Next]_vars => BaseInv' /\ CancelInv'
  BY BaseNext, CancelNext
<1> QED
  BY <1>1, <1>2, BaseInit, PTL DEF Spec

(* In the seven files that wait, the structure outlives every call of the   *)
(* callback that embeds it, on whichever processor it runs.                 *)
THEOREM MemoryWhileCalled == Spec => []CallbackHasMemory
<1>1. BaseInv /\ CancelInv => CallbackHasMemory
  BY DEF BaseInv, TypeOK, LoaderInv, LoaderPhases, CancelInv, CallbackHasMemory
<1> QED
  BY <1>1, CancelInvariant, PTL

(* Nothing but a missing work queue and timer_repetitive.c can fault. *)
THEOREM FaultsAreKnown == Spec => []OnlyKnownFaults
<1>1. CancelInv => OnlyKnownFaults
  BY DEF CancelInv, OnlyKnownFaults
<1> QED
  BY <1>1, CancelInvariant, PTL

(* The files implement ModuleLifetime: cancelling before kfree is enough    *)
(* for the callback to be over when storage and code go away.               *)
THEOREM ImplementsLifetime == Spec => KeepsLifetime
<1>1. Init => Lifetime!Init
  BY DEF Init, Lifetime!Init, phaseBar
<1>2. BaseInv /\ CancelInv /\ [Next]_vars => [Lifetime!Next]_Lifetime!vars
  <2> SUFFICES ASSUME BaseInv, CancelInv, [Next]_vars
               PROVE  Lifetime!Next \/ UNCHANGED Lifetime!vars
    BY DEF Lifetime!vars
  <2>f. file' = file
    BY SameFile DEF vars
  <2> USE <2>f DEF Lifetime!Next, Lifetime!vars, phaseBar, Waits, BaseInv, TypeOK, LoaderPhases
  <2>1. CASE Insmod
    <3>1. Lifetime!Load
      BY <2>1 DEF Insmod, Lifetime!Load
    <3> QED
      BY <3>1
  <2>2. CASE KMalloc
    <3>1. Lifetime!Allocate \/ Lifetime!LoadFails
      BY <2>2 DEF KMalloc, LoaderInv, Lifetime!Allocate, Lifetime!LoadFails
    <3> QED
      BY <3>1
  <2>3. CASE CreateQueue
    BY <2>3 DEF CreateQueue
  <2>4. CASE Start
    <3>1. Lifetime!LoadSucceeds \/ UNCHANGED Lifetime!vars
      BY <2>4 DEF Start, LoaderInv, Lifetime!LoadSucceeds
    <3> QED
      BY <3>1
  <2>5. CASE Rmmod
    <3>1. Lifetime!BeginUnload
      BY <2>5 DEF Rmmod, Lifetime!BeginUnload
    <3> QED
      BY <3>1
  <2>6. CASE Detach \/ CancelSync \/ Kill \/ Steal \/ Flush \/ DestroyQueue
    BY <2>6 DEF Detach, CancelSync, Kill, Steal, Flush, DestroyQueue
  <2>7. CASE Free
    <3>1. Lifetime!Unload
      BY <2>7 DEF Free, CancelInv, Lifetime!Unload
    <3> QED
      BY <3>1
  <2>8. CASE Expire \/ Execute
    <3>1. Lifetime!Enter("callback") \/ UNCHANGED Lifetime!vars
      BY <2>8 DEF Expire, Execute, Call, Lifetime!Enter
    <3> QED
      BY <3>1
  <2>9. CASE Body
    BY <2>9 DEF Body
  <2>10. CASE Return
    <3>1. Lifetime!Leave("callback") \/ UNCHANGED Lifetime!vars
      BY <2>10 DEF Return, Lifetime!Leave
    <3> QED
      BY <3>1
  <2>11. CASE LeftOver
    BY <2>11 DEF LeftOver
  <2>12. CASE UNCHANGED vars
    BY <2>12 DEF vars
  <2> QED
    BY <2>1, <2>2, <2>3, <2>4, <2>5, <2>6, <2>7, <2>8, <2>9, <2>10, <2>11, <2>12
       DEF Next, ModInit, ModExit, Kernel
<1> QED
  BY <1>1, <1>2, CancelInvariant, PTL DEF Spec, KeepsLifetime, Lifetime!Spec

(* From the refinement, through the contract: no callback that exit waits   *)
(* for executes when the structure or the code of the module is gone.       *)
THEOREM CodeOutlivesCallbacks == Spec => []Lifetime!CallbacksAreCovered
<1> USE DEF Lifetime!StorageInv, Lifetime!CallbacksAreCovered
<1>1. Lifetime!Init => Lifetime!StorageInv
  BY DEF Lifetime!Init
<1>2. Lifetime!StorageInv /\ [Lifetime!Next]_Lifetime!vars => Lifetime!StorageInv'
  BY DEF Lifetime!Next, Lifetime!vars, Lifetime!Load, Lifetime!Allocate, Lifetime!LoadSucceeds,
         Lifetime!LoadFails, Lifetime!Enter, Lifetime!Leave, Lifetime!BeginUnload, Lifetime!Unload
<1>3. Lifetime!StorageInv => Lifetime!CallbacksAreCovered
  OBVIOUS
<1> QED
  BY <1>1, <1>2, <1>3, ImplementsLifetime, PTL DEF KeepsLifetime, Lifetime!Spec
=============================================================================
