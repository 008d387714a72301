------------------------- MODULE ThreadModule_proofs -------------------------
(***************************************************************************)
(* Proofs about ThreadModule, for all seven files and a counter of any      *)
(* width: the locks exclude, a read that counts is current, and the modules *)
(* keep the contract of ModuleLifetime.                                     *)
(***************************************************************************)
EXTENDS ThreadModule, TLAPS

Created == {M.create[i] : i \in 1 .. Len(M.create)}
Stopped == {M.stop[i] : i \in 1 .. Len(M.stop)}

-----------------------------------------------------------------------------
(* The inductive invariant, in parts *)

(* How far the loader is says which threads exist and in what state. *)
LoaderInv ==
    /\ mem <=> loader \in {"create", "wake", "live", "stop", "free", "err_free_mem"}
    /\ loader \in {"create", "wake", "stop"} => k <= Len(M.create)
    /\ loader \in {"absent", "kmalloc"} => k = 1
    /\ loader \in {"absent", "kmalloc"} => \A t \in Tasks : pc[t] = "none"
    /\ loader \in {"create", "err_free_mem", "failed"} =>
          \A t \in Tasks : pc[t] \in {"none", "parked"}
    /\ loader \in {"free", "unloaded"} => \A t \in Tasks : pc[t] \in {"none", "dead"}
    /\ \A t \in Tasks : pc[t] # "none" => t \in Created

(* The threads the loader has, or has not yet, dealt with.                  *)
OrderInv ==
    \A i \in 1 .. Len(M.create) :
        /\ loader = "create" /\ i < k => pc[M.create[i]] = "parked"
        /\ loader = "wake" /\ k <= i => pc[M.create[i]] = "parked"
        /\ loader = "stop" /\ i < k => pc[M.stop[i]] = "dead"

(* Who holds the lock is in the section it protects, and the lock's rule. *)
LockInv ==
    /\ M.lock = "none" =>
          \A t \in Tasks : pc[t] \notin {"lock", "wait", "work", "unlock"}
    /\ \A t \in Tasks : t \in holders <=> InSection(t) /\ ~Optimistic(t)
    /\ \A s, t \in holders : s # t => M.lock = "shared" /\ s \in Readers /\ t \in Readers

(* What a reader has read is the counter, unless its sequence has moved. *)
ReadInv ==
    \A r \in Readers :
        InSection(r) =>
            /\ Optimistic(r) /\ r \notin moved => Writer \notin holders
            /\ pc[r] # "work" /\ ~(Optimistic(r) /\ r \in moved) => shown[r] = variable

IInv == TypeOK /\ LoaderInv /\ OrderInv /\ LockInv /\ ReadInv

-----------------------------------------------------------------------------
(* What the proofs use of the table of files. *)
LEMMA ModuleFacts ==
    ASSUME file \in Files
    PROVE  /\ M.lock \in {"none", "exclusive", "shared", "seqlock"}
           /\ M.sleepsHolding \in BOOLEAN
           /\ M.spinning => ~M.sleepsHolding
           /\ M.lock \in {"none", "seqlock"} => ~M.sleepsHolding
           /\ Len(M.create) \in 1 .. 3
           /\ Len(M.stop) = Len(M.create)
           /\ \A i \in 1 .. Len(M.create) : M.create[i] \in Tasks /\ M.stop[i] \in Tasks
           /\ \A i, j \in 1 .. Len(M.create) : M.create[i] = M.create[j] => i = j
           /\ Created = Stopped
           /\ M.lock # "none" => "task" \notin Created
<1> USE DEF Created, Stopped, Tasks, Readers, Writer
<1>1. 1 .. 1 = {1} /\ 1 .. 2 = {1, 2} /\ 1 .. 3 = {1, 2, 3}
  OBVIOUS
<1>2. CASE file = "kthread_simple"
  <2>1. M = KthreadSimple
    BY <1>2 DEF M, Module
  <2> QED
    BY <1>1, <2>1 DEF KthreadSimple
<1>3. CASE file = "lock_mutex"
  <2>1. M = LockMutex
    BY <1>3 DEF M, Module
  <2> QED
    BY <1>1, <2>1 DEF LockMutex
<1>4. CASE file = "lock_semaphore"
  <2>1. M = LockSemaphore
    BY <1>4 DEF M, Module
  <2> QED
    BY <1>1, <2>1 DEF LockSemaphore
<1>5. CASE file = "lock_spin_lock"
  <2>1. M = LockSpinLock
    BY <1>5 DEF M, Module
  <2> QED
    BY <1>1, <2>1 DEF LockSpinLock
<1>6. CASE file = "lock_rw_spin_lock"
  <2>1. M = LockRwSpinLock
    BY <1>6 DEF M, Module
  <2> QED
    BY <1>1, <2>1 DEF LockRwSpinLock
<1>7. CASE file = "lock_rw_semaphore"
  <2>1. M = LockRwSemaphore
    BY <1>7 DEF M, Module
  <2> QED
    BY <1>1, <2>1 DEF LockRwSemaphore
<1>8. CASE file = "lock_seqlock"
  <2>1. M = LockSeqlock
    BY <1>8 DEF M, Module
  <2> QED
    BY <1>1, <2>1 DEF LockSeqlock
<1> QED
  BY <1>2, <1>3, <1>4, <1>5, <1>6, <1>7, <1>8 DEF Files

LEMMA SameFile ==
    ASSUME file' = file
    PROVE  M' = M /\ Created' = Created /\ Stopped' = Stopped
  BY DEF M, Module, Created, Stopped

(* What the steps of a thread have in common: it is running, it stays       *)
(* itself, and it touches nothing of the loader's.                          *)
LEMMA ThreadStep ==
    ASSUME NEW t \in Tasks, Thread(t), TypeOK
    PROVE  /\ UNCHANGED <<file, loaderVars, should_stop>>
           /\ pc[t] \notin {"none", "parked", "dead"}
           /\ \E l \in ThreadPhases \ {"none", "parked", "woken"} : pc' = [pc EXCEPT ![t] = l]
  BY DEF Thread, Begin, Loop, Wait, Lock, Work, Nap, Retry, Unlock, Return, Goto, loaderVars,
     ThreadPhases, TypeOK

(* NextThread moves on within the list or leaves it. *)
LEMMA NextThreadStep ==
    ASSUME NEW order, Len(order) \in 1 .. 3, k \in 1 .. Len(order),
           NEW label, NextThread(order, label)
    PROVE  /\ k' \in 1 .. 3
           /\ \/ k' = k + 1 /\ k' <= Len(order) /\ loader' = loader
              \/ k = Len(order) /\ k' = 1 /\ loader' = label
<1> DEFINE n == Len(order)
<1>1. n \in 1 .. 3 /\ k \in 1 .. n
  OBVIOUS
<1>2. \/ k < n /\ k' = k + 1 /\ loader' = loader
      \/ ~(k < n) /\ k' = 1 /\ loader' = label
  BY DEF NextThread
<1> HIDE DEF n
<1>3. /\ k' \in 1 .. 3
      /\ \/ k' = k + 1 /\ k' <= n /\ loader' = loader
         \/ k = n /\ k' = 1 /\ loader' = label
  BY <1>1, <1>2
<1> QED
  BY <1>3 DEF n

-----------------------------------------------------------------------------
LEMMA TypeNext ==
    ASSUME TypeOK, LoaderInv, [Next]_vars
    PROVE  TypeOK'
<1> USE DEF loaderVars, dataVars
<1>m. /\ Len(M.create) \in 1 .. 3 /\ Len(M.stop) = Len(M.create)
      /\ \A i \in 1 .. Len(M.create) : M.create[i] \in Tasks /\ M.stop[i] \in Tasks
  BY ModuleFacts DEF TypeOK
<1>1. CASE Insmod \/ KMalloc \/ ErrFreeMem \/ Rmmod \/ Free
  <2>1. loader' \in LoaderPhases /\ mem' \in BOOLEAN
    BY <1>1 DEF Insmod, KMalloc, ErrFreeMem, Rmmod, Free, TypeOK, LoaderPhases
  <2>2. k' \in 1 .. 3
    BY <1>1 DEF Insmod, KMalloc, ErrFreeMem, Rmmod, Free, TypeOK
  <2>3. UNCHANGED <<file, pc, should_stop, holders, dataVars>>
    BY <1>1 DEF Insmod, KMalloc, ErrFreeMem, Rmmod, Free
  <2> QED
    BY <2>1, <2>2, <2>3 DEF TypeOK
<1>2. CASE KthreadCreate
  <2>1. k \in 1 .. Len(M.create) /\ M.create[k] \in Tasks
    BY <1>2, <1>m DEF KthreadCreate, LoaderInv, TypeOK
  <2>2. pc' \in [Tasks -> ThreadPhases]
    BY <1>2, <2>1 DEF KthreadCreate, TypeOK, ThreadPhases
  <2>3. k' \in 1 .. 3 /\ loader' \in LoaderPhases
    <3>1. CASE NextThread(M.create, "wake")
      BY <1>m, <2>1, <3>1, NextThreadStep DEF TypeOK, LoaderPhases
    <3>2. CASE loader' = "err_free_mem" /\ UNCHANGED k
      BY <3>2 DEF TypeOK, LoaderPhases
    <3> QED
      BY <1>2, <3>1, <3>2 DEF KthreadCreate
  <2> QED
    BY <1>2, <2>2, <2>3 DEF KthreadCreate, TypeOK
<1>3. CASE WakeUpProcess
  <2>1. k \in 1 .. Len(M.create) /\ M.create[k] \in Tasks
    BY <1>3, <1>m DEF WakeUpProcess, LoaderInv, TypeOK
  <2>2. pc' \in [Tasks -> ThreadPhases]
    BY <1>3, <2>1 DEF WakeUpProcess, TypeOK, ThreadPhases
  <2>4. k' \in 1 .. 3 /\ loader' \in LoaderPhases
    BY <1>3, <1>m, <2>1, NextThreadStep DEF WakeUpProcess, TypeOK, LoaderPhases
  <2> QED
    BY <1>3, <2>2, <2>4 DEF WakeUpProcess, TypeOK
<1>4. CASE KthreadStop
  <2>1. M.stop[k] \in Tasks
    BY <1>4, <1>m DEF KthreadStop, LoaderInv, TypeOK
  <2> QED
    BY <1>4, <2>1 DEF KthreadStop, TypeOK
<1>5. CASE KthreadStopWait
  <2>1. k \in 1 .. Len(M.stop)
    BY <1>5, <1>m DEF KthreadStopWait, LoaderInv, TypeOK
  <2>2. k' \in 1 .. 3 /\ loader' \in LoaderPhases
    BY <1>5, <1>m, <2>1, NextThreadStep DEF KthreadStopWait, TypeOK, LoaderPhases
  <2> QED
    BY <1>5, <2>2 DEF KthreadStopWait, TypeOK
<1>6. ASSUME NEW t \in Tasks, Thread(t)
      PROVE  TypeOK'
  <2>1. UNCHANGED <<file, loaderVars, should_stop>> /\ pc' \in [Tasks -> ThreadPhases]
    BY <1>6, ThreadStep DEF TypeOK
  <2>2. /\ holders' \subseteq Tasks /\ moved' \subseteq Readers
    BY <1>6 DEF Thread, Begin, Loop, Wait, Lock, Work, Nap, Retry, Unlock, Return, TypeOK
  <2>3. variable' \in 0 .. VarMod - 1 /\ shown' \in [Readers -> 0 .. VarMod - 1]
    <3>1. (variable + 1) % VarMod \in 0 .. VarMod - 1
      BY VarModAssumption DEF TypeOK
    <3>2. CASE Work(t)
      BY <3>1, <3>2 DEF Work, TypeOK
    <3>3. CASE ~Work(t)
      BY <1>6, <3>3 DEF Thread, Begin, Loop, Wait, Lock, Nap, Retry, Unlock, Return, TypeOK
    <3> QED
      BY <3>2, <3>3
  <2> QED
    BY <2>1, <2>2, <2>3 DEF TypeOK
<1>7. CASE UNCHANGED vars
  BY <1>7 DEF vars, TypeOK
<1> QED
  BY <1>1, <1>2, <1>3, <1>4, <1>5, <1>6, <1>7 DEF Next, ModInit, ModExit

-----------------------------------------------------------------------------
LEMMA LoaderNext ==
    ASSUME TypeOK, LoaderInv, OrderInv, [Next]_vars
    PROVE  LoaderInv' /\ OrderInv'
<1> USE DEF loaderVars, dataVars
<1> DEFINE n == Len(M.create)
<1>m. /\ n \in 1 .. 3 /\ Len(M.stop) = n
      /\ \A i \in 1 .. n : M.create[i] \in Tasks /\ M.stop[i] \in Tasks
      /\ \A i, j \in 1 .. n : M.create[i] = M.create[j] => i = j
      /\ \A i \in 1 .. n : M.create[i] \in Created
      /\ \A t \in Created : \E i \in 1 .. n : t = M.stop[i]
  BY ModuleFacts DEF TypeOK, Created, Stopped
<1>f. file' = file
  BY DEF Next, ModInit, ModExit, Insmod, KMalloc, KthreadCreate, WakeUpProcess, ErrFreeMem,
     Rmmod, KthreadStop, KthreadStopWait, Free, Thread, Begin, Loop, Wait, Lock, Work, Nap,
     Retry, Unlock, Return, vars
<1>s. M' = M /\ Created' = Created
  BY <1>f, SameFile
<1>n. 1 <= n
  <2> HIDE DEF n
  <2> QED
    BY <1>m
<1>t. k \in 1 .. 3 /\ pc \in [Tasks -> ThreadPhases]
  BY DEF TypeOK
<1>1. CASE Insmod \/ KMalloc \/ ErrFreeMem \/ Free
  <2>1. LoaderInv'
    BY <1>1, <1>s, <1>n DEF Insmod, KMalloc, ErrFreeMem, Free, LoaderInv
  <2>2. UNCHANGED k /\ (loader' = "create" => k = 1) /\ loader' \notin {"wake", "stop"}
    BY <1>1 DEF Insmod, KMalloc, ErrFreeMem, Free, LoaderInv
  <2>3. OrderInv'
    BY <2>2, <1>s DEF OrderInv
  <2> QED
    BY <2>1, <2>3
<1>2. CASE Rmmod
  <2>1. /\ loader' = "stop" /\ k' = 1 /\ UNCHANGED <<mem, pc>> /\ mem
    BY <1>2 DEF Rmmod, LoaderInv
  <2>2. LoaderInv'
    BY <1>2, <2>1, <1>s, <1>n DEF Rmmod, LoaderInv
  <2>3. OrderInv'
    BY <2>1, <1>s, <1>m DEF OrderInv
  <2> QED
    BY <2>2, <2>3
<1>3. CASE KthreadStop
  BY <1>3, <1>s DEF KthreadStop, LoaderInv, OrderInv
<1>4. CASE KthreadCreate
  <2> DEFINE t == M.create[k]
  <2>1. /\ loader = "create" /\ UNCHANGED mem
        /\ k \in 1 .. n /\ t \in Tasks /\ t \in Created
    BY <1>4, <1>m, <1>t DEF KthreadCreate, LoaderInv
  <2>2. CASE loader' = "err_free_mem" /\ UNCHANGED <<k, pc>>
    BY <2>1, <2>2, <1>s DEF LoaderInv, OrderInv
  <2>3. CASE NextThread(M.create, "wake") /\ pc' = [pc EXCEPT ![t] = "parked"]
    <3>1. /\ k' \in 1 .. 3
          /\ \/ k' = k + 1 /\ k' <= n /\ loader' = "create"
             \/ k = n /\ k' = 1 /\ loader' = "wake"
      BY <1>m, <2>1, <2>3, NextThreadStep
    <3>2. /\ pc'[t] = "parked"
          /\ \A u \in Tasks : u # t => pc'[u] = pc[u]
      BY <2>1, <2>3, <1>t
    <3> HIDE DEF n, t
    <3>3. LoaderInv'
      BY <2>1, <3>1, <3>2, <1>s, <1>m DEF LoaderInv, n
    <3>4. \A i \in 1 .. n : i < k => pc'[M.create[i]] = "parked"
      BY <2>1, <3>2, <1>m DEF OrderInv, n
    <3>5. pc'[M.create[k]] = "parked"
      BY <3>2 DEF t
    <3>6. \A i \in 1 .. n : i < k \/ i = k \/ i > k
      BY <1>t
    <3>7. \A i \in 1 .. n : loader' = "create" /\ i < k' => i < k \/ i = k
      BY <3>1, <1>t
    <3>8. \A i \in 1 .. n : k = n => i < k \/ i = k
      BY <1>t
    <3>9. \A i \in 1 .. n :
              /\ loader' = "create" /\ i < k' => pc'[M.create[i]] = "parked"
              /\ loader' = "wake" => pc'[M.create[i]] = "parked"
              /\ loader' # "stop"
      BY <3>1, <3>4, <3>5, <3>7, <3>8
    <3>10. OrderInv'
      BY <3>9, <1>s DEF OrderInv, n
    <3> QED
      BY <3>3, <3>10
  <2> QED
    BY <1>4, <2>2, <2>3 DEF KthreadCreate
<1>5. CASE WakeUpProcess
  <2> DEFINE t == M.create[k]
  <2>1. /\ loader = "wake" /\ UNCHANGED mem /\ pc' = [pc EXCEPT ![t] = "woken"]
        /\ k \in 1 .. n /\ t \in Tasks /\ t \in Created
    BY <1>5, <1>m, <1>t DEF WakeUpProcess, LoaderInv
  <2>2. /\ k' \in 1 .. 3
        /\ \/ k' = k + 1 /\ k' <= n /\ loader' = "wake"
           \/ k = n /\ k' = 1 /\ loader' = "live"
    BY <1>5, <1>m, <2>1, NextThreadStep DEF WakeUpProcess
  <2>3. \A u \in Tasks : u # t => pc'[u] = pc[u]
    BY <2>1, <1>t
  <2>4. \A i \in 1 .. n : k < i => M.create[i] # t /\ pc[M.create[i]] = "parked"
    BY <2>1, <1>m, <1>t DEF OrderInv
  <2> HIDE DEF n, t
  <2>5. LoaderInv'
    BY <2>1, <2>2, <2>3, <1>s, <1>m DEF LoaderInv, n
  <2>6. \A i \in 1 .. n : loader' = "wake" /\ k' <= i => k < i
    BY <2>2, <1>t
  <2>7. \A i \in 1 .. n : /\ loader' = "wake" /\ k' <= i => pc'[M.create[i]] = "parked"
                         /\ loader' \notin {"create", "stop"}
    BY <2>2, <2>3, <2>4, <2>6, <1>m
  <2>8. OrderInv'
    BY <2>7, <1>s DEF OrderInv, n
  <2> QED
    BY <2>5, <2>8
<1>6. CASE KthreadStopWait
  <2>1. /\ loader = "stop" /\ UNCHANGED <<mem, pc>> /\ k \in 1 .. n
        /\ pc[M.stop[k]] = "dead"
    BY <1>6, <1>t, <1>m DEF KthreadStopWait, LoaderInv
  <2>2. /\ k' \in 1 .. 3
        /\ \/ k' = k + 1 /\ k' <= n /\ loader' = "stop"
           \/ k = n /\ k' = 1 /\ loader' = "free"
    BY <1>6, <1>m, <2>1, NextThreadStep DEF KthreadStopWait
  <2>3. \A i \in 1 .. n : i < k \/ i = k => pc[M.stop[i]] = "dead"
    BY <2>1 DEF OrderInv
  <2> HIDE DEF n
  <2>4. \A i \in 1 .. n : (loader' = "stop" /\ i < k') \/ loader' = "free" => i < k \/ i = k
    BY <2>2, <1>t
  <2>5. \A i \in 1 .. n : (loader' = "stop" /\ i < k') \/ loader' = "free"
                           => pc[M.stop[i]] = "dead"
    BY <2>3, <2>4
  <2>6. OrderInv'
    BY <2>1, <2>2, <2>5, <1>s DEF OrderInv, n
  <2>7. loader' = "free" => \A u \in Tasks : pc[u] \in {"none", "dead"}
    BY <2>5, <1>m DEF LoaderInv
  <2>8. LoaderInv'
    BY <2>1, <2>2, <2>7, <1>s DEF LoaderInv, n
  <2> QED
    BY <2>6, <2>8
<1>7. ASSUME NEW t \in Tasks, Thread(t)
      PROVE  LoaderInv' /\ OrderInv'
  <2>1. UNCHANGED <<loader, k, mem>> /\ pc[t] \notin {"none", "parked", "dead"}
    BY <1>7, ThreadStep
  <2>2. \A u \in Tasks : u # t => pc'[u] = pc[u]
    BY <1>7, <1>t, ThreadStep
  <2>3. loader \in {"wake", "live", "stop"} /\ t \in Created
    BY <2>1 DEF LoaderInv, TypeOK, LoaderPhases
  <2>4. \A u \in Tasks : pc[u] \in {"parked", "dead"} => pc'[u] = pc[u]
    BY <2>1, <2>2
  <2>5. LoaderInv'
    BY <2>1, <2>2, <2>3, <1>s DEF LoaderInv
  <2>6. OrderInv'
    BY <2>1, <2>3, <2>4, <1>s, <1>m DEF OrderInv
  <2> QED
    BY <2>5, <2>6
<1>8. CASE UNCHANGED vars
  BY <1>8, <1>s DEF vars, LoaderInv, OrderInv
<1> QED
  BY <1>1, <1>2, <1>3, <1>4, <1>5, <1>6, <1>7, <1>8 DEF Next, ModInit, ModExit

-----------------------------------------------------------------------------
(* The loader moves threads between the states they are in before their     *)
(* callback, and touches neither the lock nor the data.                     *)
LEMMA LoaderStep ==
    ASSUME TypeOK, LoaderInv, OrderInv, ModInit \/ Rmmod \/ ModExit
    PROVE  /\ UNCHANGED <<file, holders, variable, shown, moved>>
           /\ \A t \in Tasks : \/ pc'[t] = pc[t]
                              \/ {pc[t], pc'[t]} \subseteq {"none", "parked", "woken"}
<1>1. UNCHANGED <<file, holders, variable, shown, moved>>
  BY DEF ModInit, ModExit, Insmod, KMalloc, KthreadCreate, WakeUpProcess, ErrFreeMem, Rmmod,
     KthreadStop, KthreadStopWait, Free, dataVars
<1>m. /\ Len(M.create) \in 1 .. 3
      /\ \A i \in 1 .. Len(M.create) : M.create[i] \in Tasks
  BY ModuleFacts DEF TypeOK
<1>2. CASE KthreadCreate
  <2>1. /\ \A t \in Tasks : pc[t] \in {"none", "parked"}
        /\ k \in 1 .. Len(M.create) /\ M.create[k] \in Tasks
    BY <1>2, <1>m DEF KthreadCreate, LoaderInv, TypeOK
  <2> QED
    BY <1>1, <1>2, <2>1 DEF KthreadCreate, TypeOK
<1>3. CASE WakeUpProcess
  <2>1. k \in 1 .. Len(M.create) /\ M.create[k] \in Tasks
    BY <1>3, <1>m DEF WakeUpProcess, LoaderInv, TypeOK
  <2>2. k <= k
    BY DEF TypeOK
  <2>3. pc[M.create[k]] = "parked"
    BY <1>3, <2>1, <2>2 DEF WakeUpProcess, OrderInv
  <2> QED
    BY <1>1, <1>3, <2>1, <2>3 DEF WakeUpProcess, TypeOK
<1>4. CASE ~KthreadCreate /\ ~WakeUpProcess
  BY <1>1, <1>4 DEF ModInit, ModExit, Insmod, KMalloc, ErrFreeMem, Rmmod, KthreadStop,
     KthreadStopWait, Free
<1> QED
  BY <1>2, <1>3, <1>4

(* The lock is taken and left exactly at the borders of the section. *)
LEMMA LockNext ==
    ASSUME TypeOK, LoaderInv, OrderInv, LockInv, [Next]_vars
    PROVE  LockInv'
<1>1. CASE ModInit \/ Rmmod \/ ModExit
  <2>1. M' = M
    BY <1>1, LoaderStep, SameFile
  <2> QED
    BY <1>1, <2>1, LoaderStep DEF LockInv, InSection, Optimistic
<1>2. ASSUME NEW t \in Tasks, Thread(t)
      PROVE  LockInv'
  <2>1. file' = file /\ pc \in [Tasks -> ThreadPhases] /\ M' = M
    BY <1>2, ThreadStep, SameFile DEF TypeOK
  <2>2. M.lock \in {"none", "seqlock"} => ~M.sleepsHolding
    BY ModuleFacts DEF TypeOK
  <2> USE DEF LockInv, InSection, Optimistic, Goto
  <2>3. CASE Begin(t) \/ Loop(t) \/ Wait(t) \/ Work(t) \/ Nap(t) \/ Return(t)
    <3>1. holders' = holders
      BY <2>3 DEF Begin, Loop, Wait, Work, Nap, Return
    <3>2. \E l \in ThreadPhases :
             /\ pc' = [pc EXCEPT ![t] = l]
             /\ M.lock = "none" => l \notin {"lock", "wait", "work", "unlock"}
             /\ \/ pc[t] \in {"work", "unlock"} \/ (pc[t] = "nap" /\ M.sleepsHolding)
                <=> l \in {"work", "unlock"} \/ (l = "nap" /\ M.sleepsHolding)
      BY <2>1, <2>2, <2>3 DEF Begin, Loop, Wait, Work, Nap, Return, ThreadPhases
    <3> QED
      BY <2>1, <3>1, <3>2
  <2>4. CASE Lock(t)
    <3>1. /\ pc' = [pc EXCEPT ![t] = "work"] /\ pc[t] \in {"lock", "wait"}
          /\ holders' = IF Optimistic(t) THEN holders ELSE holders \cup {t}
          /\ M.lock # "none"
      BY <2>4 DEF Lock
    <3>2. \A s \in holders : s \in Tasks /\ s # "task" /\ t # "task"
      BY <3>1, ModuleFacts DEF LoaderInv, TypeOK
    <3>3. ~Optimistic(t) => \A s \in holders : M.lock = "shared" /\ s \in Readers /\ t \in Readers
      BY <2>4, <3>2 DEF Lock, MayLock, Tasks
    <3> QED
      BY <2>1, <3>1, <3>3 DEF TypeOK
  <2>5. CASE Retry(t)
    BY <2>1, <2>2, <2>5 DEF Retry
  <2>6. CASE Unlock(t)
    BY <2>1, <2>2, <2>6 DEF Unlock
  <2> QED
    BY <1>2, <2>3, <2>4, <2>5, <2>6 DEF Thread
<1>3. CASE UNCHANGED vars
  <2>1. M' = M
    BY <1>3, SameFile DEF vars
  <2> QED
    BY <1>3, <2>1 DEF vars, LockInv, InSection, Optimistic
<1> QED
  BY <1>1, <1>2, <1>3 DEF Next

(* Only the writer changes the counter, and then no reader's read counts. *)
LEMMA ReadNext ==
    ASSUME TypeOK, LoaderInv, OrderInv, LockInv, ReadInv, [Next]_vars
    PROVE  ReadInv'
<1>1. CASE ModInit \/ Rmmod \/ ModExit
  <2>1. M' = M
    BY <1>1, LoaderStep, SameFile
  <2>2. \A r \in Readers : r \in Tasks
    BY DEF Tasks
  <2> QED
    BY <1>1, <2>1, <2>2, LoaderStep DEF ReadInv, InSection, Optimistic
<1>2. ASSUME NEW t \in Tasks, Thread(t)
      PROVE  ReadInv'
  <2>1. file' = file /\ pc \in [Tasks -> ThreadPhases] /\ M' = M
    BY <1>2, ThreadStep, SameFile DEF TypeOK
  <2>2. \A r \in Readers : r \in Tasks /\ r # Writer
    BY DEF Tasks, Readers, Writer
  <2>3. M.lock \in {"none", "seqlock"} => ~M.sleepsHolding
    BY ModuleFacts DEF TypeOK
  <2> USE DEF ReadInv, InSection, Optimistic, Goto
  <2>4. CASE Begin(t) \/ Loop(t) \/ Wait(t) \/ Nap(t) \/ Return(t) \/ Retry(t)
    <3>1. UNCHANGED <<holders, variable, shown, moved>>
      BY <2>4 DEF Begin, Loop, Wait, Nap, Return, Retry, dataVars
    <3>2. \E l \in ThreadPhases :
             /\ pc' = [pc EXCEPT ![t] = l]
             /\ l \in {"work", "unlock"} \/ (l = "nap" /\ M.sleepsHolding)
                => /\ \/ pc[t] \in {"work", "unlock"} \/ (pc[t] = "nap" /\ M.sleepsHolding)
                   /\ pc[t] # "work"
      BY <2>1, <2>3, <2>4 DEF Begin, Loop, Wait, Nap, Return, Retry, ThreadPhases
    <3> QED
      BY <2>1, <2>2, <3>1, <3>2
  <2>5. CASE Lock(t)
    <3>1. /\ pc' = [pc EXCEPT ![t] = "work"] /\ UNCHANGED <<variable, shown>>
          /\ pc[t] \in {"lock", "wait"}
          /\ holders' = IF Optimistic(t) THEN holders ELSE holders \cup {t}
          /\ moved' = IF t = Writer THEN Readers ELSE moved \ {t}
          /\ M.lock = "seqlock" => holders = {}
      BY <2>5 DEF Lock, MayLock
    <3>2. ASSUME NEW r \in Readers, InSection(r)'
          PROVE  /\ (Optimistic(r) /\ r \notin moved => Writer \notin holders)'
                 /\ (pc[r] # "work" /\ ~(Optimistic(r) /\ r \in moved) => shown[r] = variable)'
      <4>1. CASE r = t
        BY <2>1, <2>2, <3>1, <3>2, <4>1
      <4>2. CASE r # t /\ t = Writer
        <5>1. InSection(r) /\ pc'[r] = pc[r]
          BY <2>1, <2>2, <3>1, <3>2, <4>2
        <5>2. ~Optimistic(r) => r \in holders
          BY <2>2, <5>1 DEF LockInv
        <5>3. ~Optimistic(r) => FALSE
          BY <2>2, <2>5, <4>2, <5>2 DEF Lock, MayLock
        <5> QED
          BY <2>1, <3>1, <4>2, <5>3
      <4>3. CASE r # t /\ t # Writer
        BY <2>1, <2>2, <3>1, <3>2, <4>3
      <4> QED
        BY <4>1, <4>2, <4>3
    <3> QED
      BY <3>2
  <2>6. CASE Work(t)
    <3>1. CASE t = Writer
      <4>1. Writer \in holders
        BY <2>6, <3>1 DEF Work, LockInv, Tasks, Writer, Readers
      <4>2. \A r \in Readers : InSection(r) => Optimistic(r) /\ r \in moved
        BY <2>2, <4>1 DEF LockInv
      <4> QED
        BY <2>1, <2>2, <2>6, <3>1, <4>2 DEF Work
    <3>2. CASE t # Writer
      BY <2>1, <2>2, <2>6, <3>2 DEF Work, TypeOK
    <3> QED
      BY <3>1, <3>2
  <2>7. CASE Unlock(t)
    BY <2>1, <2>2, <2>3, <2>7 DEF Unlock
  <2> QED
    BY <1>2, <2>4, <2>5, <2>6, <2>7 DEF Thread
<1>3. CASE UNCHANGED vars
  <2>1. M' = M
    BY <1>3, SameFile DEF vars
  <2> QED
    BY <1>3, <2>1 DEF vars, ReadInv, InSection, Optimistic
<1> QED
  BY <1>1, <1>2, <1>3 DEF Next

-----------------------------------------------------------------------------
LEMMA InitIInv == Init => IInv
<1> SUFFICES ASSUME Init PROVE IInv
  OBVIOUS
<1>1. TypeOK
  <2>1. 0 \in 0 .. VarMod - 1
    BY VarModAssumption
  <2>2. pc \in [Tasks -> ThreadPhases]
    BY DEF Init, ThreadPhases
  <2>3. shown \in [Readers -> 0 .. VarMod - 1] /\ variable \in 0 .. VarMod - 1
    BY <2>1 DEF Init
  <2>4. loader \in LoaderPhases /\ k \in 1 .. 3
    BY DEF Init, LoaderPhases
  <2> QED
    BY <2>2, <2>3, <2>4 DEF Init, TypeOK
<1>2. \A t \in Tasks : pc[t] = "none"
  BY DEF Init
<1>3. LoaderInv /\ OrderInv
  BY <1>2 DEF Init, LoaderInv, OrderInv
<1>4. \A r \in Readers : r \in Tasks
  BY DEF Tasks
<1>5. LockInv /\ ReadInv
  BY <1>2, <1>4 DEF Init, LockInv, ReadInv, InSection
<1> QED
  BY <1>1, <1>3, <1>5 DEF IInv

LEMMA Invariant == Spec => []IInv
<1>1. IInv /\ [Next]_vars => IInv'
  BY TypeNext, LoaderNext, LockNext, ReadNext DEF IInv
<1> QED
  BY InitIInv, <1>1, PTL DEF Spec

(* Type correctness, in particular of the counter and of the copies of it.  *)
THEOREM TypeCorrect == Spec => []TypeOK
<1>1. IInv => TypeOK
  BY DEF IInv
<1> QED
  BY <1>1, Invariant, PTL

(* In none of the seven modules does a thread run without the structure its *)
(* callback dereferences.                                                   *)
THEOREM MemoryWhileRunning == Spec => []CallbackHasMemory
<1>1. IInv => CallbackHasMemory
  <2> SUFFICES ASSUME IInv, NEW t \in Tasks, InCallback(t)
               PROVE  mem
    BY DEF CallbackHasMemory
  <2>1. pc[t] \notin {"none", "parked", "dead"}
    BY DEF InCallback
  <2> QED
    BY <2>1 DEF IInv, LoaderInv, TypeOK, LoaderPhases
<1> QED
  BY <1>1, Invariant, PTL

(* After rmmod every thread has exited, and after a failed insmod none ever *)
(* started.                                                                 *)
THEOREM UnloadEndsThreads == Spec => []NoThreadLeftRunning
<1>1. IInv => NoThreadLeftRunning
  BY DEF IInv, LoaderInv, NoThreadLeftRunning
<1> QED
  BY <1>1, Invariant, PTL

(* The six locks keep the writer, and under the exclusive ones the reader,  *)
(* alone in the critical section.                                           *)
THEOREM Exclusion == Spec => []MutualExclusion
<1>1. IInv => MutualExclusion
  <2> SUFFICES ASSUME IInv, NEW s \in Tasks, NEW t \in Tasks, s # t,
                      InSection(s), InSection(t), ~Optimistic(s), ~Optimistic(t)
               PROVE  M.lock = "shared" /\ s \in Readers /\ t \in Readers
    BY DEF MutualExclusion
  <2>1. s \in holders /\ t \in holders
    BY DEF IInv, LockInv
  <2> QED
    BY <2>1 DEF IInv, LockInv
<1> QED
  BY <1>1, Invariant, PTL

(* No thread sleeps while it holds a spinning lock. *)
THEOREM AtomicSectionsDoNotSleep == Spec => []NoSleepInAtomic
<1>1. IInv => NoSleepInAtomic
  <2> SUFFICES ASSUME IInv, M.spinning, NEW t \in holders
               PROVE  pc[t] # "nap"
    BY DEF NoSleepInAtomic
  <2>1. ~M.sleepsHolding
    BY ModuleFacts DEF IInv, TypeOK
  <2>2. InSection(t)
    BY DEF IInv, LockInv, TypeOK
  <2> QED
    BY <2>1, <2>2 DEF InSection
<1> QED
  BY <1>1, Invariant, PTL

(* A read that is not retried shows the present value of the counter; for   *)
(* the seqlock this is what read_seqretry is for.                           *)
THEOREM ReadsAreCurrent == Spec => ReadIsCurrent
<1>1. IInv /\ [Next]_vars => [\A t \in Readers : Unlock(t) => shown[t] = variable]_vars
  <2> SUFFICES ASSUME IInv, NEW t \in Readers, Unlock(t)
               PROVE  shown[t] = variable
    OBVIOUS
  <2>1. InSection(t) /\ pc[t] # "work" /\ ~(Optimistic(t) /\ t \in moved)
    BY DEF Unlock, InSection
  <2> QED
    BY <2>1 DEF IInv, ReadInv
<1> QED
  BY <1>1, Invariant, PTL DEF Spec, ReadIsCurrent

-----------------------------------------------------------------------------
(* The refinement of ModuleLifetime *)

Busy == {t \in Tasks : InCallback(t)}

(* A step of the loader enters and leaves no callback. *)
LEMMA LoaderKeepsBusy ==
    ASSUME IInv, ModInit \/ Rmmod \/ ModExit
    PROVE  Busy' = Busy
  BY LoaderStep DEF IInv, Busy, InCallback

LEMMA NobodyBusy ==
    ASSUME IInv, loader \notin {"wake", "live", "stop"}
    PROVE  Busy = {}
  BY DEF IInv, LoaderInv, TypeOK, LoaderPhases, Busy, InCallback

(* Every file implements ModuleLifetime: storage and code of a module are   *)
(* there as long as any of its threads is in its callback.                  *)
THEOREM ImplementsLifetime == Spec => KeepsLifetime
<1>1. Init => Lifetime!Init
  BY DEF Init, Lifetime!Init, phaseBar, InCallback
<1>2. IInv /\ [Next]_vars => [Lifetime!Next]_Lifetime!vars
  <2> SUFFICES ASSUME IInv, [Next]_vars
               PROVE  Lifetime!Next \/ UNCHANGED Lifetime!vars
    BY DEF Lifetime!vars
  <2> USE DEF Lifetime!Next, Lifetime!vars
  <2>b. Busy = {t \in Tasks : InCallback(t)}
    BY DEF Busy
  <2>1. CASE Insmod
    <3>1. Busy' = Busy
      BY <2>1, LoaderKeepsBusy DEF ModInit
    <3>2. Lifetime!Load
      BY <2>1, <2>b, <3>1 DEF Insmod, Lifetime!Load, phaseBar, Busy
    <3> QED
      BY <3>2
  <2>2. CASE KMalloc
    <3>1. Busy' = Busy /\ Busy = {}
      BY <2>2, LoaderKeepsBusy, NobodyBusy DEF ModInit, KMalloc
    <3>2. Lifetime!Allocate \/ Lifetime!LoadFails
      BY <2>2, <3>1 DEF KMalloc, Lifetime!Allocate, Lifetime!LoadFails, phaseBar, Busy
    <3> QED
      BY <3>2
  <2>3. CASE KthreadCreate
    <3>1. Busy' = Busy /\ mem' = mem
      BY <2>3, LoaderKeepsBusy DEF ModInit, KthreadCreate
    <3>2. phaseBar' = phaseBar
      BY <2>3 DEF KthreadCreate, NextThread, phaseBar
    <3> QED
      BY <3>1, <3>2 DEF Busy
  <2>4. CASE WakeUpProcess
    <3>1. Busy' = Busy /\ mem' = mem /\ mem
      BY <2>4, LoaderKeepsBusy DEF ModInit, WakeUpProcess, IInv, LoaderInv
    <3>2. loader = "wake" /\ loader' \in {"wake", "live"}
      BY <2>4 DEF WakeUpProcess, NextThread
    <3>3. CASE loader' = "wake"
      BY <3>1, <3>2, <3>3 DEF Busy, phaseBar
    <3>4. CASE loader' = "live"
      <4>1. Lifetime!LoadSucceeds
        BY <3>1, <3>2, <3>4 DEF Lifetime!LoadSucceeds, Busy, phaseBar
      <4> QED
        BY <4>1
    <3> QED
      BY <3>2, <3>3, <3>4
  <2>5. CASE ErrFreeMem
    <3>1. Busy' = Busy /\ Busy = {}
      BY <2>5, LoaderKeepsBusy, NobodyBusy DEF ModInit, ErrFreeMem
    <3>2. Lifetime!LoadFails
      BY <2>5, <3>1 DEF ErrFreeMem, Lifetime!LoadFails, Busy, phaseBar
    <3> QED
      BY <3>2
  <2>6. CASE Rmmod
    <3>1. Busy' = Busy
      BY <2>6, LoaderKeepsBusy
    <3>2. Lifetime!BeginUnload
      BY <2>6, <3>1 DEF Rmmod, Lifetime!BeginUnload, Busy, phaseBar
    <3> QED
      BY <3>2
  <2>7. CASE KthreadStop \/ KthreadStopWait
    <3>1. Busy' = Busy /\ mem' = mem
      BY <2>7, LoaderKeepsBusy DEF ModExit, KthreadStop, KthreadStopWait, loaderVars
    <3>2. loader = "stop" /\ loader' \in {"stop", "free"}
      BY <2>7 DEF KthreadStop, KthreadStopWait, NextThread, loaderVars
    <3> QED
      BY <3>1, <3>2 DEF Busy, phaseBar
  <2>8. CASE Free
    <3>1. Busy' = Busy /\ Busy = {}
      BY <2>8, LoaderKeepsBusy, NobodyBusy DEF ModExit, Free
    <3>2. Lifetime!Unload
      BY <2>8, <3>1 DEF Free, Lifetime!Unload, Busy, phaseBar
    <3> QED
      BY <3>2
  <2>9. ASSUME NEW t \in Tasks, Thread(t)
        PROVE  Lifetime!Next \/ UNCHANGED Lifetime!vars
    <3>1. UNCHANGED <<loader, mem>> /\ pc \in [Tasks -> ThreadPhases]
      BY <2>9, ThreadStep DEF loaderVars, IInv, TypeOK
    <3>2. phaseBar' = phaseBar
      BY <3>1 DEF phaseBar
    <3>3. CASE Begin(t)
      <4>1. mem
        BY <3>3 DEF Begin, IInv, LoaderInv, TypeOK, LoaderPhases
      <4>2. Busy' = Busy \/ Busy' = Busy \cup {t}
        BY <3>1, <3>3 DEF Begin, Goto, Busy, InCallback
      <4>3. (UNCHANGED Lifetime!vars) \/ Lifetime!Enter(t)
        BY <3>1, <3>2, <4>1, <4>2 DEF Lifetime!Enter, Busy
      <4> QED
        BY <4>3
    <3>4. CASE Return(t)
      <4>1. t \in Busy /\ Busy' = Busy \ {t}
        BY <3>1, <3>4 DEF Return, Goto, Busy, InCallback
      <4>2. Lifetime!Leave(t)
        BY <3>1, <3>2, <4>1 DEF Lifetime!Leave, Busy
      <4> QED
        BY <4>2
    <3>5. CASE Loop(t) \/ Wait(t) \/ Lock(t) \/ Work(t) \/ Nap(t) \/ Retry(t) \/ Unlock(t)
      <4>1. Busy' = Busy
        BY <3>1, <3>5 DEF Loop, Wait, Lock, Work, Nap, Retry, Unlock, Goto, Busy, InCallback
      <4> QED
        BY <3>1, <3>2, <4>1 DEF Busy
    <3> QED
      BY <2>9, <3>3, <3>4, <3>5 DEF Thread
  <2>10. CASE UNCHANGED vars
    BY <2>10 DEF vars, phaseBar, InCallback
  <2> QED
    BY <2>1, <2>2, <2>3, <2>4, <2>5, <2>6, <2>7, <2>8, <2>9, <2>10 DEF Next, ModInit, ModExit
<1> QED
  BY <1>1, <1>2, Invariant, PTL DEF Spec, KeepsLifetime, Lifetime!Spec

(* From the refinement, through the contract: no thread of any of the files  *)
(* is in its function when the structure or the code of the module is gone. *)
THEOREM CodeOutlivesCallbacks == Spec => []Lifetime!CallbacksAreCovered
<1> USE DEF Lifetime!StorageInv, Lifetime!CallbacksAreCovered
<1>1. Lifetime!Init => Lifetime!StorageInv
  BY DEF Lifetime!Init
<1>2. Lifetime!StorageInv /\ [Lifetime!Next]_Lifetime!vars => Lifetime!StorageInv'
  BY DEF Lifetime!Next, Lifetime!vars, Lifetime!Load, Lifetime!Allocate, Lifetime!LoadSucceeds,
         Lifetime!LoadFails, Lifetime!Enter, Lifetime!Leave, Lifetime!BeginUnload, Lifetime!Unload
<1>3. Lifetime!StorageInv => Lifetime!CallbacksAreCovered
  OBVIOUS
<1> QED
  BY <1>1, <1>2, <1>3, ImplementsLifetime, PTL DEF KeepsLifetime, Lifetime!Spec
=============================================================================
