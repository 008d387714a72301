# A verification development for handy-kernel_modules

The repository is a collection of small, independent Linux kernel modules, one
C file each (two for the notification chain), built for Linux 5.10 on arm64
with preemption, SMP and module unloading.  Each shows one kernel facility.
What can go wrong in them is alike: a module hands callbacks to the kernel
(threads, timers, work items, file operations), the kernel runs them on other
processors at times of its own choosing, and the module must be set up,
stopped and freed around them in the right order, whatever fails half way.

This directory holds TLA+ models of those modules, TLC configurations that
check them, and proofs checked by TLAPS.

    tlc -workers 2 -config ThreadModule_all.cfg MCThreadModule
    tlapm ThreadModule_proofs.tla

`PROJECT.json` lists the components, runs, mutants, theorems and hazards, and
maps every definition to the lines of C it stands for.

## 1. Inventory

A *load* is one `insmod` and at most one `rmmod`.  "Modelled in" names the
module of this directory; section 6 gives the reasons for a dash.

| Component | State | Operations | What is hard | What makes it correct | Modelled in |
|---|---|---|---|---|---|
| `kthread_advanced.c` | registrations, `task`, `task_state`, the thread's own state | init with four registrations and a thread, exit, open, release, read, write of five commands, the thread's loop | four actors share `task_state` and `task` without a lock; lost wake-ups; exit decides by what was *asked* of the thread | no thread outlives the module, no dead task is used, a failed load leaves nothing, RESUME runs, rmmod returns | `KthreadAdvanced` |
| `lock_mutex.c`, `lock_semaphore.c`, `lock_spin_lock.c`, `lock_rw_spin_lock.c`, `lock_rw_semaphore.c`, `lock_seqlock.c` | a `kmalloc`ed structure, a lock, a `u64` counter, two or three threads | init, exit, reader and writer loop | contention, sleeping while holding a lock, optimistic readers, failures in the middle of creating threads, stopping threads one after the other | mutual exclusion, no sleep in an atomic section, no stale read, storage outlives the threads, rmmod returns | `ThreadModule` |
| `kthread_simple.c` | the structure, one thread | init, exit, loop | as above, without lock | storage outlives the thread | `ThreadModule` |
| `timer.c`, `timer_repetitive.c`, `timer_hr.c`, `timer_hr_repetitive.c` | the structure with the timer in it | init, exit, callback | cancelling a timer whose callback is running on another processor, and which starts itself again | storage outlives every callback, one-shot means once, repetitive goes on, rmmod returns | `DeferredModule` |
| `tasklet.c` | a static tasklet | init, exit, callback | rmmod before the tasklet ran | it runs exactly once, and before the code is gone | `DeferredModule` |
| `work_queue_simple.c`, `work_queue_delayed.c`, `work_queue_shared.c` | the structure with the work item, a queue | init, exit, work function (ten seconds) | cancelling work that waits, is queued or is running; a queue that could not be created | as for timers; no NULL queue is used | `DeferredModule` |
| `wait_queue.c` | timer, counter, condition, wait queue | init (waits for the timer's signal), exit, callback | the callback re-arms the timer after it has signalled; `del_timer` does not wait; a signal interrupts the wait | no wake-up is lost, insmod returns, no timer is left when the structure is freed | `WaitQueue` |
| `notify_chain_publisher.c`, `notify_chain_consumer.c` | the chain, a one-shot timer that is started again, its flag, a registration | init and exit of both, register, unregister, notify | two modules with a symbol dependency; a notification walks the chain in softirq while consumers come and go | only loaded code is called, nobody on the chain is skipped, the flags alternate, INIT and EXIT reach nobody, rmmod returns | `NotifyChain` |
| `char_device.c`, `char_device_fops.c` | registrations; a buffer allocated by the first open and shared by all | init, error labels, exit, open, release, read, write, llseek | two first opens at once; positions at and beyond the end of the buffer; copies that fail half way; allocations that fail unnoticed; unwinding | everything registered is undone, no byte is written outside the buffer or lost, no open file in a device that is taken down | `CharDevice` |
| `sysfs_simple.c`, `sysfs_pollable.c`, `sysfs_pollable_user_poll.c` | integers in sysfs, an event counter; a polling program | init, exit, show, store with notify; open, read, poll, read | a store before, between or after the steps of the program; a handler that runs while the file is removed | poll misses no store and is not triggered without one; the kobject is given back after the last handler | `Sysfs` |
| `sysfs_dynamic.c` | an array of allocated attributes | init loop, error labels, exit, show, store | loop bounds, which label frees what, objects freed while their files are there | what is freed and what is not, and what a fault is due to | `Sysfs` |
| `per_cpu_vars.c` | one static and one dynamic per-CPU variable | init, exit | migration between the increments | both variables changed on the same processor | `PerCpuVars` |
| `linked_list.c` | a list of nodes built and deleted in init | init, exit | deleting while traversing; an allocation that fails in between | the list is a ring in both directions at every moment, every node is freed once | `LinkedList` |
| `proc_info.c` | a list with a node for each process | init walks the kernel's process list; exit deletes the nodes | processes fork, exit and are freed, and their memory is handed out again, during a walk without a lock | each process that was there all the time is listed once, unless the walk read a freed one | `LinkedList` |
| `container_of.c` | an array of allocated objects | init, exit | nothing concurrent, one loop | - | - |
| `helloworld.c`, `helloworld_param.c`, `helloworld_probe.c` | none that changes | init, exit | nothing | - | - |
| `Makefile`, `.devcontainer`, `.vscode` | none | build and tooling | - | - | - |

How the parts interact: the C files do not call each other, except that the
consumer of the notification chain uses two symbols of the publisher, and the
user program `sysfs_pollable_user_poll.c` opens a file of `sysfs_pollable.c`.
Every module interacts with the kernel: `insmod` and `rmmod` call init and
exit; the scheduler, the timer interrupt, the softirq and the workers call
callbacks; user processes call file operations.  The contract with the kernel
is the same for all and is the abstract specification `ModuleLifetime`.

## 2. Modules

**`ModuleLifetime`** is the abstract specification.  `phase` is the module as
the kernel sees it, `memory` whether its structure exists, `busy` the contexts
that execute a callback.  `Enter` needs memory, `LoadFails` and `Unload` need
`busy = {}`: storage and code go away only when every callback is over.  It
does not say how that is achieved.

**`ThreadModule`** models the seven modules made of threads.  They are the
same program up to a few choices, so a record per file (`LockMutex`, ...,
`LockSeqlock`, `KthreadSimple`) gives the lock, whether the thread sleeps
inside its critical section, and the order in which threads are created and
stopped; `file` says which module is loaded.  `loader` and `k` are the program
counter of init and exit: one action for `kmalloc`, one for each
`kthread_create`, each `wake_up_process`, each half of each `kthread_stop`,
and one for `kfree`, with each failure as a disjunct.  `pc[t]` is the program counter of a
thread.  The lock is `holders`; `MayLock` is its discipline.  A seqlock reader
never becomes a holder: it notices by `moved` that the sequence has changed
since `read_seqbegin`.  `KeepsLifetime` is the refinement to `ModuleLifetime`.

**`DeferredModule`** models the eight modules that are called back by a timer,
the softirq or a worker.  Again a record per file: is there a queue, how is it
started, does the callback start itself again, and how is it cancelled.  The
four ways to cancel are four actions (`Detach` for `del_timer`, `CancelSync`
for `del_timer_sync` and `hrtimer_cancel`, `Kill` for `tasklet_kill`, `Steal` and
`Flush` for `cancel_work_sync`), with the meaning these functions have in the
kernel while the callback runs.  `pending` and `cb` are separate because a
callback that re-arms itself is running and pending at once.  A fault (`oops`)
ends the behaviour.  `KeepsLifetime` is the refinement to `ModuleLifetime`; it
counts the callbacks the exit function waits for (`Waits`), which is every one
but that of `timer_repetitive.c`.

**`KthreadAdvanced`** models `kthread_advanced.c` one access to shared state at
a time.  `cd_init` is `Register` (four times), `Create`, `Start`, `FirstWake`,
or from any failure `Unwind` down the labels and `InitReturns`, with the
local `err` that decides what insmod returns.  `cd_exit` is `ExitTest`, the two
halves of `kthread_stop`, and `Teardown`.  `kt_callback` is one action per test
of the if-else chain and per statement that can sleep, so the gap between
testing `task_state` and `set_current_state` is there.  RESUME is two actions,
`ResumeWake` and `ResumeSet`, in the code's order.  `WakeUp` on a task that has
exited is a choice: the driver holds no reference, so the storage may or may
not have been freed.  `written` records the commands that were ever stored and
`last` the last one carried out, RESUME with its second statement, so that
properties can say what holds if STOP was not among them, or if nothing came
after a RESUME.

**`NotifyChain`** composes `notify_chain_publisher.c` with any number of modules
like `notify_chain_consumer.c`.  `pub`, `timer`, `cb` and `flag` are the
publisher and its timer, `con[c]` is where a consumer's init or exit is, and
`next` is the linked list itself, from `"head"` to `"end"`.  Two walkers can go
along it: the publisher's init and exit (`loader`) and its timer (`timer`).  A
walk is `BeginWalk`, one `CallNext` for each block, and `EndWalk`; the next
pointer is read before the callback is called, as the kernel's loop does, so a
block may be unlinked between the reading and the call.  `Unregister` unlinks
and notes in `waits` the walkers that `synchronize_rcu` has to outwait;
`Synchronized` is its return.  `PubRmmod` and `ConInsmod` have the guards that
the module loader takes from the exported symbols.  `told` and `due` record
what was said to whom and are read by properties only.  Both modules can be
loaded again and again.  `KeepsLifetime` is the refinement of the publisher to
`ModuleLifetime`.

**`WaitQueue`** models `wait_queue.c`.  `loader` follows `wq_init` through
`kmalloc`, the first `mod_timer` and the expansion of
`wait_event_interruptible` (test, `prepare_to_wait_event`, test, `schedule`,
again), to `del_timer`, and `wq_exit`.  `cb` is the statement of
`timer_callback` that is next; the order of its statements is `After`.  A
pending signal makes `wq_init` leave the wait, and as in the code nobody looks
at the result.  `raced` remembers that `del_timer` met a running callback.

**`CharDevice`** models `char_device.c` and `char_device_fops.c`, which set up a
device in the same steps: `StepAfter` and `Label` are the order of
registration and the labels a failure jumps to, `Undone` and `LabelAfter` what
a label or a line of `cd_exit` undoes.  `cd_open` is two actions, `Open` (the
test of `dev->data`) and `Allocate`, because nothing locks them.  `Read`,
`Write` and `WritePart` (a copy that fails after some bytes) clip the count as
the code does; `LSeek` is `default_llseek`.  A byte is the user who wrote it,
and `written` the contents an ideal device would have.  `KeepsLifetime` is the
refinement to `ModuleLifetime`, with the open files as callbacks.

**`Sysfs`** models `sysfs_simple.c`, `sysfs_pollable.c` and `sysfs_dynamic.c`, and
composes the second with `sysfs_pollable_user_poll.c`.  `loader` follows
`ms_init`, its labels and `ms_exit`; `objs` are the objects of
`sysfs_dynamic.c` that exist; `step[u]` is the statement of a show or store
function a user is at (`StoreSteps`).  `poller` is the program; `news` stands
for the difference between the event counter of the file and the copy that the
program's last read has taken, before the value was read.  Removing the files
lets nobody in (`RemoveGroup`) and waits for those inside (`Drain`).

**`LinkedList`** models the list code of `linked_list.c` and `proc_info.c`, one
call of `list_add_tail` or `list_del` at a time: `next` and `prev` are the
pointers these calls assign, `live` what is allocated, `order` the list as it
should be.  For `proc_info.c` the kernel's process list is part of the state,
and `Fork`, `Exit` and `FreeTask` happen between the steps of `parse`.  Nothing
keeps the process that `parse` stands on: once it is freed (`Freed`), its memory
may be that of a process forked since or hold other data, so the use of it may
fault, and if it does not, `pro->pid` is anything (`PidOf`) and `next_task` goes
to any process or to `init_task` (`NextOf`).  `stale` records that this
happened.  A process that has left the list but is not freed still points to
where it did when it left, as `list_del_rcu` has it.

**`PerCpuVars`** models `per_cpu_vars.c`: `get_cpu_var` switches preemption off,
`ThisCpuInc` runs with it on, `Migrate` is the scheduler.

The `MC` modules define sets for the configurations.  Operators whose name
adds to that of the definition below them (`KthreadStopNoWait`,
`TaskletStolen`, ...) are not part of the model: each is that definition with
a plausible mistake, and `PROJECT.json` says which property notices it.

## 3. Runs

| Run | Configuration | Bounds | Shows |
|---|---|---|---|
| `kthread_advanced` | `KthreadAdvanced_all` | two users, every command | types; a failed load has undone everything; unless STOP was ever written no thread is left when the module is torn down, only a live task is woken or stopped, and RESUME repeated for ever is not without effect for ever; when rmmod returns; STOP ends the thread unless it is suspended |
| `kthread_advanced_lostresume` | `KthreadAdvanced_lostresume` | as above | violated: RESUME, the last command and complete, has no effect though STOP was never written |
| `kthread_advanced_unload` | `KthreadAdvanced_unload` | as above | violated: after STOP the thread can outlive the module |
| `thread_module` | `ThreadModule_all` | all seven files, counter modulo 3 | mutual exclusion, no stale read, refinement of `ModuleLifetime`, rmmod returns |
| `deferred_module` | `DeferredModule_all` | all eight files | what is started is called, one-shot is once, a fault is due to `del_timer` in `timer_repetitive.c` or to a NULL queue and to nothing else, refinement of `ModuleLifetime` by the callbacks that exit waits for, rmmod returns |
| `notify_chain` | `NotifyChain_all` | three consumers, no bound on loads | only loaded code is called, a block that leaves the chain hides no other from a walker, the flags alternate, INIT and EXIT reach nobody, refinement of `ModuleLifetime`, consumers are notified for ever, every rmmod returns |
| `wait_queue` | `WaitQueue_all` | `Limit` 2 | types (no field is used uninitialised), no wake-up is lost, a timer survives `del_timer` only if its callback was running, insmod returns |
| `wait_queue_deleted` | `WaitQueue_deleted` | `Limit` 2 | violated: the timer is not deleted once the queue was signalled |
| `char_device` | `CharDevice_all` | both files, two users, a buffer of three bytes | nothing is written outside the buffer, labels and exit undo what was done, no byte is lost unless two first opens race, the two causes of a fault, refinement of `ModuleLifetime` |
| `sysfs` | `Sysfs_all` | three files, two users and the polling program, three objects, three values | the loop stays in its arrays, what is left behind, the causes of a fault, poll misses no store |
| `linked_list` | `LinkedList_all` | three nodes, three processes | the ring in both directions at every moment; every process that stays is listed once by a walk that read no freed one; only reading a freed process can fault, never the loop that deletes |
| `per_cpu_vars_migrated` | `PerCpuVars_migrated` | two processors | violated: the updates touch several processors |

Properties of `ThreadModule`, `DeferredModule` and `NotifyChain` that are
proved for every value of the constants and would only be repeated by a run are
stated there and in the proof modules, and in no configuration: `TypeOK` of the
three, `CallbackHasMemory` of two, `NoThreadLeftRunning` and `NoSleepInAtomic`.

Bounds.  The threads of `ThreadModule` and the callback of `DeferredModule` are
those of the code, so nothing is left out there.  The counter is a `u64`; it is
computed modulo `VarMod`, 3 in the run, so that it wraps and values before and
after a write still differ.  `runs` is counted up to `MaxRuns` = 2, since only
none, one and more are distinguished.  Two users are enough for one to
interfere with the RESUME of the other; commands are values, not strings.
Three consumers are the least number with which two adjacent blocks leave while
a walker stands on the first and a third is behind them.

`WaitQueue`'s `Limit` is 10 in the code; 2 has calls before, at and after the
limit, and a callback that has passed it stays there, so the counter stops at
`Limit + 1`.  The buffer of `CharDevice` has three bytes: a write can start
within, end within, end at and be cut off at the limit, and a position one past
it (`DataLimit + 1`) stands for all that lie beyond, which read and write treat
alike.  `MaxBuffers` = 2: more than one buffer is a lost one.  `Sysfs` has the
`LENGTH` of the code, 3; the values 0 to 2 are its initial values, and two
different ones are enough to see a change.  Two users are a store that is being
made and another one across it.  `COUNT` is 5 in `linked_list.c`, 3 in the run:
a first, an inner and a last node, and processes that are forked and exit
before, at and behind the walker; each process lives once, and memory that is
handed out again belongs to another process.  A walk that has read a freed
process may go round for ever: it finds memory for `Count` nodes, a bound in
`NodeForTask` that no other walk meets (`RoomForNode`).  With 4 of
each the run takes too long; the proofs hold for any number.  Two processors are
enough to be moved.

One load is followed, except in `NotifyChain`: the storage is fresh on every
load, and what an earlier load left behind shows as a violated invariant of
that load.  Deadlock is not checked, because after rmmod the system stops; in
`NotifyChain` any state without modules may last.

Fairness.  Code that is running goes on running (`WF` of the loader's init and
exit, of each thread, of the kernel's side): the kernel is preemptive and
starves nobody.  `rmmod` and the users' commands are under no fairness.  In
`ThreadModule` the locks are given `SF`: the mutex hands over to its waiters,
the semaphore and the queued spin locks are first come, first served.  Nothing
of the kind is assumed of `read_seqretry`.  In `DeferredModule`
`hrtimer_cancel` of a repetitive timer is given `SF`: the callback runs for
microseconds of a period of two seconds, so one of its retries finds it idle.
The same is assumed of `del_timer_sync` in `NotifyChain`, whose callback comes
back every half second.  `WaitQueue` has `WF` of `wq_init` and of the timer with
its callback; whether a signal comes, or rmmod, is open.  `CharDevice`, `Sysfs`,
`LinkedList` and `PerCpuVars` state safety only and need no fairness.

## 4. Disagreements between the code and what it says

Four have a run with a counterexample (`findings` in `PROJECT.json`).

1. `kthread_advanced.c:193` wakes the thread before it sets `task_state`, and
   `kt_callback` tests `task_state` before it sets its own state: a RESUME can
   be lost.  The transcript in the repository's README shows it happening.
   `ResumeRuns` is about behaviours whose last command is a RESUME, with no STOP
   ever, so a RUNNING that wakes nobody does not violate it.  It holds when both
   orders are exchanged, and fails when only one of them is.
2. `kthread_advanced.c:311` skips `kthread_stop` after STOP although a
   suspended or sleeping thread has not seen it.
3. `wait_queue.c:72` deletes the timer with `del_timer`, which does not wait; the
   callback that has just signalled the queue starts the timer again.  The head
   of the file says the timer is deleted once the queue is signalled.
4. `per_cpu_vars.c:47` increments with preemption enabled; a comment and the
   transcript have one processor updated.

Others are part of the models, and appear as an exception in a property that
passes:

* by the gap of 1, the wake-up of `kthread_stop` can be lost as well and rmmod
  hangs (`ExitCompletes` of `KthreadAdvanced` says when it returns);
* `kthread_advanced.c:272` assigns `ret` where the other branches assign `err`:
  insmod succeeds with everything undone (`Create`, `InitReturns`, `Teardown`);
* `timer_repetitive.c:58` uses `del_timer`, then frees; the `work_queue_*.c`
  files test for an error pointer where the kernel returns NULL
  (`OnlyKnownFaults` of `DeferredModule`);
* `char_device.c` does not notice that `cdev_alloc` failed, and forgets the
  allocated cdev when it cannot be added; `char_device_fops.c` does not notice
  that `kzalloc` failed, never frees its buffer, allocates two when two first
  opens race, and prints the buffer as a string without a terminating NUL
  (`LeavesNothingBehind`, `BytesSurvive` and `OnlyKnownFaults` of `CharDevice`);
* `sysfs_dynamic.c` frees its objects before it removes their files, forgets the
  last one (both loops stop at `LENGTH - 1`) and all of them when the group
  cannot be made, and does not notice that `kasprintf` or
  `kobject_create_and_add` returned NULL; `sysfs_simple.c` and
  `sysfs_pollable.c` do the latter too, where `sysfs_create_group` then refuses
  (`LeavesNothingBehind` and `OnlyKnownFaults` of `Sysfs`).  `ms_exit` uses an
  `idx` it does not declare, so that the file does not compile; it is modelled
  as a local variable.  The transcript in the repository's README shows a file
  `idx3`, but `LENGTH` 3 makes `idx0` to `idx2` only;
* `proc_info.c` walks the process list without `rcu_read_lock` and may sleep
  while it does; it uses processes that were freed (`OnlyKnownFaults` of
  `LinkedList`), and when their memory is another's by then the walk may end
  early: processes that were there all the time are missing although the
  comment above `parse` says "Go through each process".  `EveryProcessListed`
  excepts these walks by `~stale`; without that TLC needs six steps to
  violate it: one process is listed, exits, is freed, and next_task() of its
  memory is init_task;
* `linked_list.c` declares a module parameter for the number of nodes and never
  reads it.

## 5. Proofs

The eight `_proofs` modules prove safety properties for every value of the
constants, of the specification as it is, without further assumptions on what
users do.  Each defines an inductive invariant as a conjunction of named parts,
and proves that it holds initially, that every action keeps it, and that
it implies the property.  Liveness is only model-checked: fairness and `ENABLED`
are out of the prover's reach.

* **`KthreadAdvanced`** (any set of users).  The invariant says how `res` follows
  `k`, and that before `create` there is no task; this gives `TypeCorrect` and
  `FailedLoadIsClean`.  Its second part holds as long as STOP was never
  written: the thread only leaves its loop once `should_stop` is set, and that
  only happens in `kthread_stop`, when no user has the device open.  It gives
  `UnloadWaitsForThread` and `NoUseOfDeadTask`; that the condition is needed is
  what the run `kthread_advanced_unload` shows.
* **`ThreadModule`** (any modulus).  The invariant relates the loader to the
  threads: while it creates, threads are parked; while it wakes, those before
  `k` run; while it stops, those before `k` are dead.  That every thread is in
  the order lists gives `MemoryWhileRunning` and `UnloadEndsThreads`, and from
  them `ImplementsLifetime`.  A second part relates `holders` to the program
  counters and gives `Exclusion` and `AtomicSectionsDoNotSleep`; a third says
  that a reader past its read has shown the current value unless the sequence
  has moved, and gives `ReadsAreCurrent`.
* **`DeferredModule`** (any choice of files).  `LoaderInv` says when there is
  storage and that nothing runs before it is started, `OneShotInv` that what
  was called is not pending again, `CancelInv` that cancelling leaves nothing
  pending and nothing running, except in `timer_repetitive.c`.  They give
  `OneShotRunsOnce`, `MemoryWhileCalled`, `FaultsAreKnown` and
  `ImplementsLifetime`.
* **`NotifyChain`** (any set of consumers).  `ListInv`: pointers of listed blocks
  lead to listed blocks, and no two of them to the same one, so that unlinking
  a block leaves no pointer to it on the chain.  `WalkInv`: what a walker holds
  is listed or has a removal waiting for that walker, and the same is true of
  the block behind an unlinked one, which is why the walker may still go there.
  These give `CallsAreSafe`; `PubInv`, that consumers exist only under a live
  publisher, gives `InitAndExitAreUnheard` and `ImplementsLifetime`.
  `EverybodyHears` and `FlagsAreToldInTurn` need to know what can be reached
  along the chain.  A path has a length, and an argument along it needs
  induction, which the prover has not; `ChainInv` speaks instead of the sets of
  blocks that the next pointers do not lead out of.  A block is reachable if
  every such set with the start has it (`ReachInv`: all that is listed, and the
  end of the chain; `DueInv`: all the timer has yet to tell), and is not if one
  such set without it has the start (`AcyclicInv`: no block from the one
  behind it; `FlagInv`: nobody who was told the flag that is being sent).  A
  registration adds the new block and the end to such a set, a removal adds at
  most the block that is removed, and the lemmas `ClosedAfter` and
  `ClosedBefore` carry a set over each of them in both directions.
  `FlagInv` also says that between two walks nobody on the chain was told
  the flag that comes next, and `FreshInv` that a block which is not registered
  yet leads nowhere.
* **`WaitQueue`** (any limit).  `LoaderInv` says when there is storage and that
  nothing runs before the first `mod_timer`.  `WaitInv` is the property itself
  with what it needs of a signal: only one that is pending leads to the early
  end of the wait.  `RaceInv`: what `del_timer` leaves was running when it was
  called, and so is the cause of every fault.  They give
  `NoWakeUpLost` and `SurvivorsHaveRaced`.
* **`CharDevice`** (any users, any size of the buffer).  `ResInv`: what is
  registered is the function `Held` of the step or label the loader is at.
  `OpenInv`: files are open only while the module is live.  `MemoryInv`: an open
  file has a buffer, unless there was no memory for it.  `BufferInv`: unless
  two first opens have raced, one user at a time allocates, only when there is
  no buffer, and the bytes in it are those written.  `ByteInv` leads to
  the cause of each fault.  They give the theorems about the four invariants of
  the run and `ImplementsLifetime`.
* **`Sysfs`** (any users, `LENGTH`, values).  `ObjsInv`: which objects exist at
  each step, as a function of `idx` in the loop.  `GroupInv` and `HandlerInv`:
  handlers run until the files are removed and drained, and the kobject is
  there as long.  `PollInv`: the program's copy of the event counter differs
  only after a notification, and while it does not, the value shown is the
  current one or somebody is about to notify.  They give `ObjectsAccountedFor`,
  `FaultsAreKnown` and `PollsAreRight`.
* **`LinkedList`** (any number of nodes and of processes).  `OrderInv` and
  `RingInv`: the nodes are numbered as they are added, and the pointers lead
  from each position of `order` to the next and back; `AddKeepsRing` and
  `DeleteKeepsRing` prove it of `list_add_tail` and of `list_del` of the
  first node, and `LoopInv` that `list_for_each_safe` always stands on
  the first node and knows the second.  They give `ListStaysRing`, and with them
  no fault of the module itself, `FaultsAreForeign`.  The walk of `proc_info.c`
  uses closed sets as `NotifyChain` does: `ReachInv`, what has run since the walk
  began is done or can be reached; `AheadInv`, nothing that is done can be
  reached again; `AcyclicInv`, no process can be reached from the one behind
  it, though processes that exited keep their pointers; `BornInv`, the list
  leads to no process that was not forked.  The first two, and that no process
  has two nodes, are stated of walks with `~stale`.  They hold in the list as it is before
  `insmod` because it leads from each process to the next younger one: the lemma
  `SuccessorFacts`, which needs the least member of a set of numbers, taken from
  the library's well-foundedness of the natural numbers.  That no process is met
  twice also bounds `idx` (`RoomForNode`, by an injection of the nodes into the
  processes), so type correctness rests on the walk, and the walk on the
  types: they are one inductive invariant.  It gives `TypeCorrect` and
  `WalkIsComplete`, which promises nothing of a walk that read a freed process.

* **`ModuleLifetime`**.  What the contract promises, `CallbacksAreCovered`, follows
  from it by the invariant `StorageInv`; with the refinement this is
  `CodeOutlivesCallbacks` of `ThreadModule`, `DeferredModule`, `NotifyChain` and
  `CharDevice`: the code of a module is loaded as long as it executes in any
  of the contexts that the refinement names.

The invariants that speak of closed sets were checked by TLC on the instances of
the runs, with the sets bounded by the blocks and the tasks there are, before
they were proved for any number of them.

Only model-checked are the liveness properties: `ExitCompletes` of
`ThreadModule`, `DeferredModule`, `KthreadAdvanced` and `NotifyChain`,
`RetriedResumeRuns`, `StopEnds`, `CallbackIsCalled`, `ConsumersAreNotified` and
`InitReturns`.  Every invariant, action property and refinement that a run
checks and finds true is a theorem.

The assumptions on constants are those the modules name:
`VarModAssumption`, `FilesAssumption`, `ConsumersAssumption`,
`LimitAssumption`, `CharDeviceAssumption`, `SysfsAssumption` and
`CountAssumption`.

## 6. What is not modelled

* `cd_read` and the log throttle of `kthread_advanced.c`; `translate_time`,
  `translate_state` and `show` of `proc_info.c`; the traversals of
  `linked_list.c` that print.  They change no state anything else reads.
* The error returns of `cd_write` in `kthread_advanced.c` (a command that cannot
  be copied or is not a number changes nothing); the names that `kasprintf`
  makes in `sysfs_dynamic.c` (lines 59 and 77), which nothing frees; the order
  in which the files of one sysfs group disappear: `RemoveGroup` is one step.
* `container_of.c`: sequential; init fills an array in one loop and exit frees
  it in another.  That a failure half way leaves the objects before it, and
  that `param_count` is not checked against the size of the array, is visible
  in the loops and needs no exploration.
* `helloworld.c`, `helloworld_param.c`, `helloworld_probe.c`: log messages.
* The Makefile and the development container.
* The text of commands, messages and numbers; durations (a sleep or a timer
  ends at some time); processor memory order (accesses are sequentially
  consistent).  A build of `kt_callback` that keeps `task_state` in a register
  between the tests has fewer behaviours than the model.
* A poll that returns an error in `sysfs_pollable_user_poll.c`; opening a
  character device by a node made with mknod before `device_create`.
* The kernel's functions are modelled by what they promise, and marked external
  in `PROJECT.json`.

## 7. Plan

The components worth a model have one, and the safety properties of the runs
are proved.  What is left are the liveness properties, which need `ENABLED` to
be reasoned about.
