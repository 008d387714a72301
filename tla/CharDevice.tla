----------------------------- MODULE CharDevice -----------------------------
(***************************************************************************)
(* char_device.c and char_device_fops.c: a module that registers a          *)
(* character device in steps and undoes them in the reverse order; the      *)
(* second one with file operations on a buffer all open files share.        *)
(*                                                                          *)
(* Actors are the process in cd_init and cd_exit and the users of the       *)
(* device.  cd_open is two steps, the test of dev->data and the assignment, *)
(* because nothing locks them; a copy from or to user space is one step.    *)
(* A byte is represented by the user who wrote it.                          *)
(*                                                                          *)
(* Abstracted: opens by way of a node made with mknod before device_create, *)
(* what is printed.  One load and at most one unload of one of the two      *)
(* files are followed.                                                      *)
(***************************************************************************)
EXTENDS Integers, FiniteSets

CONSTANTS
    Users,       \* processes that may open /dev/chdev
    DataLimit,   \* data_limit: the size of the buffer
    Nul          \* the byte kzalloc fills it with

ASSUME CharDeviceAssumption ==
    /\ IsFiniteSet(Users)
    /\ DataLimit \in Nat \ {0}
    /\ Nul \notin Users

VARIABLES
    file,      \* which of the two modules is loaded
    loader,    \* the step or the error label cd_init or cd_exit is at
    res,       \* what is registered or allocated
    buffer,    \* cddev_info.data is not NULL
    data,      \* what is in that buffer
    allocated, \* how many buffers kzalloc has returned, counted up to MaxBuffers;
               \* none is ever freed
    upc,       \* where each user is
    pos,       \* the position of each user's file
    written,   \* history: the last byte written at each offset
    raced,     \* history: two calls of cd_open have allocated at the same time
    nomem,     \* history: an allocation has failed
    oops       \* a kernel fault

vars == <<file, loader, res, buffer, data, allocated, upc, pos, written, raced, nomem, oops>>
moduleVars == <<file, loader, res>>
bufferVars == <<buffer, data, allocated>>
historyVars == <<written, raced, nomem>>

Files == {"char_device", "char_device_fops"}

(* None, one and more than one are all that the properties tell apart. *)
MaxBuffers == 2

Offsets == 0 .. DataLimit - 1
Zeroed == [i \in Offsets |-> Nul]
Contents == [Offsets -> Users \cup {Nul}]

InitSteps == {"region", "class", "alloc", "cdev", "device"}
ErrLabels == {"err_cdev", "err_class", "err_chrdev"}
ExitSteps == {"exit_device", "exit_cdev", "exit_class", "exit_region"}
LoaderPhases == InitSteps \cup ErrLabels \cup ExitSteps
                    \cup {"absent", "live", "failed", "unloaded"}

Init ==
    /\ file \in Files
    /\ loader = "absent"
    /\ res = {}
    /\ buffer = FALSE
    /\ data = Zeroed
    /\ allocated = 0
    /\ upc = [u \in Users |-> "closed"]
    /\ pos = [u \in Users |-> 0]
    /\ written = Zeroed
    /\ raced = FALSE
    /\ nomem = FALSE
    /\ oops = FALSE

-----------------------------------------------------------------------------
(* cd_init *)

Insmod ==
    /\ loader = "absent"
    /\ loader' = "region"
    /\ UNCHANGED <<file, res, bufferVars, upc, pos, historyVars, oops>>

(* Only char_device.c allocates its cdev. *)
StepAfter(s) ==
    CASE s = "region" -> "class"
      [] s = "class"  -> IF file = "char_device" THEN "alloc" ELSE "cdev"
      [] s = "alloc"  -> "cdev"
      [] s = "cdev"   -> "device"
      [] s = "device" -> "live"

LabelOfOneLess(s) ==
    CASE s = "region" -> "failed"
      [] s = "class"  -> "err_chrdev"
      [] s = "cdev"   -> "err_class"
      [] s = "device" -> "err_class"

(* The label a failure of step s jumps to. *)
Label(s) ==
    CASE s = "region" -> "failed"
      [] s = "class"  -> "err_chrdev"
      [] s = "cdev"   -> "err_class"
      [] s = "device" -> "err_cdev"

Register ==
    /\ loader \in InitSteps
    /\ res' = res \cup {loader}
    /\ loader' = StepAfter(loader)
    /\ UNCHANGED <<file, bufferVars, upc, pos, historyVars, oops>>

Fail ==
    /\ loader \in InitSteps \ {"alloc"}
    /\ loader' = Label(loader)
    /\ UNCHANGED <<file, res, bufferVars, upc, pos, historyVars, oops>>

(* cdev_alloc returns NULL on failure, which IS_ERR does not catch; the     *)
(* next statement is cdev->owner = THIS_MODULE.                             *)
CdevAllocFails ==
    /\ loader = "alloc"
    /\ nomem' = TRUE
    /\ oops' = TRUE
    /\ UNCHANGED <<moduleVars, bufferVars, upc, pos, written, raced>>

-----------------------------------------------------------------------------
(* The error labels of cd_init, and cd_exit *)

(* cdev_del gives back an allocated cdev as well. *)
Undone(l) ==
    CASE l = "exit_device"                -> {"device"}
      [] l \in {"err_cdev", "exit_cdev"}   -> {"cdev", "alloc"}
      [] l \in {"err_class", "exit_class"} -> {"class"}
      [] l \in {"err_chrdev", "exit_region"} -> {"region"}

LabelAfter(l) ==
    CASE l = "err_cdev"    -> "err_class"
      [] l = "err_class"   -> "err_chrdev"
      [] l = "err_chrdev"  -> "failed"
      [] l = "exit_device" -> "exit_cdev"
      [] l = "exit_cdev"   -> "exit_class"
      [] l = "exit_class"  -> "exit_region"
      [] l = "exit_region" -> "unloaded"

Undo ==
    /\ loader \in ErrLabels \cup ExitSteps
    /\ res' = res \ Undone(loader)
    /\ loader' = LabelAfter(loader)
    /\ UNCHANGED <<file, bufferVars, upc, pos, historyVars, oops>>

RmmodWithoutOwner ==
    /\ loader = "live"
    /\ loader' = "exit_device"
    /\ UNCHANGED <<file, res, bufferVars, upc, pos, historyVars, oops>>

(* An open file holds a reference on .owner, which refuses rmmod. *)
Rmmod ==
    /\ loader = "live"
    /\ \A u \in Users : upc[u] = "closed"
    /\ loader' = "exit_device"
    /\ UNCHANGED <<file, res, bufferVars, upc, pos, historyVars, oops>>

-----------------------------------------------------------------------------
(* The file operations of char_device_fops.c; those of char_device.c are    *)
(* NULL, and an open fails.                                                 *)

OpenUntested(u) ==
    /\ loader = "live"
    /\ file = "char_device_fops"
    /\ upc[u] = "closed"
    /\ upc' = [upc EXCEPT ![u] = "alloc"]
    /\ pos' = [pos EXCEPT ![u] = 0]
    /\ raced' = (raced \/ \E v \in Users : upc[v] = "alloc")
    /\ UNCHANGED <<moduleVars, bufferVars, written, nomem, oops>>

(* cd_open, the test whether there is a buffer *)
Open(u) ==
    /\ loader = "live"
    /\ file = "char_device_fops"
    /\ upc[u] = "closed"
    /\ upc' = [upc EXCEPT ![u] = IF buffer THEN "open" ELSE "alloc"]
    /\ pos' = [pos EXCEPT ![u] = 0]
    /\ raced' = (raced \/ (~buffer /\ \E v \in Users : upc[v] = "alloc"))
    /\ UNCHANGED <<moduleVars, bufferVars, written, nomem, oops>>

(* cd_open, dev->data = kzalloc(...).  It returns NULL on failure, which    *)
(* IS_ERR does not catch: the open succeeds either way.                     *)
Allocate(u) ==
    /\ upc[u] = "alloc"
    /\ upc' = [upc EXCEPT ![u] = "open"]
    /\ data' = Zeroed
    /\ \/ /\ buffer' = TRUE
          /\ allocated' = IF allocated < MaxBuffers THEN allocated + 1 ELSE MaxBuffers
          /\ UNCHANGED nomem
       \/ buffer' = FALSE /\ nomem' = TRUE /\ UNCHANGED allocated
    /\ UNCHANGED <<moduleVars, pos, written, raced, oops>>

(* count, limited to what is left of the buffer *)
Clip(u, count) == IF pos[u] + count > DataLimit THEN DataLimit - pos[u] ELSE count

Counts == 0 .. DataLimit

Transfers(u) == upc[u] = "open" /\ pos[u] <= DataLimit

(* A copy of at least one byte from or to a NULL buffer faults. *)
Faults(u) ==
    /\ Transfers(u)
    /\ pos[u] < DataLimit
    /\ ~buffer
    /\ oops' = TRUE
    /\ UNCHANGED <<moduleVars, bufferVars, upc, pos, historyVars>>

(* cd_read; a copy that fails changes nothing. *)
Read(u, count) ==
    /\ Transfers(u)
    /\ buffer \/ Clip(u, count) = 0
    /\ pos' = [pos EXCEPT ![u] = @ + Clip(u, count)]
    /\ UNCHANGED <<moduleVars, bufferVars, upc, historyVars, oops>>

(* c with n bytes of user u from offset p on *)
Put(c, p, n, u) ==
    [i \in DOMAIN c \cup (p .. p + n - 1) |-> IF i \in p .. p + n - 1 THEN u ELSE c[i]]

Copy(u, n) ==
    /\ data' = Put(data, pos[u], n, u)
    /\ written' = Put(written, pos[u], n, u)

WriteUnclipped(u, count) ==
    /\ Transfers(u)
    /\ buffer \/ count = 0
    /\ Copy(u, count)
    /\ pos' = [pos EXCEPT ![u] = @ + count]
    /\ UNCHANGED <<moduleVars, buffer, allocated, upc, raced, nomem, oops>>

(* cd_write *)
Write(u, count) ==
    /\ Transfers(u)
    /\ buffer \/ Clip(u, count) = 0
    /\ Copy(u, Clip(u, count))
    /\ pos' = [pos EXCEPT ![u] = @ + Clip(u, count)]
    /\ UNCHANGED <<moduleVars, buffer, allocated, upc, raced, nomem, oops>>

(* copy_from_user fails after n bytes: they stay, the position does not     *)
(* move.                                                                    *)
WritePart(u, n) ==
    /\ Transfers(u)
    /\ buffer
    /\ pos[u] + n < DataLimit
    /\ Copy(u, n)
    /\ UNCHANGED <<moduleVars, buffer, allocated, upc, pos, raced, nomem, oops>>

(* default_llseek accepts any position that is not negative; one beyond the *)
(* buffer stands for all.                                                   *)
LSeek(u, p) ==
    /\ upc[u] = "open"
    /\ pos' = [pos EXCEPT ![u] = p]
    /\ UNCHANGED <<moduleVars, bufferVars, upc, historyVars, oops>>

(* Release as if it gave the buffer back. *)
ReleaseFrees(u) ==
    /\ upc[u] = "open"
    /\ upc' = [upc EXCEPT ![u] = "closed"]
    /\ buffer' = FALSE
    /\ UNCHANGED <<moduleVars, data, allocated, pos, historyVars, oops>>

(* cd_release prints the buffer as a string: without a Nul in it, memory    *)
(* behind the buffer is read, which may fault or not.                       *)
Release(u) ==
    /\ upc[u] = "open"
    /\ upc' = [upc EXCEPT ![u] = "closed"]
    /\ IF buffer /\ \A i \in Offsets : data[i] # Nul
         THEN oops' \in BOOLEAN
         ELSE UNCHANGED oops
    /\ UNCHANGED <<moduleVars, bufferVars, pos, historyVars>>

-----------------------------------------------------------------------------
CdInit == Insmod \/ Register \/ Fail \/ CdevAllocFails

User(u) ==
    \/ Open(u) \/ Allocate(u) \/ Faults(u) \/ Release(u)
    \/ \E n \in Counts : Read(u, n) \/ Write(u, n) \/ WritePart(u, n)
    \/ \E p \in 0 .. DataLimit + 1 : LSeek(u, p)

Next == ~oops /\ (CdInit \/ Undo \/ Rmmod \/ \E u \in Users : User(u))

Spec == Init /\ [][Next]_vars

-----------------------------------------------------------------------------
(* Every variable keeps its type: whatever positions and counts the users   *)
(* choose, nothing is written outside the buffer and no read or write moves *)
(* a position past its end.                                                 *)
TypeOK ==
    /\ file \in Files
    /\ loader \in LoaderPhases
    /\ res \subseteq InitSteps
    /\ buffer \in BOOLEAN
    /\ data \in Contents
    /\ allocated \in 0 .. MaxBuffers
    /\ upc \in [Users -> {"closed", "alloc", "open"}]
    /\ pos \in [Users -> 0 .. DataLimit + 1]
    /\ written \in Contents
    /\ raced \in BOOLEAN
    /\ nomem \in BOOLEAN
    /\ oops \in BOOLEAN

(* However far cd_init came, its labels undo what was done, and so does     *)
(* cd_exit: only char_device.c leaves something, the cdev it has allocated  *)
(* and could not add.                                                       *)
LeavesNothingBehind ==
    /\ loader = "failed" => res \subseteq {"alloc"}
    /\ loader = "unloaded" => res = {}

(* There is never more than the one buffer, and each byte that was written  *)
(* stays in it until it is overwritten, though files are opened and closed  *)
(* all the time; unless two first opens have raced.                         *)
BytesSurvive ==
    ~raced => /\ allocated = (IF buffer THEN 1 ELSE 0)
              /\ data = written

(* There are two causes of a fault: an allocation that failed and was not   *)
(* noticed, and a buffer without a terminating Nul that is printed.         *)
OnlyKnownFaults == oops => nomem \/ \A i \in Offsets : written[i] # Nul

-----------------------------------------------------------------------------
(* The life of the module as the kernel sees it; the callbacks are the file *)
(* operations, which may be called while a file is open.                    *)
phaseBar ==
    CASE loader \in {"absent", "failed", "unloaded"} -> "absent"
      [] loader \in InitSteps \cup ErrLabels -> "loading"
      [] loader = "live" -> "live"
      [] loader \in ExitSteps -> "unloading"

Lifetime == INSTANCE ModuleLifetime WITH
    Contexts <- Users,
    phase <- phaseBar,
    memory <- loader \notin {"absent", "region", "failed", "unloaded"},
    busy <- {u \in Users : upc[u] # "closed"}

(* The module keeps the contract of ModuleLifetime: no file is open while   *)
(* the device is taken down.                                                *)
KeepsLifetime == Lifetime!Spec
=============================================================================
