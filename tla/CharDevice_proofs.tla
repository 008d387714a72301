-------------------------- MODULE CharDevice_proofs --------------------------
(***************************************************************************)
(* Proofs about CharDevice, for any users and any size of the buffer.       *)
(***************************************************************************)
EXTENDS CharDevice, TLAPS

-----------------------------------------------------------------------------
(* The inductive invariant, in parts *)

(* What may be held at each step and label. *)
Held(l) ==
    CASE l \in {"class", "exit_region"}             -> {"region"}
      [] l \in {"alloc", "exit_class"}              -> {"region", "class"}
      [] l \in {"cdev", "err_class"}                -> {"region", "class", "alloc"}
      [] l \in {"device", "err_cdev", "exit_cdev"}  -> {"region", "class", "alloc", "cdev"}
      [] l \in {"live", "exit_device"}              -> InitSteps
      [] l = "err_chrdev"                           -> {"region", "alloc"}
      [] l = "failed"                               -> {"alloc"}
      [] OTHER                                      -> {}

ResInv == res \subseteq Held(loader)

(* .owner: files are open only while the module is live. *)
OpenInv == loader # "live" => \A u \in Users : upc[u] = "closed"

(* A file that is open has a buffer, unless there was no memory for it. *)
MemoryInv == ~nomem /\ ~buffer => \A u \in Users : upc[u] # "open"

(* Without a race, one user at a time allocates, and only before anything   *)
(* was written.                                                             *)
BufferInv ==
    ~raced =>
        /\ allocated = (IF buffer THEN 1 ELSE 0)
        /\ data = written
        /\ ~buffer => data = Zeroed
        /\ \A u \in Users : upc[u] = "alloc" => ~buffer
        /\ \A u, v \in Users : upc[u] = "alloc" /\ upc[v] = "alloc" => u = v

(* A byte that is not Nul was written. *)
ByteInv == \A i \in Offsets : data[i] # Nul => written[i] = data[i]

Inv == TypeOK /\ ResInv /\ OpenInv /\ MemoryInv /\ BufferInv /\ ByteInv /\ OnlyKnownFaults

-----------------------------------------------------------------------------
(* What a copy into the buffer does. *)

LEMMA ClipFacts ==
    ASSUME TypeOK, NEW u \in Users, NEW n \in Counts, Transfers(u)
    PROVE  /\ pos[u] \in Nat
           /\ Clip(u, n) \in Nat
           /\ pos[u] + Clip(u, n) <= DataLimit
BY CharDeviceAssumption DEF TypeOK, Counts, Transfers, Clip

(* A copy that stays inside the buffer keeps its type, *)
LEMMA PutType ==
    ASSUME NEW c \in Contents, NEW p \in Nat, NEW n \in Nat, p + n <= DataLimit,
           NEW u \in Users
    PROVE  Put(c, p, n, u) \in Contents
<1>1. DOMAIN c \cup (p .. p + n - 1) = Offsets
  BY CharDeviceAssumption DEF Contents, Offsets
<1>2. \A i \in Offsets : (IF i \in p .. p + n - 1 THEN u ELSE c[i]) \in Users \cup {Nul}
  BY DEF Contents
<1> QED
  BY <1>1, <1>2 DEF Put, Contents

(* changes the same bytes of what is there and of what was written, *)
LEMMA PutBytes ==
    ASSUME NEW c \in Contents, NEW d \in Contents, NEW p \in Nat, NEW n \in Nat,
           p + n <= DataLimit, NEW u \in Users,
           \A i \in Offsets : c[i] # Nul => d[i] = c[i]
    PROVE  \A i \in Offsets : Put(c, p, n, u)[i] # Nul => Put(d, p, n, u)[i] = Put(c, p, n, u)[i]
<1>1. /\ DOMAIN c \cup (p .. p + n - 1) = Offsets
      /\ DOMAIN d \cup (p .. p + n - 1) = Offsets
  BY CharDeviceAssumption DEF Contents, Offsets
<1> QED
  BY <1>1 DEF Put

(* and of no byte nothing. *)
LEMMA PutNothing ==
    ASSUME NEW c \in Contents, NEW p \in Nat, NEW u \in Users
    PROVE  Put(c, p, 0, u) = c
<1>1. p .. p + 0 - 1 = {}
  OBVIOUS
<1>2. DOMAIN c \cup (p .. p + 0 - 1) = DOMAIN c
  BY <1>1
<1> QED
  BY <1>1, <1>2 DEF Put, Contents

(* The two actions that copy into the buffer, and how much. *)
Stores(u) ==
    \E n \in Counts :
        /\ Transfers(u)
        /\ pos[u] \in Nat
        /\ pos[u] + n <= DataLimit
        /\ buffer \/ n = 0
        /\ Copy(u, n)
        /\ pos' \in {pos, [pos EXCEPT ![u] = @ + n]}
        /\ UNCHANGED <<moduleVars, buffer, allocated, upc, raced, nomem, oops>>

LEMMA WritesStore ==
    ASSUME TypeOK, NEW u \in Users, NEW n \in Counts, Write(u, n) \/ WritePart(u, n)
    PROVE  Stores(u)
<1>1. CASE Write(u, n)
  <2>1. Transfers(u)
    BY <1>1 DEF Write
  <2>2. Clip(u, n) \in Counts
    BY <2>1, ClipFacts, CharDeviceAssumption DEF Counts
  <2> QED
    BY <1>1, <2>1, <2>2, ClipFacts DEF Write, Stores
<1>2. CASE WritePart(u, n)
  <2>1. pos[u] \in Nat /\ pos[u] + n <= DataLimit
    BY <1>2, CharDeviceAssumption DEF WritePart, TypeOK, Counts
  <2> QED
    BY <1>2, <2>1 DEF WritePart, Stores
<1> QED
  BY <1>1, <1>2

-----------------------------------------------------------------------------
LEMMA InvInit == Init => Inv
<1> SUFFICES ASSUME Init
             PROVE  Inv
  OBVIOUS
<1>1. Zeroed \in Contents
  BY DEF Zeroed, Contents
<1>2. TypeOK
  <2>1. allocated \in 0 .. MaxBuffers
    BY DEF Init, MaxBuffers
  <2>2. pos \in [Users -> 0 .. DataLimit + 1] /\ upc \in [Users -> {"closed", "alloc", "open"}]
    BY CharDeviceAssumption DEF Init
  <2> QED
    BY <1>1, <2>1, <2>2 DEF Init, TypeOK, LoaderPhases
<1>3. ResInv /\ OpenInv /\ MemoryInv /\ BufferInv /\ ByteInv /\ OnlyKnownFaults
  BY DEF Init, ResInv, Held, OpenInv, MemoryInv, BufferInv, ByteInv, OnlyKnownFaults
<1> QED
  BY <1>2, <1>3 DEF Inv

(* cd_init and cd_exit: what they change are registrations. *)
LEMMA ModuleStep ==
    ASSUME Inv, ~oops, CdInit \/ Undo \/ Rmmod
    PROVE  Inv'
<1> USE DEF Inv, moduleVars, bufferVars, historyVars
<1>1. UNCHANGED <<bufferVars, upc, pos, written, raced>> /\ (oops' => nomem') /\ (nomem => nomem')
  BY DEF CdInit, Insmod, Register, Fail, CdevAllocFails, Undo, Rmmod
<1>2. BufferInv' /\ ByteInv' /\ OnlyKnownFaults' /\ MemoryInv'
  BY <1>1 DEF BufferInv, ByteInv, OnlyKnownFaults, MemoryInv, Offsets, Zeroed
<1>3. OpenInv'
  <2>1. loader' # "live" => loader # "live" \/ Rmmod
    BY DEF CdInit, Insmod, Register, Fail, CdevAllocFails, Undo, InitSteps, ErrLabels, ExitSteps
  <2> QED
    BY <1>1, <2>1 DEF OpenInv, Rmmod
<1>4. loader' \in LoaderPhases /\ res' \subseteq InitSteps /\ file' \in Files
      /\ nomem' \in BOOLEAN /\ oops' \in BOOLEAN
  <2> USE DEF TypeOK, LoaderPhases, InitSteps, ErrLabels, ExitSteps
  <2>1. CASE Insmod \/ CdevAllocFails \/ Rmmod
    BY <2>1 DEF Insmod, CdevAllocFails, Rmmod
  <2>2. CASE Register
    BY <2>2 DEF Register, StepAfter
  <2>3. CASE Fail
    BY <2>3 DEF Fail, Label
  <2>4. CASE Undo
    BY <2>4 DEF Undo, LabelAfter
  <2> QED
    BY <2>1, <2>2, <2>3, <2>4 DEF CdInit
<1>5. TypeOK'
  BY <1>1, <1>4 DEF TypeOK, Contents, Offsets
<1>6. ResInv'
  <2> USE DEF ResInv, Held, InitSteps, ErrLabels, ExitSteps
  <2>1. CASE Insmod \/ CdevAllocFails \/ Rmmod
    BY <2>1 DEF Insmod, CdevAllocFails, Rmmod
  <2>2. CASE Register
    BY <2>2 DEF Register, StepAfter
  <2>3. CASE Fail
    BY <2>3 DEF Fail, Label
  <2>4. CASE Undo
    BY <2>4 DEF Undo, LabelAfter, Undone
  <2> QED
    BY <2>1, <2>2, <2>3, <2>4 DEF CdInit
<1> QED
  BY <1>2, <1>3, <1>5, <1>6

(* The steps of a user, one by one. *)
LEMMA OpenStep ==
    ASSUME Inv, ~oops, NEW u \in Users, Open(u)
    PROVE  Inv'
<1> USE DEF Inv, moduleVars, bufferVars, historyVars, Open
<1>1. TypeOK'
  BY CharDeviceAssumption DEF TypeOK, Contents, Offsets
<1>2. ResInv' /\ OpenInv' /\ MemoryInv' /\ ByteInv' /\ OnlyKnownFaults'
  BY DEF TypeOK, ResInv, Held, OpenInv, MemoryInv, ByteInv, OnlyKnownFaults, Offsets
<1>3. BufferInv'
  BY DEF TypeOK, BufferInv, Zeroed
<1> QED
  BY <1>1, <1>2, <1>3

LEMMA AllocateStep ==
    ASSUME Inv, ~oops, NEW u \in Users, Allocate(u)
    PROVE  Inv'
<1> USE DEF Inv, moduleVars, bufferVars, historyVars, Allocate
<1>1. Zeroed \in Contents
  BY DEF Zeroed, Contents
<1>2. allocated' \in 0 .. MaxBuffers
  BY DEF TypeOK, MaxBuffers
<1>3. TypeOK'
  BY <1>1, <1>2 DEF TypeOK, Contents, Offsets
<1>4. ResInv' /\ OpenInv' /\ MemoryInv' /\ OnlyKnownFaults'
  BY DEF TypeOK, ResInv, Held, OpenInv, MemoryInv, OnlyKnownFaults, Offsets
<1>5. ByteInv'
  BY DEF ByteInv, Zeroed, Offsets
<1>6. BufferInv'
  <2> SUFFICES ASSUME ~raced
               PROVE  BufferInv'
    BY DEF BufferInv
  <2>1. ~buffer /\ allocated = 0 /\ written = Zeroed
    BY DEF BufferInv
  <2>2. allocated' = (IF buffer' THEN 1 ELSE 0)
    BY <2>1 DEF MaxBuffers
  <2>3. \A v \in Users : upc'[v] # "alloc"
    BY DEF BufferInv, TypeOK
  <2> QED
    BY <2>1, <2>2, <2>3 DEF BufferInv, Zeroed, Offsets
<1> QED
  BY <1>3, <1>4, <1>5, <1>6

LEMMA MoveStep ==
    ASSUME Inv, ~oops, NEW u \in Users,
           \/ \E n \in Counts : Read(u, n)
           \/ \E p \in 0 .. DataLimit + 1 : LSeek(u, p)
    PROVE  Inv'
<1> USE DEF Inv, moduleVars, bufferVars, historyVars
<1>1. pos' \in [Users -> 0 .. DataLimit + 1]
  <2>1. CASE \E n \in Counts : Read(u, n)
    <3> PICK n \in Counts : Read(u, n)
      BY <2>1
    <3>1. pos[u] \in Nat /\ Clip(u, n) \in Nat /\ pos[u] + Clip(u, n) <= DataLimit
      BY ClipFacts DEF Read
    <3> QED
      BY <3>1, CharDeviceAssumption DEF Read, TypeOK
  <2>2. CASE \E p \in 0 .. DataLimit + 1 : LSeek(u, p)
    BY <2>2 DEF LSeek, TypeOK
  <2> QED
    BY <2>1, <2>2
<1>2. UNCHANGED <<moduleVars, bufferVars, upc, historyVars, oops>>
  BY DEF Read, LSeek
<1>3. TypeOK'
  BY <1>1, <1>2 DEF TypeOK, Contents, Offsets
<1>4. ResInv' /\ OpenInv' /\ MemoryInv' /\ BufferInv' /\ ByteInv' /\ OnlyKnownFaults'
  BY <1>2 DEF ResInv, Held, OpenInv, MemoryInv, BufferInv, ByteInv, OnlyKnownFaults, Offsets, Zeroed
<1> QED
  BY <1>3, <1>4

LEMMA StoreStep ==
    ASSUME Inv, ~oops, NEW u \in Users, Stores(u)
    PROVE  Inv'
<1> USE DEF Inv, moduleVars
<1> PICK n \in Counts :
        /\ Transfers(u)
        /\ pos[u] \in Nat
        /\ pos[u] + n <= DataLimit
        /\ buffer \/ n = 0
        /\ Copy(u, n)
        /\ pos' \in {pos, [pos EXCEPT ![u] = @ + n]}
        /\ UNCHANGED <<moduleVars, buffer, allocated, upc, raced, nomem, oops>>
  BY DEF Stores
<1>n. n \in Nat
  BY CharDeviceAssumption DEF Counts
<1>1. data \in Contents /\ written \in Contents
  BY DEF TypeOK
<1>2. data' \in Contents /\ written' \in Contents
  BY <1>1, <1>n, PutType DEF Copy
<1>3. pos' \in [Users -> 0 .. DataLimit + 1]
  BY <1>n, CharDeviceAssumption DEF TypeOK
<1>4. TypeOK'
  BY <1>2, <1>3 DEF TypeOK
<1>5. ResInv' /\ OpenInv' /\ MemoryInv' /\ OnlyKnownFaults'
  BY DEF ResInv, Held, OpenInv, MemoryInv, OnlyKnownFaults
<1>6. ByteInv'
  BY <1>1, <1>n, PutBytes DEF ByteInv, Copy, Offsets
<1>7. BufferInv'
  <2>1. n = 0 => data' = data
    BY <1>1, PutNothing DEF Copy
  <2>2. data = written => data' = written'
    BY DEF Copy
  <2> QED
    BY <2>1, <2>2 DEF BufferInv, Zeroed, Offsets
<1> QED
  BY <1>4, <1>5, <1>6, <1>7

LEMMA ReleaseStep ==
    ASSUME Inv, ~oops, NEW u \in Users, Release(u) \/ Faults(u)
    PROVE  Inv'
<1> USE DEF Inv, moduleVars, bufferVars, historyVars
<1>1. UNCHANGED <<moduleVars, bufferVars, pos, historyVars>>
  BY DEF Release, Faults
<1>2. upc' = upc \/ upc' = [upc EXCEPT ![u] = "closed"]
  BY DEF Release, Faults
<1>3. oops' \in BOOLEAN
  BY DEF Release, Faults, TypeOK
<1>4. TypeOK'
  BY <1>1, <1>2, <1>3 DEF TypeOK, Contents, Offsets
<1>5. ResInv' /\ OpenInv' /\ MemoryInv' /\ BufferInv' /\ ByteInv'
  BY <1>1, <1>2 DEF TypeOK, ResInv, Held, OpenInv, MemoryInv, BufferInv, ByteInv, Offsets, Zeroed
<1>6. OnlyKnownFaults'
  <2>1. CASE Faults(u)
    BY <2>1 DEF Faults, Transfers, MemoryInv, OnlyKnownFaults
  <2>2. CASE Release(u)
    <3>1. oops' => \A i \in Offsets : data[i] # Nul
      BY <2>2 DEF Release
    <3> QED
      BY <1>1, <3>1 DEF ByteInv, OnlyKnownFaults, Offsets
  <2> QED
    BY <2>1, <2>2
<1> QED
  BY <1>4, <1>5, <1>6

LEMMA InvStep == Inv /\ [Next]_vars => Inv'
<1> SUFFICES ASSUME Inv, [Next]_vars
             PROVE  Inv'
  OBVIOUS
<1>1. CASE Next
  <2>1. ~oops
    BY <1>1 DEF Next
  <2>2. CASE CdInit \/ Undo \/ Rmmod
    BY <2>1, <2>2, ModuleStep
  <2>3. CASE \E u \in Users : User(u)
    <3> PICK u \in Users : User(u)
      BY <2>3
    <3>1. TypeOK
      BY DEF Inv
    <3>2. (\E n \in Counts : Write(u, n) \/ WritePart(u, n)) => Stores(u)
      BY <3>1, WritesStore
    <3> QED
      BY <2>1, <3>2, OpenStep, AllocateStep, MoveStep, StoreStep, ReleaseStep DEF User
  <2> QED
    BY <1>1, <2>2, <2>3 DEF Next
<1>2. CASE UNCHANGED vars
  BY <1>2 DEF vars, Inv, TypeOK, ResInv, Held, OpenInv, MemoryInv, BufferInv, ByteInv,
     OnlyKnownFaults, Contents, Offsets, Zeroed
<1> QED
  BY <1>1, <1>2

LEMMA InvAlways == Spec => []Inv
BY InvInit, InvStep, PTL DEF Spec

-----------------------------------------------------------------------------
(* cd_read and cd_write: whatever position and count they are given, the    *)
(* buffer keeps its size, and every variable its type.                      *)
THEOREM TypeCorrect == Spec => []TypeOK
<1>1. Inv => TypeOK
  BY DEF Inv
<1> QED
  BY <1>1, InvAlways, PTL

(* The labels of cd_init and the steps of cd_exit undo what was done. *)
THEOREM NothingIsLeft == Spec => []LeavesNothingBehind
<1>1. Inv => LeavesNothingBehind
  BY DEF Inv, ResInv, Held, LeavesNothingBehind
<1> QED
  BY <1>1, InvAlways, PTL

(* One buffer, which holds what was written, unless two opens have raced. *)
THEOREM BytesAreKept == Spec => []BytesSurvive
<1>1. Inv => BytesSurvive
  BY DEF Inv, BufferInv, BytesSurvive
<1> QED
  BY <1>1, InvAlways, PTL

(* Only a missing buffer or cdev and an unterminated buffer can fault. *)
THEOREM FaultsAreKnown == Spec => []OnlyKnownFaults
<1>1. Inv => OnlyKnownFaults
  BY DEF Inv
<1> QED
  BY <1>1, InvAlways, PTL

(* Both files implement ModuleLifetime: .owner keeps cd_exit away while a   *)
(* file is open.                                                            *)
THEOREM ImplementsLifetime == Spec => KeepsLifetime
<1>1. Init => Lifetime!Init
  <2> SUFFICES ASSUME Init
               PROVE  Lifetime!Init
    OBVIOUS
  <2>1. {u \in Users : upc[u] # "closed"} = {}
    BY DEF Init
  <2> QED
    BY <2>1 DEF Init, Lifetime!Init, phaseBar, InitSteps, ErrLabels, ExitSteps
<1>2. Inv /\ [Next]_vars => [Lifetime!Next]_Lifetime!vars
  <2> SUFFICES ASSUME Inv, [Next]_vars
               PROVE  Lifetime!Next \/ UNCHANGED Lifetime!vars
    BY DEF Lifetime!vars
  <2> USE DEF Lifetime!Next, Lifetime!vars, phaseBar, Inv, TypeOK, moduleVars, bufferVars,
          historyVars, InitSteps, ErrLabels, ExitSteps
  <2>1. CASE Insmod
    <3>1. Lifetime!Load
      BY <2>1 DEF Insmod, Lifetime!Load
    <3> QED
      BY <3>1
  <2>2. CASE Register
    <3>1. Lifetime!Allocate \/ Lifetime!LoadSucceeds \/ UNCHANGED Lifetime!vars
      BY <2>2 DEF Register, StepAfter, Lifetime!Allocate, Lifetime!LoadSucceeds
    <3> QED
      BY <3>1
  <2>3. CASE Fail
    <3>1. Lifetime!LoadFails \/ UNCHANGED Lifetime!vars
      BY <2>3 DEF Fail, Label, OpenInv, Lifetime!LoadFails
    <3> QED
      BY <3>1
  <2>4. CASE CdevAllocFails
    BY <2>4 DEF CdevAllocFails
  <2>5. CASE Undo
    <3>1. Lifetime!LoadFails \/ Lifetime!Unload \/ UNCHANGED Lifetime!vars
      BY <2>5 DEF Undo, LabelAfter, OpenInv, Lifetime!LoadFails, Lifetime!Unload
    <3> QED
      BY <3>1
  <2>6. CASE Rmmod
    <3>1. Lifetime!BeginUnload
      BY <2>6 DEF Rmmod, Lifetime!BeginUnload
    <3> QED
      BY <3>1
  <2>7. ASSUME NEW u \in Users, Open(u)
        PROVE  Lifetime!Next
    <3>1. Lifetime!Enter(u)
      BY <2>7 DEF Open, Lifetime!Enter
    <3> QED
      BY <3>1
  <2>8. ASSUME NEW u \in Users, Release(u)
        PROVE  Lifetime!Next
    <3>1. Lifetime!Leave(u)
      BY <2>8 DEF Release, Lifetime!Leave
    <3> QED
      BY <3>1
  <2>9. ASSUME NEW u \in Users, Allocate(u)
        PROVE  UNCHANGED Lifetime!vars
    BY <2>9 DEF Allocate
  <2>10. ASSUME NEW u \in Users, User(u), ~Open(u), ~Release(u), ~Allocate(u)
         PROVE  UNCHANGED Lifetime!vars
    <3>1. UNCHANGED <<moduleVars, upc>>
      BY <2>10 DEF User, Faults, Read, Write, WritePart, LSeek
    <3> QED
      BY <3>1
  <2>11. CASE UNCHANGED vars
    BY <2>11 DEF vars
  <2> QED
    BY <2>1, <2>2, <2>3, <2>4, <2>5, <2>6, <2>7, <2>8, <2>9, <2>10, <2>11 DEF Next, CdInit
<1> QED
  BY <1>1, <1>2, InvAlways, PTL DEF Spec, KeepsLifetime, Lifetime!Spec

(* From the refinement, through the contract: no user has a file open       *)
(* before init has registered anything, or while the module is not loaded.  *)
THEOREM CodeOutlivesCallbacks == Spec => []Lifetime!CallbacksAreCovered
<1> USE DEF Lifetime!StorageInv, Lifetime!CallbacksAreCovered
<1>1. Lifetime!Init => Lifetime!StorageInv
  BY DEF Lifetime!Init
<1>2. Lifetime!StorageInv /\ [Lifetime!Next]_Lifetime!vars => Lifetime!StorageInv'
  BY DEF Lifetime!Next, Lifetime!vars, Lifetime!Load, Lifetime!Allocate, Lifetime!LoadSucceeds,
         Lifetime!LoadFails, Lifetime!Enter, Lifetime!Leave, Lifetime!BeginUnload, Lifetime!Unload
<1>3. Lifetime!StorageInv => Lifetime!CallbacksAreCovered
  OBVIOUS
<1> QED
  BY <1>1, <1>2, <1>3, ImplementsLifetime, PTL DEF KeepsLifetime, Lifetime!Spec
=============================================================================
