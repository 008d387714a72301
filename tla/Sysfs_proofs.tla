---------------------------- MODULE Sysfs_proofs ----------------------------
(***************************************************************************)
(* Proofs about Sysfs, for any users, any number of attributes and any      *)
(* values.                                                                  *)
(***************************************************************************)
EXTENDS Sysfs, TLAPS

-----------------------------------------------------------------------------
(* The inductive invariant, in parts *)

(* The objects of sysfs_dynamic.c, at each step of the two functions. *)
ObjsInv ==
    IF Dynamic
      THEN /\ loader \in {"absent", "objs"} => idx < Length /\ objs = 0 .. idx - 1
           /\ loader = "err_objs" => objs \subseteq Freed
           /\ loader \in {"err_kobject", "failed"} => objs \in {{}, Indices}
           /\ loader \in {"kobject", "group", "live", "free"} => objs = Indices
           /\ loader \in {"remove", "drain", "put", "unloaded"} => objs = {Length - 1}
      ELSE objs = {} /\ loader \notin {"objs", "err_objs", "free"}

(* The files are there between sysfs_create_group and sysfs_remove_group,   *)
(* and the kobject as long as they are and until it is put.                 *)
GroupInv ==
    /\ attrs <=> loader \in {"live", "free", "remove"}
    /\ loader \in {"live", "free", "remove", "drain", "put"} => kobj
    /\ loader \in {"failed", "unloaded"} => ~kobj

(* Handlers run until the files are removed and everyone has left. *)
HandlerInv ==
    /\ (\E u \in Users : step[u] # 0) => loader \in {"live", "free", "remove", "drain"}
    /\ \A u \in Users : step[u] <= Len(StoreSteps)

(* The program's copy of the event counter: it differs after a notification *)
(* only, and while it does not, the value that was shown is the current one *)
(* or somebody is about to notify.                                          *)
PollInv ==
    /\ poller # "start" =>
          /\ file = "sysfs_pollable"
          /\ loader \in {"live", "remove", "drain", "put", "unloaded"}
    /\ poller \in {"read", "poll"} /\ news => notified \/ ~attrs
    /\ poller = "poll" /\ attrs /\ ~news => seen = value[0] \/ \E u \in Users : step[u] = 2

Inv == TypeOK /\ ObjsInv /\ GroupInv /\ HandlerInv /\ PollInv /\ OnlyKnownFaults

-----------------------------------------------------------------------------
LEMMA IndexFacts ==
    /\ Length \in Nat \ {0, 1}
    /\ 0 \in Indices /\ Length - 1 \in Indices
    /\ Indices \subseteq Values
    /\ Attributes \subseteq Indices
    /\ Indices \ Freed = {Length - 1}
    /\ \A i \in Nat : i < Length => (0 .. i - 1) \ Freed = {}
BY SysfsAssumption DEF Indices, Attributes, Freed

(* The statements of the store function, by their number. *)
LEMMA StoreFacts ==
    /\ file = "sysfs_pollable" =>
          /\ Len(StoreSteps) = 3
          /\ StoreSteps[1] = "assign" /\ StoreSteps[2] = "notify" /\ StoreSteps[3] = "return"
    /\ file # "sysfs_pollable" =>
          /\ Len(StoreSteps) = 2
          /\ StoreSteps[1] = "assign" /\ StoreSteps[2] = "return"
BY DEF StoreSteps

LEMMA AtFacts ==
    ASSUME TypeOK, HandlerInv, NEW u \in Users
    PROVE  /\ At(u, "assign") => step[u] = 1
           /\ At(u, "notify") => step[u] = 2 /\ file = "sysfs_pollable"
           /\ At(u, "return") => step[u] = Len(StoreSteps)
<1>1. step[u] \in {0, 1, 2, 3} /\ step[u] <= Len(StoreSteps)
  BY DEF TypeOK, HandlerInv
<1>2. CASE file = "sysfs_pollable"
  BY <1>1, <1>2, StoreFacts DEF At
<1>3. CASE file # "sysfs_pollable"
  <2>1. Len(StoreSteps) = 2
    BY <1>3, StoreFacts
  <2>2. step[u] \in {0, 1, 2}
    BY <1>1, <2>1
  <2> QED
    BY <2>1, <2>2, <1>3, StoreFacts DEF At
<1> QED
  BY <1>2, <1>3

-----------------------------------------------------------------------------
LEMMA InvInit == Init => Inv
<1> SUFFICES ASSUME Init
             PROVE  Inv
  OBVIOUS
<1>1. TypeOK
  <2>1. 0 \in Indices /\ 0 \in Values /\ 0 \in 0 .. Length /\ 0 \in 0 .. 3
    BY IndexFacts
  <2>2. value \in [Indices -> Values] /\ step \in [Users -> 0 .. 3] /\ attr \in [Users -> Indices]
    BY <2>1 DEF Init
  <2> QED
    BY <2>1, <2>2 DEF Init, TypeOK, LoaderPhases, PollerPhases
<1>2. ObjsInv
  BY IndexFacts DEF Init, ObjsInv
<1>3. GroupInv /\ PollInv /\ OnlyKnownFaults
  BY DEF Init, GroupInv, PollInv, OnlyKnownFaults
<1>4. HandlerInv
  BY StoreFacts DEF Init, HandlerInv
<1> QED
  BY <1>1, <1>2, <1>3, <1>4 DEF Inv

(* ms_init: nobody is inside yet. *)
LEMMA MsInitStep ==
    ASSUME Inv, ~oops, MsInit
    PROVE  Inv'
<1> USE DEF Inv, moduleVars, userVars, pollVars
<1>1. UNCHANGED <<file, userVars, pollVars>>
  BY DEF MsInit, Insmod, MakeObject, CreateKobject, CreateGroup, ErrObjs, ErrKobject
<1>2. loader \in {"absent", "objs", "kobject", "group", "err_objs", "err_kobject"}
  BY DEF MsInit, Insmod, MakeObject, CreateKobject, CreateGroup, ErrObjs, ErrKobject
<1>3. poller = "start" /\ \A u \in Users : step[u] = 0
  BY <1>2 DEF PollInv, HandlerInv
<1>4. HandlerInv' /\ PollInv'
  BY <1>1, <1>3, StoreFacts DEF HandlerInv, PollInv, StoreSteps
<1>5. CASE Insmod
  <2>1. TypeOK'
    BY <1>5 DEF Insmod, TypeOK, LoaderPhases
  <2>2. ObjsInv' /\ GroupInv' /\ OnlyKnownFaults'
    BY <1>5, <1>3 DEF Insmod, ObjsInv, GroupInv, OnlyKnownFaults, Dynamic
  <2> QED
    BY <1>4, <2>1, <2>2
<1>6. CASE MakeObject
  <2>1. Dynamic /\ idx \in Nat /\ idx < Length /\ objs = 0 .. idx - 1 /\ idx \in Indices
    BY <1>6, IndexFacts DEF MakeObject, ObjsInv, TypeOK, Indices
  <2>0. \/ /\ objs' = objs \cup {idx}
           /\ value' = [value EXCEPT ![idx] = idx]
           /\ idx' = idx + 1
           /\ loader' = IF idx' = Length THEN "kobject" ELSE "objs"
           /\ nameless' \in BOOLEAN
        \/ /\ loader' = "err_objs"
           /\ UNCHANGED <<objs, value, idx, nameless>>
    BY <1>6 DEF MakeObject, Bound, TypeOK
  <2>2. value' \in [Indices -> Values]
    BY <2>0, <2>1, IndexFacts DEF TypeOK
  <2>3. objs' \subseteq Indices /\ idx' \in 0 .. Length
    BY <2>0, <2>1, SysfsAssumption DEF TypeOK
  <2>4. TypeOK'
    BY <1>6, <2>0, <2>2, <2>3 DEF MakeObject, TypeOK, LoaderPhases
  <2>5. ObjsInv'
    <3>0. objs \cup {idx} = 0 .. idx
      BY <2>1
    <3>5. idx + 1 - 1 = idx /\ (idx + 1 # Length => idx + 1 < Length)
      BY <2>1, SysfsAssumption
    <3>6. idx + 1 = Length => 0 .. idx = Indices
      BY <2>1, SysfsAssumption DEF Indices
    <3>1. loader' = "objs" => idx' < Length /\ objs' = 0 .. idx' - 1
      <4> SUFFICES ASSUME loader' = "objs"
                   PROVE  idx' < Length /\ objs' = 0 .. idx' - 1
        OBVIOUS
      <4>1. objs' = objs \cup {idx} /\ idx' = idx + 1 /\ idx' # Length
        BY <2>0
      <4> QED
        BY <4>1, <3>0, <3>5
    <3>2. loader' = "kobject" => objs' = Indices
      <4> SUFFICES ASSUME loader' = "kobject"
                   PROVE  objs' = Indices
        OBVIOUS
      <4>1. objs' = objs \cup {idx} /\ idx + 1 = Length
        BY <2>0
      <4> QED
        BY <4>1, <3>0, <3>6
    <3>3. loader' = "err_objs" => objs' \subseteq Freed
      BY <2>0, <2>1, SysfsAssumption DEF Freed
    <3>4. loader' \in {"objs", "kobject", "err_objs"}
      BY <2>0
    <3> QED
      BY <1>1, <2>1, <3>1, <3>2, <3>3, <3>4 DEF ObjsInv, Dynamic
  <2>6. GroupInv' /\ OnlyKnownFaults'
    BY <1>6, <1>3 DEF MakeObject, GroupInv, OnlyKnownFaults
  <2> QED
    BY <1>4, <2>4, <2>5, <2>6
<1>7. CASE CreateKobject
  <2>1. TypeOK'
    BY <1>7 DEF CreateKobject, TypeOK, LoaderPhases
  <2>2. ObjsInv' /\ GroupInv' /\ OnlyKnownFaults'
    BY <1>7, <1>3 DEF CreateKobject, ObjsInv, GroupInv, OnlyKnownFaults, Dynamic
  <2> QED
    BY <1>4, <2>1, <2>2
<1>8. CASE CreateGroup
  <2>1. TypeOK'
    BY <1>8 DEF CreateGroup, TypeOK, LoaderPhases
  <2>2. ObjsInv' /\ OnlyKnownFaults'
    BY <1>8, <1>3 DEF CreateGroup, ObjsInv, OnlyKnownFaults, Dynamic
  <2>3. GroupInv'
    <3>1. ~attrs
      BY <1>8 DEF CreateGroup, GroupInv
    <3>2. CASE kobj /\ nameless
      BY <1>8, <3>1, <3>2 DEF CreateGroup, GroupInv
    <3>3. CASE ~(kobj /\ nameless)
      <4>1. /\ attrs' \in {FALSE, kobj}
            /\ loader' = IF attrs' THEN "live" ELSE "err_kobject"
            /\ kobj' = kobj
        BY <1>8, <3>3 DEF CreateGroup
      <4>2. CASE attrs' = TRUE
        BY <4>1, <4>2 DEF GroupInv, TypeOK
      <4>3. CASE attrs' = FALSE
        BY <4>1, <4>3 DEF GroupInv
      <4> QED
        BY <4>1, <4>2, <4>3 DEF TypeOK
    <3> QED
      BY <3>2, <3>3
  <2> QED
    BY <1>4, <2>1, <2>2, <2>3
<1>9. CASE ErrObjs
  <2>1. TypeOK'
    BY <1>9 DEF ErrObjs, TypeOK, LoaderPhases
  <2>2. ObjsInv'
    BY <1>9 DEF ErrObjs, ObjsInv, Dynamic
  <2>3. GroupInv' /\ OnlyKnownFaults'
    BY <1>9, <1>3 DEF ErrObjs, GroupInv, OnlyKnownFaults
  <2> QED
    BY <1>4, <2>1, <2>2, <2>3
<1>10. CASE ErrKobject
  <2>1. TypeOK'
    BY <1>10 DEF ErrKobject, TypeOK, LoaderPhases
  <2>2. ObjsInv' /\ GroupInv' /\ OnlyKnownFaults'
    BY <1>10, <1>3 DEF ErrKobject, ObjsInv, GroupInv, OnlyKnownFaults, Dynamic
  <2> QED
    BY <1>4, <2>1, <2>2
<1> QED
  BY <1>5, <1>6, <1>7, <1>8, <1>9, <1>10 DEF MsInit

(* ms_exit, while users and the program go on until the files are drained. *)
LEMMA MsExitStep ==
    ASSUME Inv, ~oops, Rmmod \/ MsExit
    PROVE  Inv'
<1> USE DEF Inv, moduleVars, userVars, pollVars
<1>1. UNCHANGED <<file, idx, nameless, value, userVars, pollVars>>
  BY DEF Rmmod, MsExit, FreeObjects, RemoveGroup, Drain, PutKobject
<1>2. TypeOK'
  <2>1. loader' \in LoaderPhases
    BY DEF Rmmod, MsExit, FreeObjects, RemoveGroup, Drain, PutKobject, ExitAfter, LoaderPhases
  <2>2. objs' \subseteq Indices /\ kobj' \in BOOLEAN /\ attrs' \in BOOLEAN
    BY DEF Rmmod, MsExit, FreeObjects, RemoveGroup, Drain, PutKobject, TypeOK
  <2>3. oops' \in BOOLEAN
    BY DEF Rmmod, MsExit, FreeObjects, RemoveGroup, Drain, PutKobject, TypeOK, Dynamic
  <2> QED
    BY <1>1, <2>1, <2>2, <2>3 DEF TypeOK, Indices
<1>3. ObjsInv'
  <2>1. CASE FreeObjects
    <3>1. Dynamic /\ objs = Indices
      BY <2>1 DEF FreeObjects, ObjsInv
    <3> QED
      BY <1>1, <2>1, <3>1, IndexFacts DEF FreeObjects, ExitAfter, ObjsInv, Dynamic
  <2>2. CASE ~FreeObjects
    BY <1>1, <2>2 DEF Rmmod, MsExit, RemoveGroup, Drain, PutKobject, ExitAfter, ObjsInv, Dynamic,
       Indices
  <2> QED
    BY <2>1, <2>2
<1>4. GroupInv'
  <2> USE DEF ExitAfter, GroupInv
  <2>1. CASE Rmmod \/ FreeObjects
    BY <2>1 DEF Rmmod, FreeObjects, ObjsInv
  <2>2. CASE RemoveGroup
    BY <2>2 DEF RemoveGroup
  <2>3. CASE Drain \/ PutKobject
    BY <2>3 DEF Drain, PutKobject
  <2> QED
    BY <2>1, <2>2, <2>3 DEF MsExit
<1>5. HandlerInv'
  <2>1. Len(StoreSteps)' = Len(StoreSteps)
    BY <1>1 DEF StoreSteps
  <2>2. (\E u \in Users : step[u] # 0) => loader' \in {"live", "free", "remove", "drain"}
    BY DEF Rmmod, MsExit, FreeObjects, RemoveGroup, Drain, PutKobject, ExitAfter, HandlerInv
  <2> QED
    BY <1>1, <2>1, <2>2 DEF HandlerInv
<1>6. PollInv'
  <2>1. attrs' => attrs
    BY DEF Rmmod, MsExit, FreeObjects, RemoveGroup, Drain, PutKobject
  <2>2. poller # "start" => loader' \in {"live", "remove", "drain", "put", "unloaded"}
    BY DEF Rmmod, MsExit, FreeObjects, RemoveGroup, Drain, PutKobject, ExitAfter, PollInv, ObjsInv,
       Dynamic
  <2> QED
    BY <1>1, <2>1, <2>2 DEF PollInv
<1>7. OnlyKnownFaults'
  <2>1. oops' => Dynamic /\ objs # Indices /\ UNCHANGED objs
    BY DEF Rmmod, MsExit, FreeObjects, RemoveGroup, Drain, PutKobject, GroupInv
  <2>2. loader' \in {"put", "unloaded"} => \A u \in Users : step[u] = 0
    BY DEF Rmmod, MsExit, FreeObjects, RemoveGroup, Drain, PutKobject, ExitAfter, HandlerInv
  <2> QED
    BY <1>1, <2>1, <2>2 DEF OnlyKnownFaults, Dynamic, Indices
<1> QED
  BY <1>2, <1>3, <1>4, <1>5, <1>6, <1>7

(* A user enters a handler, takes its next statement or leaves. *)
LEMMA HandlerStep ==
    ASSUME Inv, ~oops, NEW u \in Users,
           Handler(u) \/ \E i \in Attributes : Enter(u, i)
    PROVE  Inv'
<1> USE DEF Inv, moduleVars, pollVars
<1>1. UNCHANGED <<moduleVars, poller, seen>>
  BY DEF Handler, Assign, Notify, Return, Enter
<1>2. ObjsInv' /\ GroupInv'
  BY <1>1 DEF ObjsInv, GroupInv, Dynamic, Indices
<1>3. step[u] \in {0, 1, 2, 3} /\ step \in [Users -> 0 .. 3]
  BY DEF TypeOK
<1>4. Len(StoreSteps) \in {2, 3} /\ Len(StoreSteps)' = Len(StoreSteps)
  BY <1>1, StoreFacts DEF StoreSteps
<1>5. PICK n \in 0 .. Len(StoreSteps) : step' = [step EXCEPT ![u] = n]
  <2>0. /\ 0 \in 0 .. Len(StoreSteps) /\ 2 \in 0 .. Len(StoreSteps)
        /\ Len(StoreSteps) \in 0 .. Len(StoreSteps) /\ 1 \in 0 .. Len(StoreSteps)
    BY <1>4
  <2>1. CASE Assign(u)
    <3>1. step[u] + 1 = 2 /\ step' = [step EXCEPT ![u] = step[u] + 1]
      BY <2>1, AtFacts DEF Assign
    <3>2. step' = [step EXCEPT ![u] = 2]
      BY <3>1
    <3> QED
      BY <3>2, <2>0
  <2>2. CASE Notify(u)
    <3>3. step[u] = 2 /\ Len(StoreSteps) = 3
      BY <2>2, AtFacts, StoreFacts DEF Notify
    <3>4. step' = [step EXCEPT ![u] = step[u] + 1]
      BY <2>2 DEF Notify
    <3>1. step[u] + 1 = Len(StoreSteps) /\ step' = [step EXCEPT ![u] = step[u] + 1]
      BY <3>3, <3>4
    <3>2. step' = [step EXCEPT ![u] = Len(StoreSteps)]
      BY <3>1
    <3> QED
      BY <3>2, <2>0
  <2>3. CASE Return(u)
    <3>1. step' = [step EXCEPT ![u] = 0]
      BY <2>3 DEF Return
    <3> QED
      BY <3>1, <2>0
  <2>4. CASE \E i \in Attributes : Enter(u, i)
    BY <2>4, <2>0 DEF Enter
  <2> QED
    BY <2>1, <2>2, <2>3, <2>4 DEF Handler
<1>6. loader \in {"live", "free", "remove", "drain"}
  <2>1. CASE \E i \in Attributes : Enter(u, i)
    BY <2>1 DEF Enter, GroupInv
  <2>2. CASE Handler(u)
    BY <2>2, <1>3 DEF Handler, Assign, Notify, Return, At, HandlerInv
  <2> QED
    BY <2>1, <2>2
<1>7. HandlerInv'
  <2>1. \A w \in Users : step'[w] = IF w = u THEN n ELSE step[w]
    BY <1>3, <1>5
  <2>2. \A w \in Users : step'[w] <= Len(StoreSteps)
    BY <2>1, <1>4 DEF HandlerInv
  <2> QED
    BY <2>2, <1>1, <1>4, <1>6 DEF HandlerInv
<1>8. TypeOK'
  <2>1. step' \in [Users -> 0 .. 3]
    BY <1>3, <1>4, <1>5
  <2>2. attr' \in [Users -> Indices]
    BY IndexFacts DEF Handler, Assign, Notify, Return, Enter, TypeOK
  <2>3. value' \in [Indices -> Values]
    BY DEF Handler, Assign, Notify, Return, Enter, TypeOK
  <2>4. news' \in BOOLEAN /\ notified' \in BOOLEAN
    BY DEF Handler, Assign, Notify, Return, Enter, TypeOK
  <2>5. oops' \in BOOLEAN
    BY DEF Handler, Assign, Notify, Return, Enter, UseObject, TypeOK, Dynamic
  <2> QED
    BY <1>1, <2>1, <2>2, <2>3, <2>4, <2>5 DEF TypeOK, Indices
<1>9. OnlyKnownFaults'
  <2>1. oops' => Dynamic /\ attr[u] \notin objs
    BY DEF Handler, Assign, Notify, Return, Enter, UseObject
  <2>2. attr[u] \in Indices
    BY DEF TypeOK
  <2> QED
    BY <1>1, <1>6, <2>1, <2>2 DEF OnlyKnownFaults, Dynamic, Indices
<1>10. PollInv'
  <2>1. CASE Assign(u)
    <3>1. step'[u] = 2
      BY <2>1, <1>3, AtFacts DEF Assign
    <3> QED
      BY <2>1, <3>1, <1>1 DEF Assign, PollInv
  <2>2. CASE Notify(u)
    <3>1. poller # "start" => news' /\ notified'
      BY <2>2 DEF Notify
    <3> QED
      BY <1>1, <3>1 DEF PollInv
  <2>3. CASE Return(u) \/ \E i \in Attributes : Enter(u, i)
    <3>1. UNCHANGED <<value, news, notified>>
      BY <2>3 DEF Return, Enter
    <3>2. poller # "start" => step[u] # 2
      <4> SUFFICES ASSUME poller # "start"
                   PROVE  step[u] # 2
        OBVIOUS
      <4>1. Len(StoreSteps) = 3
        BY StoreFacts DEF PollInv
      <4> QED
        BY <2>3, <4>1, AtFacts DEF Return, Enter
    <3>3. \A w \in Users : w # u => step'[w] = step[w]
      BY <1>3, <1>5
    <3> QED
      BY <1>1, <3>1, <3>2, <3>3 DEF PollInv
  <2> QED
    BY <2>1, <2>2, <2>3 DEF Handler
<1> QED
  BY <1>2, <1>7, <1>8, <1>9, <1>10

(* The program that polls. *)
LEMMA PollerStep ==
    ASSUME Inv, ~oops, Poller
    PROVE  Inv'
<1> USE DEF Inv, moduleVars, userVars
<1>1. UNCHANGED <<moduleVars, value, userVars, notified, oops>>
  BY DEF Poller, PollerOpen, DummyRead, DummyShow, PollTriggers, PollTimesOut, PollerEnds
<1>2. ObjsInv' /\ GroupInv' /\ HandlerInv' /\ OnlyKnownFaults'
  BY <1>1 DEF ObjsInv, GroupInv, HandlerInv, OnlyKnownFaults, Dynamic, Indices, StoreSteps
<1>3. TypeOK'
  <2>1. value[0] \in Values /\ 0 \in Values
    BY IndexFacts DEF TypeOK
  <2>2. seen' \in Values
    BY <2>1 DEF Poller, PollerOpen, DummyRead, DummyShow, PollTriggers, PollTimesOut, PollerEnds,
       TypeOK
  <2>3. news' \in BOOLEAN
    BY DEF Poller, PollerOpen, DummyRead, DummyShow, PollTriggers, PollTimesOut, PollerEnds, TypeOK
  <2>4. poller' \in PollerPhases
    BY DEF Poller, PollerOpen, DummyRead, DummyShow, PollTriggers, PollTimesOut, PollerEnds,
       PollerPhases
  <2> QED
    BY <1>1, <2>2, <2>3, <2>4 DEF TypeOK, Indices
<1>4. PollInv'
  <2>1. CASE PollerOpen
    BY <2>1, <1>1 DEF PollerOpen, PollInv, GroupInv, ObjsInv, Dynamic
  <2>2. CASE DummyRead
    BY <2>2, <1>1 DEF DummyRead, PollInv
  <2>3. CASE DummyShow
    BY <2>3, <1>1 DEF DummyShow, PollInv
  <2>4. CASE PollTriggers \/ PollTimesOut \/ PollerEnds
    BY <2>4, <1>1 DEF PollTriggers, PollTimesOut, PollerEnds, PollInv
  <2> QED
    BY <2>1, <2>2, <2>3, <2>4 DEF Poller
<1> QED
  BY <1>2, <1>3, <1>4

LEMMA InvStep == Inv /\ [Next]_vars => Inv'
<1>1. Inv /\ UNCHANGED vars => Inv'
  BY DEF Inv, TypeOK, ObjsInv, GroupInv, HandlerInv, PollInv, OnlyKnownFaults, vars, Dynamic,
     Indices, StoreSteps, Freed
<1>2. Inv /\ Next => Inv'
  BY MsInitStep, MsExitStep, HandlerStep, PollerStep DEF Next
<1> QED
  BY <1>1, <1>2

LEMMA InvAlways == Spec => []Inv
<1> QED
  BY InvInit, InvStep, PTL DEF Spec

-----------------------------------------------------------------------------
(* Every variable of the three sysfs modules keeps its type, for any number *)
(* of attributes, which says that the loop of sysfs_dynamic.c stays inside  *)
(* its arrays.                                                              *)
THEOREM TypeCorrect == Spec => []TypeOK
<1>1. Inv => TypeOK
  BY DEF Inv
<1> QED
  BY <1>1, InvAlways, PTL

(* When ms_init has failed or ms_exit is through, the kobject and the files *)
(* are gone; sysfs_dynamic.c leaves its last object on exit, or all objects *)
(* when its group cannot be made, for any LENGTH.                           *)
THEOREM ObjectsAccountedFor == Spec => []LeavesNothingBehind
<1>1. Inv => LeavesNothingBehind
  <2> SUFFICES ASSUME Inv, loader \in {"failed", "unloaded"}
               PROVE  /\ ~kobj /\ ~attrs
                      /\ objs \in (IF ~Dynamic THEN {{}}
                                  ELSE IF loader = "failed" THEN {{}, Indices}
                                  ELSE {{Length - 1}})
    BY DEF LeavesNothingBehind
  <2> QED
    BY DEF Inv, ObjsInv, GroupInv
<1> QED
  BY <1>1, InvAlways, PTL

(* The modules fault for the two known causes only, however many users read *)
(* and write while the files are made and removed, and no handler is inside *)
(* when the kobject is put.                                                 *)
THEOREM FaultsAreKnown == Spec => []OnlyKnownFaults
<1>1. Inv => OnlyKnownFaults
  BY DEF Inv
<1> QED
  BY <1>1, InvAlways, PTL

(* With any number of writers, the program's poll is triggered for a reason *)
(* and does not time out on a value that has changed.                       *)
THEOREM PollsAreRight == Spec => PollIsRight
<1>1. Inv /\ [Next]_vars =>
        [/\ PollTriggers => notified \/ ~attrs
         /\ PollTimesOut => seen = value[0] \/ \E u \in Users : step[u] # 0]_vars
  BY DEF Inv, PollInv, PollTriggers, PollTimesOut
<1> QED
  BY <1>1, InvAlways, PTL DEF Spec, PollIsRight
=============================================================================
