-------------------------------- MODULE Sysfs --------------------------------
(***************************************************************************)
(* sysfs_simple.c, sysfs_pollable.c and sysfs_dynamic.c: variables of a     *)
(* module that are shown and stored through files under /sys/test/root; and *)
(* sysfs_pollable_user_poll.c, a program that waits for a store with poll.  *)
(*                                                                          *)
(* Actors are the process in ms_init and ms_exit, users inside the show and *)
(* store functions, and the polling program.  sysfs lets a handler finish   *)
(* before it removes a file, and an open file does not hold the module.     *)
(* sysfs_dynamic.c declares no idx in ms_exit; it is modelled as if it did. *)
(*                                                                          *)
(* Abstracted: the text of the numbers, the read-only attribute, the names  *)
(* of the attributes once they are made.  One load and at most one unload   *)
(* of one of the three files, and one run of the program, are followed.     *)
(***************************************************************************)
EXTENDS Naturals, Sequences

CONSTANTS
    Users,     \* processes that read or write the files
    Length,    \* LENGTH: the attributes of sysfs_dynamic.c
    Values     \* the values that are stored

ASSUME SysfsAssumption ==
    /\ Length \in Nat \ {0, 1}
    /\ 0 .. Length - 1 \subseteq Values

VARIABLES
    file,      \* which of the three modules is loaded
    loader,    \* where ms_init or ms_exit is
    idx,       \* the loop variable of sysfs_dynamic.c
    objs,      \* the indices i for which *g_module.objs[i] exists
    nameless,  \* kasprintf returned no name for one of them
    kobj,      \* does the kobject exist?
    attrs,     \* are the files there?
    value,     \* the variable behind each file
    step,      \* the statement of a handler each user is at, 0 outside
    attr,      \* the file each user has chosen
    poller,    \* where the polling program is
    news,      \* the event counter differs from the poller's copy
    notified,  \* history: sysfs_notify was called after the poller's open
    seen,      \* the value the poller's first read has shown
    oops       \* a kernel fault

vars == <<file, loader, idx, objs, nameless, kobj, attrs, value, step, attr,
          poller, news, notified, seen, oops>>
moduleVars == <<file, loader, idx, objs, nameless, kobj, attrs>>
userVars == <<step, attr>>
pollVars == <<poller, news, notified, seen>>

Files == {"sysfs_simple", "sysfs_pollable", "sysfs_dynamic"}
Dynamic == file = "sysfs_dynamic"

Indices == 0 .. Length - 1
(* readwrite has the place of index 0. *)
Attributes == IF Dynamic THEN Indices ELSE {0}

LoaderPhases == {"absent", "objs", "kobject", "group", "err_objs", "err_kobject", "failed",
                 "live", "free", "remove", "drain", "put", "unloaded"}
PollerPhases == {"start", "open", "read", "poll", "triggered", "timeout", "done"}

Init ==
    /\ file \in Files
    /\ loader = "absent"
    /\ idx = 0
    /\ objs = {}
    /\ nameless = FALSE
    /\ kobj = FALSE
    /\ attrs = FALSE
    /\ value = [i \in Indices |-> 0]
    /\ step = [u \in Users |-> 0]
    /\ attr = [u \in Users |-> 0]
    /\ poller = "start"
    /\ news = FALSE
    /\ notified = FALSE
    /\ seen = 0
    /\ oops = FALSE

-----------------------------------------------------------------------------
(* ms_init *)

Insmod ==
    /\ loader = "absent"
    /\ loader' = IF Dynamic THEN "objs" ELSE "kobject"
    /\ UNCHANGED <<file, idx, objs, nameless, kobj, attrs, value, userVars, pollVars, oops>>

BoundInclusive == Length + 1
Bound == Length

(* One turn of the loop that makes the objects of sysfs_dynamic.c: kzalloc, *)
(* whose failure is noticed, and kasprintf, whose failure is not.           *)
MakeObject ==
    /\ loader = "objs"
    /\ \/ /\ objs' = objs \cup {idx}
          /\ value' = [value EXCEPT ![idx] = idx]
          /\ idx' = idx + 1
          /\ loader' = IF idx' = Bound THEN "kobject" ELSE "objs"
          /\ nameless' \in {nameless, TRUE}
       \/ /\ loader' = "err_objs"
          /\ UNCHANGED <<objs, value, idx, nameless>>
    /\ UNCHANGED <<file, kobj, attrs, userVars, pollVars, oops>>

(* kobject_create_and_add returns NULL on failure, which IS_ERR does not    *)
(* catch: ms_init goes on.                                                  *)
CreateKobject ==
    /\ loader = "kobject"
    /\ kobj' \in BOOLEAN
    /\ loader' = "group"
    /\ UNCHANGED <<file, idx, objs, nameless, attrs, value, userVars, pollVars, oops>>

(* sysfs_create_group refuses a NULL kobject.  Whether or not it can add     *)
(* the files before it, it faults on an attribute that has no name.         *)
CreateGroup ==
    /\ loader = "group"
    /\ IF kobj /\ nameless
         THEN oops' = TRUE /\ UNCHANGED <<attrs, loader>>
         ELSE /\ attrs' \in {FALSE, kobj}
              /\ loader' = IF attrs' THEN "live" ELSE "err_kobject"
              /\ UNCHANGED oops
    /\ UNCHANGED <<file, idx, objs, nameless, kobj, value, userVars, pollVars>>

(* The bound of both loops that free the objects, with one more taken off. *)
FreedShort == 0 .. Length - 3

(* for (idx = 0; idx < LENGTH - 1; ++idx), in ms_init and in ms_exit *)
Freed == 0 .. Length - 2

ErrObjs ==
    /\ loader = "err_objs"
    /\ objs' = objs \ Freed
    /\ loader' = "err_kobject"
    /\ UNCHANGED <<file, idx, nameless, kobj, attrs, value, userVars, pollVars, oops>>

(* kobject_put ignores NULL. *)
ErrKobject ==
    /\ loader = "err_kobject"
    /\ kobj' = FALSE
    /\ loader' = "failed"
    /\ UNCHANGED <<file, idx, objs, nameless, attrs, value, userVars, pollVars, oops>>

-----------------------------------------------------------------------------
(* ms_exit *)

(* What ms_exit does after step s; "live" is before the first.  As if the   *)
(* kobject were put before the group is removed:                            *)
ExitAfterPutFirst(s) ==
    CASE s = "live"   -> IF Dynamic THEN "free" ELSE "put"
      [] s = "free"   -> "put"
      [] s = "put"    -> "remove"
      [] s = "remove" -> "drain"
      [] s = "drain"  -> "unloaded"

ExitAfter(s) ==
    CASE s = "live"   -> IF Dynamic THEN "free" ELSE "remove"
      [] s = "free"   -> "remove"
      [] s = "remove" -> "drain"
      [] s = "drain"  -> "put"
      [] s = "put"    -> "unloaded"

Rmmod ==
    /\ loader = "live"
    /\ loader' = ExitAfter("live")
    /\ UNCHANGED <<file, idx, objs, nameless, kobj, attrs, value, userVars, pollVars, oops>>

(* sysfs_dynamic.c frees the objects while their files are still there. *)
FreeObjects ==
    /\ loader = "free"
    /\ objs' = objs \ Freed
    /\ loader' = ExitAfter("free")
    /\ UNCHANGED <<file, idx, nameless, kobj, attrs, value, userVars, pollVars, oops>>

(* sysfs_remove_group reads the attributes for their names, and lets nobody *)
(* in from then on.                                                         *)
RemoveGroup ==
    /\ loader = "remove"
    /\ attrs' = FALSE
    /\ loader' = ExitAfter("remove")
    /\ oops' \in (IF ~kobj THEN {TRUE} ELSE {FALSE, Dynamic /\ objs # Indices})
    /\ UNCHANGED <<file, idx, objs, nameless, kobj, value, userVars, pollVars>>

(* It returns when everyone who is inside has left. *)
Drain ==
    /\ loader = "drain"
    /\ \A u \in Users : step[u] = 0
    /\ poller # "read"
    /\ loader' = ExitAfter("drain")
    /\ UNCHANGED <<file, idx, objs, nameless, kobj, attrs, value, userVars, pollVars, oops>>

PutKobject ==
    /\ loader = "put"
    /\ kobj' = FALSE
    /\ loader' = ExitAfter("put")
    /\ UNCHANGED <<file, idx, objs, nameless, attrs, value, userVars, pollVars, oops>>

-----------------------------------------------------------------------------
(* The handlers *)

StoreStepsNotifyFirst ==
    IF file = "sysfs_pollable" THEN <<"notify", "assign", "return">> ELSE <<"assign", "return">>

(* The statements of the store function.  A show function is a return. *)
StoreSteps ==
    IF file = "sysfs_pollable" THEN <<"assign", "notify", "return">> ELSE <<"assign", "return">>

(* A user who reads or writes a file of the group enters show or store. *)
Enter(u, i) ==
    /\ attrs
    /\ step[u] = 0
    /\ step' \in {[step EXCEPT ![u] = 1], [step EXCEPT ![u] = Len(StoreSteps)]}
    /\ attr' = [attr EXCEPT ![u] = i]
    /\ UNCHANGED <<moduleVars, value, pollVars, oops>>

At(u, s) == step[u] > 0 /\ StoreSteps[step[u]] = s

(* An object that is used after kfree; the use may fault or not. *)
UseObject(u) == oops' \in {FALSE, Dynamic /\ attr[u] \notin objs}

(* sscanf: a text that is no number leaves the variable alone. *)
Assign(u) ==
    /\ At(u, "assign")
    /\ \/ \E v \in Values : value' = [value EXCEPT ![attr[u]] = v]
       \/ UNCHANGED value
    /\ step' = [step EXCEPT ![u] = @ + 1]
    /\ UseObject(u)
    /\ UNCHANGED <<moduleVars, attr, pollVars>>

(* sysfs_notify: it counts the event if somebody has the file open. *)
Notify(u) ==
    /\ At(u, "notify")
    /\ news' = (news \/ poller # "start")
    /\ notified' = (notified \/ poller # "start")
    /\ step' = [step EXCEPT ![u] = @ + 1]
    /\ UNCHANGED <<moduleVars, value, attr, poller, seen, oops>>

(* The value is printed, into the buffer or the log, and the handler left. *)
Return(u) ==
    /\ At(u, "return")
    /\ step' = [step EXCEPT ![u] = 0]
    /\ UseObject(u)
    /\ UNCHANGED <<moduleVars, value, attr, pollVars>>

-----------------------------------------------------------------------------
(* sysfs_pollable_user_poll.c *)

(* A file that was just opened counts as one that has news. *)
PollerOpen ==
    /\ file = "sysfs_pollable"
    /\ attrs
    /\ poller = "start"
    /\ poller' = "open"
    /\ news' = TRUE
    /\ UNCHANGED <<moduleVars, value, userVars, notified, seen, oops>>

(* The first read, up to the copy of the event counter, which is taken      *)
(* before the value is looked at.  It fails if the file was removed.        *)
DummyRead ==
    /\ poller = "open"
    /\ poller' = IF attrs THEN "read" ELSE "poll"
    /\ news' = IF attrs THEN FALSE ELSE news
    /\ UNCHANGED <<moduleVars, value, userVars, notified, seen, oops>>

(* The rest of it: readwrite_show. *)
DummyShow ==
    /\ poller = "read"
    /\ seen' = value[0]
    /\ poller' = "poll"
    /\ UNCHANGED <<moduleVars, value, userVars, news, notified, oops>>

(* poll returns at once when there is news or the file was removed, *)
PollTriggers ==
    /\ poller = "poll"
    /\ news \/ ~attrs
    /\ poller' = "triggered"
    /\ UNCHANGED <<moduleVars, value, userVars, news, notified, seen, oops>>

(* and after the time out if a last look finds neither. *)
PollTimesOut ==
    /\ poller = "poll"
    /\ ~news
    /\ attrs
    /\ poller' = "timeout"
    /\ UNCHANGED <<moduleVars, value, userVars, news, notified, seen, oops>>

(* The second read, if poll was triggered, and the end of the program.      *)
PollerEnds ==
    /\ poller \in {"triggered", "timeout"}
    /\ poller' = "done"
    /\ seen' = IF poller = "triggered" THEN (IF attrs THEN value[0] ELSE 0) ELSE seen
    /\ UNCHANGED <<moduleVars, value, userVars, news, notified, oops>>

-----------------------------------------------------------------------------
MsInit == Insmod \/ MakeObject \/ CreateKobject \/ CreateGroup \/ ErrObjs \/ ErrKobject

MsExit == FreeObjects \/ RemoveGroup \/ Drain \/ PutKobject

Handler(u) == Assign(u) \/ Notify(u) \/ Return(u)

Poller ==
    PollerOpen \/ DummyRead \/ DummyShow \/ PollTriggers \/ PollTimesOut \/ PollerEnds

Next ==
    /\ ~oops
    /\ \/ MsInit \/ Rmmod \/ MsExit \/ Poller
       \/ \E u \in Users : Handler(u) \/ \E i \in Attributes : Enter(u, i)

Spec == Init /\ [][Next]_vars

-----------------------------------------------------------------------------
(* Every variable keeps its type; the loop stays inside its arrays. *)
TypeOK ==
    /\ file \in Files
    /\ loader \in LoaderPhases
    /\ idx \in 0 .. Length
    /\ objs \subseteq Indices
    /\ nameless \in BOOLEAN
    /\ kobj \in BOOLEAN
    /\ attrs \in BOOLEAN
    /\ value \in [Indices -> Values]
    /\ step \in [Users -> 0 .. 3]
    /\ attr \in [Users -> Indices]
    /\ poller \in PollerPhases
    /\ news \in BOOLEAN
    /\ notified \in BOOLEAN
    /\ seen \in Values
    /\ oops \in BOOLEAN

(* The comment "Dummy read required before polling" in the program, and     *)
(* what it is for: a poll is not triggered unless there was a store, or the *)
(* file is gone; and when it times out the value is still the one the dummy *)
(* read has shown, unless a user is inside a handler, where a store may be  *)
(* about to notify.                                                         *)
PollIsRight ==
    [][/\ PollTriggers => notified \/ ~attrs
       /\ PollTimesOut => seen = value[0] \/ \E u \in Users : step[u] # 0]_vars

(* The kobject is given back however ms_init or ms_exit end.  Objects are   *)
(* left behind by sysfs_dynamic.c alone: the last one on exit, because the  *)
(* loop stops one short, and all when the group could not be made.          *)
LeavesNothingBehind ==
    loader \in {"failed", "unloaded"} =>
        /\ ~kobj /\ ~attrs
        /\ objs \in (IF ~Dynamic THEN {{}}
                     ELSE IF loader = "failed" THEN {{}, Indices} ELSE {{Length - 1}})

(* There are two causes of a fault: a name that kasprintf could not make,   *)
(* and the objects sysfs_dynamic.c frees while they are in use.  No handler *)
(* runs when the kobject is put, or later.                                  *)
OnlyKnownFaults ==
    /\ oops => nameless \/ (Dynamic /\ objs # Indices)
    /\ loader \in {"put", "unloaded"} => \A u \in Users : step[u] = 0
=============================================================================
