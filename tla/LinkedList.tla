------------------------------ MODULE LinkedList ------------------------------
(***************************************************************************)
(* linked_list.c and proc_info.c: modules that build a list of kmalloc'ed   *)
(* nodes with the kernel's list_head and take it apart again.               *)
(*                                                                          *)
(* linked_list.c makes COUNT nodes and deletes them, all in ll_init.        *)
(* proc_info.c makes a node for each process while it walks the kernel's    *)
(* list of processes, and deletes them in proinfo_exit; it takes no lock    *)
(* for the walk, and create_node may sleep in it, so that processes are     *)
(* forked, exit and are freed meanwhile, and the memory of one that was     *)
(* freed is handed out again.                                               *)
(*                                                                          *)
(* Both lists are taken pointer by pointer.  Abstracted: what is printed,   *)
(* the names, states and times (translate_state, translate_time), and       *)
(* current->mm.  One load and at most one unload of one file are followed.  *)
(***************************************************************************)
EXTENDS Naturals, Sequences

CONSTANT Count      \* COUNT, and the number of processes there may be

ASSUME CountAssumption == Count \in Nat \ {0}

VARIABLES
    file,      \* which of the two modules is loaded
    loader,    \* where its init or exit function is
    idx,       \* how many nodes were tried (linked_list.c) or made (proc_info.c)
    live,      \* the nodes that are allocated
    next,      \* list.next of the list head and of each node
    prev,      \* list.prev of the list head and of each node
    id,        \* id of each node
    cursor,    \* list_head in list_for_each_safe
    tmp,       \* list_tmp in list_for_each_safe
    order,     \* history: the nodes that were added and not deleted, in order
    status,    \* of each process: "unborn", "running", "exited" or "freed"
    succ,      \* tasks.next of init_task and of each process
    pro,       \* pro in for_each_process
    skipped,   \* history: processes for which create_node failed
    whole,     \* history: processes that have run since the walk began
    stale,     \* history: parse has read a task_struct that was freed
    oops       \* a kernel fault

vars == <<file, loader, idx, live, next, prev, id, cursor, tmp, order,
          status, succ, pro, skipped, whole, stale, oops>>
listVars == <<idx, live, next, prev, id, order>>
cursorVars == <<cursor, tmp>>
taskVars == <<status, succ, whole>>
walkVars == <<pro, skipped, stale>>

Files == {"linked_list", "proc_info"}
LoaderPhases == {"absent", "build", "node", "delete", "live", "unloaded"}

Nodes == 0 .. Count - 1
ListHead == Count               \* the LIST_HEAD
Poison == Count + 1         \* LIST_POISON1, LIST_POISON2
Pointers == 0 .. Count + 1

Processes == 0 .. Count - 1
InitTask == Count

(* The process list before insmod: any set of them, oldest first. *)
Running(s) == [p \in Processes |-> IF p \in s THEN "running" ELSE "unborn"]
Successor(s) ==
    [p \in Processes \cup {InitTask} |->
        CHOOSE q \in s \cup {InitTask} :
            LET follows(r) == p = InitTask \/ r = InitTask \/ r > p
            IN  /\ follows(q)
                /\ \A r \in s : follows(r) /\ r # p => q <= r]

Init ==
    /\ file \in Files
    /\ loader = "absent"
    /\ idx = 0
    /\ live = {}
    /\ next = [n \in Nodes \cup {ListHead} |-> ListHead]
    /\ prev = [n \in Nodes \cup {ListHead} |-> ListHead]
    /\ id = [n \in Nodes |-> 0]
    /\ cursor = ListHead
    /\ tmp = ListHead
    /\ order = <<>>
    /\ \E s \in SUBSET Processes :
          /\ status = Running(s)
          /\ succ = Successor(s)
          /\ whole = s
    /\ pro = InitTask
    /\ skipped = {}
    /\ stale = FALSE
    /\ oops = FALSE

-----------------------------------------------------------------------------
(* list_add and list_add_tail: node n between the head and what was first,  *)
(* or between what was last and the head.                                   *)

ListAdd(n) ==
    /\ next' = [next EXCEPT ![ListHead] = n, ![n] = next[ListHead]]
    /\ prev' = [prev EXCEPT ![next[ListHead]] = n, ![n] = ListHead]

ListAddTail(n) ==
    /\ next' = [next EXCEPT ![prev[ListHead]] = n, ![n] = ListHead]
    /\ prev' = [prev EXCEPT ![ListHead] = n, ![n] = prev[ListHead]]

(* The alternative ll_init names in a comment: the start of the list. *)
AddNodeToStart(i) ==
    /\ live' = live \cup {idx}
    /\ id' = [id EXCEPT ![idx] = i]
    /\ ListAdd(idx)
    /\ order' = Append(order, idx)

(* create_node and list_add_tail *)
AddNode(i) ==
    /\ live' = live \cup {idx}
    /\ id' = [id EXCEPT ![idx] = i]
    /\ ListAddTail(idx)
    /\ order' = Append(order, idx)

-----------------------------------------------------------------------------
Insmod ==
    /\ loader = "absent"
    /\ loader' = "build"
    /\ UNCHANGED <<file, listVars, cursorVars, taskVars, walkVars, oops>>

(* The loop bounds of ll_init. *)
BoundInclusive == Count + 1
Bound == Count

(* ll_init: one turn of the loop that makes the nodes. *)
MakeNode ==
    /\ loader = "build"
    /\ file = "linked_list"
    /\ idx < Bound
    /\ AddNode(idx) \/ UNCHANGED <<live, next, prev, id, order>>
    /\ idx' = idx + 1
    /\ UNCHANGED <<file, loader, cursorVars, taskVars, walkVars, oops>>

(* list_for_each_safe, the start: in ll_init after the nodes were shown, or *)
(* in proinfo_exit.                                                         *)
DeleteAll ==
    /\ \/ file = "linked_list" /\ loader = "build" /\ idx = Bound
       \/ file = "proc_info" /\ loader = "live"
    /\ loader' = "delete"
    /\ cursor' = next[ListHead]
    /\ tmp' = next[next[ListHead]]
    /\ UNCHANGED <<file, listVars, taskVars, walkVars, oops>>

(* list_del and kfree of the node at the cursor *)
DeleteNode ==
    /\ next' = [next EXCEPT ![prev[cursor]] = next[cursor], ![cursor] = Poison]
    /\ prev' = [prev EXCEPT ![next[cursor]] = prev[cursor], ![cursor] = Poison]
    /\ live' = live \ {cursor}
    /\ order' = Tail(order)

(* What list_for_each would go to: *)
NextInLoopUnsafe == next'[cursor]

(* Where list_for_each_safe goes on after the node at the cursor *)
NextInLoop == tmp

(* One turn of the loop that deletes the nodes. *)
DeleteNext ==
    /\ loader = "delete"
    /\ cursor # ListHead
    /\ DeleteNode
    /\ cursor' = NextInLoop
    /\ IF cursor' \in live' \cup {ListHead}
         THEN tmp' = next'[cursor'] /\ UNCHANGED oops
         ELSE oops' = TRUE /\ UNCHANGED tmp
    /\ UNCHANGED <<file, loader, idx, id, taskVars, walkVars>>

(* The end of the loop: the end of ll_init, or of proinfo_exit. *)
Deleted ==
    /\ loader = "delete"
    /\ cursor = ListHead
    /\ loader' = IF file = "linked_list" THEN "live" ELSE "unloaded"
    /\ UNCHANGED <<file, listVars, cursorVars, taskVars, walkVars, oops>>

(* ll_exit does nothing. *)
LlExit ==
    /\ loader = "live"
    /\ file = "linked_list"
    /\ loader' = "unloaded"
    /\ UNCHANGED <<file, listVars, cursorVars, taskVars, walkVars, oops>>

-----------------------------------------------------------------------------
(* parse of proc_info.c *)

Born == {p \in Processes : status[p] # "unborn"}

(* A task_struct that was freed is memory with anything in it: what it was, *)
(* another task that was forked since, or other data.  The use of it may    *)
(* fault.  Memory that never was a task's is taken for a freed one's.       *)
Freed(p) == p # InitTask /\ status[p] = "freed"

UseTask(p) ==
    /\ oops' \in {FALSE, Freed(p)}
    /\ stale' = (stale \/ Freed(p))

(* What pro->pid and pro->tasks.next may be *)
PidOf(p) == IF Freed(p) THEN Processes ELSE {p}
NextOf(p) == IF Freed(p) THEN Born \cup {InitTask} ELSE {succ[p]}

(* for_each_process: pro = next_task(pro) until it is init_task again. *)
NextTask ==
    /\ loader = "build"
    /\ file = "proc_info"
    /\ UseTask(pro)
    /\ pro' \in NextOf(pro)
    /\ loader' = IF pro' = InitTask THEN "live" ELSE "node"
    /\ UNCHANGED <<file, listVars, cursorVars, taskVars, skipped>>

StopOnFailure ==
    /\ loader' = "live"
    /\ skipped' = skipped \cup {pro}
    /\ UNCHANGED <<listVars, stale, oops>>

(* if (!node) continue; *)
SkipOnFailure ==
    /\ loader' = "build"
    /\ skipped' = skipped \cup {pro}
    /\ UNCHANGED <<listVars, stale, oops>>

(* create_node, filling it from the process, list_add_tail.  A walk that    *)
(* was led astray may list anything any number of times: bounded by the     *)
(* memory there is, Count nodes.                                            *)
NodeForTask ==
    /\ loader = "node"
    /\ \/ /\ stale => idx < Count
          /\ \E i \in PidOf(pro) : AddNode(i)
          /\ idx' = idx + 1
          /\ UseTask(pro)
          /\ loader' = "build"
          /\ UNCHANGED skipped
       \/ SkipOnFailure
    /\ UNCHANGED <<file, cursorVars, taskVars, pro>>

-----------------------------------------------------------------------------
(* The kernel's list of processes, while proc_info.c walks it *)

Walking == file = "proc_info" /\ loader \in {"build", "node"}

InList == {InitTask} \cup {p \in Processes : status[p] = "running"}

(* copy_process: the new process goes to the end. *)
Fork(p) ==
    /\ Walking
    /\ status[p] = "unborn"
    /\ status' = [status EXCEPT ![p] = "running"]
    /\ succ' = [q \in DOMAIN succ |->
                   IF q \in InList /\ succ[q] = InitTask THEN p
                   ELSE IF q = p THEN InitTask ELSE succ[q]]
    /\ UNCHANGED <<file, loader, listVars, cursorVars, walkVars, whole, oops>>

(* release_task, list_del_rcu: who stands on it can still go on from it. *)
Exit(p) ==
    /\ Walking
    /\ status[p] = "running"
    /\ status' = [status EXCEPT ![p] = "exited"]
    /\ succ' = [q \in DOMAIN succ |->
                   IF q \in InList /\ succ[q] = p THEN succ[p] ELSE succ[q]]
    /\ whole' = whole \ {p}
    /\ UNCHANGED <<file, loader, listVars, cursorVars, walkVars, oops>>

(* put_task_struct, after a grace period nobody holds up *)
FreeTask(p) ==
    /\ Walking
    /\ status[p] = "exited"
    /\ status' = [status EXCEPT ![p] = "freed"]
    /\ UNCHANGED <<file, loader, listVars, cursorVars, walkVars, succ, whole, oops>>

-----------------------------------------------------------------------------
Module ==
    \/ Insmod \/ MakeNode \/ DeleteAll \/ DeleteNext \/ Deleted \/ LlExit
    \/ NextTask \/ NodeForTask

Next ==
    /\ ~oops
    /\ \/ Module
       \/ \E p \in Processes : Fork(p) \/ Exit(p) \/ FreeTask(p)

Spec == Init /\ [][Next]_vars

-----------------------------------------------------------------------------
(* Every variable keeps its type; the loop of ll_init makes no node beyond  *)
(* the last.                                                                *)
TypeOK ==
    /\ file \in Files
    /\ loader \in LoaderPhases
    /\ idx \in 0 .. Count
    /\ live \subseteq Nodes
    /\ next \in [Nodes \cup {ListHead} -> Pointers]
    /\ prev \in [Nodes \cup {ListHead} -> Pointers]
    /\ id \in [Nodes -> Processes]
    /\ cursor \in Pointers
    /\ tmp \in Pointers
    /\ order \in Seq(Nodes)
    /\ status \in [Processes -> {"unborn", "running", "exited", "freed"}]
    /\ succ \in [Processes \cup {InitTask} -> Processes \cup {InitTask}]
    /\ pro \in Processes \cup {InitTask}
    /\ skipped \subseteq Processes
    /\ whole \subseteq Processes
    /\ stale \in BOOLEAN
    /\ oops \in BOOLEAN

(* Following next from the head gives the nodes in the order they were      *)
(* added, and back to the head; prev is the same way back.                  *)
Ring == <<ListHead>> \o order
After(k) == IF k = Len(Ring) THEN Ring[1] ELSE Ring[k + 1]

(* The list is the sequence of the nodes that were added and not deleted,   *)
(* in both directions and at every moment of its making and of the loop     *)
(* that takes it apart; what is allocated is what is in the list; and       *)
(* nothing is left when the module is gone.                                 *)
ListIsRing ==
    /\ \A k \in 1 .. Len(Ring) : next[Ring[k]] = After(k) /\ prev[After(k)] = Ring[k]
    /\ live = {order[k] : k \in 1 .. Len(order)}
    /\ loader = "unloaded" => live = {}

(* Whatever is forked and exits while proc_info.c walks the process list:   *)
(* a process that was there all the time is in the list, unless there was   *)
(* no memory for its node, and no process is in it twice.  It holds of      *)
(* walks that did not read a task_struct after it was freed: from there the *)
(* walk may go on anywhere, or end, without a fault.                        *)
EveryProcessListed ==
    file = "proc_info" /\ loader = "live" /\ ~stale =>
        /\ whole \subseteq skipped \cup {id[n] : n \in live}
        /\ \A m, n \in live : id[m] = id[n] => m = n

(* The only fault is that of parse when it reads a process that was freed:  *)
(* the module's own nodes are never used after kfree, whatever was listed.  *)
OnlyKnownFaults == oops => stale /\ loader \notin {"delete", "unloaded"}
=============================================================================
