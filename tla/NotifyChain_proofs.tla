-------------------------- MODULE NotifyChain_proofs --------------------------
(***************************************************************************)
(* Proofs about NotifyChain, for any set of consumers.                      *)
(***************************************************************************)
EXTENDS NotifyChain, TLAPS

-----------------------------------------------------------------------------
(* The inductive invariant, in parts *)

OnList == Listed \cup {"head"}

(* The chain leads from listed blocks to listed blocks, and never two of    *)
(* them to the same one: unlinking a block leaves no pointer to it.         *)
ListInv ==
    /\ \A n \in OnList : next[n] \in Listed \cup {"end"}
    /\ \A m, n \in OnList : next[m] = next[n] => m = n

(* The walker w may go to c: c is listed, or its removal waits for w. *)
Safe(w, c) ==
    \/ con[c] \in {"live", "exit"}
    \/ con[c] = "sync" /\ w \in waits[c]

(* What a walker holds is safe for it, and so is what it can reach from a   *)
(* block that was unlinked under it.                                        *)
WalkInv ==
    /\ \A w \in Active :
          /\ at[w] \in Consumers => Safe(w, at[w])
          /\ nxt[w] \in Consumers => Safe(w, nxt[w])
    /\ \A c \in Consumers : \A w \in waits[c] :
          con[c] = "sync" /\ next[c] \in Consumers => Safe(w, next[c])
    /\ \A c \in Consumers : waits[c] \subseteq Active

(* Consumers exist only under a live publisher; init and exit notify one    *)
(* after the other; the timer is in use only once it is set up.             *)
PubInv ==
    /\ pub # "live" => \A c \in Consumers : con[c] = "absent"
    /\ at["loader"] # "idle" => pub \in {"notify_init", "notify_exit"}
    /\ at["timer"] # "idle" => cb = "walk"
    /\ pub \in {"absent", "notify_init", "setup"} => cb = "idle" /\ timer = "off"

Inv == TypeOK /\ ListInv /\ WalkInv /\ PubInv

-----------------------------------------------------------------------------
LEMMA InitInv == Init => Inv
<1> SUFFICES ASSUME Init
             PROVE  Inv
  OBVIOUS
<1>1. TypeOK
  BY ConsumersAssumption DEF Init, TypeOK, Walkers
<1>2. Listed = {} /\ Active = {}
  BY DEF Init, Listed, Active
<1>3. ListInv
  BY <1>2 DEF Init, ListInv, OnList
<1>4. WalkInv
  BY <1>2 DEF Init, WalkInv
<1>5. PubInv
  BY DEF Init, PubInv, Walkers
<1> QED
  BY <1>1, <1>3, <1>4, <1>5 DEF Inv

LEMMA TypeNext == TypeOK /\ [Next]_vars => TypeOK'
<1> SUFFICES ASSUME TypeOK, [Next]_vars
             PROVE  TypeOK'
  OBVIOUS
<1> USE DEF TypeOK, timerVars, listVars, walkVars, Walkers
<1>1. CASE PubInsmod
  BY <1>1 DEF PubInsmod
<1>2. CASE PubNotify
  BY <1>2 DEF PubNotify, BeginWalk
<1>3. CASE PubNotified
  BY <1>3 DEF PubNotified, EndWalk
<1>4. CASE PubStartTimer \/ PubRmmod \/ PubDelTimerSync
  BY <1>4 DEF PubStartTimer, PubRmmod, PubDelTimerSync
<1>5. CASE Expire \/ Rearm \/ Return
  BY <1>5 DEF Expire, Rearm, Return
<1>6. CASE Send
  BY <1>6 DEF Send, BeginWalk, Listed
<1>7. CASE Sent
  BY <1>7 DEF Sent, EndWalk
<1>8. ASSUME NEW w \in Walkers, CallNext(w)
      PROVE  TypeOK'
  <2>1. nxt[w] \in Consumers
    BY <1>8 DEF CallNext
  <2>2. at' \in [Walkers -> Consumers \cup {"idle", "head"}] /\ nxt' \in [Walkers -> Consumers \cup {"end"}]
    BY <1>8, <2>1 DEF CallNext
  <2>3. told' \in [Consumers -> {"none", "FLAG_1", "FLAG_2"}] /\ due' \subseteq Consumers
    BY <1>8, <2>1 DEF CallNext, Message
  <2> QED
    BY <1>8, <2>2, <2>3 DEF CallNext
<1>9. ASSUME NEW c \in Consumers, ConInsmod(c) \/ ConRmmod(c)
      PROVE  TypeOK'
  BY <1>9 DEF ConInsmod, ConRmmod
<1>10. ASSUME NEW c \in Consumers, Register(c)
       PROVE  TypeOK'
  BY <1>10 DEF Register
<1>11. ASSUME NEW c \in Consumers, Unregister(c)
       PROVE  TypeOK'
  BY <1>11 DEF Unregister, Unlink, Active
<1>12. ASSUME NEW c \in Consumers, Synchronized(c)
       PROVE  TypeOK'
  BY <1>12 DEF Synchronized
<1>13. CASE UNCHANGED vars
  BY <1>13 DEF vars
<1> QED
  BY <1>1, <1>2, <1>3, <1>4, <1>5, <1>6, <1>7, <1>8, <1>9, <1>10, <1>11, <1>12, <1>13
     DEF Next, PubInit, TimerCallback, ConsumerStep

-----------------------------------------------------------------------------
LEMMA ListNext == Inv /\ [Next]_vars => ListInv'
<1> SUFFICES ASSUME Inv, [Next]_vars
             PROVE  ListInv'
  OBVIOUS
<1> USE DEF Inv, TypeOK, ListInv, OnList, timerVars, listVars, walkVars
<1>1. CASE PubInsmod
  BY <1>1 DEF PubInsmod, PubInv, Listed
<1>2. CASE UNCHANGED <<con, next>>
  BY <1>2 DEF Listed
<1>3. ASSUME NEW c \in Consumers, ConInsmod(c) \/ ConRmmod(c) \/ Synchronized(c)
      PROVE  ListInv'
  <2>1. Listed' = Listed
    BY <1>3 DEF ConInsmod, ConRmmod, Synchronized, Listed
  <2>2. c \notin Listed \/ next' = next
    BY <1>3 DEF ConInsmod, ConRmmod, Synchronized, Listed
  <2>3. \A n \in OnList : next'[n] = next[n]
    BY <1>3, <2>2, ConsumersAssumption DEF ConInsmod, ConRmmod, Synchronized, Listed
  <2> QED
    BY <2>1, <2>3
<1>4. ASSUME NEW c \in Consumers, Register(c)
      PROVE  ListInv'
  <2>1. Listed' = Listed \cup {c} /\ c \notin Listed
    BY <1>4 DEF Register, Listed
  <2>2. OnList \subseteq DOMAIN next /\ c \in DOMAIN next /\ c # "head" /\ c # "end"
    BY ConsumersAssumption DEF Listed
  <2>3. next'[c] = "end"
    <3>1. next' = [n \in DOMAIN next |->
                     CASE n = c -> "end"
                       [] n \in Listed \cup {"head"} /\ next[n] = "end" -> c
                       [] OTHER -> next[n]]
      BY <1>4 DEF Register
    <3> QED
      BY <2>1, <2>2, <3>1
  <2>4. \A n \in OnList : next'[n] = IF next[n] = "end" THEN c ELSE next[n]
    BY <1>4, <2>1, <2>2 DEF Register
  <2>5. \A n \in OnList : next[n] # c
    BY <2>1, <2>2
  <2> QED
    BY <2>1, <2>2, <2>3, <2>4, <2>5
<1>5. ASSUME NEW c \in Consumers, Unregister(c)
      PROVE  ListInv'
  <2>1. Listed' = Listed \ {c} /\ c \in Listed
    BY <1>5 DEF Unregister, Listed
  <2>2. OnList \subseteq DOMAIN next /\ c # "head" /\ c # "end"
    BY ConsumersAssumption DEF Listed
  <2>3. \A n \in OnList \ {c} : next'[n] = IF next[n] = c THEN next[c] ELSE next[n]
    BY <1>5, <2>2 DEF Unregister, Unlink
  <2> QED
    BY <2>1, <2>2, <2>3
<1> QED
  BY <1>1, <1>2, <1>3, <1>4, <1>5
     DEF Next, vars, PubInit, TimerCallback, ConsumerStep, PubNotify, PubNotified, EndWalk,
         PubStartTimer, PubRmmod, PubDelTimerSync, Expire, Send, Sent, Rearm, Return, CallNext

-----------------------------------------------------------------------------
LEMMA PubNext == Inv /\ [Next]_vars => PubInv'
<1> SUFFICES ASSUME Inv, [Next]_vars
             PROVE  PubInv'
  OBVIOUS
<1> USE DEF Inv, TypeOK, PubInv, timerVars, listVars, walkVars, Walkers
<1>1. CASE PubInit
  BY <1>1 DEF PubInit, PubInsmod, PubNotify, PubNotified, PubStartTimer, BeginWalk, EndWalk
<1>2. CASE PubRmmod \/ PubDelTimerSync
  BY <1>2 DEF PubRmmod, PubDelTimerSync
<1>3. CASE Expire \/ TimerCallback
  BY <1>3 DEF Expire, TimerCallback, Send, Sent, Rearm, Return, BeginWalk, EndWalk
<1>4. ASSUME NEW w \in Walkers, CallNext(w)
      PROVE  PubInv'
  BY <1>4 DEF CallNext
<1>5. ASSUME NEW c \in Consumers, ConInsmod(c) \/ ConRmmod(c) \/ ConsumerStep(c)
      PROVE  PubInv'
  BY <1>5 DEF ConInsmod, ConRmmod, ConsumerStep, Register, Unregister, Synchronized
<1>6. CASE UNCHANGED vars
  BY <1>6 DEF vars
<1> QED
  BY <1>1, <1>2, <1>3, <1>4, <1>5, <1>6 DEF Next

-----------------------------------------------------------------------------
LEMMA WalkNext == Inv /\ [Next]_vars => WalkInv'
<1> SUFFICES ASSUME Inv, [Next]_vars
             PROVE  WalkInv'
  OBVIOUS
<1> USE DEF Inv, TypeOK, timerVars, listVars, walkVars
<1>1. CASE UNCHANGED <<con, next, waits, at, nxt>>
  BY <1>1 DEF WalkInv, Active, Safe
<1>2. CASE PubInsmod
  BY <1>2, ConsumersAssumption DEF PubInsmod, WalkInv, Active, Safe
<1>3. ASSUME NEW w \in Walkers, BeginWalk(w), UNCHANGED listVars
      PROVE  WalkInv'
  <2>1. at' = [at EXCEPT ![w] = "head"] /\ nxt' = [nxt EXCEPT ![w] = next["head"]]
    BY <1>3 DEF BeginWalk
  <2>2. next["head"] \in Consumers => Safe(w, next["head"])
    BY ConsumersAssumption DEF ListInv, OnList, Listed, Safe
  <2>3. Active' = Active \cup {w}
    BY <2>1, ConsumersAssumption DEF Active
  <2>4. "head" \notin Consumers
    BY ConsumersAssumption
  <2> QED
    BY <1>3, <2>1, <2>2, <2>3, <2>4 DEF WalkInv, Active, Safe
<1>4. ASSUME NEW w \in Walkers, CallNext(w)
      PROVE  WalkInv'
  <2>1. nxt[w] \in Consumers /\ w \in Active /\ Safe(w, nxt[w])
    BY <1>4 DEF CallNext, WalkInv, Active
  <2>2. next[nxt[w]] \in Consumers => Safe(w, next[nxt[w]])
    <3>1. CASE nxt[w] \in Listed
      BY <2>1, <3>1, ConsumersAssumption DEF ListInv, OnList, Listed, Safe
    <3>2. CASE con[nxt[w]] = "sync" /\ w \in waits[nxt[w]]
      BY <2>1, <3>2 DEF WalkInv
    <3> QED
      BY <2>1, <3>1, <3>2 DEF Safe, Listed
  <2>3. Active' = Active
    BY <1>4, <2>1, ConsumersAssumption DEF CallNext, Active
  <2>4. /\ at' = [at EXCEPT ![w] = nxt[w]]
        /\ nxt' = [nxt EXCEPT ![w] = next[nxt[w]]]
        /\ UNCHANGED <<con, next, waits>>
    BY <1>4 DEF CallNext
  <2> QED
    BY <2>1, <2>2, <2>3, <2>4 DEF WalkInv, Active, Safe
<1>5. ASSUME NEW w \in Walkers, EndWalk(w)
      PROVE  WalkInv'
  <2>1. /\ at' = [at EXCEPT ![w] = "idle"]
        /\ waits' = [c \in Consumers |-> waits[c] \ {w}]
        /\ UNCHANGED <<nxt, con, next>>
    BY <1>5 DEF EndWalk
  <2>2. Active' = Active \ {w}
    BY <2>1 DEF Active
  <2>3. \A v \in Active', c \in Consumers : at'[v] = at[v] /\ (Safe(v, c) => Safe(v, c)')
    BY <2>1, <2>2 DEF Safe, Active
  <2>4. \A v \in Active' : /\ at'[v] \in Consumers => Safe(v, at[v])'
                           /\ nxt'[v] \in Consumers => Safe(v, nxt[v])'
    BY <2>1, <2>2, <2>3 DEF WalkInv, Safe
  <2>5. \A c \in Consumers : \A v \in waits'[c] :
           con'[c] = "sync" /\ next'[c] \in Consumers => Safe(v, next[c])'
    BY <2>1, <2>2, <2>3 DEF WalkInv, Safe
  <2>6. \A c \in Consumers : waits'[c] \subseteq Active'
    BY <2>1, <2>2 DEF WalkInv
  <2> QED
    BY <2>4, <2>5, <2>6 DEF WalkInv
<1>6. ASSUME NEW c \in Consumers, ConInsmod(c) \/ ConRmmod(c)
      PROVE  WalkInv'
  BY <1>6 DEF ConInsmod, ConRmmod, WalkInv, Active, Safe
<1>7. ASSUME NEW c \in Consumers, Register(c)
      PROVE  WalkInv'
  <2>1. /\ con' = [con EXCEPT ![c] = "live"] /\ con[c] = "init"
        /\ UNCHANGED <<waits, at, nxt>>
    BY <1>7 DEF Register
  <2>2. \A d \in Consumers : con[d] = "sync" => next'[d] = next[d]
    BY <1>7, ConsumersAssumption DEF Register, Listed
  <2>3. Active' = Active
    BY <2>1 DEF Active
  <2>4. \A v \in Walkers, d \in Consumers : Safe(v, d) => Safe(v, d)'
    BY <2>1 DEF Safe
  <2>5. \A d \in Consumers : con'[d] = "sync" => con[d] = "sync"
    BY <2>1
  <2> QED
    BY <2>1, <2>2, <2>3, <2>4, <2>5 DEF WalkInv, Active
<1>8. ASSUME NEW c \in Consumers, Unregister(c)
      PROVE  WalkInv'
  <2>1. /\ con' = [con EXCEPT ![c] = "sync"] /\ con[c] = "exit"
        /\ waits' = [waits EXCEPT ![c] = Active]
        /\ UNCHANGED <<at, nxt>>
    BY <1>8 DEF Unregister
  <2>2. Active' = Active /\ Active \subseteq Walkers
    BY <2>1 DEF Active
  <2>3. \A d \in Consumers : con'[d] = "sync" => next'[d] = next[d]
    BY <1>8, <2>1, ConsumersAssumption DEF Unregister, Unlink, Listed
  <2>4. \A v \in Active, d \in Consumers : Safe(v, d) => Safe(v, d)'
    BY <2>1, <2>2 DEF Safe
  <2>5. next[c] \in Consumers => \A v \in Active : Safe(v, next[c])
    BY <2>1, ConsumersAssumption DEF ListInv, OnList, Listed, Safe
  <2>6. \A d \in Consumers : \A v \in waits'[d] :
           con'[d] = "sync" /\ next'[d] \in Consumers => Safe(v, next[d])'
    <3> SUFFICES ASSUME NEW d \in Consumers, NEW v \in waits'[d],
                        con'[d] = "sync", next'[d] \in Consumers
                 PROVE  Safe(v, next[d])'
      OBVIOUS
    <3>1. next'[d] = next[d]
      BY <2>3
    <3>2. v \in Active
      BY <2>1 DEF WalkInv
    <3>3. Safe(v, next[d])
      BY <2>1, <2>5, <3>1, <3>2 DEF WalkInv
    <3> QED
      BY <2>4, <3>1, <3>2, <3>3 DEF Safe
  <2>7. \A d \in Consumers : waits'[d] \subseteq Active'
    BY <2>1, <2>2 DEF WalkInv
  <2>8. \A v \in Active' : /\ at'[v] \in Consumers => Safe(v, at[v])'
                           /\ nxt'[v] \in Consumers => Safe(v, nxt[v])'
    BY <2>1, <2>2, <2>4 DEF WalkInv, Safe
  <2> QED
    BY <2>6, <2>7, <2>8 DEF WalkInv
<1>9. ASSUME NEW c \in Consumers, Synchronized(c)
      PROVE  WalkInv'
  <2>1. /\ con' = [con EXCEPT ![c] = "absent"] /\ con[c] = "sync" /\ waits[c] = {}
        /\ next' = [next EXCEPT ![c] = "end"]
        /\ UNCHANGED <<waits, at, nxt>>
    BY <1>9 DEF Synchronized
  <2>2. Active' = Active
    BY <2>1 DEF Active
  <2>3. \A v \in Walkers, d \in Consumers : Safe(v, d) => d # c /\ Safe(v, d)'
    BY <2>1 DEF Safe
  <2>4. \A d \in Consumers : d # c => next'[d] = next[d] /\ con'[d] = con[d]
    BY <2>1
  <2> QED
    BY <2>1, <2>2, <2>3, <2>4 DEF WalkInv, Active
<1> QED
  BY <1>1, <1>2, <1>3, <1>4, <1>5, <1>6, <1>7, <1>8, <1>9
     DEF Next, vars, Walkers, PubInit, TimerCallback, ConsumerStep, PubNotify, PubNotified,
         PubStartTimer, PubRmmod, PubDelTimerSync, Expire, Send, Sent, Rearm, Return

-----------------------------------------------------------------------------
LEMMA Invariance == Spec => []Inv
<1>1. Inv /\ [Next]_vars => Inv'
  BY TypeNext, ListNext, PubNext, WalkNext DEF Inv
<1> QED
  BY InitInv, <1>1, PTL DEF Spec

(* Type correctness, for any consumers. *)
THEOREM TypeCorrect == Spec => []TypeOK
<1>1. Inv => TypeOK
  BY DEF Inv
<1> QED
  BY <1>1, Invariance, PTL

(* However many consumers come and go, and whatever they do while a         *)
(* notification walks the chain, only code of loaded consumers is called.   *)
THEOREM CallsAreSafe == Spec => []OnlyLoadedIsCalled
<1>1. Inv => OnlyLoadedIsCalled
  BY DEF Inv, WalkInv, Safe, OnlyLoadedIsCalled
<1> QED
  BY <1>1, Invariance, PTL

(* No consumer ever hears the INIT or EXIT notification. *)
THEOREM InitAndExitAreUnheard == Spec => []InitAndExitReachNobody
<1>1. Inv => InitAndExitReachNobody
  BY ConsumersAssumption DEF Inv, TypeOK, WalkInv, PubInv, Safe, Active, Walkers, InitAndExitReachNobody
<1> QED
  BY <1>1, Invariance, PTL

(* The publisher implements ModuleLifetime: del_timer_sync is enough,       *)
(* though the callback starts the timer again.                              *)
THEOREM ImplementsLifetime == Spec => KeepsLifetime
<1>1. Init => Lifetime!Init
  BY DEF Init, Lifetime!Init, phaseBar
<1>2. Inv /\ [Next]_vars => [Lifetime!Next]_Lifetime!vars
  <2> SUFFICES ASSUME Inv, [Next]_vars
               PROVE  Lifetime!Next \/ UNCHANGED Lifetime!vars
    BY DEF Lifetime!vars
  <2> USE DEF Lifetime!Next, Lifetime!vars, phaseBar, Inv, TypeOK, timerVars
  <2>1. CASE PubInsmod
    <3>1. Lifetime!Load
      BY <2>1 DEF PubInsmod, Lifetime!Load
    <3> QED
      BY <3>1
  <2>2. CASE PubNotified
    <3>1. Lifetime!Allocate \/ UNCHANGED Lifetime!vars
      BY <2>2 DEF PubNotified, EndWalk, PubInv, Lifetime!Allocate
    <3> QED
      BY <3>1
  <2>3. CASE PubStartTimer
    <3>1. Lifetime!LoadSucceeds
      BY <2>3 DEF PubStartTimer, Lifetime!LoadSucceeds
    <3> QED
      BY <3>1
  <2>4. CASE PubRmmod
    <3>1. Lifetime!BeginUnload
      BY <2>4 DEF PubRmmod, Lifetime!BeginUnload
    <3> QED
      BY <3>1
  <2>5. CASE PubDelTimerSync
    <3>1. Lifetime!Unload
      BY <2>5 DEF PubDelTimerSync, Lifetime!Unload
    <3> QED
      BY <3>1
  <2>6. CASE Expire
    <3>1. Lifetime!Enter("timer")
      BY <2>6 DEF Expire, PubInv, Lifetime!Enter
    <3> QED
      BY <3>1
  <2>7. CASE Return
    <3>1. Lifetime!Leave("timer")
      BY <2>7 DEF Return, Lifetime!Leave
    <3> QED
      BY <3>1
  <2>8. CASE Send \/ Sent \/ Rearm
    BY <2>8 DEF Send, Sent, Rearm, PubInv, EndWalk
  <2>9. CASE UNCHANGED <<pub, cb>>
    BY <2>9
  <2> QED
    BY <2>1, <2>2, <2>3, <2>4, <2>5, <2>6, <2>7, <2>8, <2>9
       DEF Next, vars, PubInit, TimerCallback, ConsumerStep, PubNotify, CallNext,
           ConInsmod, ConRmmod, Register, Unregister, Synchronized
<1> QED
  BY <1>1, <1>2, Invariance, PTL DEF Spec, KeepsLifetime, Lifetime!Spec

(* From the refinement, through the contract: timer_callback only executes  *)
(* while the code of the publisher is loaded.                               *)
THEOREM CodeOutlivesCallbacks == Spec => []Lifetime!CallbacksAreCovered
<1> USE DEF Lifetime!StorageInv, Lifetime!CallbacksAreCovered
<1>1. Lifetime!Init => Lifetime!StorageInv
  BY DEF Lifetime!Init
<1>2. Lifetime!StorageInv /\ [Lifetime!Next]_Lifetime!vars => Lifetime!StorageInv'
  BY DEF Lifetime!Next, Lifetime!vars, Lifetime!Load, Lifetime!Allocate, Lifetime!LoadSucceeds,
         Lifetime!LoadFails, Lifetime!Enter, Lifetime!Leave, Lifetime!BeginUnload, Lifetime!Unload
<1>3. Lifetime!StorageInv => Lifetime!CallbacksAreCovered
  OBVIOUS
<1> QED
  BY <1>1, <1>2, <1>3, ImplementsLifetime, PTL DEF KeepsLifetime, Lifetime!Spec

-----------------------------------------------------------------------------
(* What can be reached along the chain.  Instead of paths, whose length     *)
(* would need induction, the sets of blocks are used that the next pointers *)
(* do not lead out of: a block is reachable from another one if it is in    *)
(* every such set that holds the other.                                     *)

Blocks == Consumers \cup {"end"}

ClosedUnder(f, S) == S \subseteq Blocks /\ \A n \in S \cap Consumers : f[n] \in S

(* A block that is not registered yet leads nowhere, and was told nothing. *)
FreshInv ==
    \A c \in Consumers : con[c] \in {"absent", "init"} => next[c] = "end" /\ told[c] = "none"

(* Every listed block, and the end, is reachable from the head. *)
ReachInv ==
    \A S : ClosedUnder(next, S) /\ next["head"] \in S => Listed \cup {"end"} \subseteq S

(* What the timer has yet to tell is reachable for its walk. *)
DueInv ==
    /\ at["timer"] = "idle" => due = {}
    /\ at["timer"] # "idle" =>
          \A S : ClosedUnder(next, S) /\ nxt["timer"] \in S => due \subseteq S

(* No block is reachable from the one behind it. *)
AcyclicInv ==
    \A c \in Consumers : \E S : ClosedUnder(next, S) /\ next[c] \in S /\ c \notin S

(* Between two walks nobody was told the flag that will be sent; during a   *)
(* walk nobody who is ahead of it was; and after it all were, but for those *)
(* that have come meanwhile.                                                *)
FlagInv ==
    /\ cb \in {"idle", "send", "return"} => \A c \in Listed : told[c] # Message("timer")
    /\ cb \in {"walk", "rearm"} =>
          \A c \in Listed :
             \/ told[c] \in {"none", Message("timer")}
             \/ cb = "walk" /\ c \in due
    /\ at["timer"] # "idle" =>
          \E S : /\ ClosedUnder(next, S) /\ nxt["timer"] \in S
                 /\ \A c \in S \cap Consumers : told[c] # Message("timer")

ChainInv == FreshInv /\ ReachInv /\ DueInv /\ AcyclicInv /\ FlagInv

-----------------------------------------------------------------------------
(* What the three operations on the chain do to the pointers *)

LEMMA RegisterEffect ==
    ASSUME Inv, FreshInv, NEW c \in Consumers, Register(c)
    PROVE  /\ next[c] = "end" /\ next'[c] = "end" /\ told[c] = "none"
           /\ Listed' = Listed \cup {c} /\ c \notin OnList
           /\ \A n \in (Consumers \cup {"head"}) \ {c} :
                 next'[n] = IF n \in OnList /\ next[n] = "end" THEN c ELSE next[n]
<1> USE DEF Inv, TypeOK
<1>1. /\ con[c] = "init" /\ con' = [con EXCEPT ![c] = "live"]
      /\ next' = [n \in DOMAIN next |->
                    CASE n = c -> "end"
                      [] n \in Listed \cup {"head"} /\ next[n] = "end" -> c
                      [] OTHER -> next[n]]
  BY DEF Register
<1>2. c # "head" /\ DOMAIN next = Consumers \cup {"head"}
  BY ConsumersAssumption
<1>3. next[c] = "end" /\ told[c] = "none"
  BY <1>1 DEF FreshInv
<1>4. Listed' = Listed \cup {c} /\ c \notin OnList
  BY <1>1, <1>2 DEF Listed, OnList
<1>5. next'[c] = "end"
  <2>1. c \in DOMAIN next
    BY <1>2
  <2> QED
    BY <1>1, <1>2, <1>4, <2>1 DEF OnList
<1>6. \A n \in (Consumers \cup {"head"}) \ {c} :
         next'[n] = IF n \in OnList /\ next[n] = "end" THEN c ELSE next[n]
  BY <1>1, <1>2 DEF OnList
<1> QED
  BY <1>3, <1>4, <1>5, <1>6

LEMMA UnregisterEffect ==
    ASSUME Inv, NEW c \in Consumers, Unregister(c)
    PROVE  /\ Listed' = Listed \ {c} /\ c \in Listed /\ next'[c] = next[c]
           /\ \A n \in Consumers \cup {"head"} :
                 next'[n] = IF n \in OnList \ {c} /\ next[n] = c THEN next[c] ELSE next[n]
BY DEF Inv, TypeOK, Unregister, Unlink, Listed, OnList

LEMMA SynchronizedEffect ==
    ASSUME Inv, NEW c \in Consumers, Synchronized(c)
    PROVE  /\ Listed' = Listed /\ c \notin Listed /\ c # "head"
           /\ next'[c] = "end" /\ told'[c] = "none"
           /\ \A n \in (Consumers \cup {"head"}) \ {c} : next'[n] = next[n]
           /\ \A n \in Consumers \ {c} : told'[n] = told[n]
BY ConsumersAssumption DEF Inv, TypeOK, Synchronized, Listed

(* A set that is closed before one of them, with the end and the new block  *)
(* if it was added, is closed afterwards.                                   *)
LEMMA ClosedAfter ==
    ASSUME Inv, FreshInv, NEW c \in Consumers, NEW S, ClosedUnder(next, S)
    PROVE  /\ Register(c) => ClosedUnder(next', S \cup {c, "end"})
           /\ Unregister(c) => ClosedUnder(next', S)
           /\ Synchronized(c) => ClosedUnder(next', S \cup {"end"})
<1> USE ConsumersAssumption DEF ClosedUnder, Blocks
<1>1. ASSUME Register(c)
      PROVE  ClosedUnder(next', S \cup {c, "end"})
  BY <1>1, RegisterEffect
<1>2. ASSUME Unregister(c)
      PROVE  ClosedUnder(next', S)
  BY <1>2, UnregisterEffect
<1>3. ASSUME Synchronized(c)
      PROVE  ClosedUnder(next', S \cup {"end"})
  BY <1>3, SynchronizedEffect
<1> QED
  BY <1>1, <1>2, <1>3
(* Whatever leaves the pointers of the consumers alone leaves sets closed. *)
LEMMA ClosedStays ==
    ASSUME \A n \in Consumers : next'[n] = next[n]
    PROVE  \A S : ClosedUnder(next, S) <=> ClosedUnder(next', S)
BY DEF ClosedUnder

-----------------------------------------------------------------------------
LEMMA InitChain == Init => ChainInv
<1> SUFFICES ASSUME Init
             PROVE  ChainInv
  OBVIOUS
<1> USE DEF Init, Walkers
<1>1. Listed = {}
  BY DEF Listed
<1>2. FreshInv /\ ReachInv /\ DueInv
  BY <1>1 DEF FreshInv, ReachInv, DueInv
<1>3. ASSUME NEW c \in Consumers
      PROVE  \E S : ClosedUnder(next, S) /\ next[c] \in S /\ c \notin S
  <2>1. c # "end" /\ ClosedUnder(next, {"end"})
    BY ConsumersAssumption DEF ClosedUnder, Blocks
  <2> QED
    BY <2>1
<1>4. AcyclicInv
  BY <1>3 DEF AcyclicInv
<1>5. FlagInv
  BY <1>1 DEF FlagInv
<1> QED
  BY <1>2, <1>4, <1>5 DEF ChainInv

LEMMA FreshNext == Inv /\ FreshInv /\ [Next]_vars => FreshInv'
<1> SUFFICES ASSUME Inv, FreshInv, [Next]_vars
             PROVE  FreshInv'
  OBVIOUS
<1> USE DEF FreshInv, Inv, TypeOK, timerVars, listVars, walkVars
<1>1. CASE UNCHANGED <<con, next, told>>
  BY <1>1
<1>2. CASE PubInsmod
  BY <1>2, ConsumersAssumption DEF PubInsmod
<1>3. ASSUME NEW w \in Walkers, CallNext(w)
      PROVE  FreshInv'
  <2>1. UNCHANGED <<con, next>> /\ nxt[w] \in Consumers
    BY <1>3 DEF CallNext
  <2>2. con[nxt[w]] \notin {"absent", "init"}
    BY <1>3, <2>1 DEF CallNext, WalkInv, Active, Safe
  <2>3. \A c \in Consumers \ {nxt[w]} : told'[c] = told[c]
    BY <1>3 DEF CallNext
  <2> QED
    BY <2>1, <2>2, <2>3
<1>4. ASSUME NEW c \in Consumers, ConInsmod(c) \/ ConRmmod(c)
      PROVE  FreshInv'
  BY <1>4 DEF ConInsmod, ConRmmod
<1>5. ASSUME NEW c \in Consumers, Register(c)
      PROVE  FreshInv'
  <2>1. UNCHANGED told /\ con' = [con EXCEPT ![c] = "live"]
    BY <1>5 DEF Register
  <2>2. \A n \in Consumers \ OnList : n # c => next'[n] = next[n]
    BY <1>5, RegisterEffect
  <2>3. \A n \in Consumers : con'[n] \in {"absent", "init"} => n \notin OnList /\ n # c
    BY <2>1, ConsumersAssumption DEF OnList, Listed
  <2> QED
    BY <2>1, <2>2, <2>3
<1>6. ASSUME NEW c \in Consumers, Unregister(c)
      PROVE  FreshInv'
  <2>1. UNCHANGED told /\ con' = [con EXCEPT ![c] = "sync"]
    BY <1>6 DEF Unregister
  <2>2. \A n \in Consumers \ OnList : next'[n] = next[n]
    BY <1>6, UnregisterEffect
  <2>3. \A n \in Consumers : con'[n] \in {"absent", "init"} => n \notin OnList /\ n # c
    BY <2>1, ConsumersAssumption DEF OnList, Listed
  <2> QED
    BY <2>1, <2>2, <2>3
<1>7. ASSUME NEW c \in Consumers, Synchronized(c)
      PROVE  FreshInv'
  <2>1. con' = [con EXCEPT ![c] = "absent"]
    BY <1>7 DEF Synchronized
  <2> QED
    BY <1>7, <2>1, SynchronizedEffect
<1> QED
  BY <1>1, <1>2, <1>3, <1>4, <1>5, <1>6, <1>7
     DEF Next, vars, PubInit, TimerCallback, ConsumerStep, PubNotify, PubNotified, BeginWalk, EndWalk,
         PubStartTimer, PubRmmod, PubDelTimerSync, Expire, Send, Sent, Rearm, Return

(* The steps that leave the pointers of the consumers alone *)
LEMMA OtherSteps ==
    ASSUME Inv, [Next]_vars
    PROVE  \/ \A n \in Consumers : next'[n] = next[n]
           \/ \E c \in Consumers : Register(c) \/ Unregister(c) \/ Synchronized(c)
<1> USE DEF Inv, TypeOK, timerVars, listVars, walkVars
<1>1. CASE PubInsmod
  BY <1>1, ConsumersAssumption DEF PubInsmod
<1>2. CASE UNCHANGED next
  BY <1>2
<1> QED
  BY <1>1, <1>2
     DEF Next, vars, PubInit, TimerCallback, ConsumerStep, PubNotify, PubNotified, EndWalk, CallNext,
         PubStartTimer, PubRmmod, PubDelTimerSync, Expire, Send, Sent, Rearm, Return, ConInsmod, ConRmmod

LEMMA AcyclicNext == Inv /\ FreshInv /\ AcyclicInv /\ [Next]_vars => AcyclicInv'
<1> SUFFICES ASSUME Inv, FreshInv, AcyclicInv, [Next]_vars, NEW x \in Consumers
             PROVE  \E S : ClosedUnder(next', S) /\ next'[x] \in S /\ x \notin S
  BY DEF AcyclicInv
<1>1. PICK S : ClosedUnder(next, S) /\ next[x] \in S /\ x \notin S
  BY DEF AcyclicInv
<1>2. x # "end" /\ ClosedUnder(next', {"end"})
  BY ConsumersAssumption DEF ClosedUnder, Blocks
<1>3. CASE \A n \in Consumers : next'[n] = next[n]
  BY <1>1, <1>3, ClosedStays
<1>4. ASSUME NEW c \in Consumers, Register(c)
      PROVE  \E T : ClosedUnder(next', T) /\ next'[x] \in T /\ x \notin T
  <2>1. CASE x = c
    BY <1>2, <1>4, <2>1, RegisterEffect
  <2>2. CASE x # c
    <3>1. ClosedUnder(next', S \cup {c, "end"})
      BY <1>1, <1>4, ClosedAfter
    <3>2. next'[x] \in S \cup {c, "end"}
      BY <1>1, <1>4, <2>2, RegisterEffect
    <3> QED
      BY <1>1, <1>2, <2>2, <3>1, <3>2
  <2> QED
    BY <2>1, <2>2
<1>5. ASSUME NEW c \in Consumers, Unregister(c)
      PROVE  \E T : ClosedUnder(next', T) /\ next'[x] \in T /\ x \notin T
  <2>1. ClosedUnder(next', S)
    BY <1>1, <1>5, ClosedAfter
  <2>2. next'[x] \in S
    BY <1>1, <1>5, UnregisterEffect DEF ClosedUnder
  <2> QED
    BY <1>1, <2>1, <2>2
<1>6. ASSUME NEW c \in Consumers, Synchronized(c)
      PROVE  \E T : ClosedUnder(next', T) /\ next'[x] \in T /\ x \notin T
  <2>1. CASE x = c
    BY <1>2, <1>6, <2>1, SynchronizedEffect
  <2>2. CASE x # c
    <3>1. ClosedUnder(next', S \cup {"end"})
      BY <1>1, <1>6, ClosedAfter
    <3>2. next'[x] \in S \cup {"end"}
      BY <1>1, <1>6, <2>2, SynchronizedEffect
    <3> QED
      BY <1>1, <1>2, <3>1, <3>2
  <2> QED
    BY <2>1, <2>2
<1> QED
  BY <1>3, <1>4, <1>5, <1>6, OtherSteps

(* And the other way round: from a set that is closed afterwards to one     *)
(* that was closed before.                                                  *)
LEMMA ClosedBefore ==
    ASSUME Inv, FreshInv, NEW c \in Consumers, NEW S, ClosedUnder(next', S)
    PROVE  /\ Register(c) => ClosedUnder(next, S \cup {"end"})
           /\ Unregister(c) => ClosedUnder(next, IF next[c] \in S THEN S \cup {c} ELSE S)
           /\ Synchronized(c) => ClosedUnder(next, S \cap (Listed \cup {"end"}))
<1> USE ConsumersAssumption DEF ClosedUnder, Blocks
<1>1. ASSUME Register(c)
      PROVE  ClosedUnder(next, S \cup {"end"})
  BY <1>1, RegisterEffect
<1>2. ASSUME Unregister(c)
      PROVE  ClosedUnder(next, IF next[c] \in S THEN S \cup {c} ELSE S)
  BY <1>2, UnregisterEffect
<1>3. ASSUME Synchronized(c)
      PROVE  ClosedUnder(next, S \cap (Listed \cup {"end"}))
  BY <1>3, SynchronizedEffect DEF Inv, ListInv, OnList
<1> QED
  BY <1>1, <1>2, <1>3

LEMMA ReachNext == Inv /\ FreshInv /\ ReachInv /\ [Next]_vars => ReachInv'
<1> SUFFICES ASSUME Inv, FreshInv, ReachInv, [Next]_vars,
                    NEW S, ClosedUnder(next', S), next'["head"] \in S
             PROVE  Listed' \cup {"end"} \subseteq S
  BY DEF ReachInv
<1> USE DEF Inv, TypeOK, timerVars, listVars, walkVars
<1>1. CASE PubInsmod
  BY <1>1 DEF PubInsmod, PubInv, Listed
<1>2. CASE UNCHANGED <<con, next>>
  BY <1>2 DEF ReachInv, Listed
<1>3. ASSUME NEW c \in Consumers, ConInsmod(c) \/ ConRmmod(c)
      PROVE  Listed' \cup {"end"} \subseteq S
  <2>1. Listed' = Listed /\ next' = next
    BY <1>3 DEF ConInsmod, ConRmmod, Listed
  <2> QED
    BY <2>1 DEF ReachInv
<1>4. ASSUME NEW c \in Consumers, Register(c)
      PROVE  Listed' \cup {"end"} \subseteq S
  <2>1. next["head"] \in S \cup {"end"}
    BY <1>4, RegisterEffect DEF OnList
  <2>2. Listed \subseteq S \cup {"end"}
    BY <1>4, <2>1, ClosedBefore DEF ReachInv
  <2>3. c \in S
    <3> SUFFICES ASSUME c \notin S
                 PROVE  FALSE
      OBVIOUS
    <3>1. \A n \in (S \cap Listed) \cup {"head"} : next[n] \in S \cap Listed
      BY <1>4, RegisterEffect DEF ClosedUnder, ListInv, OnList, Listed
    <3>2. ClosedUnder(next, S \cap Listed)
      BY <3>1 DEF ClosedUnder, Blocks, Listed
    <3> QED
      BY <3>1, <3>2, ConsumersAssumption DEF ReachInv, Listed
  <2>4. "end" \in S
    BY <1>4, <2>3, RegisterEffect DEF ClosedUnder
  <2> QED
    BY <1>4, <2>2, <2>3, <2>4, RegisterEffect
<1>5. ASSUME NEW c \in Consumers, Unregister(c)
      PROVE  Listed' \cup {"end"} \subseteq S
  <2>1. next["head"] \in IF next[c] \in S THEN S \cup {c} ELSE S
    BY <1>5, UnregisterEffect, ConsumersAssumption DEF OnList
  <2>2. Listed \cup {"end"} \subseteq S \cup {c}
    BY <1>5, <2>1, ClosedBefore DEF ReachInv
  <2> QED
    BY <1>5, <2>2, UnregisterEffect, ConsumersAssumption
<1>6. ASSUME NEW c \in Consumers, Synchronized(c)
      PROVE  Listed' \cup {"end"} \subseteq S
  <2>1. next["head"] \in S \cap (Listed \cup {"end"})
    BY <1>6, SynchronizedEffect DEF ListInv, OnList
  <2>2. Listed \cup {"end"} \subseteq S
    BY <1>6, <2>1, ClosedBefore DEF ReachInv
  <2> QED
    BY <1>6, <2>2, SynchronizedEffect
<1> QED
  BY <1>1, <1>2, <1>3, <1>4, <1>5, <1>6
     DEF Next, vars, PubInit, TimerCallback, ConsumerStep, PubNotify, PubNotified, EndWalk, CallNext,
         PubStartTimer, PubRmmod, PubDelTimerSync, Expire, Send, Sent, Rearm, Return

(* Each step either is one of the walk of the timer, or of the chain, or    *)
(* leaves what the timer walks on alone.                                    *)
LEMMA StepKinds ==
    ASSUME Inv, [Next]_vars
    PROVE  \/ Send \/ Sent \/ CallNext("timer")
           \/ /\ UNCHANGED <<at["timer"], nxt["timer"], due, told>>
              /\ \A n \in Consumers : next'[n] = next[n]
           \/ \E c \in Consumers : Register(c) \/ Unregister(c) \/ Synchronized(c)
<1> USE DEF Inv, TypeOK, timerVars, listVars, walkVars, Walkers
<1>1. CASE PubInsmod
  BY <1>1, ConsumersAssumption DEF PubInsmod
<1>2. CASE PubNotify
  BY <1>2 DEF PubNotify, BeginWalk
<1>3. CASE PubNotified
  BY <1>3 DEF PubNotified, EndWalk
<1>4. CASE CallNext("loader")
  BY <1>4 DEF CallNext
<1>5. CASE UNCHANGED <<at, nxt, due, told, next>>
  BY <1>5
<1> QED
  BY <1>1, <1>2, <1>3, <1>4, <1>5
     DEF Next, vars, PubInit, TimerCallback, ConsumerStep,
         PubStartTimer, PubRmmod, PubDelTimerSync, Expire, Rearm, Return, ConInsmod, ConRmmod

(* A walk that has come to the end has told everybody. *)
LEMMA NobodyDueAtEnd ==
    Inv /\ DueInv /\ nxt["timer"] = "end" => due = {}
<1>1. ClosedUnder(next, {"end"})
  BY ConsumersAssumption DEF ClosedUnder, Blocks
<1> QED
  BY <1>1, ConsumersAssumption DEF DueInv, Inv, TypeOK

LEMMA DueNext == Inv /\ FreshInv /\ ReachInv /\ DueInv /\ [Next]_vars => DueInv'
<1> SUFFICES ASSUME Inv, FreshInv, ReachInv, DueInv, [Next]_vars
             PROVE  DueInv'
  OBVIOUS
<1> USE DEF Inv, TypeOK, timerVars, listVars, walkVars, Walkers
<1>1. CASE Send
  <2>1. nxt'["timer"] = next["head"] /\ due' = Listed /\ next' = next /\ at'["timer"] = "head"
    BY <1>1 DEF Send, BeginWalk
  <2> QED
    BY <2>1 DEF DueInv, ReachInv
<1>2. CASE Sent
  <2>1. due' = {} /\ at'["timer"] = "idle"
    BY <1>2, NobodyDueAtEnd DEF Sent, EndWalk
  <2> QED
    BY <2>1 DEF DueInv
<1>3. CASE CallNext("timer")
  <2>1. /\ next' = next /\ nxt'["timer"] = next[nxt["timer"]]
        /\ due' = due \ {nxt["timer"]} /\ nxt["timer"] \in Consumers
        /\ at["timer"] # "idle" /\ at'["timer"] # "idle"
    BY <1>3, ConsumersAssumption DEF CallNext
  <2>2. ASSUME NEW S, ClosedUnder(next, S), next[nxt["timer"]] \in S
        PROVE  due' \subseteq S
    <3>1. ClosedUnder(next, S \cup {nxt["timer"]})
      BY <2>1, <2>2 DEF ClosedUnder, Blocks
    <3> QED
      BY <2>1, <3>1 DEF DueInv
  <2> QED
    BY <2>1, <2>2 DEF DueInv
<1>4. CASE /\ UNCHANGED <<at["timer"], nxt["timer"], due, told>>
           /\ \A n \in Consumers : next'[n] = next[n]
  BY <1>4, ClosedStays DEF DueInv
<1>5. ASSUME NEW c \in Consumers, Register(c) \/ Unregister(c) \/ Synchronized(c)
      PROVE  DueInv'
  <2>1. at' = at /\ nxt' = nxt /\ due' = IF Unregister(c) THEN due \ {c} ELSE due
    BY <1>5 DEF Register, Unregister, Synchronized
  <2>2. ASSUME NEW S, ClosedUnder(next', S), nxt["timer"] \in S, at["timer"] # "idle"
        PROVE  due' \subseteq S
    <3>1. CASE Register(c)
      <4>1. due \subseteq S \cup {"end"}
        BY <2>2, <3>1, ClosedBefore DEF DueInv
      <4> QED
        BY <2>1, <4>1, ConsumersAssumption
    <3>2. CASE Unregister(c)
      <4>1. due \subseteq S \cup {c}
        BY <2>2, <3>2, ClosedBefore DEF DueInv
      <4> QED
        BY <2>1, <3>2, <4>1
    <3>3. CASE Synchronized(c)
      <4> DEFINE T == {n \in S \cap Consumers : Safe("timer", n)} \cup {"end"}
      <4>1. \A n \in T \cap Consumers : n # c /\ n \in S /\ next'[n] = next[n]
        BY <3>3, SynchronizedEffect, ConsumersAssumption DEF Synchronized, Safe
      <4>2. \A n \in T \cap Consumers : next[n] \in Consumers => Safe("timer", next[n])
        BY ConsumersAssumption DEF WalkInv, ListInv, OnList, Listed, Safe
      <4>3. ClosedUnder(next, T)
        BY <2>2, <4>1, <4>2 DEF ClosedUnder, Blocks
      <4>4. nxt["timer"] \in T
        BY <2>2 DEF WalkInv, Active
      <4>5. due \subseteq T
        BY <2>2, <4>3, <4>4 DEF DueInv
      <4> QED
        BY <2>1, <4>5, ConsumersAssumption
    <3> QED
      BY <1>5, <3>1, <3>2, <3>3
  <2> QED
    BY <2>1, <2>2 DEF DueInv
<1> QED
  BY <1>1, <1>2, <1>3, <1>4, <1>5, StepKinds

LEMMA FlagNext ==
    Inv /\ FreshInv /\ DueInv /\ AcyclicInv /\ FlagInv /\ [Next]_vars => FlagInv'
<1> SUFFICES ASSUME Inv, FreshInv, DueInv, AcyclicInv, FlagInv, [Next]_vars
             PROVE  FlagInv'
  OBVIOUS
<1> USE DEF Inv, TypeOK, PubInv, timerVars, listVars, walkVars
<1>1. /\ Message("timer") = IF flag = 1 THEN "FLAG_1" ELSE "FLAG_2"
      /\ Message("timer")' = IF flag' = 1 THEN "FLAG_1" ELSE "FLAG_2"
      /\ "timer" \in Walkers
  BY DEF Message, Walkers
<1>2. CASE Send
  <2>1. /\ cb = "send" /\ cb' = "walk" /\ at'["timer"] = "head" /\ due' = Listed
        /\ nxt'["timer"] = next["head"] /\ UNCHANGED <<con, next, told, flag>>
    BY <1>1, <1>2 DEF Send, BeginWalk
  <2>2. Listed' = Listed
    BY <2>1 DEF Listed
  <2>3. ClosedUnder(next, Listed \cup {"end"}) /\ next["head"] \in Listed \cup {"end"}
    BY ConsumersAssumption DEF ClosedUnder, Blocks, ListInv, OnList, Listed
  <2>4. \A c \in (Listed \cup {"end"}) \cap Consumers : told[c] # Message("timer")
    BY <2>1, ConsumersAssumption DEF FlagInv
  <2> QED
    BY <1>1, <2>1, <2>2, <2>3, <2>4 DEF FlagInv
<1>3. CASE Sent
  <2>1. /\ cb = "walk" /\ cb' = "rearm" /\ at'["timer"] = "idle" /\ nxt["timer"] = "end"
        /\ UNCHANGED <<con, told, flag>>
    BY <1>1, <1>3 DEF Sent, EndWalk
  <2>2. due = {} /\ Listed' = Listed
    BY <2>1, NobodyDueAtEnd DEF Listed
  <2> QED
    BY <1>1, <2>1, <2>2 DEF FlagInv
<1>4. CASE CallNext("timer")
  <2> DEFINE x == nxt["timer"]
  <2>1. /\ x \in Consumers /\ at["timer"] # "idle" /\ cb = "walk"
        /\ nxt'["timer"] = next[x] /\ due' = due \ {x}
        /\ told' = [told EXCEPT ![x] = Message("timer")]
        /\ UNCHANGED <<con, next, flag, cb>>
    BY <1>1, <1>4 DEF CallNext
  <2>2. Listed' = Listed /\ Message("timer")' = Message("timer")
    BY <1>1, <2>1 DEF Listed
  <2>3. \A c \in Consumers : told'[c] = IF c = x THEN Message("timer") ELSE told[c]
    BY <2>1
  <2>4. PICK S : /\ ClosedUnder(next, S) /\ x \in S
                 /\ \A c \in S \cap Consumers : told[c] # Message("timer")
    BY <2>1 DEF FlagInv
  <2>5. PICK T : ClosedUnder(next, T) /\ next[x] \in T /\ x \notin T
    BY <2>1 DEF AcyclicInv
  <2>6. ClosedUnder(next, S \cap T) /\ next[x] \in S \cap T
    BY <2>1, <2>4, <2>5 DEF ClosedUnder
  <2>7. \A c \in (S \cap T) \cap Consumers : told'[c] # Message("timer")'
    BY <2>2, <2>3, <2>4, <2>5
  <2>8. \A c \in Listed : \/ told'[c] \in {"none", Message("timer")}
                          \/ c \in due'
    BY <2>1, <2>3 DEF FlagInv, Listed
  <2> QED
    BY <2>1, <2>2, <2>6, <2>7, <2>8 DEF FlagInv
<1>5. CASE Rearm
  <2>1. /\ cb = "rearm" /\ cb' = "return" /\ at["timer"] = "idle" /\ flag' = 1 - flag
        /\ UNCHANGED <<con, told, at>>
    BY <1>1, <1>5 DEF Rearm
  <2>2. Listed' = Listed /\ Message("timer")' \notin {"none", Message("timer")}
    BY <1>1, <2>1 DEF Listed
  <2> QED
    BY <2>1, <2>2 DEF FlagInv
<1>6. CASE Expire \/ Return
  <2>1. /\ cb \in {"idle", "return"} /\ cb' \in {"idle", "send"} /\ at["timer"] = "idle"
        /\ UNCHANGED <<con, told, at, flag>>
    BY <1>1, <1>6 DEF Expire, Return
  <2>2. Listed' = Listed
    BY <2>1 DEF Listed
  <2> QED
    BY <1>1, <2>1, <2>2 DEF FlagInv
<1>7. CASE PubInsmod
  <2>1. cb' = "idle" /\ at'["timer"] = "idle" /\ Listed' = {}
    BY <1>1, <1>7 DEF PubInsmod, Listed
  <2> QED
    BY <2>1 DEF FlagInv
<1>8. CASE /\ UNCHANGED <<cb, flag, told, due, next, at["timer"], nxt["timer"]>>
           /\ Listed' = Listed
  BY <1>1, <1>8 DEF FlagInv
<1>9. CASE PubNotify \/ PubNotified \/ CallNext("loader")
  <2>1. UNCHANGED <<cb, flag, told, due, con, next, at["timer"], nxt["timer"]>>
    BY <1>9 DEF PubNotify, PubNotified, CallNext, BeginWalk, EndWalk, Walkers
  <2> QED
    BY <1>8, <2>1 DEF Listed
<1>10. ASSUME NEW c \in Consumers, ConInsmod(c) \/ ConRmmod(c)
       PROVE  FlagInv'
  BY <1>8, <1>10 DEF ConInsmod, ConRmmod, Listed
<1>11. ASSUME NEW c \in Consumers, Register(c) \/ Unregister(c) \/ Synchronized(c)
       PROVE  FlagInv'
  <2>1. /\ UNCHANGED <<cb, flag, at, nxt>>
        /\ due' = IF Unregister(c) THEN due \ {c} ELSE due
        /\ Message("timer")' = Message("timer") /\ Message("timer") # "none"
    BY <1>1, <1>11 DEF Register, Unregister, Synchronized
  <2>2. /\ Listed' \subseteq Listed \cup {c}
        /\ Register(c) => told'[c] = "none"
        /\ Unregister(c) => c \notin Listed'
        /\ Synchronized(c) => told'[c] = "none"
        /\ \A n \in Consumers \ {c} : told'[n] = told[n]
        /\ ~Synchronized(c) => told' = told
    <3>1. CASE Register(c)
      <4>1. told' = told
        BY <3>1 DEF Register
      <4>2. ~Unregister(c) /\ ~Synchronized(c)
        BY <3>1 DEF Register, Unregister, Synchronized
      <4> QED
        BY <3>1, <4>1, <4>2, RegisterEffect
    <3>2. CASE Unregister(c)
      <4>1. told' = told
        BY <3>2 DEF Unregister
      <4>2. ~Register(c) /\ ~Synchronized(c)
        BY <3>2 DEF Register, Unregister, Synchronized
      <4> QED
        BY <3>2, <4>1, <4>2, UnregisterEffect
    <3>3. CASE Synchronized(c)
      <4>1. ~Register(c) /\ ~Unregister(c)
        BY <3>3 DEF Register, Unregister, Synchronized
      <4> QED
        BY <3>3, <4>1, SynchronizedEffect
    <3> QED
      BY <1>11, <3>1, <3>2, <3>3
  <2>3. \A n \in Listed' : (n \in Listed /\ told'[n] = told[n] /\ n # c) \/ told'[n] = "none"
    BY <1>11, <2>2 DEF Listed
  <2>4. ASSUME at["timer"] # "idle"
        PROVE  \E S : /\ ClosedUnder(next', S) /\ nxt["timer"] \in S
                      /\ \A n \in S \cap Consumers : told'[n] # Message("timer")
    <3>1. PICK S : /\ ClosedUnder(next, S) /\ nxt["timer"] \in S
                   /\ \A n \in S \cap Consumers : told[n] # Message("timer")
      BY <2>4 DEF FlagInv
    <3>2. CASE Register(c)
      <4>1. ClosedUnder(next', S \cup {c, "end"})
        BY <3>1, <3>2, ClosedAfter
      <4>2. \A n \in (S \cup {c, "end"}) \cap Consumers : told'[n] # Message("timer")
        BY <2>1, <2>2, <3>1, <3>2, ConsumersAssumption
      <4> QED
        BY <2>1, <3>1, <4>1, <4>2
    <3>3. CASE Unregister(c)
      BY <2>2, <3>1, <3>3, ClosedAfter DEF Unregister
    <3>4. CASE Synchronized(c)
      <4>1. ClosedUnder(next', S \cup {"end"})
        BY <3>1, <3>4, ClosedAfter
      <4>2. \A n \in (S \cup {"end"}) \cap Consumers : told'[n] # Message("timer")
        BY <2>1, <2>2, <3>1, <3>4, ConsumersAssumption
      <4> QED
        BY <2>1, <3>1, <4>1, <4>2
    <3> QED
      BY <1>11, <3>2, <3>3, <3>4
  <2> QED
    BY <2>1, <2>3, <2>4 DEF FlagInv
<1>12. CASE PubStartTimer \/ PubRmmod \/ PubDelTimerSync \/ UNCHANGED vars
  BY <1>8, <1>12 DEF PubStartTimer, PubRmmod, PubDelTimerSync, vars, Listed
<1> QED
  BY <1>2, <1>3, <1>4, <1>5, <1>6, <1>7, <1>9, <1>10, <1>11, <1>12
     DEF Next, Walkers, PubInit, TimerCallback, ConsumerStep

-----------------------------------------------------------------------------
LEMMA ChainInvariance == Spec => [](Inv /\ ChainInv)
<1>1. Inv /\ ChainInv /\ [Next]_vars => ChainInv'
  BY FreshNext, ReachNext, DueNext, AcyclicNext, FlagNext DEF ChainInv
<1> QED
  BY InitChain, Invariance, <1>1, PTL DEF Spec

(* Whoever is registered from the beginning to the end of a notification is *)
(* told, for any consumers and whatever they register and unregister        *)
(* meanwhile.                                                               *)
THEOREM EverybodyHears == Spec => []EveryoneIsTold
<1>1. ChainInv => EveryoneIsTold
  BY DEF ChainInv, DueInv, EveryoneIsTold
<1> QED
  BY <1>1, ChainInvariance, PTL

(* No consumer is told the same flag twice in a row: within one walk,       *)
(* because the block it goes to next is behind all that were told; and      *)
(* from one walk to the next, because everybody on the chain was told the   *)
(* flag that is now out of date, or has come since and was told nothing.    *)
THEOREM FlagsAreToldInTurn == Spec => FlagsAlternate
<1>1. ASSUME Inv, ChainInv, NEW c \in Consumers, CallNext("timer"), nxt["timer"] = c
      PROVE  told[c] # Message("timer")
  BY <1>1 DEF ChainInv, FlagInv, CallNext
<1>2. Inv /\ ChainInv =>
        [\A c \in Consumers :
            CallNext("timer") /\ nxt["timer"] = c => told[c] # Message("timer")]_vars
  BY <1>1
<1> QED
  BY <1>2, ChainInvariance, PTL DEF FlagsAlternate
=============================================================================
