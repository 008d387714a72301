----------------------------- MODULE NotifyChain -----------------------------
(***************************************************************************)
(* notify_chain_publisher.c and notify_chain_consumer.c: a module that owns *)
(* a notifier chain and a repetitive timer, and modules that register with  *)
(* it.  The consumers use symbols the publisher exports, so the kernel      *)
(* loads them only while the publisher is live and keeps it until they are  *)
(* gone.  Publisher and consumers may be loaded and unloaded repeatedly.    *)
(*                                                                          *)
(* A notification walks the list while consumers come and go: only RCU      *)
(* stands between the timer's softirq and the code of a consumer that is    *)
(* being unloaded.  An action is one access to the list.                    *)
(***************************************************************************)
EXTENDS Naturals

CONSTANT Consumers      \* modules like notify_chain_consumer.c

(* "head" is the chain's head, "end" the NULL that ends it, and a walker    *)
(* that does not walk is "idle".                                            *)
ASSUME ConsumersAssumption == Consumers \cap {"head", "end", "idle"} = {}

(* Who calls call_consumers: init and exit of the publisher, or its timer. *)
Walkers == {"loader", "timer"}

VARIABLES
    pub,     \* where the publisher's init or exit function is
    timer,   \* nc_timer: "off" or "armed"
    cb,      \* where timer_callback is
    flag,    \* its static variable, of which only the lowest bit is used
    con,     \* where each consumer's init or exit function is
    next,    \* the next pointer of the head and of each consumer's notifier_block
    at,      \* the block each walker is calling, "head" before the first one
    nxt,     \* the block the walker will call next
    waits,   \* the walkers that the synchronize_rcu of a consumer waits for
    told,    \* the last flag each consumer was told since it was loaded
    due      \* the consumers that the walk of the timer has yet to reach

vars == <<pub, timer, cb, flag, con, next, at, nxt, waits, told, due>>
timerVars == <<timer, cb, flag>>
listVars == <<con, next, waits>>
walkVars == <<at, nxt, told, due>>

(* The blocks that are on the chain: added by register, removed by          *)
(* unregister.                                                              *)
Listed == {c \in Consumers : con[c] \in {"live", "exit"}}

Active == {w \in Walkers : at[w] # "idle"}

Init ==
    /\ pub = "absent"
    /\ timer = "off"
    /\ cb = "idle"
    /\ flag = 0
    /\ con = [c \in Consumers |-> "absent"]
    /\ next = [n \in Consumers \cup {"head"} |-> "end"]
    /\ at = [w \in Walkers |-> "idle"]
    /\ nxt = [w \in Walkers |-> "end"]
    /\ waits = [c \in Consumers |-> {}]
    /\ told = [c \in Consumers |-> "none"]
    /\ due = {}

-----------------------------------------------------------------------------
(* call_consumers: atomic_notifier_call_chain under rcu_read_lock.          *)

(* What the walker sends.  It matters only as long as it walks. *)
Message(w) ==
    CASE w = "timer"  -> IF flag = 1 THEN "FLAG_1" ELSE "FLAG_2"
      [] w = "loader" -> IF pub = "notify_init" THEN "INIT" ELSE "EXIT"

BeginWalk(w) ==
    /\ at[w] = "idle"
    /\ at' = [at EXCEPT ![w] = "head"]
    /\ nxt' = [nxt EXCEPT ![w] = next["head"]]
    /\ due' = IF w = "timer" THEN Listed ELSE due
    /\ UNCHANGED told

(* The next pointer is read before the callback is called. *)
CallNext(w) ==
    /\ at[w] # "idle"
    /\ nxt[w] # "end"
    /\ at' = [at EXCEPT ![w] = nxt[w]]
    /\ nxt' = [nxt EXCEPT ![w] = next[nxt[w]]]
    /\ IF w = "timer"
         THEN told' = [told EXCEPT ![nxt[w]] = Message(w)] /\ due' = due \ {nxt[w]}
         ELSE UNCHANGED <<told, due>>
    /\ UNCHANGED <<pub, timerVars, listVars>>

(* rcu_read_unlock: whoever waited for this walker no longer does. *)
EndWalk(w) ==
    /\ at[w] # "idle"
    /\ nxt[w] = "end"
    /\ at' = [at EXCEPT ![w] = "idle"]
    /\ waits' = [c \in Consumers |-> waits[c] \ {w}]
    /\ UNCHANGED <<nxt, told, due, con, next>>

-----------------------------------------------------------------------------
(* The publisher *)

(* A module that is loaded anew has its static variables anew. *)
PubInsmod ==
    /\ pub = "absent"
    /\ pub' = "notify_init"
    /\ flag' = 0
    /\ next' = [next EXCEPT !["head"] = "end"]
    /\ UNCHANGED <<timer, cb, con, waits, walkVars>>

(* call_consumers(NOTIFY_CHAIN_INIT) and call_consumers(NOTIFY_CHAIN_EXIT) *)
PubNotify ==
    /\ pub \in {"notify_init", "notify_exit"}
    /\ BeginWalk("loader")
    /\ UNCHANGED <<pub, timerVars, listVars>>

PubNotified ==
    /\ EndWalk("loader")
    /\ pub' = IF pub = "notify_init" THEN "setup" ELSE "delete"
    /\ UNCHANGED timerVars

(* timer_setup, mod_timer, and init returns. *)
PubStartTimer ==
    /\ pub = "setup"
    /\ timer' = "armed"
    /\ pub' = "live"
    /\ UNCHANGED <<cb, flag, listVars, walkVars>>

PubRmmodForced ==
    /\ pub = "live"
    /\ pub' = "notify_exit"
    /\ UNCHANGED <<timerVars, listVars, walkVars>>

(* A consumer holds a reference on the module whose symbols it uses. *)
PubRmmod ==
    /\ pub = "live"
    /\ \A c \in Consumers : con[c] = "absent"
    /\ pub' = "notify_exit"
    /\ UNCHANGED <<timerVars, listVars, walkVars>>

PubDelTimer ==
    /\ pub = "delete"
    /\ timer' = "off"
    /\ pub' = "absent"
    /\ UNCHANGED <<cb, flag, listVars, walkVars>>

(* Waiting until the timer is no longer pending. *)
PubDelTimerPending ==
    /\ pub = "delete"
    /\ cb = "idle"
    /\ timer = "off"
    /\ pub' = "absent"
    /\ UNCHANGED <<timerVars, listVars, walkVars>>

(* del_timer_sync, retried while the callback is running; then the code of  *)
(* the module goes away.                                                    *)
PubDelTimerSync ==
    /\ pub = "delete"
    /\ cb = "idle"
    /\ timer' = "off"
    /\ pub' = "absent"
    /\ UNCHANGED <<cb, flag, listVars, walkVars>>

-----------------------------------------------------------------------------
(* timer_callback *)

Expire ==
    /\ timer = "armed"
    /\ cb = "idle"
    /\ timer' = "off"
    /\ cb' = "send"
    /\ UNCHANGED <<pub, flag, listVars, walkVars>>

Send ==
    /\ cb = "send"
    /\ BeginWalk("timer")
    /\ cb' = "walk"
    /\ UNCHANGED <<pub, timer, flag, listVars>>

Sent ==
    /\ EndWalk("timer")
    /\ cb' = "rearm"
    /\ UNCHANGED <<pub, timer, flag>>

RearmOnly ==
    /\ cb = "rearm"
    /\ timer' = "armed"
    /\ cb' = "return"
    /\ UNCHANGED <<pub, flag, listVars, walkVars>>

CountOnly ==
    /\ cb = "rearm"
    /\ flag' = 1 - flag
    /\ cb' = "return"
    /\ UNCHANGED <<pub, timer, listVars, walkVars>>

(* The flag as if it were compared and not masked. *)
RearmUnmasked ==
    /\ cb = "rearm"
    /\ flag' = flag + 1
    /\ timer' = "armed"
    /\ cb' = "return"
    /\ UNCHANGED <<pub, listVars, walkVars>>

(* ++flag; mod_timer *)
Rearm ==
    /\ cb = "rearm"
    /\ flag' = 1 - flag
    /\ timer' = "armed"
    /\ cb' = "return"
    /\ UNCHANGED <<pub, listVars, walkVars>>

Return ==
    /\ cb = "return"
    /\ cb' = "idle"
    /\ UNCHANGED <<pub, timer, flag, listVars, walkVars>>

-----------------------------------------------------------------------------
(* A consumer *)

(* Its symbols resolve only to a publisher that is live. *)
ConInsmod(c) ==
    /\ con[c] = "absent"
    /\ pub = "live"
    /\ con' = [con EXCEPT ![c] = "init"]
    /\ UNCHANGED <<pub, timerVars, next, waits, walkVars>>

(* register_sample_notifier, which never fails: all priorities are equal,   *)
(* so the block is added at the end of the chain.                           *)
Register(c) ==
    /\ con[c] = "init"
    /\ con' = [con EXCEPT ![c] = "live"]
    /\ next' = [n \in DOMAIN next |->
                  CASE n = c -> "end"
                    [] n \in Listed \cup {"head"} /\ next[n] = "end" -> c
                    [] OTHER -> next[n]]
    /\ UNCHANGED <<pub, timerVars, waits, walkVars>>

ConRmmod(c) ==
    /\ con[c] = "live"
    /\ con' = [con EXCEPT ![c] = "exit"]
    /\ UNCHANGED <<pub, timerVars, next, waits, walkVars>>

(* The pointer that leads to c now leads past it. *)
Unlink(c) ==
    next' = [n \in DOMAIN next |->
               IF n \in (Listed \cup {"head"}) \ {c} /\ next[n] = c THEN next[c] ELSE next[n]]

(* raw_notifier_chain_unregister, which waits for nobody. *)
UnregisterRaw(c) ==
    /\ con[c] = "exit"
    /\ con' = [con EXCEPT ![c] = "sync"]
    /\ Unlink(c)
    /\ due' = due \ {c}
    /\ UNCHANGED <<pub, timerVars, waits, at, nxt, told>>

(* The removed block is cleared, as list_del would. *)
UnregisterClearing(c) ==
    /\ con[c] = "exit"
    /\ con' = [con EXCEPT ![c] = "sync"]
    /\ next' = [n \in DOMAIN next |->
                  IF n = c THEN "end"
                  ELSE IF n \in Listed \cup {"head"} /\ next[n] = c THEN next[c] ELSE next[n]]
    /\ due' = due \ {c}
    /\ waits' = [waits EXCEPT ![c] = Active]
    /\ UNCHANGED <<pub, timerVars, at, nxt, told>>

(* unregister_sample_notifier: unlink, then synchronize_rcu waits for the   *)
(* walkers that are under way.                                              *)
Unregister(c) ==
    /\ con[c] = "exit"
    /\ con' = [con EXCEPT ![c] = "sync"]
    /\ Unlink(c)
    /\ due' = due \ {c}
    /\ waits' = [waits EXCEPT ![c] = Active]
    /\ UNCHANGED <<pub, timerVars, at, nxt, told>>

(* exit returns and the code of the consumer goes away. *)
Synchronized(c) ==
    /\ con[c] = "sync"
    /\ waits[c] = {}
    /\ con' = [con EXCEPT ![c] = "absent"]
    /\ next' = [next EXCEPT ![c] = "end"]
    /\ told' = [told EXCEPT ![c] = "none"]
    /\ UNCHANGED <<pub, timerVars, waits, at, nxt, due>>

-----------------------------------------------------------------------------
PubInit == PubInsmod \/ PubNotify \/ PubNotified \/ PubStartTimer

TimerCallback == Send \/ Sent \/ Rearm \/ Return

ConsumerStep(c) == Register(c) \/ Unregister(c) \/ Synchronized(c)

Next ==
    \/ PubInit \/ PubRmmod \/ PubDelTimerSync
    \/ Expire \/ TimerCallback
    \/ \E w \in Walkers : CallNext(w)
    \/ \E c \in Consumers : ConInsmod(c) \/ ConRmmod(c) \/ ConsumerStep(c)

(* Code that is running goes on running, the timer expires, and one of the  *)
(* retries of del_timer_sync finds the callback idle, as it is for most of  *)
(* each half second.  Nobody has to load or unload anything.                *)
Fairness ==
    /\ WF_vars(PubNotify) /\ WF_vars(PubNotified) /\ WF_vars(PubStartTimer)
    /\ SF_vars(PubDelTimerSync)
    /\ WF_vars(Expire) /\ WF_vars(TimerCallback)
    /\ \A w \in Walkers : WF_vars(CallNext(w))
    /\ \A c \in Consumers : WF_vars(ConsumerStep(c))

Spec == Init /\ [][Next]_vars /\ Fairness

-----------------------------------------------------------------------------
(* Every variable keeps its type. *)
TypeOK ==
    /\ pub \in {"absent", "notify_init", "setup", "live", "notify_exit", "delete"}
    /\ timer \in {"off", "armed"}
    /\ cb \in {"idle", "send", "walk", "rearm", "return"}
    /\ flag \in {0, 1}
    /\ con \in [Consumers -> {"absent", "init", "live", "exit", "sync"}]
    /\ next \in [Consumers \cup {"head"} -> Consumers \cup {"end"}]
    /\ at \in [Walkers -> Consumers \cup {"idle", "head"}]
    /\ nxt \in [Walkers -> Consumers \cup {"end"}]
    /\ waits \in [Consumers -> SUBSET Walkers]
    /\ told \in [Consumers -> {"none", "FLAG_1", "FLAG_2"}]
    /\ due \subseteq Consumers

(* No notification calls, or is about to call, the code of a consumer that  *)
(* is not loaded, however registering, unregistering and walking interleave. *)
OnlyLoadedIsCalled ==
    \A w \in Active :
        /\ at[w] \in Consumers => con[at[w]] # "absent"
        /\ nxt[w] \in Consumers => con[nxt[w]] # "absent"

(* A consumer that is registered from the beginning to the end of a         *)
(* notification is told, though others leave the chain around it.           *)
EveryoneIsTold == at["timer"] = "idle" => due = {}

(* Each consumer is told the two flags in turn, none twice and none left    *)
(* out, as the transcript in the README shows.                              *)
FlagsAlternate ==
    [][\A c \in Consumers :
          CallNext("timer") /\ nxt["timer"] = c => told[c] # Message("timer")]_vars

(* The notifications of the publisher's own init and exit reach nobody: no  *)
(* consumer can be loaded at the time.  So no flag follows an EXIT either,  *)
(* though the timer still runs when EXIT is sent.                           *)
InitAndExitReachNobody == at["loader"] \notin Consumers

(* A consumer is notified again and again until it is unloaded. *)
ConsumersAreNotified ==
    \A c \in Consumers : con[c] = "live" ~> at["timer"] = c \/ con[c] # "live"

(* rmmod of the publisher and of a consumer return. *)
ExitCompletes ==
    /\ pub = "notify_exit" ~> pub = "absent"
    /\ \A c \in Consumers : con[c] = "exit" ~> con[c] = "absent"

-----------------------------------------------------------------------------
(* The publisher as the kernel sees it; its storage is static, in use from  *)
(* timer_setup on.                                                          *)
phaseBar ==
    CASE pub = "absent" -> "absent"
      [] pub \in {"notify_init", "setup"} -> "loading"
      [] pub = "live" -> "live"
      [] pub \in {"notify_exit", "delete"} -> "unloading"

Lifetime == INSTANCE ModuleLifetime WITH
    Contexts <- {"timer"},
    phase <- phaseBar,
    memory <- pub \in {"setup", "live", "notify_exit", "delete"},
    busy <- IF cb = "idle" THEN {} ELSE {"timer"}

(* The publisher keeps the contract of ModuleLifetime. *)
KeepsLifetime == Lifetime!Spec
=============================================================================
