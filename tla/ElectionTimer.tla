---------------------------- MODULE ElectionTimer ----------------------------
(***************************************************************************)
(* The election timer of one peer (src/raft/raft.go): ticker stops the     *)
(* timer rf.electionTimeout points to and stores a new one.  Handlers call *)
(* it with rf.mu held; Make and AttemptEletion call it without, so calls   *)
(* of ticker run beside each other and beside callbacks of timers that     *)
(* have expired and wait for the lock.                                     *)
(*                                                                         *)
(* Raft.tla lets the timer of a server that does not lead fire at any      *)
(* moment.  This module shows that such a server always has something that *)
(* leads to an election, and what the races on the pointer can do.         *)
(*                                                                         *)
(* Terms, votes and logs are left out: the other peers are an environment  *)
(* that makes the server win, step down or reset its timer.  The names     *)
(* differ from those of Raft.tla, so that RaftProofs can extend both.      *)
(***************************************************************************)
EXTENDS Integers, FiniteSets

CONSTANT MaxTimers  \* bound on timers, callbacks and goroutines at a time

ASSUME TimersAssumption == MaxTimers \in Nat \ {0}


Timer     == 1 .. MaxTimers + 1
NoTimer   == 0                  \* rf.electionTimeout before the first ticker
Handler   == 0                  \* the goroutine that holds rf.mu
Goroutine == 1 .. MaxTimers     \* those that run without it

VARIABLES
    role,               \* rf.state
    killed,             \* rf.dead
    electionTimeout,    \* rf.electionTimeout
    timer,              \* of every timer: idle, armed, or expired with its
                        \* callback waiting for rf.mu
    pc,                 \* where the goroutines are
    overlapped          \* history: two calls of ticker ran beside each other

timerVars == <<role, killed, electionTimeout, timer, pc, overlapped>>

Armed   == {t \in Timer : timer[t] = "armed"}
Waiting == {t \in Timer : timer[t] = "expired"}
Busy    == {g \in Goroutine : pc[g] # "free"}

\* rf.mu is free.
Unlocked == pc[Handler] = "free"

\* Make: the first ticker runs as a goroutine.
TimerInit ==
    /\ role = "follower"
    /\ killed = FALSE
    /\ electionTimeout = NoTimer
    /\ timer = [t \in Timer |-> "idle"]
    /\ pc = [g \in {Handler} \union Goroutine |-> IF g = 1 THEN "ticker" ELSE "free"]
    /\ overlapped = FALSE

----------------------------------------------------------------------------
(* ticker: killed is tested and the old timer stopped, then a new one is   *)
(* armed and stored.                                                       *)

\* Mutant: killed is not tested.
StopUnchecked(g) ==
    /\ pc[g] = "ticker"
    /\ pc' = [pc EXCEPT ![g] = "arm"]
    /\ timer' = [t \in Timer |-> IF t = electionTimeout /\ timer[t] = "armed"
                                 THEN "idle" ELSE timer[t]]
    /\ overlapped' = (overlapped \/ \E h \in DOMAIN pc : pc[h] = "arm")
    /\ UNCHANGED <<role, killed, electionTimeout>>

\* Mutant: the old timer is not stopped.
StopNothing(g) ==
    /\ pc[g] = "ticker"
    /\ pc' = [pc EXCEPT ![g] = IF killed THEN "free" ELSE "arm"]
    /\ overlapped' = (overlapped \/ (~killed /\ \E h \in DOMAIN pc : pc[h] = "arm"))
    /\ UNCHANGED <<role, killed, electionTimeout, timer>>

\* Stop has no effect on a timer that has expired: its callback goes on.
Stop(g) ==
    /\ pc[g] = "ticker"
    /\ \/ /\ killed
          /\ pc' = [pc EXCEPT ![g] = "free"]
          /\ UNCHANGED <<timer, overlapped>>
       \/ /\ ~killed
          /\ pc' = [pc EXCEPT ![g] = "arm"]
          /\ timer' = [t \in Timer |-> IF t = electionTimeout /\ timer[t] = "armed"
                                       THEN "idle" ELSE timer[t]]
          /\ overlapped' = (overlapped \/ \E h \in DOMAIN pc : pc[h] = "arm")
    /\ UNCHANGED <<role, killed, electionTimeout>>

\* Timers nobody has a pointer to: there always is one.
Unused == {t \in Timer : timer[t] = "idle" /\ t # electionTimeout}

AfterFunc(g) ==
    LET t == CHOOSE t \in Unused : TRUE IN
    /\ pc[g] = "arm" /\ Unused # {}
    /\ pc' = [pc EXCEPT ![g] = "free"]
    /\ timer' = [timer EXCEPT ![t] = "armed"]
    /\ electionTimeout' = t
    /\ UNCHANGED <<role, killed, overlapped>>

----------------------------------------------------------------------------
(* A timer expires; its callback takes the lock and starts an election,    *)
(* which takes the lock again.                                             *)

Expire(t) ==
    /\ timer[t] = "armed"
    /\ timer' = [timer EXCEPT ![t] = "expired"]
    /\ UNCHANGED <<role, killed, electionTimeout, pc, overlapped>>

Callback(t) ==
    /\ timer[t] = "expired" /\ Unlocked
    /\ timer' = [timer EXCEPT ![t] = "idle"]
    /\ \/ /\ role # "leader"
          /\ Busy # Goroutine
          /\ LET g == CHOOSE g \in Goroutine \ Busy : TRUE
             IN  pc' = [pc EXCEPT ![g] = "attempt"]
       \/ /\ role = "leader"
          /\ UNCHANGED pc
    /\ UNCHANGED <<role, killed, electionTimeout, overlapped>>

\* Mutant: no timer for the next attempt.
AttemptOnce(g) ==
    /\ pc[g] = "attempt" /\ Unlocked
    /\ role' = "candidate"
    /\ pc' = [pc EXCEPT ![g] = "free"]
    /\ UNCHANGED <<killed, electionTimeout, timer, overlapped>>

\* AttemptEletion.  The state is not tested again: a server that has won in the
\* meantime stands for election once more.
Attempt(g) ==
    /\ pc[g] = "attempt" /\ Unlocked
    /\ role' = "candidate"
    /\ pc' = [pc EXCEPT ![g] = "ticker"]
    /\ UNCHANGED <<killed, electionTimeout, timer, overlapped>>

----------------------------------------------------------------------------
(* Other critical sections *)

\* conevrtToLeader, in the goroutine that counts the last vote.
Win ==
    /\ role = "candidate" /\ Unlocked
    /\ role' = "leader"
    /\ UNCHANGED <<killed, electionTimeout, timer, pc, overlapped>>

\* The handlers that call ticker with the lock held: AppendEntries, RequestVote
\* when it grants the vote (the state stays), and replies of a later term.
Reset ==
    /\ Unlocked
    /\ Cardinality(Armed) + Cardinality(Waiting) + Cardinality(Busy) < MaxTimers
    /\ role' \in {role, "follower"}
    /\ pc' = [pc EXCEPT ![Handler] = "ticker"]
    /\ UNCHANGED <<killed, electionTimeout, timer, overlapped>>

Kill ==
    /\ ~killed
    /\ killed' = TRUE
    /\ UNCHANGED <<role, electionTimeout, timer, pc, overlapped>>

----------------------------------------------------------------------------
TimerNext ==
    \/ \E g \in {Handler} \union Goroutine : Stop(g)
    \/ \E g \in {Handler} \union Goroutine : AfterFunc(g)
    \/ \E t \in Timer : Expire(t)
    \/ \E t \in Timer : Callback(t)
    \/ \E g \in Goroutine : Attempt(g)
    \/ Win
    \/ Reset
    \/ Kill

TimerSpec == TimerInit /\ [][TimerNext]_timerVars

\* Goroutines run and timers expire.  sync.Mutex hands the lock to a goroutine
\* that has waited too long, so whoever keeps trying gets it.
Fairness ==
    /\ \A g \in {Handler} \union Goroutine : WF_timerVars(Stop(g)) /\ WF_timerVars(AfterFunc(g))
    /\ \A t \in Timer : WF_timerVars(Expire(t)) /\ SF_timerVars(Callback(t))
    /\ \A g \in Goroutine : SF_timerVars(Attempt(g))

FairSpec == TimerSpec /\ Fairness

----------------------------------------------------------------------------
(* Properties *)

\* Every field has its shape.
TimerTypeOK ==
    /\ role \in {"leader", "follower", "candidate"}
    /\ killed \in BOOLEAN /\ overlapped \in BOOLEAN
    /\ electionTimeout \in Timer \union {NoTimer}
    /\ timer \in [Timer -> {"idle", "armed", "expired"}]
    /\ pc \in [{Handler} \union Goroutine -> {"free", "attempt", "ticker", "arm"}]

\* A live server that does not lead has a timer that is armed, a callback that
\* waits, or a call of AttemptEletion or ticker under way: however ticker, Stop
\* and expired timers overlap, the server cannot be left without an election to
\* come.  Raft.tla relies on this.
TimerOrElection ==
    ~killed /\ role # "leader" => Armed # {} \/ Waiting # {} \/ Busy # {} \/ ~Unlocked

\* A timer that rf.electionTimeout does not point to, which no heartbeat can
\* stop, is left armed only if two calls of ticker ran beside each other: the
\* calls of AttemptEletion and Make, which do not hold rf.mu, are what it takes.
LeakNeedsOverlap == ~overlapped => Armed \subseteq {electionTimeout}

\* A server that is alive, does not lead and hears nothing any more stands for
\* election again and again.
SilentServerElects ==
    <>[](~killed /\ role # "leader") /\ <>[][pc'[Handler] # "ticker"]_timerVars
        => []<><<\E g \in Goroutine : Attempt(g)>>_timerVars

\* After Kill, what timers and goroutines there are, leaked ones included, dies
\* out: ticker arms no new timer, although neither the callback nor
\* AttemptEletion looks at killed.
KilledGoesQuiet == killed ~> [](Armed = {} /\ Waiting = {} /\ Busy = {})
=============================================================================
