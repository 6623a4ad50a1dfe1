----------------------------- MODULE ShardClerk -----------------------------
(***************************************************************************)
(* The clerks of the sharded key/value service: shardkv/client.go, which   *)
(* finds the group of a key in a configuration it keeps, and               *)
(* shardctrler/client.go, through which it and an administrator talk to    *)
(* the shard controller.  Both try one server after the other, and try     *)
(* again for ever.                                                         *)
(*                                                                         *)
(* The servers are skeletons in the repository.  They are external here    *)
(* and do what the clerks count on: a leader of the group that owns the    *)
(* shard carries a request out, the others say why they do not.  A call    *)
(* may fail before or after it was carried out, and a request whose call   *)
(* failed may still be carried out later.                                  *)
(***************************************************************************)
EXTENDS Integers, Sequences, FiniteSets

CONSTANTS
    Appender, Getter,   \* clerks that call PutAppend, and Get
    Admin,              \* the tester's clerk of the controller, mck
    Key,                \* keys, sequences of bytes
    NShards,            \* number of shards
    Gid,                \* groups, positive numbers
    NServer, NCtrler,   \* servers in a group, and of the controller
    MaxConfig,          \* bound on requests of the administrator
    MaxFaults           \* bound on failed calls and changes of leaders

Clerk == Appender \union Getter
Process == Clerk \union {Admin}
Shard == 0 .. NShards - 1

ASSUME ClerkAssumption == Appender \intersect Getter = {} /\ Admin \notin Clerk
ASSUME SizeAssumption ==
    /\ NShards \in Nat \ {0} /\ NServer \in Nat \ {0} /\ NCtrler \in Nat \ {0}
    /\ Gid \subseteq Nat \ {0}
    /\ MaxConfig \in Nat /\ MaxFaults \in Nat

VARIABLES
    key,        \* the key all clerks use
    config,     \* ck.config of every clerk
    pc,         \* new, try, query, done
    si,         \* position in the list of servers
    rpc,        \* the call to a server of a group
    value,      \* what Get returned
    ctl,        \* loops of the clerks of the controller
    issued,     \* number of requests of the administrator
    before,     \* history: appends that had returned when a clerk was called
    latest,     \* external: the controller's latest configuration
    ctrlLeader, \* external: the controller's leader
    leader,     \* external: the leader of every group
    owner,      \* external: the group that serves the key's shard, 0 for none
    data,       \* external: the value of the key
    late,       \* external: appends whose call failed and that may still run
    faults      \* failed calls and changes of leaders so far

clerkVars == <<key, config, pc, si, rpc, value, before>>
serverVars == <<ctrlLeader, leader, owner>>
vars == <<clerkVars, ctl, issued, latest, serverVars, data, late, faults>>

----------------------------------------------------------------------------
\* Config #0: no groups, and all shards assigned to group 0.
Config0 == [shards |-> [s \in Shard |-> 0], groups |-> {}]

NoCall == [stage |-> "none", reply |-> "none", value |-> <<>>]
NoLoop == [req |-> "none", gid |-> 0, shard |-> 0, at |-> 1, stage |-> "none",
           config |-> Config0]

key2shard(k) == (IF Len(k) > 0 THEN k[1] ELSE 0) % NShards

\* The group a clerk believes to be responsible, and whether it knows servers.
GroupOf(c) == config[c].shards[key2shard(key)]
Known(c) == GroupOf(c) \in config[c].groups

Init ==
    /\ key \in Key
    /\ config = [c \in Clerk |-> Config0]
    /\ pc = [c \in Clerk |-> "new"]
    /\ si = [c \in Clerk |-> 1]
    /\ rpc = [c \in Clerk |-> NoCall]
    /\ value = [c \in Clerk |-> <<>>]
    /\ ctl = [p \in Process |-> NoLoop]
    /\ issued = 0
    /\ before = [c \in Clerk |-> {}]
    /\ latest = Config0
    /\ ctrlLeader = 1 /\ leader = [g \in Gid |-> 1]
    /\ owner = 0
    /\ data = <<>> /\ late = {}
    /\ faults = 0

----------------------------------------------------------------------------
(* shardkv/client.go *)

\* The loop over the servers of the group starts, or is skipped.
Restart(c) ==
    /\ pc' = [pc EXCEPT ![c] = IF Known(c) THEN "try" ELSE "query"]
    /\ si' = [si EXCEPT ![c] = 1]

\* The loop is left: sleep, then Query(-1).
AskCtrler(c) ==
    /\ pc' = [pc EXCEPT ![c] = "query"]
    /\ si' = [si EXCEPT ![c] = 1]

NextServer(c) ==
    IF si[c] < NServer THEN si' = [si EXCEPT ![c] = @ + 1] /\ UNCHANGED pc
    ELSE AskCtrler(c)

\* Get or PutAppend is called.
Begin(c) ==
    /\ pc[c] = "new"
    /\ before' = [before EXCEPT ![c] = {a \in Appender : pc[a] = "done"}]
    /\ Restart(c)
    /\ UNCHANGED <<key, config, rpc, value, ctl, issued, latest, serverVars, data, late,
                   faults>>

Call(c) ==
    /\ pc[c] = "try" /\ rpc[c].stage = "none"
    /\ rpc' = [rpc EXCEPT ![c].stage = "sent"]
    /\ UNCHANGED <<key, config, pc, si, value, before, ctl, issued, latest, serverVars,
                   data, late, faults>>

\* A reply has arrived; the Get returns.
GetAnyReply(c) ==
    /\ c \in Getter /\ rpc[c].stage = "replied"
    /\ pc' = [pc EXCEPT ![c] = "done"]
    /\ value' = [value EXCEPT ![c] = rpc[c].value]
    /\ UNCHANGED si

Get(c) ==
    /\ c \in Getter /\ rpc[c].stage = "replied"
    /\ IF rpc[c].reply \in {"OK", "ErrNoKey"}
       THEN /\ pc' = [pc EXCEPT ![c] = "done"]
            /\ value' = [value EXCEPT ![c] = rpc[c].value]
            /\ UNCHANGED si
       ELSE /\ IF rpc[c].reply = "ErrWrongGroup" THEN AskCtrler(c) ELSE NextServer(c)
            /\ UNCHANGED value

PutAppendAnyReply(c) ==
    /\ c \in Appender /\ rpc[c].stage = "replied"
    /\ IF rpc[c].reply # "ErrWrongGroup"
       THEN pc' = [pc EXCEPT ![c] = "done"] /\ UNCHANGED si
       ELSE AskCtrler(c)
    /\ UNCHANGED value

PutAppend(c) ==
    /\ c \in Appender /\ rpc[c].stage = "replied"
    /\ IF rpc[c].reply = "OK"
       THEN pc' = [pc EXCEPT ![c] = "done"] /\ UNCHANGED si
       ELSE IF rpc[c].reply = "ErrWrongGroup" THEN AskCtrler(c) ELSE NextServer(c)
    /\ UNCHANGED value

Receive(c) ==
    /\ Get(c) \/ PutAppend(c)
    /\ rpc' = [rpc EXCEPT ![c] = NoCall]
    /\ UNCHANGED <<key, config, before, ctl, issued, latest, serverVars, data, late,
                   faults>>

\* Call returns false, before or after the request was carried out.
CallFails(c) ==
    /\ rpc[c].stage # "none" /\ faults < MaxFaults
    /\ rpc' = [rpc EXCEPT ![c] = NoCall]
    /\ late' = IF c \in Appender /\ rpc[c].stage = "sent" THEN late \union {c} ELSE late
    /\ faults' = faults + 1
    /\ NextServer(c)
    /\ UNCHANGED <<key, config, value, before, ctl, issued, latest, serverVars, data>>

----------------------------------------------------------------------------
(* shardctrler/client.go *)

Loop(p, req, g, s) ==
    ctl' = [ctl EXCEPT ![p] = [NoLoop EXCEPT !.req = req, !.gid = g, !.shard = s]]

\* The shardkv clerk asks for the latest configuration.
Query(c) ==
    /\ pc[c] = "query" /\ ctl[c].req = "none"
    /\ Loop(c, "query", 0, 0)
    /\ UNCHANGED <<clerkVars, issued, latest, serverVars, data, late, faults>>

\* The tester uses its clerk for one request after the other.
Administer ==
    /\ ctl[Admin].req = "none" /\ issued < MaxConfig
    /\ issued' = issued + 1
    /\ UNCHANGED <<clerkVars, latest, serverVars, data, late, faults>>

Join == Administer /\ \E g \in Gid : Loop(Admin, "join", g, 0)

Leave == Administer /\ \E g \in Gid : Loop(Admin, "leave", g, 0)

Move == Administer /\ \E g \in latest.groups, s \in Shard : Loop(Admin, "move", g, s)

CallCtrler(p) ==
    /\ ctl[p].req # "none" /\ ctl[p].stage = "none"
    /\ ctl' = [ctl EXCEPT ![p].stage = "sent"]
    /\ UNCHANGED <<clerkVars, issued, latest, serverVars, data, late, faults>>

RotateOnce(p) ==
    [ctl EXCEPT ![p].stage = "none", ![p].at = IF @ < NCtrler THEN @ + 1 ELSE @]

\* On to the next server, from the last one back to the first.
Rotate(p) == [ctl EXCEPT ![p].stage = "none", ![p].at = (@ % NCtrler) + 1]

TryNextCtrler(p) ==
    /\ ctl[p].stage = "WrongLeader"
    /\ ctl' = Rotate(p)
    /\ UNCHANGED <<clerkVars, issued, latest, serverVars, data, late, faults>>

CtrlerCallFails(p) ==
    /\ ctl[p].stage # "none" /\ faults < MaxFaults
    /\ ctl' = Rotate(p)
    /\ faults' = faults + 1
    /\ UNCHANGED <<clerkVars, issued, latest, serverVars, data, late>>

QueryKeepsConfig(c) ==
    /\ c \in Clerk /\ ctl[c].stage = "ok"
    /\ pc' = [pc EXCEPT ![c] = IF Known(c) THEN "try" ELSE "query"]
    /\ UNCHANGED <<config, si>>

\* Query returns: ck.config is the answer, and the loop starts again.
QueryReturns(c) ==
    LET new == ctl[c].config IN
    /\ c \in Clerk /\ ctl[c].stage = "ok"
    /\ config' = [config EXCEPT ![c] = new]
    /\ pc' = [pc EXCEPT ![c] =
                IF new.shards[key2shard(key)] \in new.groups THEN "try" ELSE "query"]
    /\ UNCHANGED si

ClerkGoesOn(c) ==
    /\ QueryReturns(c)
    /\ ctl' = [ctl EXCEPT ![c] = NoLoop]
    /\ UNCHANGED <<key, rpc, value, before, issued, latest, serverVars, data, late,
                   faults>>

AdminGoesOn ==
    /\ ctl[Admin].stage = "ok"
    /\ ctl' = [ctl EXCEPT ![Admin] = NoLoop]
    /\ UNCHANGED <<clerkVars, issued, latest, serverVars, data, late, faults>>

----------------------------------------------------------------------------
(* External: the controller, the groups and the network *)

\* What a request may turn the configuration into: the shards of a group that
\* left and shards without a group go to some group there is.
Configs(l) ==
    LET groups == CASE l.req = "join" -> latest.groups \union {l.gid}
                    [] l.req = "leave" -> latest.groups \ {l.gid}
                    [] OTHER -> latest.groups
        moved(s) == l.req = "move" /\ s = l.shard
    IN {[groups |-> groups,
         shards |-> [s \in Shard |-> IF moved(s) THEN l.gid
                                    ELSE IF latest.shards[s] \in groups THEN latest.shards[s]
                                    ELSE to]] :
            to \in IF groups = {} THEN {0} ELSE groups}

\* A server of the controller handles a request.
CtrlerHandles(p) ==
    /\ ctl[p].stage = "sent"
    /\ IF ctl[p].at # ctrlLeader
       THEN ctl' = [ctl EXCEPT ![p].stage = "WrongLeader"] /\ UNCHANGED latest
       ELSE IF ctl[p].req = "query"
       THEN /\ ctl' = [ctl EXCEPT ![p].stage = "ok", ![p].config = latest]
            /\ UNCHANGED latest
       ELSE /\ latest' \in Configs(ctl[p])
            /\ ctl' = [ctl EXCEPT ![p].stage = "ok"]
    /\ UNCHANGED <<clerkVars, issued, serverVars, data, late, faults>>

\* A server of a group handles a Get or an Append.
ServerHandles(c) ==
    LET g == GroupOf(c)
        reply == IF si[c] # leader[g] THEN "ErrWrongLeader"
                 ELSE IF owner # g THEN "ErrWrongGroup"
                 ELSE IF c \in Getter /\ data = <<>> THEN "ErrNoKey" ELSE "OK" IN
    /\ rpc[c].stage = "sent"
    /\ rpc' = [rpc EXCEPT ![c] = [stage |-> "replied", reply |-> reply,
                value |-> IF reply = "OK" /\ c \in Getter THEN data ELSE <<>>]]
    /\ data' = IF reply = "OK" /\ c \in Appender THEN Append(data, c) ELSE data
    /\ UNCHANGED <<key, config, pc, si, value, before, ctl, issued, latest, serverVars,
                   late, faults>>

\* A request whose call has failed is carried out after all.
LateAppend(c) ==
    /\ c \in late
    /\ late' = late \ {c}
    /\ data' = Append(data, c)
    /\ UNCHANGED <<clerkVars, ctl, issued, latest, serverVars, faults>>

\* The groups hand the shard over as the latest configuration says.
Migrate ==
    /\ owner # latest.shards[key2shard(key)]
    /\ owner' = latest.shards[key2shard(key)]
    /\ UNCHANGED <<clerkVars, ctl, issued, latest, ctrlLeader, leader, data, late, faults>>

ChangeLeader ==
    /\ faults < MaxFaults /\ faults' = faults + 1
    /\ \/ /\ \E n \in 1 .. NCtrler : n # ctrlLeader /\ ctrlLeader' = n
          /\ UNCHANGED leader
       \/ /\ \E g \in Gid : \E n \in 1 .. NServer :
                n # leader[g] /\ leader' = [leader EXCEPT ![g] = n]
          /\ UNCHANGED ctrlLeader
    /\ UNCHANGED <<clerkVars, ctl, issued, latest, owner, data, late>>

----------------------------------------------------------------------------
ClerkStep(c) == Begin(c) \/ Call(c) \/ Receive(c) \/ Query(c) \/ ClerkGoesOn(c)
CtrlerStep(p) == CallCtrler(p) \/ TryNextCtrler(p) \/ CtrlerHandles(p)

Next ==
    \/ \E c \in Clerk : Begin(c)
    \/ \E c \in Clerk : Call(c)
    \/ \E c \in Clerk : Receive(c)
    \/ \E c \in Clerk : CallFails(c)
    \/ \E c \in Clerk : Query(c)
    \/ \E c \in Clerk : ClerkGoesOn(c)
    \/ \E c \in Clerk : ServerHandles(c)
    \/ \E c \in Clerk : LateAppend(c)
    \/ Join \/ Leave \/ Move \/ AdminGoesOn
    \/ \E p \in Process : CallCtrler(p)
    \/ \E p \in Process : TryNextCtrler(p)
    \/ \E p \in Process : CtrlerCallFails(p)
    \/ \E p \in Process : CtrlerHandles(p)
    \/ Migrate
    \/ ChangeLeader

Spec == Init /\ [][Next]_vars

\* Clerks run, servers answer and shards move; failures and changes of leaders
\* come to an end because they are bounded.
FairSpec ==
    /\ Spec
    /\ \A c \in Clerk : WF_vars(ClerkStep(c)) /\ WF_vars(ServerHandles(c))
    /\ \A p \in Process : WF_vars(CtrlerStep(p))
    /\ WF_vars(AdminGoesOn)
    /\ WF_vars(Migrate)

----------------------------------------------------------------------------
(* Properties *)

\* When PutAppend has returned, the append was carried out, whichever of its
\* calls failed, was answered by a wrong leader or went to a group that had
\* lost the shard.
AppendWasDone ==
    \A a \in Appender : pc[a] = "done" => \E i \in DOMAIN data : data[i] = a

\* Get returns a value that has every append that had returned when the Get was
\* called, although its configuration may be old and its calls are repeated.
GetIsFresh ==
    \A c \in Getter : pc[c] = "done" =>
        \A a \in before[c] : \E i \in DOMAIN value[c] : value[c][i] = a

\* If the administrator leaves the key's shard with a group, every Get and
\* PutAppend returns: a stale configuration is replaced and every server tried
\* ("keeps trying forever in the face of all other errors", shardkv/client.go).
CallReturns ==
    <>[](latest.shards[key2shard(key)] # 0) => \A c \in Clerk : <>(pc[c] = "done")

\* Every request of the administrator is carried out and returns, whichever
\* server of the controller leads.
AdminReturns == []<>(ctl[Admin].req = "none")
=============================================================================
