------------------------------- MODULE Tester -------------------------------
(***************************************************************************)
(* The testers of the labs (raft/config.go, kvraft/config.go, which        *)
(* shardctrler/config.go repeats, and shardkv/config.go) and the Persister *)
(* of raft/persister.go: how servers are shut down, restarted, partitioned *)
(* and connected while their handlers go on running.                       *)
(*                                                                         *)
(* A tester cannot stop the goroutines of an instance of a server.  It     *)
(* isolates them: the instance gets client ends and a persister of its     *)
(* own, and the network forgets the server.  The instance is external: it  *)
(* handles calls and saves what it did in its persister, as the comments   *)
(* of the testers assume of it.  One thread runs the tester, as the tests  *)
(* do; the network and the instances run beside it.                        *)
(*                                                                         *)
(* Instance g of server i is its g-th start; 0 stands for nil.  A client   *)
(* end is named by its owner, the instance and the server it leads to.     *)
(***************************************************************************)
EXTENDS Integers, Sequences, FiniteSets, Functions

CONSTANTS
    N,          \* number of servers
    Lab,        \* the testers: a subset of {"raft", "kv", "shardkv"}
    Op,         \* calls to servers
    MaxRestarts \* bound on restarts of all servers together

ASSUME SizeAssumption == N \in Nat \ {0} /\ MaxRestarts \in Nat
ASSUME LabAssumption == Lab \subseteq {"raft", "kv", "shardkv"}

Server == 0 .. N - 1
Ctrler == N     \* stands for the servers of the shard controller
Elsewhere == N + 1  \* stands for the server an end of shardkv's make_end leads to

VARIABLES
    lab,        \* the tester
    ready,      \* make_config has returned
    todo,       \* steps left of the tester's current operation
    who,        \* the server it is about
    raftlog,    \* local of crash1
    started,    \* number of instances started of every server
    servers,    \* cfg.rafts, cfg.kvservers, gg.servers: the instance or nil
    endnames,   \* the instance the current end names were made for
    enabled,    \* ends that are enabled
    registered, \* the instance the network delivers to
    connected,  \* cfg.connected, in the raft lab
    clerk,      \* servers a clerk's ends are enabled for, in the kv lab
    cut,        \* history: the leader make_partition has isolated, or none
    saved,      \* cfg.saved: an index into persisters
    persisters, \* for every server all its Persisters
    given,      \* for every instance the Persister it was made with
    memory,     \* for every instance what it would save
    call        \* where a call is: stage, server and instance

tester == <<lab, ready, todo, who, raftlog>>
net == <<endnames, enabled, registered, connected, clerk, cut>>
instances == <<started, servers, given, memory>>
store == <<saved, persisters>>
vars == <<tester, net, instances, store, call>>

----------------------------------------------------------------------------
(* What the operations of the testers do, in order.  The steps are the    *)
(* actions below.                                                          *)

crash1 == <<"disconnect", "delete", "copy", "kill", "readState", "rebuild">>

ShutdownServerCopyFirst == <<"disconnect", "copy", "delete", "kill">>

ShutdownServer == <<"disconnect", "delete", "copy", "kill">>

StartServer == <<"ends", "persister", "make", "add">>

ShutdownServerShardKV == <<"disconnect", "delete", "copy", "kill">>

StartServerShardKV == <<"ends", "persister", "make", "add">>

\* crash1 comes first.
start1 == <<"disconnect", "delete", "copy", "kill", "readState", "rebuild",
            "ends", "persister", "make", "add">>

Shutdown ==
    CASE lab = "raft" -> crash1
      [] lab = "kv" -> ShutdownServer
      [] lab = "shardkv" -> ShutdownServerShardKV

Start ==
    CASE lab = "raft" -> start1
      [] lab = "kv" -> StartServer
      [] lab = "shardkv" -> StartServerShardKV

Idle == todo = <<>>

Run(program, i) ==
    /\ Idle
    /\ todo' = program /\ who' = i
    /\ UNCHANGED <<lab, ready, raftlog, net, instances, store, call>>

\* The tester takes the next step of its operation.
Doing(what) ==
    /\ ~Idle /\ Head(todo) = what
    /\ todo' = Tail(todo)
    /\ UNCHANGED <<lab, ready, who>>

----------------------------------------------------------------------------
(* Ends *)

All == [k \in 1 .. N |-> k - 1]

\* The list of the servers of S in order.
Lists(S) ==
    {p \in [1 .. Cardinality(S) -> S] : \A a, b \in DOMAIN p : a < b => p[a] < p[b]}

\* The current end of i to j.
End(i, j) == <<i, endnames[i], j>>

Outgoing(i) == {End(i, j) : j \in Server}
Incoming(i) == {End(j, i) : j \in {k \in Server : endnames[k] # 0}}

connectUnlocked(en, i, to) ==
    en \union {End(i, j) : j \in to} \union {End(j, i) : j \in to}

\* The test for nil looks at endnames[j], where j is a position in from.
disconnectUnlocked(en, i, from) ==
    en \ ({End(i, from[k]) : k \in {m \in DOMAIN from : endnames[i] # 0}}
            \union {End(from[k], i) : k \in {m \in DOMAIN from : endnames[m - 1] # 0}})

\* disconnect of the raft lab.
DisconnectRaft(i) ==
    /\ connected' = [connected EXCEPT ![i] = FALSE]
    /\ enabled' = enabled \ (Outgoing(i) \union Incoming(i))

\* The ends to the shard controller are disabled with those to the group.
DisconnectShardKV(i) ==
    /\ enabled' = enabled \ (Outgoing(i) \union {End(i, Ctrler)})
    /\ UNCHANGED connected

DisableIncomingOnly(i) ==
    /\ enabled' = enabled \ Incoming(i)
    /\ connected' = [connected EXCEPT ![i] = FALSE]

\* The first step of a shutdown.
Disable(i) ==
    CASE lab = "raft" -> DisconnectRaft(i)
      [] lab = "kv" -> enabled' = disconnectUnlocked(enabled, i, All) /\ UNCHANGED connected
      [] lab = "shardkv" -> DisconnectShardKV(i)

----------------------------------------------------------------------------
(* Persisters *)

Empty == [raftstate |-> {}, snapshot |-> {}]

Content(i) == persisters[i][saved[i]]

\* saved[i] becomes a new Persister.
Save(i, content) ==
    /\ persisters' = [persisters EXCEPT ![i] = Append(@, content)]
    /\ saved' = [saved EXCEPT ![i] = Len(persisters[i]) + 1]

Copy(i) == IF saved[i] # 0 THEN Save(i, Content(i)) ELSE UNCHANGED store

----------------------------------------------------------------------------
(* Steps of crash1, ShutdownServer, start1 and StartServer *)

DisconnectStep ==
    /\ Doing("disconnect")
    /\ Disable(who)
    /\ cut' = {}
    /\ UNCHANGED <<raftlog, endnames, registered, clerk, instances, store, call>>

DeleteServer ==
    /\ Doing("delete")
    /\ registered' = [registered EXCEPT ![who] = 0]
    /\ UNCHANGED <<raftlog, endnames, enabled, connected, clerk, cut, instances, store, call>>

CopyForgotten ==
    /\ Doing("copy")
    /\ UNCHANGED <<raftlog, net, instances, store, call>>

CopySaved ==
    /\ Doing("copy")
    /\ Copy(who)
    /\ UNCHANGED <<raftlog, net, instances, call>>

\* The lock is released around Kill; the instance is not stopped by it.
Kill ==
    /\ Doing("kill")
    /\ servers' = [servers EXCEPT ![who] = 0]
    /\ UNCHANGED <<raftlog, net, started, given, memory, store, call>>

\* crash1 makes another persister out of two reads of the saved one.
ReadRaftState ==
    /\ Doing("readState")
    /\ raftlog' = IF saved[who] # 0 THEN Content(who).raftstate ELSE raftlog
    /\ UNCHANGED <<net, instances, store, call>>

RebuildPersister ==
    /\ Doing("rebuild")
    /\ IF saved[who] # 0
       THEN Save(who, [raftstate |-> raftlog, snapshot |-> Content(who).snapshot])
       ELSE UNCHANGED store
    /\ raftlog' = {}
    /\ UNCHANGED <<net, instances, call>>

\* Fresh names.  MakeEnd leaves an end disabled; shardkv enables it at once.
MakeEnds ==
    /\ Doing("ends")
    /\ endnames' = [endnames EXCEPT ![who] = started[who] + 1]
    /\ enabled' = IF lab = "shardkv"
                  THEN enabled \union {<<who, started[who] + 1, j>> : j \in Server \union {Ctrler}}
                  ELSE enabled
    /\ UNCHANGED <<raftlog, registered, connected, clerk, cut, instances, store, call>>

NewPersister ==
    /\ Doing("persister")
    /\ Save(who, IF saved[who] # 0 THEN Content(who) ELSE Empty)
    /\ UNCHANGED <<raftlog, net, instances, call>>

\* Make, StartKVServer or StartServer: an instance with what was saved.
Make ==
    /\ Doing("make")
    /\ started' = [started EXCEPT ![who] = @ + 1]
    /\ servers' = [servers EXCEPT ![who] = started[who] + 1]
    /\ given' = [given EXCEPT ![who] = Append(@, saved[who])]
    /\ memory' = [memory EXCEPT ![who] =
                    Append(@, IF saved[who] # 0 THEN Content(who) ELSE Empty)]
    /\ UNCHANGED <<raftlog, net, store, call>>

AddServer ==
    /\ Doing("add")
    /\ registered' = [registered EXCEPT ![who] = servers[who]]
    /\ UNCHANGED <<raftlog, endnames, enabled, connected, clerk, cut, instances, store, call>>

----------------------------------------------------------------------------
(* make_config *)

Init ==
    /\ lab \in Lab
    /\ ready = FALSE /\ todo = <<>> /\ who = 0 /\ raftlog = {}
    /\ started = [i \in Server |-> 0] /\ servers = [i \in Server |-> 0]
    /\ endnames = [i \in Server |-> 0] /\ registered = [i \in Server |-> 0]
    /\ enabled = {} /\ connected = [i \in Server |-> FALSE]
    /\ clerk = {} /\ cut = {}
    /\ saved = [i \in Server |-> 0]
    /\ persisters = [i \in Server |-> <<>>]
    /\ given = [i \in Server |-> <<>>] /\ memory = [i \in Server |-> <<>>]
    /\ call = [o \in Op |-> [stage |-> "new", i |-> 0, g |-> 0]]

\* The servers are started one by one.
StartNext ==
    /\ ~ready
    /\ \E i \in Server :
        /\ started[i] = 0 /\ \A j \in 0 .. i - 1 : started[j] # 0
        /\ Run(Start, i)

AllStarted == Idle /\ \A i \in Server : started[i] # 0

connectUnknown(i) ==
    /\ connected' = [connected EXCEPT ![i] = TRUE]
    /\ enabled' = connectUnlocked(enabled, i, Server)

\* connect of the raft lab: ends between i and the connected servers.
connect(i) ==
    LET to == {j \in Server : connected[j] \/ j = i} IN
    /\ connected' = [connected EXCEPT ![i] = TRUE]
    /\ enabled' = connectUnlocked(enabled, i, to)

ConnectAll == UNION {connectUnlocked(enabled, i, Server) : i \in Server}

\* In the raft lab every server is connected in turn.
FinishRaft ==
    /\ lab = "raft" /\ ~ready /\ AllStarted
    /\ \E i \in Server :
        /\ ~connected[i] /\ \A j \in 0 .. i - 1 : connected[j]
        /\ connect(i)
        /\ ready' = (i = N - 1)
    /\ UNCHANGED <<lab, todo, who, raftlog, endnames, registered, clerk, cut,
                   instances, store, call>>

FinishKV ==
    /\ lab = "kv" /\ ~ready /\ AllStarted
    /\ ready' = TRUE
    /\ enabled' = ConnectAll
    /\ UNCHANGED <<lab, todo, who, raftlog, endnames, registered, connected, clerk, cut,
                   instances, store, call>>

FinishShardKV ==
    /\ lab = "shardkv" /\ ~ready /\ AllStarted
    /\ ready' = TRUE
    /\ UNCHANGED <<lab, todo, who, raftlog, net, instances, store, call>>

----------------------------------------------------------------------------
(* What tests do *)

Restarts == SumFunction(started) - N

\* crash1 or ShutdownServer of a running server.
ShutdownOne ==
    \E i \in Server :
        /\ ready /\ servers[i] # 0 /\ Restarts < MaxRestarts
        /\ Run(Shutdown, i)

\* start1 also restarts a running server; StartServer comes after ShutdownServer.
StartOne ==
    \E i \in Server :
        /\ ready /\ (lab # "raft" => servers[i] = 0) /\ Restarts < MaxRestarts
        /\ Run(Start, i)

\* Tests connect servers that run; a disconnected one may be down.
ConnectRaft ==
    /\ ready /\ Idle /\ lab = "raft"
    /\ \E i \in Server : servers[i] # 0 /\ connect(i)
    /\ UNCHANGED <<tester, endnames, registered, clerk, cut, instances, store, call>>

DisconnectOne ==
    /\ ready /\ Idle /\ lab = "raft"
    /\ \E i \in Server : DisconnectRaft(i)
    /\ UNCHANGED <<tester, endnames, registered, clerk, cut, instances, store, call>>

\* Tests change partitions when every server runs.
AllUp == ready /\ Idle /\ lab = "kv" /\ \A i \in Server : servers[i] # 0

\* The servers of p, one by one, are cut off from q and connected to p.
Separate(en, p, q) ==
    LET after[k \in 0 .. Len(p)] ==
            IF k = 0 THEN en
            ELSE connectUnlocked(disconnectUnlocked(after[k - 1], p[k], q), p[k], Range(p))
    IN  after[Len(p)]

partition(p1, p2) == Separate(Separate(enabled, p1, p2), p2, p1)

make_partitionKeepsLeader(n, l) ==
    LET others == [k \in 1 .. n |-> k - 1] IN
    << SubSeq(others, 1, n \div 2 + 1), SubSeq(others, n \div 2 + 2, n) >>

\* The slices start out with zeros, the last place of the second is the leader's.
make_partition(n, l) ==
    LET other(k) == IF k - 1 < l THEN k - 1 ELSE k
        at(k) == IF k < n THEN other(k) ELSE 0
        half  == n \div 2 IN
    << [k \in 1 .. half + 1 |-> at(k)],
       [k \in 1 .. half |-> IF k = half THEN l ELSE at(half + 1 + k)] >>

\* The partitioner of GenericTest splits the servers at random.
PartitionAtRandom ==
    /\ AllUp
    /\ \E side \in SUBSET Server :
        \E p1 \in Lists(side), p2 \in Lists(Server \ side) : enabled' = partition(p1, p2)
    /\ cut' = {}
    /\ UNCHANGED <<tester, endnames, registered, connected, clerk, instances, store, call>>

\* Leader answers any server that says it leads, and 0 if none does.  A single
\* server leaves no place for it, and make_partition panics.
PartitionLeader ==
    /\ AllUp /\ N > 1
    /\ \E l \in Server :
        LET p == make_partition(N, l) IN
        /\ enabled' = partition(p[1], p[2])
        /\ cut' = {l}
    /\ UNCHANGED <<tester, endnames, registered, connected, clerk, instances, store, call>>

ConnectAllAgain ==
    /\ AllUp
    /\ enabled' = ConnectAll
    /\ cut' = {}
    /\ UNCHANGED <<tester, endnames, registered, connected, clerk, instances, store, call>>

\* makeClient, ConnectClient and DisconnectClient, from any goroutine; the ends
\* to the servers listed are enabled or disabled one at a time.
ConnectClient ==
    /\ ready /\ lab = "kv"
    /\ \E j \in Server : clerk' = clerk \union {j}
    /\ UNCHANGED <<tester, endnames, enabled, registered, connected, cut, instances, store, call>>

DisconnectClient ==
    /\ ready /\ lab = "kv"
    /\ \E j \in clerk : clerk' = clerk \ {j}
    /\ UNCHANGED <<tester, endnames, enabled, registered, connected, cut, instances, store, call>>

----------------------------------------------------------------------------
(* Instances of servers and their network, which are external *)

\* make_end, which shardkv's StartServer gets: an instance, even an old one, has
\* an end made and enabled whose name the tester does not keep.
MakeEnd(i, g) ==
    /\ lab = "shardkv" /\ g \in DOMAIN given[i]
    /\ enabled' = enabled \union {<<i, g, Elsewhere>>}
    /\ UNCHANGED <<tester, endnames, registered, connected, clerk, cut, instances, store, call>>

\* Some end that is enabled leads to i: an instance's or a clerk's.  The ends of
\* shardkv's clerks are always enabled.
Reachable(i) ==
    \/ \E e \in enabled : e[3] \in {i, Elsewhere} /\ e[2] <= started[e[1]]
    \/ lab = "kv" /\ i \in clerk
    \/ lab = "shardkv"

Deliver(o, i) ==
    /\ call[o].stage = "new"
    /\ registered[i] # 0 /\ Reachable(i)
    /\ call' = [call EXCEPT ![o] = [stage |-> "run", i |-> i, g |-> registered[i]]]
    /\ UNCHANGED <<tester, net, instances, store>>

\* The handler saves what it did: SaveRaftState with all the instance knows.
SaveRaftState(o) ==
    LET i == call[o].i
        g == call[o].g
        new == memory[i][g].raftstate \union {o} IN
    /\ call[o].stage = "run"
    /\ memory' = [memory EXCEPT ![i][g].raftstate = new]
    /\ persisters' = [persisters EXCEPT ![i][given[i][g]].raftstate = new]
    /\ call' = [call EXCEPT ![o].stage = "saved"]
    /\ UNCHANGED <<tester, net, started, servers, given, saved>>

\* An instance, even an old one, moves its log into a snapshot.
SaveStateAndSnapshot(i, g) ==
    LET new == [raftstate |-> {},
                snapshot |-> memory[i][g].raftstate \union memory[i][g].snapshot] IN
    /\ g \in DOMAIN given[i] /\ memory[i][g].raftstate # {}
    /\ memory' = [memory EXCEPT ![i][g] = new]
    /\ persisters' = [persisters EXCEPT ![i][given[i][g]] = new]
    /\ UNCHANGED <<tester, net, started, servers, given, saved, call>>

\* The network passes a reply on only if the instance is still the server; the
\* end may be disabled by then, and an unreliable network may drop the reply.
Reply(o) ==
    /\ call[o].stage = "saved"
    /\ \/ /\ registered[call[o].i] = call[o].g
          /\ call' = [call EXCEPT ![o].stage = "acked"]
       \/ call' = [call EXCEPT ![o].stage = "failed"]
    /\ UNCHANGED <<tester, net, instances, store>>

----------------------------------------------------------------------------
Next ==
    \/ StartNext \/ FinishRaft \/ FinishKV \/ FinishShardKV
    \/ ShutdownOne \/ StartOne
    \/ DisconnectStep \/ DeleteServer \/ CopySaved \/ Kill
    \/ ReadRaftState \/ RebuildPersister
    \/ MakeEnds \/ NewPersister \/ Make \/ AddServer
    \/ ConnectRaft \/ DisconnectOne
    \/ PartitionAtRandom \/ PartitionLeader \/ ConnectAllAgain
    \/ ConnectClient \/ DisconnectClient
    \/ \E o \in Op : \E i \in Server : Deliver(o, i)
    \/ \E o \in Op : SaveRaftState(o)
    \/ \E o \in Op : Reply(o)
    \/ \E i \in Server : \E g \in 1 .. MaxRestarts + 1 : SaveStateAndSnapshot(i, g)
    \/ \E i \in Server : \E g \in 1 .. MaxRestarts + 1 : MakeEnd(i, g)

Spec == Init /\ [][Next]_vars

----------------------------------------------------------------------------
(* Properties *)

\* What a server has answered for is in the persister the tester passes on to
\* its next instance, whenever the shutdown comes ("the possibility of the
\* server returning a positive reply to an Append but persisting the result in
\* the superseded Persister", kvraft/config.go).
AcknowledgedIsSaved ==
    \A o \in Op : call[o].stage = "acked" =>
        LET c == Content(call[o].i) IN o \in c.raftstate \union c.snapshot

\* Raft state and snapshot in a saved persister fit together, no entry is in
\* both, although crash1 reads them one after the other while the old instance
\* may save ("to help avoid them getting out of sync", persister.go).
StateFitsSnapshot ==
    \A i \in Server : saved[i] # 0 => Content(i).raftstate \intersect Content(i).snapshot = {}

\* Every enabled end belongs to the instance that is the server now, or to one
\* that is just being made, whatever was connected or partitioned in between: an
\* instance that was shut down cannot send ("so that old crashed instance's
\* ClientEnds can't send", raft/config.go).  The exception is an end of shardkv's
\* make_end: ShutdownServer knows only endnames and mendnames, so an old instance
\* goes on sending through those it had made ("prevent this server from sending",
\* shardkv/config.go).
OldInstanceSilent ==
    \A e \in enabled :
        \/ e[2] \in {servers[e[1]], started[e[1]] + 1}
        \/ lab = "shardkv" /\ e[3] = Elsewhere

\* Between operations, servers reach each other both ways or not at all, and in
\* the raft lab exactly when both are connected, over any history of crashes,
\* restarts and partitions.
Connectivity ==
    Idle /\ ready => \A i, j \in Server :
        /\ lab = "raft" => (End(i, j) \in enabled <=> connected[i] /\ connected[j])
        /\ lab = "kv" => (End(i, j) \in enabled <=> End(j, i) \in enabled)

\* make_partition leaves the leader connected with a minority of the servers, and
\* a majority without it connected with each other ("put current leader in
\* minority").
LeaderInMinority ==
    \A l \in cut : AllUp =>
        /\ 2 * Cardinality({j \in Server : End(l, j) \in enabled}) <= N
        /\ \E majority \in SUBSET Server :
            /\ 2 * Cardinality(majority) > N
            /\ \A i, j \in majority : End(i, j) \in enabled
=============================================================================
