---------------------------- MODULE TesterProofs ----------------------------
(***************************************************************************)
(* What the testers of the labs promise, for any number of servers, calls  *)
(* and restarts: nothing acknowledged is lost in a restart, raft state and *)
(* snapshot fit together, old instances cannot send, connections are what  *)
(* the tables say, and a partition leaves the leader in a minority.        *)
(***************************************************************************)
EXTENDS Tester, FiniteSetTheorems, WellFoundedInduction, TLAPS

\* The step the tester is about to take.
At == IF todo = <<>> THEN "idle" ELSE Head(todo)

\* What may be left of an operation: of a shutdown of the kv labs, a crash1, a start.
Todos ==
    {<<>>,
     <<"kill">>,
     <<"copy", "kill">>,
     <<"delete", "copy", "kill">>,
     <<"disconnect", "delete", "copy", "kill">>,
     <<"rebuild">>,
     <<"readState", "rebuild">>,
     <<"kill", "readState", "rebuild">>,
     <<"copy", "kill", "readState", "rebuild">>,
     <<"delete", "copy", "kill", "readState", "rebuild">>,
     <<"disconnect", "delete", "copy", "kill", "readState", "rebuild">>,
     <<"add">>,
     <<"make", "add">>,
     <<"persister", "make", "add">>,
     <<"ends", "persister", "make", "add">>,
     <<"rebuild", "ends", "persister", "make", "add">>,
     <<"readState", "rebuild", "ends", "persister", "make", "add">>,
     <<"kill", "readState", "rebuild", "ends", "persister", "make", "add">>,
     <<"copy", "kill", "readState", "rebuild", "ends", "persister", "make", "add">>,
     <<"delete", "copy", "kill", "readState", "rebuild", "ends", "persister", "make", "add">>,
     <<"disconnect", "delete", "copy", "kill", "readState", "rebuild", "ends", "persister",
       "make", "add">>}

Rec == [raftstate : SUBSET Op, snapshot : SUBSET Op]
Ops(c) == c.raftstate \union c.snapshot

CallRec == [stage : {"new", "run", "saved", "acked", "failed"}, i : Server, g : Nat]

TypeOK ==
    /\ lab \in {"raft", "kv", "shardkv"} /\ ready \in BOOLEAN
    /\ todo \in Todos /\ who \in Server
    /\ started \in [Server -> Nat] /\ servers \in [Server -> Nat]
    /\ endnames \in [Server -> Nat] /\ registered \in [Server -> Nat]
    /\ connected \in [Server -> BOOLEAN]
    /\ saved \in [Server -> Nat]
    /\ persisters \in [Server -> Seq(Rec)] /\ memory \in [Server -> Seq(Rec)]
    /\ given \in [Server -> Seq(Nat)]
    /\ call \in [Op -> CallRec]

----------------------------------------------------------------------------
(* Instances and persisters *)

\* Every instance has a persister of its own, which holds what it would save.
\* The registered instance, if any, has the one the next instance will get.
Own(i) ==
    /\ saved[i] <= Len(persisters[i])
    /\ Len(given[i]) = started[i] /\ Len(memory[i]) = started[i]
    /\ servers[i] \in {0, started[i]}
    /\ \A g \in 1 .. started[i] : /\ given[i][g] \in 1 .. Len(persisters[i])
                                  /\ memory[i][g] = persisters[i][given[i][g]]
    /\ \A g, h \in 1 .. started[i] : given[i][g] = given[i][h] => g = h
    /\ registered[i] <= started[i]
    /\ registered[i] # 0 => given[i][registered[i]] = saved[i]

\* From delete to add the network knows no server; nor does it of one that is down.
Gone ==
    /\ At \in {"copy", "kill", "readState", "rebuild", "ends", "persister", "make", "add"} =>
            registered[who] = 0
    /\ \A i \in Server : (At = "idle" \/ i # who) /\ servers[i] = 0 => registered[i] = 0

\* After copy and before make the saved persister is no instance's.
NotGiven ==
    /\ At \in {"kill", "readState", "rebuild", "make"} =>
            \A g \in 1 .. started[who] : given[who][g] # saved[who]
    /\ At = "make" => saved[who] # 0
    /\ At = "rebuild" /\ saved[who] # 0 => raftlog = Content(who).raftstate
    /\ At = "add" => /\ started[who] # 0 /\ servers[who] = started[who]
                     /\ given[who][started[who]] = saved[who]

\* A call is in at most one part of a persister, and in none before it is saved.
Fits ==
    \A i \in Server : \A p \in 1 .. Len(persisters[i]) :
        /\ persisters[i][p].raftstate \intersect persisters[i][p].snapshot = {}
        /\ \A o \in Ops(persisters[i][p]) : call[o].stage \notin {"new", "run"}

Calls ==
    \A o \in Op : LET c == call[o] IN
        /\ c.stage # "new" => c.g \in 1 .. started[c.i]
        /\ c.stage = "saved" => o \in Ops(memory[c.i][c.g])
        /\ c.stage = "acked" => saved[c.i] # 0 /\ o \in Ops(Content(c.i))

Storage == (\A i \in Server : Own(i)) /\ Gone /\ NotGiven /\ Fits /\ Calls

----------------------------------------------------------------------------
(* Ends *)

\* An end that make_end has made, whose name the tester does not keep.
Made(e) == lab = "shardkv" /\ e[3] = Elsewhere

Ends == {e \in Server \X Nat \X (Server \union {Ctrler, Elsewhere}) :
            /\ e[2] # 0 /\ (e[3] = Ctrler => lab = "shardkv")
            /\ Made(e) \/ (endnames[e[1]] = e[2] /\ e[3] # Elsewhere)}

NoEnds(i) == \A e \in enabled : e[1] = i => Made(e)

\* Only ends with current names are enabled, and none of a server that is down,
\* apart from those that make_end has made.
EndsCurrent ==
    /\ enabled \subseteq Ends
    /\ \A i \in Server :
        endnames[i] = IF i = who /\ At \in {"persister", "make"} THEN started[i] + 1 ELSE started[i]
    /\ At \in {"delete", "copy", "kill", "readState", "rebuild", "ends"} => NoEnds(who)
    /\ \A i \in Server : (At \in {"idle", "disconnect"} \/ i # who) /\ servers[i] = 0 => NoEnds(i)

\* make_config starts every server once.
Making ==
    ~ready => /\ \A i \in Server : servers[i] = started[i]
              /\ At \notin {"idle", "add"} => started[who] = 0

Linked ==
    /\ \A i \in Server :
        connected[i] => lab = "raft" /\ servers[i] # 0 /\ (i = who => At \in {"idle", "disconnect"})
    /\ lab = "raft" => \A i, j \in Server : End(i, j) \in enabled <=> connected[i] /\ connected[j]
    /\ lab = "kv" => \A i, j \in Server : End(i, j) \in enabled <=> End(j, i) \in enabled

Network == EndsCurrent /\ Making /\ Linked

IInv == TypeOK /\ Storage /\ Network

----------------------------------------------------------------------------
(* Partitions, for an odd number of servers *)

InMinority(l) ==
    /\ 2 * Cardinality({j \in Server : End(l, j) \in enabled}) <= N
    /\ \E majority \in SUBSET Server :
        /\ 2 * Cardinality(majority) > N
        /\ \A i, j \in majority : End(i, j) \in enabled

Cut ==
    cut # {} => /\ lab = "kv" /\ ready /\ At \in {"idle", "disconnect"}
                /\ \A i \in Server : servers[i] # 0
                /\ \A l \in cut : InMinority(l)

----------------------------------------------------------------------------
(* Operations and their steps *)

\* Which step may come after which.
Follows ==
    {<<"disconnect", "delete">>, <<"delete", "copy">>, <<"copy", "kill">>, <<"kill", "idle">>,
     <<"kill", "readState">>, <<"readState", "rebuild">>, <<"rebuild", "idle">>,
     <<"rebuild", "ends">>, <<"ends", "persister">>, <<"persister", "make">>, <<"make", "add">>,
     <<"add", "idle">>}

Succ(t) == IF t = <<>> THEN "idle" ELSE Head(t)

LEMMA TodoTail ==
    \A t \in Todos : t # <<>> => Tail(t) \in Todos /\ <<Head(t), Succ(Tail(t))>> \in Follows
<1>1. LET t == <<"kill">> IN
      Tail(t) \in Todos /\ <<Head(t), Succ(Tail(t))>> \in Follows
  <2>1. /\ Head(<<"kill">>) = "kill"
        /\ Tail(<<"kill">>) = <<>>
    OBVIOUS
  <2> QED
    BY <2>1, Zenon DEF Todos, Follows, Succ
<1>2. LET t == <<"copy", "kill">> IN
      Tail(t) \in Todos /\ <<Head(t), Succ(Tail(t))>> \in Follows
  <2>1. /\ Head(<<"copy", "kill">>) = "copy"
        /\ Tail(<<"copy", "kill">>) = <<"kill">>
    OBVIOUS
  <2>2. /\ <<"kill">> # <<>>
        /\ Head(<<"kill">>) = "kill"
    OBVIOUS
  <2> QED
    BY <2>1, <2>2, Zenon DEF Todos, Follows, Succ
<1>3. LET t == <<"delete", "copy", "kill">> IN
      Tail(t) \in Todos /\ <<Head(t), Succ(Tail(t))>> \in Follows
  <2>1. /\ Head(<<"delete", "copy", "kill">>) = "delete"
        /\ Tail(<<"delete", "copy", "kill">>) = <<"copy", "kill">>
    OBVIOUS
  <2>2. /\ <<"copy", "kill">> # <<>>
        /\ Head(<<"copy", "kill">>) = "copy"
    OBVIOUS
  <2> QED
    BY <2>1, <2>2, Zenon DEF Todos, Follows, Succ
<1>4. LET t == <<"disconnect", "delete", "copy", "kill">> IN
      Tail(t) \in Todos /\ <<Head(t), Succ(Tail(t))>> \in Follows
  <2>1. /\ Head(<<"disconnect", "delete", "copy", "kill">>) = "disconnect"
        /\ Tail(<<"disconnect", "delete", "copy", "kill">>) = <<"delete", "copy", "kill">>
    OBVIOUS
  <2>2. /\ <<"delete", "copy", "kill">> # <<>>
        /\ Head(<<"delete", "copy", "kill">>) = "delete"
    OBVIOUS
  <2> QED
    BY <2>1, <2>2, Zenon DEF Todos, Follows, Succ
<1>5. LET t == <<"rebuild">> IN
      Tail(t) \in Todos /\ <<Head(t), Succ(Tail(t))>> \in Follows
  <2>1. /\ Head(<<"rebuild">>) = "rebuild"
        /\ Tail(<<"rebuild">>) = <<>>
    OBVIOUS
  <2> QED
    BY <2>1, Zenon DEF Todos, Follows, Succ
<1>6. LET t == <<"readState", "rebuild">> IN
      Tail(t) \in Todos /\ <<Head(t), Succ(Tail(t))>> \in Follows
  <2>1. /\ Head(<<"readState", "rebuild">>) = "readState"
        /\ Tail(<<"readState", "rebuild">>) = <<"rebuild">>
    OBVIOUS
  <2>2. /\ <<"rebuild">> # <<>>
        /\ Head(<<"rebuild">>) = "rebuild"
    OBVIOUS
  <2> QED
    BY <2>1, <2>2, Zenon DEF Todos, Follows, Succ
<1>7. LET t == <<"kill", "readState", "rebuild">> IN
      Tail(t) \in Todos /\ <<Head(t), Succ(Tail(t))>> \in Follows
  <2>1. /\ Head(<<"kill", "readState", "rebuild">>) = "kill"
        /\ Tail(<<"kill", "readState", "rebuild">>) = <<"readState", "rebuild">>
    OBVIOUS
  <2>2. /\ <<"readState", "rebuild">> # <<>>
        /\ Head(<<"readState", "rebuild">>) = "readState"
    OBVIOUS
  <2> QED
    BY <2>1, <2>2, Zenon DEF Todos, Follows, Succ
<1>8. LET t == <<"copy", "kill", "readState", "rebuild">> IN
      Tail(t) \in Todos /\ <<Head(t), Succ(Tail(t))>> \in Follows
  <2>1. /\ Head(<<"copy", "kill", "readState", "rebuild">>) = "copy"
        /\ Tail(<<"copy", "kill", "readState", "rebuild">>) = <<"kill", "readState", "rebuild">>
    OBVIOUS
  <2>2. /\ <<"kill", "readState", "rebuild">> # <<>>
        /\ Head(<<"kill", "readState", "rebuild">>) = "kill"
    OBVIOUS
  <2> QED
    BY <2>1, <2>2, Zenon DEF Todos, Follows, Succ
<1>9. LET t == <<"delete", "copy", "kill", "readState", "rebuild">> IN
      Tail(t) \in Todos /\ <<Head(t), Succ(Tail(t))>> \in Follows
  <2>1. /\ Head(<<"delete", "copy", "kill", "readState", "rebuild">>) = "delete"
        /\ Tail(<<"delete", "copy", "kill", "readState", "rebuild">>) = <<"copy", "kill", "readState", "rebuild">>
    OBVIOUS
  <2>2. /\ <<"copy", "kill", "readState", "rebuild">> # <<>>
        /\ Head(<<"copy", "kill", "readState", "rebuild">>) = "copy"
    OBVIOUS
  <2> QED
    BY <2>1, <2>2, Zenon DEF Todos, Follows, Succ
<1>10. LET t == <<"disconnect", "delete", "copy", "kill", "readState", "rebuild">> IN
      Tail(t) \in Todos /\ <<Head(t), Succ(Tail(t))>> \in Follows
  <2>1. /\ Head(<<"disconnect", "delete", "copy", "kill", "readState", "rebuild">>) = "disconnect"
        /\ Tail(<<"disconnect", "delete", "copy", "kill", "readState", "rebuild">>) = <<"delete", "copy", "kill", "readState", "rebuild">>
    OBVIOUS
  <2>2. /\ <<"delete", "copy", "kill", "readState", "rebuild">> # <<>>
        /\ Head(<<"delete", "copy", "kill", "readState", "rebuild">>) = "delete"
    OBVIOUS
  <2> QED
    BY <2>1, <2>2, Zenon DEF Todos, Follows, Succ
<1>11. LET t == <<"add">> IN
      Tail(t) \in Todos /\ <<Head(t), Succ(Tail(t))>> \in Follows
  <2>1. /\ Head(<<"add">>) = "add"
        /\ Tail(<<"add">>) = <<>>
    OBVIOUS
  <2> QED
    BY <2>1, Zenon DEF Todos, Follows, Succ
<1>12. LET t == <<"make", "add">> IN
      Tail(t) \in Todos /\ <<Head(t), Succ(Tail(t))>> \in Follows
  <2>1. /\ Head(<<"make", "add">>) = "make"
        /\ Tail(<<"make", "add">>) = <<"add">>
    OBVIOUS
  <2>2. /\ <<"add">> # <<>>
        /\ Head(<<"add">>) = "add"
    OBVIOUS
  <2> QED
    BY <2>1, <2>2, Zenon DEF Todos, Follows, Succ
<1>13. LET t == <<"persister", "make", "add">> IN
      Tail(t) \in Todos /\ <<Head(t), Succ(Tail(t))>> \in Follows
  <2>1. /\ Head(<<"persister", "make", "add">>) = "persister"
        /\ Tail(<<"persister", "make", "add">>) = <<"make", "add">>
    OBVIOUS
  <2>2. /\ <<"make", "add">> # <<>>
        /\ Head(<<"make", "add">>) = "make"
    OBVIOUS
  <2> QED
    BY <2>1, <2>2, Zenon DEF Todos, Follows, Succ
<1>14. LET t == <<"ends", "persister", "make", "add">> IN
      Tail(t) \in Todos /\ <<Head(t), Succ(Tail(t))>> \in Follows
  <2>1. /\ Head(<<"ends", "persister", "make", "add">>) = "ends"
        /\ Tail(<<"ends", "persister", "make", "add">>) = <<"persister", "make", "add">>
    OBVIOUS
  <2>2. /\ <<"persister", "make", "add">> # <<>>
        /\ Head(<<"persister", "make", "add">>) = "persister"
    OBVIOUS
  <2> QED
    BY <2>1, <2>2, Zenon DEF Todos, Follows, Succ
<1>15. LET t == <<"rebuild", "ends", "persister", "make", "add">> IN
      Tail(t) \in Todos /\ <<Head(t), Succ(Tail(t))>> \in Follows
  <2>1. /\ Head(<<"rebuild", "ends", "persister", "make", "add">>) = "rebuild"
        /\ Tail(<<"rebuild", "ends", "persister", "make", "add">>) = <<"ends", "persister", "make", "add">>
    OBVIOUS
  <2>2. /\ <<"ends", "persister", "make", "add">> # <<>>
        /\ Head(<<"ends", "persister", "make", "add">>) = "ends"
    OBVIOUS
  <2> QED
    BY <2>1, <2>2, Zenon DEF Todos, Follows, Succ
<1>16. LET t == <<"readState", "rebuild", "ends", "persister", "make", "add">> IN
      Tail(t) \in Todos /\ <<Head(t), Succ(Tail(t))>> \in Follows
  <2>1. /\ Head(<<"readState", "rebuild", "ends", "persister", "make", "add">>) = "readState"
        /\ Tail(<<"readState", "rebuild", "ends", "persister", "make", "add">>) = <<"rebuild", "ends", "persister", "make", "add">>
    OBVIOUS
  <2>2. /\ <<"rebuild", "ends", "persister", "make", "add">> # <<>>
        /\ Head(<<"rebuild", "ends", "persister", "make", "add">>) = "rebuild"
    OBVIOUS
  <2> QED
    BY <2>1, <2>2, Zenon DEF Todos, Follows, Succ
<1>17. LET t == <<"kill", "readState", "rebuild", "ends",
                      "persister", "make", "add">> IN
      Tail(t) \in Todos /\ <<Head(t), Succ(Tail(t))>> \in Follows
  <2>1. /\ Head(<<"kill", "readState", "rebuild", "ends", "persister", "make", "add">>) = "kill"
        /\ Tail(<<"kill", "readState", "rebuild", "ends", "persister", "make", "add">>) = <<"readState", "rebuild", "ends", "persister", "make", "add">>
    OBVIOUS
  <2>2. /\ <<"readState", "rebuild", "ends", "persister", "make", "add">> # <<>>
        /\ Head(<<"readState", "rebuild", "ends", "persister", "make", "add">>) = "readState"
    OBVIOUS
  <2> QED
    BY <2>1, <2>2, Zenon DEF Todos, Follows, Succ
<1>18. LET t == <<"copy", "kill", "readState", "rebuild", "ends",
                      "persister", "make", "add">> IN
      Tail(t) \in Todos /\ <<Head(t), Succ(Tail(t))>> \in Follows
  <2>1. /\ Head(<<"copy", "kill", "readState", "rebuild", "ends",
                  "persister", "make", "add">>) = "copy"
        /\ Tail(<<"copy", "kill", "readState", "rebuild", "ends",
                  "persister", "make", "add">>) = <<"kill", "readState", "rebuild", "ends", "persister", "make", "add">>
    OBVIOUS
  <2>2. /\ <<"kill", "readState", "rebuild", "ends", "persister", "make", "add">> # <<>>
        /\ Head(<<"kill", "readState", "rebuild", "ends", "persister", "make", "add">>) = "kill"
    OBVIOUS
  <2> QED
    BY <2>1, <2>2, Zenon DEF Todos, Follows, Succ
<1>19. LET t == <<"delete", "copy", "kill", "readState", "rebuild", "ends",
                      "persister", "make", "add">> IN
      Tail(t) \in Todos /\ <<Head(t), Succ(Tail(t))>> \in Follows
  <2>1. /\ Head(<<"delete", "copy", "kill", "readState", "rebuild", "ends",
                  "persister", "make", "add">>) = "delete"
        /\ Tail(<<"delete", "copy", "kill", "readState", "rebuild", "ends",
                  "persister", "make", "add">>) = <<"copy", "kill", "readState", "rebuild", "ends",
            "persister", "make", "add">>
    OBVIOUS
  <2>2. /\ <<"copy", "kill", "readState", "rebuild", "ends",
             "persister", "make", "add">> # <<>>
        /\ Head(<<"copy", "kill", "readState", "rebuild", "ends",
                  "persister", "make", "add">>) = "copy"
    OBVIOUS
  <2> QED
    BY <2>1, <2>2, Zenon DEF Todos, Follows, Succ
<1>20. LET t == <<"disconnect", "delete", "copy", "kill", "readState", "rebuild", "ends",
                      "persister", "make", "add">> IN
      Tail(t) \in Todos /\ <<Head(t), Succ(Tail(t))>> \in Follows
  <2>1. /\ Head(<<"disconnect", "delete", "copy", "kill", "readState", "rebuild", "ends",
                  "persister", "make", "add">>) = "disconnect"
        /\ Tail(<<"disconnect", "delete", "copy", "kill", "readState", "rebuild", "ends",
                  "persister", "make", "add">>) = <<"delete", "copy", "kill", "readState", "rebuild", "ends",
            "persister", "make", "add">>
    OBVIOUS
  <2>2. /\ <<"delete", "copy", "kill", "readState", "rebuild", "ends",
             "persister", "make", "add">> # <<>>
        /\ Head(<<"delete", "copy", "kill", "readState", "rebuild", "ends",
                  "persister", "make", "add">>) = "delete"
    OBVIOUS
  <2> QED
    BY <2>1, <2>2, Zenon DEF Todos, Follows, Succ
<1> QED
  BY <1>1, <1>2, <1>3, <1>4, <1>5, <1>6, <1>7, <1>8, <1>9, <1>10, <1>11, <1>12, <1>13, <1>14, <1>15, <1>16, <1>17, <1>18, <1>19, <1>20, Zenon DEF Todos

LEMMA FollowsIs ==
    \A a : /\ <<"disconnect", a>> \in Follows => a = "delete"
           /\ <<"delete", a>> \in Follows => a = "copy"
           /\ <<"copy", a>> \in Follows => a = "kill"
           /\ <<"kill", a>> \in Follows => a \in {"idle", "readState"}
           /\ <<"readState", a>> \in Follows => a = "rebuild"
           /\ <<"rebuild", a>> \in Follows => a \in {"idle", "ends"}
           /\ <<"ends", a>> \in Follows => a = "persister"
           /\ <<"persister", a>> \in Follows => a = "make"
           /\ <<"make", a>> \in Follows => a = "add"
           /\ <<"add", a>> \in Follows => a = "idle"
BY DEF Follows

\* The tester takes the next step of its operation.
LEMMA DoingAt ==
    ASSUME TypeOK, NEW w, Doing(w)
    PROVE  At = w /\ todo' \in Todos /\ <<w, At'>> \in Follows /\ UNCHANGED <<lab, ready, who>>
<1>1. todo \in Todos /\ todo # <<>> /\ Head(todo) = w /\ todo' = Tail(todo) /\ UNCHANGED <<lab, ready, who>>
  BY Zenon DEF TypeOK, Doing, Idle
<1>2. At' = Succ(todo') /\ At = w
  BY <1>1, Zenon DEF At, Succ
<1> QED
  BY <1>1, <1>2, TodoTail, Zenon

LEMMA StartIs ==
    /\ lab = "raft" => Start \in Todos /\ Succ(Start) = "disconnect"
    /\ lab \in {"kv", "shardkv"} => Start \in Todos /\ Succ(Start) = "ends"
<1>2. start1 \in Todos /\ StartServer \in Todos /\ StartServerShardKV \in Todos
  BY Zenon DEF Todos, start1, StartServer, StartServerShardKV
<1>3. start1 # <<>> /\ Head(start1) = "disconnect"
  BY DEF start1
<1>4. StartServer # <<>> /\ Head(StartServer) = "ends" /\ StartServerShardKV = StartServer
  BY DEF StartServer, StartServerShardKV
<1>5. lab = "raft" => Start = start1
  BY DEF Start
<1>6. lab \in {"kv", "shardkv"} => Start = StartServer
  BY <1>4 DEF Start
<1> QED
  BY <1>2, <1>3, <1>4, <1>5, <1>6, Zenon DEF Succ

LEMMA ShutdownIs ==
    ASSUME lab \in {"raft", "kv", "shardkv"}
    PROVE  Shutdown \in Todos /\ Succ(Shutdown) = "disconnect"
<1>1. crash1 \in Todos /\ ShutdownServer \in Todos /\ ShutdownServerShardKV = ShutdownServer
  BY Zenon DEF crash1, ShutdownServer, ShutdownServerShardKV, Todos
<1>2. crash1 # <<>> /\ Head(crash1) = "disconnect"
  BY DEF crash1
<1>3. ShutdownServer # <<>> /\ Head(ShutdownServer) = "disconnect"
  BY DEF ShutdownServer
<1>4. Shutdown \in {crash1, ShutdownServer}
  BY <1>1 DEF Shutdown
<1> QED
  BY <1>1, <1>2, <1>3, <1>4, Zenon DEF Succ

\* An operation begins.
LEMMA RunAt ==
    ASSUME NEW program, NEW i, Run(program, i)
    PROVE  /\ At = "idle" /\ At' = Succ(program) /\ who' = i /\ todo' = program
           /\ UNCHANGED <<lab, ready, raftlog, net, instances, store, call>>
BY Zenon DEF Run, Idle, At, Succ

----------------------------------------------------------------------------
(* Persisters and instances, as values *)

LEMMA Appended ==
    ASSUME NEW S, NEW s \in Seq(S), NEW x \in S
    PROVE  /\ Append(s, x) \in Seq(S) /\ Len(Append(s, x)) = Len(s) + 1
           /\ Append(s, x)[Len(s) + 1] = x
           /\ \A p \in 1 .. Len(s) : Append(s, x)[p] = s[p]
OBVIOUS

LEMMA EmptyRec == Empty \in Rec /\ Empty.raftstate = {} /\ Empty.snapshot = {} /\ Ops(Empty) = {}
BY DEF Empty, Rec, Ops

LEMMA ContentRec ==
    ASSUME TypeOK, NEW i \in Server, saved[i] # 0, saved[i] <= Len(persisters[i])
    PROVE  /\ saved[i] \in 1 .. Len(persisters[i]) /\ Content(i) \in Rec
           /\ Content(i) = persisters[i][saved[i]]
<1>1. persisters[i] \in Seq(Rec) /\ saved[i] \in Nat
  BY DEF TypeOK
<1>2. saved[i] \in 1 .. Len(persisters[i]) /\ persisters[i][saved[i]] \in Rec
  BY <1>1
<1> QED
  BY <1>2, Zenon DEF Content

\* saved[i] becomes a new Persister.
LEMMA SaveIs ==
    ASSUME TypeOK, NEW i \in Server, NEW c \in Rec, Save(i, c)
    PROVE  /\ saved' \in [Server -> Nat] /\ persisters' \in [Server -> Seq(Rec)]
           /\ saved'[i] = Len(persisters[i]) + 1 /\ Len(persisters'[i]) = Len(persisters[i]) + 1
           /\ Content(i)' = c /\ persisters'[i][Len(persisters[i]) + 1] = c
           /\ \A p \in 1 .. Len(persisters[i]) : persisters'[i][p] = persisters[i][p]
           /\ \A j \in Server : j # i => saved'[j] = saved[j] /\ persisters'[j] = persisters[j]
<1>1. /\ persisters \in [Server -> Seq(Rec)] /\ saved \in [Server -> Nat]
      /\ persisters' = [persisters EXCEPT ![i] = Append(persisters[i], c)]
      /\ saved' = [saved EXCEPT ![i] = Len(persisters[i]) + 1]
  BY Zenon DEF TypeOK, Save
<1>2. PICK s \in Seq(Rec), n \in Nat : s = persisters[i] /\ n = Len(persisters[i])
  BY <1>1
<1>3. PICK t \in Seq(Rec) : t = Append(s, c)
  BY <1>2, Appended, Zenon
<1>4. Len(t) = n + 1 /\ t[n + 1] = c /\ \A p \in 1 .. n : t[p] = s[p]
  <2>1. /\ Len(Append(s, c)) = Len(s) + 1 /\ Append(s, c)[Len(s) + 1] = c
        /\ \A p \in 1 .. Len(s) : Append(s, c)[p] = s[p]
    BY Appended
  <2>2. Len(s) = n
    BY <1>2, Zenon
  <2> QED
    BY <1>3, <2>1, <2>2, Zenon
<1>5. persisters' = [persisters EXCEPT ![i] = t] /\ saved' = [saved EXCEPT ![i] = n + 1]
  BY <1>1, <1>2, <1>3, Zenon
<1>6. n + 1 \in Nat
  OBVIOUS
<1>7. saved' \in [Server -> Nat] /\ persisters' \in [Server -> Seq(Rec)]
  BY <1>1, <1>5, <1>6
<1>8. persisters'[i] = t /\ saved'[i] = n + 1
  BY <1>1, <1>5, Zenon
<1>9. \A j \in Server : j # i => saved'[j] = saved[j] /\ persisters'[j] = persisters[j]
  BY <1>1, <1>5, Zenon
<1>10. Content(i)' = c
  BY <1>4, <1>8, Zenon DEF Content
<1> QED
  BY <1>2, <1>4, <1>7, <1>8, <1>9, <1>10, Zenon

LEMMA OwnKept ==
    ASSUME NEW j \in Server, Own(j),
           started'[j] = started[j], servers'[j] = servers[j], registered'[j] = registered[j],
           given'[j] = given[j], memory'[j] = memory[j], saved'[j] = saved[j],
           persisters'[j] = persisters[j]
    PROVE  Own(j)'
BY Zenon DEF Own

\* A new Persister is no instance's, and nothing is lost if it holds what the
\* last one did.
LEMMA SaveKeeps ==
    ASSUME TypeOK, \A j \in Server : Own(j), Fits, Calls,
           NEW i \in Server, NEW c \in Rec, Save(i, c), registered[i] = 0,
           UNCHANGED <<started, servers, registered, given, memory, call>>,
           c.raftstate \intersect c.snapshot = {},
           \A o \in Ops(c) : call[o].stage \notin {"new", "run"},
           saved[i] # 0 => Ops(Content(i)) \subseteq Ops(c)
    PROVE  /\ (\A j \in Server : Own(j))' /\ Fits' /\ Calls'
           /\ \A g \in 1 .. started[i] : given'[i][g] # saved'[i]
           /\ saved'[i] # 0
<1>1. PICK n \in Nat, d \in Nat : n = Len(persisters[i]) /\ d = started[i]
  BY DEF TypeOK
<1>2. /\ saved'[i] = n + 1 /\ Len(persisters'[i]) = n + 1
      /\ Content(i)' = c /\ persisters'[i][n + 1] = c
      /\ \A p \in 1 .. n : persisters'[i][p] = persisters[i][p]
      /\ \A j \in Server : j # i => saved'[j] = saved[j] /\ persisters'[j] = persisters[j]
  BY <1>1, SaveIs, Zenon
<1>3. /\ Len(given[i]) = d /\ Len(memory[i]) = d /\ servers[i] \in {0, d}
      /\ \A g \in 1 .. d : given[i][g] \in 1 .. n /\ memory[i][g] = persisters[i][given[i][g]]
      /\ \A g, h \in 1 .. d : given[i][g] = given[i][h] => g = h
      /\ registered[i] <= d
  BY <1>1, Zenon DEF Own
<1>4. ASSUME NEW g \in 1 .. d
      PROVE  given[i][g] \in 1 .. n + 1 /\ given[i][g] # n + 1
  BY <1>3
<1>5. ASSUME NEW j \in Server
      PROVE  Own(j)'
  <2>1. CASE j # i
    BY <1>2, <2>1, OwnKept, Zenon
  <2>2. CASE j = i
    <3>1. n + 1 <= n + 1
      OBVIOUS
    <3>2. \A g \in 1 .. d : given[i][g] \in 1 .. n + 1 /\ memory[i][g] = persisters'[i][given[i][g]]
      BY <1>2, <1>3, <1>4, Zenon
    <3> QED
      BY <1>1, <1>2, <1>3, <2>2, <3>1, <3>2, Zenon DEF Own
  <2> QED
    BY <2>1, <2>2, Zenon
<1>6. Fits'
  <2> SUFFICES ASSUME NEW j \in Server, NEW p \in 1 .. Len(persisters'[j])
               PROVE  /\ persisters'[j][p].raftstate \intersect persisters'[j][p].snapshot = {}
                      /\ \A o \in Ops(persisters'[j][p]) : call[o].stage \notin {"new", "run"}
    BY Zenon DEF Fits, Ops
  <2>1. CASE j # i
    BY <1>2, <2>1, Zenon DEF Fits
  <2>2. CASE j = i /\ p = n + 1
    BY <1>2, <2>2, Zenon
  <2>3. CASE j = i /\ p # n + 1
    <3>1. p \in 1 .. n
      BY <1>2, <2>3
    <3> QED
      BY <1>1, <1>2, <2>3, <3>1, Zenon DEF Fits
  <2> QED
    BY <2>1, <2>2, <2>3, Zenon
<1>7. n + 1 # 0
  OBVIOUS
<1>8. Calls'
  <2> SUFFICES ASSUME NEW o \in Op
               PROVE  /\ call[o].stage # "new" => call[o].g \in 1 .. started[call[o].i]
                      /\ call[o].stage = "saved" => o \in Ops(memory[call[o].i][call[o].g])
                      /\ call[o].stage = "acked" =>
                            saved'[call[o].i] # 0 /\ o \in Ops(Content(call[o].i)')
    BY Zenon DEF Calls, Ops
  <2>1. call[o].i \in Server
    BY DEF TypeOK, CallRec
  <2>2. ASSUME call[o].stage = "acked"
        PROVE  saved'[call[o].i] # 0 /\ o \in Ops(Content(call[o].i)')
    <3>1. saved[call[o].i] # 0 /\ o \in Ops(Content(call[o].i))
      BY <2>2, Zenon DEF Calls
    <3>2. CASE call[o].i = i
      BY <1>2, <1>7, <3>1, <3>2, Zenon
    <3>3. CASE call[o].i # i
      BY <1>2, <2>1, <3>1, <3>3, Zenon DEF Content
    <3> QED
      BY <3>2, <3>3, Zenon
  <2> QED
    BY <2>2, Zenon DEF Calls
<1> QED
  BY <1>1, <1>2, <1>4, <1>5, <1>6, <1>7, <1>8, Zenon

LEMMA Replaced ==
    ASSUME NEW f \in [Server -> Seq(Rec)], NEW i \in Server, NEW p \in 1 .. Len(f[i]), NEW x \in Rec,
           NEW h, h = [f EXCEPT ![i][p] = x]
    PROVE  /\ h \in [Server -> Seq(Rec)] /\ Len(h[i]) = Len(f[i]) /\ h[i][p] = x
           /\ \A q \in 1 .. Len(f[i]) : q # p => h[i][q] = f[i][q]
           /\ \A j \in Server : j # i => h[j] = f[j]
<1>1. PICK s \in Seq(Rec), n \in Nat : s = f[i] /\ n = Len(f[i])
  OBVIOUS
<1>2. PICK t : t = [s EXCEPT ![p] = x]
  BY Zenon
<1>3. t \in Seq(Rec) /\ Len(t) = n /\ t[p] = x /\ \A q \in 1 .. n : q # p => t[q] = s[q]
  BY <1>1, <1>2
<1>4. h = [f EXCEPT ![i] = t]
  BY <1>1, <1>2, Zenon
<1>5. h \in [Server -> Seq(Rec)] /\ h[i] = t /\ \A j \in Server : j # i => h[j] = f[j]
  BY <1>3, <1>4, Zenon
<1> QED
  BY <1>1, <1>3, <1>5, Zenon

\* An instance, even an old one, writes to its own persister only, and never
\* takes anything away.
LEMMA WriteKeeps ==
    ASSUME TypeOK, \A j \in Server : Own(j), Fits, Calls, NotGiven,
           NEW i \in Server, NEW g \in 1 .. started[i], NEW new \in Rec,
           memory' = [memory EXCEPT ![i][g] = new],
           persisters' = [persisters EXCEPT ![i][given[i][g]] = new],
           UNCHANGED <<started, servers, registered, given, saved, todo, who, raftlog>>,
           Ops(memory[i][g]) \subseteq Ops(new), new.raftstate \intersect new.snapshot = {},
           \A o \in Op : call[o].stage \notin {"new", "run"} => call'[o].stage \notin {"new", "run"},
           \A o \in Ops(new) : call'[o].stage \notin {"new", "run"},
           \A o \in Op : \/ call'[o] = call[o]
                         \/ /\ call[o].stage = "run" /\ call'[o].stage = "saved"
                            /\ call[o].i = i /\ call[o].g = g /\ call'[o].i = i /\ call'[o].g = g
                            /\ o \in Ops(new)
    PROVE  /\ memory' \in [Server -> Seq(Rec)] /\ persisters' \in [Server -> Seq(Rec)]
           /\ (\A j \in Server : Own(j))' /\ Fits' /\ Calls' /\ NotGiven'
<1>0. PICK p : p = given[i][g]
  BY Zenon
<1>1. PICK n \in Nat, d \in Nat : n = Len(persisters[i]) /\ d = started[i] /\ p = given[i][g]
  BY <1>0 DEF TypeOK
<1>2. /\ Len(given[i]) = d /\ Len(memory[i]) = d /\ servers[i] \in {0, d} /\ saved[i] <= n
      /\ \A h \in 1 .. d : given[i][h] \in 1 .. n /\ memory[i][h] = persisters[i][given[i][h]]
      /\ \A h, k \in 1 .. d : given[i][h] = given[i][k] => h = k
      /\ registered[i] <= d
      /\ registered[i] # 0 => given[i][registered[i]] = saved[i]
  BY <1>1, Zenon DEF Own
<1>3. g \in 1 .. d /\ p \in 1 .. n /\ memory[i][g] = persisters[i][p]
  BY <1>1, <1>2, Zenon
<1>4. /\ memory' \in [Server -> Seq(Rec)] /\ Len(memory'[i]) = d /\ memory'[i][g] = new
      /\ \A h \in 1 .. d : h # g => memory'[i][h] = memory[i][h]
      /\ \A j \in Server : j # i => memory'[j] = memory[j]
  <2>1. memory \in [Server -> Seq(Rec)] /\ g \in 1 .. Len(memory[i])
    BY <1>2, <1>3, Zenon DEF TypeOK
  <2>2. PICK h : h = memory'
    BY Zenon
  <2>3. h = [memory EXCEPT ![i][g] = new]
    BY <2>2, Zenon
  <2>4. /\ h \in [Server -> Seq(Rec)] /\ Len(h[i]) = Len(memory[i]) /\ h[i][g] = new
        /\ \A q \in 1 .. Len(memory[i]) : q # g => h[i][q] = memory[i][q]
        /\ \A j \in Server : j # i => h[j] = memory[j]
    BY <2>1, <2>3, Replaced
  <2> QED
    BY <1>2, <2>2, <2>4, Zenon
<1>5. /\ persisters' \in [Server -> Seq(Rec)] /\ Len(persisters'[i]) = n /\ persisters'[i][p] = new
      /\ \A q \in 1 .. n : q # p => persisters'[i][q] = persisters[i][q]
      /\ \A j \in Server : j # i => persisters'[j] = persisters[j]
  <2>1. persisters \in [Server -> Seq(Rec)] /\ p \in 1 .. Len(persisters[i])
    BY <1>1, <1>3, Zenon DEF TypeOK
  <2>2. PICK h : h = persisters'
    BY Zenon
  <2>3. h = [persisters EXCEPT ![i][p] = new]
    BY <1>1, <2>2, Zenon
  <2>4. /\ h \in [Server -> Seq(Rec)] /\ Len(h[i]) = Len(persisters[i]) /\ h[i][p] = new
        /\ \A q \in 1 .. Len(persisters[i]) : q # p => h[i][q] = persisters[i][q]
        /\ \A j \in Server : j # i => h[j] = persisters[j]
    BY <2>1, <2>3, Replaced
  <2> QED
    BY <1>1, <2>2, <2>4, Zenon
<1>6. ASSUME NEW j \in Server
      PROVE  Own(j)'
  <2>1. CASE j # i
    BY <1>4, <1>5, <2>1, OwnKept, Zenon
  <2>2. CASE j = i
    <3>1. ASSUME NEW h \in 1 .. d
          PROVE  given[i][h] \in 1 .. n /\ memory'[i][h] = persisters'[i][given[i][h]]
      <4>1. CASE h = g
        BY <1>1, <1>2, <1>4, <1>5, <4>1, Zenon
      <4>2. CASE h # g
        <5>1. given[i][h] \in 1 .. n /\ given[i][h] # p
          BY <1>1, <1>2, <1>3, <4>2, Zenon
        <5> QED
          BY <1>2, <1>4, <1>5, <4>2, <5>1
      <4> QED
        BY <4>1, <4>2, Zenon
    <3> QED
      BY <1>1, <1>2, <1>4, <1>5, <2>2, <3>1 DEF Own
  <2> QED
    BY <2>1, <2>2, Zenon
<1>7. Fits'
  <2> SUFFICES ASSUME NEW j \in Server, NEW q \in 1 .. Len(persisters'[j])
               PROVE  /\ persisters'[j][q].raftstate \intersect persisters'[j][q].snapshot = {}
                      /\ \A o \in Ops(persisters'[j][q]) : call'[o].stage \notin {"new", "run"}
    BY Zenon DEF Fits, Ops
  <2>1. CASE j = i /\ q = p
    BY <1>5, <2>1, Zenon
  <2>2. CASE ~(j = i /\ q = p)
    <3>1. q \in 1 .. Len(persisters[j]) /\ persisters'[j][q] = persisters[j][q]
      BY <1>1, <1>5, <2>2, Zenon
    <3>2. persisters[j][q] \in Rec
      <4>1. persisters[j] \in Seq(Rec)
        BY Zenon DEF TypeOK
      <4> QED
        BY <3>1, <4>1
    <3>3. Ops(persisters[j][q]) \subseteq Op
      BY <3>2 DEF Rec, Ops
    <3> QED
      BY <3>1, <3>3, Zenon DEF Fits
  <2> QED
    BY <2>1, <2>2, Zenon
<1>8. \A j \in Server : saved[j] # 0 => Ops(Content(j)) \subseteq Ops(Content(j)')
  <2> SUFFICES ASSUME NEW j \in Server, saved[j] # 0
               PROVE  Ops(Content(j)) \subseteq Ops(Content(j)')
    BY Zenon
  <2>1. saved[j] \in 1 .. Len(persisters[j])
    BY ContentRec, Zenon DEF Own
  <2>2. CASE j = i /\ saved[j] = p
    BY <1>3, <1>5, <2>2, Zenon DEF Content
  <2>3. CASE ~(j = i /\ saved[j] = p)
    <3>1. persisters'[j][saved[j]] = persisters[j][saved[j]]
      <4>1. CASE j # i
        BY <1>5, <4>1, Zenon
      <4>2. CASE j = i
        <5>1. saved[i] \in 1 .. n /\ saved[i] # p
          BY <1>1, <2>1, <2>3, <4>2, Zenon
        <5> QED
          BY <1>5, <4>2, <5>1, Zenon
      <4> QED
        BY <4>1, <4>2, Zenon
    <3> QED
      BY <1>1, <3>1, Zenon DEF Content
  <2> QED
    BY <2>2, <2>3, Zenon
<1>9. ASSUME NEW j \in Server, NEW h \in 1 .. started[j]
      PROVE  Ops(memory[j][h]) \subseteq Ops(memory'[j][h])
  <2>1. CASE j = i /\ h = g
    BY <1>4, <2>1, Zenon
  <2>2. CASE ~(j = i /\ h = g)
    BY <1>1, <1>4, <2>2, Zenon
  <2> QED
    BY <2>1, <2>2, Zenon
<1>10. Calls'
  <2> SUFFICES ASSUME NEW o \in Op
               PROVE  /\ call'[o].stage # "new" => call'[o].g \in 1 .. started[call'[o].i]
                      /\ call'[o].stage = "saved" => o \in Ops(memory'[call'[o].i][call'[o].g])
                      /\ call'[o].stage = "acked" =>
                            saved[call'[o].i] # 0 /\ o \in Ops(persisters'[call'[o].i][saved[call'[o].i]])
    BY Zenon DEF Calls, Ops, Content
  <2>1. CASE call'[o] = call[o]
    <3>1. call[o].i \in Server
      BY DEF TypeOK, CallRec
    <3>2. /\ call[o].stage # "new" => call[o].g \in 1 .. started[call[o].i]
          /\ call[o].stage = "saved" => o \in Ops(memory[call[o].i][call[o].g])
          /\ call[o].stage = "acked" => saved[call[o].i] # 0 /\ o \in Ops(Content(call[o].i))
      BY Zenon DEF Calls
    <3>3. call[o].stage = "saved" => call[o].stage # "new"
      OBVIOUS
    <3>4. call[o].stage = "saved" => o \in Ops(memory'[call[o].i][call[o].g])
      BY <1>9, <3>1, <3>2, <3>3, Zenon
    <3>5. call[o].stage = "acked" =>
            saved[call[o].i] # 0 /\ o \in Ops(persisters'[call[o].i][saved[call[o].i]])
      BY <1>8, <3>1, <3>2, Zenon DEF Content
    <3> QED
      BY <2>1, <3>2, <3>4, <3>5, Zenon
  <2>2. CASE call'[o] # call[o]
    <3>1. call'[o].stage = "saved" /\ call'[o].i = i /\ call'[o].g = g /\ o \in Ops(new)
      BY <2>2, Zenon
    <3>2. call'[o].stage # "acked"
      BY <3>1
    <3> QED
      BY <1>4, <3>1, <3>2, Zenon
  <2> QED
    BY <2>1, <2>2, Zenon
<1>11. NotGiven'
  <2>1. At' = At
    BY Zenon DEF At
  <2>2. who \in Server
    BY Zenon DEF TypeOK
  <2>3. ASSUME At = "rebuild", saved[who] # 0
        PROVE  raftlog' = Content(who)'.raftstate
    <3>1. saved[who] \in 1 .. Len(persisters[who])
      BY <2>2, <2>3, ContentRec, Zenon DEF Own
    <3>2. \A h \in 1 .. started[who] : given[who][h] # saved[who]
      BY <2>3, Zenon DEF NotGiven
    <3>3. who = i => saved[who] # p
      BY <1>1, <3>2, Zenon
    <3>4. Content(who)' = Content(who)
      BY <1>1, <1>5, <2>2, <3>1, <3>3, Zenon DEF Content
    <3> QED
      BY <2>3, <3>4, Zenon DEF NotGiven
  <2> QED
    BY <2>1, <2>3, Zenon DEF NotGiven, Content
<1> QED
  BY <1>4, <1>5, <1>6, <1>7, <1>10, <1>11, Zenon

----------------------------------------------------------------------------
(* The persisters and the instances in a step *)

\* What the storage invariants speak of.
machine == <<todo, who, raftlog, started, servers, registered, given, memory, saved, persisters, call>>

LEMMA StorageKept ==
    ASSUME Storage, UNCHANGED machine
    PROVE  Storage'
<1>1. UNCHANGED <<todo, who, raftlog, started, servers, registered, given, memory, saved, persisters, call>>
  BY Zenon DEF machine
<1>2. At' = At /\ \A i : Content(i)' = Content(i)
  BY <1>1, Zenon DEF At, Content
<1>3. (\A i \in Server : Own(i))'
  BY <1>1, OwnKept, Zenon DEF Storage
<1>4. Gone' /\ NotGiven'
  BY <1>1, <1>2, Zenon DEF Storage, Gone, NotGiven
<1>5. Fits' /\ Calls'
  BY <1>1, <1>2, Zenon DEF Storage, Fits, Calls, Ops
<1> QED
  BY <1>3, <1>4, <1>5, Zenon DEF Storage

\* The steps of the tester that write nothing and register nobody.
LEMMA StorageMoves ==
    ASSUME Storage, UNCHANGED <<started, servers, registered, given, memory, saved, persisters, call>>
    PROVE  (\A i \in Server : Own(i))' /\ Fits' /\ Calls'
<1>1. \A i : Content(i)' = Content(i)
  BY Zenon DEF Content
<1>2. (\A i \in Server : Own(i))'
  BY OwnKept, Zenon DEF Storage
<1>3. Fits' /\ Calls'
  BY <1>1, Zenon DEF Storage, Fits, Calls, Ops
<1> QED
  BY <1>2, <1>3, Zenon

LEMMA StorageRun ==
    ASSUME IInv, StartNext \/ ShutdownOne \/ StartOne
    PROVE  Storage'
<1>1. PICK i \in Server, program \in {Start, Shutdown} :
        /\ Run(program, i)
        /\ \/ program = Start /\ started[i] = 0
           \/ program = Shutdown
           \/ program = Start /\ (lab # "raft" => servers[i] = 0)
  BY Zenon DEF StartNext, ShutdownOne, StartOne
<1>2. /\ At = "idle" /\ At' = Succ(program) /\ who' = i
      /\ UNCHANGED <<started, servers, registered, given, memory, saved, persisters, call, raftlog, lab>>
  BY <1>1, RunAt, Zenon DEF net, instances, store
<1>3. TypeOK /\ Storage /\ Gone /\ Own(i) /\ started[i] \in Nat /\ registered[i] \in Nat
  BY Zenon DEF IInv, Storage, TypeOK
<1>4. started[i] = 0 => servers[i] = 0
  BY <1>3 DEF Own
<1>5. servers[i] = 0 => registered[i] = 0
  BY <1>2, <1>3, Zenon DEF Gone
<1>6. At' = "disconnect" \/ (At' = "ends" /\ registered[i] = 0)
  <2>1. lab \in {"raft", "kv", "shardkv"}
    BY <1>3, Zenon DEF TypeOK
  <2>2. CASE program = Shutdown
    BY <1>2, <2>1, <2>2, ShutdownIs, Zenon
  <2>3. CASE program = Start /\ lab = "raft"
    BY <1>2, <2>3, StartIs, Zenon
  <2>4. CASE program = Start /\ lab # "raft" /\ servers[i] = 0
    BY <1>2, <1>5, <2>1, <2>4, StartIs
  <2> QED
    BY <1>1, <1>4, <2>2, <2>3, <2>4, Zenon
<1>7. Gone'
  <2>1. \A j \in Server : servers[j] = 0 => registered[j] = 0
    BY <1>2, <1>3, Zenon DEF Gone
  <2>2. At' # "disconnect" => registered[i] = 0
    BY <1>6, Zenon
  <2>3. At' \in {"copy", "kill", "readState", "rebuild", "ends", "persister", "make", "add"} => At' # "disconnect"
    OBVIOUS
  <2> QED
    BY <1>2, <2>1, <2>2, <2>3, Zenon DEF Gone
<1>8. NotGiven'
  <2>1. At' \notin {"kill", "readState", "rebuild", "make", "add"}
    BY <1>6
  <2> QED
    BY <2>1, Zenon DEF NotGiven
<1> QED
  BY <1>2, <1>3, <1>7, <1>8, StorageMoves, Zenon DEF Storage

LEMMA StorageDelete ==
    ASSUME IInv, DeleteServer
    PROVE  Storage'
<1>1. TypeOK /\ Storage /\ who \in Server /\ registered \in [Server -> Nat]
  BY Zenon DEF IInv, TypeOK
<1>2. /\ Doing("delete") /\ registered' = [registered EXCEPT ![who] = 0]
      /\ UNCHANGED <<started, servers, given, memory, saved, persisters, call>>
  BY Zenon DEF DeleteServer, instances, store
<1>3. At = "delete" /\ At' = "copy" /\ who' = who
  BY <1>1, <1>2, DoingAt, FollowsIs, Zenon
<1>4. registered'[who] = 0 /\ \A i \in Server : i # who => registered'[i] = registered[i]
  BY <1>1, <1>2, Zenon
<1>5. ASSUME NEW i \in Server
      PROVE  Own(i)'
  <2>1. CASE i # who
    BY <1>1, <1>2, <1>4, <2>1, OwnKept, Zenon DEF Storage
  <2>2. CASE i = who
    <3>1. 0 <= started[i]
      BY <1>1 DEF IInv, TypeOK
    <3> QED
      BY <1>1, <1>2, <1>4, <2>2, <3>1 DEF Storage, Own
  <2> QED
    BY <2>1, <2>2, Zenon
<1>6. Fits' /\ Calls'
  <2>1. \A i : Content(i)' = Content(i)
    BY <1>2, Zenon DEF Content
  <2> QED
    BY <1>1, <1>2, <2>1, Zenon DEF Storage, Fits, Calls, Ops
<1>7. Gone'
  <2>1. At # "idle" /\ At' # "idle"
    BY <1>3
  <2> QED
    BY <1>1, <1>2, <1>3, <1>4, <2>1, Zenon DEF Storage, Gone
<1>8. NotGiven'
  <2>1. At' \notin {"kill", "readState", "rebuild", "make", "add"}
    BY <1>3
  <2> QED
    BY <2>1, Zenon DEF NotGiven
<1> QED
  BY <1>5, <1>6, <1>7, <1>8, Zenon DEF Storage

LEMMA GoneStays ==
    ASSUME Gone, registered[who] = 0, UNCHANGED <<registered, who>>,
           \A i \in Server : i # who => servers'[i] = servers[i]
    PROVE  Gone'
BY Zenon DEF Gone

LEMMA ContentFits ==
    ASSUME TypeOK, Storage, NEW i \in Server, saved[i] # 0
    PROVE  /\ Content(i) \in Rec
           /\ Content(i).raftstate \intersect Content(i).snapshot = {}
           /\ \A o \in Ops(Content(i)) : call[o].stage \notin {"new", "run"}
<1>1. saved[i] \in 1 .. Len(persisters[i]) /\ Content(i) \in Rec /\ Content(i) = persisters[i][saved[i]]
  BY ContentRec, Zenon DEF Storage, Own
<1> QED
  BY <1>1, Zenon DEF Storage, Fits

LEMMA NoneGiven ==
    ASSUME TypeOK, Storage, NEW i \in Server, saved[i] = 0
    PROVE  \A g \in 1 .. started[i] : given[i][g] # saved[i]
BY DEF Storage, Own

LEMMA StorageCopy ==
    ASSUME IInv, CopySaved
    PROVE  Storage'
<1>1. TypeOK /\ Storage /\ who \in Server
  BY Zenon DEF IInv, TypeOK
<1>2. /\ Doing("copy") /\ Copy(who)
      /\ UNCHANGED <<started, servers, registered, given, memory, call>>
  BY Zenon DEF CopySaved, instances, net
<1>3. At = "copy" /\ At' = "kill" /\ who' = who
  BY <1>1, <1>2, DoingAt, FollowsIs, Zenon
<1>4. registered[who] = 0
  BY <1>1, <1>3, Zenon DEF Storage, Gone
<1>5. Gone'
  BY <1>1, <1>2, <1>3, <1>4, GoneStays, Zenon DEF Storage
<1>6. /\ (\A i \in Server : Own(i))' /\ Fits' /\ Calls'
      /\ \A g \in 1 .. started[who] : given'[who][g] # saved'[who]
  <2>1. CASE saved[who] # 0
    <3>1. Save(who, Content(who))
      BY <1>2, <2>1, Zenon DEF Copy
    <3> QED
      BY <1>1, <1>2, <1>4, <2>1, <3>1, ContentFits, SaveKeeps, Zenon DEF Storage
  <2>2. CASE saved[who] = 0
    <3>1. UNCHANGED <<saved, persisters>>
      BY <1>2, <2>2, Zenon DEF Copy, store
    <3> QED
      BY <1>1, <1>2, <2>2, <3>1, StorageMoves, NoneGiven, Zenon
  <2> QED
    BY <2>1, <2>2, Zenon
<1>7. NotGiven'
  <2>1. At' # "make" /\ At' # "rebuild" /\ At' # "add"
    BY <1>3
  <2> QED
    BY <1>2, <1>3, <1>6, <2>1, Zenon DEF NotGiven
<1> QED
  BY <1>5, <1>6, <1>7, Zenon DEF Storage

LEMMA StorageKill ==
    ASSUME IInv, Kill
    PROVE  Storage'
<1>1. TypeOK /\ Storage /\ who \in Server /\ servers \in [Server -> Nat]
  BY Zenon DEF IInv, TypeOK
<1>2. /\ Doing("kill") /\ servers' = [servers EXCEPT ![who] = 0]
      /\ UNCHANGED <<started, registered, given, memory, saved, persisters, call>>
  BY Zenon DEF Kill, store, net
<1>3. At = "kill" /\ At' \in {"idle", "readState"} /\ who' = who
  BY <1>1, <1>2, DoingAt, FollowsIs, Zenon
<1>4. registered[who] = 0
  BY <1>1, <1>3, Zenon DEF Storage, Gone
<1>5. servers'[who] = 0 /\ \A i \in Server : i # who => servers'[i] = servers[i]
  BY <1>1, <1>2, Zenon
<1>6. Gone'
  BY <1>1, <1>2, <1>3, <1>4, <1>5, GoneStays, Zenon DEF Storage
<1>7. ASSUME NEW i \in Server
      PROVE  Own(i)'
  <2>1. CASE i # who
    BY <1>1, <1>2, <1>5, <2>1, OwnKept, Zenon DEF Storage
  <2>2. CASE i = who
    BY <1>1, <1>2, <1>5, <2>2 DEF Storage, Own
  <2> QED
    BY <2>1, <2>2, Zenon
<1>8. Fits' /\ Calls'
  <2>1. \A i : Content(i)' = Content(i)
    BY <1>2, Zenon DEF Content
  <2> QED
    BY <1>1, <1>2, <2>1, Zenon DEF Storage, Fits, Calls, Ops
<1>9. NotGiven'
  <2>1. At' # "make" /\ At' # "rebuild" /\ At' # "add"
    BY <1>3
  <2>2. \A g \in 1 .. started[who] : given[who][g] # saved[who]
    BY <1>1, <1>3, Zenon DEF Storage, NotGiven
  <2> QED
    BY <1>2, <1>3, <2>1, <2>2, Zenon DEF NotGiven
<1> QED
  BY <1>6, <1>7, <1>8, <1>9, Zenon DEF Storage

LEMMA StorageRead ==
    ASSUME IInv, ReadRaftState
    PROVE  Storage'
<1>1. TypeOK /\ Storage /\ who \in Server
  BY Zenon DEF IInv, TypeOK
<1>2. /\ Doing("readState") /\ raftlog' = (IF saved[who] # 0 THEN Content(who).raftstate ELSE raftlog)
      /\ UNCHANGED <<started, servers, registered, given, memory, saved, persisters, call>>
  BY Zenon DEF ReadRaftState, store, net, instances
<1>3. At = "readState" /\ At' = "rebuild" /\ who' = who
  BY <1>1, <1>2, DoingAt, FollowsIs, Zenon
<1>4. Gone'
  BY <1>1, <1>2, <1>3, GoneStays, Zenon DEF Storage, Gone
<1>5. NotGiven'
  <2>1. At' # "make" /\ At' # "add"
    BY <1>3
  <2>2. \A g \in 1 .. started[who] : given[who][g] # saved[who]
    BY <1>1, <1>3, Zenon DEF Storage, NotGiven
  <2>3. Content(who)' = Content(who)
    BY <1>2, <1>3, Zenon DEF Content
  <2> QED
    BY <1>2, <1>3, <2>1, <2>2, <2>3, Zenon DEF NotGiven
<1> QED
  BY <1>1, <1>2, <1>4, <1>5, StorageMoves, Zenon DEF Storage

\* crash1 reads the raft state and the snapshot one after the other, and yet
\* what it puts together fits: the persister is nobody's in between.
LEMMA StorageRebuild ==
    ASSUME IInv, RebuildPersister
    PROVE  Storage'
<1>1. TypeOK /\ Storage /\ who \in Server
  BY Zenon DEF IInv, TypeOK
<1>2. /\ Doing("rebuild")
      /\ IF saved[who] # 0
         THEN Save(who, [raftstate |-> raftlog, snapshot |-> Content(who).snapshot])
         ELSE UNCHANGED <<saved, persisters>>
      /\ UNCHANGED <<started, servers, registered, given, memory, call>>
  BY Zenon DEF RebuildPersister, net, instances, store
<1>3. At = "rebuild" /\ At' \in {"idle", "ends"} /\ who' = who
  BY <1>1, <1>2, DoingAt, FollowsIs, Zenon
<1>4. registered[who] = 0
  BY <1>1, <1>3, Zenon DEF Storage, Gone
<1>5. Gone'
  BY <1>1, <1>2, <1>3, <1>4, GoneStays, Zenon DEF Storage
<1>6. NotGiven'
  <2>1. At' \notin {"kill", "readState", "rebuild", "make", "add"}
    BY <1>3
  <2> QED
    BY <2>1, Zenon DEF NotGiven
<1>7. (\A i \in Server : Own(i))' /\ Fits' /\ Calls'
  <2>1. CASE saved[who] # 0
    <3>1. PICK c : c = [raftstate |-> raftlog, snapshot |-> Content(who).snapshot]
      BY Zenon
    <3>2. raftlog = Content(who).raftstate
      BY <1>1, <1>3, <2>1, Zenon DEF Storage, NotGiven
    <3>3. Content(who) \in Rec
      BY <1>1, <2>1, ContentFits, Zenon
    <3>4. c = Content(who)
      BY <3>1, <3>2, <3>3 DEF Rec
    <3>5. Save(who, Content(who))
      BY <1>2, <2>1, <3>1, <3>4, Zenon
    <3> QED
      BY <1>1, <1>2, <1>4, <2>1, <3>5, ContentFits, SaveKeeps, Zenon DEF Storage
  <2>2. CASE saved[who] = 0
    BY <1>1, <1>2, <2>2, StorageMoves, Zenon
  <2> QED
    BY <2>1, <2>2, Zenon
<1> QED
  BY <1>5, <1>6, <1>7, Zenon DEF Storage

LEMMA StorageNew ==
    ASSUME IInv, NewPersister
    PROVE  Storage'
<1>1. TypeOK /\ Storage /\ who \in Server
  BY Zenon DEF IInv, TypeOK
<1>2. PICK c : c = IF saved[who] # 0 THEN Content(who) ELSE Empty
  BY Zenon
<1>3. /\ Doing("persister") /\ Save(who, c)
      /\ UNCHANGED <<started, servers, registered, given, memory, call>>
  BY <1>2, Zenon DEF NewPersister, net, instances
<1>4. At = "persister" /\ At' = "make" /\ who' = who
  BY <1>1, <1>3, DoingAt, FollowsIs, Zenon
<1>5. registered[who] = 0
  BY <1>1, <1>4, Zenon DEF Storage, Gone
<1>6. Gone'
  BY <1>1, <1>3, <1>4, <1>5, GoneStays, Zenon DEF Storage
<1>7. /\ c \in Rec /\ c.raftstate \intersect c.snapshot = {}
      /\ \A o \in Ops(c) : call[o].stage \notin {"new", "run"}
      /\ saved[who] # 0 => Ops(Content(who)) \subseteq Ops(c)
  <2>1. CASE saved[who] # 0
    BY <1>1, <1>2, <2>1, ContentFits, Zenon
  <2>2. CASE saved[who] = 0
    BY <1>2, <2>2, EmptyRec, Zenon
  <2> QED
    BY <2>1, <2>2, Zenon
<1>8. /\ (\A i \in Server : Own(i))' /\ Fits' /\ Calls'
      /\ \A g \in 1 .. started[who] : given'[who][g] # saved'[who]
      /\ saved'[who] # 0
  BY <1>1, <1>3, <1>5, <1>7, SaveKeeps, Zenon DEF Storage
<1>9. NotGiven'
  <2>1. At' # "rebuild" /\ At' # "add"
    BY <1>4
  <2> QED
    BY <1>3, <1>4, <1>8, <2>1, Zenon DEF NotGiven
<1> QED
  BY <1>6, <1>8, <1>9, Zenon DEF Storage

\* An instance is made: it alone has the saved persister.
LEMMA MakeIs ==
    ASSUME IInv, Make
    PROVE  /\ At = "make" /\ At' = "add" /\ who' = who /\ who \in Server
           /\ started' = [started EXCEPT ![who] = started[who] + 1]
           /\ servers' = [servers EXCEPT ![who] = started[who] + 1]
           /\ given' = [given EXCEPT ![who] = Append(given[who], saved[who])]
           /\ memory' = [memory EXCEPT ![who] = Append(memory[who], Content(who))]
           /\ UNCHANGED <<registered, saved, persisters, call, raftlog, net>>
           /\ saved[who] # 0
<1>1. TypeOK /\ Storage /\ who \in Server
  BY Zenon DEF IInv, TypeOK
<1>2. /\ Doing("make")
      /\ started' = [started EXCEPT ![who] = started[who] + 1]
      /\ servers' = [servers EXCEPT ![who] = started[who] + 1]
      /\ given' = [given EXCEPT ![who] = Append(given[who], saved[who])]
      /\ memory' = [memory EXCEPT ![who] =
                        Append(memory[who], IF saved[who] # 0 THEN Content(who) ELSE Empty)]
      /\ UNCHANGED <<registered, saved, persisters, call, raftlog, net>>
  BY Zenon DEF Make, store, net
<1>3. At = "make" /\ At' = "add" /\ who' = who
  BY <1>1, <1>2, DoingAt, FollowsIs, Zenon
<1>4. saved[who] # 0
  BY <1>1, <1>3, Zenon DEF Storage, NotGiven
<1> QED
  BY <1>1, <1>2, <1>3, <1>4, Zenon

LEMMA MakeType ==
    ASSUME IInv, Make
    PROVE  /\ started' \in [Server -> Nat] /\ servers' \in [Server -> Nat]
           /\ given' \in [Server -> Seq(Nat)] /\ memory' \in [Server -> Seq(Rec)]
           /\ started'[who] = started[who] + 1 /\ servers'[who] = started[who] + 1
           /\ \A i \in Server : i # who => /\ started'[i] = started[i] /\ servers'[i] = servers[i]
                                           /\ given'[i] = given[i] /\ memory'[i] = memory[i]
           /\ LET d == started[who] IN
              /\ Len(given'[who]) = d + 1 /\ given'[who][d + 1] = saved[who]
              /\ Len(memory'[who]) = d + 1 /\ memory'[who][d + 1] = Content(who)
              /\ \A g \in 1 .. d : given'[who][g] = given[who][g] /\ memory'[who][g] = memory[who][g]
<1>1. /\ TypeOK /\ Storage /\ who \in Server /\ Own(who)
      /\ started \in [Server -> Nat] /\ servers \in [Server -> Nat]
      /\ given \in [Server -> Seq(Nat)] /\ memory \in [Server -> Seq(Rec)] /\ saved[who] \in Nat
  BY Zenon DEF IInv, TypeOK, Storage
<1>2. PICK d \in Nat, s \in Seq(Nat), t \in Seq(Rec) :
        d = started[who] /\ s = given[who] /\ t = memory[who] /\ Len(s) = d /\ Len(t) = d
  BY <1>1, Zenon DEF Own
<1>3. PICK c \in Rec : c = Content(who)
  BY <1>1, MakeIs, ContentFits, Zenon
<1>4. PICK v \in Nat : v = saved[who]
  BY <1>1, Zenon
<1>5. PICK s1 \in Seq(Nat), t1 \in Seq(Rec) : s1 = Append(s, v) /\ t1 = Append(t, c)
  BY Appended, Zenon
<1>6. Len(s1) = d + 1 /\ s1[d + 1] = v /\ \A g \in 1 .. d : s1[g] = s[g]
  BY <1>2, <1>5
<1>7. Len(t1) = d + 1 /\ t1[d + 1] = c /\ \A g \in 1 .. d : t1[g] = t[g]
  BY <1>2, <1>5
<1>8. /\ started' = [started EXCEPT ![who] = d + 1] /\ servers' = [servers EXCEPT ![who] = d + 1]
      /\ given' = [given EXCEPT ![who] = s1] /\ memory' = [memory EXCEPT ![who] = t1]
  BY <1>2, <1>3, <1>4, <1>5, MakeIs, Zenon
<1>9. d + 1 \in Nat
  OBVIOUS
<1>10. /\ started' \in [Server -> Nat] /\ servers' \in [Server -> Nat]
       /\ given' \in [Server -> Seq(Nat)] /\ memory' \in [Server -> Seq(Rec)]
  BY <1>1, <1>8, <1>9, Zenon
<1>11. /\ started'[who] = d + 1 /\ servers'[who] = d + 1 /\ given'[who] = s1 /\ memory'[who] = t1
       /\ \A i \in Server : i # who => /\ started'[i] = started[i] /\ servers'[i] = servers[i]
                                       /\ given'[i] = given[i] /\ memory'[i] = memory[i]
  BY <1>1, <1>8, Zenon
<1> QED
  BY <1>2, <1>3, <1>4, <1>6, <1>7, <1>10, <1>11, Zenon

LEMMA StorageMake ==
    ASSUME IInv, Make
    PROVE  Storage'
<1>1. TypeOK /\ Storage /\ who \in Server /\ Own(who)
  BY Zenon DEF IInv, TypeOK, Storage
<1>2. /\ At = "make" /\ At' = "add" /\ who' = who
      /\ UNCHANGED <<registered, saved, persisters, call>> /\ saved[who] # 0
  BY MakeIs, Zenon
<1>3. PICK d \in Nat, n \in Nat : d = started[who] /\ n = Len(persisters[who])
  BY <1>1 DEF TypeOK
<1>4. /\ started'[who] = d + 1 /\ servers'[who] = d + 1
      /\ \A i \in Server : i # who => /\ started'[i] = started[i] /\ servers'[i] = servers[i]
                                      /\ given'[i] = given[i] /\ memory'[i] = memory[i]
      /\ Len(given'[who]) = d + 1 /\ given'[who][d + 1] = saved[who]
      /\ Len(memory'[who]) = d + 1 /\ memory'[who][d + 1] = Content(who)
      /\ \A g \in 1 .. d : given'[who][g] = given[who][g] /\ memory'[who][g] = memory[who][g]
  BY <1>3, MakeType, Zenon
<1>5. registered[who] = 0
  BY <1>1, <1>2, Zenon DEF Storage, Gone
<1>6. Gone'
  BY <1>1, <1>2, <1>4, <1>5, GoneStays, Zenon DEF Storage
<1>7. saved[who] \in 1 .. n /\ Content(who) = persisters[who][saved[who]] /\ saved[who] <= n
  BY <1>1, <1>2, <1>3, ContentRec, Zenon DEF Own
<1>8. /\ \A g \in 1 .. d : given[who][g] \in 1 .. n /\ memory[who][g] = persisters[who][given[who][g]]
      /\ \A g, h \in 1 .. d : given[who][g] = given[who][h] => g = h
      /\ \A g \in 1 .. d : given[who][g] # saved[who]
  BY <1>1, <1>2, <1>3, Zenon DEF Storage, Own, NotGiven
<1>9. \A g \in 1 .. d + 1 : g = d + 1 \/ g \in 1 .. d
  OBVIOUS
<1>10. Own(who)'
  <2>1. ASSUME NEW g \in 1 .. d + 1
        PROVE  given'[who][g] \in 1 .. n /\ memory'[who][g] = persisters[who][given'[who][g]]
    BY <1>4, <1>7, <1>8, <1>9, Zenon
  <2>2. ASSUME NEW g \in 1 .. d + 1, NEW h \in 1 .. d + 1, given'[who][g] = given'[who][h]
        PROVE  g = h
    <3>1. CASE g \in 1 .. d /\ h \in 1 .. d
      BY <1>4, <1>8, <2>2, <3>1, Zenon
    <3>2. CASE g \in 1 .. d /\ h = d + 1
      BY <1>4, <1>8, <2>2, <3>2, Zenon
    <3>3. CASE g = d + 1 /\ h \in 1 .. d
      BY <1>4, <1>8, <2>2, <3>3, Zenon
    <3> QED
      BY <1>9, <3>1, <3>2, <3>3, Zenon
  <2>3. 0 <= d + 1
    OBVIOUS
  <2> QED
    BY <1>2, <1>3, <1>4, <1>5, <1>7, <2>1, <2>2, <2>3 DEF Own
<1>11. ASSUME NEW i \in Server
       PROVE  Own(i)'
  <2>1. CASE i # who
    BY <1>1, <1>2, <1>4, <2>1, OwnKept, Zenon DEF Storage
  <2> QED
    BY <1>2, <1>10, <2>1, Zenon
<1>12. \A i : Content(i)' = Content(i)
  BY <1>2, Zenon DEF Content
<1>13. Fits'
  BY <1>1, <1>2, Zenon DEF Storage, Fits, Ops
<1>14. ASSUME NEW i \in Server, NEW g \in 1 .. started[i]
       PROVE  g \in 1 .. started'[i] /\ memory'[i][g] = memory[i][g]
  <2>1. CASE i # who
    BY <1>4, <2>1, <1>14, Zenon
  <2>2. CASE i = who
    <3>1. g \in 1 .. d /\ g \in 1 .. d + 1
      BY <1>3, <2>2
    <3> QED
      BY <1>4, <2>2, <3>1, Zenon
  <2> QED
    BY <2>1, <2>2, Zenon
<1>15. Calls'
  <2> SUFFICES ASSUME NEW o \in Op
               PROVE  /\ call[o].stage # "new" => call[o].g \in 1 .. started'[call[o].i]
                      /\ call[o].stage = "saved" => o \in Ops(memory'[call[o].i][call[o].g])
                      /\ call[o].stage = "acked" =>
                            saved[call[o].i] # 0 /\ o \in Ops(Content(call[o].i))
    BY <1>2, <1>12, Zenon DEF Calls, Ops
  <2>1. call[o].i \in Server
    BY <1>1 DEF TypeOK, CallRec
  <2>2. call[o].stage = "saved" => call[o].stage # "new"
    OBVIOUS
  <2> QED
    BY <1>1, <1>14, <2>1, <2>2, Zenon DEF Storage, Calls
<1>16. NotGiven'
  <2>1. At' \notin {"kill", "readState", "rebuild", "make"}
    BY <1>2
  <2>2. d + 1 # 0
    OBVIOUS
  <2> QED
    BY <1>2, <1>4, <2>1, <2>2, Zenon DEF NotGiven
<1> QED
  BY <1>6, <1>11, <1>13, <1>15, <1>16, Zenon DEF Storage

LEMMA StorageAdd ==
    ASSUME IInv, AddServer
    PROVE  Storage'
<1>1. TypeOK /\ Storage /\ who \in Server /\ registered \in [Server -> Nat] /\ Own(who)
  BY Zenon DEF IInv, TypeOK, Storage
<1>2. /\ Doing("add") /\ registered' = [registered EXCEPT ![who] = servers[who]]
      /\ UNCHANGED <<started, servers, given, memory, saved, persisters, call>>
  BY Zenon DEF AddServer, instances, store
<1>3. At = "add" /\ At' = "idle" /\ who' = who
  BY <1>1, <1>2, DoingAt, FollowsIs, Zenon
<1>4. registered'[who] = servers[who] /\ \A i \in Server : i # who => registered'[i] = registered[i]
  BY <1>1, <1>2, Zenon
<1>5. started[who] # 0 /\ servers[who] = started[who] /\ given[who][started[who]] = saved[who]
  BY <1>1, <1>3, Zenon DEF Storage, NotGiven
<1>6. ASSUME NEW i \in Server
      PROVE  Own(i)'
  <2>1. CASE i # who
    BY <1>1, <1>2, <1>4, <2>1, OwnKept, Zenon DEF Storage
  <2>2. CASE i = who
    <3>1. started[who] <= started[who]
      BY <1>1 DEF TypeOK
    <3> QED
      BY <1>1, <1>2, <1>4, <1>5, <2>2, <3>1, Zenon DEF Own
  <2> QED
    BY <2>1, <2>2, Zenon
<1>7. Fits' /\ Calls'
  <2>1. \A i : Content(i)' = Content(i)
    BY <1>2, Zenon DEF Content
  <2> QED
    BY <1>1, <1>2, <2>1, Zenon DEF Storage, Fits, Calls, Ops
<1>8. Gone'
  <2>1. At' \notin {"copy", "kill", "readState", "rebuild", "ends", "persister", "make", "add"}
    BY <1>3
  <2> QED
    BY <1>1, <1>2, <1>3, <1>4, <2>1, Zenon DEF Storage, Gone
<1>9. NotGiven'
  <2>1. At' \notin {"kill", "readState", "rebuild", "make", "add"}
    BY <1>3
  <2> QED
    BY <2>1, Zenon DEF NotGiven
<1> QED
  BY <1>6, <1>7, <1>8, <1>9, Zenon DEF Storage

LEMMA StorageEnds ==
    ASSUME IInv, DisconnectStep \/ MakeEnds
    PROVE  Storage'
<1>1. TypeOK /\ Storage /\ who \in Server
  BY Zenon DEF IInv, TypeOK
<1>2. /\ Doing("disconnect") \/ Doing("ends")
      /\ UNCHANGED <<started, servers, registered, given, memory, saved, persisters, call>>
  BY Zenon DEF DisconnectStep, MakeEnds, store, instances
<1>3. /\ At \in {"disconnect", "ends"} /\ At' \in {"delete", "persister"} /\ who' = who
      /\ At' = "persister" => At = "ends"
  <2>1. CASE Doing("disconnect")
    <3>1. At = "disconnect" /\ At' = "delete" /\ who' = who
      BY <1>1, <2>1, DoingAt, FollowsIs, Zenon
    <3> QED
      BY <3>1
  <2>2. CASE Doing("ends")
    BY <1>1, <2>2, DoingAt, FollowsIs, Zenon
  <2> QED
    BY <1>2, <2>1, <2>2, Zenon
<1>4. Gone'
  <2>1. At # "idle" /\ At' # "idle"
    BY <1>3
  <2>2. At' \in {"copy", "kill", "readState", "rebuild", "ends", "persister", "make", "add"} => At = "ends"
    BY <1>3
  <2> QED
    BY <1>1, <1>2, <1>3, <2>1, <2>2, Zenon DEF Storage, Gone
<1>5. NotGiven'
  <2>1. At' \notin {"kill", "readState", "rebuild", "make", "add"}
    BY <1>3
  <2> QED
    BY <2>1, Zenon DEF NotGiven
<1> QED
  BY <1>1, <1>2, <1>4, <1>5, StorageMoves, Zenon DEF Storage

LEMMA GoneNotGivenKept ==
    ASSUME Storage, UNCHANGED <<todo, who, raftlog, started, servers, registered, given, saved, persisters>>
    PROVE  Gone' /\ NotGiven'
<1>1. At' = At /\ Content(who)' = Content(who)
  BY Zenon DEF At, Content
<1> QED
  BY <1>1, Zenon DEF Storage, Gone, NotGiven

LEMMA StorageDeliver ==
    ASSUME IInv, NEW o \in Op, NEW i \in Server, Deliver(o, i)
    PROVE  Storage' /\ call' \in [Op -> CallRec]
<1>1. TypeOK /\ Storage /\ call \in [Op -> CallRec] /\ Own(i) /\ registered[i] \in Nat /\ started[i] \in Nat
  BY Zenon DEF IInv, TypeOK, Storage
<1>2. PICK r : r = [stage |-> "run", i |-> i, g |-> registered[i]]
  BY Zenon
<1>3. /\ call[o].stage = "new" /\ registered[i] # 0 /\ call' = [call EXCEPT ![o] = r]
      /\ UNCHANGED <<todo, who, raftlog, started, servers, registered, given, memory, saved, persisters>>
  BY <1>2, Zenon DEF Deliver, tester, net, instances, store
<1>4. r \in CallRec /\ r.stage = "run" /\ r.i = i /\ r.g = registered[i]
  BY <1>1, <1>2 DEF CallRec
<1>5. call' \in [Op -> CallRec] /\ call'[o] = r /\ \A q \in Op : q # o => call'[q] = call[q]
  BY <1>1, <1>3, <1>4, Zenon
<1>6. registered[i] \in 1 .. started[i]
  BY <1>1, <1>3 DEF Own
<1>7. (\A j \in Server : Own(j))'
  BY <1>1, <1>3, OwnKept, Zenon DEF Storage
<1>8. Fits'
  <2> SUFFICES ASSUME NEW j \in Server, NEW p \in 1 .. Len(persisters[j])
               PROVE  /\ persisters[j][p].raftstate \intersect persisters[j][p].snapshot = {}
                      /\ \A q \in Ops(persisters[j][p]) : call'[q].stage \notin {"new", "run"}
    BY <1>3, Zenon DEF Fits, Ops
  <2>1. persisters[j][p] \in Rec
    <3>1. persisters[j] \in Seq(Rec)
      BY <1>1, Zenon DEF TypeOK
    <3> QED
      BY <3>1
  <2>2. Ops(persisters[j][p]) \subseteq Op
    BY <2>1 DEF Rec, Ops
  <2>3. call[o].stage \in {"new", "run"}
    BY <1>3
  <2>4. o \notin Ops(persisters[j][p])
    BY <1>1, <2>3, Zenon DEF Storage, Fits
  <2> QED
    BY <1>1, <1>5, <2>2, <2>4, Zenon DEF Storage, Fits
<1>9. Calls'
  <2> SUFFICES ASSUME NEW q \in Op
               PROVE  /\ call'[q].stage # "new" => call'[q].g \in 1 .. started[call'[q].i]
                      /\ call'[q].stage = "saved" => q \in Ops(memory[call'[q].i][call'[q].g])
                      /\ call'[q].stage = "acked" =>
                            saved[call'[q].i] # 0 /\ q \in Ops(Content(call'[q].i))
    BY <1>3, Zenon DEF Calls, Ops, Content
  <2>1. CASE q # o
    BY <1>1, <1>5, <2>1, Zenon DEF Storage, Calls
  <2>2. CASE q = o
    <3>1. call'[o].stage # "saved" /\ call'[o].stage # "acked"
      BY <1>4, <1>5
    <3> QED
      BY <1>4, <1>5, <1>6, <2>2, <3>1, Zenon
  <2> QED
    BY <2>1, <2>2, Zenon
<1> QED
  BY <1>1, <1>3, <1>5, <1>7, <1>8, <1>9, GoneNotGivenKept, Zenon DEF Storage

\* The reply of the instance that is registered still is in the persister the
\* next instance will get.
LEMMA StorageReply ==
    ASSUME IInv, NEW o \in Op, Reply(o)
    PROVE  Storage' /\ call' \in [Op -> CallRec]
<1>1. TypeOK /\ Storage /\ call \in [Op -> CallRec] /\ call[o] \in CallRec
  BY Zenon DEF IInv, TypeOK
<1>2. PICK i \in Server, g \in Nat : call[o].i = i /\ call[o].g = g
  BY <1>1 DEF CallRec
<1>3. PICK w \in {"acked", "failed"} : (w = "acked" => registered[i] = g) /\ call' = [call EXCEPT ![o].stage = w]
  BY <1>2, Zenon DEF Reply
<1>4. PICK r : r = [call[o] EXCEPT !.stage = w]
  BY Zenon
<1>5. /\ call[o].stage = "saved" /\ call' = [call EXCEPT ![o].stage = w]
      /\ UNCHANGED <<todo, who, raftlog, started, servers, registered, given, memory, saved, persisters>>
  BY <1>2, <1>3, Zenon DEF Reply, tester, net, instances, store
<1>6. r \in CallRec /\ r.stage = w /\ r.i = i /\ r.g = g
  BY <1>1, <1>2, <1>3, <1>4 DEF CallRec
<1>7. call' = [call EXCEPT ![o] = r]
  BY <1>4, <1>5, Zenon
<1>8. call' \in [Op -> CallRec] /\ call'[o] = r /\ \A q \in Op : q # o => call'[q] = call[q]
  BY <1>1, <1>6, <1>7, Zenon
<1>9. (\A j \in Server : Own(j))'
  BY <1>1, <1>5, OwnKept, Zenon DEF Storage
<1>10. w \notin {"new", "run", "saved"}
  BY <1>3
<1>11. Fits'
  <2> SUFFICES ASSUME NEW j \in Server, NEW p \in 1 .. Len(persisters[j])
               PROVE  /\ persisters[j][p].raftstate \intersect persisters[j][p].snapshot = {}
                      /\ \A q \in Ops(persisters[j][p]) : call'[q].stage \notin {"new", "run"}
    BY <1>5, Zenon DEF Fits, Ops
  <2>1. persisters[j][p] \in Rec
    <3>1. persisters[j] \in Seq(Rec)
      BY <1>1, Zenon DEF TypeOK
    <3> QED
      BY <3>1
  <2>2. Ops(persisters[j][p]) \subseteq Op
    BY <2>1 DEF Rec, Ops
  <2>3. call'[o].stage \notin {"new", "run"}
    BY <1>6, <1>8, <1>10, Zenon
  <2> QED
    BY <1>1, <1>8, <2>2, <2>3, Zenon DEF Storage, Fits
<1>12. g \in 1 .. started[i] /\ o \in Ops(memory[i][g])
  <2>1. call[o].stage # "new"
    BY <1>5
  <2> QED
    BY <1>1, <1>2, <1>5, <2>1, Zenon DEF Storage, Calls
<1>13. ASSUME registered[i] = g
       PROVE  saved[i] # 0 /\ o \in Ops(Content(i))
  <2>1. Own(i) /\ registered[i] # 0
    BY <1>1, <1>12, <1>13 DEF Storage
  <2>2. given[i][g] = saved[i] /\ given[i][g] \in 1 .. Len(persisters[i]) /\ memory[i][g] = persisters[i][given[i][g]]
    BY <1>12, <1>13, <2>1, Zenon DEF Own
  <2>3. saved[i] # 0
    BY <2>2
  <2> QED
    BY <1>12, <2>2, <2>3, Zenon DEF Content
<1>14. Calls'
  <2> SUFFICES ASSUME NEW q \in Op
               PROVE  /\ call'[q].stage # "new" => call'[q].g \in 1 .. started[call'[q].i]
                      /\ call'[q].stage = "saved" => q \in Ops(memory[call'[q].i][call'[q].g])
                      /\ call'[q].stage = "acked" =>
                            saved[call'[q].i] # 0 /\ q \in Ops(Content(call'[q].i))
    BY <1>5, Zenon DEF Calls, Ops, Content
  <2>1. CASE q # o
    BY <1>1, <1>8, <2>1, Zenon DEF Storage, Calls
  <2>2. CASE q = o
    <3>1. w = "acked" => registered[i] = g
      BY <1>3
    <3>2. w # "saved"
      BY <1>10
    <3> QED
      BY <1>6, <1>8, <1>12, <1>13, <2>2, <3>1, <3>2, Zenon
  <2> QED
    BY <2>1, <2>2, Zenon
<1> QED
  BY <1>1, <1>5, <1>8, <1>9, <1>11, <1>14, GoneNotGivenKept, Zenon DEF Storage

LEMMA GoneKept ==
    ASSUME Storage, UNCHANGED <<todo, who, servers, registered>>
    PROVE  Gone'
<1>1. At' = At
  BY Zenon DEF At
<1> QED
  BY <1>1, Zenon DEF Storage, Gone

LEMMA StorageSaveRaftState ==
    ASSUME IInv, NEW o \in Op, SaveRaftState(o)
    PROVE  /\ Storage' /\ call' \in [Op -> CallRec]
           /\ memory' \in [Server -> Seq(Rec)] /\ persisters' \in [Server -> Seq(Rec)]
<1>1. TypeOK /\ Storage /\ call \in [Op -> CallRec] /\ call[o] \in CallRec
  BY Zenon DEF IInv, TypeOK
<1>2. PICK i \in Server, g \in Nat : call[o].i = i /\ call[o].g = g
  BY <1>1 DEF CallRec
<1>3. PICK add : add = memory[i][g].raftstate \union {o}
  BY Zenon
<1>4. /\ call[o].stage = "run" /\ memory' = [memory EXCEPT ![i][g].raftstate = add]
      /\ persisters' = [persisters EXCEPT ![i][given[i][g]].raftstate = add]
      /\ call' = [call EXCEPT ![o].stage = "saved"]
      /\ UNCHANGED <<todo, who, raftlog, started, servers, registered, given, saved>>
  BY <1>2, <1>3, Zenon DEF SaveRaftState, tester, net
<1>5. g \in 1 .. started[i] /\ Own(i)
  <2>1. call[o].stage # "new"
    BY <1>4
  <2> QED
    BY <1>1, <1>2, <2>1, Zenon DEF Storage, Calls
<1>6. /\ given[i][g] \in 1 .. Len(persisters[i]) /\ memory[i][g] = persisters[i][given[i][g]]
      /\ Len(memory[i]) = started[i]
  BY <1>5, Zenon DEF Own
<1>7. PICK m \in Rec : m = memory[i][g]
  <2>1. memory[i] \in Seq(Rec)
    BY <1>1, Zenon DEF TypeOK
  <2> QED
    BY <1>5, <1>6, <2>1
<1>8. PICK new : new = [m EXCEPT !.raftstate = add]
  BY Zenon
<1>9. /\ new \in Rec /\ new.raftstate = m.raftstate \union {o} /\ new.snapshot = m.snapshot
      /\ Ops(m) \subseteq Ops(new) /\ Ops(new) = Ops(m) \union {o}
  BY <1>3, <1>7, <1>8 DEF Rec, Ops
<1>10. memory' = [memory EXCEPT ![i][g] = new] /\ persisters' = [persisters EXCEPT ![i][given[i][g]] = new]
  BY <1>4, <1>6, <1>7, <1>8, Zenon
<1>11. /\ m.raftstate \intersect m.snapshot = {}
       /\ \A q \in Ops(m) : call[q].stage \notin {"new", "run"}
  BY <1>1, <1>6, <1>7, Zenon DEF Storage, Fits
<1>12. o \notin Ops(m)
  <2>1. call[o].stage \in {"new", "run"}
    BY <1>4
  <2> QED
    BY <1>11, <2>1, Zenon
<1>13. new.raftstate \intersect new.snapshot = {}
  BY <1>9, <1>11, <1>12 DEF Ops
<1>14. PICK r : r = [call[o] EXCEPT !.stage = "saved"]
  BY Zenon
<1>15. r \in CallRec /\ r.stage = "saved" /\ r.i = i /\ r.g = g
  BY <1>1, <1>2, <1>14 DEF CallRec
<1>16. call' = [call EXCEPT ![o] = r]
  BY <1>4, <1>14, Zenon
<1>17. call' \in [Op -> CallRec] /\ call'[o] = r /\ \A q \in Op : q # o => call'[q] = call[q]
  BY <1>1, <1>15, <1>16, Zenon
<1>18. call'[o].stage \notin {"new", "run"}
  BY <1>15, <1>17
<1>19. \A q \in Op : call[q].stage \notin {"new", "run"} => call'[q].stage \notin {"new", "run"}
  BY <1>17, <1>18, Zenon
<1>20. Ops(m) \subseteq Op
  BY <1>7 DEF Rec, Ops
<1>21. \A q \in Ops(new) : call'[q].stage \notin {"new", "run"}
  BY <1>9, <1>11, <1>18, <1>19, <1>20, Zenon
<1>22. \A q \in Op : \/ call'[q] = call[q]
                     \/ /\ call[q].stage = "run" /\ call'[q].stage = "saved"
                        /\ call[q].i = i /\ call[q].g = g /\ call'[q].i = i /\ call'[q].g = g
                        /\ q \in Ops(new)
  BY <1>2, <1>4, <1>9, <1>15, <1>17, Zenon
<1>23. Ops(memory[i][g]) \subseteq Ops(new)
  BY <1>7, <1>9, Zenon
<1>24. /\ memory' \in [Server -> Seq(Rec)] /\ persisters' \in [Server -> Seq(Rec)]
       /\ (\A j \in Server : Own(j))' /\ Fits' /\ Calls' /\ NotGiven'
  <2>1. UNCHANGED <<started, servers, registered, given, saved, todo, who, raftlog>>
    BY <1>4, Zenon
  <2>2. TypeOK /\ (\A j \in Server : Own(j)) /\ Fits /\ Calls /\ NotGiven
    BY <1>1, Zenon DEF Storage
  <2>3. g \in 1 .. started[i] /\ new \in Rec
    BY <1>5, <1>9, Zenon
  <2> QED
    BY <1>10, <1>13, <1>19, <1>21, <1>22, <1>23, <2>1, <2>2, <2>3, WriteKeeps, Zenon
<1> QED
  BY <1>1, <1>4, <1>17, <1>24, GoneKept, Zenon DEF Storage

LEMMA StorageSaveSnapshot ==
    ASSUME IInv, NEW i \in Server, NEW g \in Nat, SaveStateAndSnapshot(i, g)
    PROVE  Storage' /\ memory' \in [Server -> Seq(Rec)] /\ persisters' \in [Server -> Seq(Rec)]
<1>1. TypeOK /\ Storage /\ Own(i)
  BY Zenon DEF IInv, TypeOK, Storage
<1>2. PICK new : new = [raftstate |-> {}, snapshot |-> memory[i][g].raftstate \union memory[i][g].snapshot]
  BY Zenon
<1>3. /\ g \in DOMAIN given[i]
      /\ memory' = [memory EXCEPT ![i][g] = new]
      /\ persisters' = [persisters EXCEPT ![i][given[i][g]] = new]
      /\ UNCHANGED <<todo, who, raftlog, started, servers, registered, given, saved, call>>
  BY <1>2, Zenon DEF SaveStateAndSnapshot, tester, net
<1>4. g \in 1 .. started[i]
  <2>1. given[i] \in Seq(Nat) /\ Len(given[i]) = started[i]
    BY <1>1, Zenon DEF TypeOK, Own
  <2> QED
    BY <1>3, <2>1
<1>5. /\ given[i][g] \in 1 .. Len(persisters[i]) /\ memory[i][g] = persisters[i][given[i][g]]
      /\ Len(memory[i]) = started[i]
  BY <1>1, <1>4, Zenon DEF Own
<1>6. PICK m \in Rec : m = memory[i][g]
  <2>1. memory[i] \in Seq(Rec)
    BY <1>1, Zenon DEF TypeOK
  <2> QED
    BY <1>4, <1>5, <2>1
<1>7. /\ new \in Rec /\ new.raftstate \intersect new.snapshot = {} /\ Ops(new) = Ops(m)
  BY <1>2, <1>6 DEF Rec, Ops
<1>8. \A q \in Ops(m) : call[q].stage \notin {"new", "run"}
  BY <1>1, <1>5, <1>6, Zenon DEF Storage, Fits
<1>9. /\ memory' \in [Server -> Seq(Rec)] /\ persisters' \in [Server -> Seq(Rec)]
      /\ (\A j \in Server : Own(j))' /\ Fits' /\ Calls' /\ NotGiven'
  <2>1. Ops(memory[i][g]) \subseteq Ops(new) /\ \A q \in Ops(new) : call'[q].stage \notin {"new", "run"}
    BY <1>3, <1>6, <1>7, <1>8, Zenon
  <2>2. \A q \in Op : call'[q] = call[q]
    BY <1>3, Zenon
  <2> QED
    BY <1>1, <1>3, <1>4, <1>7, <2>1, <2>2, WriteKeeps, Zenon DEF Storage
<1> QED
  BY <1>1, <1>3, <1>9, GoneKept, Zenon DEF Storage

----------------------------------------------------------------------------
(* Ends, as values *)

LEMMA EndIs ==
    /\ \A i, j : End(i, j)[1] = i /\ End(i, j)[2] = endnames[i] /\ End(i, j)[3] = j
    /\ \A i, j, k, l : End(i, j) = End(k, l) => i = k /\ j = l
<1>1. \A i, j : End(i, j)[1] = i /\ End(i, j)[2] = endnames[i] /\ End(i, j)[3] = j
  BY DEF End
<1>2. ASSUME NEW i, NEW j, NEW k, NEW l, End(i, j) = End(k, l)
      PROVE  i = k /\ j = l
  BY <1>1, <1>2
<1> QED
  BY <1>1, <1>2, Zenon

\* An enabled end is the current end of a server to another, or to the controller,
\* unless make_end has made it.
LEMMA EndsAre ==
    ASSUME NEW e \in Ends, ~Made(e)
    PROVE  \E i \in Server, j \in Server \union {Ctrler} :
                e = End(i, j) /\ endnames[i] # 0 /\ (lab # "shardkv" => j \in Server)
<1>1. e \in Server \X Nat \X (Server \union {Ctrler, Elsewhere})
  BY DEF Ends
<1>2. endnames[e[1]] = e[2] /\ e[2] # 0 /\ (lab # "shardkv" => e[3] # Ctrler) /\ e[3] # Elsewhere
  BY Zenon DEF Ends
<1>3. e = <<e[1], e[2], e[3]>> /\ e[1] \in Server /\ e[3] \in Server \union {Ctrler}
  BY <1>1, <1>2
<1>4. e = End(e[1], e[3]) /\ endnames[e[1]] # 0
  BY <1>2, <1>3, Zenon DEF End
<1>5. lab # "shardkv" => e[3] \in Server
  BY <1>2, <1>3
<1> QED
  BY <1>3, <1>4, <1>5, Zenon

LEMMA EndInEnds ==
    ASSUME endnames \in [Server -> Nat],
           NEW i \in Server, NEW j \in Server, endnames[i] # 0
    PROVE  End(i, j) \in Ends
<1>1. endnames[i] \in Nat /\ j # Ctrler /\ j # Elsewhere /\ j \in Server \union {Ctrler, Elsewhere}
  BY SizeAssumption DEF Server, Ctrler, Elsewhere
<1>2. <<i, endnames[i], j>> \in Server \X Nat \X (Server \union {Ctrler, Elsewhere})
  BY <1>1
<1>3. endnames[End(i, j)[1]] = End(i, j)[2] /\ End(i, j)[2] # 0 /\ End(i, j)[3] # Ctrler /\ End(i, j)[3] # Elsewhere
  BY <1>1, EndIs
<1> QED
  BY <1>2, <1>3 DEF Ends, Made, End

----------------------------------------------------------------------------
(* The network in a step *)

LEMMA NetworkKept ==
    ASSUME Network, UNCHANGED <<todo, who, lab, ready, started, servers, endnames, enabled, connected>>
    PROVE  Network'
<1>1. At' = At /\ Ends' = Ends /\ (\A i : NoEnds(i)' <=> NoEnds(i)) /\ \A i, j : End(i, j)' = End(i, j)
  BY Zenon DEF At, Ends, Made, NoEnds, End
<1> QED
  BY <1>1, Zenon DEF Network, EndsCurrent, Making, Linked

\* An operation begins; StartServer is used on a server that is down.
LEMMA RunIs ==
    ASSUME IInv, StartNext \/ ShutdownOne \/ StartOne
    PROVE  /\ At = "idle" /\ who' \in Server /\ At' \in {"disconnect", "ends"} /\ todo' \in Todos
           /\ At' = "ends" => servers[who'] = 0
           /\ ~ready => started[who'] = 0
           /\ UNCHANGED <<lab, ready, raftlog, net, instances, store, call>>
<1>1. PICK i \in Server, program \in {Start, Shutdown} :
        /\ Run(program, i)
        /\ \/ program = Start /\ started[i] = 0
           \/ program = Shutdown /\ ready
           \/ program = Start /\ (lab # "raft" => servers[i] = 0) /\ ready
  BY Zenon DEF StartNext, ShutdownOne, StartOne
<1>2. /\ At = "idle" /\ At' = Succ(program) /\ who' = i /\ todo' = program
      /\ UNCHANGED <<lab, ready, raftlog, net, instances, store, call>>
  BY <1>1, RunAt, Zenon
<1>3. Own(i) /\ lab \in {"raft", "kv", "shardkv"}
  BY Zenon DEF IInv, Storage, TypeOK
<1>4. started[i] = 0 => servers[i] = 0
  BY <1>3 DEF Own
<1>5. /\ At' \in {"disconnect", "ends"} /\ program \in Todos
      /\ At' = "ends" => program = Start /\ lab # "raft"
  <2>1. CASE program = Shutdown
    <3>1. At' = "disconnect" /\ program \in Todos
      BY <1>2, <1>3, <2>1, ShutdownIs, Zenon
    <3> QED
      BY <3>1
  <2>2. CASE program = Start /\ lab = "raft"
    <3>1. At' = "disconnect" /\ program \in Todos
      BY <1>2, <2>2, StartIs, Zenon
    <3> QED
      BY <3>1
  <2>3. CASE program = Start /\ lab # "raft"
    <3>1. lab \in {"kv", "shardkv"}
      BY <1>3, <2>3
    <3> QED
      BY <1>2, <2>3, <3>1, StartIs, Zenon
  <2> QED
    BY <1>1, <2>1, <2>2, <2>3, Zenon
<1>6. At' = "ends" => servers[i] = 0
  <2>1. CASE program = Shutdown /\ At' = "ends"
    BY <1>2, <1>3, <2>1, ShutdownIs
  <2> QED
    BY <1>1, <1>4, <1>5, <2>1, Zenon
<1> QED
  BY <1>1, <1>2, <1>5, <1>6, Zenon

LEMMA NetworkRun ==
    ASSUME IInv, StartNext \/ ShutdownOne \/ StartOne
    PROVE  Network'
<1>1. /\ At = "idle" /\ who' \in Server /\ At' \in {"disconnect", "ends"}
      /\ At' = "ends" => servers[who'] = 0
      /\ ~ready => started[who'] = 0
      /\ UNCHANGED <<lab, ready, started, servers, endnames, enabled, connected>>
  BY RunIs, Zenon DEF net, instances
<1>2. Network
  BY Zenon DEF IInv
<1>3. Ends' = Ends /\ (\A i : NoEnds(i)' <=> NoEnds(i)) /\ \A i, j : End(i, j)' = End(i, j)
  BY <1>1, Zenon DEF Ends, Made, NoEnds, End
<1>4. At' \notin {"persister", "make"} /\ At \notin {"persister", "make"}
  BY <1>1
<1>5. EndsCurrent'
  <2>1. \A i \in Server : endnames[i] = started[i]
    BY <1>2, <1>4, Zenon DEF Network, EndsCurrent
  <2>2. \A i \in Server : servers[i] = 0 => NoEnds(i)
    BY <1>1, <1>2, Zenon DEF Network, EndsCurrent
  <2>3. At' \in {"delete", "copy", "kill", "readState", "rebuild", "ends"} => At' = "ends"
    BY <1>1
  <2>4. enabled \subseteq Ends
    BY <1>2, Zenon DEF Network, EndsCurrent
  <2> QED
    BY <1>1, <1>3, <1>4, <2>1, <2>2, <2>3, <2>4, Zenon DEF EndsCurrent
<1>6. Making'
  BY <1>1, <1>2, Zenon DEF Network, Making
<1>7. Linked'
  <2>1. ASSUME NEW i \in Server, connected[i]
        PROVE  servers[i] # 0 /\ (i = who' => At' \in {"idle", "disconnect"})
    <3>1. servers[i] # 0
      BY <1>2, <2>1, Zenon DEF Network, Linked
    <3>2. i = who' => At' = "disconnect"
      BY <1>1, <3>1
    <3> QED
      BY <3>1, <3>2
  <2> QED
    BY <1>1, <1>2, <1>3, <2>1, Zenon DEF Network, Linked
<1> QED
  BY <1>5, <1>6, <1>7, Zenon DEF Network

\* From the first step on, a server that is being shut down has no ends.
LEMMA Quiet ==
    ASSUME IInv, At \in {"delete", "copy", "kill", "readState", "rebuild"},
           At' \notin {"persister", "make"},
           UNCHANGED <<lab, ready, who, started, endnames, enabled, connected>>,
           servers' \in {servers, [servers EXCEPT ![who] = 0]}
    PROVE  Network'
<1>1. Network /\ who \in Server /\ servers \in [Server -> Nat] /\ started \in [Server -> Nat]
  BY Zenon DEF IInv, TypeOK
<1>2. At \in {"delete", "copy", "kill", "readState", "rebuild", "ends"} /\ At \notin {"persister", "make", "idle", "add", "disconnect"}
  BY Zenon
<1>3. /\ Ends' = Ends /\ (\A i : NoEnds(i)' <=> NoEnds(i))
      /\ \A i, j : End(i, j)' = End(i, j)
  BY Zenon DEF Ends, Made, NoEnds, End
<1>4. \A i \in Server : i # who => servers'[i] = servers[i]
  BY <1>1, Zenon
<1>5. NoEnds(who)
  BY <1>1, <1>2, Zenon DEF Network, EndsCurrent
<1>6. EndsCurrent'
  <2>1. \A i \in Server : endnames[i] = started[i]
    BY <1>1, <1>2, Zenon DEF Network, EndsCurrent
  <2>2. \A i \in Server : i # who /\ servers[i] = 0 => NoEnds(i)
    BY <1>1, Zenon DEF Network, EndsCurrent
  <2>3. enabled \subseteq Ends
    BY <1>1, Zenon DEF Network, EndsCurrent
  <2> QED
    BY <1>1, <1>3, <1>4, <1>5, <2>1, <2>2, <2>3, Zenon DEF EndsCurrent
<1>7. Making'
  <2> SUFFICES ASSUME ~ready
               PROVE  (\A i \in Server : servers'[i] = started[i]) /\ started[who] = 0
    BY Zenon DEF Making
  <2>1. (\A i \in Server : servers[i] = started[i]) /\ started[who] = 0
    BY <1>1, <1>2, Zenon DEF Network, Making
  <2>2. servers'[who] \in {servers[who], 0}
    BY <1>1, Zenon
  <2>3. servers'[who] = started[who]
    BY <1>1, <2>1, <2>2
  <2> QED
    BY <1>4, <2>1, <2>3, Zenon
<1>8. Linked'
  <2>1. ASSUME NEW i \in Server, connected[i]
        PROVE  servers'[i] # 0 /\ i # who
    BY <1>1, <1>2, <1>4, <2>1, Zenon DEF Network, Linked
  <2> QED
    BY <1>1, <1>3, <2>1, Zenon DEF Network, Linked
<1> QED
  BY <1>6, <1>7, <1>8, Zenon DEF Network

\* Disabling the ends of i in both directions leaves the other ends of servers alone.
LEMMA CutOff ==
    ASSUME enabled \subseteq Ends, NEW i \in Server, NEW en,
           en = enabled \ (Outgoing(i) \union Incoming(i))
    PROVE  /\ \A j, k \in Server : End(j, k) \in en <=> End(j, k) \in enabled /\ j # i /\ k # i
           /\ lab # "shardkv" => \A e \in en : e[1] # i
<1>1. ASSUME NEW j \in Server, NEW k \in Server
      PROVE  End(j, k) \in en <=> End(j, k) \in enabled /\ j # i /\ k # i
  <2>1. End(j, k) \in enabled => endnames[j] # 0
    <3>1. SUFFICES ASSUME End(j, k) \in Ends PROVE endnames[j] # 0
      BY Zenon
    <3>2. End(j, k)[2] # 0
      BY <3>1, Zenon DEF Ends
    <3> QED
      BY <3>2, EndIs, Zenon
  <2>2. End(j, k) \in Outgoing(i) <=> j = i
    <3>1. j = i => End(j, k) \in Outgoing(i)
      BY Zenon DEF Outgoing
    <3>2. End(j, k) \in Outgoing(i) => \E l \in Server : End(j, k) = End(i, l)
      BY Zenon DEF Outgoing
    <3> QED
      BY <3>1, <3>2, EndIs, Zenon
  <2>3. endnames[j] # 0 => (End(j, k) \in Incoming(i) <=> k = i)
    <3>1. ASSUME endnames[j] # 0 PROVE End(j, i) \in Incoming(i)
      <4>1. j \in {l \in Server : endnames[l] # 0}
        BY <3>1, Zenon
      <4> QED
        BY <4>1, Zenon DEF Incoming
    <3>2. End(j, k) \in Incoming(i) => \E l \in Server : End(j, k) = End(l, i)
      BY Zenon DEF Incoming
    <3>3. End(j, k) \in Incoming(i) => k = i
      BY <3>2, EndIs
    <3> QED
      BY <3>1, <3>3, Zenon
  <2> QED
    BY <2>1, <2>2, <2>3, Zenon
<1>2. ASSUME lab # "shardkv", NEW e \in en
      PROVE  e[1] # i
  <2>1. e \in Ends /\ e \notin Outgoing(i)
    BY Zenon
  <2>2. PICK j \in Server, k \in Server \union {Ctrler} : e = End(j, k) /\ (lab # "shardkv" => k \in Server)
    BY <1>2, <2>1, EndsAre, Zenon DEF Made
  <2>3. j # i
    BY <1>2, <2>1, <2>2, Zenon DEF Outgoing
  <2> QED
    BY <2>2, <2>3, EndIs, Zenon
<1> QED
  BY <1>1, <1>2, Zenon

\* disconnectUnlocked with all servers disables all ends of i, in both directions.
LEMMA DisconnectAll ==
    ASSUME enabled \subseteq Ends, NEW i \in Server
    PROVE  disconnectUnlocked(enabled, i, All) = enabled \ (Outgoing(i) \union Incoming(i))
<1> DEFINE out == {End(i, All[k]) : k \in {m \in DOMAIN All : endnames[i] # 0}}
           inc == {End(All[k], i) : k \in {m \in DOMAIN All : endnames[m - 1] # 0}}
<1>1. /\ DOMAIN All = 1 .. N /\ (\A k \in DOMAIN All : All[k] = k - 1 /\ All[k] \in Server)
      /\ \A j \in Server : j + 1 \in DOMAIN All /\ All[j + 1] = j /\ (j + 1) - 1 = j
  BY SizeAssumption DEF All, Server
<1>2. out \subseteq Outgoing(i)
  BY <1>1, Zenon DEF Outgoing
<1>3. inc = Incoming(i)
  <2>1. ASSUME NEW e \in inc PROVE e \in Incoming(i)
    <3>1. PICK k \in {m \in DOMAIN All : endnames[m - 1] # 0} : e = End(All[k], i)
      BY Zenon
    <3>2. k \in DOMAIN All /\ endnames[k - 1] # 0
      BY <3>1, Zenon
    <3>3. k - 1 = All[k] /\ All[k] \in Server
      BY <1>1, <3>2, Zenon
    <3>4. endnames[All[k]] # 0
      BY <3>2, <3>3
    <3> QED
      BY <3>1, <3>3, <3>4, Zenon DEF Incoming
  <2>2. ASSUME NEW e \in Incoming(i) PROVE e \in inc
    <3>1. PICK j \in {k \in Server : endnames[k] # 0} : e = End(j, i)
      BY Zenon DEF Incoming
    <3>2. j + 1 \in DOMAIN All /\ All[j + 1] = j /\ (j + 1) - 1 = j /\ endnames[j] # 0
      BY <1>1, <3>1, Zenon
    <3>3. j + 1 \in {m \in DOMAIN All : endnames[m - 1] # 0} /\ e = End(All[j + 1], i)
      BY <3>1, <3>2
    <3> QED
      BY <3>3, Zenon
  <2> QED
    BY <2>1, <2>2, Zenon
<1>4. ASSUME NEW e \in enabled, e \in Outgoing(i)
      PROVE  e \in out
  <2>1. PICK j \in Server : e = End(i, j)
    BY <1>4, Zenon DEF Outgoing
  <2>2. e[2] # 0
    BY <1>4, Zenon DEF Ends
  <2>3. endnames[i] # 0
    BY <2>1, <2>2, EndIs, Zenon
  <2>4. j + 1 \in DOMAIN All /\ All[j + 1] = j
    BY <1>1, Zenon
  <2>5. j + 1 \in {m \in DOMAIN All : endnames[i] # 0} /\ e = End(i, All[j + 1])
    BY <2>1, <2>3, <2>4, Zenon
  <2> QED
    BY <2>5, Zenon
<1>5. disconnectUnlocked(enabled, i, All) = enabled \ (out \union inc)
  BY Zenon DEF disconnectUnlocked
<1>6. enabled \ (out \union inc) = enabled \ (Outgoing(i) \union Incoming(i))
  <2> HIDE DEF out, inc
  <2> QED
    BY <1>2, <1>3, <1>4, Zenon
<1> QED
  BY <1>5, <1>6, Zenon

LEMMA NetworkDisconnect ==
    ASSUME IInv, DisconnectStep
    PROVE  Network'
<1>1. /\ Disable(who) /\ Doing("disconnect")
      /\ UNCHANGED <<lab, ready, who, endnames, started, servers>>
  BY Zenon DEF DisconnectStep, Doing, instances
<1>2. At = "disconnect" /\ <<At, At'>> \in Follows
  BY <1>1, DoingAt, Zenon DEF IInv, TypeOK
<1>3. At' = "delete"
  BY <1>2, FollowsIs, Zenon
<1>4. /\ Network /\ who \in Server /\ lab \in {"raft", "kv", "shardkv"}
      /\ connected \in [Server -> BOOLEAN] /\ enabled \subseteq Ends
  BY Zenon DEF IInv, TypeOK, Network, EndsCurrent
<1>5. /\ enabled' \subseteq enabled /\ (\A e \in enabled' : e[1] = who => Made(e))
      /\ \A i \in Server : connected'[i] <=> connected[i] /\ i # who
      /\ lab # "shardkv" => \A i, j \in Server : End(i, j) \in enabled' <=> End(i, j) \in enabled /\ i # who /\ j # who
  <2>1. CASE lab = "raft"
    <3>1. enabled' = enabled \ (Outgoing(who) \union Incoming(who)) /\ connected' = [connected EXCEPT ![who] = FALSE]
      BY <1>1, <2>1 DEF Disable, DisconnectRaft
    <3>2. /\ \A j, k \in Server : End(j, k) \in enabled' <=> End(j, k) \in enabled /\ j # who /\ k # who
          /\ \A e \in enabled' : e[1] # who
      BY <1>4, <2>1, <3>1, CutOff
    <3>3. \A i \in Server : connected'[i] <=> connected[i] /\ i # who
      BY <1>4, <3>1, Zenon
    <3> QED
      BY <3>1, <3>2, <3>3, Zenon
  <2>2. CASE lab = "kv"
    <3>1. enabled' = disconnectUnlocked(enabled, who, All) /\ connected' = connected
      BY <1>1, <2>2 DEF Disable
    <3>2. enabled' = enabled \ (Outgoing(who) \union Incoming(who))
      BY <1>4, <3>1, DisconnectAll, Zenon
    <3>3. /\ \A j, k \in Server : End(j, k) \in enabled' <=> End(j, k) \in enabled /\ j # who /\ k # who
          /\ \A e \in enabled' : e[1] # who
      BY <1>4, <2>2, <3>2, CutOff
    <3>4. \A i \in Server : ~connected[i]
      BY <1>4, <2>2, Zenon DEF Network, Linked
    <3> QED
      BY <3>1, <3>2, <3>3, <3>4, Zenon
  <2>3. CASE lab = "shardkv"
    <3>1. enabled' = enabled \ (Outgoing(who) \union {End(who, Ctrler)}) /\ connected' = connected
      BY <1>1, <2>3 DEF Disable, DisconnectShardKV
    <3>2. ASSUME NEW e \in enabled', ~Made(e)
          PROVE  e[1] # who
      <4>1. e \in Ends /\ e \notin Outgoing(who) /\ e # End(who, Ctrler)
        BY <1>4, <3>1, Zenon
      <4>2. PICK j \in Server, k \in Server \union {Ctrler} : e = End(j, k)
        BY <3>2, <4>1, EndsAre, Zenon
      <4>3. j # who
        BY <4>1, <4>2, Zenon DEF Outgoing
      <4> QED
        BY <4>2, <4>3, EndIs, Zenon
    <3>3. \A i \in Server : ~connected[i]
      BY <1>4, <2>3, Zenon DEF Network, Linked
    <3> QED
      BY <2>3, <3>1, <3>2, <3>3, Zenon
  <2> QED
    BY <1>4, <2>1, <2>2, <2>3, Zenon
<1>6. Ends' = Ends /\ (\A e : Made(e)' <=> Made(e)) /\ \A i, j : End(i, j)' = <<i, endnames[i], j>> /\ End(i, j) = <<i, endnames[i], j>>
  BY <1>1, Zenon DEF Ends, Made, End
<1>7. EndsCurrent'
  <2>1. \A i \in Server : endnames[i] = started[i]
    BY <1>2, <1>4 DEF Network, EndsCurrent
  <2>2. \A i \in Server : servers[i] = 0 => \A e \in enabled : e[1] = i => Made(e)
    BY <1>2, <1>4, Zenon DEF Network, EndsCurrent, NoEnds
  <2>3. At' \notin {"persister", "make"}
    BY <1>3
  <2> QED
    BY <1>1, <1>4, <1>5, <1>6, <2>1, <2>2, <2>3, Zenon DEF EndsCurrent, NoEnds
<1>8. Making'
  <2>1. At \notin {"idle", "add"}
    BY <1>2
  <2> QED
    BY <1>1, <1>4, <2>1, Zenon DEF Network, Making
<1>9. Linked'
  <2>1. \A i \in Server : connected'[i] => lab = "raft" /\ servers[i] # 0 /\ i # who
    BY <1>4, <1>5, Zenon DEF Network, Linked
  <2>2. lab = "raft" => \A i, j \in Server : End(i, j)' \in enabled' <=> connected'[i] /\ connected'[j]
    <3> SUFFICES ASSUME lab = "raft", NEW i \in Server, NEW j \in Server
                 PROVE  End(i, j)' \in enabled' <=> connected'[i] /\ connected'[j]
      BY Zenon
    <3>1. End(i, j) \in enabled <=> connected[i] /\ connected[j]
      BY <1>4, Zenon DEF Network, Linked
    <3>2. End(i, j) \in enabled' <=> End(i, j) \in enabled /\ i # who /\ j # who
      BY <1>5
    <3>3. End(i, j)' = End(i, j)
      BY <1>6, Zenon
    <3> QED
      BY <1>5, <3>1, <3>2, <3>3, Zenon
  <2>3. lab = "kv" => \A i, j \in Server : End(i, j)' \in enabled' <=> End(j, i)' \in enabled'
    <3> SUFFICES ASSUME lab = "kv", NEW i \in Server, NEW j \in Server
                 PROVE  End(i, j)' \in enabled' <=> End(j, i)' \in enabled'
      BY Zenon
    <3>1. End(i, j) \in enabled <=> End(j, i) \in enabled
      BY <1>4, Zenon DEF Network, Linked
    <3>2. \A k, l \in Server : End(k, l) \in enabled' <=> End(k, l) \in enabled /\ k # who /\ l # who
      BY <1>5
    <3>3. End(i, j)' = End(i, j) /\ End(j, i)' = End(j, i)
      BY <1>6, Zenon
    <3> QED
      BY <3>1, <3>2, <3>3, Zenon
  <2> QED
    BY <1>1, <2>1, <2>2, <2>3, Zenon DEF Linked
<1> QED
  BY <1>7, <1>8, <1>9, Zenon DEF Network

\* The steps of a shutdown after the first.
LEMMA NetworkQuiet ==
    ASSUME IInv, DeleteServer \/ CopySaved \/ Kill \/ ReadRaftState \/ RebuildPersister
    PROVE  Network'
<1>1. PICK what \in {"delete", "copy", "kill", "readState", "rebuild"} :
        /\ Doing(what)
        /\ UNCHANGED <<started, endnames, enabled, connected>>
        /\ servers' \in {servers, [servers EXCEPT ![who] = 0]}
  BY DEF DeleteServer, CopySaved, Kill, ReadRaftState, RebuildPersister, net, instances
<1>2. At = what /\ <<At, At'>> \in Follows
  BY <1>1, DoingAt, Zenon DEF IInv, TypeOK
<1>3. At \in {"delete", "copy", "kill", "readState", "rebuild"} /\ At' \notin {"persister", "make"}
  BY <1>1, <1>2, FollowsIs, Zenon
<1>4. UNCHANGED <<lab, ready, who>>
  BY <1>1, Zenon DEF Doing
<1> QED
  BY <1>1, <1>3, <1>4, Quiet, Zenon

\* The ends of a new instance have names of their own; shardkv enables them.
LEMMA NetworkMakeEnds ==
    ASSUME IInv, MakeEnds
    PROVE  Network'
<1>1. /\ Doing("ends")
      /\ endnames' = [endnames EXCEPT ![who] = started[who] + 1]
      /\ UNCHANGED <<lab, ready, who, started, servers, connected>>
  BY Zenon DEF MakeEnds, Doing, instances
<1>2. At = "ends" /\ <<At, At'>> \in Follows
  BY <1>1, DoingAt, Zenon DEF IInv, TypeOK
<1>3. At' = "persister"
  BY <1>2, FollowsIs, Zenon
<1>4. /\ Network /\ who \in Server /\ lab \in {"raft", "kv", "shardkv"}
      /\ connected \in [Server -> BOOLEAN] /\ enabled \subseteq Ends
      /\ started \in [Server -> Nat] /\ endnames \in [Server -> Nat]
  BY Zenon DEF IInv, TypeOK, Network, EndsCurrent
<1>5. /\ endnames'[who] = started[who] + 1 /\ started[who] + 1 \in Nat /\ started[who] + 1 # 0
      /\ \A i \in Server : i # who => endnames'[i] = endnames[i]
  BY <1>1, <1>4
<1>6. \A e \in enabled : e[1] = who => Made(e)
  BY <1>2, <1>4, Zenon DEF Network, EndsCurrent, NoEnds
<1>7. ASSUME NEW e \in enabled' \ enabled
      PROVE  lab = "shardkv" /\ e[1] = who /\ e \in Ends'
  <2>1. lab = "shardkv"
    BY <1>7, Zenon DEF MakeEnds
  <2>2. PICK j \in Server \union {Ctrler} : e = <<who, started[who] + 1, j>>
    BY <1>7, <2>1 DEF MakeEnds
  <2>3. j # Elsewhere /\ j \in Server \union {Ctrler, Elsewhere}
    BY SizeAssumption DEF Server, Ctrler, Elsewhere
  <2>4. e[1] = who /\ e[2] = started[who] + 1 /\ e[3] = j /\ e \in Server \X Nat \X (Server \union {Ctrler, Elsewhere})
    BY <1>4, <1>5, <2>2, <2>3
  <2> QED
    BY <1>1, <1>5, <2>1, <2>3, <2>4, Zenon DEF Ends
<1>8. EndsCurrent'
  <2>1. ASSUME NEW e \in enabled
        PROVE  e \in Ends'
    <3>1. e \in Ends
      BY <1>4, Zenon
    <3>2. e \in Server \X Nat \X (Server \union {Ctrler, Elsewhere})
      BY <3>1, Zenon DEF Ends
    <3>3. e[1] \in Server /\ (~Made(e) => e[1] # who)
      <4>1. e[1] \in Server
        BY <3>2
      <4> QED
        BY <1>6, <4>1, Zenon
    <3>4. ~Made(e) => endnames'[e[1]] = endnames[e[1]]
      BY <1>5, <3>3, Zenon
    <3> QED
      BY <1>1, <3>1, <3>2, <3>4, Zenon DEF Ends, Made
  <2>2. enabled' \subseteq Ends'
    BY <1>7, <2>1, Zenon
  <2>3. \A i \in Server : endnames[i] = started[i]
    BY <1>2, <1>4 DEF Network, EndsCurrent
  <2>4. \A i \in Server : endnames'[i] = IF i = who THEN started[i] + 1 ELSE started[i]
    BY <1>5, <2>3, Zenon
  <2>5. \A i \in Server : i # who /\ servers[i] = 0 => \A e \in enabled' : e[1] = i => Made(e)
    BY <1>4, <1>7, Zenon DEF Network, EndsCurrent, NoEnds
  <2>6. At' \in {"persister", "make"} /\ At' \notin {"delete", "copy", "kill", "readState", "rebuild", "ends", "idle", "disconnect"}
    BY <1>3
  <2> QED
    BY <1>1, <2>2, <2>4, <2>5, <2>6, Zenon DEF EndsCurrent, NoEnds, Made
<1>9. Making'
  <2>1. At \notin {"idle", "add"}
    BY <1>2
  <2> QED
    BY <1>1, <1>4, <2>1, Zenon DEF Network, Making
<1>10. Linked'
  <2>1. \A i \in Server : connected[i] => lab = "raft" /\ servers[i] # 0 /\ i # who
    <3>1. At \notin {"idle", "disconnect"}
      BY <1>2
    <3> QED
      BY <1>4, <3>1, Zenon DEF Network, Linked
  <2>2. \A i, j \in Server : i # who => End(i, j)' = End(i, j)
    BY <1>5, Zenon DEF End
  <2>3. \A i, j \in Server : i = who => End(i, j)' \notin enabled /\ End(i, j) \notin enabled
    <3> SUFFICES ASSUME NEW i \in Server, NEW j \in Server, i = who
                 PROVE  End(i, j)' \notin enabled /\ End(i, j) \notin enabled
      BY Zenon
    <3>1. End(i, j)' = <<i, endnames'[i], j>> /\ End(i, j) = <<i, endnames[i], j>>
      BY Zenon DEF End
    <3>2. End(i, j)'[1] = i /\ End(i, j)[1] = i /\ End(i, j)'[3] # Elsewhere /\ End(i, j)[3] # Elsewhere
      BY <3>1, SizeAssumption DEF Server, Elsewhere
    <3> QED
      BY <1>6, <3>2, Zenon DEF Made
  <2>4. lab # "shardkv" => enabled' = enabled
    BY Zenon DEF MakeEnds
  <2>5. ASSUME lab = "raft", NEW i \in Server, NEW j \in Server
        PROVE  End(i, j)' \in enabled' <=> connected[i] /\ connected[j]
    <3>1. enabled' = enabled
      BY <2>4, <2>5
    <3>2. End(i, j) \in enabled <=> connected[i] /\ connected[j]
      BY <1>4, <2>5, Zenon DEF Network, Linked
    <3>3. CASE i = who
      BY <2>1, <2>3, <3>1, <3>3, Zenon
    <3>4. CASE i # who
      BY <2>2, <3>1, <3>2, <3>4, Zenon
    <3> QED
      BY <3>3, <3>4, Zenon
  <2>6. ASSUME lab = "kv", NEW i \in Server, NEW j \in Server
        PROVE  End(i, j)' \in enabled' <=> End(j, i)' \in enabled'
    <3>1. enabled' = enabled
      BY <2>4, <2>6
    <3>2. End(i, j) \in enabled <=> End(j, i) \in enabled
      BY <1>4, <2>6, Zenon DEF Network, Linked
    <3>3. \A k, l \in Server : End(k, l)' \in enabled' <=> End(k, l) \in enabled
      BY <2>2, <2>3, <3>1, Zenon
    <3> QED
      BY <3>2, <3>3, Zenon
  <2>7. \A i \in Server : connected'[i] => lab' = "raft" /\ servers'[i] # 0 /\ i # who'
    BY <1>1, <2>1, Zenon
  <2> QED
    BY <1>1, <2>5, <2>6, <2>7, Zenon DEF Linked
<1> QED
  BY <1>8, <1>9, <1>10, Zenon DEF Network

LEMMA NetworkNew ==
    ASSUME IInv, NewPersister
    PROVE  Network'
<1>1. Doing("persister") /\ UNCHANGED <<lab, ready, who, started, servers, endnames, enabled, connected>>
  BY Zenon DEF NewPersister, Doing, net, instances
<1>2. At = "persister" /\ <<At, At'>> \in Follows
  BY <1>1, DoingAt, Zenon DEF IInv, TypeOK
<1>3. /\ At \in {"persister", "make"} /\ At' \in {"persister", "make"} /\ At \notin {"idle", "disconnect", "add"}
      /\ At' \notin {"delete", "copy", "kill", "readState", "rebuild", "ends", "idle", "disconnect"}
  BY <1>2, FollowsIs, Zenon
<1>4. Network
  BY Zenon DEF IInv
<1>5. Ends' = Ends /\ (\A i : NoEnds(i)' <=> NoEnds(i)) /\ \A i, j : End(i, j)' = End(i, j)
  BY <1>1, Zenon DEF Ends, Made, NoEnds, End
<1>6. EndsCurrent'
  BY <1>1, <1>3, <1>4, <1>5, Zenon DEF Network, EndsCurrent
<1>7. Making'
  BY <1>1, <1>3, <1>4, Zenon DEF Network, Making
<1>8. Linked'
  BY <1>1, <1>3, <1>4, <1>5, Zenon DEF Network, Linked
<1> QED
  BY <1>6, <1>7, <1>8, Zenon DEF Network

LEMMA NetworkMake ==
    ASSUME IInv, Make
    PROVE  Network'
<1>1. /\ Doing("make") /\ UNCHANGED <<lab, ready, who, endnames, enabled, connected>>
      /\ started' = [started EXCEPT ![who] = @ + 1]
      /\ servers' = [servers EXCEPT ![who] = started[who] + 1]
  BY Zenon DEF Make, Doing, net
<1>2. At = "make" /\ <<At, At'>> \in Follows
  BY <1>1, DoingAt, Zenon DEF IInv, TypeOK
<1>3. /\ At \in {"persister", "make"} /\ At \notin {"idle", "disconnect", "add"} /\ At' = "add"
      /\ At' \notin {"delete", "copy", "kill", "readState", "rebuild", "ends", "idle", "disconnect", "persister", "make"}
  BY <1>2, FollowsIs, Zenon
<1>4. /\ Network /\ who \in Server /\ started \in [Server -> Nat] /\ servers \in [Server -> Nat]
  BY Zenon DEF IInv, TypeOK
<1>5. Ends' = Ends /\ (\A i : NoEnds(i)' <=> NoEnds(i)) /\ \A i, j : End(i, j)' = End(i, j)
  BY <1>1, Zenon DEF Ends, Made, NoEnds, End
<1>6. /\ started'[who] = started[who] + 1 /\ servers'[who] = started[who] + 1
      /\ \A i \in Server : i # who => started'[i] = started[i] /\ servers'[i] = servers[i]
  BY <1>1, <1>4
<1>7. EndsCurrent'
  <2>1. \A i \in Server : endnames[i] = started'[i]
    BY <1>3, <1>4, <1>6, Zenon DEF Network, EndsCurrent
  <2> QED
    BY <1>1, <1>3, <1>4, <1>5, <1>6, <2>1, Zenon DEF Network, EndsCurrent
<1>8. Making'
  <2>1. At' \in {"idle", "add"}
    BY <1>3
  <2> QED
    BY <1>1, <1>4, <1>6, <2>1, Zenon DEF Network, Making
<1>9. Linked'
  <2>1. \A i \in Server : connected[i] => lab = "raft" /\ servers'[i] # 0 /\ i # who
    BY <1>3, <1>4, <1>6, Zenon DEF Network, Linked
  <2> QED
    BY <1>1, <1>4, <1>5, <2>1, Zenon DEF Network, Linked
<1> QED
  BY <1>7, <1>8, <1>9, Zenon DEF Network

LEMMA NetworkAdd ==
    ASSUME IInv, AddServer
    PROVE  Network'
<1>1. Doing("add") /\ UNCHANGED <<lab, ready, who, started, servers, endnames, enabled, connected>>
  BY Zenon DEF AddServer, Doing, net, instances
<1>2. At = "add" /\ <<At, At'>> \in Follows
  BY <1>1, DoingAt, Zenon DEF IInv, TypeOK
<1>3. /\ At \notin {"persister", "make"} /\ At \notin {"idle", "disconnect"} /\ At' \in {"idle", "disconnect"}
      /\ At' \in {"idle", "add"}
      /\ At' \notin {"delete", "copy", "kill", "readState", "rebuild", "ends", "persister", "make"}
  BY <1>2, FollowsIs, Zenon
<1>4. Network
  BY Zenon DEF IInv
<1>5. Ends' = Ends /\ (\A i : NoEnds(i)' <=> NoEnds(i)) /\ \A i, j : End(i, j)' = End(i, j)
  BY <1>1, Zenon DEF Ends, Made, NoEnds, End
<1>6. servers[who] # 0
  BY <1>2 DEF IInv, Storage, Gone, NotGiven, Own
<1>7. EndsCurrent'
  <2>1. \A i \in Server : servers[i] = 0 => NoEnds(i)
    BY <1>4, <1>6, Zenon DEF Network, EndsCurrent
  <2> QED
    BY <1>1, <1>3, <1>4, <1>5, <2>1, Zenon DEF Network, EndsCurrent
<1>8. Making'
  BY <1>1, <1>3, <1>4, Zenon DEF Network, Making
<1>9. Linked'
  BY <1>1, <1>3, <1>4, <1>5, Zenon DEF Network, Linked
<1> QED
  BY <1>7, <1>8, <1>9, Zenon DEF Network

----------------------------------------------------------------------------
(* Connecting *)

LEMMA ConnectedEnds ==
    ASSUME NEW en, NEW i, NEW to
    PROVE  /\ \A j, k : End(j, k) \in connectUnlocked(en, i, to)
                            <=> End(j, k) \in en \/ (j = i /\ k \in to) \/ (k = i /\ j \in to)
           /\ \A e \in connectUnlocked(en, i, to) :
                e \in en \/ \E j \in to : e = End(i, j) \/ e = End(j, i)
<1> DEFINE out == {End(i, j) : j \in to}
           inc == {End(j, i) : j \in to}
<1>1. connectUnlocked(en, i, to) = en \union out \union inc
  BY Zenon DEF connectUnlocked
<1>2. \A e : e \in out <=> \E j \in to : e = End(i, j)
  BY Zenon
<1>3. \A e : e \in inc <=> \E j \in to : e = End(j, i)
  BY Zenon
<1> HIDE DEF out, inc
<1>4. \A j, k : End(j, k) \in out <=> j = i /\ k \in to
  BY <1>2, EndIs
<1>5. \A j, k : End(j, k) \in inc <=> k = i /\ j \in to
  BY <1>3, EndIs
<1>6. \A e : e \in connectUnlocked(en, i, to) <=> e \in en \/ e \in out \/ e \in inc
  BY <1>1, Zenon
<1>7. \A j, k : End(j, k) \in connectUnlocked(en, i, to)
                    <=> End(j, k) \in en \/ (j = i /\ k \in to) \/ (k = i /\ j \in to)
  BY <1>4, <1>5, <1>6, Zenon
<1>8. \A e \in connectUnlocked(en, i, to) :
                e \in en \/ \E j \in to : e = End(i, j) \/ e = End(j, i)
  BY <1>2, <1>3, <1>6, Zenon
<1> QED
  BY <1>7, <1>8, Zenon

\* A server that runs has ends.
LEMMA RunningHasEnds ==
    ASSUME IInv, At = "idle"
    PROVE  \A i \in Server : endnames[i] = started[i] /\ (servers[i] # 0 => endnames[i] # 0)
<1>1. \A i \in Server : endnames[i] = started[i]
  <2>1. At \notin {"persister", "make"}
    OBVIOUS
  <2> QED
    BY <2>1, Zenon DEF IInv, Network, EndsCurrent
<1>2. \A i \in Server : servers[i] \in {0, started[i]}
  BY Zenon DEF IInv, Storage, Own
<1> QED
  BY <1>1, <1>2, Zenon

LEMMA IdleAt ==
    ASSUME Idle
    PROVE  At = "idle"
BY Zenon DEF Idle, At

\* connect, in make_config or by a test.
LEMMA NetworkConnect ==
    ASSUME IInv, FinishRaft \/ ConnectRaft
    PROVE  Network'
<1>1. PICK i \in Server :
        /\ connect(i) /\ Idle /\ lab = "raft" /\ (ready => servers[i] # 0)
        /\ (~ready => \A j \in Server : started[j] # 0) /\ (ready => ready')
        /\ UNCHANGED <<lab, todo, who, endnames, started, servers>>
  <2>1. CASE FinishRaft
    <3>1. PICK i \in Server : connect(i)
      BY <2>1, Zenon DEF FinishRaft
    <3>2. /\ Idle /\ lab = "raft" /\ ~ready /\ (\A j \in Server : started[j] # 0)
          /\ UNCHANGED <<lab, todo, who, endnames, started, servers>>
      BY <2>1, Zenon DEF FinishRaft, AllStarted, instances
    <3> QED
      BY <3>1, <3>2, Zenon
  <2>2. CASE ConnectRaft
    <3>1. PICK i \in Server : servers[i] # 0 /\ connect(i)
      BY <2>2, Zenon DEF ConnectRaft
    <3>2. /\ Idle /\ lab = "raft" /\ ready /\ ready' = ready
          /\ UNCHANGED <<lab, todo, who, endnames, started, servers>>
      BY <2>2, Zenon DEF ConnectRaft, tester, instances
    <3> QED
      BY <3>1, <3>2, Zenon
  <2> QED
    BY <2>1, <2>2, Zenon
<1>2. At = "idle" /\ At' = "idle"
  BY <1>1, IdleAt, Zenon DEF At
<1>3. /\ Network /\ enabled \subseteq Ends /\ connected \in [Server -> BOOLEAN]
      /\ endnames \in [Server -> Nat] /\ ready \in BOOLEAN
  BY Zenon DEF IInv, TypeOK, Network, EndsCurrent
<1>4. servers[i] # 0
  <2>1. ~ready => \A j \in Server : servers[j] = started[j]
    BY <1>3, Zenon DEF Network, Making
  <2> QED
    BY <1>1, <2>1, Zenon
<1> DEFINE to == {j \in Server : connected[j] \/ j = i}
<1>5. enabled' = connectUnlocked(enabled, i, to) /\ connected' = [connected EXCEPT ![i] = TRUE]
  BY <1>1, Zenon DEF connect
<1>6. (\A j \in Server : connected'[j] <=> connected[j] \/ j = i) /\ \A j \in Server : j \in to <=> connected[j] \/ j = i
  <2>1. ASSUME NEW j \in Server PROVE connected'[j] <=> connected[j] \/ j = i
    <3>1. connected'[j] = IF j = i THEN TRUE ELSE connected[j]
      BY <1>3, <1>5, Zenon
    <3> QED
      BY <3>1, Zenon
  <2>2. \A j \in Server : j \in to <=> connected[j] \/ j = i
    BY Zenon
  <2> QED
    BY <2>1, <2>2, Zenon
<1>7. \A j \in to : j \in Server /\ servers[j] # 0 /\ endnames[j] # 0
  <2>1. \A j \in Server : connected[j] => servers[j] # 0
    BY <1>3, Zenon DEF Network, Linked
  <2>2. \A j \in to : j \in Server /\ servers[j] # 0
    BY <1>4, <2>1, Zenon
  <2> QED
    BY <1>2, <2>2, RunningHasEnds, Zenon
<1>8. i \in to
  BY Zenon
<1> HIDE DEF to
<1>9. \A e \in enabled' : e \in enabled \/ \E j \in to : e = End(i, j) \/ e = End(j, i)
  BY <1>5, ConnectedEnds
<1>10. Ends' = Ends /\ \A j, k : End(j, k)' = End(j, k)
  BY <1>1, Zenon DEF Ends, Made, End
<1>11. EndsCurrent'
  <2>1. enabled' \subseteq Ends
    <3>1. \A j \in to : End(i, j) \in Ends /\ End(j, i) \in Ends
      BY <1>3, <1>7, <1>8, EndInEnds
    <3> QED
      BY <1>3, <1>9, <3>1, Zenon
  <2>2. \A j \in Server : endnames[j] = started[j]
    BY <1>2, RunningHasEnds, Zenon
  <2>3. ASSUME NEW j \in Server, servers[j] = 0, NEW e \in enabled'
        PROVE  e[1] # j
    <3>1. CASE e \in enabled
      BY <1>1, <1>2, <1>3, <2>3, <3>1 DEF Network, EndsCurrent, NoEnds, Made
    <3>2. CASE e \notin enabled
      <4>1. PICK k \in to : e = End(i, k) \/ e = End(k, i)
        BY <1>9, <3>2, Zenon
      <4>2. e[1] \in to
        BY <1>8, <4>1, EndIs
      <4> QED
        BY <1>7, <2>3, <4>2, Zenon
    <3> QED
      BY <3>1, <3>2, Zenon
  <2>4. At' \notin {"delete", "copy", "kill", "readState", "rebuild", "ends", "persister", "make"}
    BY <1>2
  <2> QED
    BY <1>1, <1>10, <2>1, <2>2, <2>3, <2>4, Zenon DEF EndsCurrent, NoEnds
<1>12. Making'
  <2>1. At' \in {"idle", "add"}
    BY <1>2
  <2>2. ~ready' => \A j \in Server : servers[j] = started[j]
    BY <1>1, <1>3, Zenon DEF Network, Making
  <2> QED
    BY <1>1, <2>1, <2>2, Zenon DEF Making
<1>13. Linked'
  <2>1. ASSUME NEW j \in Server, NEW k \in Server
        PROVE  End(j, k)' \in enabled' <=> connected'[j] /\ connected'[k]
    <3>1. End(j, k) \in enabled' <=> End(j, k) \in enabled \/ (j = i /\ k \in to) \/ (k = i /\ j \in to)
      BY <1>5, ConnectedEnds
    <3>2. End(j, k) \in enabled <=> connected[j] /\ connected[k]
      BY <1>1, <1>3, Zenon DEF Network, Linked
    <3>3. End(j, k) \in enabled' <=> connected'[j] /\ connected'[k]
      BY <1>6, <3>1, <3>2, Zenon
    <3> QED
      BY <1>10, <3>3, Zenon
  <2>2. \A j \in Server : connected'[j] => servers[j] # 0
    BY <1>4, <1>6, <1>3, Zenon DEF Network, Linked
  <2>3. At' \in {"idle", "disconnect"} /\ lab' = "raft" /\ lab' # "kv"
    BY <1>1, <1>2
  <2> QED
    BY <1>1, <2>1, <2>2, <2>3, Zenon DEF Linked
<1> QED
  BY <1>11, <1>12, <1>13, Zenon DEF Network

LEMMA NetworkDisconnectOne ==
    ASSUME IInv, DisconnectOne
    PROVE  Network'
<1>1. PICK i \in Server : DisconnectRaft(i)
  BY Zenon DEF DisconnectOne
<1>2. ready /\ lab = "raft" /\ At = "idle" /\ At' = "idle" /\ UNCHANGED <<lab, ready, todo, who, endnames, started, servers>>
  BY IdleAt, Zenon DEF DisconnectOne, tester, instances, At
<1>3. Network /\ enabled \subseteq Ends /\ connected \in [Server -> BOOLEAN]
  BY Zenon DEF IInv, TypeOK, Network, EndsCurrent
<1>4. enabled' = enabled \ (Outgoing(i) \union Incoming(i)) /\ connected' = [connected EXCEPT ![i] = FALSE]
  BY <1>1, Zenon DEF DisconnectRaft
<1>5. \A j \in Server : connected'[j] <=> connected[j] /\ j # i
  BY <1>3, <1>4, Zenon
<1>6. \A j, k \in Server : End(j, k) \in enabled' <=> End(j, k) \in enabled /\ j # i /\ k # i
  BY <1>3, <1>4, CutOff
<1>7. Ends' = Ends /\ \A j, k : End(j, k)' = End(j, k)
  BY <1>2, Zenon DEF Ends, Made, End
<1>8. EndsCurrent'
  BY <1>2, <1>3, <1>4, <1>7 DEF Network, EndsCurrent, NoEnds, Made
<1>9. Making'
  BY <1>2, Zenon DEF Making
<1>10. Linked'
  <2>1. ASSUME NEW j \in Server, NEW k \in Server
        PROVE  End(j, k)' \in enabled' <=> connected'[j] /\ connected'[k]
    <3>1. End(j, k) \in enabled <=> connected[j] /\ connected[k]
      BY <1>2, <1>3, Zenon DEF Network, Linked
    <3>2. End(j, k) \in enabled' <=> End(j, k) \in enabled /\ j # i /\ k # i
      BY <1>6
    <3> QED
      BY <1>5, <1>7, <3>1, <3>2, Zenon
  <2>2. \A j \in Server : connected'[j] => servers[j] # 0
    BY <1>5, <1>3, Zenon DEF Network, Linked
  <2>3. At' \in {"idle", "disconnect"} /\ lab' = "raft" /\ lab' # "kv"
    BY <1>2
  <2> QED
    BY <1>2, <2>1, <2>2, <2>3, Zenon DEF Linked
<1> QED
  BY <1>8, <1>9, <1>10, Zenon DEF Network

----------------------------------------------------------------------------
(* Partitions *)

\* Ends between servers are enabled in both directions or in none.
Balanced ==
    {en \in SUBSET Ends : \A i, j \in Server : End(i, j) \in en <=> End(j, i) \in en}

\* What partition does for one server i of p.
SeparateOne(en, i, p, q) == connectUnlocked(disconnectUnlocked(en, i, q), i, Range(p))

LEMMA Least ==
    ASSUME NEW T \in SUBSET Nat, T # {}
    PROVE  \E n \in T : \A m \in T : n <= m
<1>1. PICK n \in T : \A m \in T : ~(<<m, n>> \in OpToRel(<, Nat))
  BY WFMin, NatLessThanWellFounded, Zenon
<1>2. \A m \in T : ~(m < n)
  BY <1>1, Zenon DEF OpToRel
<1> QED
  BY <1>2

\* Separate takes one server of p after the other: what the first k have come to,
\* G[k], is kept up by the next.
LEMMA SeparateIn ==
    ASSUME NEW m \in Nat, NEW p, Len(p) = m, NEW q, NEW G, NEW en \in G[0],
           \A k \in 1 .. m : \A e \in G[k - 1] : SeparateOne(e, p[k], p, q) \in G[k]
    PROVE  Separate(en, p, q) \in G[m]
<1> DEFINE Is(f, n) == f = [k \in 0 .. n |-> IF k = 0 THEN en ELSE SeparateOne(f[k - 1], p[k], p, q)]
           Bad == {n \in 0 .. m : ~(\E f : Is(f, n))}
           after == CHOOSE f : Is(f, Len(p))
<1>1. Bad = {}
  <2> SUFFICES ASSUME Bad # {} PROVE FALSE
    OBVIOUS
  <2>1. PICK n \in Bad : \A j \in Bad : n <= j
    <3>1. Bad \in SUBSET Nat
      OBVIOUS
    <3> HIDE DEF Bad
    <3> QED
      BY <3>1, Least
  <2>2. n # 0
    <3>1. Is([k \in 0 .. 0 |-> en], 0)
      OBVIOUS
    <3> QED
      BY <2>1, <3>1, Zenon
  <2>3. PICK f : Is(f, n - 1)
    <3>1. n - 1 \in 0 .. m /\ ~(n <= n - 1)
      BY <2>1, <2>2
    <3>2. n - 1 \notin Bad
      BY <2>1, <3>1, Zenon
    <3> QED
      BY <3>1, <3>2, Zenon
  <2> DEFINE h == [k \in 0 .. n |-> IF k = n THEN SeparateOne(f[n - 1], p[n], p, q) ELSE f[k]]
  <2>4. Is(h, n)
    BY <2>1, <2>2, <2>3
  <2> QED
    BY <2>1, <2>4, Zenon
<1>2. Is(after, m)
  <2>1. \E f : Is(f, m)
    <3>1. m \in 0 .. m /\ m \notin Bad
      BY <1>1
    <3> QED
      BY <3>1, Zenon
  <2>2. \E f : Is(f, Len(p))
    BY <2>1, Zenon
  <2>3. Is(after, Len(p))
    BY <2>2, Zenon
  <2> QED
    BY <2>3, Zenon
<1>3. Separate(en, p, q) = after[Len(p)]
  BY DEF Separate, SeparateOne
<1> HIDE DEF after
<1>4. \A k \in 0 .. m : after[k] \in G[k]
  <2> DEFINE B == {k \in 0 .. m : ~(after[k] \in G[k])}
  <2> SUFFICES ASSUME B # {} PROVE FALSE
    OBVIOUS
  <2>1. PICK n \in B : \A j \in B : n <= j
    <3>1. B \in SUBSET Nat
      OBVIOUS
    <3> HIDE DEF B
    <3> QED
      BY <3>1, Least
  <2>2. n # 0
    BY <1>2, <2>1
  <2>3. after[n - 1] \in G[n - 1]
    BY <2>1, <2>2
  <2>4. after[n] = SeparateOne(after[n - 1], p[n], p, q)
    BY <1>2, <2>1, <2>2
  <2> QED
    BY <2>1, <2>2, <2>3, <2>4
<1> QED
  BY <1>3, <1>4

\* What a part of a partition is made of; q's places serve as servers too.
Parts == UNION {[1 .. n -> Server] : n \in 0 .. N}

LEMMA PartIs ==
    ASSUME NEW n \in 0 .. N, NEW p \in [1 .. n -> Server]
    PROVE  /\ p \in Parts /\ Len(p) = n /\ n \in Nat
           /\ DOMAIN p = 1 .. n /\ Range(p) \subseteq Server
           /\ \A k \in 1 .. n : p[k] \in Range(p)
<1>1. p \in Parts
  BY Zenon DEF Parts
<1>2. n \in Nat /\ p \in Seq(Server) /\ DOMAIN p = 1 .. n
  BY SizeAssumption
<1>3. Len(p) = n
  BY <1>2
<1>4. Range(p) \subseteq Server /\ \A k \in 1 .. n : p[k] \in Range(p)
  BY <1>2, Zenon DEF Range
<1> QED
  BY <1>1, <1>2, <1>3, <1>4, Zenon

\* When every server has ends: i loses its ends with q and gets ends with p.
LEMMA SeparatedEnds ==
    ASSUME \A j \in Server : endnames[j] # 0, NEW i \in Server, NEW p \in Parts, NEW q \in Parts, NEW en
    PROVE  /\ \A j, k : End(j, k) \in SeparateOne(en, i, p, q)
                <=> \/ j = i /\ k \in Range(p)
                    \/ k = i /\ j \in Range(p)
                    \/ End(j, k) \in en /\ ~(j = i /\ k \in Range(q)) /\ ~(k = i /\ j \in Range(q))
           /\ \A e \in SeparateOne(en, i, p, q) :
                e \in en \/ \E j \in Range(p) : e = End(i, j) \/ e = End(j, i)
<1> DEFINE out == {End(i, q[k]) : k \in {m \in DOMAIN q : endnames[i] # 0}}
           inc == {End(q[k], i) : k \in {m \in DOMAIN q : endnames[m - 1] # 0}}
           rest == disconnectUnlocked(en, i, q)
<1>1. rest = en \ (out \union inc)
  BY Zenon DEF disconnectUnlocked
<1>2. PICK n \in 0 .. N : q \in [1 .. n -> Server]
  BY Zenon DEF Parts
<1>3. DOMAIN q = 1 .. n /\ \A m \in DOMAIN q : m - 1 \in Server
  BY <1>2, SizeAssumption DEF Server
<1>4. {m \in DOMAIN q : endnames[i] # 0} = DOMAIN q /\ {m \in DOMAIN q : endnames[m - 1] # 0} = DOMAIN q
  BY <1>3, Zenon
<1>5. out = {End(i, q[k]) : k \in DOMAIN q} /\ inc = {End(q[k], i) : k \in DOMAIN q}
  BY <1>4, Zenon
<1>6. \A j : j \in Range(q) <=> \E k \in DOMAIN q : j = q[k]
  BY Zenon DEF Range
<1> HIDE DEF out, inc, rest
<1>7. \A j, k : End(j, k) \in out <=> j = i /\ k \in Range(q)
  <2>1. \A j, k : End(j, k) \in out <=> \E m \in DOMAIN q : End(j, k) = End(i, q[m])
    BY <1>5, Zenon
  <2> QED
    BY <1>6, <2>1, EndIs
<1>8. \A j, k : End(j, k) \in inc <=> k = i /\ j \in Range(q)
  <2>1. \A j, k : End(j, k) \in inc <=> \E m \in DOMAIN q : End(j, k) = End(q[m], i)
    BY <1>5, Zenon
  <2> QED
    BY <1>6, <2>1, EndIs
<1>9. \A e : e \in rest <=> e \in en /\ e \notin out /\ e \notin inc
  BY <1>1, Zenon
<1>10. SeparateOne(en, i, p, q) = connectUnlocked(rest, i, Range(p))
  BY Zenon DEF SeparateOne, rest
<1>11. \A j, k : End(j, k) \in SeparateOne(en, i, p, q)
                    <=> End(j, k) \in rest \/ (j = i /\ k \in Range(p)) \/ (k = i /\ j \in Range(p))
  BY <1>10, ConnectedEnds
<1>12. \A e \in SeparateOne(en, i, p, q) :
                e \in rest \/ \E j \in Range(p) : e = End(i, j) \/ e = End(j, i)
  BY <1>10, ConnectedEnds
<1>13. \A j, k : End(j, k) \in rest <=> End(j, k) \in en /\ ~(j = i /\ k \in Range(q)) /\ ~(k = i /\ j \in Range(q))
  BY <1>7, <1>8, <1>9, Zenon
<1>14. ASSUME NEW j, NEW k
       PROVE  End(j, k) \in SeparateOne(en, i, p, q)
                <=> \/ j = i /\ k \in Range(p)
                    \/ k = i /\ j \in Range(p)
                    \/ End(j, k) \in en /\ ~(j = i /\ k \in Range(q)) /\ ~(k = i /\ j \in Range(q))
  BY <1>11, <1>13, Zenon
<1>15. \A e \in SeparateOne(en, i, p, q) :
                e \in en \/ \E j \in Range(p) : e = End(i, j) \/ e = End(j, i)
  BY <1>9, <1>12, Zenon
<1> QED
  BY <1>14, <1>15, Zenon

LEMMA BalancedOne ==
    ASSUME \A j \in Server : endnames[j] # 0, endnames \in [Server -> Nat],
           NEW i \in Server, NEW p \in Parts, NEW q \in Parts, NEW en \in Balanced, Range(p) \subseteq Server
    PROVE  SeparateOne(en, i, p, q) \in Balanced
<1> DEFINE new == SeparateOne(en, i, p, q)
<1>1. /\ \A j, k : End(j, k) \in new
                <=> \/ j = i /\ k \in Range(p)
                    \/ k = i /\ j \in Range(p)
                    \/ End(j, k) \in en /\ ~(j = i /\ k \in Range(q)) /\ ~(k = i /\ j \in Range(q))
      /\ \A e \in new : e \in en \/ \E j \in Range(p) : e = End(i, j) \/ e = End(j, i)
  BY SeparatedEnds
<1>2. en \subseteq Ends /\ \A j, k \in Server : End(j, k) \in en <=> End(k, j) \in en
  BY Zenon DEF Balanced
<1> HIDE DEF new
<1>3. \A j \in Range(p) : End(i, j) \in Ends /\ End(j, i) \in Ends
  BY EndInEnds
<1>4. new \subseteq Ends
  BY <1>1, <1>2, <1>3, Zenon
<1>5. ASSUME NEW j \in Server, NEW k \in Server
      PROVE  End(j, k) \in new <=> End(k, j) \in new
  <2>1. End(j, k) \in en <=> End(k, j) \in en
    BY <1>2
  <2>2. End(j, k) \in new
                <=> \/ j = i /\ k \in Range(p)
                    \/ k = i /\ j \in Range(p)
                    \/ End(j, k) \in en /\ ~(j = i /\ k \in Range(q)) /\ ~(k = i /\ j \in Range(q))
    BY <1>1
  <2>3. End(k, j) \in new
                <=> \/ k = i /\ j \in Range(p)
                    \/ j = i /\ k \in Range(p)
                    \/ End(k, j) \in en /\ ~(k = i /\ j \in Range(q)) /\ ~(j = i /\ k \in Range(q))
    BY <1>1
  <2> QED
    BY <2>1, <2>2, <2>3, Zenon
<1>6. new \in Balanced
  BY <1>4, <1>5, Zenon DEF Balanced
<1> QED
  BY <1>6 DEF new

LEMMA BalancedSeparate ==
    ASSUME \A j \in Server : endnames[j] # 0, endnames \in [Server -> Nat],
           NEW n \in 0 .. N, NEW p \in [1 .. n -> Server], NEW q \in Parts, NEW en \in Balanced
    PROVE  Separate(en, p, q) \in Balanced
<1> DEFINE G == [k \in 0 .. n |-> Balanced]
<1>1. p \in Parts /\ Len(p) = n /\ n \in Nat /\ Range(p) \subseteq Server
  BY PartIs, Zenon
<1>2. G[0] = Balanced /\ G[n] = Balanced /\ \A k \in 1 .. n : G[k - 1] = Balanced /\ G[k] = Balanced /\ p[k] \in Server
  BY <1>1
<1> HIDE DEF G
<1>3. \A k \in 1 .. n : \A e \in G[k - 1] : SeparateOne(e, p[k], p, q) \in G[k]
  <2> SUFFICES ASSUME NEW k \in 1 .. n, NEW e \in G[k - 1]
               PROVE  SeparateOne(e, p[k], p, q) \in G[k]
    BY Zenon
  <2>1. e \in Balanced /\ p[k] \in Server /\ G[k] = Balanced
    BY <1>2, Zenon
  <2> QED
    BY <1>1, <2>1, BalancedOne
<1>4. en \in G[0]
  BY <1>2, Zenon
<1>5. Separate(en, p, q) \in G[n]
  BY <1>1, <1>3, <1>4, SeparateIn
<1> QED
  BY <1>2, <1>5, Zenon

\* The tester changes all connections while all servers run.
LEMMA NetworkBalanced ==
    ASSUME IInv, lab = "kv", At = "idle", \A i \in Server : servers[i] # 0, enabled' \in Balanced,
           UNCHANGED <<lab, todo, who, endnames, started, servers, connected>>, ready'
    PROVE  Network'
<1>1. Ends' = Ends /\ (\A j, k : End(j, k)' = End(j, k)) /\ At' = At
  BY Zenon DEF Ends, Made, End, At
<1>2. enabled' \subseteq Ends /\ \A j, k \in Server : End(j, k) \in enabled' <=> End(k, j) \in enabled'
  BY Zenon DEF Balanced
<1>3. At' \notin {"delete", "copy", "kill", "readState", "rebuild", "ends", "persister", "make"} /\ At' \in {"idle", "disconnect"}
  BY <1>1
<1>4. EndsCurrent'
  <2>1. \A i \in Server : endnames[i] = started[i]
    BY RunningHasEnds, Zenon
  <2> QED
    BY <1>1, <1>2, <1>3, <2>1, Zenon DEF EndsCurrent
<1>5. Making'
  BY Zenon DEF Making
<1>6. Linked'
  <2>1. \A i \in Server : ~connected[i]
    BY Zenon DEF IInv, Network, Linked
  <2>2. lab' = "kv" /\ lab' # "raft"
    OBVIOUS
  <2>3. \A j, k \in Server : End(j, k)' \in enabled' <=> End(k, j)' \in enabled'
    BY <1>1, <1>2, Zenon
  <2> QED
    BY <2>1, <2>2, <2>3, Zenon DEF Linked
<1> QED
  BY <1>4, <1>5, <1>6, Zenon DEF Network

LEMMA ConnectAllBalanced ==
    ASSUME enabled \subseteq Ends, endnames \in [Server -> Nat], \A j \in Server : endnames[j] # 0
    PROVE  ConnectAll \in Balanced
<1>1. ASSUME NEW e \in ConnectAll
      PROVE  e \in Ends
  <2>1. PICK i \in Server : e \in connectUnlocked(enabled, i, Server)
    BY <1>1, Zenon DEF ConnectAll
  <2>2. e \in enabled \/ \E j \in Server : e = End(i, j) \/ e = End(j, i)
    BY <2>1, ConnectedEnds
  <2>3. \A j \in Server : End(i, j) \in Ends /\ End(j, i) \in Ends
    BY EndInEnds
  <2> QED
    BY <2>2, <2>3, Zenon
<1>2. ASSUME NEW i \in Server, NEW j \in Server
      PROVE  End(i, j) \in ConnectAll
  <2>1. End(i, j) \in connectUnlocked(enabled, i, Server)
    BY ConnectedEnds
  <2> QED
    BY <2>1, Zenon DEF ConnectAll
<1> QED
  BY <1>1, <1>2, Zenon DEF Balanced

LEMMA EnabledBalanced ==
    ASSUME IInv, lab = "kv", At = "idle", \A i \in Server : servers[i] # 0
    PROVE  /\ enabled \in Balanced /\ enabled \subseteq Ends /\ endnames \in [Server -> Nat]
           /\ \A j \in Server : endnames[j] # 0
<1>1. \A j \in Server : endnames[j] # 0
  BY RunningHasEnds, Zenon
<1>2. enabled \subseteq Ends /\ endnames \in [Server -> Nat] /\ \A j, k \in Server : End(j, k) \in enabled <=> End(k, j) \in enabled
  BY Zenon DEF IInv, TypeOK, Network, EndsCurrent, Linked
<1> QED
  BY <1>1, <1>2, Zenon DEF Balanced

LEMMA NetworkConnectAll ==
    ASSUME IInv, FinishKV \/ ConnectAllAgain
    PROVE  Network'
<1>1. /\ lab = "kv" /\ Idle /\ enabled' = ConnectAll /\ ready' /\ (ready => \A i \in Server : servers[i] # 0)
      /\ (~ready => \A i \in Server : started[i] # 0)
      /\ UNCHANGED <<lab, todo, who, endnames, started, servers, connected>>
  <2>1. CASE FinishKV
    BY <2>1, Zenon DEF FinishKV, AllStarted, instances
  <2>2. CASE ConnectAllAgain
    BY <2>2, Zenon DEF ConnectAllAgain, AllUp, tester, instances
  <2> QED
    BY <2>1, <2>2, Zenon
<1>2. At = "idle"
  BY <1>1, IdleAt, Zenon
<1>3. \A i \in Server : servers[i] # 0
  <2>1. ~ready => \A j \in Server : servers[j] = started[j]
    BY Zenon DEF IInv, Network, Making
  <2> QED
    BY <1>1, <2>1, Zenon
<1>4. ConnectAll \in Balanced
  <2>1. enabled \subseteq Ends /\ endnames \in [Server -> Nat] /\ \A j \in Server : endnames[j] # 0
    BY <1>1, <1>2, <1>3, EnabledBalanced, Zenon
  <2> QED
    BY <2>1, ConnectAllBalanced, Zenon
<1> QED
  BY <1>1, <1>2, <1>3, <1>4, NetworkBalanced, Zenon

LEMMA NetworkFinishShardKV ==
    ASSUME IInv, FinishShardKV
    PROVE  Network'
<1>1. ready' /\ UNCHANGED <<todo, who, lab, started, servers, endnames, enabled, connected>>
  BY Zenon DEF FinishShardKV, net, instances
<1>2. At' = At /\ Ends' = Ends /\ (\A i : NoEnds(i)' <=> NoEnds(i)) /\ \A i, j : End(i, j)' = End(i, j)
  BY <1>1, Zenon DEF At, Ends, Made, NoEnds, End
<1>3. Network
  BY Zenon DEF IInv
<1>4. EndsCurrent' /\ Making' /\ Linked'
  BY <1>1, <1>2, <1>3, Zenon DEF Network, EndsCurrent, Making, Linked
<1> QED
  BY <1>4, Zenon DEF Network

LEMMA BalancedPartition ==
    ASSUME IInv, lab = "kv", At = "idle", \A i \in Server : servers[i] # 0,
           NEW n1 \in 0 .. N, NEW p1 \in [1 .. n1 -> Server],
           NEW n2 \in 0 .. N, NEW p2 \in [1 .. n2 -> Server]
    PROVE  partition(p1, p2) \in Balanced
<1>1. /\ enabled \in Balanced /\ endnames \in [Server -> Nat]
      /\ \A j \in Server : endnames[j] # 0
  BY EnabledBalanced, Zenon
<1>2. p1 \in Parts /\ p2 \in Parts
  BY PartIs, Zenon
<1>3. Separate(enabled, p1, p2) \in Balanced
  BY <1>1, <1>2, BalancedSeparate, Zenon
<1>4. Separate(Separate(enabled, p1, p2), p2, p1) \in Balanced
  BY <1>1, <1>2, <1>3, BalancedSeparate, Zenon
<1> QED
  BY <1>4, Zenon DEF partition

LEMMA ServerSize == IsFiniteSet(Server) /\ Cardinality(Server) = N
<1>1. 0 \in Int /\ N - 1 \in Int
  BY SizeAssumption
<1>2. IsFiniteSet(0 .. N - 1) /\ Cardinality(0 .. N - 1) = IF 0 > N - 1 THEN 0 ELSE (N - 1) - 0 + 1
  BY <1>1, FS_Interval
<1> QED
  BY <1>2, SizeAssumption DEF Server

\* The ordered lists of servers are parts.
LEMMA ListsAre ==
    ASSUME NEW S \in SUBSET Server, NEW p \in Lists(S)
    PROVE  Cardinality(S) \in 0 .. N /\ p \in [1 .. Cardinality(S) -> Server]
<1>1. IsFiniteSet(Server) /\ Cardinality(Server) = N
  BY ServerSize
<1>2. Cardinality(S) \in Nat /\ Cardinality(S) <= N
  <2>1. IsFiniteSet(S) /\ Cardinality(S) <= Cardinality(Server)
    BY <1>1, FS_Subset
  <2> QED
    BY <1>1, <2>1, FS_CardinalityType
<1>3. p \in [1 .. Cardinality(S) -> S]
  BY Zenon DEF Lists
<1> QED
  BY <1>2, <1>3, SizeAssumption

\* The two parts of make_partition.
LEMMA MakePartitionIs ==
    ASSUME N > 1, NEW l \in Server
    PROVE  /\ N \div 2 + 1 \in 0 .. N /\ make_partition(N, l)[1] \in [1 .. N \div 2 + 1 -> Server]
           /\ N \div 2 \in 0 .. N /\ make_partition(N, l)[2] \in [1 .. N \div 2 -> Server]
<1> DEFINE half == N \div 2
           other(k) == IF k - 1 < l THEN k - 1 ELSE k
           at(k) == IF k < N THEN other(k) ELSE 0
<1>1. half \in Nat /\ half + 1 <= N /\ half \in 0 .. N /\ half + 1 \in 0 .. N
  BY SizeAssumption
<1>2. \A k \in Nat \ {0} : at(k) \in Server
  BY SizeAssumption DEF Server
<1>3. /\ make_partition(N, l)[1] = [k \in 1 .. half + 1 |-> at(k)]
      /\ make_partition(N, l)[2] = [k \in 1 .. half |-> IF k = half THEN l ELSE at(half + 1 + k)]
  BY DEF make_partition
<1> HIDE DEF at, half
<1>4. make_partition(N, l)[1] \in [1 .. half + 1 -> Server]
  BY <1>1, <1>2, <1>3
<1>5. make_partition(N, l)[2] \in [1 .. half -> Server]
  BY <1>1, <1>2, <1>3
<1> QED
  BY <1>1, <1>4, <1>5 DEF half

LEMMA NetworkPartition ==
    ASSUME IInv, PartitionAtRandom \/ PartitionLeader
    PROVE  Network'
<1>1. /\ lab = "kv" /\ Idle /\ ready /\ (\A i \in Server : servers[i] # 0) /\ ready' = ready
      /\ UNCHANGED <<lab, todo, who, endnames, started, servers, connected>>
  <2>1. CASE PartitionAtRandom
    BY <2>1, Zenon DEF PartitionAtRandom, AllUp, tester, instances
  <2>2. CASE PartitionLeader
    BY <2>2, Zenon DEF PartitionLeader, AllUp, tester, instances
  <2> QED
    BY <2>1, <2>2, Zenon
<1>2. At = "idle"
  BY <1>1, IdleAt, Zenon
<1>3. enabled' \in Balanced
  <2>1. CASE PartitionAtRandom
    <3>1. PICK side \in SUBSET Server :
            \E p1 \in Lists(side), p2 \in Lists(Server \ side) : enabled' = partition(p1, p2)
      BY <2>1, Zenon DEF PartitionAtRandom
    <3>2. PICK p1 \in Lists(side), p2 \in Lists(Server \ side) : enabled' = partition(p1, p2)
      BY <3>1, Zenon
    <3>3. Cardinality(side) \in 0 .. N /\ p1 \in [1 .. Cardinality(side) -> Server]
      BY ListsAre, Zenon
    <3>4. Server \ side \in SUBSET Server
      BY Zenon
    <3>5. Cardinality(Server \ side) \in 0 .. N /\ p2 \in [1 .. Cardinality(Server \ side) -> Server]
      BY <3>4, ListsAre, Zenon
    <3>6. partition(p1, p2) \in Balanced
      BY <1>1, <1>2, <3>3, <3>5, BalancedPartition, Zenon
    <3> QED
      BY <3>2, <3>6, Zenon
  <2>2. CASE PartitionLeader
    <3>1. PICK l \in Server : enabled' = partition(make_partition(N, l)[1], make_partition(N, l)[2])
      BY <2>2, Zenon DEF PartitionLeader
    <3>2. N > 1
      BY <2>2, Zenon DEF PartitionLeader
    <3>3. /\ N \div 2 + 1 \in 0 .. N /\ make_partition(N, l)[1] \in [1 .. N \div 2 + 1 -> Server]
          /\ N \div 2 \in 0 .. N /\ make_partition(N, l)[2] \in [1 .. N \div 2 -> Server]
      BY <3>2, MakePartitionIs, Zenon
    <3>4. partition(make_partition(N, l)[1], make_partition(N, l)[2]) \in Balanced
      BY <1>1, <1>2, <3>3, BalancedPartition, Zenon
    <3> QED
      BY <3>1, <3>4, Zenon
  <2> QED
    BY <2>1, <2>2, Zenon
<1> QED
  BY <1>1, <1>2, <1>3, NetworkBalanced, Zenon

----------------------------------------------------------------------------
(* Types in a step *)

LEMMA TypeRun ==
    ASSUME IInv, StartNext \/ ShutdownOne \/ StartOne
    PROVE  TypeOK'
<1>1. TypeOK
  BY Zenon DEF IInv
<1>2. who' \in Server /\ todo' \in Todos /\ UNCHANGED <<lab, ready, raftlog, net, instances, store, call>>
  BY RunIs, Zenon
<1> QED
  BY <1>1, <1>2, Zenon DEF TypeOK, net, instances, store

LEMMA TypeDoing ==
    ASSUME IInv, NEW w, Doing(w), UNCHANGED call,
           started' \in [Server -> Nat], servers' \in [Server -> Nat], endnames' \in [Server -> Nat],
           registered' \in [Server -> Nat], connected' \in [Server -> BOOLEAN], saved' \in [Server -> Nat],
           persisters' \in [Server -> Seq(Rec)], memory' \in [Server -> Seq(Rec)], given' \in [Server -> Seq(Nat)]
    PROVE  TypeOK'
<1>1. TypeOK
  BY Zenon DEF IInv
<1>2. todo' \in Todos /\ UNCHANGED <<lab, ready, who>>
  BY <1>1, DoingAt, Zenon
<1> QED
  BY <1>1, <1>2, Zenon DEF TypeOK

LEMMA TypeMachine ==
    ASSUME IInv, DisconnectStep \/ DeleteServer \/ CopySaved \/ Kill \/ ReadRaftState \/ RebuildPersister
                    \/ MakeEnds \/ NewPersister \/ Make \/ AddServer
    PROVE  TypeOK'
<1>1. /\ TypeOK /\ who \in Server /\ started \in [Server -> Nat] /\ servers \in [Server -> Nat]
      /\ endnames \in [Server -> Nat] /\ registered \in [Server -> Nat] /\ connected \in [Server -> BOOLEAN]
      /\ saved \in [Server -> Nat] /\ persisters \in [Server -> Seq(Rec)] /\ memory \in [Server -> Seq(Rec)]
      /\ given \in [Server -> Seq(Nat)]
  BY Zenon DEF IInv, TypeOK
<1>2. CASE DisconnectStep
  <2>1. /\ Doing("disconnect") /\ Disable(who)
        /\ UNCHANGED <<started, servers, endnames, registered, saved, persisters, memory, given, call>>
    BY <1>2, Zenon DEF DisconnectStep, instances, store
  <2>2. connected' \in {connected, [connected EXCEPT ![who] = FALSE]}
    <3>1. lab \in {"raft", "kv", "shardkv"}
      BY <1>1, Zenon DEF TypeOK
    <3> QED
      BY <2>1, <3>1, Zenon DEF Disable, DisconnectRaft, DisconnectShardKV
  <2>3. connected' \in [Server -> BOOLEAN]
    BY <1>1, <2>2, Zenon
  <2> QED
    BY <1>1, <2>1, <2>3, TypeDoing, Zenon
<1>3. CASE DeleteServer \/ AddServer
  <2>1. PICK w \in {"delete", "add"} :
        /\ Doing(w) /\ registered' \in {[registered EXCEPT ![who] = 0], [registered EXCEPT ![who] = servers[who]]}
        /\ UNCHANGED <<started, servers, endnames, connected, saved, persisters, memory, given, call>>
    <3>1. Doing("delete") \/ Doing("add")
      BY <1>3, Zenon DEF DeleteServer, AddServer
    <3>2. registered' \in {[registered EXCEPT ![who] = 0], [registered EXCEPT ![who] = servers[who]]}
      BY <1>3, Zenon DEF DeleteServer, AddServer
    <3>3. UNCHANGED <<started, servers, endnames, connected, saved, persisters, memory, given, call>>
      BY <1>3, Zenon DEF DeleteServer, AddServer, instances, store
    <3> QED
      BY <3>1, <3>2, <3>3, Zenon
  <2>2. registered' \in [Server -> Nat]
    <3>1. PICK g \in Nat : registered' = [registered EXCEPT ![who] = g]
      <4>1. 0 \in Nat /\ servers[who] \in Nat
        BY <1>1
      <4> QED
        BY <2>1, <4>1, Zenon
    <3> QED
      BY <1>1, <3>1, Zenon
  <2> QED
    BY <1>1, <2>1, <2>2, TypeDoing, Zenon
<1>4. CASE CopySaved \/ RebuildPersister \/ NewPersister
  <2>1. PICK w \in {"copy", "rebuild", "persister"} :
        /\ Doing(w)
        /\ UNCHANGED <<started, servers, endnames, registered, connected, memory, given, call>>
    <3>1. Doing("copy") \/ Doing("rebuild") \/ Doing("persister")
      BY <1>4, Zenon DEF CopySaved, RebuildPersister, NewPersister
    <3>2. UNCHANGED <<started, servers, endnames, registered, connected, memory, given, call>>
      BY <1>4, Zenon DEF CopySaved, RebuildPersister, NewPersister, instances, net
    <3> QED
      BY <3>1, <3>2, Zenon
  <2>2. saved[who] # 0 => Content(who) \in Rec
    BY <1>1, ContentFits, Zenon DEF IInv
  <2>3. saved' \in [Server -> Nat] /\ persisters' \in [Server -> Seq(Rec)]
    <3>1. (\E c \in Rec : Save(who, c)) \/ UNCHANGED <<saved, persisters>>
      <4>1. CASE CopySaved
        BY <2>2, <4>1, Zenon DEF CopySaved, Copy, store
      <4>2. CASE RebuildPersister
        <5>1. At = "rebuild"
          BY <1>1, <4>2, DoingAt, Zenon DEF RebuildPersister
        <5>2. saved[who] # 0 => raftlog = Content(who).raftstate
          BY <5>1, Zenon DEF IInv, Storage, NotGiven
        <5>3. saved[who] # 0 => [raftstate |-> raftlog, snapshot |-> Content(who).snapshot] = Content(who)
          BY <2>2, <5>2 DEF Rec
        <5> QED
          BY <2>2, <4>2, <5>3, Zenon DEF RebuildPersister, store
      <4>3. CASE NewPersister
        BY <2>2, <4>3, EmptyRec, Zenon DEF NewPersister
      <4> QED
        BY <1>4, <4>1, <4>2, <4>3, Zenon
    <3>2. CASE UNCHANGED <<saved, persisters>>
      BY <1>1, <3>2, Zenon
    <3>3. ASSUME NEW c \in Rec, Save(who, c)
          PROVE  saved' \in [Server -> Nat] /\ persisters' \in [Server -> Seq(Rec)]
      BY <1>1, <3>3, SaveIs, Zenon
    <3> QED
      BY <3>1, <3>2, <3>3, Zenon
  <2> QED
    BY <1>1, <2>1, <2>3, TypeDoing, Zenon
<1>5. CASE Kill
  <2>1. /\ Doing("kill") /\ servers' = [servers EXCEPT ![who] = 0]
        /\ UNCHANGED <<started, endnames, registered, connected, saved, persisters, memory, given, call>>
    BY <1>5, Zenon DEF Kill, net, store
  <2>2. servers' \in [Server -> Nat]
    BY <1>1, <2>1
  <2> QED
    BY <1>1, <2>1, <2>2, TypeDoing, Zenon
<1>6. CASE ReadRaftState
  <2>1. /\ Doing("readState")
        /\ UNCHANGED <<started, servers, endnames, registered, connected, saved, persisters, memory, given, call>>
    BY <1>6, Zenon DEF ReadRaftState, net, store, instances
  <2> QED
    BY <1>1, <2>1, TypeDoing, Zenon
<1>7. CASE MakeEnds
  <2>1. /\ Doing("ends") /\ endnames' = [endnames EXCEPT ![who] = started[who] + 1]
        /\ UNCHANGED <<started, servers, registered, connected, saved, persisters, memory, given, call>>
    BY <1>7, Zenon DEF MakeEnds, store, instances
  <2>2. endnames' \in [Server -> Nat]
    BY <1>1, <2>1
  <2> QED
    BY <1>1, <2>1, <2>2, TypeDoing, Zenon
<1>8. CASE Make
  <2>1. Doing("make") /\ UNCHANGED <<endnames, registered, connected, saved, persisters, call>>
    BY <1>8, Zenon DEF Make, net, store
  <2>2. /\ started' \in [Server -> Nat] /\ servers' \in [Server -> Nat]
        /\ given' \in [Server -> Seq(Nat)] /\ memory' \in [Server -> Seq(Rec)]
    BY <1>8, MakeType, Zenon
  <2> QED
    BY <1>1, <2>1, <2>2, TypeDoing, Zenon
<1> QED
  BY <1>2, <1>3, <1>4, <1>5, <1>6, <1>7, <1>8, Zenon

\* The operations that are about connections only.
Connecting ==
    \/ FinishRaft \/ FinishKV \/ FinishShardKV \/ ConnectRaft \/ DisconnectOne
    \/ PartitionAtRandom \/ PartitionLeader \/ ConnectAllAgain \/ ConnectClient \/ DisconnectClient

LEMMA ConnectingIs ==
    ASSUME IInv, Connecting
    PROVE  TypeOK' /\ Storage'
<1>1. TypeOK /\ Storage
  BY Zenon DEF IInv
<1>2. UNCHANGED <<lab, todo, who, raftlog, started, servers, given, memory, endnames, registered, saved, persisters, call>>
  BY Zenon DEF Connecting, FinishRaft, FinishKV, FinishShardKV, ConnectRaft, DisconnectOne, PartitionAtRandom,
               PartitionLeader, ConnectAllAgain, ConnectClient, DisconnectClient, tester, net, instances, store
<1>3. ready' \in BOOLEAN
  <2>1. CASE FinishRaft
    <3>1. PICK i \in Server : ready' = (i = N - 1)
      BY <2>1, Zenon DEF FinishRaft
    <3> QED
      BY <3>1
  <2>2. CASE FinishKV \/ FinishShardKV
    <3>1. ready' = TRUE
      BY <2>2, Zenon DEF FinishKV, FinishShardKV
    <3> QED
      BY <3>1
  <2>3. CASE ConnectRaft \/ DisconnectOne \/ PartitionAtRandom \/ PartitionLeader \/ ConnectAllAgain \/ ConnectClient \/ DisconnectClient
    <3>1. ready' = ready
      BY <2>3, Zenon DEF ConnectRaft, DisconnectOne, PartitionAtRandom, PartitionLeader, ConnectAllAgain,
                         ConnectClient, DisconnectClient, tester
    <3> QED
      BY <1>1, <3>1, Zenon DEF TypeOK
  <2> QED
    BY <2>1, <2>2, <2>3, Zenon DEF Connecting
<1>4. connected' \in [Server -> BOOLEAN]
  <2>1. \/ UNCHANGED connected
        \/ \E i \in Server : connected' = [connected EXCEPT ![i] = TRUE]
        \/ \E i \in Server : connected' = [connected EXCEPT ![i] = FALSE]
    <3>1. CASE FinishRaft \/ ConnectRaft
      BY <3>1, Zenon DEF FinishRaft, ConnectRaft, connect
    <3>2. CASE DisconnectOne
      BY <3>2, Zenon DEF DisconnectOne, DisconnectRaft
    <3>3. CASE FinishKV \/ FinishShardKV \/ PartitionAtRandom \/ PartitionLeader \/ ConnectAllAgain \/ ConnectClient \/ DisconnectClient
      BY <3>3, Zenon DEF FinishKV, FinishShardKV, PartitionAtRandom, PartitionLeader, ConnectAllAgain,
                         ConnectClient, DisconnectClient, net
    <3> QED
      BY <3>1, <3>2, <3>3, Zenon DEF Connecting
  <2>2. connected \in [Server -> BOOLEAN]
    BY <1>1, Zenon DEF TypeOK
  <2> QED
    BY <2>1, <2>2, Zenon
<1>5. TypeOK'
  BY <1>1, <1>2, <1>3, <1>4, Zenon DEF TypeOK
<1>6. Storage'
  BY <1>1, <1>2, StorageKept, Zenon DEF machine
<1> QED
  BY <1>5, <1>6, Zenon

----------------------------------------------------------------------------
(* The invariant *)

LEMMA InitIInv == Init => IInv
<1> SUFFICES ASSUME Init
             PROVE  IInv
  BY Zenon
<1>1. /\ lab \in Lab /\ ready = FALSE /\ todo = <<>> /\ who = 0 /\ enabled = {}
      /\ started = [i \in Server |-> 0] /\ servers = [i \in Server |-> 0]
      /\ endnames = [i \in Server |-> 0] /\ registered = [i \in Server |-> 0]
      /\ connected = [i \in Server |-> FALSE] /\ saved = [i \in Server |-> 0]
      /\ persisters = [i \in Server |-> <<>>] /\ given = [i \in Server |-> <<>>]
      /\ memory = [i \in Server |-> <<>>]
      /\ call = [o \in Op |-> [stage |-> "new", i |-> 0, g |-> 0]]
  BY Zenon DEF Init
<1>2. \A i \in Server : /\ started[i] = 0 /\ servers[i] = 0 /\ endnames[i] = 0 /\ registered[i] = 0
                        /\ ~connected[i] /\ saved[i] = 0
                        /\ persisters[i] = <<>> /\ given[i] = <<>> /\ memory[i] = <<>>
  BY <1>1, Zenon
<1>3. At = "idle" /\ 0 \in Server
  <2>1. At = "idle"
    BY <1>1, Zenon DEF At
  <2>2. 0 \in Server
    BY SizeAssumption DEF Server
  <2> QED
    BY <2>1, <2>2, Zenon
<1>4. \A o \in Op : call[o].stage = "new" /\ call[o] \in CallRec
  <2>1. \A o \in Op : call[o] = [stage |-> "new", i |-> 0, g |-> 0]
    BY <1>1, Zenon
  <2>2. [stage |-> "new", i |-> 0, g |-> 0] \in CallRec
    BY <1>3 DEF CallRec
  <2> QED
    BY <2>1, <2>2
<1>5. Len(<<>>) = 0 /\ <<>> \in Seq(Rec) /\ <<>> \in Seq(Nat)
  OBVIOUS
<1>6. TypeOK
  <2>1. lab \in {"raft", "kv", "shardkv"}
    BY <1>1, LabAssumption, Zenon
  <2>2. persisters \in [Server -> Seq(Rec)] /\ memory \in [Server -> Seq(Rec)] /\ given \in [Server -> Seq(Nat)]
    BY <1>1, <1>5, Zenon
  <2>3. /\ started \in [Server -> Nat] /\ servers \in [Server -> Nat] /\ endnames \in [Server -> Nat]
        /\ registered \in [Server -> Nat] /\ saved \in [Server -> Nat] /\ connected \in [Server -> BOOLEAN]
    BY <1>1
  <2>4. call \in [Op -> CallRec]
    BY <1>1, <1>4, Zenon
  <2>5. todo \in Todos
    BY <1>1, Zenon DEF Todos
  <2>6. ready \in BOOLEAN /\ who \in Server
    BY <1>1, <1>3, Zenon
  <2> QED
    BY <2>1, <2>2, <2>3, <2>4, <2>5, <2>6, Zenon DEF TypeOK
<1>7. Storage
  <2>1. ASSUME NEW i \in Server PROVE Own(i)
    <3>1. Len(persisters[i]) = 0 /\ Len(given[i]) = 0 /\ Len(memory[i]) = 0
      BY <1>2, <1>5, Zenon
    <3>2. started[i] = 0 /\ servers[i] = 0 /\ registered[i] = 0 /\ saved[i] = 0
      BY <1>2, Zenon
    <3> QED
      BY <3>1, <3>2 DEF Own
  <2>2. Gone
    <3>1. \A i \in Server : registered[i] = 0
      BY <1>2, Zenon
    <3> QED
      BY <1>1, <1>3, <3>1, Zenon DEF Gone
  <2>3. NotGiven
    BY <1>3 DEF NotGiven
  <2>4. Fits
    <3>1. \A i \in Server : Len(persisters[i]) = 0
      BY <1>2, <1>5, Zenon
    <3>2. 1 .. 0 = {}
      OBVIOUS
    <3> QED
      BY <3>1, <3>2, Zenon DEF Fits
  <2>5. Calls
    <3>1. "new" # "saved" /\ "new" # "acked"
      OBVIOUS
    <3> QED
      BY <1>4, <3>1, Zenon DEF Calls
  <2> QED
    BY <2>1, <2>2, <2>3, <2>4, <2>5, Zenon DEF Storage
<1>8. Network
  <2>1. EndsCurrent
    <3>1. At \notin {"persister", "make"}
      BY <1>3
    <3> QED
      BY <1>1, <1>2, <3>1, Zenon DEF EndsCurrent, NoEnds
  <2>2. Making
    <3>1. At \in {"idle", "add"}
      BY <1>3
    <3> QED
      BY <1>2, <3>1, Zenon DEF Making
  <2>3. Linked
    BY <1>1, <1>2, Zenon DEF Linked
  <2> QED
    BY <2>1, <2>2, <2>3, Zenon DEF Network
<1> QED
  BY <1>6, <1>7, <1>8, Zenon DEF IInv

\* make_end adds an end that the tester does not keep and leaves the others alone.
LEMMA MakeEndStep ==
    ASSUME IInv, NEW i \in Server, NEW g \in Nat, MakeEnd(i, g)
    PROVE  IInv'
<1> DEFINE made == <<i, g, Elsewhere>>
<1>1. /\ lab = "shardkv" /\ g \in DOMAIN given[i] /\ enabled' = enabled \union {made}
      /\ UNCHANGED <<lab, ready, todo, who, raftlog, started, servers, given, memory, endnames, registered,
                     connected, saved, persisters, call>>
  BY Zenon DEF MakeEnd, tester, instances, store
<1>2. TypeOK /\ Storage /\ Network
  BY Zenon DEF IInv
<1>3. g # 0
  <2>1. given[i] \in Seq(Nat)
    BY <1>2, Zenon DEF TypeOK
  <2> QED
    BY <1>1, <2>1
<1>4. made \in Server \X Nat \X (Server \union {Ctrler, Elsewhere}) /\ made[2] = g /\ made[3] = Elsewhere
  OBVIOUS
<1>5. Elsewhere # Ctrler
  BY SizeAssumption DEF Elsewhere, Ctrler
<1> HIDE DEF made
<1>6. made \in Ends /\ Made(made)
  BY <1>1, <1>3, <1>4, <1>5, Zenon DEF Ends, Made
<1>7. At' = At /\ Ends' = Ends /\ (\A j : NoEnds(j) => NoEnds(j)')
  BY <1>1, <1>6, Zenon DEF At, Ends, Made, NoEnds
<1>8. EndsCurrent'
  BY <1>1, <1>2, <1>6, <1>7, Zenon DEF Network, EndsCurrent
<1>9. Making' /\ Linked'
  <2>1. lab' # "raft" /\ lab' # "kv" /\ lab # "raft"
    BY <1>1
  <2> QED
    BY <1>1, <1>2, <1>7, <2>1, Zenon DEF Network, Making, Linked
<1>10. TypeOK'
  BY <1>1, <1>2, Zenon DEF TypeOK
<1>11. Storage'
  BY <1>1, <1>2, StorageKept, Zenon DEF machine
<1> QED
  BY <1>8, <1>9, <1>10, <1>11, Zenon DEF IInv, Network

\* Steps of the instances: the tester and its network stay as they are.
LEMMA InstanceStep ==
    ASSUME IInv,
           \/ \E o \in Op : \E i \in Server : Deliver(o, i)
           \/ \E o \in Op : SaveRaftState(o)
           \/ \E o \in Op : Reply(o)
           \/ \E i \in Server : \E g \in 1 .. MaxRestarts + 1 : SaveStateAndSnapshot(i, g)
    PROVE  IInv'
<1>1. TypeOK /\ Network /\ memory \in [Server -> Seq(Rec)] /\ persisters \in [Server -> Seq(Rec)] /\ call \in [Op -> CallRec]
  BY Zenon DEF IInv, TypeOK
<1>2. /\ Storage' /\ call' \in [Op -> CallRec]
      /\ memory' \in [Server -> Seq(Rec)] /\ persisters' \in [Server -> Seq(Rec)]
      /\ UNCHANGED <<tester, net, started, servers, given, saved>>
  <2>1. CASE \E o \in Op : \E i \in Server : Deliver(o, i)
    <3>1. PICK o \in Op : \E i \in Server : Deliver(o, i)
      BY <2>1, Zenon
    <3>2. PICK i \in Server : Deliver(o, i)
      BY <3>1, Zenon
    <3>3. Storage' /\ call' \in [Op -> CallRec]
      BY <3>2, StorageDeliver, Zenon
    <3>4. UNCHANGED <<tester, net, started, servers, given, memory, saved, persisters>>
      BY <3>2, Zenon DEF Deliver, instances, store
    <3> QED
      BY <1>1, <3>3, <3>4, Zenon
  <2>2. CASE \E o \in Op : SaveRaftState(o)
    <3>1. PICK o \in Op : SaveRaftState(o)
      BY <2>2, Zenon
    <3>2. /\ Storage' /\ call' \in [Op -> CallRec]
          /\ memory' \in [Server -> Seq(Rec)] /\ persisters' \in [Server -> Seq(Rec)]
      BY <3>1, StorageSaveRaftState, Zenon
    <3>3. UNCHANGED <<tester, net, started, servers, given, saved>>
      BY <3>1, Zenon DEF SaveRaftState
    <3> QED
      BY <3>2, <3>3, Zenon
  <2>3. CASE \E o \in Op : Reply(o)
    <3>1. PICK o \in Op : Reply(o)
      BY <2>3, Zenon
    <3>2. Storage' /\ call' \in [Op -> CallRec]
      BY <3>1, StorageReply, Zenon
    <3>3. UNCHANGED <<tester, net, started, servers, given, memory, saved, persisters>>
      BY <3>1, Zenon DEF Reply, instances, store
    <3> QED
      BY <1>1, <3>2, <3>3, Zenon
  <2>4. CASE \E i \in Server : \E g \in 1 .. MaxRestarts + 1 : SaveStateAndSnapshot(i, g)
    <3>1. PICK i \in Server : \E g \in 1 .. MaxRestarts + 1 : SaveStateAndSnapshot(i, g)
      BY <2>4, Zenon
    <3>2. PICK g \in 1 .. MaxRestarts + 1 : SaveStateAndSnapshot(i, g)
      BY <3>1, Zenon
    <3>3. g \in Nat
      BY SizeAssumption
    <3>4. Storage' /\ memory' \in [Server -> Seq(Rec)] /\ persisters' \in [Server -> Seq(Rec)]
      BY <3>2, <3>3, StorageSaveSnapshot, Zenon
    <3>5. UNCHANGED <<tester, net, started, servers, given, saved, call>>
      BY <3>2, Zenon DEF SaveStateAndSnapshot
    <3> QED
      BY <1>1, <3>4, <3>5, Zenon
  <2> QED
    BY <2>1, <2>2, <2>3, <2>4, Zenon
<1>3. UNCHANGED <<todo, who, lab, ready, started, servers, endnames, enabled, registered, connected, saved, given>>
  BY <1>2, Zenon DEF tester, net
<1>4. TypeOK'
  BY <1>1, <1>2, <1>3, Zenon DEF TypeOK
<1>5. Network'
  BY <1>1, <1>3, NetworkKept, Zenon
<1> QED
  BY <1>2, <1>4, <1>5, Zenon DEF IInv

LEMMA IInvStep == IInv /\ [Next]_vars => IInv'
<1> SUFFICES ASSUME IInv, [Next]_vars
             PROVE  IInv'
  BY Zenon
<1>1. CASE UNCHANGED vars
  <2>1. UNCHANGED <<lab, ready, todo, who, raftlog, started, servers, given, memory, endnames, enabled,
                    registered, connected, saved, persisters, call>>
    BY <1>1, Zenon DEF vars, tester, net, instances, store
  <2>2. TypeOK'
    BY <2>1, Zenon DEF IInv, TypeOK
  <2>3. Storage' /\ Network'
    BY <2>1, StorageKept, NetworkKept, Zenon DEF IInv, machine
  <2> QED
    BY <2>2, <2>3, Zenon DEF IInv
<1>2. CASE StartNext \/ ShutdownOne \/ StartOne
  BY <1>2, TypeRun, StorageRun, NetworkRun, Zenon DEF IInv
<1>3. CASE DisconnectStep
  BY <1>3, TypeMachine, StorageEnds, NetworkDisconnect, Zenon DEF IInv
<1>4. CASE DeleteServer
  BY <1>4, TypeMachine, StorageDelete, NetworkQuiet, Zenon DEF IInv
<1>5. CASE CopySaved
  BY <1>5, TypeMachine, StorageCopy, NetworkQuiet, Zenon DEF IInv
<1>6. CASE Kill
  BY <1>6, TypeMachine, StorageKill, NetworkQuiet, Zenon DEF IInv
<1>7. CASE ReadRaftState
  BY <1>7, TypeMachine, StorageRead, NetworkQuiet, Zenon DEF IInv
<1>8. CASE RebuildPersister
  BY <1>8, TypeMachine, StorageRebuild, NetworkQuiet, Zenon DEF IInv
<1>9. CASE MakeEnds
  BY <1>9, TypeMachine, StorageEnds, NetworkMakeEnds, Zenon DEF IInv
<1>10. CASE NewPersister
  BY <1>10, TypeMachine, StorageNew, NetworkNew, Zenon DEF IInv
<1>11. CASE Make
  BY <1>11, TypeMachine, StorageMake, NetworkMake, Zenon DEF IInv
<1>12. CASE AddServer
  BY <1>12, TypeMachine, StorageAdd, NetworkAdd, Zenon DEF IInv
<1>13. CASE Connecting
  <2>1. TypeOK' /\ Storage'
    BY <1>13, ConnectingIs, Zenon
  <2>2. CASE FinishRaft \/ ConnectRaft
    BY <2>1, <2>2, NetworkConnect, Zenon DEF IInv
  <2>3. CASE FinishKV \/ ConnectAllAgain
    BY <2>1, <2>3, NetworkConnectAll, Zenon DEF IInv
  <2>4. CASE FinishShardKV
    BY <2>1, <2>4, NetworkFinishShardKV, Zenon DEF IInv
  <2>5. CASE DisconnectOne
    BY <2>1, <2>5, NetworkDisconnectOne, Zenon DEF IInv
  <2>6. CASE PartitionAtRandom \/ PartitionLeader
    BY <2>1, <2>6, NetworkPartition, Zenon DEF IInv
  <2>7. CASE ConnectClient \/ DisconnectClient
    <3>1. UNCHANGED <<todo, who, lab, ready, started, servers, endnames, enabled, connected>>
      BY <2>7, Zenon DEF ConnectClient, DisconnectClient, tester, instances
    <3> QED
      BY <2>1, <3>1, NetworkKept, Zenon DEF IInv
  <2> QED
    BY <1>13, <2>2, <2>3, <2>4, <2>5, <2>6, <2>7, Zenon DEF Connecting
<1>14. CASE \/ \E o \in Op : \E i \in Server : Deliver(o, i)
            \/ \E o \in Op : SaveRaftState(o)
            \/ \E o \in Op : Reply(o)
            \/ \E i \in Server : \E g \in 1 .. MaxRestarts + 1 : SaveStateAndSnapshot(i, g)
  BY <1>14, InstanceStep, Zenon
<1>15. CASE \E i \in Server : \E g \in 1 .. MaxRestarts + 1 : MakeEnd(i, g)
  <2>1. PICK i \in Server : \E g \in 1 .. MaxRestarts + 1 : MakeEnd(i, g)
    BY <1>15, Zenon
  <2>2. PICK g \in 1 .. MaxRestarts + 1 : MakeEnd(i, g)
    BY <2>1, Zenon
  <2>3. g \in Nat
    BY SizeAssumption
  <2> QED
    BY <2>2, <2>3, MakeEndStep, Zenon
<1> QED
  BY <1>1, <1>2, <1>3, <1>4, <1>5, <1>6, <1>7, <1>8, <1>9, <1>10, <1>11, <1>12, <1>13, <1>14, <1>15, Zenon
  DEF Next, Connecting

\* Every state the testers can bring a system into, for any number of servers, calls
\* and restarts, satisfies the invariant: instances have persisters of their own, the
\* network forgets a server before its persister is copied, and ends have current names.
THEOREM Invariance == Spec => []IInv
<1>1. Init => IInv
  BY InitIInv
<1>2. IInv /\ [Next]_vars => IInv'
  BY IInvStep
<1> QED
  BY <1>1, <1>2, PTL DEF Spec

\* What a server has answered for is in the persister that ShutdownServer, crash1 and
\* StartServer pass on, whatever an old instance still saves in its own.
THEOREM AcknowledgedIsSavedHolds == Spec => []AcknowledgedIsSaved
<1>1. IInv => AcknowledgedIsSaved
  BY Zenon DEF IInv, Storage, Calls, Ops, AcknowledgedIsSaved
<1> QED
  BY <1>1, Invariance, PTL

\* The raft state and the snapshot in a saved Persister fit together, although crash1
\* reads them one after the other.
THEOREM StateFitsSnapshotHolds == Spec => []StateFitsSnapshot
<1>1. IInv => StateFitsSnapshot
  BY ContentFits, Zenon DEF IInv, StateFitsSnapshot
<1> QED
  BY <1>1, Invariance, PTL

\* Of the ends that StartServer makes, an instance that was shut down has none enabled:
\* the tester disables them by their current names before it makes new ones.  Only ends
\* of shardkv's make_end, whose names the tester does not keep, outlive their instance.
THEOREM OldInstanceSilentHolds == Spec => []OldInstanceSilent
<1>1. ASSUME IInv, NEW e \in enabled, ~Made(e)
      PROVE  e[2] \in {servers[e[1]], started[e[1]] + 1}
  <2>1. PICK i \in Server, j \in Server \union {Ctrler} : e = End(i, j)
    BY <1>1, EndsAre, Zenon DEF IInv, Network, EndsCurrent
  <2>2. e[1] = i /\ e[2] = endnames[i]
    BY <2>1, EndIs, Zenon
  <2>3. CASE i = who /\ At \in {"persister", "make"}
    <3>1. endnames[i] = started[i] + 1
      BY <1>1, <2>3 DEF IInv, Network, EndsCurrent
    <3> QED
      BY <2>2, <3>1, Zenon
  <2>4. CASE ~(i = who /\ At \in {"persister", "make"})
    <3>1. endnames[i] = started[i]
      BY <1>1, <2>4 DEF IInv, Network, EndsCurrent
    <3>2. servers[i] # 0 => servers[i] = started[i]
      BY <1>1 DEF IInv, Storage, Own
    <3>3. servers[i] # 0
      <4> SUFFICES ASSUME servers[i] = 0 PROVE FALSE
        BY Zenon
      <4>1. i = who /\ At \notin {"idle", "disconnect"}
        BY <1>1, <2>2, Zenon DEF IInv, Network, EndsCurrent, NoEnds
      <4>2. At \notin {"delete", "copy", "kill", "readState", "rebuild", "ends"}
        BY <1>1, <2>2, <4>1, Zenon DEF IInv, Network, EndsCurrent, NoEnds
      <4>3. At # "add"
        BY <1>1, <4>1 DEF IInv, Storage, NotGiven
      <4>4. At = "idle" \/ \E b : <<At, b>> \in Follows
        <5>1. todo \in Todos
          BY <1>1, Zenon DEF IInv, TypeOK
        <5>2. CASE todo = <<>>
          BY <5>2, Zenon DEF At
        <5>3. CASE todo # <<>>
          <6>1. <<Head(todo), Succ(Tail(todo))>> \in Follows /\ At = Head(todo)
            BY <5>1, <5>3, TodoTail, Zenon DEF At
          <6> QED
            BY <6>1, Zenon
        <5> QED
          BY <5>2, <5>3, Zenon
      <4> QED
        BY <2>4, <4>1, <4>2, <4>3, <4>4 DEF Follows
    <3> QED
      BY <2>2, <3>1, <3>2, <3>3, Zenon
  <2> QED
    BY <2>3, <2>4, Zenon
<1>2. IInv => OldInstanceSilent
  BY <1>1, Zenon DEF OldInstanceSilent, Made
<1> QED
  BY <1>2, Invariance, PTL

\* Between operations two servers reach each other both ways or not at all, and with the
\* raft tester exactly when cfg.connected says so of both.
THEOREM ConnectivityHolds == Spec => []Connectivity
<1>1. IInv => Connectivity
  BY Zenon DEF IInv, Network, Linked, Connectivity
<1> QED
  BY <1>1, Invariance, PTL

----------------------------------------------------------------------------
(* The partition around a leader *)

\* The servers of p end up connected with each other.
LEMMA SeparateJoins ==
    ASSUME \A j \in Server : endnames[j] # 0, endnames \in [Server -> Nat],
           NEW n \in 0 .. N, NEW p \in [1 .. n -> Server], NEW q \in Parts, Range(p) \intersect Range(q) = {},
           NEW en \in Balanced
    PROVE  \A i, j \in Range(p) : End(i, j) \in Separate(en, p, q)
<1> DEFINE Joined(k) == {e \in Balanced : \A a \in 1 .. k : \A j \in Range(p) : End(p[a], j) \in e}
           G == [k \in 0 .. n |-> Joined(k)]
<1>1. /\ p \in Parts /\ Len(p) = n /\ n \in Nat /\ Range(p) \subseteq Server
      /\ \A k \in 1 .. n : p[k] \in Range(p)
  BY PartIs, Zenon
<1>2. G[0] = Joined(0) /\ G[n] = Joined(n) /\ \A k \in 1 .. n : G[k - 1] = Joined(k - 1) /\ G[k] = Joined(k)
  BY <1>1
<1> HIDE DEF G
<1>3. \A k \in 1 .. n : \A e \in G[k - 1] : SeparateOne(e, p[k], p, q) \in G[k]
  <2> SUFFICES ASSUME NEW k \in 1 .. n, NEW e \in G[k - 1]
               PROVE  SeparateOne(e, p[k], p, q) \in G[k]
    BY Zenon
  <2>0. e \in Joined(k - 1) /\ G[k] = Joined(k)
    BY <1>2, Zenon
  <2>1. e \in Balanced /\ (\A a \in 1 .. k - 1 : \A j \in Range(p) : End(p[a], j) \in e) /\ p[k] \in Server
    BY <1>1, <2>0, Zenon
  <2>2. SeparateOne(e, p[k], p, q) \in Balanced
    BY <1>1, <2>1, BalancedOne
  <2>3. ASSUME NEW a \in 1 .. k, NEW j \in Range(p)
        PROVE  End(p[a], j) \in SeparateOne(e, p[k], p, q)
    <3>1. a \in 1 .. n /\ (a # k => a \in 1 .. k - 1)
      BY <1>1
    <3>2. a # k => End(p[a], j) \in e
      BY <2>1, <3>1, Zenon
    <3>3. p[a] \in Range(p) /\ p[a] \notin Range(q) /\ j \notin Range(q)
      BY <1>1, <3>1, Zenon
    <3>4. End(p[a], j) \in SeparateOne(e, p[k], p, q)
                <=> \/ p[a] = p[k] /\ j \in Range(p)
                    \/ j = p[k] /\ p[a] \in Range(p)
                    \/ End(p[a], j) \in e /\ ~(p[a] = p[k] /\ j \in Range(q)) /\ ~(j = p[k] /\ p[a] \in Range(q))
      BY <1>1, <2>1, SeparatedEnds
    <3> QED
      BY <3>2, <3>3, <3>4, Zenon
  <2>4. SeparateOne(e, p[k], p, q) \in Joined(k)
    BY <2>2, <2>3, Zenon
  <2> QED
    BY <2>0, <2>4, Zenon
<1>4. en \in G[0]
  <2>1. 1 .. 0 = {}
    OBVIOUS
  <2> QED
    BY <1>2, <2>1, Zenon
<1>5. Separate(en, p, q) \in Joined(n)
  <2> HIDE DEF Joined
  <2>1. Separate(en, p, q) \in G[n]
    BY <1>1, <1>3, <1>4, SeparateIn
  <2> QED
    BY <1>2, <2>1, Zenon
<1>6. \A i \in Range(p) : \E a \in 1 .. n : i = p[a]
  <2>1. DOMAIN p = 1 .. n
    BY Zenon
  <2> QED
    BY <2>1, Zenon DEF Range
<1> QED
  BY <1>5, <1>6, Zenon

\* The servers of q stay connected with each other, and the last of p is cut off from them.
LEMMA SeparateSpares ==
    ASSUME \A j \in Server : endnames[j] # 0, endnames \in [Server -> Nat],
           NEW n \in 1 .. N, NEW p \in [1 .. n -> Server], NEW q \in Parts, Range(p) \intersect Range(q) = {},
           NEW en \in Balanced, \A i, j \in Range(q) : End(i, j) \in en
    PROVE  /\ \A i, j \in Range(q) : End(i, j) \in Separate(en, p, q)
           /\ \A j \in Range(q) : End(p[n], j) \notin Separate(en, p, q)
<1> DEFINE Spared(k) == {e \in Balanced : /\ \A i, j \in Range(q) : End(i, j) \in e
                                          /\ k # 0 => \A j \in Range(q) : End(p[k], j) \notin e}
           G == [k \in 0 .. n |-> Spared(k)]
<1>1. /\ p \in Parts /\ Len(p) = n /\ n \in Nat /\ n # 0 /\ Range(p) \subseteq Server
      /\ \A k \in 1 .. n : p[k] \in Range(p)
  <2>1. n \in 0 .. N /\ n # 0
    OBVIOUS
  <2> QED
    BY <2>1, PartIs, Zenon
<1>2. G[0] = Spared(0) /\ G[n] = Spared(n) /\ \A k \in 1 .. n : G[k - 1] = Spared(k - 1) /\ G[k] = Spared(k)
  BY <1>1
<1> HIDE DEF G
<1>3. \A k \in 1 .. n : \A e \in G[k - 1] : SeparateOne(e, p[k], p, q) \in G[k]
  <2> SUFFICES ASSUME NEW k \in 1 .. n, NEW e \in G[k - 1]
               PROVE  SeparateOne(e, p[k], p, q) \in G[k]
    BY Zenon
  <2>0. e \in Spared(k - 1) /\ G[k] = Spared(k)
    BY <1>2, Zenon
  <2>1. e \in Balanced /\ (\A i, j \in Range(q) : End(i, j) \in e) /\ p[k] \in Server
    BY <1>1, <2>0, Zenon
  <2>2. SeparateOne(e, p[k], p, q) \in Balanced
    BY <1>1, <2>1, BalancedOne
  <2>3. p[k] \in Range(p) /\ p[k] \notin Range(q)
    BY <1>1, Zenon
  <2>4. ASSUME NEW i \in Range(q), NEW j \in Range(q)
        PROVE  End(i, j) \in SeparateOne(e, p[k], p, q) /\ End(p[k], j) \notin SeparateOne(e, p[k], p, q)
    <3>1. End(i, j) \in e /\ i # p[k] /\ j # p[k] /\ j \notin Range(p)
      BY <2>1, <2>3, Zenon
    <3>2. /\ End(i, j) \in SeparateOne(e, p[k], p, q)
                <=> \/ i = p[k] /\ j \in Range(p)
                    \/ j = p[k] /\ i \in Range(p)
                    \/ End(i, j) \in e /\ ~(i = p[k] /\ j \in Range(q)) /\ ~(j = p[k] /\ i \in Range(q))
          /\ End(p[k], j) \in SeparateOne(e, p[k], p, q)
                <=> \/ p[k] = p[k] /\ j \in Range(p)
                    \/ j = p[k] /\ p[k] \in Range(p)
                    \/ End(p[k], j) \in e /\ ~(p[k] = p[k] /\ j \in Range(q)) /\ ~(j = p[k] /\ p[k] \in Range(q))
      BY <1>1, <2>1, SeparatedEnds
    <3> QED
      BY <3>1, <3>2, Zenon
  <2>5. SeparateOne(e, p[k], p, q) \in Spared(k)
    BY <2>2, <2>4, Zenon
  <2> QED
    BY <2>0, <2>5, Zenon
<1>4. en \in G[0]
  BY <1>2, Zenon
<1>5. Separate(en, p, q) \in Spared(n)
  <2> HIDE DEF Spared
  <2>1. Separate(en, p, q) \in G[n]
    BY <1>1, <1>3, <1>4, SeparateIn
  <2> QED
    BY <1>2, <2>1, Zenon
<1> QED
  BY <1>1, <1>5, Zenon

\* With an odd number of servers make_partition lists every server once: the leader
\* is the last of the smaller part.  (With an even number a zero is left over, and
\* server 0 may be in both parts.)
LEMMA OddPartition ==
    ASSUME N % 2 = 1, N > 1, NEW l \in Server, NEW h, h = N \div 2
    PROVE  LET p1 == make_partition(N, l)[1]
               p2 == make_partition(N, l)[2]
           IN  /\ h \in 1 .. N /\ N = 2 * h + 1 /\ p2[h] = l
               /\ Range(p1) \intersect Range(p2) = {}
               /\ \A a, b \in 1 .. h + 1 : p1[a] = p1[b] => a = b
<1> DEFINE p1 == make_partition(N, l)[1]
           p2 == make_partition(N, l)[2]
           other(k) == IF k - 1 < l THEN k - 1 ELSE k
           at(k) == IF k < N THEN other(k) ELSE 0
<1>1. h \in Nat /\ N = 2 * h + 1 /\ h >= 1 /\ h \in 1 .. N
  BY SizeAssumption
<1>2. l \in Int
  BY SizeAssumption DEF Server
<1>3. /\ p1 = [k \in 1 .. h + 1 |-> at(k)]
      /\ p2 = [k \in 1 .. h |-> IF k = h THEN l ELSE at(h + 1 + k)]
  BY DEF make_partition
<1> HIDE DEF p1, p2
<1>4. p2[h] = l
  BY <1>1, <1>3
<1>5. \A a, b \in 1 .. N - 1 : at(a) = at(b) => a = b
  BY <1>1, <1>2
<1>6. \A a \in 1 .. N - 1 : at(a) # l
  BY <1>1, <1>2
<1> HIDE DEF at
<1>7. \A a \in 1 .. h + 1 : p1[a] = at(a) /\ a \in 1 .. N - 1
  BY <1>1, <1>3
<1>8. \A a, b \in 1 .. h + 1 : p1[a] = p1[b] => a = b
  BY <1>5, <1>7
<1>9. \A a \in 1 .. h + 1, b \in 1 .. h : p1[a] # p2[b]
  <2> SUFFICES ASSUME NEW a \in 1 .. h + 1, NEW b \in 1 .. h
               PROVE  p1[a] # p2[b]
    BY Zenon
  <2>1. CASE b = h
    BY <1>4, <1>6, <1>7, <2>1
  <2>2. CASE b # h
    <3>1. p2[b] = at(h + 1 + b) /\ h + 1 + b \in 1 .. N - 1 /\ h + 1 + b # a
      BY <1>1, <1>3, <2>2
    <3> QED
      BY <1>5, <1>7, <3>1
  <2> QED
    BY <2>1, <2>2
<1>10. DOMAIN p1 = 1 .. h + 1 /\ DOMAIN p2 = 1 .. h
  BY <1>3, Zenon
<1>11. Range(p1) \intersect Range(p2) = {}
  BY <1>9, <1>10, Zenon DEF Range
<1> QED
  BY <1>1, <1>4, <1>8, <1>11 DEF p1, p2

\* A part without repetitions has as many servers as places.
LEMMA PartSize ==
    ASSUME NEW n \in Nat, NEW p \in [1 .. n -> Server], \A a, b \in 1 .. n : p[a] = p[b] => a = b
    PROVE  Cardinality(Range(p)) = n
<1>1. IsFiniteSet(1 .. n) /\ Cardinality(1 .. n) = n
  <2>1. IsFiniteSet(1 .. n) /\ Cardinality(1 .. n) = IF 1 > n THEN 0 ELSE n - 1 + 1
    <3>1. 1 \in Int /\ n \in Int
      OBVIOUS
    <3> QED
      BY <3>1, FS_Interval
  <2> QED
    BY <2>1
<1>2. DOMAIN p = 1 .. n
  BY Zenon
<1>3. p \in [1 .. n -> Range(p)] /\ \A t \in Range(p) : \E a \in 1 .. n : p[a] = t
  BY <1>2, Zenon DEF Range
<1>4. p \in Surjection(1 .. n, Range(p))
  BY <1>3, Zenon DEF Surjection
<1>5. p \in Injection(1 .. n, Range(p))
  BY <1>2, <1>3, Zenon DEF Injection, IsInjective
<1>6. Cardinality(Range(p)) = Cardinality(1 .. n)
  BY <1>1, <1>4, <1>5, FS_Surjection
<1> QED
  BY <1>1, <1>6, Zenon

LEMMA CutLeader ==
    ASSUME IInv, N % 2 = 1, PartitionLeader
    PROVE  Cut'
<1>1. PICK l \in Server : enabled' = partition(make_partition(N, l)[1], make_partition(N, l)[2]) /\ cut' = {l}
  BY Zenon DEF PartitionLeader
<1>2. /\ lab = "kv" /\ ready /\ Idle /\ (\A i \in Server : servers[i] # 0) /\ N > 1
      /\ UNCHANGED <<lab, ready, todo, servers, endnames>>
  BY Zenon DEF PartitionLeader, AllUp, tester, instances
<1>3. At = "idle" /\ At' = "idle"
  BY <1>2, IdleAt, Zenon DEF At
<1>4. /\ enabled \in Balanced /\ endnames \in [Server -> Nat] /\ \A j \in Server : endnames[j] # 0
  BY <1>2, <1>3, EnabledBalanced, Zenon
<1> DEFINE p1 == make_partition(N, l)[1]
           p2 == make_partition(N, l)[2]
<1>5. PICK h : h = N \div 2
  BY Zenon
<1>6. /\ h \in 1 .. N /\ N = 2 * h + 1 /\ p2[h] = l
      /\ Range(p1) \intersect Range(p2) = {}
      /\ \A a, b \in 1 .. h + 1 : p1[a] = p1[b] => a = b
  BY <1>2, <1>5, OddPartition
<1>7. h + 1 \in 0 .. N /\ p1 \in [1 .. h + 1 -> Server] /\ h \in 0 .. N /\ p2 \in [1 .. h -> Server]
  BY <1>2, <1>5, MakePartitionIs, Zenon
<1>8. enabled' = Separate(Separate(enabled, p1, p2), p2, p1)
  BY <1>1, Zenon DEF partition
<1> HIDE DEF p1, p2
<1>9. p1 \in Parts /\ p2 \in Parts /\ Range(p1) \subseteq Server
  BY <1>7, PartIs, Zenon
<1>10. Separate(enabled, p1, p2) \in Balanced /\ \A i, j \in Range(p1) : End(i, j) \in Separate(enabled, p1, p2)
  <2>1. Separate(enabled, p1, p2) \in Balanced
    BY <1>4, <1>7, <1>9, BalancedSeparate, Zenon
  <2>2. \A i, j \in Range(p1) : End(i, j) \in Separate(enabled, p1, p2)
    BY <1>4, <1>6, <1>7, <1>9, SeparateJoins
  <2> QED
    BY <2>1, <2>2, Zenon
<1>11. /\ \A i, j \in Range(p1) : End(i, j) \in enabled'
       /\ \A j \in Range(p1) : End(l, j) \notin enabled'
  <2>1. Range(p2) \intersect Range(p1) = {}
    BY <1>6, Zenon
  <2>2. /\ \A i, j \in Range(p1) : End(i, j) \in Separate(Separate(enabled, p1, p2), p2, p1)
        /\ \A j \in Range(p1) : End(p2[h], j) \notin Separate(Separate(enabled, p1, p2), p2, p1)
    BY <1>4, <1>6, <1>7, <1>9, <1>10, <2>1, SeparateSpares, Zenon
  <2> QED
    BY <1>6, <1>8, <2>2, Zenon
<1>12. Cardinality(Range(p1)) = h + 1
  <2>1. h + 1 \in Nat
    BY <1>6
  <2> QED
    BY <1>6, <1>7, <2>1, PartSize, Zenon
<1>13. \A i, j : End(i, j)' = End(i, j)
  BY <1>2, Zenon DEF End
<1>14. PICK reached : reached = {j \in Server : End(l, j) \in enabled'}
  BY Zenon
<1>15. 2 * Cardinality(reached) <= N
  <2>1. reached \in SUBSET (Server \ Range(p1))
    BY <1>11, <1>14, Zenon
  <2>2. Server \intersect Range(p1) = Range(p1)
    BY <1>9, Zenon
  <2>3. IsFiniteSet(Server \ Range(p1)) /\ Cardinality(Server \ Range(p1)) = Cardinality(Server) - Cardinality(Server \intersect Range(p1))
    BY ServerSize, FS_Difference, Zenon
  <2>4. Cardinality(Server \ Range(p1)) = h
    <3>1. Cardinality(Server \ Range(p1)) = N - (h + 1)
      BY <1>12, <2>2, <2>3, ServerSize, Zenon
    <3>2. N - (h + 1) = h
      BY <1>6
    <3> QED
      BY <3>1, <3>2, Zenon
  <2>5. IsFiniteSet(reached) /\ Cardinality(reached) <= Cardinality(Server \ Range(p1))
    BY <2>1, <2>3, FS_Subset
  <2>6. Cardinality(reached) \in Nat
    BY <2>5, FS_CardinalityType
  <2> QED
    BY <1>6, <2>4, <2>5, <2>6
<1>16. 2 * Cardinality(Range(p1)) > N
  BY <1>6, <1>12
<1>17. InMinority(l)'
  <2>1. reached = {j \in Server : End(l, j)' \in enabled'}
    BY <1>13, <1>14, Zenon
  <2>2. 2 * Cardinality({j \in Server : End(l, j)' \in enabled'}) <= N
    BY <1>15, <2>1, Zenon
  <2>3. \A i, j \in Range(p1) : End(i, j)' \in enabled'
    BY <1>11, <1>13, Zenon
  <2>4. Range(p1) \in SUBSET Server
    BY <1>9, Zenon
  <2>5. PICK majority \in SUBSET Server :
            2 * Cardinality(majority) > N /\ \A i, j \in majority : End(i, j)' \in enabled'
    BY <1>16, <2>3, <2>4, Zenon
  <2> QED
    BY <2>2, <2>5, Zenon DEF InMinority
<1>18. At' \in {"idle", "disconnect"}
  BY <1>3
<1>19. \A k \in cut' : InMinority(k)'
  <2>1. \A k \in cut' : k = l
    BY <1>1, Zenon
  <2> QED
    BY <1>17, <2>1, Zenon
<1> QED
  BY <1>2, <1>18, <1>19, Zenon DEF Cut

LEMMA CutKept ==
    ASSUME Cut, cut # {} => UNCHANGED <<cut, lab, ready, servers, endnames, enabled>> /\ At' \in {"idle", "disconnect"},
           cut = {} => cut' = {}
    PROVE  Cut'
<1> SUFFICES ASSUME cut # {}
             PROVE  Cut'
  BY Zenon DEF Cut
<1>1. UNCHANGED <<cut, lab, ready, servers, endnames, enabled>> /\ At' \in {"idle", "disconnect"}
  BY Zenon
<1>2. \A i, j : End(i, j)' = End(i, j)
  BY <1>1, Zenon DEF End
<1>3. ASSUME NEW l, InMinority(l)
      PROVE  InMinority(l)'
  BY <1>1, <1>2, <1>3, Zenon DEF InMinority
<1> QED
  BY <1>1, <1>3, Zenon DEF Cut

LEMMA CutStep ==
    ASSUME IInv, Cut, N % 2 = 1, [Next]_vars
    PROVE  Cut'
<1>1. CASE PartitionLeader
  BY <1>1, CutLeader, Zenon
<1>2. CASE DisconnectStep \/ PartitionAtRandom \/ ConnectAllAgain
  <2>1. cut' = {}
    BY <1>2, Zenon DEF DisconnectStep, PartitionAtRandom, ConnectAllAgain
  <2> QED
    BY <2>1, Zenon DEF Cut
<1>3. CASE StartNext \/ ShutdownOne \/ StartOne
  <2>1. /\ who' \in Server /\ At' \in {"disconnect", "ends"} /\ (At' = "ends" => servers[who'] = 0)
        /\ UNCHANGED <<cut, lab, ready, servers, endnames, enabled>>
    BY <1>3, RunIs, Zenon DEF net, instances
  <2>2. cut # {} => At' = "disconnect"
    BY <2>1 DEF Cut
  <2>3. cut # {} => At' \in {"idle", "disconnect"}
    BY <2>2
  <2> QED
    BY <2>1, <2>3, CutKept, Zenon
<1>4. CASE DeleteServer \/ CopySaved \/ Kill \/ ReadRaftState \/ RebuildPersister
            \/ MakeEnds \/ NewPersister \/ Make \/ AddServer
  <2>1. PICK w \in {"delete", "copy", "kill", "readState", "rebuild", "ends", "persister", "make", "add"} : Doing(w)
    BY <1>4, Zenon DEF DeleteServer, CopySaved, Kill, ReadRaftState, RebuildPersister, MakeEnds, NewPersister, Make, AddServer
  <2>2. At = w
    BY <2>1, DoingAt, Zenon DEF IInv
  <2>3. cut = {}
    BY <2>1, <2>2 DEF Cut
  <2>4. cut' = cut
    BY <1>4, Zenon DEF DeleteServer, CopySaved, Kill, ReadRaftState, RebuildPersister, MakeEnds, NewPersister,
                       Make, AddServer, net
  <2> QED
    BY <2>3, <2>4, Zenon DEF Cut
<1>5. CASE FinishRaft \/ FinishKV \/ FinishShardKV \/ ConnectRaft \/ DisconnectOne
  <2>1. cut' = cut /\ (lab = "raft" \/ ~ready)
    BY <1>5, Zenon DEF FinishRaft, FinishKV, FinishShardKV, ConnectRaft, DisconnectOne, net
  <2>2. cut = {}
    BY <2>1 DEF Cut
  <2> QED
    BY <2>1, <2>2, Zenon DEF Cut
<1>6. CASE \/ ConnectClient \/ DisconnectClient
           \/ \E o \in Op : \E i \in Server : Deliver(o, i)
           \/ \E o \in Op : SaveRaftState(o)
           \/ \E o \in Op : Reply(o)
           \/ \E i \in Server : \E g \in 1 .. MaxRestarts + 1 : SaveStateAndSnapshot(i, g)
           \/ UNCHANGED vars
  <2>1. UNCHANGED <<cut, lab, ready, todo, servers, endnames, enabled>>
    <3>1. CASE ConnectClient \/ DisconnectClient
      BY <3>1, Zenon DEF ConnectClient, DisconnectClient, tester, instances
    <3>2. CASE \E o \in Op : \E i \in Server : Deliver(o, i)
      BY <3>2, Zenon DEF Deliver, tester, net, instances
    <3>3. CASE (\E o \in Op : SaveRaftState(o)) \/ (\E i \in Server : \E g \in 1 .. MaxRestarts + 1 : SaveStateAndSnapshot(i, g))
      BY <3>3, Zenon DEF SaveRaftState, SaveStateAndSnapshot, tester, net
    <3>4. CASE \E o \in Op : Reply(o)
      BY <3>4, Zenon DEF Reply, tester, net, instances
    <3>5. CASE UNCHANGED vars
      BY <3>5, Zenon DEF vars, tester, net, instances
    <3> QED
      BY <1>6, <3>1, <3>2, <3>3, <3>4, <3>5, Zenon
  <2>2. At' = At
    BY <2>1, Zenon DEF At
  <2>3. cut # {} => At' \in {"idle", "disconnect"}
    BY <2>2, Zenon DEF Cut
  <2> QED
    BY <2>1, <2>3, CutKept, Zenon
<1>7. CASE \E i \in Server : \E g \in 1 .. MaxRestarts + 1 : MakeEnd(i, g)
  <2>1. lab = "shardkv" /\ cut' = cut
    BY <1>7, Zenon DEF MakeEnd
  <2>2. cut = {}
    BY <2>1 DEF Cut
  <2> QED
    BY <2>1, <2>2, Zenon DEF Cut
<1> QED
  BY <1>1, <1>2, <1>3, <1>4, <1>5, <1>6, <1>7, Zenon DEF Next

\* With an odd number of servers, as in every test, make_partition and partition put
\* the leader in a minority, whatever the partitions were before: it reaches less than
\* half of the servers, and a majority is connected with each other.
THEOREM LeaderInMinorityHolds ==
    ASSUME N % 2 = 1
    PROVE  Spec => []LeaderInMinority
<1>1. Init => Cut
  BY Zenon DEF Init, Cut
<1>2. IInv /\ Cut /\ [Next]_vars => Cut'
  BY CutStep, Zenon
<1>3. Cut => LeaderInMinority
  BY Zenon DEF Cut, InMinority, LeaderInMinority
<1> QED
  BY <1>1, <1>2, <1>3, Invariance, PTL DEF Spec
=============================================================================
