-------------------------------- MODULE Raft --------------------------------
(***************************************************************************)
(* The Raft peer of src/raft/raft.go: elections, heartbeats carrying log   *)
(* entries, the commit rule and the apply loop, run by any number of peers *)
(* over a network that delays, reorders and loses calls.                   *)
(*                                                                         *)
(* The granularity is that of the lock rf.mu: one action per critical      *)
(* section, plus one per goroutine step that runs without the lock.  A     *)
(* goroutine that waits for the lock or for a call to return is an element *)
(* of one of the sets rvReq, rvRep, hbTask, aeReq and aeRep.               *)
(*                                                                         *)
(* The Go log has a dummy entry at index 0; here log[s][i] is the entry at *)
(* Go index i >= 1, so len(rf.log) is Len(log[s]) + 1.                      *)
(***************************************************************************)
EXTENDS Integers, Sequences, FiniteSets

CONSTANTS
    Server,         \* the peers; "me" is an element
    Value,          \* commands a client may Start
    Nil,            \* votedFor = -1
    MaxTerm,        \* bound on currentTerm
    MaxElections,   \* bound on the elections of all servers together
    MaxLog,         \* bound on the entries Start appends to one log
    MaxRounds,      \* bound on the heartbeat rounds of all servers together
    MaxPending,     \* bound on spawned, not yet running AttemptEletion goroutines
    MaxRestarts,    \* bound on the crashes of one server
    Lossy           \* whether calls may fail

ASSUME ServerAssumption == IsFiniteSet(Server) /\ Server # {}
ASSUME NilAssumption == Nil \notin Server
ASSUME BoundsAssumption ==
    /\ MaxTerm \in Nat /\ MaxElections \in Nat /\ MaxLog \in Nat
    /\ MaxRounds \in Nat /\ MaxPending \in Nat /\ MaxRestarts \in Nat
    /\ Lossy \in BOOLEAN

LEADER    == "leader"
FOLLOWER  == "follower"
CANDIDATE == "candidate"

VARIABLES
    currentTerm,    \* rf.currentTerm
    votedFor,       \* rf.votedFor
    state,          \* rf.state
    log,            \* rf.log[1:]
    termToIndex,    \* rf.termToIndex, 0 for a missing key
    commitIndex,    \* rf.commitIndex
    nextIndex,      \* rf.nextIndex (matchIndex is written and never read)
    lastApplied,    \* rf.lastApplied
    applying,       \* apply() is between lastApplied++ and the send on applyCh
    applied,        \* what the service received on applyCh
    panicked,       \* the process died of an index out of range
    pending,        \* AttemptEletion goroutines spawned by the election timer
    loops,          \* HeartBeat goroutines
    votes,          \* "votes" of the election closure of each term
    done,           \* terms whose election closure has done = true
    round,          \* number of heartbeat rounds started
    acks,           \* "count" of each heartbeat round
    rvReq, rvRep,   \* RequestVote calls: requests and replies in flight
    hbTask,         \* heartbeat goroutines that have not built their args yet
    aeReq, aeRep,   \* AppendEntries calls: requests and replies in flight
    gen,            \* incarnation of the server, bumped by a crash
    cast            \* history: every vote ever cast, with the caster's state

termVars  == <<currentTerm, votedFor, state>>
logVars   == <<log, termToIndex, commitIndex>>
applyVars == <<lastApplied, applying, applied>>
elecVars  == <<votes, done>>
hbVars    == <<nextIndex, loops, round, acks>>
rvVars    == <<rvReq, rvRep>>
aeVars    == <<hbTask, aeReq, aeRep>>
vars == <<termVars, logVars, applyVars, elecVars, hbVars, rvVars, aeVars,
          panicked, pending, gen, cast>>

----------------------------------------------------------------------------
Term  == 0 .. MaxTerm
Entry == [term : Term, cmd : Value]
TermMap == [Term -> Nat]

\* len(rf.peers)/2, which a count of votes or acknowledgements must exceed.
Half == Cardinality(Server) \div 2

\* Go's rf.log[i].Term, the dummy entry included.
TermAt(l, i) == IF i = 0 THEN 0 ELSE l[i].term
LastTerm(l)  == TermAt(l, Len(l))

RVArgs == [src : Server, dst : Server, gen : Nat, term : Term,
           lastLogIndex : Nat, lastLogTerm : Term]
RVReply == [src : Server, dst : Server, gen : Nat, term : Term,
            replyTerm : Term, granted : BOOLEAN]
HBTask == [src : Server, dst : Server, gen : Nat, round : Nat]
AEArgs == [src : Server, dst : Server, gen : Nat, round : Nat, term : Term,
           prevLogIndex : Nat, prevLogTerm : Term, entries : Seq(Entry),
           leaderCommit : Nat, termToIndex : TermMap]
AEReply == [src : Server, dst : Server, gen : Nat, round : Nat,
            prevLogTerm : Term, replyTerm : Term, success : BOOLEAN]
Vote == [voter : Server, cand : Server, term : Term, gen : Nat,
         as : {LEADER, FOLLOWER, CANDIDATE}]

Alive(s) == ~panicked[s]

\* A goroutine of an earlier incarnation is cut off from the network.
Current(m) == m.gen = gen[m.src]

\* The fields Make gives a server, at boot and again after a crash.
Init ==
    /\ currentTerm = [s \in Server |-> 0]
    /\ votedFor    = [s \in Server |-> Nil]
    /\ state       = [s \in Server |-> FOLLOWER]
    /\ log         = [s \in Server |-> <<>>]
    /\ termToIndex = [s \in Server |-> [t \in Term |-> 0]]
    /\ commitIndex = [s \in Server |-> 0]
    /\ nextIndex   = [s \in Server |-> [p \in Server |-> 0]]
    /\ lastApplied = [s \in Server |-> 0]
    /\ applying    = [s \in Server |-> FALSE]
    /\ applied     = [s \in Server |-> <<>>]
    /\ panicked    = [s \in Server |-> FALSE]
    /\ pending     = [s \in Server |-> 0]
    /\ loops       = [s \in Server |-> 0]
    /\ votes       = [s \in Server |-> [t \in Term |-> 0]]
    /\ done        = [s \in Server |-> {}]
    /\ round       = [s \in Server |-> 0]
    /\ acks        = [s \in Server |-> [r \in 1 .. MaxRounds |-> 0]]
    /\ rvReq = {} /\ rvRep = {}
    /\ hbTask = {} /\ aeReq = {} /\ aeRep = {}
    /\ gen  = [s \in Server |-> 0]
    /\ cast = {}

----------------------------------------------------------------------------
(* State conversions.  Resetting the election timer is not modelled: a     *)
(* server that is not LEADER always has a timer armed or an AttemptEletion *)
(* goroutine on its way, so its timer may fire at any moment.              *)

conevrtToCandidate(s) ==
    /\ state'       = [state EXCEPT ![s] = CANDIDATE]
    /\ currentTerm' = [currentTerm EXCEPT ![s] = @ + 1]
    /\ votedFor'    = [votedFor EXCEPT ![s] = s]

\* votedFor is cleared even when the term stays the same.
conevrtToFollower(s, term) ==
    /\ state'       = [state EXCEPT ![s] = FOLLOWER]
    /\ currentTerm' = [currentTerm EXCEPT ![s] = term]
    /\ votedFor'    = [votedFor EXCEPT ![s] = Nil]

conevrtToLeaderKeepsNext(s) ==
    /\ state' = [state EXCEPT ![s] = LEADER]
    /\ loops' = [loops EXCEPT ![s] = @ + 1]
    /\ UNCHANGED <<currentTerm, votedFor, nextIndex>>

conevrtToLeader(s) ==
    /\ state'     = [state EXCEPT ![s] = LEADER]
    /\ nextIndex' = [nextIndex EXCEPT ![s] =
                        [p \in Server |-> Len(log[s]) + 1]]
    /\ loops'     = [loops EXCEPT ![s] = @ + 1]
    /\ UNCHANGED <<currentTerm, votedFor>>

----------------------------------------------------------------------------
(* Elections *)

\* Elections held or about to be held, and heartbeat rounds started; these only
\* serve the bounds MaxElections and MaxRounds.
Elections ==
    Cardinality({c \in cast : c.voter = c.cand}) +
    Cardinality({p \in Server \X (1 .. MaxPending) : p[2] <= pending[p[1]]})
Rounds == Cardinality({p \in Server \X (1 .. MaxRounds) : acks[p[1]][p[2]] > 0})

\* The election timer fires: a non-leader spawns an AttemptEletion goroutine.
ElectionTimeout(s) ==
    /\ Alive(s)
    /\ state[s] # LEADER
    /\ pending[s] < MaxPending
    /\ currentTerm[s] + pending[s] < MaxTerm
    /\ Elections < MaxElections
    /\ pending' = [pending EXCEPT ![s] = @ + 1]
    /\ UNCHANGED <<termVars, logVars, applyVars, elecVars, hbVars, rvVars,
                   aeVars, panicked, gen, cast>>

\* The goroutine runs, whatever the state of the server has become by then.
AttemptEletion(s) ==
    /\ Alive(s)
    /\ pending[s] > 0
    /\ currentTerm[s] < MaxTerm
    /\ LET t == currentTerm[s] + 1 IN
        /\ conevrtToCandidate(s)
        /\ votes' = [votes EXCEPT ![s][t] = 1]
        /\ rvReq' = rvReq \union
            {[src |-> s, dst |-> p, gen |-> gen[s], term |-> t,
              lastLogIndex |-> Len(log[s]), lastLogTerm |-> LastTerm(log[s])]
              : p \in Server \ {s}}
        /\ cast' = cast \union {[voter |-> s, cand |-> s, term |-> t,
                                 gen |-> gen[s], as |-> CANDIDATE]}
    /\ pending' = [pending EXCEPT ![s] = @ - 1]
    /\ UNCHANGED <<logVars, applyVars, done, hbVars, rvRep, aeVars,
                   panicked, gen>>

ReplyVote(m, term, granted) ==
    /\ rvReq' = rvReq \ {m}
    /\ rvRep' = IF Current(m)
                THEN rvRep \union
                     {[src |-> m.src, dst |-> m.dst, gen |-> m.gen,
                       term |-> m.term, replyTerm |-> term,
                       granted |-> granted]}
                ELSE rvRep

UpToDate(m, l) ==
    \/ m.lastLogTerm > LastTerm(l)
    \/ m.lastLogTerm = LastTerm(l) /\ m.lastLogIndex >= Len(l)

HeldVoteForgotten(s, term) == Nil

\* The vote a server holds once it has adopted the term of the request.
HeldVote(s, term) == IF currentTerm[s] < term THEN Nil ELSE votedFor[s]

\* A request of a past term is refused.
RejectStaleCandidate(m) ==
    /\ currentTerm[m.dst] > m.term
    /\ ReplyVote(m, currentTerm[m.dst], FALSE)
    /\ UNCHANGED <<termVars, cast>>

\* This term's vote went to another candidate.
RejectVoted(m) ==
    /\ currentTerm[m.dst] <= m.term
    /\ HeldVote(m.dst, m.term) \notin {Nil, m.src}
    /\ ReplyVote(m, m.term, FALSE)
    /\ UNCHANGED <<termVars, cast>>

\* The candidate's log is behind: the term is adopted, the reply's Term is
\* left at its zero value.
RejectOutdatedLog(m) ==
    LET s == m.dst IN
    /\ currentTerm[s] <= m.term
    /\ HeldVote(s, m.term) \in {Nil, m.src}
    /\ ~UpToDate(m, log[s])
    /\ currentTerm' = [currentTerm EXCEPT ![s] = m.term]
    /\ votedFor'    = [votedFor EXCEPT ![s] = HeldVote(s, m.term)]
    /\ ReplyVote(m, 0, FALSE)
    /\ UNCHANGED <<state, cast>>

\* The vote is granted; a LEADER or CANDIDATE keeps its state in the new term.
GrantVote(m) ==
    LET s == m.dst IN
    /\ currentTerm[s] <= m.term
    /\ HeldVote(s, m.term) \in {Nil, m.src}
    /\ UpToDate(m, log[s])
    /\ currentTerm' = [currentTerm EXCEPT ![s] = m.term]
    /\ votedFor'    = [votedFor EXCEPT ![s] = m.src]
    /\ ReplyVote(m, m.term, TRUE)
    /\ cast' = cast \union {[voter |-> s, cand |-> m.src, term |-> m.term,
                             gen |-> gen[s], as |-> state[s]]}
    /\ UNCHANGED state

\* The RequestVote handler.
RequestVote(m) ==
    /\ Alive(m.dst)
    /\ \/ RejectStaleCandidate(m)
       \/ RejectVoted(m)
       \/ RejectOutdatedLog(m)
       \/ GrantVote(m)
    /\ UNCHANGED <<logVars, applyVars, elecVars, hbVars, aeVars,
                   panicked, pending, gen>>

WinsAnyTerm(s, term, count) ==
    /\ term \notin done[s]
    /\ count > Half
    /\ state[s] = CANDIDATE

\* The test that turns the vote being counted into a leadership.
Wins(s, term, count) ==
    /\ term \notin done[s]
    /\ count > Half
    /\ currentTerm[s] = term
    /\ state[s] = CANDIDATE

\* The rest of the vote goroutine, once the call has returned.
VoteReply(m) ==
    LET s == m.src
        count == votes[s][m.term] + 1 IN
    /\ Alive(s)
    /\ rvRep' = rvRep \ {m}
    /\ \/ /\ m.replyTerm > currentTerm[s]
          /\ conevrtToFollower(s, m.replyTerm)
          /\ UNCHANGED <<elecVars, nextIndex, loops>>
       \/ /\ m.replyTerm <= currentTerm[s]
          /\ ~m.granted
          /\ UNCHANGED <<termVars, elecVars, nextIndex, loops>>
       \/ /\ m.replyTerm <= currentTerm[s]
          /\ m.granted
          /\ votes' = [votes EXCEPT ![s][m.term] = count]
          /\ \/ /\ Wins(s, m.term, count)
                /\ done' = [done EXCEPT ![s] = @ \union {currentTerm[s]}]
                /\ conevrtToLeader(s)
             \/ /\ ~Wins(s, m.term, count)
                /\ UNCHANGED <<termVars, done, nextIndex, loops>>
    /\ UNCHANGED <<logVars, applyVars, round, acks, rvReq, aeVars,
                   panicked, pending, gen, cast>>

----------------------------------------------------------------------------
(* Replication *)

\* A client hands a command to a server that believes it is the leader.
Start(s, v) ==
    /\ Alive(s)
    /\ state[s] = LEADER
    /\ Len(log[s]) < MaxLog
    /\ termToIndex' = IF currentTerm[s] # LastTerm(log[s])
                      THEN [termToIndex EXCEPT ![s][currentTerm[s]] =
                                Len(log[s]) + 1]
                      ELSE termToIndex
    /\ log' = [log EXCEPT ![s] =
                  Append(@, [term |-> currentTerm[s], cmd |-> v])]
    /\ UNCHANGED <<termVars, commitIndex, applyVars, elecVars, hbVars, rvVars,
                   aeVars, panicked, pending, gen, cast>>

\* One iteration of the HeartBeat loop: a leader starts a round with one
\* goroutine per peer, any other server leaves the loop.
HeartBeat(s) ==
    /\ Alive(s)
    /\ loops[s] > 0
    /\ \/ /\ state[s] # LEADER
          /\ loops' = [loops EXCEPT ![s] = @ - 1]
          /\ UNCHANGED <<round, acks, hbTask>>
       \/ /\ state[s] = LEADER
          /\ Rounds < MaxRounds
          /\ round' = [round EXCEPT ![s] = @ + 1]
          /\ acks'  = [acks EXCEPT ![s][round[s] + 1] = 1]
          /\ hbTask' = hbTask \union
               {[src |-> s, dst |-> p, gen |-> gen[s], round |-> round[s] + 1]
                  : p \in Server \ {s}}
          /\ UNCHANGED loops
    /\ UNCHANGED <<termVars, logVars, applyVars, elecVars, nextIndex, rvVars,
                   aeReq, aeRep, panicked, pending, gen, cast>>

\* rf.log[nextIndex-1] is out of range.
OutOfRange(s, p) == nextIndex[s][p] > Len(log[s]) + 1

PrevIndex(s, p) == nextIndex[s][p] - 1

\* The args a heartbeat goroutine builds: nextIndex, log, term and commit index
\* are read when it gets the lock, not when its round started.
HeartBeatArgs(h) ==
    LET s == h.src
        next == nextIndex[s][h.dst] IN
    [src |-> s, dst |-> h.dst, gen |-> h.gen, round |-> h.round,
     term |-> currentTerm[s],
     prevLogIndex |-> PrevIndex(s, h.dst),
     prevLogTerm |-> TermAt(log[s], next - 1),
     entries |-> SubSeq(log[s], next, Len(log[s])),
     leaderCommit |-> commitIndex[s],
     termToIndex |-> termToIndex[s]]

\* A heartbeat goroutine takes the lock and builds its args from the server's
\* fields as they are now; it does not look at the state again.
SendAppendEntries(h) ==
    LET s == h.src IN
    /\ Alive(s)
    /\ hbTask' = hbTask \ {h}
    /\ \/ /\ OutOfRange(s, h.dst)
          /\ panicked' = [panicked EXCEPT ![s] = TRUE]
          /\ UNCHANGED aeReq
       \/ /\ ~OutOfRange(s, h.dst)
          /\ aeReq' = aeReq \union {HeartBeatArgs(h)}
          /\ UNCHANGED panicked
    /\ UNCHANGED <<termVars, logVars, applyVars, elecVars, hbVars, rvVars,
                   aeRep, pending, gen, cast>>

ReplyAppend(m, term, success) ==
    /\ aeReq' = aeReq \ {m}
    /\ aeRep' = IF Current(m)
                THEN aeRep \union
                     {[src |-> m.src, dst |-> m.dst, gen |-> m.gen,
                       round |-> m.round, prevLogTerm |-> m.prevLogTerm,
                       replyTerm |-> term, success |-> success]}
                ELSE aeRep

\* A sender of a past term is refused.
RejectStaleLeader(m) ==
    /\ currentTerm[m.dst] > m.term
    /\ ReplyAppend(m, currentTerm[m.dst], FALSE)
    /\ UNCHANGED <<termVars, logVars>>

\* A CANDIDATE or LEADER steps down and reports success without looking at
\* its log.
StepDown(m) ==
    /\ state[m.dst] # FOLLOWER
    /\ currentTerm[m.dst] <= m.term
    /\ conevrtToFollower(m.dst, m.term)
    /\ ReplyAppend(m, m.term, TRUE)
    /\ UNCHANGED logVars

\* rf.log[index].Term exists and is the PrevLogTerm of the request.
Matches(m, l) ==
    /\ m.prevLogIndex <= Len(l)
    /\ TermAt(l, m.prevLogIndex) = m.prevLogTerm

AdoptTermForgotten(s, term) == UNCHANGED currentTerm

\* A FOLLOWER takes over the term of the request; votedFor stays.
AdoptTerm(s, term) == currentTerm' = [currentTerm EXCEPT ![s] = term]

\* A FOLLOWER without the previous entry adopts the term and reports failure.
RejectMismatch(m) ==
    LET s == m.dst IN
    /\ state[s] = FOLLOWER
    /\ currentTerm[s] <= m.term
    /\ ~Matches(m, log[s])
    /\ AdoptTerm(s, m.term)
    /\ ReplyAppend(m, m.term, FALSE)
    /\ UNCHANGED <<votedFor, state, logVars>>

NewLogNoCut(m, l) == l \o m.entries

\* The follower's log after the request: everything behind PrevLogIndex is
\* cut, then the entries are appended.
NewLog(m, l) == SubSeq(l, 1, m.prevLogIndex) \o m.entries

\* rf.commitIndex after the request.
NewCommit(m, commit, last) ==
    IF m.leaderCommit > commit
    THEN IF m.leaderCommit < last THEN m.leaderCommit ELSE last
    ELSE commit

AcceptEntries(m) ==
    LET s == m.dst
        l == NewLog(m, log[s]) IN
    /\ state[s] = FOLLOWER
    /\ currentTerm[s] <= m.term
    /\ Matches(m, log[s])
    /\ AdoptTerm(s, m.term)
    /\ log' = [log EXCEPT ![s] = l]
    /\ termToIndex' = [termToIndex EXCEPT ![s] = m.termToIndex]
    /\ commitIndex' = [commitIndex EXCEPT ![s] = NewCommit(m, @, Len(l))]
    /\ ReplyAppend(m, m.term, TRUE)
    /\ UNCHANGED <<votedFor, state>>

\* The AppendEntries handler.
AppendEntries(m) ==
    /\ Alive(m.dst)
    /\ \/ RejectStaleLeader(m)
       \/ StepDown(m)
       \/ RejectMismatch(m)
       \/ AcceptEntries(m)
    /\ UNCHANGED <<applyVars, elecVars, hbVars, rvVars, hbTask,
                   panicked, pending, gen, cast>>

\* nextIndex after a failed append: the first index of the latest term below
\* PrevLogTerm that termToIndex knows, or 1.
Backoff(tti, prevLogTerm) ==
    LET known == {i \in 1 .. prevLogTerm - 1 : tti[i] # 0} IN
    IF known = {} THEN 1
    ELSE tti[CHOOSE i \in known : \A j \in known : j <= i]

\* The rest of the heartbeat goroutine.  Neither state nor term is checked,
\* and the acknowledgement is taken for the log as it is now.
AppendReply(m) ==
    LET s == m.src
        count == acks[s][m.round] + 1 IN
    /\ Alive(s)
    /\ aeRep' = aeRep \ {m}
    /\ \/ /\ ~m.success
          /\ m.replyTerm > currentTerm[s]
          /\ conevrtToFollower(s, m.replyTerm)
          /\ UNCHANGED <<nextIndex, acks, commitIndex>>
       \/ /\ ~m.success
          /\ m.replyTerm <= currentTerm[s]
          /\ nextIndex' = [nextIndex EXCEPT ![s][m.dst] =
                              Backoff(termToIndex[s], m.prevLogTerm)]
          /\ UNCHANGED <<termVars, acks, commitIndex>>
       \/ /\ m.success
          /\ nextIndex' = [nextIndex EXCEPT ![s][m.dst] = Len(log[s]) + 1]
          /\ acks' = [acks EXCEPT ![s][m.round] = count]
          \* the round's "done" is set by the reply that reaches the majority
          /\ commitIndex' = IF count = Half + 1
                            THEN [commitIndex EXCEPT ![s] = Len(log[s])]
                            ELSE commitIndex
          /\ UNCHANGED termVars
    /\ UNCHANGED <<log, termToIndex, applyVars, elecVars, loops, round, rvVars,
                   hbTask, aeReq, panicked, pending, gen, cast>>

----------------------------------------------------------------------------
(* The apply loop, which takes no lock *)

ApplyAdvance(s) ==
    /\ Alive(s)
    /\ ~applying[s]
    /\ commitIndex[s] > lastApplied[s]
    /\ lastApplied' = [lastApplied EXCEPT ![s] = @ + 1]
    /\ applying' = [applying EXCEPT ![s] = TRUE]
    /\ UNCHANGED <<termVars, logVars, applied, elecVars, hbVars, rvVars, aeVars,
                   panicked, pending, gen, cast>>

\* rf.log[rf.lastApplied] is read and sent, or is out of range by now.
ApplySend(s) ==
    /\ Alive(s)
    /\ applying[s]
    /\ applying' = [applying EXCEPT ![s] = FALSE]
    /\ \/ /\ lastApplied[s] <= Len(log[s])
          /\ applied' = [applied EXCEPT ![s] =
                            Append(@, log[s][lastApplied[s]].cmd)]
          /\ UNCHANGED panicked
       \/ /\ lastApplied[s] > Len(log[s])
          /\ panicked' = [panicked EXCEPT ![s] = TRUE]
          /\ UNCHANGED applied
    /\ UNCHANGED <<termVars, logVars, lastApplied, elecVars, hbVars, rvVars,
                   aeVars, pending, gen, cast>>

----------------------------------------------------------------------------
(* The environment *)

\* A call returns false: the goroutine that made it returns without effect.
CallFails ==
    /\ Lossy
    /\ \/ /\ \E m \in rvReq : rvReq' = rvReq \ {m}
          /\ UNCHANGED <<rvRep, aeReq, aeRep>>
       \/ /\ \E m \in rvRep : rvRep' = rvRep \ {m}
          /\ UNCHANGED <<rvReq, aeReq, aeRep>>
       \/ /\ \E m \in aeReq : aeReq' = aeReq \ {m}
          /\ UNCHANGED <<rvVars, aeRep>>
       \/ /\ \E m \in aeRep : aeRep' = aeRep \ {m}
          /\ UNCHANGED <<rvVars, aeReq>>
    /\ UNCHANGED <<termVars, logVars, applyVars, elecVars, hbVars, hbTask,
                   panicked, pending, gen, cast>>

\* The server is killed and made again.  persist and readPersist do nothing,
\* so Make's initial fields are all it has.  The goroutines of the old
\* incarnation have no effect any more, except for the requests and replies
\* they already put on the network.
Restart(s) ==
    /\ gen[s] < MaxRestarts
    /\ gen'         = [gen EXCEPT ![s] = @ + 1]
    /\ currentTerm' = [currentTerm EXCEPT ![s] = 0]
    /\ votedFor'    = [votedFor EXCEPT ![s] = Nil]
    /\ state'       = [state EXCEPT ![s] = FOLLOWER]
    /\ log'         = [log EXCEPT ![s] = <<>>]
    /\ termToIndex' = [termToIndex EXCEPT ![s] = [t \in Term |-> 0]]
    /\ commitIndex' = [commitIndex EXCEPT ![s] = 0]
    /\ nextIndex'   = [nextIndex EXCEPT ![s] = [p \in Server |-> 0]]
    /\ lastApplied' = [lastApplied EXCEPT ![s] = 0]
    /\ applying'    = [applying EXCEPT ![s] = FALSE]
    /\ applied'     = [applied EXCEPT ![s] = <<>>]
    /\ panicked'    = [panicked EXCEPT ![s] = FALSE]
    /\ pending'     = [pending EXCEPT ![s] = 0]
    /\ loops'       = [loops EXCEPT ![s] = 0]
    /\ votes'       = [votes EXCEPT ![s] = [t \in Term |-> 0]]
    /\ done'        = [done EXCEPT ![s] = {}]
    /\ round'       = [round EXCEPT ![s] = 0]
    /\ acks'        = [acks EXCEPT ![s] = [r \in 1 .. MaxRounds |-> 0]]
    /\ rvRep'  = {m \in rvRep : m.src # s}
    /\ hbTask' = {h \in hbTask : h.src # s}
    /\ aeRep'  = {m \in aeRep : m.src # s}
    /\ UNCHANGED <<rvReq, aeReq, cast>>

----------------------------------------------------------------------------
Next ==
    \/ \E s \in Server : ElectionTimeout(s)
    \/ \E s \in Server : AttemptEletion(s)
    \/ \E m \in rvReq : RequestVote(m)
    \/ \E m \in rvRep : VoteReply(m)
    \/ \E s \in Server, v \in Value : Start(s, v)
    \/ \E s \in Server : HeartBeat(s)
    \/ \E h \in hbTask : SendAppendEntries(h)
    \/ \E m \in aeReq : AppendEntries(m)
    \/ \E m \in aeRep : AppendReply(m)
    \/ \E s \in Server : ApplyAdvance(s)
    \/ \E s \in Server : ApplySend(s)
    \/ CallFails
    \/ \E s \in Server : Restart(s)

Spec == Init /\ [][Next]_vars

----------------------------------------------------------------------------
(* Properties *)

TypeTerm ==
    /\ currentTerm \in [Server -> Term]
    /\ votedFor    \in [Server -> Server \union {Nil}]
    /\ state       \in [Server -> {LEADER, FOLLOWER, CANDIDATE}]
TypeLog ==
    /\ log         \in [Server -> Seq(Entry)]
    /\ termToIndex \in [Server -> TermMap]
    /\ commitIndex \in [Server -> Nat]
TypeApply ==
    /\ lastApplied \in [Server -> Nat]
    /\ applying    \in [Server -> BOOLEAN]
    /\ applied     \in [Server -> Seq(Value)]
TypeElec ==
    /\ votes \in [Server -> [Term -> Nat]]
    /\ done  \in [Server -> SUBSET Term]
TypeHb ==
    /\ nextIndex \in [Server -> [Server -> Nat]]
    /\ loops     \in [Server -> Nat]
    /\ round     \in [Server -> Nat]
    /\ acks      \in [Server -> [1 .. MaxRounds -> Nat]]
TypeRv ==
    /\ rvReq \subseteq RVArgs
    /\ rvRep \subseteq RVReply
TypeAe ==
    /\ hbTask \subseteq HBTask
    /\ aeReq  \subseteq AEArgs
    /\ aeRep  \subseteq AEReply
TypeMisc ==
    /\ panicked \in [Server -> BOOLEAN]
    /\ pending  \in [Server -> Nat]
    /\ gen      \in [Server -> Nat]
    /\ cast     \subseteq Vote

\* Every field of a Raft peer and every call in flight has the shape the code
\* gives it.
TypeOK ==
    /\ TypeTerm /\ TypeLog /\ TypeApply /\ TypeElec
    /\ TypeHb /\ TypeRv /\ TypeAe /\ TypeMisc

\* The servers that voted for s in term t.
Voters(s, t) == {v \in Server : \E c \in cast :
                    c.voter = v /\ c.cand = s /\ c.term = t}

\* AttemptEletion counts votes of one term only: a server whose election
\* closure of term t succeeded was voted for, in t, by a majority, however
\* late, reordered or lost the replies are.
ElectedByMajority ==
    \A s \in Server : \A t \in done[s] : Cardinality(Voters(s, t)) > Half

\* RequestVote: two votes a server casts in one term while it is FOLLOWER (and
\* does not crash in between) go to the same candidate, although
\* conevrtToFollower clears votedFor without a change of term.
FollowerVoteBinds ==
    \A c, d \in cast :
        (/\ c.voter = d.voter /\ c.term = d.term /\ c.gen = d.gen
         /\ c.as = FOLLOWER /\ d.as = FOLLOWER) => c.cand = d.cand

\* Two servers win the same term only through a voter that voted for both and
\* cast one of the votes while it was LEADER or CANDIDATE (RequestVote does
\* not make it FOLLOWER), or crashed in between.
DoubleWinNeedsBrokenVoter ==
    \A s1, s2 \in Server : \A t \in done[s1] \intersect done[s2] :
        s1 # s2 => \E c, d \in cast :
            /\ c.voter = d.voter /\ c.term = t /\ d.term = t
            /\ c.cand = s1 /\ d.cand = s2
            /\ c.as # FOLLOWER \/ d.as # FOLLOWER \/ c.gen # d.gen

\* A server voted for two candidates of term t, the second time with its first
\* vote forgotten in a crash.
VotedAgain(t) ==
    \E c, d \in cast : /\ c.voter = d.voter /\ c.term = t /\ d.term = t
                       /\ c.gen # d.gen /\ c.cand # d.cand

\* The one thing that can give term 1 two winners is a crash between two votes of
\* one server, whatever else crashes and whatever the crashed servers have sent
\* before: a server enters term 1 as a FOLLOWER of term 0, so nothing else makes
\* its vote revocable before there is a winner.
FirstTermElectionSafety ==
    ~VotedAgain(1) =>
        \A s1, s2 \in Server : 1 \in done[s1] /\ 1 \in done[s2] => s1 = s2

\* The terms in a log never decrease and none is above the server's current
\* term: what Start appends and what AppendEntries splices onto the prefix up
\* to PrevLogIndex fit, stale and reordered requests included.
LogTermsOrdered ==
    \A s \in Server : \A i \in 1 .. Len(log[s]) :
        /\ log[s][i].term \in 1 .. currentTerm[s]
        /\ \A j \in 1 .. i : log[s][j].term <= log[s][i].term

\* While a server is LEADER, rf.log[nextIndex-1] and rf.log[nextIndex:] are in
\* range for every peer: the index HeartBeat backs off to is taken from
\* termToIndex, which came with another leader's log.
LeaderNextIndexInRange ==
    \A s \in Server : state[s] = LEADER =>
        \A p \in Server : nextIndex[s][p] \in 1 .. Len(log[s]) + 1

\* Until somebody crashes or stands for a second term, no two servers hand
\* different commands to the service for one index (checkLogs in
\* raft/config.go): stale replies, reordered heartbeats and commands that come
\* while a round is under way do no harm in the term of the first leader.
StateMachineSafety ==
    (\A s \in Server : gen[s] = 0 /\ currentTerm[s] <= 1) =>
        \A s1, s2 \in Server :
            \A i \in DOMAIN applied[s1] \intersect DOMAIN applied[s2] :
                applied[s1][i] = applied[s2][i]

\* Two servers that consider index i committed have the same command there
\* (nCommitted in raft/config.go: "committed values do not match").
CommittedValuesMatch ==
    \A s1, s2 \in Server : \A i \in 1 .. Len(log[s1]) :
        i <= commitIndex[s1] /\ i <= commitIndex[s2] /\ i <= Len(log[s2])
            => log[s1][i].cmd = log[s2][i].cmd

\* At most one server answers GetState with (t, true), for every t
\* (checkOneLeader in raft/config.go).
OneLeaderPerTerm ==
    \A s1, s2 \in Server :
        (/\ state[s1] = LEADER /\ state[s2] = LEADER
         /\ currentTerm[s1] = currentTerm[s2]) => s1 = s2
=============================================================================
