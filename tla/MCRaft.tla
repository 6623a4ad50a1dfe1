------------------------------- MODULE MCRaft -------------------------------
(***************************************************************************)
(* Instances of Raft for TLC: three servers, one or two commands.  Some    *)
(* runs start from a later reachable state, so that the bounds are spent   *)
(* on what happens after an election instead of on the election itself.    *)
(***************************************************************************)
EXTENDS Raft, TLC

CONSTANTS s1, s2, s3, v1, v2

MCServer == {s1, s2, s3}
MCValue == {v1}
MCValues == {v1, v2}

\* Servers are compared only for equality, and so are commands.
Symmetry == Permutations(MCServer)
SymmetryValues == Permutations(MCServer) \union Permutations(MCValues)
Followers == Permutations({s2, s3})
----------------------------------------------------------------------------
\* s1 started the election of term 1, got both votes and became leader;
\* nobody crashed, no command was given and nothing is applied.
InitElected ==
    /\ currentTerm = [s \in Server |-> 1]
    /\ votedFor    = [s \in Server |-> s1]
    /\ state       = [s \in Server |-> IF s = s1 THEN LEADER ELSE FOLLOWER]
    /\ lastApplied = [s \in Server |-> 0]
    /\ applying    = [s \in Server |-> FALSE]
    /\ applied     = [s \in Server |-> <<>>]
    /\ panicked    = [s \in Server |-> FALSE]
    /\ pending     = [s \in Server |-> 0]
    /\ loops       = [s \in Server |-> IF s = s1 THEN 1 ELSE 0]
    /\ votes       = [s \in Server |-> [t \in Term |->
                        IF s = s1 /\ t = 1 THEN 3 ELSE 0]]
    /\ done        = [s \in Server |-> IF s = s1 THEN {1} ELSE {}]
    /\ rvReq = {} /\ rvRep = {}
    /\ hbTask = {} /\ aeReq = {} /\ aeRep = {}
    /\ gen  = [s \in Server |-> 0]
    /\ cast = {[voter |-> s, cand |-> s1, term |-> 1, gen |-> 0,
                as |-> IF s = s1 THEN CANDIDATE ELSE FOLLOWER] : s \in Server}
    /\ log         = [s \in Server |-> <<>>]
    /\ termToIndex = [s \in Server |-> [t \in Term |-> 0]]
    /\ commitIndex = [s \in Server |-> 0]
    /\ nextIndex   = [s \in Server |-> [p \in Server |-> IF s = s1 THEN 1 ELSE 0]]
    /\ round       = [s \in Server |-> 0]
    /\ acks        = [s \in Server |-> [r \in 1 .. MaxRounds |-> 0]]

SpecElected == InitElected /\ [][Next]_vars

\* Where the run about logs looks further: as long as the first leader leads it
\* may take two commands and start two rounds; with an election or a crash, one
\* command and one round.
FirstTerm ==
    \A s \in Server : currentTerm[s] = 1 /\ gen[s] = 0 /\ pending[s] = 0
Brief ==
    /\ \A s \in Server : log[s] = <<>> \/ (Len(log[s]) = 1 /\ log[s][1].cmd = v1)
    /\ Rounds <= 1
FirstTermOrBrief == FirstTerm \/ Brief

\* To safety a call that fails is one that never arrives, so it is enough to let
\* calls fail where a caller or its peer has crashed.  A crash comes only while
\* the logs and rounds are brief.
CrashesAndLosses ==
    /\ CallFails => \E s \in Server : gen[s] > 0
    /\ gen' # gen => Brief

\* Where the run about elections looks further: three elections up to term 2 as
\* long as nobody crashes, three elections of term 1 with one crash, and two
\* elections with a crash of every server.
CrashesBrief ==
    LET crashed == {s \in Server : gen[s] > 0} IN
    \/ crashed = {}
    \/ Cardinality(crashed) = 1 /\ \A s \in Server : currentTerm[s] <= 1
    \/ Elections <= 2
=============================================================================
