----------------------------- MODULE RaftProofs -----------------------------
(***************************************************************************)
(* Proofs about Raft.tla, for any number of servers and every value of the *)
(* bounds: type correctness; the terms of a log are ordered, a leader      *)
(* indexes its log within range, and the vote of a follower binds; a win   *)
(* takes a majority of voters, what it takes for one term to have two      *)
(* winners; and election safety and agreement of the applied commands in   *)
(* term 1, the one term whose votes only a crash can revoke.  And about    *)
(* ElectionTimer.tla, the part of a peer that Raft.tla leaves out.         *)
(***************************************************************************)
EXTENDS Raft, ElectionTimer, FiniteSetTheorems, SequenceTheorems,
        WellFoundedInduction, TLAPS

----------------------------------------------------------------------------
(* Lemmas about the operators of the model *)

\* The term of an existing log entry, or of the dummy entry, is a term.
LEMMA TermAtType ==
    ASSUME NEW l \in Seq(Entry), NEW i \in 0 .. Len(l)
    PROVE  TermAt(l, i) \in Term
<1>1. CASE i = 0
  BY <1>1, BoundsAssumption DEF TermAt, Term
<1>2. CASE i # 0
  <2>1. l[i] \in Entry
    BY <1>2
  <2>. QED  BY <1>2, <2>1, Zenon DEF TermAt, Entry
<1>. QED  BY <1>1, <1>2, Zenon

\* The term of the last entry, the dummy included, is a term.
LEMMA LastTermType ==
    ASSUME NEW l \in Seq(Entry)
    PROVE  LastTerm(l) \in Term
BY TermAtType DEF LastTerm

\* The suffix of the log a heartbeat carries: its length and its elements.
LEMMA Suffix ==
    ASSUME NEW l \in Seq(Entry), NEW n \in 1 .. Len(l) + 1
    PROVE  /\ SubSeq(l, n, Len(l)) \in Seq(Entry)
           /\ Len(SubSeq(l, n, Len(l))) = Len(l) - n + 1
           /\ \A i \in 1 .. Len(l) - n + 1 :
                  SubSeq(l, n, Len(l))[i] = l[n + i - 1]
<1>1. \A i \in n .. Len(l) : l[i] \in Entry
  OBVIOUS
<1>2. n \in Int /\ Len(l) \in Int
  OBVIOUS
<1>. QED
  BY <1>1, <1>2, SubSeqProperties

\* A follower's log after AppendEntries: the kept prefix, then the entries.
LEMMA Splice ==
    ASSUME NEW l \in Seq(Entry), NEW m \in AEArgs, m.prevLogIndex <= Len(l)
    PROVE  /\ NewLog(m, l) \in Seq(Entry)
           /\ Len(NewLog(m, l)) = m.prevLogIndex + Len(m.entries)
           /\ \A i \in 1 .. m.prevLogIndex + Len(m.entries) :
                 NewLog(m, l)[i] = IF i <= m.prevLogIndex THEN l[i]
                                   ELSE m.entries[i - m.prevLogIndex]
<1> DEFINE p == SubSeq(l, 1, m.prevLogIndex)
<1>1. m.prevLogIndex \in Nat /\ m.entries \in Seq(Entry)
  BY Zenon DEF AEArgs
<1>2. /\ p \in Seq(Entry)
      /\ Len(p) = m.prevLogIndex
      /\ \A i \in 1 .. m.prevLogIndex : p[i] = l[i]
  <2>1. \A i \in 1 .. m.prevLogIndex : l[i] \in Entry
    BY <1>1
  <2>. QED  BY <1>1, <2>1, SubSeqProperties
<1>3. /\ p \o m.entries \in Seq(Entry)
      /\ Len(p \o m.entries) = Len(p) + Len(m.entries)
      /\ \A i \in 1 .. Len(p) + Len(m.entries) :
            (p \o m.entries)[i] = IF i <= Len(p) THEN p[i]
                                  ELSE m.entries[i - Len(p)]
  BY <1>1, <1>2, ConcatProperties
<1>. QED
  BY <1>1, <1>2, <1>3 DEF NewLog

\* The index a failed append backs off to is 1 or an entry of termToIndex.
LEMMA BackoffRange ==
    ASSUME NEW tti \in TermMap, NEW t \in Term
    PROVE  /\ Backoff(tti, t) \in Nat \ {0}
           /\ Backoff(tti, t) = 1 \/ \E i \in Term : Backoff(tti, t) = tti[i]
<1> DEFINE known == {i \in 1 .. t - 1 : tti[i] # 0}
<1>1. t \in Nat /\ MaxTerm \in Nat /\ t <= MaxTerm
  BY BoundsAssumption DEF Term
<1>2. CASE known = {}
  BY <1>2 DEF Backoff
<1>3. CASE known # {}
  <2> DEFINE top == CHOOSE i \in known : \A j \in known : j <= i
  <2>1. \E i \in known : \A j \in known : j <= i
    <3> DEFINE gaps == {t - i : i \in known}
    <3>1. gaps \subseteq Nat /\ gaps # {}
      BY <1>1, <1>3
    <3>2. PICK g \in gaps : \A h \in gaps : <<h, g>> \notin OpToRel(<, Nat)
      BY <3>1, NatLessThanWellFounded, WFMin, Zenon
    <3>3. PICK i \in known : g = t - i
      OBVIOUS
    <3>4. ASSUME NEW j \in known PROVE j <= i
      <4>1. t - j \in gaps
        OBVIOUS
      <4>2. <<t - j, g>> \notin OpToRel(<, Nat) /\ t - j \in Nat /\ g \in Nat
        BY <4>1, <3>1, <3>2, Zenon
      <4>3. ~(t - j < g)
        BY <4>2, Zenon DEF OpToRel
      <4>. QED  BY <4>3, <3>3, <1>1
    <3>. QED  BY <3>4, Zenon
  <2>2. top \in known
    BY <2>1, Zenon
  <2>3. top \in Term /\ tti[top] # 0
    BY <1>1, <2>2 DEF Term
  <2>4. Backoff(tti, t) = tti[top]
    BY <1>3, Zenon DEF Backoff
  <2>. QED
    BY <2>3, <2>4, Zenon DEF TermMap
<1>. QED
  BY <1>2, <1>3, Zenon

----------------------------------------------------------------------------
(* Type correctness *)

\* A heartbeat goroutine exists only on a server that has been elected since
\* it started, and such a server has allocated nextIndex with values above 0.
NextIndexSet ==
    /\ \A s \in Server : state[s] = LEADER => done[s] # {}
    /\ \A s \in Server : done[s] # {} => \A p \in Server : nextIndex[s][p] >= 1
    /\ \A h \in hbTask : done[h.src] # {}

\* Between lastApplied++ and the send, lastApplied is the index being applied.
ApplyingSet == \A s \in Server : applying[s] => lastApplied[s] >= 1

TypeInv == TypeOK /\ NextIndexSet /\ ApplyingSet

\* The initial fields have the right types.
LEMMA TypeInit == Init => TypeInv
<1> SUFFICES ASSUME Init PROVE TypeInv
  OBVIOUS
<1> USE BoundsAssumption DEF Init
<1>1. TypeTerm /\ TypeLog
  BY DEF TypeTerm, TypeLog, Term, TermMap, FOLLOWER
<1>2. TypeApply /\ TypeElec /\ TypeHb
  BY DEF TypeApply, TypeElec, TypeHb, Term
<1>3. TypeRv /\ TypeAe /\ TypeMisc
  BY Zenon DEF TypeRv, TypeAe, TypeMisc
<1>4. NextIndexSet /\ ApplyingSet
  BY Zenon DEF NextIndexSet, ApplyingSet, FOLLOWER, LEADER
<1>. QED  BY <1>1, <1>2, <1>3, <1>4, Zenon DEF TypeInv, TypeOK

\* A group of variables that does not change keeps its type.
LEMMA TypeKept ==
    ASSUME TypeOK
    PROVE  /\ UNCHANGED termVars => TypeTerm'
           /\ UNCHANGED logVars => TypeLog'
           /\ UNCHANGED applyVars => TypeApply'
           /\ UNCHANGED elecVars => TypeElec'
           /\ UNCHANGED hbVars => TypeHb'
           /\ UNCHANGED rvVars => TypeRv'
           /\ UNCHANGED aeVars => TypeAe'
           /\ UNCHANGED <<panicked, pending, gen, cast>> => TypeMisc'
<1>1. UNCHANGED termVars => TypeTerm'
  BY Zenon DEF TypeOK, TypeTerm, termVars
<1>2. UNCHANGED logVars => TypeLog'
  BY Zenon DEF TypeOK, TypeLog, logVars
<1>3. UNCHANGED applyVars => TypeApply'
  BY Zenon DEF TypeOK, TypeApply, applyVars
<1>4. UNCHANGED elecVars => TypeElec'
  BY Zenon DEF TypeOK, TypeElec, elecVars
<1>5. UNCHANGED hbVars => TypeHb'
  BY Zenon DEF TypeOK, TypeHb, hbVars
<1>6. UNCHANGED rvVars => TypeRv'
  BY Zenon DEF TypeOK, TypeRv, rvVars
<1>7. UNCHANGED aeVars => TypeAe'
  BY Zenon DEF TypeOK, TypeAe, aeVars
<1>8. UNCHANGED <<panicked, pending, gen, cast>> => TypeMisc'
  BY Zenon DEF TypeOK, TypeMisc
<1>. QED  BY <1>1, <1>2, <1>3, <1>4, <1>5, <1>6, <1>7, <1>8, Zenon

\* A timeout only touches pending.
LEMMA TypeTimeout ==
    ASSUME TypeOK, NEW s \in Server, ElectionTimeout(s)
    PROVE  TypeOK'
<1>1. TypeMisc'
  BY DEF TypeOK, TypeMisc, ElectionTimeout
<1>. QED  BY <1>1, TypeKept, Zenon DEF ElectionTimeout, TypeOK

\* AttemptEletion sends requests with the new term and the last log entry.
LEMMA TypeAttempt ==
    ASSUME TypeOK, NEW s \in Server, AttemptEletion(s)
    PROVE  TypeOK'
<1> USE DEF TypeOK
<1>1. currentTerm[s] + 1 \in Term
  BY BoundsAssumption DEF TypeTerm, AttemptEletion, Term
<1>2. LastTerm(log[s]) \in Term /\ Len(log[s]) \in Nat /\ gen[s] \in Nat
  BY LastTermType DEF TypeLog, TypeMisc
<1>3. TypeTerm'
  BY <1>1, Zenon DEF TypeTerm, AttemptEletion, conevrtToCandidate
<1>4. TypeElec'
  BY <1>1, Zenon DEF TypeElec, AttemptEletion
<1>5. TypeRv'
  BY <1>1, <1>2 DEF TypeRv, AttemptEletion, RVArgs
<1>6. TypeMisc'
  BY <1>1, <1>2 DEF TypeMisc, AttemptEletion, Vote
<1>. QED  BY <1>3, <1>4, <1>5, <1>6, TypeKept, Zenon DEF AttemptEletion

\* Every reply of the RequestVote handler carries a term, 0 included.
LEMMA TypeReplyVote ==
    ASSUME TypeOK, NEW m \in rvReq, NEW t \in Term, NEW g \in BOOLEAN,
           ReplyVote(m, t, g)
    PROVE  TypeRv'
BY DEF TypeOK, TypeRv, ReplyVote, RVArgs, RVReply

\* The RequestVote handler keeps every type, on each of its four ways out.
LEMMA TypeRequestVote ==
    ASSUME TypeOK, NEW m \in rvReq, RequestVote(m)
    PROVE  TypeOK'
<1> USE DEF TypeOK
<1>1. /\ m.dst \in Server /\ m.src \in Server /\ m.term \in Term
      /\ currentTerm[m.dst] \in Term /\ gen[m.dst] \in Nat
      /\ state[m.dst] \in {LEADER, FOLLOWER, CANDIDATE}
      /\ 0 \in Term
  BY BoundsAssumption DEF TypeRv, RVArgs, TypeTerm, TypeMisc, Term
<1>2. UNCHANGED <<logVars, applyVars, elecVars, hbVars, aeVars, panicked,
                  pending, gen>>
  BY Zenon DEF RequestVote
<1>3. CASE RejectStaleCandidate(m)
  <2>1. TypeRv'
    BY <1>1, <1>3, TypeReplyVote, Zenon DEF RejectStaleCandidate
  <2>. QED  BY <2>1, <1>2, <1>3, TypeKept, Zenon DEF RejectStaleCandidate
<1>4. CASE RejectVoted(m)
  <2>1. TypeRv'
    BY <1>1, <1>4, TypeReplyVote, Zenon DEF RejectVoted
  <2>. QED  BY <2>1, <1>2, <1>4, TypeKept, Zenon DEF RejectVoted
<1>5. CASE RejectOutdatedLog(m)
  <2>1. TypeRv'
    BY <1>1, <1>5, TypeReplyVote, Zenon DEF RejectOutdatedLog
  <2>2. TypeTerm'
    BY <1>1, <1>5, Zenon DEF RejectOutdatedLog, TypeTerm, HeldVote
  <2>. QED  BY <2>1, <2>2, <1>2, <1>5, TypeKept, Zenon DEF RejectOutdatedLog
<1>6. CASE GrantVote(m)
  <2>1. TypeRv'
    BY <1>1, <1>6, TypeReplyVote, Zenon DEF GrantVote
  <2>2. TypeTerm'
    BY <1>1, <1>6, Zenon DEF GrantVote, TypeTerm
  <2>3. TypeMisc'
    BY <1>1, <1>2, <1>6 DEF GrantVote, TypeMisc, Vote
  <2>. QED  BY <2>1, <2>2, <2>3, <1>2, TypeKept, Zenon
<1>. QED  BY <1>3, <1>4, <1>5, <1>6, Zenon DEF RequestVote

\* The length of a log is a natural number.
LEMMA LogLen ==
    ASSUME TypeOK, NEW s \in Server
    PROVE  log[s] \in Seq(Entry) /\ Len(log[s]) \in Nat
BY DEF TypeOK, TypeLog

\* Counting a reply in AttemptEletion, winning and stepping down included, keeps
\* every type.
LEMMA TypeVoteReply ==
    ASSUME TypeOK, NEW m \in rvRep, VoteReply(m)
    PROVE  TypeOK'
<1> USE DEF TypeOK
<1> DEFINE s == m.src
           count == votes[s][m.term] + 1
<1>0. s \in Server /\ m.term \in Term /\ m.replyTerm \in Term
  BY Zenon DEF TypeRv, RVReply
<1>1. /\ s \in Server /\ m.term \in Term /\ m.replyTerm \in Term
      /\ currentTerm[s] \in Term /\ count \in Nat /\ Len(log[s]) + 1 \in Nat
  BY <1>0, LogLen DEF TypeTerm, TypeElec
<1>2. UNCHANGED <<logVars, applyVars, round, acks, rvReq, aeVars, panicked,
                  pending, gen, cast>>
  BY Zenon DEF VoteReply
<1>3. TypeRv'
  BY <1>2, Zenon DEF VoteReply, TypeRv
<1>4. CASE conevrtToFollower(s, m.replyTerm) /\ UNCHANGED <<elecVars, nextIndex, loops>>
  <2>1. TypeTerm'
    BY <1>1, <1>4, Zenon DEF TypeTerm, conevrtToFollower
  <2>. QED  BY <2>1, <1>2, <1>3, <1>4, TypeKept, Zenon DEF hbVars
<1>5. CASE UNCHANGED <<termVars, elecVars, nextIndex, loops>>
  BY <1>2, <1>3, <1>5, TypeKept, Zenon DEF hbVars
<1>6. CASE /\ votes' = [votes EXCEPT ![s][m.term] = count]
           /\ done' = [done EXCEPT ![s] = @ \union {currentTerm[s]}]
           /\ conevrtToLeader(s)
  <2>1. TypeTerm'
    BY <1>1, <1>6, Zenon DEF TypeTerm, conevrtToLeader
  <2>2. TypeElec'
    BY <1>1, <1>6, Zenon DEF TypeElec
  <2>3. TypeHb'
    BY <1>1, <1>2, <1>6 DEF TypeHb, conevrtToLeader
  <2>. QED  BY <2>1, <2>2, <2>3, <1>2, <1>3, TypeKept, Zenon
<1>7. CASE /\ votes' = [votes EXCEPT ![s][m.term] = count]
           /\ UNCHANGED <<termVars, done, nextIndex, loops>>
  <2>1. TypeElec'
    BY <1>1, <1>7, Zenon DEF TypeElec
  <2>. QED  BY <2>1, <1>2, <1>3, <1>7, TypeKept, Zenon DEF hbVars
<1>. QED  BY <1>4, <1>5, <1>6, <1>7, Zenon DEF VoteReply

\* Start appends an entry of the leader's term and keeps every type.
LEMMA TypeStart ==
    ASSUME TypeOK, NEW s \in Server, NEW v \in Value, Start(s, v)
    PROVE  TypeOK'
<1> USE DEF TypeOK
<1>1. currentTerm[s] \in Term /\ log[s] \in Seq(Entry) /\ Len(log[s]) + 1 \in Nat
  BY LogLen DEF TypeTerm
<1>2. [term |-> currentTerm[s], cmd |-> v] \in Entry
  BY <1>1, Zenon DEF Entry
<1>3. log' \in [Server -> Seq(Entry)]
  BY <1>1, <1>2 DEF Start, TypeLog
<1>4. termToIndex' \in [Server -> TermMap]
  BY <1>1, Zenon DEF Start, TypeLog, TermMap
<1>5. TypeLog'
  BY <1>3, <1>4, Zenon DEF Start, TypeLog
<1>. QED  BY <1>5, TypeKept, Zenon DEF Start

\* One iteration of HeartBeat, a new round or the end of the loop, keeps every type.
LEMMA TypeHeartBeat ==
    ASSUME TypeOK, NEW s \in Server, HeartBeat(s)
    PROVE  TypeOK'
<1> USE DEF TypeOK
<1>1. UNCHANGED <<termVars, logVars, applyVars, elecVars, nextIndex, rvVars,
                  aeReq, aeRep, panicked, pending, gen, cast>>
  BY Zenon DEF HeartBeat
<1>2. CASE /\ loops[s] > 0 /\ loops' = [loops EXCEPT ![s] = @ - 1]
           /\ UNCHANGED <<round, acks, hbTask>>
  <2>1. TypeHb'
    BY <1>1, <1>2 DEF TypeHb
  <2>. QED  BY <2>1, <1>1, <1>2, TypeKept, Zenon DEF aeVars
<1>3. CASE /\ round' = [round EXCEPT ![s] = @ + 1]
           /\ acks'  = [acks EXCEPT ![s][round[s] + 1] = 1]
           /\ hbTask' = hbTask \union
                {[src |-> s, dst |-> p, gen |-> gen[s], round |-> round[s] + 1]
                   : p \in Server \ {s}}
           /\ UNCHANGED loops
  <2>1. round[s] + 1 \in Nat /\ gen[s] \in Nat
    BY DEF TypeHb, TypeMisc
  <2>2. TypeHb'
    BY <1>1, <1>3, <2>1, Zenon DEF TypeHb
  <2>3. TypeAe'
    BY <1>1, <1>3, <2>1 DEF TypeAe, HBTask
  <2>. QED  BY <2>2, <2>3, <1>1, TypeKept, Zenon
<1>. QED  BY <1>2, <1>3, Zenon DEF HeartBeat

\* A goroutine of HeartBeat that builds its message, or panics on an index that is
\* out of range, keeps every type.
LEMMA TypeSend ==
    ASSUME TypeInv, NEW h \in hbTask, SendAppendEntries(h)
    PROVE  TypeOK'
<1> USE DEF TypeInv, TypeOK
<1> DEFINE s == h.src
           next == nextIndex[s][h.dst]
<1>1. /\ s \in Server /\ h.dst \in Server /\ h.gen \in Nat /\ h.round \in Nat
      /\ currentTerm[s] \in Term /\ commitIndex[s] \in Nat
      /\ termToIndex[s] \in TermMap
      /\ state[s] \in {LEADER, FOLLOWER, CANDIDATE}
      /\ log[s] \in Seq(Entry) /\ Len(log[s]) \in Nat
  BY LogLen, Zenon DEF TypeAe, HBTask, TypeTerm, TypeLog
<1>2. next \in Nat /\ next >= 1
  BY <1>1, Zenon DEF NextIndexSet, TypeHb
<1>3. UNCHANGED <<termVars, logVars, applyVars, elecVars, hbVars, rvVars,
                  aeRep, pending, gen, cast>>
  BY Zenon DEF SendAppendEntries
<1>4. CASE OutOfRange(s, h.dst)
  <2>1. TypeMisc'
    BY <1>1, <1>3, <1>4, Zenon DEF SendAppendEntries, TypeMisc
  <2>2. TypeAe'
    BY <1>3, <1>4, Zenon DEF SendAppendEntries, TypeAe
  <2>. QED  BY <2>1, <2>2, <1>3, TypeKept, Zenon
<1>5. CASE ~OutOfRange(s, h.dst)
  <2>1. next \in 1 .. Len(log[s]) + 1
    BY <1>1, <1>2, <1>5 DEF OutOfRange
  <2>2. /\ PrevIndex(s, h.dst) \in Nat
        /\ TermAt(log[s], next - 1) \in Term
        /\ SubSeq(log[s], next, Len(log[s])) \in Seq(Entry)
    BY <1>1, <2>1, TermAtType, Suffix DEF PrevIndex
  <2>3. HeartBeatArgs(h) \in AEArgs
    BY <1>1, <2>2, Zenon DEF HeartBeatArgs, AEArgs
  <2>4. TypeAe'
    BY <1>3, <1>5, <2>3, Zenon DEF SendAppendEntries, TypeAe
  <2>. QED  BY <2>4, <1>3, <1>5, TypeKept, Zenon DEF SendAppendEntries
<1>. QED  BY <1>4, <1>5, Zenon

\* Every reply of the AppendEntries handler carries a term and the round it is for.
LEMMA TypeReplyAppend ==
    ASSUME TypeOK, NEW m \in aeReq, NEW t \in Term, NEW g \in BOOLEAN,
           ReplyAppend(m, t, g), UNCHANGED hbTask
    PROVE  TypeAe'
<1> DEFINE rep == [src |-> m.src, dst |-> m.dst, gen |-> m.gen,
                   round |-> m.round, prevLogTerm |-> m.prevLogTerm,
                   replyTerm |-> t, success |-> g]
<1>1. hbTask \subseteq HBTask /\ aeReq \subseteq AEArgs /\ aeRep \subseteq AEReply
  BY Zenon DEF TypeOK, TypeAe
<1>2. /\ m.src \in Server /\ m.dst \in Server /\ m.gen \in Nat /\ m.round \in Nat
      /\ m.prevLogTerm \in Term
  BY <1>1, Zenon DEF AEArgs
<1>3. rep \in AEReply
  BY <1>2, Zenon DEF AEReply
<1>4. aeReq' \subseteq aeReq /\ aeRep' \subseteq aeRep \union {rep}
  BY Zenon DEF ReplyAppend
<1>. QED  BY <1>1, <1>3, <1>4, Zenon DEF TypeAe

\* What the AppendEntries handler does to the log and to the terms.
LEMMA TypeAppendEntries ==
    ASSUME TypeOK, NEW m \in aeReq, AppendEntries(m)
    PROVE  TypeOK'
<1> USE DEF TypeOK
<1> DEFINE s == m.dst
<1>1. /\ m \in AEArgs /\ s \in Server /\ m.term \in Term
      /\ currentTerm[s] \in Term /\ log[s] \in Seq(Entry)
      /\ m.termToIndex \in TermMap /\ m.leaderCommit \in Nat
  BY LogLen, Zenon DEF TypeAe, AEArgs, TypeTerm
<1>2. UNCHANGED <<applyVars, elecVars, hbVars, rvVars, hbTask, panicked,
                  pending, gen, cast>>
  BY Zenon DEF AppendEntries
<1>3. CASE RejectStaleLeader(m)
  <2>1. TypeAe'
    BY <1>1, <1>2, <1>3, TypeReplyAppend, Zenon DEF RejectStaleLeader
  <2>. QED  BY <2>1, <1>2, <1>3, TypeKept, Zenon DEF RejectStaleLeader
<1>4. CASE StepDown(m)
  <2>1. TypeAe'
    BY <1>1, <1>2, <1>4, TypeReplyAppend, Zenon DEF StepDown
  <2>2. TypeTerm'
    BY <1>1, <1>4, Zenon DEF StepDown, conevrtToFollower, TypeTerm
  <2>. QED  BY <2>1, <2>2, <1>2, <1>4, TypeKept, Zenon DEF StepDown
<1>5. CASE RejectMismatch(m)
  <2>1. TypeAe'
    BY <1>1, <1>2, <1>5, TypeReplyAppend, Zenon DEF RejectMismatch
  <2>2. TypeTerm'
    BY <1>1, <1>5, Zenon DEF RejectMismatch, AdoptTerm, TypeTerm
  <2>. QED  BY <2>1, <2>2, <1>2, <1>5, TypeKept, Zenon DEF RejectMismatch
<1>6. CASE AcceptEntries(m)
  <2>1. TypeAe'
    BY <1>1, <1>2, <1>6, TypeReplyAppend, Zenon DEF AcceptEntries
  <2>2. TypeTerm'
    BY <1>1, <1>6, Zenon DEF AcceptEntries, AdoptTerm, TypeTerm
  <2>3. NewLog(m, log[s]) \in Seq(Entry) /\ Len(NewLog(m, log[s])) \in Nat
    <3>1. log[s] \in Seq(Entry) /\ m \in AEArgs
      BY <1>1, Zenon DEF TypeLog, TypeAe
    <3>2. m.prevLogIndex <= Len(log[s])
      BY <1>6, Zenon DEF AcceptEntries, Matches
    <3>3. NewLog(m, log[s]) \in Seq(Entry)
      BY <3>1, <3>2, Splice, Zenon
    <3>. QED  BY <3>3
  <2>4. NewCommit(m, commitIndex[s], Len(NewLog(m, log[s]))) \in Nat
    <3>1. commitIndex[s] \in Nat
      BY <1>1, Zenon DEF TypeLog
    <3>. QED  BY <1>1, <2>3, <3>1, Zenon DEF NewCommit
  <2>5. TypeLog'
    BY <1>1, <1>6, <2>3, <2>4, Zenon DEF AcceptEntries, TypeLog
  <2>. QED  BY <2>1, <2>2, <2>5, <1>2, TypeKept, Zenon
<1>. QED  BY <1>3, <1>4, <1>5, <1>6, Zenon DEF AppendEntries

\* The failure branch backs off to a natural number, the success branch to the
\* length of the log.
LEMMA TypeAppendReply ==
    ASSUME TypeOK, NEW m \in aeRep, AppendReply(m)
    PROVE  TypeOK'
<1> USE DEF TypeOK
<1> DEFINE s == m.src
           count == acks[s][m.round] + 1
<1>1. /\ s \in Server /\ m.dst \in Server /\ m.replyTerm \in Term
      /\ m.prevLogTerm \in Term /\ m.round \in Nat
  BY Zenon DEF TypeAe, AEReply
<1>2. termToIndex[s] \in TermMap /\ Len(log[s]) \in Nat
  BY <1>1, LogLen, Zenon DEF TypeLog
<1>3. UNCHANGED <<log, termToIndex, applyVars, elecVars, loops, round, rvVars,
                  hbTask, aeReq, panicked, pending, gen, cast>>
  BY Zenon DEF AppendReply
<1>4. TypeAe'
  BY <1>3, Zenon DEF AppendReply, TypeAe
<1>5. CASE conevrtToFollower(s, m.replyTerm) /\ UNCHANGED <<nextIndex, acks, commitIndex>>
  <2>1. TypeTerm'
    BY <1>1, <1>5, Zenon DEF TypeTerm, conevrtToFollower
  <2>. QED  BY <2>1, <1>3, <1>4, <1>5, TypeKept, Zenon DEF hbVars, logVars
<1>6. CASE /\ nextIndex' = [nextIndex EXCEPT ![s][m.dst] =
                              Backoff(termToIndex[s], m.prevLogTerm)]
           /\ UNCHANGED <<termVars, acks, commitIndex>>
  <2>1. Backoff(termToIndex[s], m.prevLogTerm) \in Nat
    BY <1>1, <1>2, BackoffRange, Zenon
  <2>2. TypeHb'
    BY <1>1, <1>3, <1>6, <2>1, Zenon DEF TypeHb
  <2>. QED  BY <2>2, <1>3, <1>4, <1>6, TypeKept, Zenon DEF logVars
<1>7. CASE /\ nextIndex' = [nextIndex EXCEPT ![s][m.dst] = Len(log[s]) + 1]
           /\ acks' = [acks EXCEPT ![s][m.round] = count]
           /\ commitIndex' = IF count = Half + 1
                             THEN [commitIndex EXCEPT ![s] = Len(log[s])]
                             ELSE commitIndex
           /\ UNCHANGED termVars
  <2>1. nextIndex' \in [Server -> [Server -> Nat]]
    BY <1>1, <1>2, <1>7 DEF TypeHb
  <2>2. acks' \in [Server -> [1 .. MaxRounds -> Nat]]
    <3>1. acks[s] \in [1 .. MaxRounds -> Nat]
      BY <1>1, Zenon DEF TypeHb
    <3>2. [acks[s] EXCEPT ![m.round] = count] \in [1 .. MaxRounds -> Nat]
      <4> DEFINE a == acks[s]
      <4>1. CASE m.round \in 1 .. MaxRounds
        <5>1. a[m.round] \in Nat
          <6>1. a \in [1 .. MaxRounds -> Nat]
            BY <3>1, Zenon
          <6> HIDE DEF a
          <6>. QED  BY <6>1, <4>1, Zenon
        <5>2. count \in Nat
          BY <5>1
        <5>. QED  BY <3>1, <5>2, Zenon
      <4>2. CASE m.round \notin 1 .. MaxRounds
        <5>1. a \in [1 .. MaxRounds -> Nat]
          BY <3>1, Zenon
        <5> HIDE DEF a, count
        <5>2. [a EXCEPT ![m.round] = count] = a
          BY <4>2, <5>1, Zenon
        <5>. QED  BY <5>1, <5>2, Zenon DEF a
      <4>. QED  BY <4>1, <4>2, Zenon
    <3>. QED  BY <1>1, <1>7, <3>2, Zenon DEF TypeHb
  <2>3. TypeHb'
    BY <1>3, <2>1, <2>2, Zenon DEF TypeHb
  <2>4. TypeLog'
    BY <1>1, <1>2, <1>3, <1>7, Zenon DEF TypeLog
  <2>. QED  BY <2>3, <2>4, <1>3, <1>4, <1>7, TypeKept, Zenon
<1>. QED  BY <1>5, <1>6, <1>7, Zenon DEF AppendReply

\* The loop of apply, which reads without the lock, keeps every type.
LEMMA TypeApplyLoop ==
    ASSUME TypeInv, NEW s \in Server, ApplyAdvance(s) \/ ApplySend(s)
    PROVE  TypeOK'
<1> USE DEF TypeInv, TypeOK
<1>1. CASE ApplyAdvance(s)
  <2>1. TypeApply'
    BY <1>1 DEF ApplyAdvance, TypeApply
  <2>. QED  BY <2>1, <1>1, TypeKept, Zenon DEF ApplyAdvance
<1>2. CASE ApplySend(s)
  <2>1. /\ lastApplied[s] \in Nat /\ lastApplied[s] >= 1
        /\ log[s] \in Seq(Entry) /\ Len(log[s]) \in Nat
    BY <1>2, LogLen, Zenon DEF TypeApply, ApplyingSet, ApplySend
  <2>2. UNCHANGED <<termVars, logVars, lastApplied, elecVars, hbVars, rvVars,
                    aeVars, pending, gen, cast>>
    BY <1>2, Zenon DEF ApplySend
  <2>3. CASE lastApplied[s] > Len(log[s])
    <3>1. TypeApply'
      BY <1>2, <2>1, <2>2, <2>3 DEF ApplySend, TypeApply
    <3>2. TypeMisc'
      BY <1>2, <2>1, <2>2, <2>3, Zenon DEF ApplySend, TypeMisc
    <3>. QED  BY <3>1, <3>2, <2>2, TypeKept, Zenon
  <2>4. CASE lastApplied[s] <= Len(log[s])
    <3>1. log[s][lastApplied[s]] \in Entry
      BY <2>1, <2>4
    <3>2. log[s][lastApplied[s]].cmd \in Value
      BY <3>1, Zenon DEF Entry
    <3>3. /\ applied' = [applied EXCEPT ![s] =
                            Append(@, log[s][lastApplied[s]].cmd)]
          /\ applying' = [applying EXCEPT ![s] = FALSE]
          /\ UNCHANGED panicked
      <4>1. ~(lastApplied[s] > Len(log[s]))
        BY <2>1, <2>4
      <4>. QED  BY <1>2, <4>1, Zenon DEF ApplySend
    <3>4. TypeApply'
      <4>1. /\ lastApplied \in [Server -> Nat] /\ applying \in [Server -> BOOLEAN]
            /\ applied \in [Server -> Seq(Value)]
        BY Zenon DEF TypeApply
      <4>2. Append(applied[s], log[s][lastApplied[s]].cmd) \in Seq(Value)
        BY <2>1, <3>2, <4>1
      <4>3. applied' \in [Server -> Seq(Value)]
        BY <3>3, <4>1, <4>2, Zenon
      <4>4. applying' \in [Server -> BOOLEAN]
        BY <3>3, <4>1, Zenon
      <4>. QED  BY <2>2, <4>1, <4>3, <4>4, Zenon DEF TypeApply
    <3>. QED  BY <3>3, <3>4, <2>2, TypeKept, Zenon
  <2>5. lastApplied[s] > Len(log[s]) \/ lastApplied[s] <= Len(log[s])
    BY <2>1
  <2>. QED  BY <2>3, <2>4, <2>5, Zenon
<1>. QED  BY <1>1, <1>2, Zenon

\* Restarts, lost calls and failed calls keep every type.
LEMMA TypeEnvironment ==
    ASSUME TypeOK, CallFails \/ \E s \in Server : Restart(s)
    PROVE  TypeOK'
<1> USE DEF TypeOK
<1>1. CASE CallFails
  <2>1. TypeRv'
    BY <1>1, Zenon DEF CallFails, TypeRv, rvVars
  <2>2. TypeAe'
    BY <1>1, Zenon DEF CallFails, TypeAe
  <2>. QED  BY <2>1, <2>2, <1>1, TypeKept, Zenon DEF CallFails
<1>2. ASSUME NEW s \in Server, Restart(s) PROVE TypeOK'
  <2>1. /\ currentTerm' = [currentTerm EXCEPT ![s] = 0]
        /\ votedFor'    = [votedFor EXCEPT ![s] = Nil]
        /\ state'       = [state EXCEPT ![s] = FOLLOWER]
    BY <1>2, Zenon DEF Restart
  <2>2. TypeTerm'
    BY <2>1, BoundsAssumption DEF TypeTerm, Term
  <2>3. /\ log'         = [log EXCEPT ![s] = <<>>]
        /\ termToIndex' = [termToIndex EXCEPT ![s] = [t \in Term |-> 0]]
        /\ commitIndex' = [commitIndex EXCEPT ![s] = 0]
    BY <1>2, Zenon DEF Restart
  <2>4. TypeLog'
    BY <2>3 DEF TypeLog, TermMap
  <2>5. /\ lastApplied' = [lastApplied EXCEPT ![s] = 0]
        /\ applying'    = [applying EXCEPT ![s] = FALSE]
        /\ applied'     = [applied EXCEPT ![s] = <<>>]
    BY <1>2, Zenon DEF Restart
  <2>6. TypeApply'
    BY <2>5 DEF TypeApply
  <2>7. TypeElec'
    BY <1>2, Zenon DEF TypeElec, Restart
  <2>8. TypeHb'
    BY <1>2, Zenon DEF TypeHb, Restart
  <2>9. TypeRv' /\ TypeAe'
    BY <1>2, Zenon DEF TypeRv, TypeAe, Restart
  <2>10. /\ panicked' = [panicked EXCEPT ![s] = FALSE]
         /\ pending'  = [pending EXCEPT ![s] = 0]
         /\ gen'      = [gen EXCEPT ![s] = @ + 1]
         /\ cast'     = cast
    BY <1>2, Zenon DEF Restart
  <2>11. TypeMisc'
    BY <2>10 DEF TypeMisc
  <2>. QED  BY <2>2, <2>4, <2>6, <2>7, <2>8, <2>9, <2>11, Zenon
<1>. QED  BY <1>1, <1>2, Zenon

\* NextIndexSet: done grows only together with the allocation of nextIndex, and
\* only a restart, which drops the heartbeat goroutines, clears both.
LEMMA NextIndexSetStep ==
    ASSUME TypeInv, [Next]_vars
    PROVE  NextIndexSet'
<1> USE DEF TypeInv, TypeOK
<1>1. CASE UNCHANGED <<state, done, nextIndex, hbTask>>
  BY <1>1, Zenon DEF NextIndexSet
<1>2. ASSUME NEW s \in Server, AttemptEletion(s) PROVE NextIndexSet'
  BY <1>2, Zenon DEF AttemptEletion, conevrtToCandidate, TypeTerm, NextIndexSet,
              hbVars, aeVars, LEADER, CANDIDATE
<1>3. ASSUME NEW m \in rvRep, VoteReply(m) PROVE NextIndexSet'
  <2>1. m.src \in Server /\ Len(log[m.src]) + 1 >= 1 /\ UNCHANGED hbTask
    BY <1>3, LogLen DEF TypeRv, RVReply, VoteReply, aeVars
  <2>2. CASE /\ conevrtToFollower(m.src, m.replyTerm)
             /\ UNCHANGED <<elecVars, nextIndex, loops>>
    BY <2>1, <2>2, Zenon DEF conevrtToFollower, TypeTerm, NextIndexSet, elecVars,
                      LEADER, FOLLOWER
  <2>3. CASE UNCHANGED <<termVars, done, nextIndex, loops>>
    BY <2>1, <2>3, Zenon DEF NextIndexSet, termVars
  <2>4. CASE /\ done' = [done EXCEPT ![m.src] = @ \union {currentTerm[m.src]}]
             /\ conevrtToLeader(m.src)
    <3>1. \A s \in Server \ {m.src} : /\ state'[s] = state[s]
                                      /\ done'[s] = done[s]
                                      /\ nextIndex'[s] = nextIndex[s]
      BY <2>1, <2>4, Zenon DEF conevrtToLeader, TypeTerm, TypeElec, TypeHb
    <3>2. /\ done'[m.src] # {}
          /\ \A p \in Server : nextIndex'[m.src][p] >= 1
      BY <2>1, <2>4, Zenon DEF conevrtToLeader, TypeElec, TypeHb
    <3>3. \A h \in hbTask : h.src \in Server
      BY Zenon DEF TypeAe, HBTask
    <3>. QED  BY <2>1, <3>1, <3>2, <3>3, Zenon DEF NextIndexSet
  <2>. QED  BY <1>3, <2>2, <2>3, <2>4, Zenon DEF VoteReply, elecVars
<1>4. ASSUME NEW s \in Server, HeartBeat(s) PROVE NextIndexSet'
  <2>1. UNCHANGED <<state, done, nextIndex>>
    BY <1>4, Zenon DEF HeartBeat, termVars, elecVars
  <2>2. \A h \in hbTask' : h \in hbTask \/ (h.src = s /\ state[s] = LEADER)
    BY <1>4 DEF HeartBeat
  <2>. QED  BY <2>1, <2>2, Zenon DEF NextIndexSet
<1>5. ASSUME NEW h \in hbTask, SendAppendEntries(h) PROVE NextIndexSet'
  BY <1>5, Zenon DEF SendAppendEntries, termVars, elecVars, hbVars, NextIndexSet
<1>6. ASSUME NEW m \in rvReq, RequestVote(m) PROVE NextIndexSet'
  <2>1. UNCHANGED <<state, done, nextIndex, hbTask>>
    BY <1>6, Zenon DEF RequestVote, RejectStaleCandidate, RejectVoted,
                RejectOutdatedLog, GrantVote, termVars, elecVars, hbVars, aeVars
  <2>. QED  BY <1>1, <2>1, Zenon
<1>7. ASSUME NEW m \in aeReq, AppendEntries(m) PROVE NextIndexSet'
  <2>1. UNCHANGED <<done, nextIndex, hbTask>>
    BY <1>7, Zenon DEF AppendEntries, elecVars, hbVars
  <2>2. m.dst \in Server
    BY Zenon DEF TypeAe, AEArgs
  <2>3. \A s \in Server : state'[s] = LEADER => state[s] = LEADER
    BY <1>7, <2>2, Zenon DEF AppendEntries, RejectStaleLeader, StepDown, RejectMismatch,
             AcceptEntries, conevrtToFollower, termVars, TypeTerm, LEADER, FOLLOWER
  <2>. QED  BY <2>1, <2>3, Zenon DEF NextIndexSet
<1>8. ASSUME NEW m \in aeRep, AppendReply(m) PROVE NextIndexSet'
  <2>1. UNCHANGED <<done, hbTask>>
    BY <1>8, Zenon DEF AppendReply, elecVars
  <2>2. m.src \in Server /\ m.dst \in Server /\ m.prevLogTerm \in Term
    BY Zenon DEF TypeAe, AEReply
  <2>3. \A s \in Server : state'[s] = LEADER => state[s] = LEADER
    BY <1>8, <2>2, Zenon DEF AppendReply, conevrtToFollower, termVars, TypeTerm,
                      LEADER, FOLLOWER
  <2>4. /\ Backoff(termToIndex[m.src], m.prevLogTerm) >= 1
        /\ Len(log[m.src]) + 1 >= 1
    <3>1. termToIndex[m.src] \in TermMap /\ Len(log[m.src]) \in Nat
      BY <2>2, LogLen, Zenon DEF TypeLog
    <3>2. Backoff(termToIndex[m.src], m.prevLogTerm) >= 1
      BY <2>2, <3>1, BackoffRange
    <3>3. \A n \in Nat : n + 1 >= 1
      OBVIOUS
    <3>4. Len(log[m.src]) + 1 >= 1
      BY <3>1, <3>3, Zenon
    <3>. QED  BY <3>2, <3>4, Zenon
  <2>5. \/ nextIndex' = nextIndex
        \/ nextIndex' = [nextIndex EXCEPT ![m.src][m.dst] =
                            Backoff(termToIndex[m.src], m.prevLogTerm)]
        \/ nextIndex' = [nextIndex EXCEPT ![m.src][m.dst] = Len(log[m.src]) + 1]
    BY <1>8, Zenon DEF AppendReply
  <2>6. \A s, p \in Server : nextIndex'[s][p] >= 1 \/ nextIndex'[s][p] = nextIndex[s][p]
    <3>1. ASSUME NEW n, n >= 1,
                 nextIndex' = [nextIndex EXCEPT ![m.src][m.dst] = n]
          PROVE  \A s, p \in Server :
                    nextIndex'[s][p] >= 1 \/ nextIndex'[s][p] = nextIndex[s][p]
      <4>1. nextIndex \in [Server -> [Server -> Nat]]
        BY Zenon DEF TypeHb
      <4>. QED  BY <2>2, <3>1, <4>1, Zenon
    <3>. QED  BY <2>4, <2>5, <3>1, Zenon
  <2>. QED  BY <2>1, <2>3, <2>6, Zenon DEF NextIndexSet, TypeHb
<1>9. ASSUME NEW s \in Server, Restart(s) PROVE NextIndexSet'
  <2>1. /\ state' = [state EXCEPT ![s] = FOLLOWER]
        /\ done' = [done EXCEPT ![s] = {}]
        /\ nextIndex' = [nextIndex EXCEPT ![s] = [p \in Server |-> 0]]
        /\ hbTask' = {h \in hbTask : h.src # s}
    BY <1>9, Zenon DEF Restart
  <2>2. \A h \in hbTask : h.src \in Server
    BY Zenon DEF TypeAe, HBTask
  <2>. QED  BY <2>1, <2>2, Zenon DEF NextIndexSet, TypeTerm, TypeElec, TypeHb,
                              LEADER, FOLLOWER
<1>10. ASSUME \/ \E s \in Server : ElectionTimeout(s)
              \/ \E s \in Server, v \in Value : Start(s, v)
              \/ \E s \in Server : ApplyAdvance(s) \/ ApplySend(s)
              \/ CallFails
       PROVE  NextIndexSet'
  <2>1. UNCHANGED <<state, done, nextIndex, hbTask>>
    BY <1>10, Zenon DEF ElectionTimeout, Start, ApplyAdvance, ApplySend, CallFails,
                 termVars, elecVars, hbVars, aeVars
  <2>. QED  BY <1>1, <2>1, Zenon
<1>11. CASE UNCHANGED vars
  BY <1>1, <1>11, Zenon DEF vars, termVars, elecVars, hbVars, aeVars
<1>. QED  BY <1>2, <1>3, <1>4, <1>5, <1>6, <1>7, <1>8, <1>9, <1>10, <1>11, Zenon DEF Next

\* lastApplied is raised by the same step that sets applying.
LEMMA ApplyingSetStep ==
    ASSUME TypeInv, [Next]_vars
    PROVE  ApplyingSet'
<1> USE DEF TypeInv, TypeOK
<1>1. CASE UNCHANGED applyVars
  BY <1>1, Zenon DEF applyVars, ApplyingSet
<1>2. ASSUME NEW s \in Server, ApplyAdvance(s) PROVE ApplyingSet'
  BY <1>2 DEF ApplyAdvance, TypeApply, ApplyingSet
<1>3. ASSUME NEW s \in Server, ApplySend(s) PROVE ApplyingSet'
  BY <1>3, Zenon DEF ApplySend, TypeApply, ApplyingSet
<1>4. ASSUME NEW s \in Server, Restart(s) PROVE ApplyingSet'
  BY <1>4, Zenon DEF Restart, TypeApply, ApplyingSet
<1>5. ASSUME \/ \E s \in Server : ElectionTimeout(s) \/ AttemptEletion(s) \/ HeartBeat(s)
             \/ \E m \in rvReq : RequestVote(m)
             \/ \E m \in rvRep : VoteReply(m)
             \/ \E s \in Server, v \in Value : Start(s, v)
             \/ \E h \in hbTask : SendAppendEntries(h)
             \/ \E m \in aeReq : AppendEntries(m)
             \/ \E m \in aeRep : AppendReply(m)
             \/ CallFails
      PROVE  ApplyingSet'
  BY <1>1, <1>5, Zenon DEF ElectionTimeout, AttemptEletion, HeartBeat, RequestVote,
     VoteReply, Start, SendAppendEntries, AppendEntries, AppendReply, CallFails
<1>6. CASE UNCHANGED vars
  BY <1>1, <1>6, Zenon DEF vars
<1>. QED  BY <1>2, <1>3, <1>4, <1>5, <1>6, Zenon DEF Next

\* Every step keeps every type: the lemmas above, one per action of Next.
LEMMA TypeStep ==
    ASSUME TypeInv, [Next]_vars
    PROVE  TypeInv'
<1>1. TypeOK'
  <2>1. CASE UNCHANGED vars
    BY <2>1, TypeKept, Zenon DEF vars, TypeInv, TypeOK
  <2>. QED
    BY <2>1, TypeTimeout, TypeAttempt, TypeRequestVote, TypeVoteReply, TypeStart,
       TypeHeartBeat, TypeSend, TypeAppendEntries, TypeAppendReply,
       TypeApplyLoop, TypeEnvironment, Zenon DEF Next, TypeInv
<1>. QED  BY <1>1, NextIndexSetStep, ApplyingSetStep, Zenon DEF TypeInv

\* Every reachable state of the peers is well typed: no handler stores a term,
\* an index or an entry out of its range (nextIndex-1 is never negative, the
\* entry being applied is never the dummy).
THEOREM TypeCorrect == Spec => []TypeOK
<1>1. Init => TypeInv
  BY TypeInit, Zenon
<1>2. TypeInv /\ [Next]_vars => TypeInv'
  BY TypeStep, Zenon
<1>3. TypeInv => TypeOK
  BY Zenon DEF TypeInv
<1>. QED  BY <1>1, <1>2, <1>3, PTL DEF Spec

----------------------------------------------------------------------------
(* Terms only grow *)

\* conevrtToFollower and the two handlers never lower rf.currentTerm: only a
\* crash does.
LEMMA TermsGrow ==
    ASSUME TypeOK, [Next]_vars, \A s \in Server : ~Restart(s)
    PROVE  \A s \in Server : currentTerm'[s] >= currentTerm[s]
<1> USE DEF TypeOK
<1>0. currentTerm \in [Server -> Nat]
  BY BoundsAssumption DEF TypeTerm, Term
<1>1. CASE UNCHANGED termVars
  BY <1>0, <1>1 DEF termVars
<1>2. ASSUME NEW s \in Server, AttemptEletion(s)
      PROVE  \A r \in Server : currentTerm'[r] >= currentTerm[r]
  BY <1>0, <1>2 DEF AttemptEletion, conevrtToCandidate
<1>3. ASSUME NEW m \in rvReq, RequestVote(m)
      PROVE  \A r \in Server : currentTerm'[r] >= currentTerm[r]
  <2>1. m.dst \in Server /\ m.term \in Nat
    BY BoundsAssumption DEF TypeRv, RVArgs, Term
  <2>2. \/ UNCHANGED termVars
        \/ /\ currentTerm[m.dst] <= m.term
           /\ currentTerm' = [currentTerm EXCEPT ![m.dst] = m.term]
    BY <1>3, Zenon DEF RequestVote, RejectStaleCandidate, RejectVoted,
                RejectOutdatedLog, GrantVote
  <2>. QED  BY <1>0, <1>1, <2>1, <2>2
<1>4. ASSUME NEW m \in rvRep, VoteReply(m)
      PROVE  \A r \in Server : currentTerm'[r] >= currentTerm[r]
  <2>1. m.src \in Server /\ m.replyTerm \in Nat
    BY BoundsAssumption DEF TypeRv, RVReply, Term
  <2>2. \/ UNCHANGED currentTerm
        \/ /\ m.replyTerm > currentTerm[m.src]
           /\ currentTerm' = [currentTerm EXCEPT ![m.src] = m.replyTerm]
    BY <1>4, Zenon DEF VoteReply, conevrtToFollower, conevrtToLeader, termVars
  <2>. QED  BY <1>0, <2>1, <2>2
<1>5. ASSUME NEW m \in aeReq, AppendEntries(m)
      PROVE  \A r \in Server : currentTerm'[r] >= currentTerm[r]
  <2>1. m.dst \in Server /\ m.term \in Nat
    BY BoundsAssumption DEF TypeAe, AEArgs, Term
  <2>2. \/ UNCHANGED termVars
        \/ /\ currentTerm[m.dst] <= m.term
           /\ currentTerm' = [currentTerm EXCEPT ![m.dst] = m.term]
    BY <1>5, Zenon DEF AppendEntries, RejectStaleLeader, StepDown, RejectMismatch,
                AcceptEntries, AdoptTerm, conevrtToFollower
  <2>. QED  BY <1>0, <1>1, <2>1, <2>2
<1>6. ASSUME NEW m \in aeRep, AppendReply(m)
      PROVE  \A r \in Server : currentTerm'[r] >= currentTerm[r]
  <2>1. m.src \in Server /\ m.replyTerm \in Nat
    BY BoundsAssumption DEF TypeAe, AEReply, Term
  <2>2. \/ UNCHANGED termVars
        \/ /\ m.replyTerm > currentTerm[m.src]
           /\ currentTerm' = [currentTerm EXCEPT ![m.src] = m.replyTerm]
    BY <1>6, Zenon DEF AppendReply, conevrtToFollower
  <2>. QED  BY <1>0, <1>1, <2>1, <2>2
<1>7. ASSUME \/ \E s \in Server : ElectionTimeout(s) \/ HeartBeat(s)
             \/ \E s \in Server, v \in Value : Start(s, v)
             \/ \E h \in hbTask : SendAppendEntries(h)
             \/ \E s \in Server : ApplyAdvance(s) \/ ApplySend(s)
             \/ CallFails
      PROVE  UNCHANGED termVars
  BY <1>7, Zenon DEF ElectionTimeout, HeartBeat, Start, SendAppendEntries, ApplyAdvance,
              ApplySend, CallFails
<1>8. CASE UNCHANGED vars
  BY <1>1, <1>8, Zenon DEF vars
<1>. QED  BY <1>1, <1>2, <1>3, <1>4, <1>5, <1>6, <1>7, <1>8, Zenon DEF Next

----------------------------------------------------------------------------
(* FollowerVoteBinds *)

\* The inductive invariant: a vote cast as FOLLOWER by the current incarnation
\* is still held as long as the voter stays in the term of the vote, and the
\* voter is still FOLLOWER.
BindInv ==
    /\ \A s \in Server : gen[s] <= MaxRestarts
    /\ \A c \in cast :
          /\ c.gen <= gen[c.voter]
          /\ c.gen = gen[c.voter] => c.term <= currentTerm[c.voter]
          /\ (c.as = FOLLOWER /\ c.gen = gen[c.voter] /\ c.term = currentTerm[c.voter])
                => state[c.voter] = FOLLOWER /\ votedFor[c.voter] = c.cand
    /\ FollowerVoteBinds

\* The server enters a later term, or stays and was no FOLLOWER, or stays and
\* keeps its state and vote.
KeepsVote(s) ==
    \/ currentTerm'[s] > currentTerm[s]
    \/ currentTerm'[s] = currentTerm[s] /\ state[s] # FOLLOWER
    \/ /\ currentTerm'[s] = currentTerm[s]
       /\ state'[s] = state[s] /\ votedFor'[s] = votedFor[s]

\* A step that casts no vote, and takes no FOLLOWER's vote back within a term.
LEMMA BindKept ==
    ASSUME TypeOK, TypeOK', BindInv, UNCHANGED <<gen, cast>>,
           \A s \in Server : KeepsVote(s)
    PROVE  BindInv'
<1>1. currentTerm \in [Server -> Nat] /\ currentTerm' \in [Server -> Nat]
  BY BoundsAssumption DEF TypeOK, TypeTerm, Term
<1>2. ASSUME NEW c \in cast
      PROVE  /\ c.gen <= gen[c.voter]
             /\ c.gen = gen[c.voter] => c.term <= currentTerm'[c.voter]
             /\ (c.as = FOLLOWER /\ c.gen = gen[c.voter] /\ c.term = currentTerm'[c.voter])
                   => state'[c.voter] = FOLLOWER /\ votedFor'[c.voter] = c.cand
  <2>1. c.voter \in Server /\ c.term \in Nat
    BY BoundsAssumption DEF TypeOK, TypeMisc, Vote, Term
  <2>2. currentTerm[c.voter] \in Nat /\ currentTerm'[c.voter] \in Nat
    BY <1>1, <2>1, Zenon
  <2>3. KeepsVote(c.voter)
    BY <2>1, Zenon
  <2>. QED  BY <2>1, <2>2, <2>3 DEF BindInv, KeepsVote
<1>3. FollowerVoteBinds'
  BY Zenon DEF BindInv, FollowerVoteBinds
<1>. QED  BY <1>2, <1>3, Zenon DEF BindInv

\* The invariant holds before any vote.
LEMMA BindInit == Init => BindInv
BY BoundsAssumption DEF Init, BindInv, FollowerVoteBinds

\* AttemptEletion casts a vote of a new term, as CANDIDATE.
LEMMA BindAttempt ==
    ASSUME TypeOK, TypeOK', BindInv, NEW s \in Server, AttemptEletion(s)
    PROVE  BindInv'
<1> DEFINE d == [voter |-> s, cand |-> s, term |-> currentTerm[s] + 1,
                 gen |-> gen[s], as |-> CANDIDATE]
<1>1. /\ currentTerm' = [currentTerm EXCEPT ![s] = @ + 1]
      /\ state' = [state EXCEPT ![s] = CANDIDATE]
      /\ votedFor' = [votedFor EXCEPT ![s] = s]
      /\ cast' = cast \union {d}
      /\ UNCHANGED gen
  BY Zenon DEF AttemptEletion, conevrtToCandidate
<1>2. /\ currentTerm \in [Server -> Nat] /\ currentTerm' \in [Server -> Nat]
      /\ gen \in [Server -> Nat]
  BY BoundsAssumption DEF TypeOK, TypeTerm, TypeMisc, Term
<1>3. ASSUME NEW c \in cast
      PROVE  /\ c.gen <= gen[c.voter]
             /\ c.gen = gen[c.voter] => c.term <= currentTerm'[c.voter]
             /\ (c.as = FOLLOWER /\ c.gen = gen[c.voter] /\ c.term = currentTerm'[c.voter])
                   => state'[c.voter] = FOLLOWER /\ votedFor'[c.voter] = c.cand
  <2>1. c.voter \in Server /\ c.term \in Nat
    BY BoundsAssumption DEF TypeOK, TypeMisc, Vote, Term
  <2>2. CASE c.voter = s
    <3>1. currentTerm'[s] = currentTerm[s] + 1 /\ currentTerm[s] \in Nat
      BY <1>1, <1>2, Zenon
    <3>. QED  BY <2>1, <2>2, <3>1 DEF BindInv
  <2>3. CASE c.voter # s
    <3>1. /\ currentTerm'[c.voter] = currentTerm[c.voter]
          /\ state'[c.voter] = state[c.voter]
          /\ votedFor'[c.voter] = votedFor[c.voter]
      BY <1>1, <2>1, <2>3, Zenon DEF TypeOK, TypeTerm
    <3>. QED  BY <3>1, Zenon DEF BindInv
  <2>. QED  BY <2>2, <2>3, Zenon
<1>4. /\ d.voter = s /\ d.gen = gen[s] /\ d.as # FOLLOWER
      /\ d.term = currentTerm'[s] /\ gen[s] \in Nat /\ currentTerm'[s] \in Nat
  BY <1>1, <1>2, Zenon DEF FOLLOWER, CANDIDATE
<1> HIDE DEF d
<1>5. FollowerVoteBinds'
  BY <1>1, <1>4, Zenon DEF BindInv, FollowerVoteBinds
<1>. QED  BY <1>1, <1>3, <1>4, <1>5 DEF BindInv

\* RequestVote casts a second vote of a FOLLOWER in one term only for the
\* candidate it already voted for.
LEMMA BindRequestVote ==
    ASSUME TypeOK, TypeOK', BindInv, NEW m \in rvReq, RequestVote(m)
    PROVE  BindInv'
<1> DEFINE s == m.dst
<1>1. /\ s \in Server /\ m.src \in Server /\ m.term \in Nat
  BY BoundsAssumption DEF TypeOK, TypeRv, RVArgs, Term
<1>2. /\ currentTerm \in [Server -> Nat] /\ currentTerm' \in [Server -> Nat]
      /\ gen \in [Server -> Nat]
  BY BoundsAssumption DEF TypeOK, TypeTerm, TypeMisc, Term
<1>3. UNCHANGED gen
  BY Zenon DEF RequestVote
<1>4. CASE UNCHANGED <<termVars, cast>>
  BY <1>2, <1>3, <1>4, BindKept, Zenon DEF termVars, KeepsVote
<1>5. CASE RejectOutdatedLog(m)
  <2>1. /\ UNCHANGED <<state, cast>>
        /\ currentTerm[s] <= m.term
        /\ currentTerm' = [currentTerm EXCEPT ![s] = m.term]
        /\ votedFor' = [votedFor EXCEPT ![s] = HeldVote(s, m.term)]
    BY <1>5, Zenon DEF RejectOutdatedLog
  <2>2. \A r \in Server : KeepsVote(r)
    BY <1>1, <1>2, <2>1 DEF KeepsVote, HeldVote, TypeOK, TypeTerm
  <2>. QED  BY <1>3, <2>1, <2>2, BindKept, Zenon
<1>6. CASE GrantVote(m)
  <2> DEFINE d == [voter |-> s, cand |-> m.src, term |-> m.term,
                   gen |-> gen[s], as |-> state[s]]
  <2>1. /\ currentTerm[s] <= m.term
        /\ HeldVote(s, m.term) \in {Nil, m.src}
        /\ currentTerm' = [currentTerm EXCEPT ![s] = m.term]
        /\ votedFor' = [votedFor EXCEPT ![s] = m.src]
        /\ cast' = cast \union {d}
        /\ UNCHANGED state
    BY <1>6, Zenon DEF GrantVote
  <2>2. /\ d.voter = s /\ d.gen = gen[s] /\ d.as = state[s] /\ d.term = m.term
        /\ d.cand = m.src /\ gen[s] \in Nat
        /\ currentTerm'[s] = m.term /\ currentTerm[s] \in Nat
        /\ votedFor'[s] = m.src /\ state'[s] = state[s]
    BY <1>1, <1>2, <2>1, Zenon DEF TypeOK, TypeTerm
  <2> HIDE DEF d
  <2>3. ASSUME NEW c \in cast, c.voter = s, c.gen = gen[s], c.term = m.term,
               c.as = FOLLOWER
        PROVE  c.cand = m.src /\ state[s] = FOLLOWER
    <3>1. c.cand \in Server /\ c.cand # Nil
      BY NilAssumption, Zenon DEF TypeOK, TypeMisc, Vote
    <3>2. c.term <= currentTerm[s]
      BY <2>3, Zenon DEF BindInv
    <3>3. c.term = currentTerm[s]
      BY <1>1, <2>1, <2>2, <2>3, <3>2
    <3>4. state[s] = FOLLOWER /\ votedFor[s] = c.cand
      BY <2>3, <3>3, Zenon DEF BindInv
    <3>5. HeldVote(s, m.term) = votedFor[s]
      BY <2>2, <2>3, <3>3 DEF HeldVote
    <3>. QED  BY <2>1, <3>1, <3>4, <3>5, Zenon
  <2>4. ASSUME NEW c \in cast
        PROVE  /\ c.gen <= gen[c.voter]
               /\ c.gen = gen[c.voter] => c.term <= currentTerm'[c.voter]
               /\ (c.as = FOLLOWER /\ c.gen = gen[c.voter]
                      /\ c.term = currentTerm'[c.voter])
                     => state'[c.voter] = FOLLOWER /\ votedFor'[c.voter] = c.cand
    <3>1. c.voter \in Server /\ c.term \in Nat
      BY BoundsAssumption DEF TypeOK, TypeMisc, Vote, Term
    <3>2. CASE c.voter = s
      BY <1>1, <2>1, <2>2, <2>3, <3>1, <3>2 DEF BindInv
    <3>3. CASE c.voter # s
      <4>1. /\ currentTerm'[c.voter] = currentTerm[c.voter]
            /\ state'[c.voter] = state[c.voter]
            /\ votedFor'[c.voter] = votedFor[c.voter]
        BY <1>1, <2>1, <3>1, <3>3, Zenon DEF TypeOK, TypeTerm
      <4>. QED  BY <4>1, Zenon DEF BindInv
    <3>. QED  BY <3>2, <3>3, Zenon
  <2>5. FollowerVoteBinds'
    <3>1. ASSUME NEW c \in cast, c.voter = d.voter, c.term = d.term,
                 c.gen = d.gen, c.as = FOLLOWER
          PROVE  c.cand = d.cand
      BY <2>2, <2>3, <3>1, Zenon
    <3>. QED  BY <2>1, <3>1 DEF BindInv, FollowerVoteBinds
  <2>6. /\ d.gen <= gen[d.voter]
        /\ d.gen = gen[d.voter] => d.term <= currentTerm'[d.voter]
        /\ (d.as = FOLLOWER /\ d.gen = gen[d.voter] /\ d.term = currentTerm'[d.voter])
              => state'[d.voter] = FOLLOWER /\ votedFor'[d.voter] = d.cand
    BY <1>1, <2>2
  <2>. QED  BY <1>3, <2>1, <2>4, <2>5, <2>6, Zenon DEF BindInv
<1>. QED
  BY <1>4, <1>5, <1>6, Zenon DEF RequestVote, RejectStaleCandidate, RejectVoted

\* Every step preserves the invariant.
LEMMA BindStep ==
    ASSUME TypeOK, TypeOK', BindInv, [Next]_vars
    PROVE  BindInv'
<1>0. currentTerm \in [Server -> Nat] /\ gen \in [Server -> Nat]
  BY BoundsAssumption DEF TypeOK, TypeTerm, TypeMisc, Term
<1>1. CASE UNCHANGED <<termVars, gen, cast>>
  BY <1>0, <1>1, BindKept, Zenon DEF termVars, KeepsVote
<1>2. ASSUME NEW m \in rvRep, VoteReply(m) PROVE BindInv'
  <2>1. m.src \in Server /\ m.replyTerm \in Nat /\ UNCHANGED <<gen, cast>>
    BY <1>2, BoundsAssumption DEF VoteReply, TypeOK, TypeRv, RVReply, Term
  <2>2. CASE m.replyTerm > currentTerm[m.src] /\ conevrtToFollower(m.src, m.replyTerm)
    <3>1. \A r \in Server : KeepsVote(r)
      BY <1>0, <2>1, <2>2, Zenon DEF conevrtToFollower, KeepsVote, TypeOK, TypeTerm
    <3>. QED  BY <2>1, <3>1, BindKept, Zenon
  <2>3. CASE state[m.src] = CANDIDATE /\ conevrtToLeader(m.src)
    <3>1. \A r \in Server : KeepsVote(r)
      BY <1>0, <2>1, <2>3, Zenon DEF conevrtToLeader, KeepsVote, TypeOK, TypeTerm,
                              CANDIDATE, FOLLOWER
    <3>. QED  BY <2>1, <3>1, BindKept, Zenon
  <2>4. CASE UNCHANGED termVars
    BY <1>1, <2>1, <2>4, Zenon
  <2>. QED  BY <1>2, <2>2, <2>3, <2>4, Zenon DEF VoteReply, Wins
<1>3. ASSUME NEW m \in aeReq, AppendEntries(m) PROVE BindInv'
  <2> DEFINE s == m.dst
  <2>1. s \in Server /\ m.term \in Nat /\ UNCHANGED <<gen, cast>>
    BY <1>3, BoundsAssumption DEF AppendEntries, TypeOK, TypeAe, AEArgs, Term
  <2>2. \/ UNCHANGED termVars
        \/ /\ currentTerm[s] <= m.term
           /\ currentTerm' = [currentTerm EXCEPT ![s] = m.term]
           /\ \/ UNCHANGED <<state, votedFor>>
              \/ /\ state[s] # FOLLOWER
                 /\ state' = [state EXCEPT ![s] = FOLLOWER]
                 /\ votedFor' = [votedFor EXCEPT ![s] = Nil]
    BY <1>3, Zenon DEF AppendEntries, RejectStaleLeader, StepDown, RejectMismatch,
                AcceptEntries, AdoptTerm, conevrtToFollower
  <2>3. \A r \in Server : KeepsVote(r)
    BY <1>0, <2>1, <2>2 DEF KeepsVote, termVars, TypeOK, TypeTerm
  <2>. QED  BY <2>1, <2>3, BindKept, Zenon
<1>4. ASSUME NEW m \in aeRep, AppendReply(m) PROVE BindInv'
  <2>1. m.src \in Server /\ m.replyTerm \in Nat /\ UNCHANGED <<gen, cast>>
    BY <1>4, BoundsAssumption DEF AppendReply, TypeOK, TypeAe, AEReply, Term
  <2>2. CASE m.replyTerm > currentTerm[m.src] /\ conevrtToFollower(m.src, m.replyTerm)
    <3>1. \A r \in Server : KeepsVote(r)
      BY <1>0, <2>1, <2>2, Zenon DEF conevrtToFollower, KeepsVote, TypeOK, TypeTerm
    <3>. QED  BY <2>1, <3>1, BindKept, Zenon
  <2>3. CASE UNCHANGED termVars
    BY <1>1, <2>1, <2>3, Zenon
  <2>. QED  BY <1>4, <2>2, <2>3, Zenon DEF AppendReply
<1>5. ASSUME NEW s \in Server, Restart(s) PROVE BindInv'
  <2>1. /\ gen[s] < MaxRestarts /\ gen' = [gen EXCEPT ![s] = @ + 1]
        /\ currentTerm' = [currentTerm EXCEPT ![s] = 0]
        /\ votedFor' = [votedFor EXCEPT ![s] = Nil]
        /\ state' = [state EXCEPT ![s] = FOLLOWER]
        /\ UNCHANGED cast
    BY <1>5, Zenon DEF Restart
  <2>2. \A r \in Server : gen'[r] <= MaxRestarts
    BY <1>0, <2>1, BoundsAssumption DEF BindInv
  <2>3. ASSUME NEW c \in cast
        PROVE  /\ c.gen <= gen'[c.voter]
               /\ c.gen = gen'[c.voter] => c.term <= currentTerm'[c.voter]
               /\ (c.as = FOLLOWER /\ c.gen = gen'[c.voter]
                      /\ c.term = currentTerm'[c.voter])
                     => state'[c.voter] = FOLLOWER /\ votedFor'[c.voter] = c.cand
    <3>1. c.voter \in Server /\ c.gen \in Nat
      BY Zenon DEF TypeOK, TypeMisc, Vote
    <3>2. CASE c.voter = s
      <4>1. gen'[s] = gen[s] + 1 /\ gen[s] \in Nat /\ c.gen <= gen[s]
        BY <1>0, <2>1, <3>2, Zenon DEF BindInv
      <4>. QED  BY <3>1, <3>2, <4>1
    <3>3. CASE c.voter # s
      <4>1. /\ currentTerm'[c.voter] = currentTerm[c.voter]
            /\ state'[c.voter] = state[c.voter] /\ gen'[c.voter] = gen[c.voter]
            /\ votedFor'[c.voter] = votedFor[c.voter]
        BY <1>0, <2>1, <3>1, <3>3, Zenon DEF TypeOK, TypeTerm
      <4>. QED  BY <4>1, Zenon DEF BindInv
    <3>. QED  BY <3>2, <3>3, Zenon
  <2>4. FollowerVoteBinds'
    BY <2>1, Zenon DEF BindInv, FollowerVoteBinds
  <2>. QED  BY <2>1, <2>2, <2>3, <2>4, Zenon DEF BindInv
<1>6. ASSUME \/ \E s \in Server : ElectionTimeout(s) \/ HeartBeat(s)
             \/ \E s \in Server, v \in Value : Start(s, v)
             \/ \E h \in hbTask : SendAppendEntries(h)
             \/ \E s \in Server : ApplyAdvance(s) \/ ApplySend(s)
             \/ CallFails
      PROVE  UNCHANGED <<termVars, gen, cast>>
  BY <1>6, Zenon DEF ElectionTimeout, HeartBeat, Start, SendAppendEntries, ApplyAdvance,
              ApplySend, CallFails
<1>7. CASE UNCHANGED vars
  BY <1>1, <1>7, Zenon DEF vars
<1>. QED
  BY <1>1, <1>2, <1>3, <1>4, <1>5, <1>6, <1>7, BindAttempt, BindRequestVote, Zenon DEF Next

\* RequestVote never lets a FOLLOWER that does not crash vote for two
\* candidates of one term, whatever clears votedFor in between.
THEOREM FollowerVotesBind == Spec => []FollowerVoteBinds
<1>1. Init => TypeInv /\ BindInv
  BY TypeInit, BindInit, Zenon
<1>2. TypeInv /\ BindInv /\ [Next]_vars => TypeInv' /\ BindInv'
  BY TypeStep, BindStep, Zenon DEF TypeInv
<1>3. BindInv => FollowerVoteBinds
  BY Zenon DEF BindInv
<1>. QED  BY <1>1, <1>2, <1>3, PTL DEF Spec

----------------------------------------------------------------------------
(* Ordered logs *)

\* The terms of l never decrease and lie in 1 .. t.
Ordered(l, t) ==
    \A i \in 1 .. Len(l) : /\ l[i].term \in 1 .. t
                           /\ \A j \in 1 .. i : l[j].term <= l[i].term

\* The entries of a request continue a log that ends in its PrevLogTerm.
Continues(m) ==
    /\ m.prevLogTerm <= m.term
    /\ Ordered(m.entries, m.term)
    /\ \A i \in 1 .. Len(m.entries) : m.prevLogTerm <= m.entries[i].term

\* An ordered log stays ordered when the term of its server grows.
LEMMA OrderedHigher ==
    ASSUME NEW l \in Seq(Entry), NEW t \in Nat, NEW u \in Nat, t <= u, Ordered(l, t)
    PROVE  Ordered(l, u)
BY DEF Ordered

\* What Start appends keeps the log ordered.
LEMMA OrderedAppend ==
    ASSUME NEW l \in Seq(Entry), NEW t \in Nat, t >= 1, Ordered(l, t),
           NEW e \in Entry, e.term = t
    PROVE  Ordered(Append(l, e), t)
<1>1. /\ Len(Append(l, e)) = Len(l) + 1
      /\ Append(l, e)[Len(l) + 1] = e
      /\ \A i \in 1 .. Len(l) : Append(l, e)[i] = l[i]
  OBVIOUS
<1>2. Len(l) \in Nat
  OBVIOUS
<1> SUFFICES ASSUME NEW i \in 1 .. Len(l) + 1
             PROVE  /\ Append(l, e)[i].term \in 1 .. t
                    /\ \A j \in 1 .. i : Append(l, e)[j].term <= Append(l, e)[i].term
  BY <1>1, Zenon DEF Ordered
<1>3. CASE i \in 1 .. Len(l)
  BY <1>1, <1>2, <1>3 DEF Ordered
<1>4. CASE i = Len(l) + 1
  <2>1. \A j \in 1 .. Len(l) : l[j].term <= t
    BY DEF Ordered
  <2>. QED  BY <1>1, <1>2, <1>4, <2>1
<1>. QED  BY <1>2, <1>3, <1>4

\* The suffix a heartbeat carries continues the log it was cut from.
LEMMA OrderedSuffix ==
    ASSUME NEW l \in Seq(Entry), NEW t \in Nat, Ordered(l, t),
           NEW n \in 1 .. Len(l) + 1
    PROVE  /\ TermAt(l, n - 1) <= t
           /\ Ordered(SubSeq(l, n, Len(l)), t)
           /\ \A i \in 1 .. Len(SubSeq(l, n, Len(l))) :
                 TermAt(l, n - 1) <= SubSeq(l, n, Len(l))[i].term
<1> DEFINE q == SubSeq(l, n, Len(l))
<1>1. /\ Len(q) = Len(l) - n + 1
      /\ \A i \in 1 .. Len(l) - n + 1 : q[i] = l[n + i - 1]
  BY Suffix, Zenon
<1>2. Len(l) \in Nat /\ n \in Nat /\ n >= 1
  OBVIOUS
<1> HIDE DEF q
<1>3. TermAt(l, n - 1) <= t
  <2>1. CASE n = 1
    BY <2>1 DEF TermAt
  <2>2. CASE n # 1
    <3>1. n - 1 \in 1 .. Len(l) /\ n - 1 # 0
      BY <1>2, <2>2
    <3>. QED  BY <3>1 DEF TermAt, Ordered
  <2>. QED  BY <2>1, <2>2, Zenon
<1>4. Ordered(q, t)
  <2> SUFFICES ASSUME NEW i \in 1 .. Len(l) - n + 1, NEW j \in 1 .. i
               PROVE  q[i].term \in 1 .. t /\ q[j].term <= q[i].term
    BY <1>1, <1>2 DEF Ordered
  <2>1. /\ n + i - 1 \in 1 .. Len(l) /\ n + j - 1 \in 1 .. n + i - 1
        /\ j \in 1 .. Len(l) - n + 1
    BY <1>2
  <2>. QED  BY <1>1, <2>1, Zenon DEF Ordered
<1>5. \A i \in 1 .. Len(q) : TermAt(l, n - 1) <= q[i].term
  <2> SUFFICES ASSUME NEW i \in 1 .. Len(l) - n + 1
               PROVE  TermAt(l, n - 1) <= l[n + i - 1].term
    BY <1>1, Zenon
  <2>1. n + i - 1 \in 1 .. Len(l)
    BY <1>2
  <2>2. l[n + i - 1].term \in 1 .. t
    BY <2>1, Zenon DEF Ordered
  <2>3. CASE n = 1
    BY <2>2, <2>3 DEF TermAt
  <2>4. CASE n # 1
    <3>1. n - 1 \in 1 .. n + i - 1 /\ n - 1 # 0
      BY <1>2, <2>4
    <3>. QED  BY <2>1, <3>1, Zenon DEF TermAt, Ordered
  <2>. QED  BY <2>3, <2>4, Zenon
<1>. QED  BY <1>3, <1>4, <1>5, Zenon DEF q

\* Cutting behind a matching PrevLogIndex and appending keeps a log ordered.
LEMMA OrderedSplice ==
    ASSUME NEW l \in Seq(Entry), NEW t \in Nat, Ordered(l, t),
           NEW m \in AEArgs, Continues(m), Matches(m, l), t <= m.term
    PROVE  Ordered(NewLog(m, l), m.term)
<1> DEFINE q == NewLog(m, l)
           k == m.prevLogIndex
<1>1. /\ k \in Nat /\ k <= Len(l) /\ m.entries \in Seq(Entry)
      /\ m.term \in Nat /\ m.prevLogTerm \in Nat
  BY BoundsAssumption DEF Matches, AEArgs, Term
<1>2. /\ Len(q) = k + Len(m.entries)
      /\ \A i \in 1 .. k + Len(m.entries) :
            q[i] = IF i <= k THEN l[i] ELSE m.entries[i - k]
  BY <1>1, Splice, Zenon
<1>3. Len(l) \in Nat /\ Len(m.entries) \in Nat
  BY <1>1
<1>4. \A i \in 1 .. k : l[i].term \in 1 .. t /\ l[i].term <= m.prevLogTerm
  <2> SUFFICES ASSUME NEW i \in 1 .. k
               PROVE  l[i].term \in 1 .. t /\ l[i].term <= m.prevLogTerm
    OBVIOUS
  <2>1. k # 0 /\ k \in 1 .. Len(l) /\ i \in 1 .. Len(l)
    BY <1>1
  <2>2. TermAt(l, k) = m.prevLogTerm
    BY Zenon DEF Matches
  <2>3. l[k].term = m.prevLogTerm
    BY <2>1, <2>2, Zenon DEF TermAt
  <2>. QED  BY <2>1, <2>3, Zenon DEF Ordered
<1> HIDE DEF q, k
<1> SUFFICES ASSUME NEW i \in 1 .. k + Len(m.entries), NEW j \in 1 .. i
             PROVE  q[i].term \in 1 .. m.term /\ q[j].term <= q[i].term
  BY <1>1, <1>2, <1>3 DEF Ordered, q
<1>5. j \in 1 .. k + Len(m.entries)
  BY <1>1, <1>3
<1>6. CASE i <= k
  <2>1. i \in 1 .. Len(l) /\ i \in 1 .. k /\ j <= k
    BY <1>1, <1>6
  <2>2. l[i].term \in 1 .. t /\ l[j].term <= l[i].term
    BY <2>1, Zenon DEF Ordered
  <2>3. q[i] = l[i] /\ q[j] = l[j]
    BY <1>2, <1>5, <1>6, <2>1, Zenon
  <2>. QED  BY <1>1, <2>2, <2>3
<1>7. CASE i > k
  <2>1. i - k \in 1 .. Len(m.entries)
    BY <1>1, <1>3, <1>7
  <2>2. /\ m.entries[i - k].term \in 1 .. m.term
        /\ m.prevLogTerm <= m.entries[i - k].term
    BY <2>1, Zenon DEF Continues, Ordered
  <2>3. q[i] = m.entries[i - k]
    BY <1>1, <1>2, <1>7
  <2>4. CASE j <= k
    <3>1. q[j] = l[j] /\ j \in 1 .. k
      BY <1>1, <1>2, <1>5, <2>4
    <3>. QED  BY <1>1, <1>4, <2>2, <2>3, <3>1
  <2>5. CASE j > k
    <3>1. q[j] = m.entries[j - k] /\ j - k \in 1 .. i - k
      BY <1>1, <1>2, <1>5, <2>5
    <3>2. m.entries[j - k].term <= m.entries[i - k].term
      BY <2>1, <3>1, Zenon DEF Continues, Ordered
    <3>. QED  BY <2>2, <2>3, <3>1, <3>2, Zenon
  <2>. QED  BY <1>1, <2>4, <2>5
<1>. QED  BY <1>1, <1>6, <1>7

----------------------------------------------------------------------------
(* LogTermsOrdered *)

\* The inductive invariant: logs are ordered up to their server's term, so is
\* what AppendEntries requests carry, however long they stay in flight, and a
\* server that can Start commands has left term 0.
LogInv ==
    /\ \A s \in Server : Ordered(log[s], currentTerm[s])
    /\ \A s \in Server : state[s] # FOLLOWER => currentTerm[s] >= 1
    /\ \A m \in aeReq : Continues(m)

\* Steps that leave the logs alone, lower no term and send no request.
LEMMA LogInvKept ==
    ASSUME TypeOK, TypeOK', LogInv, UNCHANGED log, aeReq' \subseteq aeReq,
           \A s \in Server : currentTerm'[s] >= currentTerm[s],
           \A s \in Server : state'[s] # FOLLOWER =>
                                state[s] # FOLLOWER \/ currentTerm'[s] >= 1
    PROVE  LogInv'
<1>1. currentTerm \in [Server -> Nat] /\ currentTerm' \in [Server -> Nat]
  BY BoundsAssumption DEF TypeOK, TypeTerm, Term
<1>2. \A s \in Server : Ordered(log[s], currentTerm'[s])
  <2> SUFFICES ASSUME NEW s \in Server PROVE Ordered(log[s], currentTerm'[s])
    OBVIOUS
  <2>1. /\ log[s] \in Seq(Entry) /\ Ordered(log[s], currentTerm[s])
        /\ currentTerm[s] \in Nat /\ currentTerm'[s] \in Nat
        /\ currentTerm[s] <= currentTerm'[s]
    BY <1>1, LogLen, Zenon DEF LogInv
  <2>. QED  BY <2>1, OrderedHigher, Zenon
<1>3. \A s \in Server : state'[s] # FOLLOWER => currentTerm'[s] >= 1
  BY <1>1 DEF LogInv
<1>4. \A m \in aeReq' : Continues(m)
  BY Zenon DEF LogInv
<1>. QED  BY <1>2, <1>3, <1>4, Zenon DEF LogInv

\* The invariant holds when every log is empty.
LEMMA LogInvInit == Init => LogInv
BY DEF Init, LogInv, Ordered

\* Every step preserves the invariant.
LEMMA LogInvStep ==
    ASSUME TypeInv, TypeInv', LogInv, [Next]_vars
    PROVE  LogInv'
<1> USE DEF TypeInv
<1>0. currentTerm \in [Server -> Nat]
  BY BoundsAssumption DEF TypeOK, TypeTerm, Term
<1>1. ASSUME NEW s \in Server, NEW v \in Value, Start(s, v)
      PROVE  LogInv'
  <2>1. /\ log' = [log EXCEPT ![s] = Append(@, [term |-> currentTerm[s], cmd |-> v])]
        /\ UNCHANGED <<currentTerm, state, aeReq>>
        /\ state[s] = LEADER
    BY <1>1, Zenon DEF Start, termVars, aeVars
  <2>2. [term |-> currentTerm[s], cmd |-> v] \in Entry
    BY Zenon DEF TypeOK, TypeTerm, Entry
  <2>3. currentTerm[s] >= 1
    BY <2>1, Zenon DEF LogInv, LEADER, FOLLOWER
  <2>4. Ordered(Append(log[s], [term |-> currentTerm[s], cmd |-> v]), currentTerm[s])
    BY <1>0, <2>2, <2>3, LogLen, OrderedAppend, Zenon DEF LogInv
  <2>5. \A r \in Server : Ordered(log'[r], currentTerm[r])
    BY <2>1, <2>4, Zenon DEF LogInv, TypeOK, TypeLog
  <2>. QED  BY <2>1, <2>5, Zenon DEF LogInv
<1>2. ASSUME NEW h \in hbTask, SendAppendEntries(h)
      PROVE  LogInv'
  <2> DEFINE s == h.src
             n == nextIndex[s][h.dst]
  <2>1. UNCHANGED <<log, currentTerm, state>>
    BY <1>2, Zenon DEF SendAppendEntries, termVars, logVars
  <2>2. s \in Server /\ h.dst \in Server
    BY Zenon DEF TypeOK, TypeAe, HBTask
  <2>3. CASE UNCHANGED aeReq
    BY <2>1, <2>3, Zenon DEF LogInv
  <2>4. CASE aeReq' = aeReq \union {HeartBeatArgs(h)} /\ ~OutOfRange(s, h.dst)
    <3>1. n \in 1 .. Len(log[s]) + 1
      <4>1. n \in Nat /\ Len(log[s]) \in Nat
        BY <2>2, LogLen, Zenon DEF TypeOK, TypeHb
      <4>2. n >= 1
        BY <2>2, Zenon DEF NextIndexSet
      <4>3. ~(n > Len(log[s]) + 1)
        BY <2>4, Zenon DEF OutOfRange
      <4>. QED  BY <4>1, <4>2, <4>3
    <3>2. /\ TermAt(log[s], n - 1) <= currentTerm[s]
          /\ Ordered(SubSeq(log[s], n, Len(log[s])), currentTerm[s])
          /\ \A i \in 1 .. Len(SubSeq(log[s], n, Len(log[s]))) :
                TermAt(log[s], n - 1) <= SubSeq(log[s], n, Len(log[s]))[i].term
      BY <1>0, <2>2, <3>1, LogLen, OrderedSuffix, Zenon DEF LogInv
    <3>3. Continues(HeartBeatArgs(h))
      BY <3>2, Zenon DEF HeartBeatArgs, Continues
    <3>. QED  BY <2>1, <2>4, <3>3, Zenon DEF LogInv
  <2>. QED  BY <1>2, <2>3, <2>4, Zenon DEF SendAppendEntries
<1>3. ASSUME NEW m \in aeReq, AppendEntries(m)
      PROVE  LogInv'
  <2> DEFINE s == m.dst
  <2>1. /\ m \in AEArgs /\ s \in Server /\ m.term \in Nat
    BY BoundsAssumption DEF TypeOK, TypeAe, AEArgs, Term
  <2>2. aeReq' \subseteq aeReq
    BY <1>3, Zenon DEF AppendEntries, RejectStaleLeader, StepDown, RejectMismatch,
                AcceptEntries, ReplyAppend
  <2>3. \A r \in Server : state'[r] # FOLLOWER => state[r] # FOLLOWER
    BY <1>3, <2>1, Zenon DEF AppendEntries, RejectStaleLeader, StepDown, RejectMismatch,
                AcceptEntries, conevrtToFollower, termVars, TypeOK, TypeTerm
  <2>4. \/ UNCHANGED <<currentTerm, log>>
        \/ /\ currentTerm[s] <= m.term
           /\ currentTerm' = [currentTerm EXCEPT ![s] = m.term]
           /\ \/ UNCHANGED log
              \/ log' = [log EXCEPT ![s] = NewLog(m, log[s])] /\ Matches(m, log[s])
    BY <1>3, Zenon DEF AppendEntries, RejectStaleLeader, StepDown, RejectMismatch,
                AcceptEntries, AdoptTerm, conevrtToFollower, termVars, logVars
  <2>5. CASE UNCHANGED log
    <3>1. \A r \in Server : currentTerm'[r] >= currentTerm[r]
      BY <1>0, <2>1, <2>4
    <3>. QED  BY <2>2, <2>3, <2>5, <3>1, LogInvKept, Zenon
  <2>6. CASE /\ currentTerm[s] <= m.term
             /\ currentTerm' = [currentTerm EXCEPT ![s] = m.term]
             /\ log' = [log EXCEPT ![s] = NewLog(m, log[s])]
             /\ Matches(m, log[s])
    <3>1. Ordered(NewLog(m, log[s]), m.term)
      BY <1>0, <2>1, <2>6, LogLen, OrderedSplice, Zenon DEF LogInv
    <3>2. \A r \in Server : Ordered(log'[r], currentTerm'[r])
      BY <2>1, <2>6, <3>1, Zenon DEF LogInv, TypeOK, TypeLog, TypeTerm
    <3>3. \A r \in Server : state[r] # FOLLOWER => currentTerm[r] >= 1
      BY Zenon DEF LogInv
    <3>4. \A r \in Server : currentTerm'[r] >= currentTerm[r]
      BY <1>0, <2>1, <2>6
    <3>5. \A r \in Server : currentTerm[r] \in Nat /\ currentTerm'[r] \in Nat
      BY <1>0, <2>1, <2>6, Zenon
    <3>6. \A r \in Server : state'[r] # FOLLOWER => currentTerm'[r] >= 1
      BY <2>3, <3>3, <3>4, <3>5
    <3>. QED  BY <2>2, <3>2, <3>6, Zenon DEF LogInv
  <2>. QED  BY <2>4, <2>5, <2>6, Zenon
<1>4. ASSUME NEW s \in Server, Restart(s)
      PROVE  LogInv'
  <2>1. /\ currentTerm' = [currentTerm EXCEPT ![s] = 0]
        /\ state' = [state EXCEPT ![s] = FOLLOWER]
        /\ log' = [log EXCEPT ![s] = <<>>]
        /\ UNCHANGED aeReq
    BY <1>4, Zenon DEF Restart
  <2>2. Ordered(<<>>, 0)
    BY DEF Ordered
  <2>3. \A r \in Server : Ordered(log'[r], currentTerm'[r])
    BY <2>1, <2>2, Zenon DEF LogInv, TypeOK, TypeLog, TypeTerm
  <2>4. \A r \in Server : state'[r] # FOLLOWER => currentTerm'[r] >= 1
    BY <2>1, Zenon DEF LogInv, TypeOK, TypeTerm
  <2>. QED  BY <2>1, <2>3, <2>4, Zenon DEF LogInv
<1>5. ASSUME NEW s \in Server, AttemptEletion(s)
      PROVE  LogInv'
  <2>1. /\ currentTerm' = [currentTerm EXCEPT ![s] = @ + 1]
        /\ state' = [state EXCEPT ![s] = CANDIDATE]
        /\ UNCHANGED <<log, aeReq>>
    BY <1>5, Zenon DEF AttemptEletion, conevrtToCandidate, logVars, aeVars
  <2>2. \A r \in Server : currentTerm'[r] >= currentTerm[r]
    BY <1>0, <2>1
  <2>3. \A r \in Server : state'[r] # FOLLOWER =>
                             state[r] # FOLLOWER \/ currentTerm'[r] >= 1
    BY <1>0, <2>1 DEF TypeOK, TypeTerm
  <2>. QED  BY <2>1, <2>2, <2>3, LogInvKept, Zenon
<1>6. ASSUME UNCHANGED log, aeReq' \subseteq aeReq,
             \A s \in Server : ~Restart(s),
             \A s \in Server : state'[s] # FOLLOWER => state[s] # FOLLOWER
      PROVE  LogInv'
  BY <1>6, TermsGrow, LogInvKept, Zenon
<1>7. ASSUME NEW m \in rvReq, RequestVote(m), \A s \in Server : ~Restart(s)
      PROVE  LogInv'
  <2>1. UNCHANGED <<log, aeReq, state>>
    BY <1>7, Zenon DEF RequestVote, RejectStaleCandidate, RejectVoted,
                RejectOutdatedLog, GrantVote, termVars, logVars, aeVars
  <2>. QED  BY <1>6, <1>7, <2>1, Zenon
<1>8. ASSUME NEW m \in rvRep, VoteReply(m), \A s \in Server : ~Restart(s)
      PROVE  LogInv'
  <2>1. UNCHANGED <<log, aeReq>> /\ m.src \in Server
    BY <1>8, Zenon DEF VoteReply, logVars, aeVars, TypeOK, TypeRv, RVReply
  <2>2. \A s \in Server : state'[s] # FOLLOWER => state[s] # FOLLOWER
    BY <1>8, <2>1, Zenon DEF VoteReply, Wins, conevrtToFollower, conevrtToLeader,
                      termVars, TypeOK, TypeTerm, CANDIDATE, FOLLOWER
  <2>. QED  BY <1>6, <1>8, <2>1, <2>2, Zenon
<1>9. ASSUME NEW m \in aeRep, AppendReply(m), \A s \in Server : ~Restart(s)
      PROVE  LogInv'
  <2>1. UNCHANGED <<log, aeReq>> /\ m.src \in Server
    BY <1>9, Zenon DEF AppendReply, TypeOK, TypeAe, AEReply
  <2>2. \A s \in Server : state'[s] # FOLLOWER => state[s] # FOLLOWER
    BY <1>9, <2>1, Zenon DEF AppendReply, conevrtToFollower, termVars, TypeOK, TypeTerm
  <2>. QED  BY <1>6, <1>9, <2>1, <2>2, Zenon
<1>10. ASSUME \/ \E s \in Server : ElectionTimeout(s) \/ HeartBeat(s)
              \/ \E s \in Server : ApplyAdvance(s) \/ ApplySend(s)
              \/ CallFails,
              \A s \in Server : ~Restart(s)
       PROVE  LogInv'
  <2>1. UNCHANGED <<log, state>> /\ aeReq' \subseteq aeReq
    BY <1>10, Zenon DEF ElectionTimeout, HeartBeat, ApplyAdvance, ApplySend, CallFails,
                 termVars, logVars, aeVars
  <2>. QED  BY <1>6, <1>10, <2>1, Zenon
<1>11. CASE UNCHANGED vars
  BY <1>11, Zenon DEF vars, termVars, logVars, aeVars, LogInv
<1>. QED
  BY <1>1, <1>2, <1>3, <1>4, <1>5, <1>7, <1>8, <1>9, <1>10, <1>11, Zenon DEF Next

\* The terms of every log never decrease and never pass the server's term,
\* for any number of servers, terms, crashes and lost or reordered calls.
THEOREM LogTermsAreOrdered == Spec => []LogTermsOrdered
<1>1. Init => TypeInv /\ LogInv
  BY TypeInit, LogInvInit, Zenon
<1>2. TypeInv /\ LogInv /\ [Next]_vars => TypeInv' /\ LogInv'
  BY TypeStep, LogInvStep, Zenon
<1>3. LogInv => LogTermsOrdered
  BY Zenon DEF LogInv, Ordered, LogTermsOrdered
<1>. QED  BY <1>1, <1>2, <1>3, PTL DEF Spec

----------------------------------------------------------------------------
(* LeaderNextIndexInRange *)

\* The inductive invariant: termToIndex, wherever it came from, points into
\* the log it belongs to, in a server and in a request.
IndexInv ==
    /\ LeaderNextIndexInRange
    /\ \A s \in Server : \A t \in Term : termToIndex[s][t] <= Len(log[s])
    /\ \A m \in aeReq : \A t \in Term :
          m.termToIndex[t] <= m.prevLogIndex + Len(m.entries)

\* The invariant holds when no server is leader and every map is empty.
LEMMA IndexInvInit == Init => IndexInv
BY DEF Init, IndexInv, LeaderNextIndexInRange, LEADER, FOLLOWER

\* Steps that change no log and no map, send no request, move no nextIndex and
\* make no leader.
LEMMA IndexInvKept ==
    ASSUME IndexInv, UNCHANGED <<log, termToIndex, nextIndex>>, aeReq' \subseteq aeReq,
           \A s \in Server : state'[s] = LEADER => state[s] = LEADER
    PROVE  IndexInv'
BY Zenon DEF IndexInv, LeaderNextIndexInRange

\* Every step preserves the invariant.
LEMMA IndexInvStep ==
    ASSUME TypeInv, TypeInv', IndexInv, [Next]_vars
    PROVE  IndexInv'
<1> USE DEF TypeInv
<1>1. ASSUME NEW s \in Server, NEW v \in Value, Start(s, v)
      PROVE  IndexInv'
  <2> DEFINE n == Len(log[s])
             e == [term |-> currentTerm[s], cmd |-> v]
  <2>1. /\ log' = [log EXCEPT ![s] = Append(@, e)]
        /\ \/ UNCHANGED termToIndex
           \/ termToIndex' = [termToIndex EXCEPT ![s][currentTerm[s]] = n + 1]
        /\ UNCHANGED <<nextIndex, state, aeReq>>
    BY <1>1, Zenon DEF Start, termVars, hbVars, aeVars
  <2>2. log[s] \in Seq(Entry) /\ n \in Nat /\ e \in Entry
    BY LogLen, Zenon DEF TypeOK, TypeTerm, Entry
  <2>3. /\ Len(log'[s]) = n + 1
        /\ \A r \in Server \ {s} : log'[r] = log[r]
    BY <2>1, <2>2 DEF TypeOK, TypeLog
  <2>4. \A r \in Server : Len(log[r]) \in Nat /\ Len(log'[r]) >= Len(log[r])
    BY <2>2, <2>3, LogLen
  <2>5. LeaderNextIndexInRange'
    <3>1. \A r, p \in Server : nextIndex[r][p] \in Nat
      BY Zenon DEF TypeOK, TypeHb
    <3>2. \A r \in Server : Len(log'[r]) \in Nat
      BY <2>2, <2>3, <2>4
    <3>. QED  BY <2>1, <2>4, <3>1, <3>2 DEF IndexInv, LeaderNextIndexInRange
  <2>6. \A r \in Server : \A t \in Term : termToIndex'[r][t] <= Len(log'[r])
    <3> SUFFICES ASSUME NEW r \in Server, NEW t \in Term
                 PROVE  termToIndex'[r][t] <= Len(log'[r])
      OBVIOUS
    <3>1. termToIndex[r] \in TermMap /\ termToIndex[r][t] \in Nat
      BY Zenon DEF TypeOK, TypeLog, TermMap
    <3>2. termToIndex[r][t] <= Len(log[r])
      BY Zenon DEF IndexInv
    <3>3. \/ termToIndex'[r][t] = termToIndex[r][t]
          \/ r = s /\ termToIndex'[r][t] = n + 1
      <4>1. termToIndex \in [Server -> [Term -> Nat]] /\ currentTerm[s] \in Term
        BY Zenon DEF TypeOK, TypeLog, TypeTerm, TermMap
      <4> HIDE DEF n
      <4>2. CASE UNCHANGED termToIndex
        BY <4>2, Zenon
      <4>3. CASE termToIndex' = [termToIndex EXCEPT ![s][currentTerm[s]] = n + 1]
        BY <4>1, <4>3, Zenon
      <4>. QED  BY <2>1, <4>2, <4>3, Zenon
    <3>. QED  BY <2>2, <2>3, <2>4, <3>1, <3>2, <3>3
  <2>. QED  BY <2>1, <2>5, <2>6, Zenon DEF IndexInv
<1>2. ASSUME NEW h \in hbTask, SendAppendEntries(h)
      PROVE  IndexInv'
  <2> DEFINE s == h.src
             n == nextIndex[s][h.dst]
  <2>1. UNCHANGED <<log, termToIndex, nextIndex, state>>
    BY <1>2, Zenon DEF SendAppendEntries, termVars, logVars, hbVars
  <2>2. s \in Server /\ h.dst \in Server
    BY Zenon DEF TypeOK, TypeAe, HBTask
  <2>3. CASE UNCHANGED aeReq
    BY <2>1, <2>3, IndexInvKept, Zenon
  <2>4. CASE aeReq' = aeReq \union {HeartBeatArgs(h)} /\ ~OutOfRange(s, h.dst)
    <3>1. n \in Nat /\ Len(log[s]) \in Nat
      BY <2>2, LogLen, Zenon DEF TypeOK, TypeHb
    <3>2. n >= 1
      BY <2>2, Zenon DEF NextIndexSet
    <3>3. ~(n > Len(log[s]) + 1)
      BY <2>4, Zenon DEF OutOfRange
    <3>4. n \in 1 .. Len(log[s]) + 1
      BY <3>1, <3>2, <3>3
    <3>5. Len(SubSeq(log[s], n, Len(log[s]))) = Len(log[s]) - n + 1
      BY <2>2, <3>4, LogLen, Suffix, Zenon
    <3>6. \A t \in Term : HeartBeatArgs(h).termToIndex[t] <=
             HeartBeatArgs(h).prevLogIndex + Len(HeartBeatArgs(h).entries)
      <4>1. HeartBeatArgs(h).prevLogIndex + Len(HeartBeatArgs(h).entries) = Len(log[s])
        <5>1. /\ HeartBeatArgs(h).prevLogIndex = n - 1
              /\ HeartBeatArgs(h).entries = SubSeq(log[s], n, Len(log[s]))
          BY Zenon DEF HeartBeatArgs, PrevIndex
        <5>. QED  BY <3>1, <3>5, <5>1
      <4>2. HeartBeatArgs(h).termToIndex = termToIndex[s]
        BY Zenon DEF HeartBeatArgs
      <4>3. \A t \in Term : termToIndex[s][t] <= Len(log[s])
        BY <2>2, Zenon DEF IndexInv
      <4>. QED  BY <4>1, <4>2, <4>3, Zenon
    <3>7. \A m \in aeReq' : \A t \in Term :
             m.termToIndex[t] <= m.prevLogIndex + Len(m.entries)
      BY <2>4, <3>6, Zenon DEF IndexInv
    <3>. QED  BY <2>1, <3>7, Zenon DEF IndexInv, LeaderNextIndexInRange
  <2>. QED  BY <1>2, <2>3, <2>4, Zenon DEF SendAppendEntries
<1>3. ASSUME NEW m \in aeReq, AppendEntries(m)
      PROVE  IndexInv'
  <2> DEFINE s == m.dst
  <2>1. m \in AEArgs /\ s \in Server
    BY Zenon DEF TypeOK, TypeAe, AEArgs
  <2>2. aeReq' \subseteq aeReq /\ UNCHANGED nextIndex
    BY <1>3, Zenon DEF AppendEntries, RejectStaleLeader, StepDown, RejectMismatch,
                AcceptEntries, ReplyAppend, hbVars
  <2>3. \A r \in Server : state'[r] = LEADER => state[r] = LEADER
    BY <1>3, <2>1, Zenon DEF AppendEntries, RejectStaleLeader, StepDown, RejectMismatch,
                AcceptEntries, conevrtToFollower, termVars, TypeOK, TypeTerm,
                LEADER, FOLLOWER
  <2>4. \/ UNCHANGED <<log, termToIndex>>
        \/ /\ log' = [log EXCEPT ![s] = NewLog(m, log[s])]
           /\ termToIndex' = [termToIndex EXCEPT ![s] = m.termToIndex]
           /\ Matches(m, log[s])
           /\ state[s] = FOLLOWER
    BY <1>3, Zenon DEF AppendEntries, RejectStaleLeader, StepDown, RejectMismatch,
                AcceptEntries, logVars
  <2>5. CASE UNCHANGED <<log, termToIndex>>
    BY <2>2, <2>3, <2>5, IndexInvKept, Zenon
  <2>6. CASE /\ log' = [log EXCEPT ![s] = NewLog(m, log[s])]
             /\ termToIndex' = [termToIndex EXCEPT ![s] = m.termToIndex]
             /\ Matches(m, log[s])
             /\ state[s] = FOLLOWER
    <3>1. Len(NewLog(m, log[s])) = m.prevLogIndex + Len(m.entries)
      BY <2>1, <2>6, LogLen, Splice, Zenon DEF Matches
    <3>2. \A r \in Server : \A t \in Term : termToIndex'[r][t] <= Len(log'[r])
      BY <2>1, <2>6, <3>1, Zenon DEF IndexInv, TypeOK, TypeLog
    <3>3. \A r \in Server : state'[r] = LEADER => state[r] = LEADER /\ log'[r] = log[r]
      BY <2>1, <2>3, <2>6, Zenon DEF TypeOK, TypeLog, LEADER, FOLLOWER
    <3>4. LeaderNextIndexInRange'
      BY <2>2, <3>3, Zenon DEF IndexInv, LeaderNextIndexInRange
    <3>. QED  BY <2>2, <3>2, <3>4, Zenon DEF IndexInv
  <2>. QED  BY <2>4, <2>5, <2>6, Zenon
<1>4. ASSUME NEW s \in Server, Restart(s)
      PROVE  IndexInv'
  <2>1. /\ state' = [state EXCEPT ![s] = FOLLOWER]
        /\ log' = [log EXCEPT ![s] = <<>>]
        /\ termToIndex' = [termToIndex EXCEPT ![s] = [t \in Term |-> 0]]
        /\ nextIndex' = [nextIndex EXCEPT ![s] = [p \in Server |-> 0]]
        /\ UNCHANGED aeReq
    BY <1>4, Zenon DEF Restart
  <2>2. \A r \in Server : \A t \in Term : termToIndex'[r][t] <= Len(log'[r])
    <3>1. ASSUME NEW r \in Server, r # s
          PROVE  log'[r] = log[r] /\ termToIndex'[r] = termToIndex[r]
      BY <2>1, <3>1, Zenon DEF TypeOK, TypeLog
    <3>2. Len(log'[s]) = 0 /\ \A t \in Term : termToIndex'[s][t] = 0
      BY <2>1, Zenon DEF TypeOK, TypeLog
    <3>3. \A r \in Server : \A t \in Term : termToIndex[r][t] <= Len(log[r])
      BY Zenon DEF IndexInv
    <3>. QED  BY <3>1, <3>2, <3>3
  <2>3. \A r \in Server : state'[r] = LEADER =>
           /\ state[r] = LEADER
           /\ log'[r] = log[r] /\ nextIndex'[r] = nextIndex[r]
    BY <2>1, Zenon DEF TypeOK, TypeLog, TypeTerm, TypeHb, LEADER, FOLLOWER
  <2>4. LeaderNextIndexInRange'
    BY <2>3, Zenon DEF IndexInv, LeaderNextIndexInRange
  <2>. QED  BY <2>1, <2>2, <2>4, Zenon DEF IndexInv
<1>5. ASSUME NEW s \in Server, AttemptEletion(s)
      PROVE  IndexInv'
  <2>1. /\ UNCHANGED <<log, termToIndex, nextIndex, aeReq>>
        /\ state' = [state EXCEPT ![s] = CANDIDATE]
    BY <1>5, Zenon DEF AttemptEletion, conevrtToCandidate, logVars, aeVars, hbVars
  <2>2. \A r \in Server : state'[r] = LEADER => state[r] = LEADER
    BY <2>1, Zenon DEF TypeOK, TypeTerm, LEADER, CANDIDATE
  <2>. QED  BY <2>1, <2>2, IndexInvKept, Zenon
<1>6. ASSUME NEW m \in rvRep, VoteReply(m)
      PROVE  IndexInv'
  <2> DEFINE s == m.src
  <2>1. UNCHANGED <<log, termToIndex, aeReq>> /\ s \in Server
    BY <1>6, Zenon DEF VoteReply, logVars, aeVars, TypeOK, TypeRv, RVReply
  <2>2. CASE /\ state' = [state EXCEPT ![s] = LEADER]
             /\ nextIndex' = [nextIndex EXCEPT ![s] =
                                [p \in Server |-> Len(log[s]) + 1]]
    <3>1. Len(log[s]) \in Nat
      BY <2>1, LogLen, Zenon
    <3>2. \A p \in Server : nextIndex'[s][p] \in 1 .. Len(log[s]) + 1
      BY <2>1, <2>2, <3>1 DEF TypeOK, TypeHb
    <3>3. \A r \in Server \ {s} : /\ state'[r] = state[r]
                                   /\ nextIndex'[r] = nextIndex[r]
      BY <2>1, <2>2, Zenon DEF TypeOK, TypeTerm, TypeHb
    <3>4. LeaderNextIndexInRange'
      BY <2>1, <3>2, <3>3, Zenon DEF IndexInv, LeaderNextIndexInRange
    <3>. QED  BY <2>1, <3>4, Zenon DEF IndexInv
  <2>3. CASE /\ \/ state' = [state EXCEPT ![s] = FOLLOWER]
                \/ UNCHANGED state
             /\ UNCHANGED nextIndex
    <3>1. \A r \in Server : state'[r] = LEADER => state[r] = LEADER
      BY <2>1, <2>3, Zenon DEF TypeOK, TypeTerm, LEADER, FOLLOWER
    <3>. QED  BY <2>1, <2>3, <3>1, IndexInvKept, Zenon
  <2>. QED
    BY <1>6, <2>2, <2>3, Zenon DEF VoteReply, conevrtToFollower, conevrtToLeader, termVars
<1>7. ASSUME NEW m \in aeRep, AppendReply(m)
      PROVE  IndexInv'
  <2> DEFINE s == m.src
             back == Backoff(termToIndex[s], m.prevLogTerm)
  <2>1. /\ UNCHANGED <<log, termToIndex, aeReq>>
        /\ s \in Server /\ m.dst \in Server /\ m.prevLogTerm \in Term
    BY <1>7, Zenon DEF AppendReply, TypeOK, TypeAe, AEReply
  <2>2. \A r \in Server : state'[r] = LEADER => state[r] = LEADER
    BY <1>7, <2>1, Zenon DEF AppendReply, conevrtToFollower, termVars, TypeOK, TypeTerm,
                      LEADER, FOLLOWER
  <2>3. \/ UNCHANGED nextIndex
        \/ nextIndex' = [nextIndex EXCEPT ![s][m.dst] = back]
        \/ nextIndex' = [nextIndex EXCEPT ![s][m.dst] = Len(log[s]) + 1]
    BY <1>7, Zenon DEF AppendReply
  <2>4. Len(log[s]) \in Nat /\ termToIndex[s] \in TermMap
    BY <2>1, LogLen, Zenon DEF TypeOK, TypeLog
  <2>5. back \in 1 .. Len(log[s]) + 1
    <3>1. back \in Nat \ {0} /\ (back = 1 \/ \E i \in Term : back = termToIndex[s][i])
      BY <2>1, <2>4, BackoffRange, Zenon
    <3>2. \A i \in Term : termToIndex[s][i] <= Len(log[s])
      BY <2>1, Zenon DEF IndexInv
    <3> HIDE DEF back
    <3>. QED  BY <2>4, <3>1, <3>2
  <2>6. CASE UNCHANGED nextIndex
    BY <2>1, <2>2, <2>6, IndexInvKept, Zenon
  <2>7. ASSUME NEW n \in 1 .. Len(log[s]) + 1,
               nextIndex' = [nextIndex EXCEPT ![s][m.dst] = n]
        PROVE  IndexInv'
    <3>1. nextIndex \in [Server -> [Server -> Nat]]
      BY Zenon DEF TypeOK, TypeHb
    <3>2. \A r, p \in Server : \/ nextIndex'[r][p] = nextIndex[r][p]
                               \/ r = s /\ nextIndex'[r][p] = n
      BY <2>1, <2>7, <3>1, Zenon
    <3>3. LeaderNextIndexInRange'
      BY <2>1, <2>2, <3>2, Zenon DEF IndexInv, LeaderNextIndexInRange
    <3>. QED  BY <2>1, <3>3, Zenon DEF IndexInv
  <2>8. Len(log[s]) + 1 \in 1 .. Len(log[s]) + 1
    BY <2>4
  <2>. QED  BY <2>3, <2>5, <2>6, <2>7, <2>8, Zenon
<1>8. ASSUME \/ \E s \in Server : ElectionTimeout(s) \/ HeartBeat(s)
             \/ \E m \in rvReq : RequestVote(m)
             \/ \E s \in Server : ApplyAdvance(s) \/ ApplySend(s)
             \/ CallFails
      PROVE  IndexInv'
  <2>1. UNCHANGED <<log, termToIndex, nextIndex, state>> /\ aeReq' \subseteq aeReq
    BY <1>8, Zenon DEF ElectionTimeout, HeartBeat, RequestVote, RejectStaleCandidate,
       RejectVoted, RejectOutdatedLog, GrantVote, ApplyAdvance, ApplySend,
       CallFails, termVars, logVars, hbVars, aeVars
  <2>. QED  BY <2>1, IndexInvKept, Zenon
<1>9. CASE UNCHANGED vars
  BY <1>9, IndexInvKept, Zenon DEF vars, termVars, logVars, hbVars, aeVars
<1>. QED
  BY <1>1, <1>2, <1>3, <1>4, <1>5, <1>6, <1>7, <1>8, <1>9, Zenon DEF Next

\* A leader's heartbeats never index its log out of range, although the index
\* they back off to comes from a termToIndex another leader built.
THEOREM LeaderIndexesInRange == Spec => []LeaderNextIndexInRange
<1>1. Init => TypeInv /\ IndexInv
  BY TypeInit, IndexInvInit, Zenon
<1>2. TypeInv /\ IndexInv /\ [Next]_vars => TypeInv' /\ IndexInv'
  BY TypeStep, IndexInvStep, Zenon
<1>3. IndexInv => LeaderNextIndexInRange
  BY Zenon DEF IndexInv
<1>. QED  BY <1>1, <1>2, <1>3, PTL DEF Spec

----------------------------------------------------------------------------
(* Calls in flight *)

\* The two messages belong to the same call.
SameCall(m, n) ==
    m.src = n.src /\ m.dst = n.dst /\ m.term = n.term /\ m.gen = n.gen

\* A call is in flight once, as a request or as a reply; it was made by an
\* election the caller has begun; a granted reply comes from a voter.
CallInv ==
    /\ \A m \in rvReq \union rvRep :
          /\ m.src # m.dst
          /\ m.gen <= gen[m.src]
          /\ m.gen = gen[m.src] => m.term <= currentTerm[m.src]
    /\ \A m, n \in rvReq : SameCall(m, n) => m = n
    /\ \A m, n \in rvRep : SameCall(m, n) => m = n
    /\ \A m \in rvReq, n \in rvRep : ~SameCall(m, n)
    /\ \A m \in rvRep : m.granted => m.dst \in Voters(m.src, m.term)

\* The invariant holds while nothing is in flight.
LEMMA CallInit == Init => CallInv
BY Zenon DEF Init, CallInv

\* Votes are never taken back.
LEMMA VotersGrow ==
    ASSUME cast \subseteq cast'
    PROVE  \A s \in Server, t \in Term : Voters(s, t) \subseteq Voters(s, t)'
BY Zenon DEF Voters

\* No step removes a vote.
LEMMA CastGrows == [Next]_vars => cast \subseteq cast'
<1>1. ASSUME NEW m \in rvReq, RequestVote(m) PROVE cast \subseteq cast'
  BY <1>1, Zenon DEF RequestVote, RejectStaleCandidate, RejectVoted, RejectOutdatedLog,
              GrantVote
<1>2. ASSUME NEW s \in Server, AttemptEletion(s) PROVE cast \subseteq cast'
  BY <1>2, Zenon DEF AttemptEletion
<1>3. ASSUME NEW s \in Server, Restart(s) PROVE UNCHANGED cast
  BY <1>3, Zenon DEF Restart
<1>4. ASSUME \/ \E s \in Server : ElectionTimeout(s) \/ HeartBeat(s)
             \/ \E m \in rvRep : VoteReply(m)
             \/ \E s \in Server, v \in Value : Start(s, v)
             \/ \E h \in hbTask : SendAppendEntries(h)
             \/ \E m \in aeReq : AppendEntries(m)
             \/ \E m \in aeRep : AppendReply(m)
             \/ \E s \in Server : ApplyAdvance(s) \/ ApplySend(s)
             \/ CallFails
      PROVE  UNCHANGED cast
  BY <1>4, Zenon DEF ElectionTimeout, HeartBeat, VoteReply, Start, SendAppendEntries,
              AppendEntries, AppendReply, ApplyAdvance, ApplySend, CallFails
<1>5. CASE UNCHANGED vars
  BY <1>5, Zenon DEF vars
<1>. QED  BY <1>1, <1>2, <1>3, <1>4, <1>5, Zenon DEF Next

\* Steps that only take calls out of flight.
LEMMA CallKept ==
    ASSUME TypeOK, CallInv, UNCHANGED gen, cast \subseteq cast',
           rvReq' \subseteq rvReq, rvRep' \subseteq rvRep,
           currentTerm' \in [Server -> Nat], currentTerm \in [Server -> Nat],
           \A s \in Server : currentTerm'[s] >= currentTerm[s]
    PROVE  CallInv'
<1>1. ASSUME NEW m \in rvReq' \union rvRep'
      PROVE  /\ m.src # m.dst
             /\ m.gen <= gen[m.src]
             /\ m.gen = gen[m.src] => m.term <= currentTerm'[m.src]
  <2>1. m \in rvReq \union rvRep /\ m.src \in Server /\ m.term \in Nat
    BY BoundsAssumption DEF TypeOK, TypeRv, RVArgs, RVReply, Term
  <2>2. currentTerm'[m.src] \in Nat /\ currentTerm[m.src] \in Nat
    BY <2>1, Zenon
  <2>. QED  BY <2>1, <2>2 DEF CallInv
<1>2. \A m \in rvRep' : m.granted => m.dst \in Voters(m.src, m.term)'
  <2> SUFFICES ASSUME NEW m \in rvRep', m.granted
               PROVE  m.dst \in Voters(m.src, m.term)'
    OBVIOUS
  <2>1. m.src \in Server /\ m.term \in Term
    BY Zenon DEF TypeOK, TypeRv, RVReply
  <2>. QED  BY <2>1, VotersGrow, Zenon DEF CallInv
<1>. QED  BY <1>1, <1>2, Zenon DEF CallInv

\* An election makes one call per peer, of a term no earlier call has.
LEMMA CallAttempt ==
    ASSUME TypeOK, CallInv, NEW s \in Server, AttemptEletion(s)
    PROVE  CallInv'
<1> DEFINE t == currentTerm[s] + 1
           msg(p) == [src |-> s, dst |-> p, gen |-> gen[s], term |-> t,
                      lastLogIndex |-> Len(log[s]), lastLogTerm |-> LastTerm(log[s])]
<1>1. /\ currentTerm' = [currentTerm EXCEPT ![s] = t]
      /\ rvReq' = rvReq \union {msg(p) : p \in Server \ {s}}
      /\ UNCHANGED <<gen, rvRep>>
      /\ cast \subseteq cast'
  BY Zenon DEF AttemptEletion, conevrtToCandidate
<1>2. currentTerm \in [Server -> Nat] /\ gen \in [Server -> Nat]
  BY BoundsAssumption DEF TypeOK, TypeTerm, TypeMisc, Term
<1>3. \A m \in rvReq \union rvRep : m.src = s /\ m.gen = gen[s] => m.term # t
  <2> SUFFICES ASSUME NEW m \in rvReq \union rvRep, m.src = s, m.gen = gen[s]
               PROVE  m.term # t
    OBVIOUS
  <2>1. m.term \in Nat /\ currentTerm[s] \in Nat
    BY <1>2, BoundsAssumption DEF TypeOK, TypeRv, RVArgs, RVReply, Term
  <2>2. m.term <= currentTerm[s]
    BY Zenon DEF CallInv
  <2>. QED  BY <2>1, <2>2
<1>4. \A m \in rvReq' : \/ m \in rvReq
                        \/ /\ m.src = s /\ m.gen = gen[s] /\ m.term = t
                           /\ m.dst # s /\ m = msg(m.dst)
  BY <1>1
<1>5. t = currentTerm'[s] /\ t \in Nat /\ gen[s] \in Nat
  BY <1>1, <1>2
<1> HIDE DEF t, msg
<1>6. ASSUME NEW m \in rvReq' \union rvRep'
      PROVE  /\ m.src # m.dst
             /\ m.gen <= gen[m.src]
             /\ m.gen = gen[m.src] => m.term <= currentTerm'[m.src]
  <2>1. CASE m \in rvReq \union rvRep
    <3>1. m.src \in Server /\ m.term \in Nat
      BY <2>1, BoundsAssumption DEF TypeOK, TypeRv, RVArgs, RVReply, Term
    <3>2. /\ currentTerm'[m.src] = currentTerm[m.src] \/ m.src = s
      BY <1>1, <1>2, <3>1, Zenon
    <3>3. /\ m.src # m.dst /\ m.gen <= gen[m.src]
          /\ m.gen = gen[m.src] => m.term <= currentTerm[m.src]
      BY <2>1, Zenon DEF CallInv
    <3>. QED  BY <1>2, <1>5, <3>1, <3>2, <3>3 DEF t
  <2>2. CASE /\ m.src = s /\ m.gen = gen[s] /\ m.term = t /\ m.dst # s
    BY <1>5, <2>2
  <2>. QED  BY <1>1, <1>4, <2>1, <2>2, Zenon
<1>7. \A m, n \in rvReq' : SameCall(m, n) => m = n
  BY <1>3, <1>4, Zenon DEF CallInv, SameCall
<1>8. \A m \in rvReq', n \in rvRep' : ~SameCall(m, n)
  BY <1>1, <1>3, <1>4, Zenon DEF CallInv, SameCall
<1>9. \A m \in rvRep' : m.granted => m.dst \in Voters(m.src, m.term)'
  <2> SUFFICES ASSUME NEW m \in rvRep, m.granted
               PROVE  m.dst \in Voters(m.src, m.term)'
    BY <1>1, Zenon
  <2>1. m.src \in Server /\ m.term \in Term
    BY Zenon DEF TypeOK, TypeRv, RVReply
  <2>. QED  BY <1>1, <2>1, VotersGrow, Zenon DEF CallInv
<1>. QED  BY <1>1, <1>6, <1>7, <1>8, <1>9, Zenon DEF CallInv

\* A handler that answers a call grants it only when it casts the vote.
LEMMA CallReply ==
    ASSUME TypeOK, CallInv, NEW m \in rvReq, NEW term \in Term, NEW g \in BOOLEAN,
           ReplyVote(m, term, g), UNCHANGED gen, cast \subseteq cast',
           g => m.dst \in Voters(m.src, m.term)',
           currentTerm' \in [Server -> Nat], currentTerm \in [Server -> Nat],
           \A s \in Server : currentTerm'[s] >= currentTerm[s]
    PROVE  CallInv'
<1> DEFINE a == [src |-> m.src, dst |-> m.dst, gen |-> m.gen, term |-> m.term,
                 replyTerm |-> term, granted |-> g]
<1>1. /\ rvReq' = rvReq \ {m}
      /\ rvRep' \subseteq rvRep \union {a}
  BY Zenon DEF ReplyVote
<1>2. /\ a.src = m.src /\ a.dst = m.dst /\ a.gen = m.gen /\ a.term = m.term
      /\ a.granted = g
  OBVIOUS
<1> HIDE DEF a
<1>3. ASSUME NEW n \in rvReq' \union rvRep'
      PROVE  /\ n.src # n.dst
             /\ n.gen <= gen[n.src]
             /\ n.gen = gen[n.src] => n.term <= currentTerm'[n.src]
  <2>1. PICK k \in rvReq \union rvRep : SameCall(n, k)
    BY <1>1, <1>2, Zenon DEF SameCall
  <2>2. k.src \in Server /\ k.term \in Nat
    BY BoundsAssumption DEF TypeOK, TypeRv, RVArgs, RVReply, Term
  <2>3. currentTerm'[k.src] \in Nat /\ currentTerm[k.src] \in Nat
    BY <2>2, Zenon
  <2>4. /\ k.src # k.dst
        /\ k.gen <= gen[k.src]
        /\ k.gen = gen[k.src] => k.term <= currentTerm'[k.src]
    BY <2>2, <2>3 DEF CallInv
  <2>. QED  BY <2>1, <2>4, Zenon DEF SameCall
<1>4. \A n, k \in rvRep' : SameCall(n, k) => n = k
  BY <1>1, <1>2 DEF CallInv, SameCall
<1>5. \A n \in rvReq', k \in rvRep' : ~SameCall(n, k)
  BY <1>1, <1>2 DEF CallInv, SameCall
<1>6. \A n, k \in rvReq' : SameCall(n, k) => n = k
  BY <1>1, Zenon DEF CallInv
<1>7. \A n \in rvRep' : n.granted => n.dst \in Voters(n.src, n.term)'
  <2> SUFFICES ASSUME NEW n \in rvRep', n.granted
               PROVE  n.dst \in Voters(n.src, n.term)'
    OBVIOUS
  <2>1. CASE n = a
    BY <1>2, <2>1, Zenon
  <2>2. CASE n \in rvRep
    <3>1. n.src \in Server /\ n.term \in Term
      BY <2>2, Zenon DEF TypeOK, TypeRv, RVReply
    <3>. QED  BY <2>2, <3>1, VotersGrow, Zenon DEF CallInv
  <2>. QED  BY <1>1, <2>1, <2>2, Zenon
<1>. QED  BY <1>3, <1>4, <1>5, <1>6, <1>7, Zenon DEF CallInv

\* Every step preserves the invariant.
LEMMA CallStep ==
    ASSUME TypeOK, TypeOK', CallInv, [Next]_vars
    PROVE  CallInv'
<1>0. /\ currentTerm \in [Server -> Nat] /\ currentTerm' \in [Server -> Nat]
      /\ gen \in [Server -> Nat] /\ cast \subseteq cast'
  BY BoundsAssumption, CastGrows DEF TypeOK, TypeTerm, TypeMisc, Term
<1>1. ASSUME NEW s \in Server, Restart(s) PROVE CallInv'
  <2>1. /\ gen' = [gen EXCEPT ![s] = @ + 1]
        /\ currentTerm' = [currentTerm EXCEPT ![s] = 0]
        /\ rvRep' = {m \in rvRep : m.src # s}
        /\ UNCHANGED <<rvReq, cast>>
    BY <1>1, Zenon DEF Restart
  <2>2. ASSUME NEW m \in rvReq' \union rvRep'
        PROVE  /\ m.src # m.dst
               /\ m.gen <= gen'[m.src]
               /\ m.gen = gen'[m.src] => m.term <= currentTerm'[m.src]
    <3>1. m \in rvReq \union rvRep
      BY <2>1, Zenon
    <3>2. m.src \in Server /\ m.gen \in Nat
      BY <3>1, Zenon DEF TypeOK, TypeRv, RVArgs, RVReply
    <3>3. /\ m.src # m.dst
          /\ m.gen <= gen[m.src]
          /\ m.gen = gen[m.src] => m.term <= currentTerm[m.src]
      BY <3>1, Zenon DEF CallInv
    <3>4. CASE m.src = s
      <4>1. gen'[s] = gen[s] + 1 /\ gen[s] \in Nat
        BY <1>0, <2>1, Zenon
      <4>. QED  BY <3>2, <3>3, <3>4, <4>1
    <3>5. CASE m.src # s
      <4>1. gen'[m.src] = gen[m.src] /\ currentTerm'[m.src] = currentTerm[m.src]
        BY <1>0, <2>1, <3>2, <3>5, Zenon
      <4>. QED  BY <3>3, <4>1, Zenon
    <3>. QED  BY <3>4, <3>5, Zenon
  <2>3. \A m \in rvRep' : m.granted => m.dst \in Voters(m.src, m.term)'
    BY <2>1, Zenon DEF CallInv, Voters
  <2>. QED  BY <2>1, <2>2, <2>3, Zenon DEF CallInv
<1>2. ASSUME NEW m \in rvReq, RequestVote(m), \A s \in Server : ~Restart(s)
      PROVE  CallInv'
  <2>1. /\ m.dst \in Server /\ m.src \in Server /\ m.term \in Term
        /\ currentTerm[m.dst] \in Term /\ 0 \in Term
        /\ UNCHANGED gen
    BY <1>2, BoundsAssumption DEF RequestVote, TypeOK, TypeTerm, TypeRv, RVArgs, Term
  <2>2. \A s \in Server : currentTerm'[s] >= currentTerm[s]
    BY <1>2, TermsGrow, Zenon
  <2>3. ASSUME NEW t \in Term, ReplyVote(m, t, FALSE) PROVE CallInv'
    BY <1>0, <2>1, <2>2, <2>3, CallReply, Zenon
  <2>4. CASE GrantVote(m)
    <3>1. m.dst \in Voters(m.src, m.term)'
      <4> DEFINE d == [voter |-> m.dst, cand |-> m.src, term |-> m.term,
                       gen |-> gen[m.dst], as |-> state[m.dst]]
      <4>1. d \in cast'
        BY <2>4, Zenon DEF GrantVote
      <4>2. d.voter = m.dst /\ d.cand = m.src /\ d.term = m.term
        OBVIOUS
      <4> HIDE DEF d
      <4>. QED  BY <2>1, <4>1, <4>2, Zenon DEF Voters
    <3>2. ReplyVote(m, m.term, TRUE)
      BY <2>4, Zenon DEF GrantVote
    <3>. QED  BY <1>0, <2>1, <2>2, <3>1, <3>2, CallReply, Zenon
  <2>. QED
    BY <1>2, <2>1, <2>3, <2>4, Zenon DEF RequestVote, RejectStaleCandidate, RejectVoted,
                             RejectOutdatedLog
<1>3. ASSUME UNCHANGED gen, rvReq' \subseteq rvReq, rvRep' \subseteq rvRep,
             \A s \in Server : ~Restart(s)
      PROVE  CallInv'
  BY <1>0, <1>3, TermsGrow, CallKept, Zenon
<1>4. ASSUME \/ \E s \in Server : ElectionTimeout(s) \/ HeartBeat(s)
             \/ \E m \in rvRep : VoteReply(m)
             \/ \E s \in Server, v \in Value : Start(s, v)
             \/ \E h \in hbTask : SendAppendEntries(h)
             \/ \E m \in aeReq : AppendEntries(m)
             \/ \E m \in aeRep : AppendReply(m)
             \/ \E s \in Server : ApplyAdvance(s) \/ ApplySend(s)
             \/ CallFails
      PROVE  UNCHANGED gen /\ rvReq' \subseteq rvReq /\ rvRep' \subseteq rvRep
  BY <1>4, Zenon DEF ElectionTimeout, HeartBeat, VoteReply, Start, SendAppendEntries,
              AppendEntries, AppendReply, ApplyAdvance, ApplySend, CallFails, rvVars
<1>5. CASE UNCHANGED vars
  BY <1>5, Zenon DEF vars, rvVars, termVars, CallInv, Voters
<1>. QED  BY <1>1, <1>2, <1>3, <1>4, <1>5, CallAttempt, Zenon DEF Next

----------------------------------------------------------------------------
(* ElectedByMajority *)

\* The voters of s in t whose call is over.
Counted(s, t) ==
    {v \in Voters(s, t) : \A m \in rvReq \union rvRep :
        ~(m.src = s /\ m.dst = v /\ m.term = t /\ m.gen = gen[s])}

\* The closure of an election never counts more votes than were cast for it
\* and have been answered.
CountInv ==
    /\ \A s \in Server, t \in Term : votes[s][t] <= Cardinality(Counted(s, t))
    /\ ElectedByMajority

\* Voters are servers, so there are finitely many.
LEMMA CountedFinite ==
    ASSUME NEW s, NEW t
    PROVE  /\ Voters(s, t) \subseteq Server /\ IsFiniteSet(Voters(s, t))
           /\ Counted(s, t) \subseteq Voters(s, t) /\ IsFiniteSet(Counted(s, t))
           /\ Cardinality(Counted(s, t)) \in Nat
           /\ Cardinality(Counted(s, t)) <= Cardinality(Voters(s, t))
           /\ Cardinality(Voters(s, t)) \in Nat
<1>1. Voters(s, t) \subseteq Server /\ Counted(s, t) \subseteq Voters(s, t)
  BY Zenon DEF Voters, Counted
<1>. QED  BY <1>1, ServerAssumption, FS_Subset, FS_CardinalityType, Zenon

\* A majority of voters remains one.
LEMMA MajorityKept ==
    ASSUME TypeOK, ElectedByMajority, cast \subseteq cast', done' = done
    PROVE  ElectedByMajority'
<1> SUFFICES ASSUME NEW s \in Server, NEW t \in done[s]
             PROVE  Cardinality(Voters(s, t)') > Half
  BY Zenon DEF ElectedByMajority
<1>1. t \in Term
  BY Zenon DEF TypeOK, TypeElec
<1>2. Voters(s, t) \subseteq Voters(s, t)' /\ Voters(s, t)' \subseteq Server
  BY <1>1, VotersGrow, Zenon DEF Voters
<1>3. IsFiniteSet(Voters(s, t)')
  BY <1>2, ServerAssumption, FS_Subset, Zenon
<1>4. /\ Cardinality(Voters(s, t)) <= Cardinality(Voters(s, t)')
      /\ Cardinality(Voters(s, t)) \in Nat /\ Cardinality(Voters(s, t)') \in Nat
  BY <1>2, <1>3, FS_Subset, FS_CardinalityType, Zenon
<1>5. Cardinality(Voters(s, t)) > Half /\ Half \in Nat
  BY ServerAssumption, FS_CardinalityType DEF ElectedByMajority, Half
<1>. QED  BY <1>4, <1>5

\* A step that puts no new call in flight only finishes calls.
LEMMA CountedGrows ==
    ASSUME NEW s \in Server, NEW t \in Term, cast \subseteq cast', gen'[s] = gen[s],
           \A n \in rvReq' \union rvRep' : n.src = s /\ n.term = t =>
               \E k \in rvReq \union rvRep : SameCall(n, k)
    PROVE  Counted(s, t) \subseteq Counted(s, t)'
<1>1. Voters(s, t) \subseteq Voters(s, t)'
  BY VotersGrow, Zenon
<1>. QED  BY <1>1 DEF Counted, SameCall

\* The bound on a count survives when the count stays.
LEMMA CountKept ==
    ASSUME TypeOK, NEW s \in Server, NEW t \in Term,
           votes'[s][t] = votes[s][t], votes[s][t] <= Cardinality(Counted(s, t)),
           Counted(s, t) \subseteq Counted(s, t)'
    PROVE  votes'[s][t] <= Cardinality(Counted(s, t)')
<1>1. votes[s][t] \in Nat
  BY Zenon DEF TypeOK, TypeElec
<1>2. Counted(s, t)' \subseteq Server
  BY Zenon DEF Counted, Voters
<1>3. IsFiniteSet(Counted(s, t)')
  BY <1>2, ServerAssumption, FS_Subset, Zenon
<1>4. /\ Cardinality(Counted(s, t)) <= Cardinality(Counted(s, t)')
      /\ Cardinality(Counted(s, t)) \in Nat /\ Cardinality(Counted(s, t)') \in Nat
  BY <1>3, FS_Subset, FS_CardinalityType, Zenon
<1>. QED  BY <1>1, <1>4

\* Steps that leave the closures alone and put no new call in flight.
LEMMA CountInvKept ==
    ASSUME TypeOK, CountInv, UNCHANGED <<elecVars, gen>>, cast \subseteq cast',
           \A n \in rvReq' \union rvRep' : \E k \in rvReq \union rvRep : SameCall(n, k)
    PROVE  CountInv'
<1>1. UNCHANGED <<votes, done>>
  BY Zenon DEF elecVars
<1>2. ASSUME NEW s \in Server, NEW t \in Term
      PROVE  votes'[s][t] <= Cardinality(Counted(s, t)')
  <2>1. Counted(s, t) \subseteq Counted(s, t)'
    BY CountedGrows, Zenon
  <2>. QED  BY <1>1, <2>1, CountKept, Zenon DEF CountInv
<1>3. ElectedByMajority'
  BY <1>1, MajorityKept, Zenon DEF CountInv
<1>. QED  BY <1>2, <1>3, Zenon DEF CountInv

\* The closure starts with the candidate's own vote.
LEMMA CountAttempt ==
    ASSUME TypeOK, CallInv', CountInv, NEW s \in Server, AttemptEletion(s)
    PROVE  CountInv'
<1>0. PICK t \in Term : t = currentTerm[s] + 1
  BY BoundsAssumption DEF AttemptEletion, TypeOK, TypeTerm, Term
<1> DEFINE d == [voter |-> s, cand |-> s, term |-> t, gen |-> gen[s], as |-> CANDIDATE]
<1>1. /\ votes' = [votes EXCEPT ![s][t] = 1]
      /\ cast' = cast \union {d}
      /\ UNCHANGED <<gen, done, rvRep>>
      /\ \A n \in rvReq' : n \in rvReq \/ (n.src = s /\ n.term = t)
  BY <1>0 DEF AttemptEletion
<1>2. d.voter = s /\ d.cand = s /\ d.term = t
  OBVIOUS
<1>4. cast \subseteq cast' /\ d \in cast'
  BY <1>1, Zenon
<1> HIDE DEF d
<1>5. votes \in [Server -> [Term -> Nat]]
  BY Zenon DEF TypeOK, TypeElec
<1>6. ASSUME NEW r \in Server, NEW u \in Term, r # s \/ u # t
      PROVE  votes'[r][u] <= Cardinality(Counted(r, u)')
  <2>1. votes'[r][u] = votes[r][u]
    BY <1>1, <1>5, <1>6, Zenon
  <2>2. Counted(r, u) \subseteq Counted(r, u)'
    BY <1>1, <1>4, <1>6, CountedGrows, Zenon DEF SameCall
  <2>. QED  BY <2>1, <2>2, CountKept, Zenon DEF CountInv
<1>7. votes'[s][t] <= Cardinality(Counted(s, t)')
  <2>1. votes'[s][t] = 1
    BY <1>1, <1>5, Zenon
  <2>2. s \in Voters(s, t)'
    BY <1>2, <1>4, Zenon DEF Voters
  <2>3. {s} \subseteq Counted(s, t)' /\ Counted(s, t)' \subseteq Server
    BY <2>2 DEF CallInv, Counted, Voters
  <2>4. IsFiniteSet(Counted(s, t)')
    BY <2>3, ServerAssumption, FS_Subset, Zenon
  <2>5. Cardinality({s}) = 1
    BY FS_Singleton, Zenon
  <2>6. Cardinality({s}) <= Cardinality(Counted(s, t)')
    BY <2>3, <2>4, FS_Subset, Zenon
  <2>. QED  BY <2>1, <2>5, <2>6, Zenon
<1>8. ElectedByMajority'
  BY <1>1, <1>4, MajorityKept, Zenon DEF CountInv
<1>. QED  BY <1>6, <1>7, <1>8, Zenon DEF CountInv

\* A granted reply adds a voter whose call is over now; the test in the
\* closure then turns a majority of counted votes into a win.
LEMMA CountVoteReply ==
    ASSUME TypeOK, CallInv, CountInv, NEW m \in rvRep, m.gen = gen[m.src], VoteReply(m)
    PROVE  CountInv'
<1> DEFINE s == m.src
           u == m.term
           count == votes[s][u] + 1
<1>1. /\ s \in Server /\ u \in Term /\ m.dst \in Server
      /\ votes \in [Server -> [Term -> Nat]] /\ votes[s][u] \in Nat
      /\ done \in [Server -> SUBSET Term]
  BY Zenon DEF TypeOK, TypeRv, TypeElec, RVReply
<1>2. /\ UNCHANGED <<gen, cast, rvReq>>
      /\ rvRep' = rvRep \ {m}
  BY Zenon DEF VoteReply
<1>3. \A n \in rvReq' \union rvRep' : \E k \in rvReq \union rvRep : SameCall(n, k)
  BY <1>2, Zenon DEF SameCall
<1>4. CASE UNCHANGED elecVars
  BY <1>2, <1>3, <1>4, CountInvKept, Zenon
<1>5. CASE /\ m.granted
           /\ votes' = [votes EXCEPT ![s][u] = count]
           /\ \/ UNCHANGED done
              \/ /\ done' = [done EXCEPT ![s] = @ \union {currentTerm[s]}]
                 /\ Wins(s, u, count)
  <2>1. \A r \in Server, t \in Term : Counted(r, t) \subseteq Counted(r, t)'
    BY <1>2, <1>3, CountedGrows, Zenon
  <2>2. m.dst \in Counted(s, u)' /\ m.dst \notin Counted(s, u)
    <3>1. m.dst \in Voters(s, u) /\ m.dst \in Voters(s, u)'
      BY <1>2, <1>5, Zenon DEF CallInv, Voters
    <3>2. m.dst \notin Counted(s, u)
      BY Zenon DEF Counted
    <3>3. ASSUME NEW n \in rvReq' \union rvRep',
                 n.src = s, n.dst = m.dst, n.term = u, n.gen = gen'[s]
          PROVE  FALSE
      BY <1>2, <3>3, Zenon DEF CallInv, SameCall
    <3>. QED  BY <3>1, <3>2, <3>3, Zenon DEF Counted
  <2>3. count <= Cardinality(Counted(s, u)') /\ Cardinality(Counted(s, u)') \in Nat
    <3>1. Counted(s, u) \union {m.dst} \subseteq Counted(s, u)'
      BY <1>1, <2>1, <2>2, Zenon
    <3>2. Counted(s, u)' \subseteq Server
      BY Zenon DEF Counted, Voters
    <3>3. IsFiniteSet(Counted(s, u)')
      BY <3>2, ServerAssumption, FS_Subset, Zenon
    <3>4. /\ IsFiniteSet(Counted(s, u))
          /\ Cardinality(Counted(s, u)) \in Nat
      BY CountedFinite, Zenon
    <3>5. Cardinality(Counted(s, u) \union {m.dst}) = Cardinality(Counted(s, u)) + 1
      BY <2>2, <3>4, FS_AddElement, Zenon
    <3>6. Cardinality(Counted(s, u) \union {m.dst}) <= Cardinality(Counted(s, u)')
      BY <3>1, <3>3, FS_Subset, Zenon
    <3>7. Cardinality(Counted(s, u)') \in Nat
      BY <3>3, FS_CardinalityType, Zenon
    <3>8. votes[s][u] <= Cardinality(Counted(s, u))
      BY <1>1, Zenon DEF CountInv
    <3>. QED  BY <1>1, <3>4, <3>5, <3>6, <3>7, <3>8
  <2>4. ASSUME NEW r \in Server, NEW t \in Term
        PROVE  votes'[r][t] <= Cardinality(Counted(r, t)')
    <3>1. CASE r = s /\ t = u
      <4>1. votes'[s][u] = count
        BY <1>1, <1>5, Zenon
      <4>. QED  BY <2>3, <3>1, <4>1, Zenon
    <3>2. CASE ~(r = s /\ t = u)
      <4>1. votes'[r][t] = votes[r][t]
        BY <1>1, <1>5, <3>2, Zenon
      <4>. QED  BY <2>1, <4>1, CountKept, Zenon DEF CountInv
    <3>. QED  BY <3>1, <3>2, Zenon
  <2>5. ElectedByMajority'
    <3>1. CASE UNCHANGED done
      BY <1>2, <3>1, MajorityKept, Zenon DEF CountInv
    <3>2. CASE done' = [done EXCEPT ![s] = @ \union {currentTerm[s]}] /\ Wins(s, u, count)
      <4>1. count > Half /\ currentTerm[s] = u
        BY <3>2, Zenon DEF Wins
      <4>2. Counted(s, u)' \subseteq Voters(s, u)' /\ Voters(s, u)' \subseteq Server
        BY Zenon DEF Counted, Voters
      <4>3. IsFiniteSet(Voters(s, u)')
        BY <4>2, ServerAssumption, FS_Subset, Zenon
      <4>4. /\ Cardinality(Counted(s, u)') <= Cardinality(Voters(s, u)')
            /\ Cardinality(Voters(s, u)') \in Nat
        BY <4>2, <4>3, FS_Subset, FS_CardinalityType, Zenon
      <4>5. Half \in Nat
        BY ServerAssumption, FS_CardinalityType DEF Half
      <4>6. Cardinality(Voters(s, u)') > Half
        BY <1>1, <2>3, <4>1, <4>4, <4>5
      <4>7. \A r, t : Voters(r, t)' = Voters(r, t)
        BY <1>2, Zenon DEF Voters
      <4>8. \A r \in Server : \A t \in done'[r] : t \in done[r] \/ (r = s /\ t = u)
        BY <1>1, <3>2, <4>1, Zenon
      <4>9. Cardinality(Voters(s, u)) > Half
        BY <4>6, <4>7, Zenon
      <4>10. \A r \in Server : \A t \in done'[r] : Cardinality(Voters(r, t)) > Half
        BY <4>8, <4>9, Zenon DEF CountInv, ElectedByMajority
      <4>. QED  BY <4>7, <4>10, Zenon DEF ElectedByMajority
    <3>. QED  BY <1>5, <3>1, <3>2, Zenon
  <2>. QED  BY <2>4, <2>5, Zenon DEF CountInv
<1>. QED  BY <1>4, <1>5, Zenon DEF VoteReply, elecVars

\* The closures have counted nothing yet.
LEMMA CountInit == Init => CountInv
<1> SUFFICES ASSUME Init PROVE CountInv
  OBVIOUS
<1>1. ASSUME NEW s \in Server, NEW t \in Term
      PROVE  votes[s][t] <= Cardinality(Counted(s, t))
  <2>1. votes[s][t] = 0
    BY Zenon DEF Init
  <2>. QED  BY <2>1, CountedFinite
<1>2. ElectedByMajority
  BY Zenon DEF Init, ElectedByMajority
<1>. QED  BY <1>1, <1>2, Zenon DEF CountInv

\* A reply that is still in flight was addressed to the current incarnation.
ReplyInv == \A m \in rvRep : m.gen = gen[m.src]

\* Every step preserves what is known of replies: a handler answers only a
\* caller that is still the one that called, and a crash drops the replies.
LEMMA ReplyStep ==
    ASSUME TypeOK, ReplyInv, [Next]_vars
    PROVE  ReplyInv'
<1>1. ASSUME NEW s \in Server, Restart(s) PROVE ReplyInv'
  <2>1. /\ gen' = [gen EXCEPT ![s] = @ + 1]
        /\ rvRep' = {m \in rvRep : m.src # s}
    BY <1>1, Zenon DEF Restart
  <2>2. \A m \in rvRep : m.src \in Server
    BY Zenon DEF TypeOK, TypeRv, RVReply
  <2>. QED  BY <2>1, <2>2, Zenon DEF ReplyInv, TypeOK, TypeMisc
<1>2. ASSUME NEW m \in rvReq, RequestVote(m) PROVE ReplyInv'
  <2>1. UNCHANGED gen
    BY <1>2, Zenon DEF RequestVote
  <2>2. ASSUME NEW t, NEW g, ReplyVote(m, t, g) PROVE ReplyInv'
    <3> DEFINE r == [src |-> m.src, dst |-> m.dst, gen |-> m.gen, term |-> m.term,
                     replyTerm |-> t, granted |-> g]
    <3>1. rvRep' = rvRep \/ (Current(m) /\ rvRep' = rvRep \union {r})
      BY <2>2, Zenon DEF ReplyVote
    <3>2. r.gen = m.gen /\ r.src = m.src
      OBVIOUS
    <3> HIDE DEF r
    <3>3. Current(m) => r.gen = gen[r.src]
      BY <3>2, Zenon DEF Current
    <3>. QED  BY <2>1, <3>1, <3>3, Zenon DEF ReplyInv
  <2>. QED
    BY <1>2, <2>2, Zenon DEF RequestVote, RejectStaleCandidate, RejectVoted,
                      RejectOutdatedLog, GrantVote
<1>3. ASSUME \/ \E s \in Server : ElectionTimeout(s) \/ HeartBeat(s) \/ AttemptEletion(s)
             \/ \E m \in rvRep : VoteReply(m)
             \/ \E s \in Server, v \in Value : Start(s, v)
             \/ \E h \in hbTask : SendAppendEntries(h)
             \/ \E m \in aeReq : AppendEntries(m)
             \/ \E m \in aeRep : AppendReply(m)
             \/ \E s \in Server : ApplyAdvance(s) \/ ApplySend(s)
             \/ CallFails
      PROVE  UNCHANGED gen /\ rvRep' \subseteq rvRep
  BY <1>3, Zenon DEF ElectionTimeout, HeartBeat, AttemptEletion, VoteReply, Start,
              SendAppendEntries, AppendEntries, AppendReply, ApplyAdvance,
              ApplySend, CallFails, rvVars
<1>4. CASE UNCHANGED vars
  BY <1>4, Zenon DEF vars, rvVars, ReplyInv
<1>. QED  BY <1>1, <1>2, <1>3, <1>4, Zenon DEF Next, ReplyInv

\* Every step preserves the bound on the counts.
LEMMA CountStep ==
    ASSUME TypeOK, CallInv, CallInv', ReplyInv, CountInv, [Next]_vars
    PROVE  CountInv'
<1>0. cast \subseteq cast'
  BY CastGrows, Zenon
<1>1. ASSUME NEW s \in Server, Restart(s) PROVE CountInv'
  <2>1. /\ gen' = [gen EXCEPT ![s] = @ + 1]
        /\ votes' = [votes EXCEPT ![s] = [t \in Term |-> 0]]
        /\ done' = [done EXCEPT ![s] = {}]
        /\ rvRep' = {m \in rvRep : m.src # s}
        /\ UNCHANGED <<rvReq, cast>>
    BY <1>1, Zenon DEF Restart
  <2>2. ASSUME NEW r \in Server, NEW t \in Term
        PROVE  votes'[r][t] <= Cardinality(Counted(r, t)')
    <3>1. CASE r = s
      <4>1. votes'[r][t] = 0
        BY <2>1, <3>1, Zenon DEF TypeOK, TypeElec
      <4>2. Counted(r, t)' \subseteq Server
        BY Zenon DEF Counted, Voters
      <4>3. Cardinality(Counted(r, t)') \in Nat
        BY <4>2, ServerAssumption, FS_Subset, FS_CardinalityType, Zenon
      <4>. QED  BY <4>1, <4>3
    <3>2. CASE r # s
      <4>1. votes'[r] = votes[r] /\ gen'[r] = gen[r]
        BY <2>1, <3>2, Zenon DEF TypeOK, TypeElec, TypeMisc
      <4>2. Counted(r, t) \subseteq Counted(r, t)'
        BY <2>1, <4>1, CountedGrows, Zenon DEF SameCall
      <4>. QED  BY <4>1, <4>2, CountKept, Zenon DEF CountInv
    <3>. QED  BY <3>1, <3>2, Zenon
  <2>3. \A r \in Server : done'[r] \subseteq done[r]
    BY <2>1, Zenon DEF TypeOK, TypeElec
  <2>4. \A r, t : Voters(r, t)' = Voters(r, t)
    BY <2>1, Zenon DEF Voters
  <2>5. ElectedByMajority'
    BY <2>3, <2>4, Zenon DEF CountInv, ElectedByMajority
  <2>. QED  BY <2>2, <2>5, Zenon DEF CountInv
<1>2. ASSUME NEW m \in rvReq, RequestVote(m) PROVE CountInv'
  <2>1. UNCHANGED <<elecVars, gen>>
    BY <1>2, Zenon DEF RequestVote
  <2>2. ASSUME NEW t, NEW g, ReplyVote(m, t, g)
        PROVE  \A n \in rvReq' \union rvRep' : \E k \in rvReq \union rvRep : SameCall(n, k)
    <3> DEFINE a == [src |-> m.src, dst |-> m.dst, gen |-> m.gen,
                     term |-> m.term, replyTerm |-> t, granted |-> g]
    <3>1. rvReq' \subseteq rvReq /\ rvRep' \subseteq rvRep \union {a}
      BY <2>2, Zenon DEF ReplyVote
    <3>2. SameCall(a, m) /\ \A k : SameCall(k, k)
      BY Zenon DEF SameCall
    <3> HIDE DEF a
    <3>. QED  BY <3>1, <3>2, Zenon
  <2>3. \A n \in rvReq' \union rvRep' : \E k \in rvReq \union rvRep : SameCall(n, k)
    BY <1>2, <2>2, Zenon DEF RequestVote, RejectStaleCandidate, RejectVoted,
                      RejectOutdatedLog, GrantVote
  <2>. QED  BY <1>0, <2>1, <2>3, CountInvKept, Zenon
<1>3. ASSUME \/ \E s \in Server : ElectionTimeout(s) \/ HeartBeat(s)
             \/ \E s \in Server, v \in Value : Start(s, v)
             \/ \E h \in hbTask : SendAppendEntries(h)
             \/ \E m \in aeReq : AppendEntries(m)
             \/ \E m \in aeRep : AppendReply(m)
             \/ \E s \in Server : ApplyAdvance(s) \/ ApplySend(s)
             \/ CallFails
      PROVE  CountInv'
  <2>1. /\ UNCHANGED <<elecVars, gen>>
        /\ rvReq' \subseteq rvReq /\ rvRep' \subseteq rvRep
    BY <1>3, Zenon DEF ElectionTimeout, HeartBeat, Start, SendAppendEntries,
              AppendEntries, AppendReply, ApplyAdvance, ApplySend, CallFails, rvVars
  <2>2. \A n \in rvReq' \union rvRep' : \E k \in rvReq \union rvRep : SameCall(n, k)
    BY <2>1, Zenon DEF SameCall
  <2>. QED  BY <1>0, <2>1, <2>2, CountInvKept, Zenon
<1>4. ASSUME NEW m \in rvRep, VoteReply(m) PROVE CountInv'
  BY <1>4, CountVoteReply, Zenon DEF ReplyInv
<1>5. CASE UNCHANGED vars
  BY <1>0, <1>5, CountInvKept, Zenon DEF vars, rvVars, SameCall
<1>. QED  BY <1>1, <1>2, <1>3, <1>4, <1>5, CountAttempt, Zenon DEF Next

\* What the election theorems rest on.
ElectionInv == TypeInv /\ LogInv /\ BindInv /\ CallInv /\ ReplyInv /\ CountInv

\* The initial state satisfies it.
LEMMA ElectionInvInit == Init => ElectionInv
<1>1. Init => ReplyInv
  BY Zenon DEF Init, ReplyInv
<1>. QED
  BY <1>1, TypeInit, LogInvInit, BindInit, CallInit, CountInit, Zenon DEF ElectionInv

\* Every step preserves it.
LEMMA ElectionInvStep == ElectionInv /\ [Next]_vars => ElectionInv'
<1> SUFFICES ASSUME ElectionInv, [Next]_vars PROVE ElectionInv'
  OBVIOUS
<1>1. TypeInv' /\ TypeOK /\ TypeOK'
  BY TypeStep, Zenon DEF ElectionInv, TypeInv
<1>2. LogInv' /\ BindInv' /\ CallInv' /\ ReplyInv'
  BY <1>1, LogInvStep, BindStep, CallStep, ReplyStep, Zenon DEF ElectionInv
<1>. QED  BY <1>1, <1>2, CountStep, Zenon DEF ElectionInv

\* A server wins an election only with the votes of a majority, cast for it in
\* that term, in every behaviour of any number of servers: late, reordered
\* and lost replies, step downs and crashes included.
THEOREM WinsHaveMajority == Spec => []ElectedByMajority
<1>1. ElectionInv => ElectedByMajority
  BY Zenon DEF ElectionInv, CountInv
<1>. QED  BY <1>1, ElectionInvInit, ElectionInvStep, PTL DEF Spec

\* Two winners of one term share a voter, and it voted for both of them
\* because it was not FOLLOWER or because it crashed in between.
THEOREM DoubleWinsNeedBrokenVoter == Spec => []DoubleWinNeedsBrokenVoter
<1>1. ElectionInv => DoubleWinNeedsBrokenVoter
  <2> SUFFICES ASSUME ElectionInv, NEW s1 \in Server, NEW s2 \in Server,
                      NEW t \in done[s1] \intersect done[s2], s1 # s2
               PROVE  \E c, d \in cast :
                        /\ c.voter = d.voter /\ c.term = t /\ d.term = t
                        /\ c.cand = s1 /\ d.cand = s2
                        /\ c.as # FOLLOWER \/ d.as # FOLLOWER \/ c.gen # d.gen
    BY Zenon DEF DoubleWinNeedsBrokenVoter
  <2>1. /\ Cardinality(Voters(s1, t)) > Half /\ Cardinality(Voters(s2, t)) > Half
    BY Zenon DEF ElectionInv, CountInv, ElectedByMajority
  <2>2. Voters(s1, t) \intersect Voters(s2, t) # {}
    <3>1. Cardinality(Server) \in Nat
      BY ServerAssumption, FS_CardinalityType, Zenon
    <3>2. Cardinality(Voters(s1, t)) + Cardinality(Voters(s2, t)) > Cardinality(Server)
      BY <2>1, <3>1, CountedFinite DEF Half
    <3>. QED  BY <3>2, CountedFinite, ServerAssumption, FS_MajoritiesIntersect, Zenon
  <2>3. PICK v \in Server : v \in Voters(s1, t) /\ v \in Voters(s2, t)
    BY <2>2, Zenon DEF Voters
  <2>4. PICK c \in cast : c.voter = v /\ c.cand = s1 /\ c.term = t
    BY <2>3, Zenon DEF Voters
  <2>5. PICK d \in cast : d.voter = v /\ d.cand = s2 /\ d.term = t
    BY <2>3, Zenon DEF Voters
  <2>6. FollowerVoteBinds
    BY Zenon DEF ElectionInv, BindInv
  <2>7. c.as # FOLLOWER \/ d.as # FOLLOWER \/ c.gen # d.gen
    BY <2>4, <2>5, <2>6, Zenon DEF FollowerVoteBinds
  <2>. QED  BY <2>4, <2>5, <2>7, Zenon
<1>. QED  BY <1>1, ElectionInvInit, ElectionInvStep, PTL DEF Spec

----------------------------------------------------------------------------
(* Term 1: a server enters it as a FOLLOWER, and can vote again after a crash *)

\* s was a candidate of term 1, in this incarnation or an earlier one.
Stood(s) == \E c \in cast : c.voter = s /\ c.cand = s /\ c.term = 1

\* s was a candidate of term 1 since its last crash.
StoodNow(s) ==
    \E c \in cast : c.voter = s /\ c.cand = s /\ c.term = 1 /\ c.gen = gen[s]

\* The voters of x in term 1 that never stood against it.
Loyal(x) == {v \in Voters(x, 1) : v = x \/ ~Stood(v)}

\* x has won term 1 or can: its majority does not rest on former candidates.
Elected(x) == Cardinality(Loyal(x)) > Half

OtherElected(s) == \E w \in Server : w # s /\ Elected(w)

\* In term 1 a candidate or leader holds its own vote, a leader is elected, and
\* a candidate steps down only for somebody who is.
Stands(s) ==
    currentTerm[s] = 1 =>
        /\ state[s] # FOLLOWER => votedFor[s] = s
        /\ state[s] = LEADER => Elected(s)
        /\ state[s] = FOLLOWER /\ StoodNow(s) => OtherElected(s)

\* A vote of term 1 for another server was cast as FOLLOWER, and if its voter was
\* a candidate too then somebody else is elected.
VotesWithCrashes ==
    \A c \in cast : c.term = 1 /\ c.cand # c.voter =>
        /\ c.as = FOLLOWER
        /\ Stood(c.voter) => OtherElected(c.voter)

\* The heartbeats of term 1 come from an elected server, crashed or not.
BeatsWithCrashes ==
    /\ \A h \in hbTask : /\ h.src # h.dst /\ currentTerm[h.src] >= 1
                         /\ currentTerm[h.src] = 1 => Elected(h.src)
    /\ \A m \in aeReq : m.src # m.dst /\ (m.term = 1 => Elected(m.src))

WinnersElected == \A s \in Server : 1 \in done[s] => Elected(s)

\* The inductive invariant.
CrashInv ==
    ~VotedAgain(1) =>
        /\ \A s \in Server : Stands(s)
        /\ VotesWithCrashes
        /\ BeatsWithCrashes
        /\ WinnersElected

\* The invariant holds before the first election.
LEMMA CrashInit == Init => CrashInv
<1> SUFFICES ASSUME Init PROVE CrashInv
  OBVIOUS
<1>1. \A s \in Server : currentTerm[s] = 0 /\ done[s] = {}
  BY Zenon DEF Init
<1>2. \A s \in Server : Stands(s)
  <2>1. 0 # 1
    OBVIOUS
  <2>. QED  BY <1>1, <2>1, Zenon DEF Stands
<1>3. VotesWithCrashes /\ BeatsWithCrashes
  BY Zenon DEF Init, VotesWithCrashes, BeatsWithCrashes
<1>. QED  BY <1>1, <1>2, <1>3, Zenon DEF CrashInv, WinnersElected

\* A voter that forgot a vote has forgotten it for good.
LEMMA VotedAgainStays ==
    ASSUME [Next]_vars, ~VotedAgain(1)' PROVE ~VotedAgain(1)
BY CastGrows, Zenon DEF VotedAgain

\* The server that starts its campaign in term 1 has voted for nobody else.
LEMMA NoLateCandidacy ==
    ASSUME ElectionInv, ~VotedAgain(1)', NEW s \in Server, AttemptEletion(s),
           currentTerm[s] = 0, NEW c \in cast, c.voter = s, c.term = 1
    PROVE  c.cand = s
<1> USE DEF ElectionInv, TypeInv
<1> DEFINE d == [voter |-> s, cand |-> s, term |-> currentTerm[s] + 1,
                 gen |-> gen[s], as |-> CANDIDATE]
<1>1. cast' = cast \union {d}
  BY Zenon DEF AttemptEletion
<1>2. d.voter = s /\ d.cand = s /\ d.term = 1 /\ d.gen = gen[s]
  OBVIOUS
<1> HIDE DEF d
<1>3. c.gen = gen[s] => 1 <= 0
  BY Zenon DEF BindInv
<1>4. c.gen # gen[s]
  BY <1>3
<1>. QED  BY <1>1, <1>2, <1>4, Zenon DEF VotedAgain

\* What a step adds to the votes: the own one of a new candidate, or a granted one.
LEMMA NewVote ==
    ASSUME ElectionInv, [Next]_vars
    PROVE  \/ UNCHANGED cast
           \/ \E s \in Server : AttemptEletion(s)
           \/ \E m \in rvReq : RequestVote(m) /\ GrantVote(m)
<1>1. ASSUME NEW m \in rvReq, RequestVote(m), ~GrantVote(m) PROVE UNCHANGED cast
  BY <1>1, Zenon DEF RequestVote, RejectStaleCandidate, RejectVoted, RejectOutdatedLog
<1>2. ASSUME NEW s \in Server, Restart(s) PROVE UNCHANGED cast
  BY <1>2, Zenon DEF Restart
<1>3. ASSUME \/ \E s \in Server : ElectionTimeout(s) \/ HeartBeat(s)
             \/ \E m \in rvRep : VoteReply(m)
             \/ \E s \in Server, v \in Value : Start(s, v)
             \/ \E h \in hbTask : SendAppendEntries(h)
             \/ \E m \in aeReq : AppendEntries(m)
             \/ \E m \in aeRep : AppendReply(m)
             \/ \E s \in Server : ApplyAdvance(s) \/ ApplySend(s)
             \/ CallFails
      PROVE  UNCHANGED cast
  BY <1>3, Zenon DEF ElectionTimeout, HeartBeat, VoteReply, Start, SendAppendEntries,
              AppendEntries, AppendReply, ApplyAdvance, ApplySend, CallFails
<1>4. CASE UNCHANGED vars
  BY <1>4, Zenon DEF vars
<1>. QED  BY <1>1, <1>2, <1>3, <1>4, Zenon DEF Next

\* The vote AttemptEletion casts, and the term it casts it in.
LEMMA OwnVote ==
    ASSUME ElectionInv, NEW s \in Server, AttemptEletion(s)
    PROVE  \E d : /\ cast' = cast \union {d}
                  /\ d.voter = s /\ d.cand = s /\ d.gen = gen[s]
                  /\ d.term = currentTerm[s] + 1 /\ currentTerm[s] \in Nat
<1> DEFINE d == [voter |-> s, cand |-> s, term |-> currentTerm[s] + 1,
                 gen |-> gen[s], as |-> CANDIDATE]
<1>1. cast' = cast \union {d}
  BY Zenon DEF AttemptEletion
<1>2. /\ d.voter = s /\ d.cand = s /\ d.gen = gen[s] /\ d.term = currentTerm[s] + 1
  OBVIOUS
<1>3. currentTerm[s] \in Nat
  BY BoundsAssumption DEF ElectionInv, TypeInv, TypeOK, TypeTerm, Term
<1> HIDE DEF d
<1>. QED  BY <1>1, <1>2, <1>3, Zenon

\* The vote RequestVote grants.
LEMMA GrantedVote ==
    ASSUME ElectionInv, NEW m \in rvReq, GrantVote(m)
    PROVE  \E d : /\ cast' = cast \union {d} /\ m.src # m.dst
                  /\ d.voter = m.dst /\ d.cand = m.src /\ d.gen = gen[m.dst]
                  /\ d.term = m.term /\ d.as = state[m.dst]
<1> DEFINE d == [voter |-> m.dst, cand |-> m.src, term |-> m.term,
                 gen |-> gen[m.dst], as |-> state[m.dst]]
<1>1. cast' = cast \union {d}
  BY Zenon DEF GrantVote
<1>2. /\ d.voter = m.dst /\ d.cand = m.src /\ d.gen = gen[m.dst]
      /\ d.term = m.term /\ d.as = state[m.dst]
  BY Zenon
<1>3. m.src # m.dst
  BY Zenon DEF ElectionInv, CallInv
<1> HIDE DEF d
<1>. QED  BY <1>1, <1>2, <1>3, Zenon

\* Nobody becomes a candidate of term 1 after a vote for another server.
LEMMA StoodBefore ==
    ASSUME ElectionInv, [Next]_vars, ~VotedAgain(1)', NEW c \in cast,
           c.term = 1, c.cand # c.voter, Stood(c.voter)'
    PROVE  Stood(c.voter)
<1> SUFFICES ASSUME ~Stood(c.voter) PROVE FALSE
  OBVIOUS
<1>1. PICK e \in cast' : e.voter = c.voter /\ e.cand = c.voter /\ e.term = 1
  BY Zenon DEF Stood
<1>2. e \notin cast
  BY <1>1, Zenon DEF Stood
<1>3. CASE UNCHANGED cast
  BY <1>2, <1>3, Zenon
<1>4. ASSUME NEW s \in Server, AttemptEletion(s) PROVE FALSE
  <2>1. PICK d : /\ cast' = cast \union {d}
                 /\ d.voter = s /\ d.cand = s /\ d.gen = gen[s]
                 /\ d.term = currentTerm[s] + 1 /\ currentTerm[s] \in Nat
    BY <1>4, OwnVote, Zenon
  <2>2. e = d
    BY <1>2, <2>1, Zenon
  <2>3. s = c.voter /\ currentTerm[s] + 1 = 1
    BY <1>1, <2>1, <2>2, Zenon
  <2>4. currentTerm[s] = 0
    BY <2>1, <2>3
  <2>5. c.cand = s
    BY <1>4, <2>3, <2>4, NoLateCandidacy, Zenon
  <2>. QED  BY <2>3, <2>5, Zenon
<1>5. ASSUME NEW m \in rvReq, GrantVote(m) PROVE FALSE
  <2>1. PICK d : /\ cast' = cast \union {d} /\ m.src # m.dst
                 /\ d.voter = m.dst /\ d.cand = m.src /\ d.gen = gen[m.dst]
                 /\ d.term = m.term /\ d.as = state[m.dst]
    BY <1>5, GrantedVote, Zenon
  <2>2. e = d
    BY <1>2, <2>1, Zenon
  <2>. QED  BY <1>1, <2>1, <2>2, Zenon
<1>. QED  BY <1>3, <1>4, <1>5, NewVote, Zenon

\* So loyal voters stay loyal.
LEMMA LoyalGrows ==
    ASSUME ElectionInv, [Next]_vars, ~VotedAgain(1)', NEW x \in Server
    PROVE  Loyal(x) \subseteq Loyal(x)'
<1> SUFFICES ASSUME NEW v \in Loyal(x) PROVE v \in Loyal(x)'
  OBVIOUS
<1>1. v \in Voters(x, 1) /\ (v = x \/ ~Stood(v))
  BY Zenon DEF Loyal
<1>2. v \in Voters(x, 1)'
  BY <1>1, CastGrows, Zenon DEF Voters
<1>3. PICK c \in cast : c.voter = v /\ c.cand = x /\ c.term = 1
  BY <1>1, Zenon DEF Voters
<1>4. v = x \/ ~Stood(v)'
  BY <1>1, <1>3, StoodBefore, Zenon
<1>. QED  BY <1>2, <1>4, Zenon DEF Loyal

\* Loyal voters are servers, so there are finitely many.
LEMMA LoyalFinite ==
    ASSUME NEW x
    PROVE  /\ Loyal(x) \subseteq Server /\ IsFiniteSet(Loyal(x))
           /\ Cardinality(Loyal(x)) \in Nat
<1>1. Loyal(x) \subseteq Server
  BY Zenon DEF Loyal, Voters
<1>. QED  BY <1>1, ServerAssumption, FS_Subset, FS_CardinalityType, Zenon

\* Who is elected stays elected.
LEMMA ElectedStays ==
    ASSUME ElectionInv, [Next]_vars, ~VotedAgain(1)', NEW x \in Server, Elected(x)
    PROVE  Elected(x)'
<1>1. Loyal(x) \subseteq Loyal(x)'
  BY LoyalGrows, Zenon
<1>2. Loyal(x)' \subseteq Server
  BY Zenon DEF Loyal, Voters
<1>3. IsFiniteSet(Loyal(x)')
  BY <1>2, ServerAssumption, FS_Subset, Zenon
<1>4. /\ Cardinality(Loyal(x)) <= Cardinality(Loyal(x)')
      /\ Cardinality(Loyal(x)) \in Nat /\ Cardinality(Loyal(x)') \in Nat
  BY <1>1, <1>3, FS_Subset, FS_CardinalityType, Zenon
<1>5. Half \in Nat
  BY ServerAssumption, FS_CardinalityType DEF Half
<1>6. Cardinality(Loyal(x)) > Half
  BY Zenon DEF Elected
<1>7. Cardinality(Loyal(x)') > Half
  BY <1>4, <1>5, <1>6
<1>. QED  BY <1>7, Zenon DEF Elected

\* So does the other one.
LEMMA OtherStays ==
    ASSUME ElectionInv, [Next]_vars, ~VotedAgain(1)', NEW s, OtherElected(s)
    PROVE  OtherElected(s)'
BY ElectedStays, Zenon DEF OtherElected

\* Two majorities share a server.
LEMMA MajoritiesMeet ==
    ASSUME NEW A, NEW B, A \subseteq Server, B \subseteq Server,
           Cardinality(A) > Half, Cardinality(B) > Half
    PROVE  \E v \in Server : v \in A /\ v \in B
<1>1. /\ IsFiniteSet(A) /\ IsFiniteSet(B)
      /\ Cardinality(A) \in Nat /\ Cardinality(B) \in Nat /\ Cardinality(Server) \in Nat
  BY ServerAssumption, FS_Subset, FS_CardinalityType, Zenon
<1>2. Cardinality(A) + Cardinality(B) > Cardinality(Server)
  BY <1>1 DEF Half
<1>3. A \intersect B # {}
  BY <1>1, <1>2, ServerAssumption, FS_MajoritiesIntersect, Zenon
<1>. QED  BY <1>3, Zenon

\* A FOLLOWER votes for one server in term 1, unless it votes again after a crash.
LEMMA VoteBinds ==
    ASSUME ElectionInv, ~VotedAgain(1), NEW c \in cast, NEW d \in cast,
           c.voter = d.voter, c.term = 1, d.term = 1,
           c.as = FOLLOWER, d.as = FOLLOWER
    PROVE  c.cand = d.cand
<1>1. CASE c.gen = d.gen
  BY <1>1, Zenon DEF ElectionInv, BindInv, FollowerVoteBinds
<1>2. CASE c.gen # d.gen
  BY <1>2, Zenon DEF VotedAgain
<1>. QED  BY <1>1, <1>2, Zenon

\* A server that was no candidate of term 1 voted for one server only.
LEMMA BystanderBinds ==
    ASSUME ElectionInv, ~VotedAgain(1), VotesWithCrashes, NEW u \in Server, ~Stood(u),
           NEW x, NEW y, u \in Voters(x, 1), u \in Voters(y, 1)
    PROVE  x = y
<1>1. PICK c \in cast : c.voter = u /\ c.cand = x /\ c.term = 1
  BY Zenon DEF Voters
<1>2. PICK d \in cast : d.voter = u /\ d.cand = y /\ d.term = 1
  BY Zenon DEF Voters
<1>3. c.cand # c.voter /\ d.cand # d.voter
  BY <1>1, <1>2, Zenon DEF Stood
<1>4. c.as = FOLLOWER /\ d.as = FOLLOWER
  BY <1>1, <1>2, <1>3, Zenon DEF VotesWithCrashes
<1>. QED  BY <1>1, <1>2, <1>4, VoteBinds, Zenon

\* At most one server is elected.
LEMMA ElectedUnique ==
    ASSUME ElectionInv, ~VotedAgain(1), VotesWithCrashes,
           NEW x \in Server, NEW y \in Server, Elected(x), Elected(y)
    PROVE  x = y
<1>1. PICK u \in Server : u \in Loyal(x) /\ u \in Loyal(y)
  BY LoyalFinite, MajoritiesMeet, Zenon DEF Elected
<1>2. /\ u \in Voters(x, 1) /\ u \in Voters(y, 1)
      /\ u = x \/ ~Stood(u)
      /\ u = y \/ ~Stood(u)
  BY <1>1, Zenon DEF Loyal
<1>3. CASE ~Stood(u)
  BY <1>2, <1>3, BystanderBinds, Zenon
<1>. QED  BY <1>2, <1>3, Zenon

\* A majority elects, former candidates in it or not.
LEMMA MajorityElects ==
    ASSUME ElectionInv, ~VotedAgain(1), VotesWithCrashes, NEW x \in Server,
           Cardinality(Voters(x, 1)) > Half
    PROVE  Elected(x)
<1>1. CASE \A v \in Voters(x, 1) : v = x \/ ~Stood(v)
  <2>1. Loyal(x) = Voters(x, 1)
    BY <1>1, Zenon DEF Loyal
  <2>. QED  BY <2>1, Zenon DEF Elected
<1>2. ASSUME NEW v \in Voters(x, 1), v # x, Stood(v) PROVE Elected(x)
  <2>1. PICK c \in cast : c.voter = v /\ c.cand = x /\ c.term = 1
    BY <1>2, Zenon DEF Voters
  <2>2. PICK w \in Server : w # v /\ Elected(w)
    BY <1>2, <2>1, Zenon DEF VotesWithCrashes, OtherElected
  <2>3. PICK u \in Server : u \in Loyal(w) /\ u \in Voters(x, 1)
    <3>1. Voters(x, 1) \subseteq Server
      BY Zenon DEF Voters
    <3>. QED  BY <2>2, <3>1, LoyalFinite, MajoritiesMeet, Zenon DEF Elected
  <2>4. u \in Voters(w, 1) /\ (u = w \/ ~Stood(u))
    BY <2>3, Zenon DEF Loyal
  <2>5. CASE ~Stood(u)
    BY <2>2, <2>3, <2>4, <2>5, BystanderBinds, Zenon
  <2>6. ASSUME Stood(u), u # x PROVE FALSE
    <3>1. u = w
      BY <2>4, <2>6, Zenon
    <3>2. PICK d \in cast : d.voter = u /\ d.cand = x /\ d.term = 1
      BY <2>3, Zenon DEF Voters
    <3>3. PICK y \in Server : y # u /\ Elected(y)
      BY <2>6, <3>2, Zenon DEF VotesWithCrashes, OtherElected
    <3>. QED  BY <2>2, <3>1, <3>3, ElectedUnique, Zenon
  <2>. QED  BY <2>2, <2>4, <2>5, <2>6, Zenon
<1>. QED  BY <1>1, <1>2, Zenon

\* In term 1 a server that is not FOLLOWER grants no vote.
LEMMA NoGrantByCandidate ==
    ASSUME ElectionInv, NEW m \in rvReq, Stands(m.dst),
           currentTerm[m.dst] <= m.term, m.term = 1,
           HeldVote(m.dst, m.term) \in {Nil, m.src}
    PROVE  state[m.dst] = FOLLOWER
<1> SUFFICES ASSUME state[m.dst] # FOLLOWER PROVE FALSE
  OBVIOUS
<1>1. m.dst \in Server /\ m.src # m.dst /\ m.dst # Nil
  BY NilAssumption, Zenon DEF ElectionInv, TypeInv, TypeOK, TypeRv, RVArgs, CallInv
<1>2. currentTerm[m.dst] \in Nat /\ currentTerm[m.dst] >= 1
  BY <1>1, BoundsAssumption DEF ElectionInv, TypeInv, TypeOK, TypeTerm, Term, LogInv
<1>3. currentTerm[m.dst] = 1
  BY <1>2
<1>4. votedFor[m.dst] = m.dst
  BY <1>3, Zenon DEF Stands
<1>5. HeldVote(m.dst, m.term) = m.dst
  BY <1>3, <1>4 DEF HeldVote
<1>. QED  BY <1>1, <1>5, Zenon

\* Every step preserves what is said about the votes.
LEMMA CrashVotes ==
    ASSUME ElectionInv, [Next]_vars, ~VotedAgain(1)',
           \A s \in Server : Stands(s), VotesWithCrashes
    PROVE  VotesWithCrashes'
<1> SUFFICES ASSUME NEW c \in cast', c.term = 1, c.cand # c.voter
             PROVE  /\ c.as = FOLLOWER
                    /\ Stood(c.voter)' => OtherElected(c.voter)'
  BY Zenon DEF VotesWithCrashes
<1>1. CASE c \in cast
  BY <1>1, StoodBefore, OtherStays, Zenon DEF VotesWithCrashes
<1>2. ASSUME c \notin cast, NEW s \in Server, AttemptEletion(s) PROVE FALSE
  <2>1. PICK d : cast' = cast \union {d} /\ d.voter = s /\ d.cand = s
    BY <1>2, OwnVote, Zenon
  <2>. QED  BY <1>2, <2>1, Zenon
<1>3. ASSUME c \notin cast, NEW m \in rvReq, GrantVote(m)
      PROVE  /\ c.as = FOLLOWER
             /\ Stood(c.voter)' => OtherElected(c.voter)'
  <2>1. PICK d : /\ cast' = cast \union {d} /\ m.src # m.dst
                 /\ d.voter = m.dst /\ d.cand = m.src /\ d.gen = gen[m.dst]
                 /\ d.term = m.term /\ d.as = state[m.dst]
    BY <1>3, GrantedVote, Zenon
  <2>2. c = d
    BY <1>3, <2>1, Zenon
  <2>3. m.dst \in Server /\ currentTerm[m.dst] \in Nat
    BY BoundsAssumption DEF ElectionInv, TypeInv, TypeOK, TypeTerm, TypeRv, RVArgs, Term
  <2>4. currentTerm[m.dst] <= 1 /\ m.term = 1 /\ HeldVote(m.dst, m.term) \in {Nil, m.src}
    BY <1>3, <2>1, <2>2, Zenon DEF GrantVote
  <2>5. state[m.dst] = FOLLOWER
    BY <2>3, <2>4, NoGrantByCandidate, Zenon
  <2>6. ASSUME Stood(c.voter)' PROVE OtherElected(c.voter)'
    <3>1. PICK e \in cast' : e.voter = m.dst /\ e.cand = m.dst /\ e.term = 1
      BY <2>1, <2>2, <2>6, Zenon DEF Stood
    <3>2. e \in cast
      BY <2>1, <3>1, Zenon
    <3>3. e.gen = gen[m.dst]
      BY <2>1, <2>2, <3>1, Zenon DEF VotedAgain
    <3>4. 1 <= currentTerm[m.dst]
      BY <3>1, <3>2, <3>3, Zenon DEF ElectionInv, BindInv
    <3>5. currentTerm[m.dst] = 1
      BY <2>3, <2>4, <3>4
    <3>6. OtherElected(m.dst)
      BY <2>3, <2>5, <3>1, <3>2, <3>3, <3>5, Zenon DEF Stands, StoodNow
    <3>. QED  BY <2>1, <2>2, <3>6, OtherStays, Zenon
  <2>. QED  BY <2>1, <2>2, <2>5, <2>6, Zenon
<1>. QED  BY <1>1, <1>2, <1>3, NewVote, Zenon

\* The step is not one by which s becomes a candidate.
NoCandidacy(s) == \A e \in cast' \ cast : ~(e.voter = s /\ e.cand = s)

\* So a vote s has cast for itself since its last crash is an old one.
LEMMA StoodNowKept ==
    ASSUME NEW s \in Server, gen'[s] = gen[s], NoCandidacy(s), StoodNow(s)'
    PROVE  StoodNow(s)
BY Zenon DEF StoodNow, NoCandidacy

\* RequestVote makes nobody a candidate.
LEMMA NoCandidacyByVoting ==
    ASSUME ElectionInv, NEW m \in rvReq, RequestVote(m), NEW s \in Server
    PROVE  NoCandidacy(s)
<1>1. CASE UNCHANGED cast
  BY <1>1, Zenon DEF NoCandidacy
<1>2. CASE GrantVote(m)
  <2>1. PICK d : /\ cast' = cast \union {d} /\ m.src # m.dst
                 /\ d.voter = m.dst /\ d.cand = m.src
    BY <1>2, GrantedVote, Zenon
  <2>. QED  BY <2>1, Zenon DEF NoCandidacy
<1>. QED  BY <1>1, <1>2, Zenon DEF RequestVote, RejectStaleCandidate, RejectVoted, RejectOutdatedLog

\* Nothing is asked of a server whose term, state and vote stay.
LEMMA StandsKept ==
    ASSUME ElectionInv, [Next]_vars, ~VotedAgain(1)', NEW s \in Server, Stands(s),
           NoCandidacy(s), gen'[s] = gen[s], currentTerm'[s] = currentTerm[s],
           state'[s] = state[s], votedFor'[s] = votedFor[s]
    PROVE  Stands(s)'
BY StoodNowKept, ElectedStays, OtherStays, Zenon DEF Stands

\* A FOLLOWER that enters term 1 from term 0, or stays in it, may vote.
LEMMA StandsFollower ==
    ASSUME ElectionInv, [Next]_vars, ~VotedAgain(1)', NEW s \in Server, Stands(s),
           NoCandidacy(s), gen'[s] = gen[s], currentTerm[s] <= currentTerm'[s],
           currentTerm'[s] = 1, state'[s] = FOLLOWER,
           currentTerm[s] = 1 => state[s] = FOLLOWER \/ OtherElected(s)
    PROVE  Stands(s)'
<1>1. currentTerm[s] \in Nat
  BY BoundsAssumption DEF ElectionInv, TypeInv, TypeOK, TypeTerm, Term
<1>2. CASE currentTerm[s] = 1
  BY <1>2, StoodNowKept, OtherStays, Zenon DEF Stands, FOLLOWER, LEADER
<1>3. CASE currentTerm[s] = 0
  <2>1. ASSUME StoodNow(s) PROVE FALSE
    <3>1. PICK c \in cast : c.voter = s /\ c.term = 1 /\ c.gen = gen[s]
      BY <2>1, Zenon DEF StoodNow
    <3>2. 1 <= 0
      BY <1>3, <3>1, Zenon DEF ElectionInv, BindInv
    <3>. QED  BY <3>2
  <2>. QED  BY <2>1, StoodNowKept, Zenon DEF Stands, FOLLOWER, LEADER
<1>4. currentTerm[s] = 0 \/ currentTerm[s] = 1
  BY <1>1
<1>. QED  BY <1>2, <1>3, <1>4, Zenon

\* RequestVote: only a FOLLOWER adopts term 1 or votes in it.
LEMMA StandsRequestVote ==
    ASSUME ElectionInv, [Next]_vars, ~VotedAgain(1)', \A s \in Server : Stands(s),
           NEW m \in rvReq, RequestVote(m), NEW r \in Server
    PROVE  Stands(r)'
<1> DEFINE s == m.dst
<1> USE DEF ElectionInv, TypeInv
<1>1. /\ s \in Server /\ m.term \in Nat
      /\ currentTerm \in [Server -> Nat] /\ currentTerm[s] \in Nat
  BY BoundsAssumption DEF TypeOK, TypeTerm, TypeRv, RVArgs, Term
<1>2. NoCandidacy(r) /\ gen' = gen
  BY NoCandidacyByVoting, Zenon DEF RequestVote
<1>3. CASE UNCHANGED termVars
  BY <1>2, <1>3, StandsKept, Zenon DEF termVars
<1>4. CASE /\ currentTerm[s] <= m.term
           /\ HeldVote(s, m.term) \in {Nil, m.src}
           /\ currentTerm' = [currentTerm EXCEPT ![s] = m.term]
           /\ UNCHANGED state
           /\ \A q \in Server \ {s} : votedFor'[q] = votedFor[q]
  <2>1. CASE r # s
    BY <1>1, <1>2, <1>4, <2>1, StandsKept, Zenon
  <2>2. CASE r = s
    <3>1. currentTerm'[s] = m.term
      BY <1>1, <1>4, Zenon
    <3>2. ASSUME m.term = 1 PROVE Stands(s)'
      <4>1. state[s] = FOLLOWER
        BY <1>1, <1>4, <3>2, NoGrantByCandidate, Zenon
      <4>2. currentTerm[s] <= currentTerm'[s]
        BY <1>4, <3>1, Zenon
      <4>. QED  BY <1>1, <1>2, <1>4, <2>2, <3>1, <3>2, <4>1, <4>2, StandsFollower, Zenon
    <3>3. CASE m.term # 1
      BY <2>2, <3>1, <3>3, Zenon DEF Stands
    <3>. QED  BY <2>2, <3>2, <3>3, Zenon
  <2>. QED  BY <2>1, <2>2, Zenon
<1>. QED
  BY <1>1, <1>3, <1>4, Zenon DEF RequestVote, RejectStaleCandidate, RejectVoted,
     RejectOutdatedLog, GrantVote, TypeOK, TypeTerm

\* AttemptEletion: a new candidate holds its own vote.
LEMMA StandsAttempt ==
    ASSUME ElectionInv, [Next]_vars, ~VotedAgain(1)', \A s \in Server : Stands(s),
           NEW s \in Server, AttemptEletion(s), NEW r \in Server
    PROVE  Stands(r)'
<1> USE DEF ElectionInv, TypeInv
<1>1. /\ \E t : currentTerm' = [currentTerm EXCEPT ![s] = t]
      /\ state' = [state EXCEPT ![s] = CANDIDATE]
      /\ votedFor' = [votedFor EXCEPT ![s] = s] /\ gen' = gen
  BY Zenon DEF AttemptEletion, conevrtToCandidate
<1>2. CASE r # s
  <2>1. NoCandidacy(r)
    <3>1. PICK d : cast' = cast \union {d} /\ d.voter = s
      BY OwnVote, Zenon DEF ElectionInv, TypeInv
    <3>. QED  BY <1>2, <3>1, Zenon DEF NoCandidacy
  <2>. QED  BY <1>1, <1>2, <2>1, StandsKept, Zenon DEF TypeOK, TypeTerm
<1>3. CASE r = s
  <2>1. state'[s] = CANDIDATE /\ votedFor'[s] = s
    BY <1>1, Zenon DEF TypeOK, TypeTerm
  <2>. QED  BY <1>3, <2>1, Zenon DEF Stands, CANDIDATE, FOLLOWER, LEADER
<1>. QED  BY <1>2, <1>3, Zenon

\* A server that learns of a higher term becomes FOLLOWER in it.
LEMMA StandsLearns ==
    ASSUME ElectionInv, [Next]_vars, ~VotedAgain(1)', \A s \in Server : Stands(s),
           NEW s \in Server, NEW t \in Nat, t > currentTerm[s], conevrtToFollower(s, t),
           UNCHANGED <<cast, gen>>, NEW r \in Server
    PROVE  Stands(r)'
<1> USE DEF ElectionInv, TypeInv
<1>1. currentTerm \in [Server -> Nat] /\ currentTerm[s] \in Nat /\ NoCandidacy(r)
  BY BoundsAssumption DEF TypeOK, TypeTerm, Term, NoCandidacy
<1>2. CASE r # s
  BY <1>1, <1>2, StandsKept, Zenon DEF conevrtToFollower, TypeOK, TypeTerm
<1>3. CASE r = s
  <2>1. currentTerm'[s] = t /\ state'[s] = FOLLOWER
    BY <1>1, Zenon DEF conevrtToFollower, TypeOK, TypeTerm
  <2>2. t = 1 => currentTerm[s] # 1 /\ currentTerm[s] <= t
    BY <1>1
  <2>3. CASE t = 1
    BY <1>1, <1>3, <2>1, <2>2, <2>3, StandsFollower, Zenon
  <2>4. CASE t # 1
    BY <1>3, <2>1, <2>4, Zenon DEF Stands
  <2>. QED  BY <2>3, <2>4, Zenon
<1>. QED  BY <1>2, <1>3, Zenon

\* AppendEntries: a candidate or leader of term 1 steps down for a server that
\* is elected.
LEMMA StandsAppendEntries ==
    ASSUME ElectionInv, [Next]_vars, ~VotedAgain(1)', \A s \in Server : Stands(s),
           BeatsWithCrashes, NEW m \in aeReq, AppendEntries(m), NEW r \in Server
    PROVE  Stands(r)'
<1> DEFINE s == m.dst
<1> USE DEF ElectionInv, TypeInv
<1>1. /\ s \in Server /\ m.src \in Server /\ m.term \in Nat
      /\ currentTerm \in [Server -> Nat] /\ currentTerm[s] \in Nat
  BY BoundsAssumption DEF TypeOK, TypeTerm, TypeAe, AEArgs, Term
<1>2. UNCHANGED <<cast, gen>>
  BY Zenon DEF AppendEntries
<1>3. NoCandidacy(r)
  BY <1>2, Zenon DEF NoCandidacy
<1>4. CASE UNCHANGED termVars
  BY <1>2, <1>3, <1>4, StandsKept, Zenon DEF termVars
<1>5. CASE /\ currentTerm[s] <= m.term
           /\ currentTerm' = [currentTerm EXCEPT ![s] = m.term]
           /\ \/ UNCHANGED <<state, votedFor>> /\ state[s] = FOLLOWER
              \/ /\ state[s] # FOLLOWER
                 /\ state' = [state EXCEPT ![s] = FOLLOWER]
                 /\ votedFor' = [votedFor EXCEPT ![s] = Nil]
  <2>1. CASE r # s
    BY <1>1, <1>2, <1>3, <1>5, <2>1, StandsKept, Zenon DEF TypeOK, TypeTerm
  <2>2. CASE r = s
    <3>1. currentTerm'[s] = m.term /\ state'[s] = FOLLOWER
      BY <1>1, <1>5, Zenon DEF TypeOK, TypeTerm
    <3>2. CASE m.term = 1
      <4>1. OtherElected(s)
        BY <1>1, <3>2, Zenon DEF BeatsWithCrashes, OtherElected
      <4>. QED  BY <1>1, <1>2, <1>3, <1>5, <2>2, <3>1, <3>2, <4>1, StandsFollower, Zenon
    <3>3. CASE m.term # 1
      BY <2>2, <3>1, <3>3, Zenon DEF Stands
    <3>. QED  BY <3>2, <3>3, Zenon
  <2>. QED  BY <2>1, <2>2, Zenon
<1>. QED
  BY <1>4, <1>5, Zenon DEF AppendEntries, RejectStaleLeader, StepDown, RejectMismatch,
     AcceptEntries, AdoptTerm, conevrtToFollower

\* A crash takes the server back to term 0.
LEMMA StandsRestart ==
    ASSUME ElectionInv, [Next]_vars, ~VotedAgain(1)', \A s \in Server : Stands(s),
           NEW s \in Server, Restart(s), NEW r \in Server
    PROVE  Stands(r)'
<1> USE DEF ElectionInv, TypeInv
<1>1. /\ currentTerm' = [currentTerm EXCEPT ![s] = 0]
      /\ state' = [state EXCEPT ![s] = FOLLOWER]
      /\ votedFor' = [votedFor EXCEPT ![s] = Nil]
      /\ \E g : gen' = [gen EXCEPT ![s] = g]
      /\ UNCHANGED cast
  BY Zenon DEF Restart
<1>2. CASE r # s
  <2>1. NoCandidacy(r)
    BY <1>1, Zenon DEF NoCandidacy
  <2>. QED  BY <1>1, <1>2, <2>1, StandsKept, Zenon DEF TypeOK, TypeTerm, TypeMisc
<1>3. CASE r = s
  <2>1. currentTerm'[s] = 0
    BY <1>1, Zenon DEF TypeOK, TypeTerm
  <2>2. 0 # 1
    OBVIOUS
  <2>. QED  BY <1>3, <2>1, <2>2, Zenon DEF Stands
<1>. QED  BY <1>2, <1>3, Zenon

\* Counting a vote: a server that wins term 1 is elected.
LEMMA CrashVoteReply ==
    ASSUME ElectionInv, ElectionInv', [Next]_vars, ~VotedAgain(1), ~VotedAgain(1)',
           \A s \in Server : Stands(s), VotesWithCrashes, WinnersElected,
           NEW m \in rvRep, VoteReply(m)
    PROVE  (\A r \in Server : Stands(r)') /\ WinnersElected'
<1> DEFINE s == m.src
<1> USE DEF ElectionInv, TypeInv
<1>1. /\ s \in Server /\ m.replyTerm \in Nat
      /\ currentTerm \in [Server -> Nat] /\ currentTerm[s] \in Nat
  BY BoundsAssumption DEF TypeOK, TypeTerm, TypeRv, RVReply, Term
<1>2. UNCHANGED <<cast, gen>>
  BY Zenon DEF VoteReply
<1>3. \A r \in Server : NoCandidacy(r)
  BY <1>2, Zenon DEF NoCandidacy
<1>4. CASE UNCHANGED <<termVars, done>>
  BY <1>2, <1>3, <1>4, StandsKept, ElectedStays, Zenon DEF termVars, WinnersElected
<1>5. CASE /\ m.replyTerm > currentTerm[s]
           /\ conevrtToFollower(s, m.replyTerm)
           /\ UNCHANGED done
  BY <1>1, <1>2, <1>5, StandsLearns, ElectedStays, Zenon DEF WinnersElected
<1>6. CASE /\ state[s] = CANDIDATE
           /\ done' = [done EXCEPT ![s] = @ \union {currentTerm[s]}]
           /\ conevrtToLeader(s)
  <2>1. UNCHANGED <<currentTerm, votedFor>> /\ state' = [state EXCEPT ![s] = LEADER]
    BY <1>6, Zenon DEF conevrtToLeader
  <2>2. /\ done'[s] = done[s] \union {currentTerm[s]} /\ state'[s] = LEADER
        /\ \A r \in Server \ {s} : done'[r] = done[r] /\ state'[r] = state[r]
    BY <1>1, <1>6, <2>1, Zenon DEF TypeOK, TypeElec, TypeTerm
  <2>3. ASSUME currentTerm[s] = 1 PROVE Elected(s)'
    <3>1. 1 \in done'[s]
      BY <2>2, <2>3, Zenon
    <3>2. Cardinality(Voters(s, 1)') > Half
      BY <1>1, <3>1, Zenon DEF CountInv, ElectedByMajority
    <3>3. Voters(s, 1)' = Voters(s, 1)
      BY <1>2, Zenon DEF Voters
    <3>4. Elected(s)
      BY <1>1, <3>2, <3>3, MajorityElects, Zenon
    <3>. QED  BY <1>1, <3>4, ElectedStays, Zenon
  <2>4. ASSUME NEW r \in Server, r # s PROVE Stands(r)'
    BY <1>2, <1>3, <2>1, <2>2, <2>4, StandsKept, Zenon
  <2>5. Stands(s)'
    BY <1>1, <1>6, <2>1, <2>2, <2>3, Zenon DEF Stands, CANDIDATE, FOLLOWER, LEADER
  <2>6. WinnersElected'
    BY <1>1, <2>2, <2>3, ElectedStays, Zenon DEF WinnersElected
  <2>. QED  BY <2>4, <2>5, <2>6, Zenon
<1>. QED  BY <1>4, <1>5, <1>6, Zenon DEF VoteReply, Wins, elecVars

\* Heartbeats already under way stay those of an elected server when terms only
\* grow.
LEMMA BeatsKept ==
    ASSUME ElectionInv, ElectionInv', [Next]_vars, ~VotedAgain(1)', BeatsWithCrashes,
           hbTask' \subseteq hbTask, aeReq' \subseteq aeReq,
           \A h \in hbTask' : currentTerm'[h.src] >= currentTerm[h.src]
    PROVE  BeatsWithCrashes'
<1> USE DEF ElectionInv, TypeInv
<1>1. ASSUME NEW h \in hbTask'
      PROVE  /\ h.src # h.dst /\ currentTerm'[h.src] >= 1
             /\ currentTerm'[h.src] = 1 => Elected(h.src)'
  <2>1. /\ h.src # h.dst /\ currentTerm[h.src] >= 1
        /\ currentTerm[h.src] = 1 => Elected(h.src)
    BY Zenon DEF BeatsWithCrashes
  <2>2. /\ h.src \in Server
        /\ currentTerm[h.src] \in Nat /\ currentTerm'[h.src] \in Nat
    BY BoundsAssumption DEF TypeOK, TypeAe, HBTask, TypeTerm, Term
  <2>3. currentTerm'[h.src] >= 1 /\ (currentTerm'[h.src] = 1 => currentTerm[h.src] = 1)
    BY <2>1, <2>2
  <2>. QED  BY <2>1, <2>2, <2>3, ElectedStays, Zenon DEF ElectionInv, TypeInv
<1>2. ASSUME NEW m \in aeReq' PROVE m.src # m.dst /\ (m.term = 1 => Elected(m.src)')
  <2>1. m.src \in Server
    BY Zenon DEF TypeOK, TypeAe, AEArgs
  <2>. QED  BY <2>1, ElectedStays, Zenon DEF BeatsWithCrashes, ElectionInv, TypeInv
<1>. QED  BY <1>1, <1>2, Zenon DEF BeatsWithCrashes

\* A round is started by a leader.
LEMMA BeatsHeartBeat ==
    ASSUME ElectionInv, ElectionInv', [Next]_vars, ~VotedAgain(1)',
           \A s \in Server : Stands(s), BeatsWithCrashes, NEW s \in Server, HeartBeat(s)
    PROVE  BeatsWithCrashes'
<1> USE DEF ElectionInv, TypeInv
<1>1. UNCHANGED <<currentTerm, state, votedFor, cast, aeReq>>
  BY Zenon DEF HeartBeat, termVars
<1>2. currentTerm \in [Server -> Nat]
  BY BoundsAssumption DEF TypeOK, TypeTerm, Term
<1>3. \A h \in hbTask : h.src \in Server
  BY Zenon DEF TypeOK, TypeAe, HBTask
<1>4. \A n \in aeReq : n.src \in Server
  BY Zenon DEF TypeOK, TypeAe, AEArgs
<1>5. CASE UNCHANGED hbTask
  BY <1>1, <1>3, <1>4, <1>5, ElectedStays, Zenon
     DEF BeatsWithCrashes, ElectionInv, TypeInv
<1>6. CASE state[s] = LEADER
  <2> DEFINE T == {[src |-> s, dst |-> p, gen |-> gen[s], round |-> round[s] + 1]
                      : p \in Server \ {s}}
  <2>1. hbTask' = hbTask \union T
    BY <1>6, Zenon DEF HeartBeat
  <2>2. ASSUME NEW h \in T PROVE h.src = s /\ h.dst # s
    <3>1. PICK p \in Server \ {s} :
              h = [src |-> s, dst |-> p, gen |-> gen[s], round |-> round[s] + 1]
      OBVIOUS
    <3>2. h.src = s /\ h.dst = p
      BY <3>1, Zenon
    <3>. QED  BY <3>2, Zenon
  <2> HIDE DEF T
  <2>3. currentTerm[s] >= 1
    BY <1>6, Zenon DEF LogInv, LEADER, FOLLOWER
  <2>4. currentTerm[s] = 1 => Elected(s)
    BY <1>6, Zenon DEF Stands
  <2>. QED
    BY <1>1, <1>3, <1>4, <2>1, <2>2, <2>3, <2>4, ElectedStays, Zenon
       DEF BeatsWithCrashes, ElectionInv, TypeInv
<1>7. state[s] # LEADER => UNCHANGED hbTask
  BY Zenon DEF HeartBeat
<1>. QED  BY <1>5, <1>6, <1>7, Zenon

\* A request carries the term its sender has when it is built.
LEMMA BeatsSend ==
    ASSUME ElectionInv, ElectionInv', [Next]_vars, ~VotedAgain(1)', BeatsWithCrashes,
           NEW h \in hbTask, SendAppendEntries(h)
    PROVE  BeatsWithCrashes'
<1> USE DEF ElectionInv, TypeInv
<1>1. /\ UNCHANGED currentTerm
      /\ hbTask' \subseteq hbTask /\ aeReq' \subseteq aeReq \union {HeartBeatArgs(h)}
  BY Zenon DEF SendAppendEntries, termVars
<1>2. /\ HeartBeatArgs(h).src = h.src /\ HeartBeatArgs(h).dst = h.dst
      /\ HeartBeatArgs(h).term = currentTerm[h.src]
  BY Zenon DEF HeartBeatArgs
<1>3. \A k \in hbTask : k.src \in Server
  BY Zenon DEF TypeOK, TypeAe, HBTask
<1>4. \A n \in aeReq : n.src \in Server
  BY Zenon DEF TypeOK, TypeAe, AEArgs
<1>. QED
  BY <1>1, <1>2, <1>3, <1>4, ElectedStays, Zenon DEF BeatsWithCrashes, ElectionInv, TypeInv

\* Heartbeats stay those of an elected server when a server crashes.
LEMMA CrashRestart ==
    ASSUME ElectionInv, ElectionInv', [Next]_vars, ~VotedAgain(1)', BeatsWithCrashes,
           WinnersElected, NEW s \in Server, Restart(s)
    PROVE  BeatsWithCrashes' /\ WinnersElected'
<1> USE DEF ElectionInv, TypeInv
<1>1. /\ currentTerm' = [currentTerm EXCEPT ![s] = 0]
      /\ done' = [done EXCEPT ![s] = {}]
      /\ hbTask' = {h \in hbTask : h.src # s} /\ UNCHANGED aeReq
  BY Zenon DEF Restart
<1>2. currentTerm \in [Server -> Nat]
  BY BoundsAssumption DEF TypeOK, TypeTerm, Term
<1>3. ASSUME NEW h \in hbTask' PROVE currentTerm'[h.src] >= currentTerm[h.src]
  <2>1. h.src \in Server /\ h.src # s
    BY <1>1, Zenon DEF TypeOK, TypeAe, HBTask
  <2>2. currentTerm'[h.src] = currentTerm[h.src] /\ currentTerm[h.src] \in Nat
    BY <1>1, <1>2, <2>1, Zenon
  <2>. QED  BY <2>2
<1>4. BeatsWithCrashes'
  BY <1>1, <1>3, BeatsKept, Zenon DEF ElectionInv, TypeInv
<1>5. \A r \in Server : done'[r] \subseteq done[r]
  BY <1>1, Zenon DEF TypeOK, TypeElec
<1>. QED  BY <1>4, <1>5, ElectedStays, Zenon DEF WinnersElected, ElectionInv, TypeInv

\* Every step preserves the invariant.
LEMMA CrashStep ==
    ASSUME ElectionInv, ElectionInv', CrashInv, [Next]_vars
    PROVE  CrashInv'
<1> SUFFICES ASSUME ~VotedAgain(1)'
             PROVE  /\ \A s \in Server : Stands(s)'
                    /\ VotesWithCrashes' /\ BeatsWithCrashes' /\ WinnersElected'
  BY Zenon DEF CrashInv
<1>1. ~VotedAgain(1)
  BY VotedAgainStays, Zenon
<1>2. (\A s \in Server : Stands(s)) /\ VotesWithCrashes /\ BeatsWithCrashes /\ WinnersElected
  BY <1>1, Zenon DEF CrashInv
<1>3. VotesWithCrashes'
  BY <1>2, CrashVotes, Zenon
<1>4. ASSUME UNCHANGED done PROVE WinnersElected'
  BY <1>2, <1>4, ElectedStays, Zenon DEF WinnersElected
<1>5. ASSUME NEW s \in Server, Restart(s)
      PROVE  (\A r \in Server : Stands(r)') /\ BeatsWithCrashes' /\ WinnersElected'
  BY <1>2, <1>5, StandsRestart, CrashRestart, Zenon
<1>6. ASSUME \A s \in Server : ~Restart(s), hbTask' \subseteq hbTask, aeReq' \subseteq aeReq
      PROVE  BeatsWithCrashes'
  <2>1. \A s \in Server : currentTerm'[s] >= currentTerm[s]
    BY <1>6, TermsGrow, Zenon DEF ElectionInv, TypeInv
  <2>2. \A h \in hbTask : h.src \in Server
    BY Zenon DEF ElectionInv, TypeInv, TypeOK, TypeAe, HBTask
  <2>3. \A h \in hbTask' : currentTerm'[h.src] >= currentTerm[h.src]
    BY <1>6, <2>1, <2>2, Zenon
  <2>. QED  BY <1>2, <1>6, <2>3, BeatsKept, Zenon
<1>7. ASSUME UNCHANGED <<termVars, cast, gen>>
      PROVE  \A s \in Server : Stands(s)'
  BY <1>2, <1>7, StandsKept, Zenon DEF termVars, NoCandidacy
<1> SUFFICES ASSUME \A s \in Server : ~Restart(s)
             PROVE  (\A s \in Server : Stands(s)') /\ BeatsWithCrashes' /\ WinnersElected'
  BY <1>3, <1>5, Zenon
<1>8. ASSUME NEW m \in rvReq, RequestVote(m)
      PROVE  (\A s \in Server : Stands(s)') /\ BeatsWithCrashes' /\ WinnersElected'
  <2>1. UNCHANGED <<done, hbTask, aeReq>>
    BY <1>8, Zenon DEF RequestVote, elecVars, aeVars
  <2>. QED  BY <1>2, <1>4, <1>6, <1>8, <2>1, StandsRequestVote, Zenon
<1>9. ASSUME NEW s \in Server, AttemptEletion(s)
      PROVE  (\A r \in Server : Stands(r)') /\ BeatsWithCrashes' /\ WinnersElected'
  <2>1. UNCHANGED <<done, hbTask, aeReq>>
    BY <1>9, Zenon DEF AttemptEletion, aeVars
  <2>. QED  BY <1>2, <1>4, <1>6, <1>9, <2>1, StandsAttempt, Zenon
<1>10. ASSUME NEW m \in rvRep, VoteReply(m)
       PROVE  (\A s \in Server : Stands(s)') /\ BeatsWithCrashes' /\ WinnersElected'
  <2>1. UNCHANGED <<hbTask, aeReq>>
    BY <1>10, Zenon DEF VoteReply, aeVars
  <2>. QED  BY <1>1, <1>2, <1>6, <1>10, <2>1, CrashVoteReply, Zenon
<1>11. ASSUME NEW m \in aeReq, AppendEntries(m)
       PROVE  (\A s \in Server : Stands(s)') /\ BeatsWithCrashes' /\ WinnersElected'
  <2>1. UNCHANGED <<done, hbTask>> /\ aeReq' \subseteq aeReq
    BY <1>11, Zenon DEF AppendEntries, RejectStaleLeader, StepDown, RejectMismatch,
       AcceptEntries, ReplyAppend, elecVars
  <2>. QED  BY <1>2, <1>4, <1>6, <1>11, <2>1, StandsAppendEntries, Zenon
<1>12. ASSUME NEW m \in aeRep, AppendReply(m)
       PROVE  (\A s \in Server : Stands(s)') /\ BeatsWithCrashes' /\ WinnersElected'
  <2>1. m.src \in Server /\ m.replyTerm \in Nat
    BY BoundsAssumption DEF ElectionInv, TypeInv, TypeOK, TypeAe, AEReply, Term
  <2>2. UNCHANGED <<done, hbTask, aeReq, cast, gen>>
    BY <1>12, Zenon DEF AppendReply, elecVars
  <2>3. \/ UNCHANGED termVars
        \/ m.replyTerm > currentTerm[m.src] /\ conevrtToFollower(m.src, m.replyTerm)
    BY <1>12, Zenon DEF AppendReply
  <2>4. \A s \in Server : Stands(s)'
    BY <1>2, <1>7, <2>1, <2>2, <2>3, StandsLearns, Zenon
  <2>. QED  BY <1>4, <1>6, <2>2, <2>4, Zenon
<1>13. ASSUME NEW s \in Server, HeartBeat(s)
       PROVE  (\A r \in Server : Stands(r)') /\ BeatsWithCrashes' /\ WinnersElected'
  <2>1. UNCHANGED <<termVars, done, cast, gen>>
    BY <1>13, Zenon DEF HeartBeat, elecVars
  <2>. QED  BY <1>2, <1>4, <1>7, <1>13, <2>1, BeatsHeartBeat, Zenon
<1>14. ASSUME NEW h \in hbTask, SendAppendEntries(h)
       PROVE  (\A s \in Server : Stands(s)') /\ BeatsWithCrashes' /\ WinnersElected'
  <2>1. UNCHANGED <<termVars, done, cast, gen>>
    BY <1>14, Zenon DEF SendAppendEntries, elecVars
  <2>. QED  BY <1>2, <1>4, <1>7, <1>14, <2>1, BeatsSend, Zenon
<1>15. ASSUME \/ \E s \in Server : ElectionTimeout(s)
              \/ \E s \in Server, v \in Value : Start(s, v)
              \/ \E s \in Server : ApplyAdvance(s) \/ ApplySend(s)
              \/ CallFails
       PROVE  UNCHANGED <<termVars, done, cast, gen, hbTask>> /\ aeReq' \subseteq aeReq
  BY <1>15, Zenon DEF ElectionTimeout, Start, ApplyAdvance, ApplySend, CallFails,
              elecVars, aeVars
<1>16. CASE UNCHANGED vars
  BY <1>4, <1>6, <1>7, <1>16, Zenon DEF vars, elecVars, aeVars
<1>. QED
  BY <1>4, <1>6, <1>7, <1>8, <1>9, <1>10, <1>11, <1>12, <1>13, <1>14, <1>15, <1>16, Zenon
     DEF Next

\* Term 1 has two winners only if a server votes, crashes and votes again for
\* another candidate of term 1: no other crash, no step down and no order of
\* votes, heartbeats and replies gives it two, for any number of servers.
THEOREM FirstTermElectionIsSafe == Spec => []FirstTermElectionSafety
<1>1. Init => ElectionInv /\ CrashInv
  BY ElectionInvInit, CrashInit, Zenon
<1>2. ElectionInv /\ CrashInv /\ [Next]_vars => ElectionInv' /\ CrashInv'
  BY ElectionInvStep, CrashStep, Zenon
<1>3. ElectionInv /\ CrashInv => FirstTermElectionSafety
  BY ElectedUnique, Zenon DEF CrashInv, WinnersElected, FirstTermElectionSafety
<1>. QED  BY <1>1, <1>2, <1>3, PTL DEF Spec

----------------------------------------------------------------------------
(* Logs in term 1: all are prefixes of the log of the one winner *)

NoCrash == \A s \in Server : gen[s] = 0

InTermOneAll == NoCrash /\ \A s \in Server : currentTerm[s] <= 1

\* What is known of term 1 when nothing has crashed.
Calm ==
    NoCrash =>
        /\ ~VotedAgain(1)
        /\ \A s \in Server : Stands(s)
        /\ BeatsWithCrashes
        /\ \A x, y \in Server : Elected(x) /\ Elected(y) => x = y

\* No vote was forgotten then.
LEMMA CalmHolds ==
    ASSUME ElectionInv, CrashInv PROVE Calm
<1> SUFFICES ASSUME NoCrash PROVE Calm
  BY Zenon DEF Calm
<1>1. ~VotedAgain(1)
  <2> SUFFICES ASSUME NEW c \in cast, NEW d \in cast PROVE c.gen = d.gen
    BY Zenon DEF VotedAgain
  <2>1. ASSUME NEW e \in cast PROVE e.gen = 0
    <3>1. e.voter \in Server /\ e.gen \in Nat
      BY Zenon DEF ElectionInv, TypeInv, TypeOK, TypeMisc, Vote
    <3>2. e.gen <= gen[e.voter] /\ gen[e.voter] = 0
      BY <3>1, Zenon DEF ElectionInv, BindInv, NoCrash
    <3>. QED  BY <3>1, <3>2
  <2>. QED  BY <2>1, Zenon
<1>. QED  BY <1>1, ElectedUnique, Zenon DEF Calm, CrashInv

\* A state without crashes was reached by a step that is no crash.
LEMMA CrashesStay ==
    ASSUME TypeOK, [Next]_vars, NoCrash'
    PROVE  NoCrash /\ UNCHANGED gen /\ \A s \in Server : ~Restart(s)
<1>1. \A s \in Server : ~Restart(s)
  <2> SUFFICES ASSUME NEW s \in Server, Restart(s) PROVE FALSE
    OBVIOUS
  <2>1. gen' = [gen EXCEPT ![s] = @ + 1] /\ gen[s] \in Nat
    BY Zenon DEF Restart, TypeOK, TypeMisc
  <2>2. gen'[s] = gen[s] + 1
    BY <2>1, Zenon DEF TypeOK, TypeMisc
  <2>3. gen'[s] = 0
    BY Zenon DEF NoCrash
  <2>. QED  BY <2>1, <2>2, <2>3
<1>2. UNCHANGED gen
  BY <1>1, Zenon DEF Next, ElectionTimeout, AttemptEletion, RequestVote, VoteReply, Start,
     HeartBeat, SendAppendEntries, AppendEntries, AppendReply, ApplyAdvance,
     ApplySend, CallFails, vars
<1>. QED  BY <1>1, <1>2, Zenon DEF NoCrash

\* l is a prefix of w.
Begins(l, w) == Len(l) <= Len(w) /\ \A i \in 1 .. Len(l) : l[i] = w[i]

\* The commands in a are those at the same places of w.
Delivers(a, w) == Len(a) <= Len(w) /\ \A i \in 1 .. Len(a) : a[i] = w[i].cmd

\* A request carries a part of w that starts behind PrevLogIndex.
Carries(m, w) ==
    /\ m.term >= 1
    /\ m.prevLogIndex + Len(m.entries) <= Len(w)
    /\ \A i \in 1 .. Len(m.entries) : m.entries[i] = w[m.prevLogIndex + i]

Follows(w) ==
    /\ \A s \in Server : Begins(log[s], log[w]) /\ Delivers(applied[s], log[w])
    /\ \A m \in aeReq : Carries(m, log[w])

\* Before a majority has voted for a server there is nothing to follow.
Empty == aeReq = {} /\ \A s \in Server : log[s] = <<>> /\ applied[s] = <<>>

\* apply() sends the entry at lastApplied next, or has sent it.
Counting ==
    \A s \in Server : ~panicked[s] =>
        Len(applied[s]) = IF applying[s] THEN lastApplied[s] - 1 ELSE lastApplied[s]

\* The inductive invariant.
FirstInv ==
    InTermOneAll =>
        /\ (\A w \in Server : ~Elected(w)) => Empty
        /\ \A w \in Server : Elected(w) => Follows(w)
        /\ Counting

\* The invariant holds before the first election.
LEMMA FirstInit == Init => FirstInv
<1> SUFFICES ASSUME Init PROVE FirstInv
  OBVIOUS
<1>1. Empty
  BY Zenon DEF Init, Empty
<1>2. \A w \in Server : Follows(w)
  <2>1. Begins(<<>>, <<>>) /\ Delivers(<<>>, <<>>)
    BY DEF Begins, Delivers
  <2>. QED  BY <1>1, <2>1, Zenon DEF Follows, Empty
<1>3. Counting
  BY DEF Init, Counting
<1>. QED  BY <1>1, <1>2, <1>3, Zenon DEF FirstInv

\* Steps that leave the logs alone and send nothing: if they elect a server then
\* before anything was appended anywhere.
LEMMA FirstKept ==
    ASSUME ElectionInv, [Next]_vars, FirstInv, InTermOneAll, Calm', NoCrash',
           UNCHANGED <<log, applied, applying, lastApplied, panicked>>, aeReq' \subseteq aeReq
    PROVE  FirstInv'
<1>1. Counting'
  BY Zenon DEF FirstInv, Counting
<1>2. Empty => Empty'
  BY Zenon DEF Empty
<1>3. \A w \in Server : Follows(w) => Follows(w)'
  BY Zenon DEF Follows
<1>4. \A w \in Server : Elected(w) => Elected(w)'
  BY ElectedStays, Zenon DEF Calm
<1>5. ASSUME NEW w \in Server, Elected(w)'
      PROVE  Follows(w)'
  <2>1. CASE \E r \in Server : Elected(r)
    <3>1. PICK r \in Server : Elected(r)
      BY <2>1, Zenon
    <3>2. r = w
      BY <1>4, <1>5, <3>1, Zenon DEF Calm
    <3>. QED  BY <1>3, <3>1, <3>2, Zenon DEF FirstInv
  <2>2. CASE \A r \in Server : ~Elected(r)
    <3>1. Empty'
      BY <1>2, <2>2, Zenon DEF FirstInv
    <3>2. Begins(<<>>, <<>>) /\ Delivers(<<>>, <<>>)
      BY DEF Begins, Delivers
    <3>. QED  BY <3>1, <3>2, Zenon DEF Follows, Empty
  <2>. QED  BY <2>1, <2>2, Zenon
<1>. QED  BY <1>1, <1>2, <1>4, <1>5, Zenon DEF FirstInv

\* The winner's log grows at its end.
LEMMA Grows ==
    ASSUME NEW w, NEW x, Begins(w, x), Len(w) \in Nat, Len(x) \in Nat
    PROVE  /\ \A l : Len(l) \in Nat /\ Begins(l, w) => Begins(l, x)
           /\ \A a : Len(a) \in Nat /\ Delivers(a, w) => Delivers(a, x)
           /\ \A m : m.prevLogIndex \in Nat /\ Len(m.entries) \in Nat /\ Carries(m, w) => Carries(m, x)
<1>1. \A l : Len(l) \in Nat /\ Begins(l, w) => Begins(l, x)
  BY DEF Begins
<1>2. \A a : Len(a) \in Nat /\ Delivers(a, w) => Delivers(a, x)
  BY DEF Begins, Delivers
<1>3. \A m : m.prevLogIndex \in Nat /\ Len(m.entries) \in Nat /\ Carries(m, w) => Carries(m, x)
  <2> TAKE m
  <2> HAVE m.prevLogIndex \in Nat /\ Len(m.entries) \in Nat /\ Carries(m, w)
  <2>1. \A i \in 1 .. Len(m.entries) : m.prevLogIndex + i \in 1 .. Len(w)
    BY DEF Carries
  <2>2. Len(w) <= Len(x) /\ \A j \in 1 .. Len(w) : w[j] = x[j]
    BY Zenon DEF Begins
  <2>3. \A i \in 1 .. Len(m.entries) : m.entries[i] = x[m.prevLogIndex + i]
    BY <2>1, <2>2, Zenon DEF Carries
  <2>4. m.term >= 1 /\ m.prevLogIndex + Len(m.entries) <= Len(x)
    BY <2>2 DEF Carries
  <2>. QED  BY <2>3, <2>4, Zenon DEF Carries
<1>. QED  BY <1>1, <1>2, <1>3, Zenon

\* In term 1 only the elected server is LEADER.
LEMMA LeaderWon ==
    ASSUME ElectionInv, Calm, InTermOneAll, NEW s \in Server, state[s] = LEADER
    PROVE  Elected(s)
<1>1. currentTerm[s] >= 1
  BY Zenon DEF ElectionInv, LogInv, LEADER, FOLLOWER
<1>2. currentTerm[s] \in Nat /\ currentTerm[s] <= 1
  BY BoundsAssumption DEF ElectionInv, TypeInv, TypeOK, TypeTerm, Term, InTermOneAll
<1>3. currentTerm[s] = 1
  BY <1>1, <1>2
<1>. QED  BY <1>3, Zenon DEF InTermOneAll, Calm, Stands

LEMMA SameElected ==
    ASSUME UNCHANGED cast
    PROVE  \A w : Elected(w)' <=> Elected(w)
<1>1. \A w : Loyal(w)' = Loyal(w)
  BY Zenon DEF Loyal, Voters, Stood
<1>. QED  BY <1>1, Zenon DEF Elected

LEMMA FirstStart ==
    ASSUME ElectionInv, Calm, FirstInv, InTermOneAll,
           NEW s \in Server, NEW v \in Value, Start(s, v)
    PROVE  FirstInv'
<1> USE DEF ElectionInv, TypeInv
<1> DEFINE x == Append(log[s], [term |-> currentTerm[s], cmd |-> v])
<1>1. Elected(s) /\ \A w \in Server : Elected(w) => w = s
  BY LeaderWon, Zenon DEF Start, Calm, InTermOneAll
<1>2. /\ log' = [log EXCEPT ![s] = x]
      /\ UNCHANGED <<applied, applying, lastApplied, panicked, cast, aeReq>>
  BY Zenon DEF Start, applyVars, aeVars
<1>3. /\ log[s] \in Seq(Entry) /\ Len(log[s]) \in Nat /\ log'[s] = x
      /\ \A r \in Server : r # s => log'[r] = log[r]
      /\ \A r \in Server : Len(log[r]) \in Nat
  BY <1>2 DEF TypeOK, TypeLog
<1>4. [term |-> currentTerm[s], cmd |-> v] \in Entry
  BY Zenon DEF TypeOK, TypeTerm, Entry
<1>5. Len(x) = Len(log[s]) + 1 /\ \A i \in 1 .. Len(log[s]) : x[i] = log[s][i]
  <2> DEFINE l == log[s]
             new == [term |-> currentTerm[s], cmd |-> v]
  <2>1. l \in Seq(Entry) /\ new \in Entry
    BY <1>3, <1>4, Zenon
  <2> HIDE DEF l, new
  <2>2. Len(Append(l, new)) = Len(l) + 1 /\ \A i \in 1 .. Len(l) : Append(l, new)[i] = l[i]
    BY <2>1
  <2>. QED  BY <2>2, Zenon DEF l, new
<1> HIDE DEF x
<1>6. Begins(log[s], x) /\ Begins(x, x) /\ Len(x) \in Nat
  BY <1>3, <1>5 DEF Begins
<1>7. Follows(s)
  BY <1>1, Zenon DEF FirstInv
<1>8. \A r \in Server : Begins(log'[r], x)
  <2>1. ASSUME NEW r \in Server, r # s PROVE Begins(log[r], x)
    BY <1>3, <1>6, <1>7, Grows, Zenon DEF Follows
  <2>. QED  BY <1>3, <1>6, <2>1, Zenon
<1>9. \A r \in Server : Delivers(applied[r], x)
  <2>1. \A r \in Server : Len(applied[r]) \in Nat
    BY DEF TypeOK, TypeApply
  <2>. QED  BY <1>3, <1>6, <1>7, <2>1, Grows, Zenon DEF Follows
<1>10. \A m \in aeReq : Carries(m, x)
  <2>1. \A m \in aeReq : m.prevLogIndex \in Nat /\ Len(m.entries) \in Nat
    BY DEF TypeOK, TypeAe, AEArgs
  <2>. QED  BY <1>3, <1>6, <1>7, <2>1, Grows, Zenon DEF Follows
<1>11. Follows(s)'
  BY <1>2, <1>3, <1>8, <1>9, <1>10, Zenon DEF Follows
<1>12. Counting'
  BY <1>2, Zenon DEF FirstInv, Counting
<1>13. \A w \in Server : Elected(w)' <=> Elected(w)
  BY <1>2, SameElected, Zenon
<1>. QED  BY <1>1, <1>11, <1>12, <1>13, Zenon DEF FirstInv

\* A heartbeat goroutine of the winner takes the end of the winner's log.
LEMMA FirstSend ==
    ASSUME ElectionInv, Calm, FirstInv, InTermOneAll, NEW h \in hbTask, SendAppendEntries(h)
    PROVE  FirstInv'
<1> USE DEF ElectionInv, TypeInv
<1> DEFINE s == h.src
           a == HeartBeatArgs(h)
<1>1. UNCHANGED <<log, applied, applying, lastApplied, cast>>
  BY Zenon DEF SendAppendEntries, logVars, applyVars
<1>2. h.src \in Server /\ h.dst \in Server
  BY Zenon DEF TypeOK, TypeAe, HBTask
<1>3. /\ Elected(h.src) /\ currentTerm[h.src] = 1 /\ \A w \in Server : Elected(w) => w = h.src
      /\ \A w \in Server : Elected(w)' <=> Elected(w)
  <2>1. currentTerm[h.src] >= 1 /\ (currentTerm[h.src] = 1 => Elected(h.src))
    BY Zenon DEF Calm, BeatsWithCrashes, InTermOneAll
  <2>2. currentTerm[h.src] \in Nat /\ currentTerm[h.src] <= 1
    BY <1>2, BoundsAssumption DEF TypeOK, TypeTerm, Term, InTermOneAll
  <2>3. currentTerm[h.src] = 1
    BY <2>1, <2>2
  <2>. QED  BY <1>1, <1>2, <2>1, <2>3, SameElected, Zenon DEF Calm, InTermOneAll
<1>4. Counting'
  <2>1. \A r \in Server : panicked[r] => panicked'[r]
    BY <1>2, Zenon DEF SendAppendEntries, TypeOK, TypeMisc
  <2>. QED  BY <1>1, <2>1, Zenon DEF FirstInv, Counting
<1>5. CASE aeReq' = aeReq \union {HeartBeatArgs(h)} /\ ~OutOfRange(h.src, h.dst)
  <2> DEFINE l == log[h.src]
             n == nextIndex[h.src][h.dst]
  <2>1. l \in Seq(Entry) /\ n \in Nat /\ n >= 1 /\ n <= Len(l) + 1 /\ Len(l) \in Nat
    <3>1. nextIndex[h.src][h.dst] >= 1
      BY <1>2, Zenon DEF NextIndexSet
    <3>2. log[h.src] \in Seq(Entry) /\ nextIndex[h.src][h.dst] \in Nat
      BY <1>2, Zenon DEF TypeOK, TypeLog, TypeHb
    <3>3. Len(log[h.src]) \in Nat
      BY <3>2
    <3>. QED  BY <1>5, <3>1, <3>2, <3>3 DEF OutOfRange
  <2>2. a.term = currentTerm[h.src] /\ a.prevLogIndex = n - 1 /\ a.entries = SubSeq(l, n, Len(l))
    BY Zenon DEF HeartBeatArgs, PrevIndex
  <2> HIDE DEF a, l, n
  <2>3. Carries(a, l)
    <3>1. n \in 1 .. Len(l) + 1
      BY <2>1
    <3>2. /\ Len(a.entries) = Len(l) - n + 1
          /\ \A i \in 1 .. Len(l) - n + 1 : a.entries[i] = l[n + i - 1]
      BY <2>1, <2>2, <3>1, Suffix
    <3>3. \A i \in 1 .. Len(l) - n + 1 : a.prevLogIndex + i = n + i - 1
      BY <2>1, <2>2
    <3>. QED  BY <1>3, <2>1, <2>2, <3>2, <3>3 DEF Carries
  <2>4. Follows(h.src)
    BY <1>2, <1>3, Zenon DEF FirstInv
  <2>5. Follows(h.src)'
    BY <1>1, <1>5, <2>3, <2>4, Zenon DEF Follows, a, l
  <2>. QED  BY <1>1, <1>2, <1>3, <1>4, <2>5, Zenon DEF FirstInv
<1>6. CASE UNCHANGED aeReq
  <2>1. \A w \in Server : Follows(w) => Follows(w)'
    BY <1>1, <1>6, Zenon DEF Follows
  <2>. QED  BY <1>1, <1>2, <1>3, <1>4, <2>1, Zenon DEF FirstInv
<1>. QED  BY <1>5, <1>6, Zenon DEF SendAppendEntries

\* What a follower splices together is a prefix of the winner's log again.
LEMMA FirstAppendEntries ==
    ASSUME ElectionInv, [Next]_vars, Calm, Calm', FirstInv, InTermOneAll, InTermOneAll',
           NEW m \in aeReq, AppendEntries(m)
    PROVE  FirstInv'
<1> USE DEF ElectionInv, TypeInv
<1> DEFINE s == m.dst
<1>1. UNCHANGED <<applied, applying, lastApplied, panicked, cast>> /\ aeReq' \subseteq aeReq
  BY Zenon DEF AppendEntries, RejectStaleLeader, StepDown, RejectMismatch, AcceptEntries,
               ReplyAppend, applyVars
<1>2. CASE UNCHANGED log
  BY <1>1, <1>2, FirstKept, Zenon DEF InTermOneAll
<1>3. CASE AcceptEntries(m)
  <2>1. m \in AEArgs /\ m.dst \in Server /\ m.prevLogIndex \in Nat /\ m.entries \in Seq(Entry)
    BY Zenon DEF TypeOK, TypeAe, AEArgs
  <2>2. /\ log' = [log EXCEPT ![s] = NewLog(m, log[s])] /\ m.prevLogIndex <= Len(log[s])
        /\ state[s] = FOLLOWER
    BY <1>3, Zenon DEF AcceptEntries, Matches
  <2>3. PICK w \in Server : Elected(w)
    BY Zenon DEF FirstInv, Empty
  <2>4. Follows(w)
    BY <2>3, Zenon DEF FirstInv
  <2>5. w # s
    <3>1. currentTerm'[m.dst] = m.term
      BY <1>3, <2>1, Zenon DEF AcceptEntries, AdoptTerm, TypeOK, TypeTerm
    <3>2. m.term <= 1 /\ m.term >= 1 /\ m.term \in Nat
      BY <2>1, <2>4, <3>1, BoundsAssumption DEF InTermOneAll, Follows, Carries, AEArgs, Term
    <3>3. m.term = 1
      BY <3>2
    <3>4. m.src # m.dst /\ Elected(m.src) /\ m.src \in Server
      BY <2>1, <3>3, Zenon DEF Calm, BeatsWithCrashes, InTermOneAll, AEArgs
    <3>. QED  BY <2>3, <3>4, Zenon DEF Calm, InTermOneAll
  <2>6. /\ log'[w] = log[w] /\ log'[s] = NewLog(m, log[s]) /\ log[s] \in Seq(Entry)
        /\ log[w] \in Seq(Entry) /\ \A r \in Server : r # s => log'[r] = log[r]
    BY <2>1, <2>2, <2>5, Zenon DEF TypeOK, TypeLog
  <2>7. Begins(NewLog(m, log[s]), log[w])
    <3> DEFINE x == NewLog(m, log[s])
               l == log[s]
               y == log[w]
               p == m.prevLogIndex
               e == m.entries
    <3>1. /\ Len(x) = p + Len(e)
          /\ \A i \in 1 .. p + Len(e) : x[i] = IF i <= p THEN l[i] ELSE e[i - p]
      BY <2>1, <2>2, <2>6, Splice
    <3>2. /\ p + Len(e) <= Len(y)
          /\ \A i \in 1 .. Len(e) : e[i] = y[p + i]
      BY <2>4, Zenon DEF Follows, Carries
    <3>3. \A i \in 1 .. Len(l) : l[i] = y[i]
      BY <2>1, <2>4, Zenon DEF Follows, Begins
    <3>4. p <= Len(l) /\ p \in Nat /\ Len(l) \in Nat /\ Len(e) \in Nat /\ Len(y) \in Nat
      BY <2>1, <2>2, <2>6
    <3> HIDE DEF x, l, y, p, e
    <3>5. ASSUME NEW i \in 1 .. Len(x) PROVE x[i] = y[i]
      <4>1. CASE i <= p
        BY <3>1, <3>3, <3>4, <4>1
      <4>2. CASE i > p
        <5>1. i - p \in 1 .. Len(e) /\ p + (i - p) = i
          BY <3>1, <3>4, <4>2
        <5>2. ~(i <= p) /\ i \in 1 .. p + Len(e)
          BY <3>1, <3>4, <4>2
        <5>3. x[i] = e[i - p]
          BY <3>1, <5>2, Zenon
        <5>4. e[i - p] = y[p + (i - p)]
          BY <3>2, <5>1, Zenon
        <5>. QED  BY <5>1, <5>3, <5>4, Zenon
      <4>. QED  BY <3>1, <3>4, <4>1, <4>2
    <3>6. Begins(x, y)
      BY <3>1, <3>2, <3>5 DEF Begins
    <3>. QED  BY <3>6 DEF x, y, l
  <2>8. Follows(w)'
    BY <1>1, <2>4, <2>6, <2>7, Zenon DEF Follows
  <2>9. \A r \in Server : (Elected(r)' <=> Elected(r)) /\ (Elected(r) => r = w)
    BY <1>1, <2>3, SameElected, Zenon DEF Calm, InTermOneAll
  <2>10. Counting'
    BY <1>1, Zenon DEF FirstInv, Counting
  <2>. QED  BY <1>1, <2>3, <2>8, <2>9, <2>10, Zenon DEF FirstInv
<1>. QED
  BY <1>2, <1>3, Zenon DEF AppendEntries, RejectStaleLeader, StepDown, RejectMismatch, logVars

\* What is handed to the service is the next entry of the winner's log.
LEMMA FirstApply ==
    ASSUME ElectionInv, FirstInv, InTermOneAll, NEW s \in Server,
           ApplyAdvance(s) \/ ApplySend(s)
    PROVE  FirstInv'
<1> USE DEF ElectionInv, TypeInv
<1>1. UNCHANGED <<log, cast, aeReq>> /\ \A w \in Server : Elected(w)' <=> Elected(w)
  <2>1. UNCHANGED <<log, cast, aeReq>>
    BY Zenon DEF ApplyAdvance, ApplySend, logVars, aeVars
  <2>. QED  BY <2>1, SameElected, Zenon
<1>2. /\ applied \in [Server -> Seq(Value)] /\ applying \in [Server -> BOOLEAN]
      /\ lastApplied \in [Server -> Nat] /\ panicked \in [Server -> BOOLEAN]
      /\ \A r \in Server : Len(applied[r]) \in Nat
  BY DEF TypeOK, TypeApply, TypeMisc
<1>3. CASE ApplyAdvance(s)
  <2>1. /\ lastApplied' = [lastApplied EXCEPT ![s] = @ + 1]
        /\ applying' = [applying EXCEPT ![s] = TRUE]
        /\ UNCHANGED <<applied, panicked>> /\ ~applying[s]
    BY <1>3, Zenon DEF ApplyAdvance
  <2>2. Counting'
    BY <1>2, <2>1 DEF FirstInv, Counting
  <2>3. (Empty => Empty') /\ \A w \in Server : Follows(w) => Follows(w)'
    BY <1>1, <2>1, Zenon DEF Empty, Follows
  <2>. QED  BY <1>1, <2>2, <2>3, Zenon DEF FirstInv
<1>4. CASE ApplySend(s) /\ lastApplied[s] > Len(log[s])
  <2>1. /\ applying' = [applying EXCEPT ![s] = FALSE]
        /\ panicked' = [panicked EXCEPT ![s] = TRUE] /\ UNCHANGED <<applied, lastApplied>>
    <3>1. log[s] \in Seq(Entry) /\ lastApplied[s] \in Nat
      BY <1>2, Zenon DEF TypeOK, TypeLog
    <3>2. ~(lastApplied[s] <= Len(log[s]))
      BY <1>4, <3>1
    <3>. QED  BY <1>4, <3>2, Zenon DEF ApplySend
  <2>2. Counting'
    BY <1>2, <2>1 DEF FirstInv, Counting
  <2>3. (Empty => Empty') /\ \A w \in Server : Follows(w) => Follows(w)'
    BY <1>1, <2>1, Zenon DEF Empty, Follows
  <2>. QED  BY <1>1, <2>2, <2>3, Zenon DEF FirstInv
<1>5. CASE ApplySend(s) /\ lastApplied[s] <= Len(log[s])
  <2> DEFINE c == log[s][lastApplied[s]].cmd
             x == Append(applied[s], c)
  <2>1. /\ log[s] \in Seq(Entry) /\ Len(log[s]) \in Nat /\ lastApplied[s] \in Nat
        /\ lastApplied[s] >= 1 /\ applying[s] /\ ~panicked[s]
    <3>1. applying[s] /\ ~panicked[s]
      BY <1>5, Zenon DEF ApplySend, Alive
    <3>2. log[s] \in Seq(Entry) /\ lastApplied[s] \in Nat
      BY <1>2, Zenon DEF TypeOK, TypeLog
    <3>. QED  BY <3>1, <3>2 DEF ApplyingSet
  <2>2. /\ applied' = [applied EXCEPT ![s] = x]
        /\ applying' = [applying EXCEPT ![s] = FALSE] /\ UNCHANGED <<lastApplied, panicked>>
    <3>1. ~(lastApplied[s] > Len(log[s]))
      BY <1>5, <2>1
    <3>. QED  BY <1>5, <3>1, Zenon DEF ApplySend
  <2>3. Len(applied[s]) = lastApplied[s] - 1
    BY <2>1, Zenon DEF FirstInv, Counting
  <2>4. c \in Value
    <3>1. lastApplied[s] \in 1 .. Len(log[s])
      BY <1>5, <2>1
    <3>2. log[s][lastApplied[s]] \in Entry
      BY <2>1, <3>1
    <3>. QED  BY <3>2, Zenon DEF Entry
  <2>5. /\ Len(x) = lastApplied[s] /\ x[lastApplied[s]] = c
        /\ \A i \in 1 .. lastApplied[s] - 1 : x[i] = applied[s][i]
    <3>1. applied[s] \in Seq(Value)
      BY <1>2, Zenon
    <3> HIDE DEF c
    <3>. QED  BY <2>1, <2>3, <2>4, <3>1
  <2> HIDE DEF x
  <2>6. applied'[s] = x /\ \A r \in Server : r # s => applied'[r] = applied[r]
    BY <1>2, <2>2, Zenon
  <2>7. Counting'
    <3>1. \A r \in Server : r # s => applying'[r] = applying[r]
      BY <1>2, <2>2, Zenon
    <3>2. ~applying'[s]
      BY <1>2, <2>2, Zenon
    <3>. QED  BY <2>2, <2>5, <2>6, <3>1, <3>2, Zenon DEF FirstInv, Counting
  <2>8. ~Empty
    <3>1. log[s] # <<>>
      BY <1>5, <2>1
    <3>. QED  BY <3>1, Zenon DEF Empty
  <2>9. ASSUME NEW w \in Server, Follows(w) PROVE Follows(w)'
    <3>1. Delivers(x, log[w])
      <4>1. Len(log[s]) <= Len(log[w]) /\ \A i \in 1 .. Len(log[s]) : log[s][i] = log[w][i]
        BY <2>9, Zenon DEF Follows, Begins
      <4>2. Len(applied[s]) <= Len(log[w]) /\ \A i \in 1 .. Len(applied[s]) : applied[s][i] = log[w][i].cmd
        BY <2>9, Zenon DEF Follows, Delivers
      <4>3. Len(log[w]) \in Nat
        BY DEF TypeOK, TypeLog
      <4>4. c = log[w][lastApplied[s]].cmd
        <5>1. lastApplied[s] \in 1 .. Len(log[s])
          BY <1>5, <2>1
        <5>. QED  BY <4>1, <5>1, Zenon
      <4> HIDE DEF c
      <4>5. ASSUME NEW i \in 1 .. lastApplied[s] PROVE x[i] = log[w][i].cmd
        <5>1. CASE i = lastApplied[s]
          BY <2>5, <4>4, <5>1, Zenon
        <5>2. CASE i # lastApplied[s]
          <6>1. i \in 1 .. lastApplied[s] - 1
            BY <2>1, <5>2
          <6>. QED  BY <2>3, <2>5, <4>2, <6>1, Zenon
        <5>. QED  BY <5>1, <5>2, Zenon
      <4>6. lastApplied[s] <= Len(log[w])
        BY <1>5, <2>1, <4>1, <4>3
      <4>. QED  BY <2>5, <4>5, <4>6, Zenon DEF Delivers
    <3>. QED  BY <1>1, <2>6, <2>9, <3>1, Zenon DEF Follows
  <2>. QED  BY <1>1, <2>7, <2>8, <2>9, Zenon DEF FirstInv
<1>6. lastApplied[s] \in Nat /\ Len(log[s]) \in Nat
  BY <1>2 DEF TypeOK, TypeLog
<1>7. lastApplied[s] > Len(log[s]) \/ lastApplied[s] <= Len(log[s])
  BY <1>6
<1>. QED  BY <1>3, <1>4, <1>5, <1>7, Zenon

\* Every step preserves the invariant.
LEMMA FirstStep ==
    ASSUME ElectionInv, Calm, Calm', FirstInv, [Next]_vars
    PROVE  FirstInv'
<1> SUFFICES ASSUME InTermOneAll' PROVE FirstInv'
  BY Zenon DEF FirstInv
<1>1. NoCrash' /\ NoCrash /\ \A s \in Server : ~Restart(s)
  BY CrashesStay, Zenon DEF InTermOneAll, ElectionInv, TypeInv
<1>2. InTermOneAll
  <2>1. \A s \in Server : currentTerm'[s] >= currentTerm[s]
    BY <1>1, TermsGrow, Zenon DEF ElectionInv, TypeInv
  <2>2. currentTerm \in [Server -> Nat] /\ currentTerm' \in [Server -> Nat]
    <3>1. TypeOK'
      BY TypeStep, Zenon DEF ElectionInv, TypeInv
    <3>. QED  BY <3>1, BoundsAssumption DEF ElectionInv, TypeInv, TypeOK, TypeTerm, Term
  <2>. QED  BY <1>1, <2>1, <2>2 DEF InTermOneAll
<1>3. ASSUME \/ \E s \in Server : ElectionTimeout(s)
             \/ \E s \in Server : AttemptEletion(s)
             \/ \E m \in rvReq : RequestVote(m)
             \/ \E m \in rvRep : VoteReply(m)
             \/ \E s \in Server : HeartBeat(s)
             \/ \E m \in aeRep : AppendReply(m)
             \/ CallFails
             \/ UNCHANGED vars
      PROVE  /\ UNCHANGED <<log, applied, applying, lastApplied, panicked>>
             /\ aeReq' \subseteq aeReq
  BY <1>3, Zenon DEF ElectionTimeout, AttemptEletion, RequestVote, VoteReply, HeartBeat, AppendReply,
               CallFails, vars, logVars, applyVars, aeVars
<1>. QED
  BY <1>1, <1>2, <1>3, FirstKept, FirstStart, FirstSend, FirstAppendEntries,
     FirstApply, Zenon DEF Next

\* Until a server crashes or stands for a second term, no two servers hand different
\* commands to the service at one index, for any number of servers, commands and
\* rounds and any order of requests and replies.
THEOREM StateMachineSafetyHolds == Spec => []StateMachineSafety
<1>1. Init => ElectionInv /\ CrashInv /\ FirstInv
  BY ElectionInvInit, CrashInit, FirstInit, Zenon
<1>2. ElectionInv /\ CrashInv /\ [Next]_vars => ElectionInv' /\ CrashInv'
  BY ElectionInvStep, CrashStep, Zenon
<1>3. ElectionInv /\ CrashInv => Calm
  BY CalmHolds, Zenon
<1>4. ElectionInv /\ Calm /\ Calm' /\ FirstInv /\ [Next]_vars => FirstInv'
  BY FirstStep, Zenon
<1>5. ElectionInv /\ FirstInv => StateMachineSafety
  <2> SUFFICES ASSUME ElectionInv, FirstInv, \A s \in Server : gen[s] = 0 /\ currentTerm[s] <= 1,
                      NEW s1 \in Server, NEW s2 \in Server,
                      NEW i \in DOMAIN applied[s1] \intersect DOMAIN applied[s2]
               PROVE  applied[s1][i] = applied[s2][i]
    BY Zenon DEF StateMachineSafety
  <2>1. InTermOneAll
    BY Zenon DEF InTermOneAll, NoCrash
  <2>2. /\ i \in 1 .. Len(applied[s1]) /\ i \in 1 .. Len(applied[s2])
    BY DEF ElectionInv, TypeInv, TypeOK, TypeApply
  <2>3. CASE Empty
    BY <2>2, <2>3 DEF Empty
  <2>4. CASE ~Empty
    <3>1. PICK w \in Server : Follows(w)
      BY <2>1, <2>4, Zenon DEF FirstInv
    <3>. QED  BY <2>2, <3>1, Zenon DEF Follows, Delivers
  <2>. QED  BY <2>3, <2>4, Zenon
<1>. QED  BY <1>1, <1>2, <1>3, <1>4, <1>5, PTL DEF Spec

----------------------------------------------------------------------------
(* ElectionTimer.tla, for any number of timers and goroutines at a time:   *)
(* its types                                                               *)

\* The goroutines that may run ticker.
Threads == {Handler} \union Goroutine

LEMMA TimerTypeInit == TimerInit => TimerTypeOK
  BY Zenon DEF TimerInit, TimerTypeOK

LEMMA TimerTypeStep == TimerTypeOK /\ [TimerNext]_timerVars => TimerTypeOK'
<1> SUFFICES ASSUME TimerTypeOK, [TimerNext]_timerVars PROVE TimerTypeOK'
  OBVIOUS
<1>1. CASE UNCHANGED timerVars
  BY <1>1 DEF TimerTypeOK, timerVars
<1>2. ASSUME NEW g \in Threads, Stop(g) PROVE TimerTypeOK'
  BY <1>2, Zenon DEF Stop, TimerTypeOK, Threads
<1>3. ASSUME NEW g \in Threads, AfterFunc(g) PROVE TimerTypeOK'
  <2> DEFINE t == CHOOSE t \in Unused : TRUE
  <2>1. t \in Timer
    BY <1>3 DEF AfterFunc, Unused
  <2>. QED  BY <1>3, <2>1 DEF AfterFunc, TimerTypeOK, Threads
<1>4. ASSUME NEW t \in Timer, Expire(t) PROVE TimerTypeOK'
  BY <1>4 DEF Expire, TimerTypeOK
<1>5. ASSUME NEW t \in Timer, Callback(t) PROVE TimerTypeOK'
  BY <1>5, Zenon DEF Callback, TimerTypeOK
<1>6. ASSUME NEW g \in Goroutine, Attempt(g) PROVE TimerTypeOK'
  BY <1>6 DEF Attempt, TimerTypeOK
<1>7. CASE Win
  BY <1>7 DEF Win, TimerTypeOK
<1>8. CASE Reset
  BY <1>8 DEF Reset, TimerTypeOK
<1>9. CASE Kill
  BY <1>9 DEF Kill, TimerTypeOK
<1>. QED  BY <1>1, <1>2, <1>3, <1>4, <1>5, <1>6, <1>7, <1>8, <1>9 DEF TimerNext, Threads

\* The fields of rf, the timers and the goroutines keep their types.
THEOREM TimerTypeCorrect == TimerSpec => []TimerTypeOK
  BY TimerTypeInit, TimerTypeStep, PTL DEF TimerSpec

----------------------------------------------------------------------------
(* ElectionTimer.tla: TimerOrElection *)

LEMMA PendingInit == TimerInit => TimerOrElection
<1> SUFFICES ASSUME TimerInit PROVE TimerOrElection
  OBVIOUS
<1>1. 1 \in Goroutine
  BY TimersAssumption DEF Goroutine
<1>2. pc[1] = "ticker"
  BY <1>1 DEF TimerInit
<1>. QED  BY <1>1, <1>2 DEF TimerOrElection, Busy

\* Whatever takes one reason for an election to come away leaves another.
LEMMA PendingStep == TimerTypeOK /\ TimerOrElection /\ [TimerNext]_timerVars => TimerOrElection'
<1> SUFFICES ASSUME TimerTypeOK, TimerOrElection, [TimerNext]_timerVars PROVE TimerOrElection'
  OBVIOUS
<1>1. CASE UNCHANGED timerVars
  BY <1>1 DEF TimerOrElection, Armed, Waiting, Busy, Unlocked, timerVars
<1>2. ASSUME NEW g \in Threads, Stop(g) PROVE TimerOrElection'
  <2>1. CASE killed
    BY <1>2, <2>1 DEF Stop, TimerOrElection
  <2>2. CASE ~killed
    <3>1. pc'[g] = "arm"
      BY <1>2, <2>2 DEF Stop, TimerTypeOK, Threads
    <3>. QED  BY <3>1 DEF Threads, TimerOrElection, Busy, Unlocked
  <2>. QED  BY <2>1, <2>2
<1>3. ASSUME NEW g \in Threads, AfterFunc(g) PROVE TimerOrElection'
  <2> DEFINE t == CHOOSE t \in Unused : TRUE
  <2>1. t \in Timer
    BY <1>3 DEF AfterFunc, Unused
  <2>2. timer'[t] = "armed"
    BY <1>3, <2>1 DEF AfterFunc, TimerTypeOK
  <2>. QED  BY <2>1, <2>2 DEF TimerOrElection, Armed
<1>4. ASSUME NEW t \in Timer, Expire(t) PROVE TimerOrElection'
  <2>1. timer'[t] = "expired"
    BY <1>4 DEF Expire, TimerTypeOK
  <2>. QED  BY <2>1 DEF TimerOrElection, Waiting
<1>5. ASSUME NEW t \in Timer, Callback(t) PROVE TimerOrElection'
  <2>1. CASE role = "leader"
    BY <1>5, <2>1 DEF Callback, TimerOrElection
  <2>2. CASE role # "leader"
    <3> DEFINE g == CHOOSE g \in Goroutine \ Busy : TRUE
    <3>1. g \in Goroutine
      BY <1>5, <2>2 DEF Callback, Busy
    <3>2. pc'[g] = "attempt"
      BY <1>5, <2>2, <3>1 DEF Callback, TimerTypeOK
    <3>. QED  BY <3>1, <3>2 DEF TimerOrElection, Busy
  <2>. QED  BY <2>1, <2>2
<1>6. ASSUME NEW g \in Goroutine, Attempt(g) PROVE TimerOrElection'
  <2>1. pc'[g] = "ticker"
    BY <1>6 DEF Attempt, TimerTypeOK
  <2>. QED  BY <2>1 DEF TimerOrElection, Busy
<1>7. CASE Win
  BY <1>7 DEF Win, TimerOrElection
<1>8. CASE Reset
  <2>1. pc'[Handler] = "ticker"
    BY <1>8 DEF Reset, TimerTypeOK
  <2>. QED  BY <2>1 DEF TimerOrElection, Unlocked
<1>9. CASE Kill
  BY <1>9 DEF Kill, TimerOrElection
<1>. QED  BY <1>1, <1>2, <1>3, <1>4, <1>5, <1>6, <1>7, <1>8, <1>9 DEF TimerNext, Threads

\* However calls of ticker, expired timers and handlers overlap, a live server
\* that does not lead is never left without an election to come.
THEOREM ElectionAlwaysPending == TimerSpec => []TimerOrElection
  BY TimerTypeInit, TimerTypeStep, PendingInit, PendingStep, PTL DEF TimerSpec

----------------------------------------------------------------------------
(* ElectionTimer.tla: LeakNeedsOverlap *)

\* The inductive invariant: as long as calls of ticker have not overlapped, one
\* at most is between Stop and AfterFunc, and then no timer is armed.
LeakInv ==
    ~overlapped => /\ \A g, h \in Threads : pc[g] = "arm" /\ pc[h] = "arm" => g = h
                   /\ (\E g \in Threads : pc[g] = "arm") => Armed = {}
                   /\ Armed \subseteq {electionTimeout}

LEMMA LeakInit == TimerInit => LeakInv
  BY DEF TimerInit, LeakInv, Armed, Threads

\* Steps outside of ticker: no timer is armed, and nobody enters it half way.
LEMMA LeakKept ==
    ASSUME LeakInv, UNCHANGED <<electionTimeout, overlapped>>,
           Armed' \subseteq Armed,
           \A g \in Threads : pc'[g] = "arm" => pc[g] = "arm"
    PROVE  LeakInv'
  BY DEF LeakInv

LEMMA LeakStep == TimerTypeOK /\ LeakInv /\ [TimerNext]_timerVars => LeakInv'
<1> SUFFICES ASSUME TimerTypeOK, LeakInv, [TimerNext]_timerVars PROVE LeakInv'
  OBVIOUS
<1>1. CASE UNCHANGED timerVars
  BY <1>1 DEF LeakInv, Armed, timerVars
<1>2. ASSUME NEW g \in Threads, Stop(g) PROVE LeakInv'
  <2>1. CASE killed
    <3>1. Armed' = Armed
      BY <1>2, <2>1 DEF Stop, Armed
    <3>2. \A h \in Threads : pc'[h] = "arm" => pc[h] = "arm"
      BY <1>2, <2>1 DEF Stop, TimerTypeOK, Threads
    <3>. QED  BY <1>2, <2>1, <3>1, <3>2, LeakKept DEF Stop
  <2>2. CASE ~killed
    <3> SUFFICES ASSUME ~overlapped' PROVE LeakInv'
      BY DEF LeakInv
    <3>1. ~overlapped /\ \A h \in Threads : pc[h] # "arm"
      BY <1>2, <2>2, Zenon DEF Stop, TimerTypeOK, Threads
    <3>2. \A h \in Threads : pc'[h] = "arm" => h = g
      BY <1>2, <2>2, <3>1 DEF Stop, TimerTypeOK, Threads
    <3>3. Armed \subseteq {electionTimeout}
      BY <3>1 DEF LeakInv
    <3>4. Armed' = {}
      BY <1>2, <2>2, <3>3 DEF Stop, Armed
    <3>. QED  BY <3>2, <3>4 DEF LeakInv
  <2>. QED  BY <2>1, <2>2
<1>3. ASSUME NEW g \in Threads, AfterFunc(g) PROVE LeakInv'
  <2> DEFINE t == CHOOSE t \in Unused : TRUE
  <2> SUFFICES ASSUME ~overlapped' PROVE LeakInv'
    BY DEF LeakInv
  <2>1. ~overlapped /\ pc[g] = "arm"
    BY <1>3 DEF AfterFunc
  <2>2. Armed = {} /\ \A h \in Threads : pc[h] = "arm" => h = g
    BY <2>1 DEF LeakInv
  <2>3. \A h \in Threads : pc'[h] # "arm"
    BY <1>3, <2>2 DEF AfterFunc, TimerTypeOK, Threads
  <2>4. Armed' \subseteq {t} /\ electionTimeout' = t
    BY <1>3, <2>2 DEF AfterFunc, Armed, TimerTypeOK
  <2>. QED  BY <2>3, <2>4 DEF LeakInv
<1>4. ASSUME NEW t \in Timer, Expire(t) PROVE LeakInv'
  <2>1. Armed' \subseteq Armed
    BY <1>4 DEF Expire, Armed, TimerTypeOK
  <2>. QED  BY <1>4, <2>1, LeakKept DEF Expire
<1>5. ASSUME NEW t \in Timer, Callback(t) PROVE LeakInv'
  <2>1. Armed' \subseteq Armed
    BY <1>5 DEF Callback, Armed, TimerTypeOK
  <2>2. \A h \in Threads : pc'[h] = "arm" => pc[h] = "arm"
    BY <1>5, Zenon DEF Callback, TimerTypeOK, Threads
  <2>. QED  BY <1>5, <2>1, <2>2, LeakKept DEF Callback
<1>6. ASSUME NEW g \in Goroutine, Attempt(g) PROVE LeakInv'
  <2>1. Armed' = Armed
    BY <1>6 DEF Attempt, Armed
  <2>2. \A h \in Threads : pc'[h] = "arm" => pc[h] = "arm"
    BY <1>6 DEF Attempt, TimerTypeOK, Threads
  <2>. QED  BY <1>6, <2>1, <2>2, LeakKept DEF Attempt
<1>7. CASE Win
  BY <1>7, LeakKept DEF Win, Armed
<1>8. CASE Reset
  <2>1. Armed' = Armed
    BY <1>8 DEF Reset, Armed
  <2>2. \A h \in Threads : pc'[h] = "arm" => pc[h] = "arm"
    BY <1>8 DEF Reset, TimerTypeOK, Threads
  <2>. QED  BY <1>8, <2>1, <2>2, LeakKept DEF Reset
<1>9. CASE Kill
  BY <1>9, LeakKept DEF Kill, Armed
<1>. QED  BY <1>1, <1>2, <1>3, <1>4, <1>5, <1>6, <1>7, <1>8, <1>9 DEF TimerNext, Threads

\* A timer that no heartbeat can stop is armed only after two calls of ticker ran
\* beside each other.
THEOREM LeaksNeedOverlap == TimerSpec => []LeakNeedsOverlap
<1>1. LeakInv => LeakNeedsOverlap
  BY DEF LeakInv, LeakNeedsOverlap
<1>. QED  BY <1>1, TimerTypeInit, TimerTypeStep, LeakInit, LeakStep, PTL DEF TimerSpec
=============================================================================
