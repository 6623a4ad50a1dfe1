------------------------- MODULE TesterChecksProofs -------------------------
(***************************************************************************)
(* What the raft tester's checks promise, for any number of servers,       *)
(* commands, indices and restarts and for any interval between snapshots.  *)
(***************************************************************************)
EXTENDS TesterChecks, FiniteSetTheorems, TLAPS

----------------------------------------------------------------------------
(* The inductive invariant *)

Value == Cmd \union {Nil}

AppPc  == {"none", "begin", "returned", "range", "check", "write", "snap", "fatal"}
TestPc == {"idle", "make", "start", "one", "wait", "last", "returned"}

AppRec ==
    [pc : AppPc, rf : Nat, m : [index : Nat, cmd : Value], err : BOOLEAN]
TestRec ==
    [pc : TestPc, i : Nat, cmd : Value, index : Nat, want : Nat, count : Nat, seen : Value]

\* Values of all variables.  What is in a log or a snapshot has no domain of its own.
TypeOK ==
    /\ snapshot \in BOOLEAN /\ correct \in BOOLEAN /\ stale \in BOOLEAN
    /\ agreed \in Seq(Cmd)
    /\ delivered \in [Server -> [Instance -> Nat]]
    /\ DOMAIN persister = Server /\ \A i \in Server : DOMAIN persister[i] = Instance
    /\ \A s \in taken : /\ s.index \in Nat /\ DOMAIN s.xlog = 0 .. s.index
                        /\ \A k \in 0 .. s.index : s.xlog[k] \in Value
    /\ rafts \in [Server -> Nat] /\ made \in [Server -> Instance] /\ fresh \in [Server -> Instance]
    /\ DOMAIN logs = Server
    /\ \A i \in Server : \A k \in DOMAIN logs[i] : k \in Nat /\ logs[i][k] \in Value
    /\ lastApplied \in [Server -> Nat]
    /\ app \in [Server -> [Instance -> AppRec]]
    /\ test \in TestRec

\* What a Persister holds has been handed to Raft.
Saved == \A i \in Server, g \in Instance : persister[i][g] \in taken \union {NoSnap}

\* The instance start1 has reset the tables for is the newest, or about to be made.
Newest(i) ==
    /\ rafts[i] \in {0, made[i]}
    /\ rafts[i] = 0 => made[i] <= MaxRestarts
    /\ fresh[i] = IF test.pc = "make" /\ test.i = i THEN made[i] + 1 ELSE made[i]

Instances ==
    /\ test.pc = "make" => test.i \in Server /\ rafts[test.i] = 0
    /\ \A i \in Server : Newest(i)
    /\ \A i \in Server, g \in Instance :
        /\ app[i][g].pc = "none" <=> g > made[i]
        /\ app[i][g].rf <= made[i]
        /\ app[i][g].err => app[i][g].pc \in {"write", "snap"}
        /\ ~snapshot => app[i][g].pc \in {"none", "range", "fatal"}
    /\ ~snapshot => taken = {}

\* What is in a log has been applied by its server.
LogsApplied ==
    \A i \in Server : \A k \in DOMAIN logs[i] : <<i, k, logs[i][k]>> \in applied

Holders(n, k, c) == {j \in 0 .. n - 1 : <<j, k, c>> \in applied}

\* nCommitted has counted servers that have applied what it saw.
Counted ==
    /\ test.pc \in {"start", "one", "wait", "last", "returned"} => test.want > 0
    /\ test.pc \in {"one", "wait", "last", "returned"} => test.index > 0
    /\ test.pc \in {"one", "wait", "last"} =>
        test.i <= N /\ Cardinality(Holders(test.i, test.index, test.seen)) >= test.count
    /\ test.pc = "returned" => Cardinality(Holders(N, test.index, test.cmd)) >= test.want

\* Raft is correct and no applier has used tables reset for another instance.
Good == correct /\ (snapshot => ~stale)

\* A snapshot holds the agreed sequence up to its index.
Complete(s) ==
    /\ s.index <= Len(agreed)
    /\ \A k \in 1 .. s.index : s.xlog[k] = agreed[k]

\* applierSnap of the newest instance keeps lastApplied and the log in step with
\* what its instance delivers.
InStep(i) ==
    LET g == fresh[i]
        a == app[i][g]
        d == delivered[i][g]
        l == lastApplied[i] IN
    /\ \A k \in 1 .. l : Has(i, k)
    /\ a.pc = "none" => l = persister[i][g].index
    /\ a.pc \in {"begin", "range"} => d = l
    /\ a.pc \in {"check", "write"} => d = l + 1 /\ a.m.index = l + 1
    /\ a.pc = "check" => a.m.cmd = agreed[l + 1]
    /\ a.pc = "write" => Has(i, l + 1)
    /\ a.pc = "snap" => d = l /\ a.m.index = l

\* No applier of any instance has met an error, and no check has found a mismatch.
NoAlarms ==
    /\ alarm \in {"", "no agreement"}
    /\ \A i \in Server, g \in Instance : ~app[i][g].err /\ app[i][g].pc # "fatal"

\* No instance is ahead of the agreed sequence.
Bounded == \A i \in Server, g \in Instance : delivered[i][g] <= Len(agreed)

\* What servers have applied is the agreed sequence.
AppliedAgreed ==
    \A t \in applied : t[2] # 0 => t[2] \in 1 .. Len(agreed) /\ t[3] = agreed[t[2]]

AllGood ==
    /\ NoAlarms /\ Bounded /\ AppliedAgreed
    /\ \A s \in taken : Complete(s)
    /\ snapshot => \A i \in Server : InStep(i)
    /\ ~snapshot => \A i \in Server, g \in Instance : \A k \in 1 .. delivered[i][g] : Has(i, k)

IInv ==
    /\ TypeOK /\ Saved /\ Instances /\ LogsApplied /\ Counted
    /\ MismatchReported
    /\ Good => AllGood

----------------------------------------------------------------------------
(* What Raft delivers, and the parts of a step *)

\* A command message of a correct Raft is the next one of the agreed sequence.
LEMMA CommandMsg ==
    ASSUME TypeOK, NEW i \in Server, NEW g \in Instance, NEW m \in Commands(i, g)
    PROVE  /\ m \in [index : Nat, cmd : Value] /\ m.index > 0
           /\ correct => /\ m.index = delivered[i][g] + 1 /\ m.index \in 1 .. Len(agreed)
                         /\ m.cmd = agreed[m.index]
<1>1. CASE correct
  <2>1. PICK k \in {delivered[i][g] + 1} \intersect DOMAIN agreed :
            m = [index |-> k, cmd |-> agreed[k]]
    BY <1>1 DEF Commands
  <2>2. k = delivered[i][g] + 1 /\ k \in 1 .. Len(agreed) /\ agreed[k] \in Cmd
    BY <2>1 DEF TypeOK
  <2> QED
    BY <2>1, <2>2 DEF Value
<1>2. CASE ~correct
  <2>1. m \in [index : Index, cmd : Cmd]
    BY <1>2 DEF Commands
  <2> QED
    BY <1>2, <2>1, SizeAssumption DEF Index, Value
<1> QED
  BY <1>1, <1>2

\* A snapshot message carries a snapshot that was handed to Raft.
LEMMA SnapshotMsg ==
    ASSUME TypeOK, NEW i \in Server, NEW g \in Instance, NEW m \in Snapshots(i, g)
    PROVE  /\ m.index \in Nat /\ m.snap \in taken
           /\ correct => m.index = m.snap.index
<1>1. CASE correct
  <2>1. PICK s \in taken : m = [index |-> s.index, snap |-> s]
    BY <1>1 DEF Snapshots
  <2> QED
    BY <2>1 DEF TypeOK
<1>2. CASE ~correct
  <2>1. m \in [index : Index, snap : taken]
    BY <1>2 DEF Snapshots
  <2> QED
    BY <1>2, <2>1, SizeAssumption DEF Index
<1> QED
  BY <1>1, <1>2

\* What an applier becomes after a message.
LEMMA FinishType ==
    ASSUME NEW a \in AppRec, NEW err \in BOOLEAN
    PROVE  /\ Finish(a, err) \in AppRec
           /\ Finish(a, err).pc = (IF err THEN "fatal" ELSE "range")
           /\ Finish(a, err).rf = a.rf /\ Finish(a, err).err = FALSE
BY Zenon DEF Finish, AppRec, AppPc, NoMsg, Value

LEMMA FreshApplier ==
    /\ Applier("begin") \in AppRec /\ Applier("begin").pc = "begin"
    /\ Applier("range") \in AppRec /\ Applier("range").pc = "range"
    /\ Applier("begin").rf = 0 /\ Applier("range").rf = 0
    /\ Applier("begin").err = FALSE /\ Applier("range").err = FALSE
BY DEF Applier, AppRec, AppPc, NoMsg, Value

LEMMA IdleTest ==
    /\ Idle \in TestRec /\ Idle.pc = "idle"
    /\ \A i \in Nat : LET t == [Idle EXCEPT !.pc = "make", !.i = i] IN
                      t \in TestRec /\ t.pc = "make" /\ t.i = i
BY Zenon DEF Idle, TestRec, TestPc, Value

\* The log after checkLogs.
LEMMA PutIs ==
    ASSUME TypeOK, NEW i \in Server, NEW m \in [index : Nat, cmd : Value], checkLogs(i, m)
    PROVE  /\ DOMAIN logs' = Server
           /\ DOMAIN logs'[i] = DOMAIN logs[i] \union {m.index}
           /\ logs'[i][m.index] = m.cmd
           /\ \A k \in DOMAIN logs[i] : k # m.index => logs'[i][k] = logs[i][k]
           /\ \A j \in Server : j # i => logs'[j] = logs[j]
           /\ applied' = applied \union {<<i, m.index, m.cmd>>}
BY DEF TypeOK, checkLogs, Put

\* The log after ingestSnap.
LEMMA IngestIs ==
    ASSUME TypeOK, NEW i \in Server, NEW s \in taken, ingestSnap(i, s)
    PROVE  /\ DOMAIN logs' = Server
           /\ logs'[i] = s.xlog
           /\ \A j \in Server : j # i => logs'[j] = logs[j]
           /\ applied \subseteq applied'
           /\ \A k \in DOMAIN s.xlog : <<i, k, s.xlog[k]>> \in applied'
           /\ \A t \in applied' : t \in applied \/ \E k \in DOMAIN s.xlog : t = <<i, k, s.xlog[k]>>
           /\ lastApplied' = [lastApplied EXCEPT ![i] = s.index]
BY DEF TypeOK, ingestSnap

----------------------------------------------------------------------------
(* Types *)

LEMMA PutType ==
    ASSUME TypeOK, NEW i \in Server, NEW m \in [index : Nat, cmd : Value], checkLogs(i, m)
    PROVE  /\ DOMAIN logs' = Server
           /\ \A j \in Server : \A k \in DOMAIN logs'[j] : k \in Nat /\ logs'[j][k] \in Value
<1>1. m.index \in Nat /\ m.cmd \in Value
  OBVIOUS
<1>2. DOMAIN logs'[i] = DOMAIN logs[i] \union {m.index} /\ logs'[i][m.index] = m.cmd
      /\ \A k \in DOMAIN logs[i] : k # m.index => logs'[i][k] = logs[i][k]
  BY PutIs, Zenon
<1>3. \A k \in DOMAIN logs'[i] : k \in Nat /\ logs'[i][k] \in Value
  BY <1>1, <1>2, Zenon DEF TypeOK
<1>4. DOMAIN logs' = Server /\ \A j \in Server : j # i => logs'[j] = logs[j]
  BY PutIs, Zenon
<1> QED
  BY <1>3, <1>4, Zenon DEF TypeOK

LEMMA IngestType ==
    ASSUME TypeOK, NEW i \in Server, NEW s \in taken, ingestSnap(i, s)
    PROVE  /\ DOMAIN logs' = Server
           /\ \A j \in Server : \A k \in DOMAIN logs'[j] : k \in Nat /\ logs'[j][k] \in Value
           /\ lastApplied' \in [Server -> Nat]
<1>1. /\ s.index \in Nat /\ DOMAIN s.xlog = 0 .. s.index
      /\ \A k \in 0 .. s.index : s.xlog[k] \in Value
  BY Zenon DEF TypeOK
<1>2. /\ DOMAIN logs' = Server /\ logs'[i] = s.xlog
      /\ \A j \in Server : j # i => logs'[j] = logs[j]
      /\ lastApplied' = [lastApplied EXCEPT ![i] = s.index]
  BY IngestIs, Zenon
<1>3. \A k \in DOMAIN logs'[i] : k \in Nat /\ logs'[i][k] \in Value
  BY <1>1, <1>2
<1>4. lastApplied' \in [Server -> Nat]
  BY <1>1, <1>2 DEF TypeOK
<1> QED
  BY <1>2, <1>3, <1>4, Zenon DEF TypeOK

LEMMA TypeApplier ==
    ASSUME TypeOK, NEW i \in Server, NEW g \in Instance, applier(i, g)
    PROVE  TypeOK'
<1>1. PICK m \in Commands(i, g) :
        /\ Sent(i, g, m) /\ checkLogs(i, m)
        /\ app' = [app EXCEPT ![i][g] = Finish(@, Bad(i, m))]
  BY Zenon DEF applier
<1>2. m \in [index : Nat, cmd : Value]
  BY CommandMsg, Zenon
<1>3. m.index \in Nat /\ m.cmd \in Value
  BY <1>2
<1>4. DOMAIN logs' = Server /\ \A j \in Server : \A k \in DOMAIN logs'[j] : k \in Nat /\ logs'[j][k] \in Value
  BY <1>1, <1>2, PutType, Zenon
<1>5. Bad(i, m) \in BOOLEAN
  BY Zenon DEF Bad, Mismatch
<1>6. app[i][g] \in AppRec
  BY DEF TypeOK
<1>7. Finish(app[i][g], Bad(i, m)) \in AppRec
  BY <1>5, <1>6, FinishType, Zenon
<1>8. app' \in [Server -> [Instance -> AppRec]]
  BY <1>1, <1>7 DEF TypeOK
<1>9. delivered' \in [Server -> [Instance -> Nat]]
  BY <1>1, <1>3 DEF TypeOK, Sent
<1>10. stale' \in BOOLEAN
  BY Zenon DEF applier, Touch
<1> QED
  BY <1>4, <1>8, <1>9, <1>10, Zenon DEF TypeOK, applier

LEMMA TypeInstallSnap ==
    ASSUME TypeOK, NEW i \in Server, NEW g \in Instance, InstallSnap(i, g)
    PROVE  TypeOK'
<1>1. PICK m \in Snapshots(i, g) :
        /\ Sent(i, g, m)
        /\ IF m.index = m.snap.index
           THEN ingestSnap(i, m.snap) /\ UNCHANGED app
           ELSE app' = [app EXCEPT ![i][g] = Finish(@, TRUE)] /\ UNCHANGED <<logs, applied, lastApplied>>
  BY Zenon DEF InstallSnap
<1>2. m.index \in Nat /\ m.snap \in taken
  BY SnapshotMsg, Zenon
<1>3. delivered' \in [Server -> [Instance -> Nat]]
  BY <1>1, <1>2 DEF TypeOK, Sent
<1>4. /\ DOMAIN logs' = Server /\ \A j \in Server : \A k \in DOMAIN logs'[j] : k \in Nat /\ logs'[j][k] \in Value
      /\ lastApplied' \in [Server -> Nat] /\ app' \in [Server -> [Instance -> AppRec]]
  <2>1. CASE m.index = m.snap.index
    <3>1. ingestSnap(i, m.snap) /\ app' = app
      BY <1>1, <2>1, Zenon
    <3> QED
      BY <1>2, <3>1, IngestType, Zenon DEF TypeOK
  <2>2. CASE m.index # m.snap.index
    <3>1. app' = [app EXCEPT ![i][g] = Finish(@, TRUE)] /\ logs' = logs /\ lastApplied' = lastApplied
      BY <1>1, <2>2, Zenon
    <3>2. app[i][g] \in AppRec
      BY DEF TypeOK
    <3>3. Finish(app[i][g], TRUE) \in AppRec
      BY <3>2, FinishType, Zenon
    <3> QED
      BY <3>1, <3>3, Zenon DEF TypeOK
  <2> QED
    BY <2>1, <2>2, Zenon
<1>5. stale' \in BOOLEAN
  BY Zenon DEF InstallSnap, Touch
<1> QED
  BY <1>3, <1>4, <1>5, Zenon DEF TypeOK, InstallSnap

LEMMA TypeBeginSnap ==
    ASSUME TypeOK, NEW i \in Server, NEW g \in Instance, BeginSnap(i, g)
    PROVE  TypeOK'
<1>1. app' \in [Server -> [Instance -> AppRec]]
  <2>1. app[i][g] \in AppRec /\ rafts[i] \in Nat
    BY DEF TypeOK
  <2> DEFINE pc == IF rafts[i] = 0 THEN "returned" ELSE "range"
             b == [app[i][g] EXCEPT !.pc = pc, !.rf = rafts[i]]
  <2>2. b \in AppRec
    BY <2>1, Zenon DEF AppRec, AppPc
  <2>3. app' = [app EXCEPT ![i][g] = b]
    BY <2>1, Zenon DEF BeginSnap, TypeOK, AppRec
  <2> QED
    BY <2>2, <2>3 DEF TypeOK
<1> QED
  BY <1>1, Zenon DEF TypeOK, BeginSnap, raft, cfg

LEMMA TypeReceiveCmd ==
    ASSUME TypeOK, NEW i \in Server, NEW g \in Instance, ReceiveCmd(i, g)
    PROVE  TypeOK'
<1> DEFINE err(m) == m.index # lastApplied[i] + 1
           pc(m) == IF err(m) THEN "write" ELSE "check"
           b(m) == [app[i][g] EXCEPT !.pc = pc(m), !.m = m, !.err = err(m)]
<1>1. PICK m \in Commands(i, g) :
        /\ Sent(i, g, m)
        /\ app' = [app EXCEPT ![i][g].pc = pc(m), ![i][g].m = m, ![i][g].err = err(m)]
  BY Zenon DEF ReceiveCmd
<1>2. m \in [index : Nat, cmd : Value]
  BY CommandMsg, Zenon
<1>3. app[i][g] \in AppRec
  BY DEF TypeOK
<1>4. b(m) \in AppRec
  BY <1>2, <1>3, Zenon DEF AppRec, AppPc
<1>5. app' = [app EXCEPT ![i][g] = b(m)]
  BY <1>1, <1>3, Zenon DEF TypeOK, AppRec
<1>6. app' \in [Server -> [Instance -> AppRec]]
  BY <1>4, <1>5 DEF TypeOK
<1>7. delivered' \in [Server -> [Instance -> Nat]]
  BY <1>1, <1>2 DEF TypeOK, Sent
<1>8. stale' \in BOOLEAN
  BY Zenon DEF ReceiveCmd, Touch
<1> QED
  BY <1>6, <1>7, <1>8, Zenon DEF TypeOK, ReceiveCmd, cfg

LEMMA TypeCheckCmd ==
    ASSUME TypeOK, NEW i \in Server, NEW g \in Instance, CheckCmd(i, g)
    PROVE  TypeOK'
<1> DEFINE m == app[i][g].m
           b == [app[i][g] EXCEPT !.pc = "write", !.err = Bad(i, m)]
<1>1. app[i][g] \in AppRec
  BY DEF TypeOK
<1>2. m \in [index : Nat, cmd : Value]
  BY <1>1 DEF AppRec
<1>3. Bad(i, m) \in BOOLEAN
  BY Zenon DEF Bad, Mismatch
<1>4. b \in AppRec
  BY <1>1, <1>3, Zenon DEF AppRec, AppPc
<1>5. app' = [app EXCEPT ![i][g] = b]
  BY <1>1, Zenon DEF TypeOK, AppRec, CheckCmd
<1>6. app' \in [Server -> [Instance -> AppRec]]
  BY <1>4, <1>5 DEF TypeOK
<1>7. DOMAIN logs' = Server /\ \A j \in Server : \A k \in DOMAIN logs'[j] : k \in Nat /\ logs'[j][k] \in Value
  BY <1>2, PutType, Zenon DEF CheckCmd
<1>8. stale' \in BOOLEAN
  BY Zenon DEF CheckCmd, Touch
<1> QED
  BY <1>6, <1>7, <1>8, Zenon DEF TypeOK, CheckCmd, raft

LEMMA TypeWriteApplied ==
    ASSUME TypeOK, NEW i \in Server, NEW g \in Instance, WriteApplied(i, g)
    PROVE  TypeOK'
<1> DEFINE a == app[i][g]
           b == [a EXCEPT !.pc = "snap"]
<1>1. a \in AppRec
  BY DEF TypeOK
<1>2. a.m.index \in Nat /\ a.err \in BOOLEAN
  BY <1>1 DEF AppRec
<1>3. b \in AppRec
  BY <1>1 DEF AppRec, AppPc
<1>4. Finish(a, a.err) \in AppRec
  BY <1>1, <1>2, FinishType, Zenon
<1>5. \E x \in AppRec : app' = [app EXCEPT ![i][g] = x]
  BY <1>3, <1>4, Zenon DEF WriteApplied
<1>6. app' \in [Server -> [Instance -> AppRec]]
  BY <1>5 DEF TypeOK
<1>7. lastApplied' \in [Server -> Nat]
  BY <1>2 DEF TypeOK, WriteApplied
<1>8. stale' \in BOOLEAN
  BY Zenon DEF WriteApplied, Touch
<1> QED
  BY <1>6, <1>7, <1>8, Zenon DEF TypeOK, WriteApplied, raft

\* A snapshot that applierSnap puts together.
LEMMA SnapOfType ==
    ASSUME TypeOK, NEW i \in Server, NEW n \in Nat
    PROVE  LET s == SnapOf(i, n) IN
           /\ s.index = n /\ DOMAIN s.xlog = 0 .. n
           /\ \A k \in 0 .. n : s.xlog[k] = IF Has(i, k) THEN logs[i][k] ELSE Nil
           /\ \A k \in 0 .. n : s.xlog[k] \in Value
<1> DEFINE s == SnapOf(i, n)
<1>1. s.index = n /\ s.xlog = [k \in 0 .. n |-> IF Has(i, k) THEN logs[i][k] ELSE Nil]
  BY DEF SnapOf
<1>2. \A k \in 0 .. n : s.xlog[k] = IF Has(i, k) THEN logs[i][k] ELSE Nil
  BY <1>1, Zenon
<1>3. \A k \in 0 .. n : s.xlog[k] \in Value
  BY <1>2, Zenon DEF TypeOK, Has, Value
<1> QED
  BY <1>1, <1>2, <1>3, Zenon

LEMMA TypeTakeSnap ==
    ASSUME TypeOK, NEW i \in Server, NEW g \in Instance, TakeSnap(i, g)
    PROVE  TypeOK'
<1> DEFINE a == app[i][g]
           s == SnapOf(i, a.m.index)
<1>1. a \in AppRec
  BY DEF TypeOK
<1>2. a.m.index \in Nat /\ a.err \in BOOLEAN
  BY <1>1 DEF AppRec
<1>3. Finish(a, a.err) \in AppRec
  BY <1>1, <1>2, FinishType, Zenon
<1>4. app' \in [Server -> [Instance -> AppRec]]
  BY <1>3 DEF TypeOK, TakeSnap
<1>5. s.index \in Nat /\ DOMAIN s.xlog = 0 .. s.index /\ \A k \in 0 .. s.index : s.xlog[k] \in Value
  <2> DEFINE n == a.m.index
  <2>1. n \in Nat
    BY <1>2, Zenon
  <2> HIDE DEF n
  <2>2. /\ SnapOf(i, n).index = n /\ DOMAIN SnapOf(i, n).xlog = 0 .. n
        /\ \A k \in 0 .. n : SnapOf(i, n).xlog[k] \in Value
    BY <2>1, SnapOfType, Zenon
  <2>3. s = SnapOf(i, n)
    BY Zenon DEF n
  <2> HIDE DEF s
  <2> QED
    BY <2>1, <2>2, <2>3, Zenon
<1>6. taken' = taken \union {s}
  BY Zenon DEF TakeSnap
<1>7. \A t \in taken' : /\ t.index \in Nat /\ DOMAIN t.xlog = 0 .. t.index
                        /\ \A k \in 0 .. t.index : t.xlog[k] \in Value
  BY <1>5, <1>6, Zenon DEF TypeOK
<1>8. DOMAIN persister' = Server /\ \A j \in Server : DOMAIN persister'[j] = Instance
  <2> DEFINE x == a.rf
  <2>1. persister' = persister \/ persister' = [persister EXCEPT ![i][x] = s]
    BY Zenon DEF TakeSnap
  <2> HIDE DEF x, s
  <2> QED
    BY <2>1, Zenon DEF TypeOK
<1>9. stale' \in BOOLEAN
  BY Zenon DEF TakeSnap, Touch
<1> QED
  BY <1>4, <1>7, <1>8, <1>9, Zenon DEF TypeOK, TakeSnap, cfg

LEMMA TypeCrash1 ==
    ASSUME TypeOK, NEW i \in Server, crash1(i)
    PROVE  TypeOK'
<1>1. rafts' \in [Server -> Nat]
  BY DEF TypeOK, crash1
<1>2. DOMAIN persister' = Server /\ \A j \in Server : DOMAIN persister'[j] = Instance
  BY DEF TypeOK, crash1
<1>3. test' \in TestRec
  BY IdleTest, Zenon DEF crash1
<1> QED
  BY <1>1, <1>2, <1>3, Zenon DEF TypeOK, crash1

\* The instance to be made next has a Persister.
LEMMA NextInstance ==
    ASSUME TypeOK, Instances, NEW i \in Server, rafts[i] = 0
    PROVE  made[i] + 1 \in Instance
BY SizeAssumption DEF TypeOK, Instances, Newest, Instance

LEMMA TypeReset ==
    ASSUME TypeOK, Saved, Instances, NEW i \in Server, Reset(i)
    PROVE  TypeOK'
<1> DEFINE s == persister[i][made[i] + 1]
<1>1. made[i] + 1 \in Instance
  BY NextInstance, Zenon DEF Reset
<1>2. s \in taken \union {NoSnap}
  BY <1>1, Zenon DEF Saved
<1>3. /\ DOMAIN logs' = Server
      /\ \A j \in Server : \A k \in DOMAIN logs'[j] : k \in Nat /\ logs'[j][k] \in Value
      /\ lastApplied' \in [Server -> Nat]
  <2>1. CASE s = NoSnap
    <3>1. lastApplied' = [lastApplied EXCEPT ![i] = 0] /\ logs' = logs
      BY <2>1, Zenon DEF Reset
    <3>2. lastApplied' \in [Server -> Nat]
      BY <3>1 DEF TypeOK
    <3> QED
      BY <3>1, <3>2, Zenon DEF TypeOK
  <2>2. CASE s # NoSnap
    BY <1>2, <2>2, IngestType, Zenon DEF Reset
  <2> QED
    BY <2>1, <2>2, Zenon
<1>4. fresh' \in [Server -> Instance]
  BY <1>1 DEF TypeOK, Reset
<1>5. i \in Nat
  BY SizeAssumption DEF Server
<1>6. test' \in TestRec
  BY <1>5, IdleTest, Zenon DEF Reset
<1> QED
  BY <1>3, <1>4, <1>6, Zenon DEF TypeOK, Reset, raft

LEMMA TypeMakeRaft ==
    ASSUME TypeOK, Saved, Instances, MakeRaft
    PROVE  TypeOK'
<1> DEFINE i == test.i
           g == made[i] + 1
<1>1. i \in Server /\ rafts[i] = 0
  BY Zenon DEF Instances, MakeRaft
<1>2. g \in Instance /\ g \in Nat
  BY <1>1, NextInstance, SizeAssumption DEF Instance
<1>3. persister[i][g].index \in Nat
  <2>1. persister[i][g] \in taken \union {NoSnap}
    BY <1>1, <1>2, Zenon DEF Saved
  <2> QED
    BY <2>1 DEF TypeOK, NoSnap
<1> HIDE DEF i, g
<1>4. /\ made' = [made EXCEPT ![i] = g] /\ rafts' = [rafts EXCEPT ![i] = g]
      /\ delivered' = [delivered EXCEPT ![i][g] = IF correct THEN persister[i][g].index ELSE 0]
      /\ app' = [app EXCEPT ![i][g] = Applier(IF snapshot THEN "begin" ELSE "range")]
  BY Zenon DEF MakeRaft, i, g
<1>5. made' \in [Server -> Instance] /\ rafts' \in [Server -> Nat]
  BY <1>1, <1>2, <1>4 DEF TypeOK
<1>6. delivered' \in [Server -> [Instance -> Nat]]
  BY <1>1, <1>2, <1>3, <1>4 DEF TypeOK
<1>7. Applier(IF snapshot THEN "begin" ELSE "range") \in AppRec
  BY FreshApplier, Zenon
<1>8. app' \in [Server -> [Instance -> AppRec]]
  BY <1>1, <1>2, <1>4, <1>7 DEF TypeOK
<1>9. test' \in TestRec
  BY IdleTest, Zenon DEF MakeRaft
<1> QED
  BY <1>5, <1>6, <1>8, <1>9, Zenon DEF TypeOK, MakeRaft

\* The steps of one, wait and nCommitted change test and alarm only.
TestStep == beginOne \/ startCmd \/ beginWait \/ nCommitted \/ one \/ wait \/ goOn

\* What nCommitted finds at one server.
Found(i, k) == {logs[j][k] : j \in {l \in {i} \intersect Server : Has(l, k)}}

LEMMA FoundIs ==
    ASSUME NEW i, NEW k
    PROVE  Found(i, k) = IF i \in Server /\ Has(i, k) THEN {logs[i][k]} ELSE {}
BY Zenon DEF Found

\* Every step of a check makes a record of test.
LEMMA TypeTest ==
    ASSUME TypeOK, TestStep
    PROVE  test' \in TestRec
<1>1. test \in TestRec
  BY Zenon DEF TypeOK
<1>2. CASE beginOne
  <2>1. PICK c \in Cmd, n \in 1 .. N : test' = [Idle EXCEPT !.pc = "start", !.cmd = c, !.want = n]
    BY <1>2, Zenon DEF beginOne
  <2>2. n \in Nat
    BY SizeAssumption
  <2> QED
    BY <2>1, <2>2, Zenon DEF Idle, TestRec, TestPc, Value
<1>3. CASE startCmd
  <2>1. CASE test' = test
    BY <1>1, <2>1, Zenon
  <2>2. CASE test' # test
    <3>1. PICK k \in Index :
            test' = [test EXCEPT !.pc = "one", !.index = k, !.i = 0, !.count = 0, !.seen = Nil]
      BY <1>3, <2>2, Zenon DEF startCmd
    <3>2. k \in Nat
      BY SizeAssumption DEF Index
    <3> QED
      BY <1>1, <3>1, <3>2, Zenon DEF TestRec, TestPc, Value
  <2> QED
    BY <2>1, <2>2, Zenon
<1>4. CASE beginWait
  <2>1. PICK k \in Index, n \in 1 .. N : test' = [Idle EXCEPT !.pc = "wait", !.index = k, !.want = n]
    BY <1>4, Zenon DEF beginWait
  <2>2. n \in Nat /\ k \in Nat
    BY SizeAssumption DEF Index
  <2> QED
    BY <2>1, <2>2, Zenon DEF Idle, TestRec, TestPc, Value
<1>5. CASE nCommitted
  <2> DEFINE v == Found(test.i, test.index)
  <2>1. test' = test \/ test' = Count(test, v)
    BY <1>5, Zenon DEF nCommitted, Found
  <2>2. Count(test, v) \in TestRec
    <3>1. CASE v = {}
      BY <1>1, <3>1 DEF Count, TestRec
    <3>2. CASE v # {}
      <4>1. test.i \in Server /\ Has(test.i, test.index) /\ v = {logs[test.i][test.index]}
        BY <3>2, FoundIs, Zenon
      <4>2. logs[test.i][test.index] \in Value
        BY <4>1, Zenon DEF TypeOK, Has
      <4>3. PICK c \in Value : c = CHOOSE x \in v : TRUE
        BY <4>1, <4>2, Zenon
      <4>4. Count(test, v) = [test EXCEPT !.i = @ + 1, !.count = @ + 1, !.seen = c]
        BY <3>2, <4>3, Zenon DEF Count
      <4>5. PICK n \in Nat, d \in Nat : n = test.i + 1 /\ d = test.count + 1
        BY <1>1 DEF TestRec
      <4>6. [test EXCEPT !.i = n, !.count = d, !.seen = c] \in TestRec
        BY <1>1, <4>5, Zenon DEF TestRec
      <4> QED
        BY <4>4, <4>5, <4>6, Zenon
    <3> QED
      BY <3>1, <3>2, Zenon
  <2> QED
    BY <1>1, <2>1, <2>2, Zenon
<1>6. ASSUME NEW pc \in TestPc
      PROVE  Again(pc) \in TestRec
  BY <1>1, Zenon DEF Again, TestRec, Value
<1>7. Again("one") \in TestRec /\ Again("start") \in TestRec /\ Again("last") \in TestRec
      /\ Again("wait") \in TestRec
  BY <1>6 DEF TestPc
<1>8. /\ [test EXCEPT !.pc = "returned"] \in TestRec
      /\ [test EXCEPT !.pc = "returned", !.cmd = test.seen] \in TestRec
  BY <1>1, Zenon DEF TestRec, TestPc
<1>9. CASE one
  BY <1>1, <1>7, <1>8, <1>9, Zenon DEF one
<1>10. CASE wait
  BY <1>1, <1>7, <1>8, <1>10, IdleTest, Zenon DEF wait
<1>11. CASE goOn
  BY <1>11, IdleTest, Zenon DEF goOn
<1> QED
  BY <1>2, <1>3, <1>4, <1>5, <1>9, <1>10, <1>11, Zenon DEF TestStep

LEMMA TestCalm ==
    ASSUME TestStep
    PROVE  Calm
BY Zenon DEF TestStep, beginOne, startCmd, beginWait, nCommitted, one, wait, goOn

LEMMA TypeStep ==
    ASSUME TypeOK, Saved, Instances, [Next]_vars
    PROVE  TypeOK'
<1>1. CASE Agree
  <2>1. agreed' \in Seq(Cmd)
    BY <1>1 DEF Agree, TypeOK
  <2> QED
    BY <1>1, <2>1, Zenon DEF TypeOK, Agree, cfg
<1>2. ASSUME NEW i \in Server, NEW g \in Instance, Fatal(i, g)
      PROVE  TypeOK'
  BY <1>2, Zenon DEF TypeOK, Fatal, raft, cfg
<1>3. CASE TestStep
  BY <1>3, TypeTest, TestCalm, Zenon DEF TypeOK, Calm, raft, cfg
<1>4. CASE UNCHANGED vars
  BY <1>4, Zenon DEF TypeOK, vars, raft, cfg
<1> QED
  BY <1>1, <1>2, <1>3, <1>4, TypeApplier, TypeBeginSnap, TypeInstallSnap, TypeReceiveCmd,
     TypeCheckCmd, TypeWriteApplied, TypeTakeSnap, TypeCrash1, TypeReset, TypeMakeRaft, Zenon
     DEF Next, TestStep

----------------------------------------------------------------------------
(* Instances and what they have saved *)

\* A step of the applier of instance g of server i other than log.Fatalf.
AppStep(i, g) ==
    \/ applier(i, g) \/ BeginSnap(i, g) \/ InstallSnap(i, g) \/ ReceiveCmd(i, g)
    \/ CheckCmd(i, g) \/ WriteApplied(i, g) \/ TakeSnap(i, g)

LEMMA AppOnly ==
    ASSUME NEW i \in Server, NEW g \in Instance, AppStep(i, g)
    PROVE  UNCHANGED <<snapshot, correct, agreed, rafts, made, test, alarm, fresh>>
BY Zenon DEF AppStep, applier, BeginSnap, InstallSnap, ReceiveCmd, CheckCmd, WriteApplied,
             TakeSnap, raft, cfg

\* Every applier step changes the record of one applier.
LEMMA AppMoves ==
    ASSUME TypeOK, Instances, NEW i \in Server, NEW g \in Instance, AppStep(i, g)
    PROVE  \E b \in AppRec :
            /\ app' = [app EXCEPT ![i][g] = b]
            /\ app[i][g].pc # "none" /\ b.pc # "none"
            /\ b.rf \in {app[i][g].rf, rafts[i]}
            /\ b.err => b.pc \in {"write", "snap"}
            /\ ~snapshot => b.pc \in {"range", "fatal"}
<1> DEFINE a == app[i][g]
           Moves(b) == /\ app' = [app EXCEPT ![i][g] = b]
                       /\ a.pc # "none" /\ b.pc # "none"
                       /\ b.rf \in {a.rf, rafts[i]}
                       /\ b.err => b.pc \in {"write", "snap"}
                       /\ ~snapshot => b.pc \in {"range", "fatal"}
<1>1. /\ a \in AppRec /\ a.err \in BOOLEAN
      /\ a.err => a.pc \in {"write", "snap"}
      /\ ~snapshot => a.pc \in {"none", "range", "fatal"}
  <2>1. a \in AppRec
    BY DEF TypeOK
  <2> QED
    BY <2>1 DEF Instances, AppRec
<1>2. ASSUME NEW err \in BOOLEAN, a.pc # "none", app' = [app EXCEPT ![i][g] = Finish(a, err)]
      PROVE  \E b \in AppRec : Moves(b)
  <2> DEFINE b == Finish(a, err)
  <2>1. b \in AppRec /\ b.pc \in {"fatal", "range"} /\ b.rf = a.rf /\ b.err = FALSE
    BY <1>1, FinishType, Zenon
  <2>2. app' = [app EXCEPT ![i][g] = b]
    BY <1>2, Zenon
  <2> HIDE DEF b
  <2>3. Moves(b)
    BY <1>2, <2>1, <2>2, Zenon
  <2> QED
    BY <2>1, <2>3, Zenon
<1>3. CASE applier(i, g)
  <2>1. PICK m \in Commands(i, g) : app' = [app EXCEPT ![i][g] = Finish(a, Bad(i, m))]
    BY <1>3, Zenon DEF applier
  <2>2. a.pc # "none" /\ Bad(i, m) \in BOOLEAN
    BY <1>3, Zenon DEF applier, Bad, Mismatch
  <2> QED
    BY <1>2, <2>1, <2>2, Zenon
<1>4. CASE BeginSnap(i, g)
  <2> DEFINE pc == IF rafts[i] = 0 THEN "returned" ELSE "range"
             b == [a EXCEPT !.pc = pc, !.rf = rafts[i]]
  <2>1. a.pc = "begin" /\ rafts[i] \in Nat
    BY <1>4 DEF BeginSnap, TypeOK
  <2>2. b \in AppRec /\ b.pc = pc /\ b.rf = rafts[i] /\ b.err = a.err
    BY <1>1, <2>1, Zenon DEF AppRec, AppPc
  <2>3. app' = [app EXCEPT ![i][g] = b]
    BY <1>1, <1>4, Zenon DEF BeginSnap, TypeOK, AppRec
  <2> HIDE DEF b
  <2>4. ~a.err /\ snapshot
    BY <1>1, <2>1 DEF TypeOK
  <2>5. Moves(b)
    BY <2>1, <2>2, <2>3, <2>4
  <2> QED
    BY <2>2, <2>5, Zenon
<1>5. CASE InstallSnap(i, g)
  <2>1. a.pc = "range" /\ snapshot
    BY <1>5, Zenon DEF InstallSnap
  <2>2. CASE app' = app
    <3>1. app = [app EXCEPT ![i][g] = a]
      BY DEF TypeOK
    <3>2. Moves(a)
      BY <1>1, <2>1, <2>2, <3>1
    <3> QED
      BY <1>1, <3>2, Zenon
  <2>3. CASE app' = [app EXCEPT ![i][g] = Finish(a, TRUE)]
    BY <1>2, <2>1, <2>3, Zenon
  <2> QED
    BY <1>5, <2>2, <2>3, Zenon DEF InstallSnap
<1>6. CASE ReceiveCmd(i, g)
  <2> DEFINE err(m) == m.index # lastApplied[i] + 1
             pc(m) == IF err(m) THEN "write" ELSE "check"
             b(m) == [a EXCEPT !.pc = pc(m), !.m = m, !.err = err(m)]
  <2>1. PICK m \in Commands(i, g) :
          app' = [app EXCEPT ![i][g].pc = pc(m), ![i][g].m = m, ![i][g].err = err(m)]
    BY <1>6, Zenon DEF ReceiveCmd
  <2>2. m \in [index : Nat, cmd : Value]
    BY CommandMsg, Zenon
  <2>3. b(m) \in AppRec /\ b(m).pc = pc(m) /\ b(m).rf = a.rf /\ b(m).err = err(m)
    BY <1>1, <2>2, Zenon DEF AppRec, AppPc
  <2>4. app' = [app EXCEPT ![i][g] = b(m)]
    BY <1>1, <2>1, Zenon DEF TypeOK, AppRec
  <2>5. snapshot /\ a.pc = "range"
    BY <1>6, Zenon DEF ReceiveCmd
  <2>6. b(m).err => b(m).pc = "write"
    BY <2>3, Zenon
  <2> HIDE DEF b
  <2>7. b(m).pc # "none"
    BY <2>3
  <2>8. Moves(b(m))
    BY <2>3, <2>4, <2>5, <2>6, <2>7, Zenon
  <2> QED
    BY <2>3, <2>8, Zenon
<1>7. CASE CheckCmd(i, g)
  <2> DEFINE b == [a EXCEPT !.pc = "write", !.err = Bad(i, a.m)]
  <2>1. a.pc = "check" /\ Bad(i, a.m) \in BOOLEAN
    BY <1>7, Zenon DEF CheckCmd, Bad, Mismatch
  <2>2. b \in AppRec /\ b.pc = "write" /\ b.rf = a.rf
    BY <1>1, <2>1, Zenon DEF AppRec, AppPc
  <2>3. app' = [app EXCEPT ![i][g] = b]
    BY <1>1, <1>7, Zenon DEF TypeOK, AppRec, CheckCmd
  <2>4. snapshot
    BY <1>1, <2>1 DEF TypeOK
  <2> HIDE DEF b
  <2>5. Moves(b)
    BY <2>1, <2>2, <2>3, <2>4
  <2> QED
    BY <2>2, <2>5, Zenon
<1>8. CASE WriteApplied(i, g)
  <2>1. a.pc = "write" /\ snapshot
    BY <1>1, <1>8 DEF WriteApplied, TypeOK
  <2>2. CASE app' = [app EXCEPT ![i][g] = Finish(a, a.err)]
    BY <1>1, <1>2, <2>1, <2>2, Zenon
  <2>3. CASE app' = [app EXCEPT ![i][g] = [a EXCEPT !.pc = "snap"]]
    <3> DEFINE b == [a EXCEPT !.pc = "snap"]
    <3>1. b \in AppRec /\ b.pc = "snap" /\ b.rf = a.rf
      BY <1>1 DEF AppRec, AppPc
    <3>2. app' = [app EXCEPT ![i][g] = b]
      BY <2>3, Zenon
    <3> HIDE DEF b
    <3>3. Moves(b)
      BY <2>1, <3>1, <3>2
    <3> QED
      BY <3>1, <3>3, Zenon
  <2> QED
    BY <1>8, <2>2, <2>3, Zenon DEF WriteApplied
<1>9. CASE TakeSnap(i, g)
  <2>1. a.pc # "none" /\ app' = [app EXCEPT ![i][g] = Finish(a, a.err)]
    BY <1>9, Zenon DEF TakeSnap
  <2> QED
    BY <1>1, <1>2, <2>1, Zenon
<1> QED
  BY <1>3, <1>4, <1>5, <1>6, <1>7, <1>8, <1>9, Zenon DEF AppStep

LEMMA OtherAppliers ==
    ASSUME TypeOK, Instances, NEW i \in Server, NEW g \in Instance, AppStep(i, g)
    PROVE  /\ \A j \in Server, h \in Instance : j # i \/ h # g => app'[j][h] = app[j][h]
           /\ app[i][g].pc # "none"
<1>1. PICK b \in AppRec :
        /\ app' = [app EXCEPT ![i][g] = b]
        /\ app[i][g].pc # "none" /\ b.pc # "none"
        /\ b.rf \in {app[i][g].rf, rafts[i]}
        /\ b.err => b.pc \in {"write", "snap"}
        /\ ~snapshot => b.pc \in {"range", "fatal"}
  BY AppMoves, Zenon
<1>2. app' = [app EXCEPT ![i][g] = b]
  BY <1>1, Zenon
<1>3. \A j \in Server, h \in Instance : j # i \/ h # g => app'[j][h] = app[j][h]
  BY <1>2 DEF TypeOK
<1> QED
  BY <1>1, <1>3, Zenon

LEMMA OneApplier ==
    ASSUME TypeOK, NEW i \in Server, NEW g \in Instance, NEW b, app' = [app EXCEPT ![i][g] = b]
    PROVE  /\ app'[i][g] = b
           /\ \A j \in Server, h \in Instance : j # i \/ h # g => app'[j][h] = app[j][h]
BY DEF TypeOK

LEMMA InstancesApp ==
    ASSUME TypeOK, Instances, NEW i \in Server, NEW g \in Instance, AppStep(i, g)
    PROVE  Instances'
<1>1. UNCHANGED <<snapshot, rafts, made, test, fresh>>
  BY AppOnly, Zenon
<1>2. PICK b \in AppRec :
        /\ app' = [app EXCEPT ![i][g] = b]
        /\ app[i][g].pc # "none" /\ b.pc # "none"
        /\ b.rf \in {app[i][g].rf, rafts[i]}
        /\ b.err => b.pc \in {"write", "snap"}
        /\ ~snapshot => b.pc \in {"range", "fatal"}
  BY AppMoves, Zenon
<1>3. app'[i][g] = b /\ \A j \in Server, h \in Instance : j # i \/ h # g => app'[j][h] = app[j][h]
  BY <1>2, OneApplier, Zenon
<1>4. ~(g > made[i])
  BY <1>2, Zenon DEF Instances
<1>5. app[i][g].rf <= made[i] /\ rafts[i] \in {0, made[i]} /\ made[i] \in Nat /\ 0 <= made[i]
  BY SizeAssumption DEF Instances, Newest, TypeOK, Instance
<1>6. b.rf <= made[i]
  BY <1>2, <1>5
<1>7. ~snapshot => taken' = {}
  <2>1. SUFFICES ASSUME ~snapshot PROVE taken' = {}
    OBVIOUS
  <2>2. app[i][g].pc \in {"none", "range", "fatal"} /\ taken = {}
    BY <2>1, Zenon DEF Instances
  <2>3. ~TakeSnap(i, g)
    BY <2>2 DEF TakeSnap
  <2> QED
    BY <2>2, <2>3, Zenon DEF AppStep, applier, BeginSnap, InstallSnap, ReceiveCmd, CheckCmd,
                             WriteApplied, raft
<1>8. ASSUME NEW j \in Server, NEW h \in Instance
      PROVE  /\ app'[j][h].pc = "none" <=> h > made'[j]
             /\ app'[j][h].rf <= made'[j]
             /\ app'[j][h].err => app'[j][h].pc \in {"write", "snap"}
             /\ ~snapshot' => app'[j][h].pc \in {"none", "range", "fatal"}
  <2>1. CASE j = i /\ h = g
    <3>1. app'[j][h] = b /\ made'[j] = made[i] /\ snapshot' = snapshot
      BY <1>1, <1>3, <2>1, Zenon
    <3> QED
      BY <1>2, <1>4, <1>6, <2>1, <3>1, Zenon
  <2>2. CASE j # i \/ h # g
    <3>1. app'[j][h] = app[j][h] /\ made'[j] = made[j] /\ snapshot' = snapshot
      BY <1>1, <1>3, <2>2, Zenon
    <3> QED
      BY <3>1, Zenon DEF Instances
  <2> QED
    BY <2>1, <2>2, Zenon
<1> QED
  BY <1>1, <1>7, <1>8, Zenon DEF Instances, Newest

LEMMA InstancesCrash1 ==
    ASSUME TypeOK, Instances, NEW i \in Server, crash1(i)
    PROVE  Instances'
<1>1. test'.pc = "idle" /\ test.pc = "idle"
  BY IdleTest, Zenon DEF crash1
<1>2. \A j \in Server : rafts'[j] = IF j = i THEN 0 ELSE rafts[j]
  BY DEF crash1, TypeOK
<1>3. made[i] <= MaxRestarts
  BY SizeAssumption DEF crash1
<1>4. \A j \in Server : Newest(j)'
  BY <1>1, <1>2, <1>3 DEF Instances, Newest, crash1
<1> QED
  BY <1>1, <1>4, Zenon DEF Instances, crash1

LEMMA InstancesReset ==
    ASSUME TypeOK, Instances, NEW i \in Server, Reset(i)
    PROVE  Instances'
<1>1. test'.pc = "make" /\ test'.i = i /\ test.pc = "idle" /\ rafts[i] = 0
  <2>1. i \in Nat
    BY SizeAssumption DEF Server
  <2> QED
    BY <2>1, IdleTest, Zenon DEF Reset
<1>2. \A j \in Server : fresh'[j] = IF j = i THEN made[i] + 1 ELSE fresh[j]
  BY DEF Reset, TypeOK
<1>3. \A j \in Server : Newest(j)'
  BY <1>1, <1>2 DEF Instances, Newest, Reset
<1> QED
  BY <1>1, <1>3, Zenon DEF Instances, Reset, raft

LEMMA InstancesMakeRaft ==
    ASSUME TypeOK, Saved, Instances, MakeRaft
    PROVE  Instances'
<1> DEFINE i == test.i
           g == made[i] + 1
           b == Applier(IF snapshot THEN "begin" ELSE "range")
<1>1. i \in Server /\ rafts[i] = 0 /\ test.pc = "make"
  BY Zenon DEF Instances, MakeRaft
<1>2. g \in Instance /\ made[i] \in Nat
  BY <1>1, NextInstance, SizeAssumption DEF TypeOK, Instance
<1>3. b.pc \in {"begin", "range"} /\ b.rf = 0 /\ b.err = FALSE /\ (~snapshot => b.pc = "range")
  BY FreshApplier, Zenon
<1>4. test'.pc = "idle"
  BY IdleTest, Zenon DEF MakeRaft
<1>5. /\ made' = [made EXCEPT ![i] = g] /\ rafts' = [rafts EXCEPT ![i] = g]
      /\ app' = [app EXCEPT ![i][g] = b]
  BY Zenon DEF MakeRaft
<1>6. fresh[i] = g /\ fresh' = fresh
  BY <1>1, Zenon DEF Instances, Newest, MakeRaft
<1>8. g \in Nat /\ g > 0 /\ g > made[i]
  BY <1>2
<1>9. \A j \in Server : j # i => fresh[j] = made[j]
  BY Zenon DEF Instances, Newest
<1> HIDE DEF i, g, b
<1>7. app'[i][g] = b /\ \A j \in Server, h \in Instance : j # i \/ h # g => app'[j][h] = app[j][h]
  BY <1>1, <1>2, <1>5 DEF TypeOK
<1>10. \A j \in Server : made'[j] = (IF j = i THEN g ELSE made[j])
                      /\ rafts'[j] = (IF j = i THEN g ELSE rafts[j])
  BY <1>5 DEF TypeOK
<1>11. \A j \in Server : Newest(j)'
  BY <1>4, <1>6, <1>8, <1>9, <1>10 DEF Instances, Newest
<1>12. ASSUME NEW j \in Server, NEW h \in Instance
       PROVE  /\ app'[j][h].pc = "none" <=> h > made'[j]
              /\ app'[j][h].rf <= made'[j]
              /\ app'[j][h].err => app'[j][h].pc \in {"write", "snap"}
              /\ ~snapshot' => app'[j][h].pc \in {"none", "range", "fatal"}
  <2>0. snapshot' = snapshot /\ h \in Nat
    BY SizeAssumption DEF MakeRaft, Instance
  <2>1. CASE j = i /\ h = g
    BY <1>3, <1>7, <1>8, <1>10, <2>0, <2>1
  <2>2. CASE j = i /\ h # g
    <3>1. app'[j][h] = app[j][h] /\ made'[j] = g
      BY <1>7, <1>10, <2>2, Zenon
    <3>2. (h > made[i] <=> h > g) /\ \A n \in Nat : n <= made[i] => n <= g
      BY <1>2, <2>0, <2>2 DEF g
    <3>3. app[j][h].rf \in Nat
      BY DEF TypeOK, AppRec
    <3> QED
      BY <2>0, <2>2, <3>1, <3>2, <3>3, Zenon DEF Instances
  <2>3. CASE j # i
    <3>1. app'[j][h] = app[j][h] /\ made'[j] = made[j]
      BY <1>7, <1>10, <2>3, Zenon
    <3> QED
      BY <2>0, <3>1, Zenon DEF Instances
  <2> QED
    BY <2>1, <2>2, <2>3, Zenon
<1> QED
  BY <1>4, <1>11, <1>12, Zenon DEF Instances, MakeRaft

\* A check starts when the tester does nothing else and never makes an instance.
LEMMA TestNotMake ==
    ASSUME TypeOK, TestStep
    PROVE  test.pc # "make" /\ test'.pc # "make"
<1>1. test \in TestRec
  BY Zenon DEF TypeOK
<1>2. CASE beginOne
  BY <1>2 DEF beginOne, Idle
<1>3. CASE startCmd
  BY <1>1, <1>3, Zenon DEF startCmd, TestRec
<1>4. CASE beginWait
  BY <1>4 DEF beginWait, Idle
<1>5. CASE nCommitted
  <2>1. test.pc \in {"one", "wait", "last"}
    BY <1>5, Zenon DEF nCommitted
  <2>2. ASSUME NEW v
        PROVE  Count(test, v).pc = test.pc
    BY <1>1 DEF Count, TestRec
  <2>3. test'.pc = test.pc
    BY <1>5, <2>2, Zenon DEF nCommitted
  <2> QED
    BY <2>1, <2>3
<1>6. ASSUME NEW pc \in TestPc
      PROVE  Again(pc).pc = pc
  BY <1>1 DEF Again, TestRec
<1>7. Again("one").pc = "one" /\ Again("start").pc = "start" /\ Again("wait").pc = "wait"
      /\ Again("last").pc = "last"
  BY <1>6 DEF TestPc
<1>8. /\ [test EXCEPT !.pc = "returned"].pc = "returned"
      /\ [test EXCEPT !.pc = "returned", !.cmd = test.seen].pc = "returned"
  BY <1>1 DEF TestRec
<1>9. CASE one
  <2>1. test.pc = "one" /\ test'.pc \in {"one", "start", "returned"}
    BY <1>7, <1>8, <1>9, Zenon DEF one
  <2> QED
    BY <2>1
<1>10. CASE wait
  <2>1. test.pc \in {"wait", "last"} /\ test'.pc \in {"last", "wait", "idle", "returned"}
    BY <1>7, <1>8, <1>10, IdleTest, Zenon DEF wait
  <2> QED
    BY <2>1
<1>11. CASE goOn
  BY <1>11, IdleTest, Zenon DEF goOn
<1> QED
  BY <1>2, <1>3, <1>4, <1>5, <1>9, <1>10, <1>11, Zenon DEF TestStep

LEMMA InstancesStep ==
    ASSUME TypeOK, Saved, Instances, [Next]_vars
    PROVE  Instances'
<1>1. CASE Agree
  BY <1>1, Zenon DEF Instances, Newest, Agree, cfg
<1>2. ASSUME NEW i \in Server, NEW g \in Instance, Fatal(i, g)
      PROVE  Instances'
  BY <1>2, Zenon DEF Instances, Newest, Fatal, raft, cfg
<1>3. CASE TestStep
  <2>1. test.pc # "make" /\ test'.pc # "make" /\ Calm
    BY <1>3, TestNotMake, TestCalm, Zenon
  <2> QED
    BY <2>1, Zenon DEF Instances, Newest, Calm, raft, cfg
<1>4. CASE UNCHANGED vars
  BY <1>4, Zenon DEF Instances, Newest, vars, raft, cfg
<1> QED
  BY <1>1, <1>2, <1>3, <1>4, InstancesApp, InstancesCrash1, InstancesReset, InstancesMakeRaft, Zenon
     DEF Next, TestStep, AppStep

LEMMA SavedStep ==
    ASSUME TypeOK, Saved, Instances, [Next]_vars
    PROVE  Saved'
<1>1. ASSUME NEW i \in Server, NEW g \in Instance, TakeSnap(i, g)
      PROVE  Saved'
  <2> DEFINE x == app[i][g].rf
             s == SnapOf(i, app[i][g].m.index)
  <2>1. taken' = taken \union {s}
    BY <1>1, Zenon DEF TakeSnap
  <2>2. persister' = persister \/ persister' = [persister EXCEPT ![i][x] = s]
    BY <1>1, Zenon DEF TakeSnap
  <2> HIDE DEF x, s
  <2>3. ASSUME NEW j \in Server, NEW h \in Instance
        PROVE  persister'[j][h] \in {persister[j][h], s}
    <3>1. CASE persister' = [persister EXCEPT ![i][x] = s]
      BY <3>1 DEF TypeOK
    <3> QED
      BY <2>2, <3>1, Zenon
  <2> QED
    BY <2>1, <2>3, Zenon DEF Saved
<1>2. ASSUME NEW i \in Server, crash1(i)
      PROVE  Saved'
  <2>1. persister' = [persister EXCEPT ![i][made[i] + 1] = persister[i][made[i]]]
    BY <1>2, Zenon DEF crash1
  <2>2. made[i] \in Instance /\ taken' = taken
    BY <1>2 DEF TypeOK, crash1
  <2>3. \A j \in Server, h \in Instance : persister'[j][h] \in {persister[j][h], persister[i][made[i]]}
    BY <2>1 DEF TypeOK
  <2> QED
    BY <2>2, <2>3, Zenon DEF Saved
<1>3. CASE UNCHANGED <<persister, taken>>
  BY <1>3, Zenon DEF Saved
<1>4. ASSUME NEW i \in Server, NEW g \in Instance, AppStep(i, g), ~TakeSnap(i, g)
      PROVE  UNCHANGED <<persister, taken>>
  BY <1>4, Zenon DEF AppStep, applier, BeginSnap, InstallSnap, ReceiveCmd, CheckCmd, WriteApplied, raft
<1>5. CASE TestStep
  BY <1>3, <1>5, TestCalm, Zenon DEF Calm, raft
<1>6. ASSUME Agree \/ (\E i \in Server, g \in Instance : Fatal(i, g)) \/ (\E i \in Server : Reset(i))
             \/ MakeRaft \/ UNCHANGED vars
      PROVE  UNCHANGED <<persister, taken>>
  BY <1>6, Zenon DEF Agree, Fatal, Reset, MakeRaft, vars, raft
<1> QED
  BY <1>1, <1>2, <1>3, <1>4, <1>5, <1>6, Zenon DEF Next, TestStep, AppStep

----------------------------------------------------------------------------
(* What has been applied, and what nCommitted counts *)

\* The steps that leave the logs alone.
LEMMA LogsKept ==
    ASSUME [Next]_vars,
           \A i \in Server, g \in Instance :
                ~applier(i, g) /\ ~InstallSnap(i, g) /\ ~CheckCmd(i, g),
           \A i \in Server : ~Reset(i)
    PROVE  UNCHANGED <<logs, applied>>
<1>1. ASSUME NEW i \in Server, NEW g \in Instance,
             Fatal(i, g) \/ BeginSnap(i, g) \/ ReceiveCmd(i, g) \/ WriteApplied(i, g) \/ TakeSnap(i, g)
      PROVE  UNCHANGED <<logs, applied>>
  BY <1>1, Zenon DEF Fatal, BeginSnap, ReceiveCmd, WriteApplied, TakeSnap, cfg
<1>2. ASSUME NEW i \in Server, crash1(i)
      PROVE  UNCHANGED <<logs, applied>>
  BY <1>2, Zenon DEF crash1
<1>3. ASSUME Agree \/ MakeRaft \/ UNCHANGED vars
      PROVE  UNCHANGED <<logs, applied>>
  BY <1>3, Zenon DEF Agree, MakeRaft, vars, cfg
<1>4. ASSUME TestStep
      PROVE  UNCHANGED <<logs, applied>>
  BY <1>4, TestCalm, Zenon DEF Calm, cfg
<1> QED
  BY <1>1, <1>2, <1>3, <1>4, Zenon DEF Next, TestStep

\* The steps that change them record or take over.
LEMMA LogsChange ==
    ASSUME TypeOK, Saved, Instances, [Next]_vars
    PROVE  \/ UNCHANGED <<logs, applied>>
           \/ \E i \in Server, m \in [index : Nat, cmd : Value] : checkLogs(i, m)
           \/ \E i \in Server, s \in taken : ingestSnap(i, s)
<1>1. ASSUME NEW i \in Server, NEW g \in Instance, applier(i, g)
      PROVE  \E m \in [index : Nat, cmd : Value] : checkLogs(i, m)
  BY <1>1, CommandMsg, Zenon DEF applier
<1>2. ASSUME NEW i \in Server, NEW g \in Instance, CheckCmd(i, g)
      PROVE  \E m \in [index : Nat, cmd : Value] : checkLogs(i, m)
  <2>1. app[i][g] \in AppRec
    BY DEF TypeOK
  <2>2. app[i][g].m \in [index : Nat, cmd : Value]
    BY <2>1 DEF AppRec
  <2> QED
    BY <1>2, <2>2, Zenon DEF CheckCmd
<1>3. ASSUME NEW i \in Server, NEW g \in Instance, InstallSnap(i, g)
      PROVE  UNCHANGED <<logs, applied>> \/ \E s \in taken : ingestSnap(i, s)
  BY <1>3, SnapshotMsg, Zenon DEF InstallSnap
<1>4. ASSUME NEW i \in Server, Reset(i)
      PROVE  UNCHANGED <<logs, applied>> \/ \E s \in taken : ingestSnap(i, s)
  <2>1. made[i] + 1 \in Instance
    BY <1>4, NextInstance, Zenon DEF Reset
  <2>2. persister[i][made[i] + 1] \in taken \union {NoSnap}
    BY <2>1, Zenon DEF Saved
  <2> QED
    BY <1>4, <2>2, Zenon DEF Reset
<1> QED
  BY <1>1, <1>2, <1>3, <1>4, LogsKept, Zenon

LEMMA LogsAppliedStep ==
    ASSUME TypeOK, Saved, Instances, LogsApplied, [Next]_vars
    PROVE  LogsApplied' /\ applied \subseteq applied'
<1>1. CASE UNCHANGED <<logs, applied>>
  BY <1>1, Zenon DEF LogsApplied
<1>2. ASSUME NEW i \in Server, NEW m \in [index : Nat, cmd : Value], checkLogs(i, m)
      PROVE  LogsApplied' /\ applied \subseteq applied'
  <2>1. /\ DOMAIN logs'[i] = DOMAIN logs[i] \union {m.index}
        /\ logs'[i][m.index] = m.cmd
        /\ \A k \in DOMAIN logs[i] : k # m.index => logs'[i][k] = logs[i][k]
        /\ \A j \in Server : j # i => logs'[j] = logs[j]
        /\ applied' = applied \union {<<i, m.index, m.cmd>>}
    BY <1>2, PutIs, Zenon
  <2>2. \A k \in DOMAIN logs'[i] : <<i, k, logs'[i][k]>> \in applied'
    BY <2>1, Zenon DEF LogsApplied
  <2>3. \A j \in Server : j # i => \A k \in DOMAIN logs'[j] : <<j, k, logs'[j][k]>> \in applied'
    BY <2>1, Zenon DEF LogsApplied
  <2> QED
    BY <2>1, <2>2, <2>3, Zenon DEF LogsApplied
<1>3. ASSUME NEW i \in Server, NEW s \in taken, ingestSnap(i, s)
      PROVE  LogsApplied' /\ applied \subseteq applied'
  <2>1. /\ logs'[i] = s.xlog
        /\ \A j \in Server : j # i => logs'[j] = logs[j]
        /\ applied \subseteq applied'
        /\ \A k \in DOMAIN s.xlog : <<i, k, s.xlog[k]>> \in applied'
    BY <1>3, IngestIs, Zenon
  <2>2. \A j \in Server : j # i => \A k \in DOMAIN logs'[j] : <<j, k, logs'[j][k]>> \in applied'
    BY <2>1, Zenon DEF LogsApplied
  <2> QED
    BY <2>1, <2>2, Zenon DEF LogsApplied
<1> QED
  BY <1>1, <1>2, <1>3, LogsChange, Zenon

LEMMA SmallerSet ==
    ASSUME NEW n \in Nat, NEW A, NEW B, A \subseteq B, B \subseteq 0 .. n - 1
    PROVE  /\ Cardinality(A) <= Cardinality(B)
           /\ Cardinality(A) \in Nat /\ Cardinality(B) \in Nat
           /\ A # B => Cardinality(A) < Cardinality(B)
<1>1. IsFiniteSet(0 .. n - 1)
  BY FS_Interval
<1>2. IsFiniteSet(B)
  BY <1>1, FS_Subset, Zenon
<1>3. IsFiniteSet(A)
  BY <1>2, FS_Subset, Zenon
<1>4. Cardinality(A) \in Nat /\ Cardinality(B) \in Nat
  BY <1>2, <1>3, FS_CardinalityType, Zenon
<1>5. Cardinality(A) <= Cardinality(B) /\ (Cardinality(B) = Cardinality(A) => B = A)
  BY <1>2, FS_Subset, Zenon
<1> QED
  BY <1>4, <1>5

\* More has been applied, so there are no fewer holders.
LEMMA MoreHolders ==
    ASSUME NEW n \in Nat, NEW k, NEW c, NEW d \in Nat, applied \subseteq applied',
           Cardinality(Holders(n, k, c)) >= d
    PROVE  Cardinality(Holders(n, k, c)') >= d
<1>1. Holders(n, k, c) \subseteq Holders(n, k, c)' /\ Holders(n, k, c)' \subseteq 0 .. n - 1
  BY Zenon DEF Holders
<1>2. /\ Cardinality(Holders(n, k, c)) <= Cardinality(Holders(n, k, c)')
      /\ Cardinality(Holders(n, k, c)) \in Nat /\ Cardinality(Holders(n, k, c)') \in Nat
  BY <1>1, SmallerSet
<1> QED
  BY <1>2

LEMMA CountedKept ==
    ASSUME TypeOK, Counted, applied \subseteq applied', test' = test
    PROVE  Counted'
<1>1. test \in TestRec
  BY Zenon DEF TypeOK
<1>2. PICK n \in Nat, k \in Nat, c \in Value, e \in Value, d \in Nat, w \in Nat :
        /\ n = test.i /\ k = test.index /\ c = test.seen /\ e = test.cmd
        /\ d = test.count /\ w = test.want
  BY <1>1 DEF TestRec
<1>3. N \in Nat
  BY SizeAssumption
<1>4. test.pc \in {"one", "wait", "last"} => n <= N /\ Cardinality(Holders(n, k, c)') >= d
  BY <1>2, MoreHolders, Zenon DEF Counted
<1>5. test.pc = "returned" => Cardinality(Holders(N, k, e)') >= w
  BY <1>2, <1>3, MoreHolders, Zenon DEF Counted
<1>6. /\ test'.i = n /\ test'.index = k /\ test'.seen = c /\ test'.cmd = e
      /\ test'.count = d /\ test'.want = w /\ test'.pc = test.pc
  BY <1>2, Zenon
<1>7. \A x, y : Holders(x, k, y)' = {j \in 0 .. x - 1 : <<j, k, y>> \in applied'}
  BY Zenon DEF Holders
<1>8. /\ Holders(test.i, test.index, test.seen)' = Holders(n, k, c)'
      /\ Holders(N, test.index, test.cmd)' = Holders(N, k, e)'
  BY <1>6, Zenon DEF Holders
<1> QED
  BY <1>2, <1>4, <1>5, <1>6, <1>8, Zenon DEF Counted

LEMMA CountedStart ==
    ASSUME test'.pc \in {"idle", "make"}
    PROVE  Counted'
BY DEF Counted

\* One more server has been looked at.
LEMMA CountedNext ==
    ASSUME TypeOK, LogsApplied, Counted, nCommitted
    PROVE  Counted'
<1> DEFINE v == Found(test.i, test.index)
<1>1. test \in TestRec
  BY Zenon DEF TypeOK
<1>2. PICK n \in Nat, k \in Nat, c \in Value, d \in Nat :
        n = test.i /\ k = test.index /\ c = test.seen /\ d = test.count
  BY <1>1 DEF TestRec
<1>3. /\ applied' = applied /\ test.pc \in {"one", "wait", "last"} /\ n < N
      /\ test' = test \/ (test' = Count(test, v) /\ ~(d > 0 /\ v # {} /\ v # {c}))
  <2>1. applied' = applied /\ test.pc \in {"one", "wait", "last"} /\ test.i < N
    BY Zenon DEF nCommitted, Calm, cfg
  <2>2. IF test.count > 0 /\ v # {} /\ v # {test.seen}
        THEN alarm' = "mismatch" /\ UNCHANGED test
        ELSE test' = Count(test, v) /\ UNCHANGED alarm
    BY Zenon DEF nCommitted, Found
  <2> HIDE DEF v
  <2>3. test' = test \/ (test' = Count(test, v) /\ ~(test.count > 0 /\ v # {} /\ v # {test.seen}))
    BY <2>2, Zenon
  <2>4. test' = test \/ (test' = Count(test, v) /\ ~(d > 0 /\ v # {} /\ v # {c}))
    BY <1>2, <2>3, Zenon
  <2> QED
    BY <1>2, <2>1, <2>4, Zenon
<1>4. n <= N /\ Cardinality(Holders(n, k, c)) >= d /\ test.want > 0 /\ test.index > 0
  BY <1>2, <1>3, Zenon DEF Counted
<1>5. n \in Server /\ n + 1 <= N /\ n + 1 \in Nat
  <2>1. n < N
    BY <1>3, Zenon
  <2> QED
    BY <2>1, SizeAssumption DEF Server
<1>6. CASE test' = test
  BY <1>3, <1>6, CountedKept, Zenon
<1>7. ASSUME NEW x \in Value, NEW e \in Nat,
             test'.pc = test.pc, test'.i = n + 1, test'.index = k, test'.want = test.want,
             test'.seen = x, test'.count = e, Cardinality(Holders(n + 1, k, x)) >= e
      PROVE  Counted'
  <2>1. Holders(test.i, test.index, test.seen)' = Holders(n + 1, k, x)
    BY <1>3, <1>7, Zenon DEF Holders
  <2>2. test.pc # "returned"
    BY <1>3
  <2> QED
    BY <1>2, <1>4, <1>5, <1>7, <2>1, <2>2, Zenon DEF Counted
<1>8. CASE test' = Count(test, v) /\ v = {}
  <2>1. /\ test'.pc = test.pc /\ test'.i = n + 1 /\ test'.index = k /\ test'.want = test.want
        /\ test'.seen = c /\ test'.count = d
    BY <1>1, <1>2, <1>8 DEF Count, TestRec
  <2>2. Holders(n, k, c) \subseteq Holders(n + 1, k, c)
    BY DEF Holders
  <2>3. Holders(n + 1, k, c) \subseteq 0 .. (n + 1) - 1
    BY Zenon DEF Holders
  <2>4. /\ Cardinality(Holders(n, k, c)) \in Nat
        /\ Cardinality(Holders(n + 1, k, c)) \in Nat
        /\ Cardinality(Holders(n, k, c)) <= Cardinality(Holders(n + 1, k, c))
    BY <1>5, <2>2, <2>3, SmallerSet, Zenon
  <2>5. Cardinality(Holders(n + 1, k, c)) >= d
    BY <1>4, <2>4
  <2> QED
    BY <1>7, <2>1, <2>5, Zenon
<1>9. CASE test' = Count(test, v) /\ v # {} /\ ~(d > 0 /\ v # {} /\ v # {c})
  <2>1. Has(n, k) /\ v = {logs[n][k]}
    BY <1>2, <1>9, FoundIs, Zenon
  <2>2. PICK x \in Value : x = logs[n][k]
    BY <1>5, <2>1, Zenon DEF TypeOK, Has
  <2>3. (CHOOSE y \in v : TRUE) = x
    BY <2>1, <2>2, Zenon
  <2>4. test' = [test EXCEPT !.i = @ + 1, !.count = @ + 1, !.seen = x]
    BY <1>9, <2>3, Zenon DEF Count
  <2>5. /\ test'.pc = test.pc /\ test'.i = n + 1 /\ test'.index = k /\ test'.want = test.want
        /\ test'.seen = x /\ test'.count = d + 1
    BY <1>1, <1>2, <2>4 DEF TestRec
  <2>6. <<n, k, x>> \in applied
    BY <1>5, <2>1, <2>2, Zenon DEF LogsApplied, Has
  <2>7. d > 0 => x = c
    BY <1>9, <2>1, <2>2, Zenon
  <2>8. n \in Holders(n + 1, k, x) /\ n \notin Holders(n, k, x)
    BY <2>6 DEF Holders
  <2>9. Holders(n, k, x) \subseteq Holders(n + 1, k, x)
    BY DEF Holders
  <2>10. Holders(n + 1, k, x) \subseteq 0 .. (n + 1) - 1
    BY Zenon DEF Holders
  <2>11. Holders(n, k, x) # Holders(n + 1, k, x)
    BY <2>8, Zenon
  <2>12. Cardinality(Holders(n, k, x)) \in Nat
         /\ Cardinality(Holders(n + 1, k, x)) \in Nat
         /\ Cardinality(Holders(n, k, x)) < Cardinality(Holders(n + 1, k, x))
    BY <1>5, <2>9, <2>10, <2>11, SmallerSet, Zenon
  <2>13. Cardinality(Holders(n + 1, k, x)) >= d + 1
    BY <1>4, <2>7, <2>12
  <2>14. d + 1 \in Nat
    OBVIOUS
  <2> QED
    BY <1>7, <2>5, <2>13, <2>14, Zenon
<1> QED
  BY <1>3, <1>6, <1>8, <1>9, Zenon

LEMMA CountedStep ==
    ASSUME TypeOK, Saved, Instances, LogsApplied, Counted, [Next]_vars
    PROVE  Counted'
<1>1. applied \subseteq applied'
  BY LogsAppliedStep, Zenon
<1>2. test \in TestRec
  BY Zenon DEF TypeOK
<1>3. ASSUME UNCHANGED test
      PROVE  Counted'
  BY <1>1, <1>3, CountedKept, Zenon
<1>4. ASSUME NEW i \in Server, NEW g \in Instance, AppStep(i, g) \/ Fatal(i, g)
      PROVE  UNCHANGED test
  BY <1>4, AppOnly, Zenon DEF Fatal
<1>5. CASE Agree \/ UNCHANGED vars
  BY <1>3, <1>5, Zenon DEF Agree, vars
<1>6. ASSUME NEW i \in Server, crash1(i) \/ Reset(i)
      PROVE  Counted'
  <2>1. i \in Nat
    BY SizeAssumption DEF Server
  <2>2. test'.pc \in {"idle", "make"}
    BY <1>6, <2>1, IdleTest, Zenon DEF crash1, Reset
  <2> QED
    BY <2>2, CountedStart, Zenon
<1>7. CASE MakeRaft \/ goOn
  BY <1>7, IdleTest, CountedStart, Zenon DEF MakeRaft, goOn
<1>8. CASE beginOne
  <2>1. test'.pc = "start" /\ test'.want > 0
    BY <1>8, SizeAssumption DEF beginOne, Idle
  <2> QED
    BY <2>1 DEF Counted
<1>9. ASSUME test'.pc \in {"one", "wait", "last"}, test'.want > 0, test'.index > 0, test'.i = 0, test'.count = 0
      PROVE  Counted'
  <2> DEFINE H == Holders(test.i, test.index, test.seen)'
  <2>1. H \subseteq 0 .. 0 - 1
    BY <1>9, Zenon DEF Holders
  <2> HIDE DEF H
  <2>2. Cardinality(H) >= 0
    <3>1. H = {}
      BY <2>1
    <3>2. Cardinality(H) = 0
      BY <3>1, FS_EmptySet, Zenon
    <3> QED
      BY <3>2
  <2>3. test'.i <= N
    BY <1>9, SizeAssumption
  <2>4. test'.pc # "returned"
    BY <1>9
  <2> QED
    BY <1>9, <2>2, <2>3, <2>4, Zenon DEF Counted, H
<1>10. CASE startCmd
  <2>1. CASE test' = test
    BY <1>3, <2>1, Zenon
  <2>2. CASE test' # test
    <3>1. test.want > 0
      BY <1>10, Zenon DEF startCmd, Counted
    <3>2. PICK k \in Index :
            test' = [test EXCEPT !.pc = "one", !.index = k, !.i = 0, !.count = 0, !.seen = Nil]
      BY <1>10, <2>2, Zenon DEF startCmd
    <3>3. /\ test'.pc = "one" /\ test'.want = test.want /\ test'.index = k /\ test'.i = 0
          /\ test'.count = 0
      BY <1>2, <3>2 DEF TestRec
    <3>4. k > 0
      BY SizeAssumption DEF Index
    <3> QED
      BY <1>9, <3>1, <3>3, <3>4, Zenon
  <2> QED
    BY <2>1, <2>2, Zenon
<1>11. CASE beginWait
  <2>1. PICK k \in Index, n \in 1 .. N : test' = [Idle EXCEPT !.pc = "wait", !.index = k, !.want = n]
    BY <1>11, Zenon DEF beginWait
  <2>2. test'.pc = "wait" /\ test'.want = n /\ test'.index = k /\ test'.i = 0 /\ test'.count = 0
    BY <2>1 DEF Idle
  <2>3. n > 0 /\ k > 0
    BY SizeAssumption DEF Index
  <2> QED
    BY <1>9, <2>2, <2>3, Zenon
<1>12. CASE nCommitted
  BY <1>12, CountedNext, Zenon
<1>13. ASSUME NEW pc \in {"one", "wait", "last"}, test' = Again(pc), test.pc \in {"one", "wait", "last"}
       PROVE  Counted'
  <2>1. test.want > 0 /\ test.index > 0
    BY <1>13, Zenon DEF Counted
  <2>2. test'.pc = pc /\ test'.want = test.want /\ test'.index = test.index /\ test'.i = 0 /\ test'.count = 0
    BY <1>2, <1>13 DEF Again, TestRec
  <2> QED
    BY <1>9, <2>1, <2>2, Zenon
<1>14. ASSUME test' = Again("start"), test.pc \in {"one", "wait", "last"}
       PROVE  Counted'
  <2>1. test.want > 0
    BY <1>14, Zenon DEF Counted
  <2>2. test'.pc = "start" /\ test'.want = test.want
    BY <1>2, <1>14 DEF Again, TestRec
  <2> QED
    BY <2>1, <2>2 DEF Counted
<1>15. ASSUME test.pc \in {"one", "wait", "last"}, test.i = N, test.count >= test.want, applied' = applied,
              test'.pc = "returned", test'.want = test.want, test'.index = test.index,
              test'.cmd = test.seen
       PROVE  Counted'
  <2>1. /\ test.want > 0 /\ test.index > 0
        /\ Cardinality(Holders(test.i, test.index, test.seen)) >= test.count
    BY <1>15, Zenon DEF Counted
  <2>2. Holders(N, test.index, test.cmd)' = Holders(test.i, test.index, test.seen)
    BY <1>15, Zenon DEF Holders
  <2>3. Cardinality(Holders(test.i, test.index, test.seen)) \in Nat
    <3>1. Holders(test.i, test.index, test.seen) \subseteq 0 .. N - 1
      BY <1>15, Zenon DEF Holders
    <3> QED
      BY <3>1, SmallerSet, SizeAssumption
  <2>4. test.count \in Nat /\ test.want \in Nat
    BY <1>2 DEF TestRec
  <2>5. Cardinality(Holders(N, test.index, test.cmd)') >= test'.want
    BY <1>15, <2>1, <2>2, <2>3, <2>4
  <2> QED
    BY <1>15, <2>1, <2>5 DEF Counted
<1>16. CASE one
  <2>1. CASE Agreement(test) /\ test' = [test EXCEPT !.pc = "returned"]
    <3>1. /\ test.pc = "one" /\ test.i = N /\ test.count >= test.want /\ test.seen = test.cmd
          /\ applied' = applied
      BY <1>16, <2>1, Zenon DEF one, Agreement, Calm, cfg
    <3>2. test'.pc = "returned" /\ test'.want = test.want /\ test'.index = test.index /\ test'.cmd = test.cmd
      BY <1>2, <2>1 DEF TestRec
    <3> QED
      BY <1>15, <3>1, <3>2, Zenon
  <2>2. test.pc \in {"one", "wait", "last"}
    BY <1>16, Zenon DEF one
  <2> QED
    BY <1>3, <1>13, <1>14, <1>16, <2>1, <2>2, Zenon DEF one
<1>17. CASE wait
  <2>1. CASE test.pc = "last" /\ test.count >= test.want /\ test' = [test EXCEPT !.pc = "returned", !.cmd = test.seen]
    <3>1. test.i = N /\ applied' = applied
      BY <1>17, Zenon DEF wait, Calm, cfg
    <3>2. test'.pc = "returned" /\ test'.want = test.want /\ test'.index = test.index /\ test'.cmd = test.seen
      BY <1>2, <2>1 DEF TestRec
    <3> QED
      BY <1>15, <2>1, <3>1, <3>2, Zenon
  <2>2. test.pc \in {"one", "wait", "last"}
    BY <1>17, Zenon DEF wait
  <2>3. CASE test' = Idle
    BY <2>3, IdleTest, CountedStart, Zenon
  <2> QED
    BY <1>3, <1>13, <1>17, <2>1, <2>2, <2>3, Zenon DEF wait
<1> QED
  BY <1>3, <1>4, <1>5, <1>6, <1>7, <1>8, <1>10, <1>11, <1>12, <1>16, <1>17, Zenon
     DEF Next, AppStep

----------------------------------------------------------------------------
(* Mismatches *)

\* The record of the applier that makes a step, where it matters.
LEMMA AfterApplier ==
    ASSUME TypeOK, NEW i \in Server, NEW g \in Instance, applier(i, g)
    PROVE  \E m \in Commands(i, g) :
            /\ m \in [index : Nat, cmd : Value] /\ checkLogs(i, m) /\ Sent(i, g, m)
            /\ app' = [app EXCEPT ![i][g] = Finish(app[i][g], Bad(i, m))]
            /\ app'[i][g].pc = (IF Bad(i, m) THEN "fatal" ELSE "range")
            /\ app'[i][g].err = FALSE
<1>1. PICK m \in Commands(i, g) :
        /\ Sent(i, g, m) /\ checkLogs(i, m)
        /\ app' = [app EXCEPT ![i][g] = Finish(@, Bad(i, m))]
  BY Zenon DEF applier
<1>2. m \in [index : Nat, cmd : Value]
  BY CommandMsg, Zenon
<1>3. Bad(i, m) \in BOOLEAN
  BY Zenon DEF Bad, Mismatch
<1>4. app[i][g] \in AppRec
  BY DEF TypeOK
<1>5. app'[i][g] = Finish(app[i][g], Bad(i, m))
  BY <1>1 DEF TypeOK
<1>6. /\ Finish(app[i][g], Bad(i, m)).pc = (IF Bad(i, m) THEN "fatal" ELSE "range")
      /\ Finish(app[i][g], Bad(i, m)).err = FALSE
  BY <1>3, <1>4, FinishType, Zenon
<1> QED
  BY <1>1, <1>2, <1>5, <1>6, Zenon

LEMMA AfterCheckCmd ==
    ASSUME TypeOK, NEW i \in Server, NEW g \in Instance, CheckCmd(i, g)
    PROVE  LET m == app[i][g].m IN
           /\ m \in [index : Nat, cmd : Value] /\ checkLogs(i, m)
           /\ app'[i][g].pc = "write" /\ app'[i][g].m = m /\ app'[i][g].err = Bad(i, m)
           /\ \A j \in Server, h \in Instance : j # i \/ h # g => app'[j][h] = app[j][h]
<1> DEFINE a == app[i][g]
           b == [a EXCEPT !.pc = "write", !.err = Bad(i, a.m)]
<1>1. a \in AppRec
  BY DEF TypeOK
<1>2. a.m \in [index : Nat, cmd : Value]
  BY <1>1 DEF AppRec
<1>3. Bad(i, a.m) \in BOOLEAN
  BY Zenon DEF Bad, Mismatch
<1>4. b.pc = "write" /\ b.m = a.m /\ b.err = Bad(i, a.m)
  BY <1>1, <1>3 DEF AppRec
<1>5. app' = [app EXCEPT ![i][g] = b]
  BY <1>1, Zenon DEF TypeOK, AppRec, CheckCmd
<1>6. app'[i][g] = b /\ \A j \in Server, h \in Instance : j # i \/ h # g => app'[j][h] = app[j][h]
  BY <1>5, Zenon DEF TypeOK
<1>7. checkLogs(i, a.m)
  BY Zenon DEF CheckCmd
<1> HIDE DEF b
<1> QED
  BY <1>2, <1>4, <1>6, <1>7, Zenon

LEMMA AfterWriteApplied ==
    ASSUME TypeOK, NEW i \in Server, NEW g \in Instance, WriteApplied(i, g)
    PROVE  LET a == app[i][g] IN
           /\ \/ app'[i][g].pc = "snap" /\ app'[i][g].m = a.m /\ app'[i][g].err = a.err
              \/ app'[i][g].pc = (IF a.err THEN "fatal" ELSE "range") /\ app'[i][g].err = FALSE
           /\ a.m.index \in Nat
           /\ lastApplied' = [lastApplied EXCEPT ![i] = a.m.index]
           /\ \A j \in Server, h \in Instance : j # i \/ h # g => app'[j][h] = app[j][h]
<1> DEFINE a == app[i][g]
           b == [a EXCEPT !.pc = "snap"]
           c == Finish(a, a.err)
<1>1. a \in AppRec
  BY DEF TypeOK
<1>2. a.err \in BOOLEAN /\ a.m.index \in Nat
  BY <1>1 DEF AppRec
<1>3. b.pc = "snap" /\ b.m = a.m /\ b.err = a.err
  BY <1>1 DEF AppRec
<1>4. c.pc = (IF a.err THEN "fatal" ELSE "range") /\ c.err = FALSE
  BY <1>1, <1>2, FinishType, Zenon
<1> HIDE DEF b, c
<1>5. app' = [app EXCEPT ![i][g] = b] \/ app' = [app EXCEPT ![i][g] = c]
  BY Zenon DEF WriteApplied, b, c
<1>6. /\ app'[i][g] = b \/ app'[i][g] = c
      /\ \A j \in Server, h \in Instance : j # i \/ h # g => app'[j][h] = app[j][h]
  BY <1>5 DEF TypeOK
<1>7. lastApplied' = [lastApplied EXCEPT ![i] = a.m.index]
  BY Zenon DEF WriteApplied
<1> QED
  BY <1>2, <1>3, <1>4, <1>6, <1>7, Zenon

LEMMA AfterTakeSnap ==
    ASSUME TypeOK, NEW i \in Server, NEW g \in Instance, TakeSnap(i, g)
    PROVE  /\ app'[i][g].pc = (IF app[i][g].err THEN "fatal" ELSE "range") /\ app'[i][g].err = FALSE
           /\ \A j \in Server, h \in Instance : j # i \/ h # g => app'[j][h] = app[j][h]
<1> DEFINE a == app[i][g]
           c == Finish(a, a.err)
<1>1. a \in AppRec
  BY DEF TypeOK
<1>2. a.err \in BOOLEAN
  BY <1>1 DEF AppRec
<1>3. c.pc = (IF a.err THEN "fatal" ELSE "range") /\ c.err = FALSE
  BY <1>1, <1>2, FinishType, Zenon
<1> HIDE DEF c
<1>4. app' = [app EXCEPT ![i][g] = c]
  BY Zenon DEF TakeSnap, c
<1> QED
  BY <1>3, <1>4 DEF TypeOK

\* An error does not go away.
LEMMA ErrorStays ==
    ASSUME TypeOK, Instances, [Next]_vars, NoError'
    PROVE  NoError
<1>1. alarm' = "" => alarm = ""
  <2>1. CASE UNCHANGED vars
    BY <2>1, Zenon DEF vars
  <2>2. CASE Next
    <3>1. ASSUME NEW i \in Server, NEW g \in Instance, AppStep(i, g) \/ Fatal(i, g)
          PROVE  Running
      BY <3>1, Zenon DEF AppStep, applier, Fatal, BeginSnap, InstallSnap, ReceiveCmd, CheckCmd,
          WriteApplied, TakeSnap
    <3>2. ASSUME NEW i \in Server, crash1(i) \/ Reset(i)
          PROVE  Running
      BY <3>2, Zenon DEF crash1, Reset
    <3>3. ASSUME TestStep \/ Agree \/ MakeRaft
          PROVE  Running
      BY <3>3, Zenon DEF TestStep, Agree, MakeRaft, beginOne, startCmd, beginWait, nCommitted,
          one, wait, goOn
    <3>4. Running
      BY <2>2, <3>1, <3>2, <3>3, Zenon DEF Next, TestStep, AppStep
    <3> QED
      BY <3>4, Zenon DEF Running
  <2> QED
    BY <2>1, <2>2, Zenon
<1>2. \A j \in Server, h \in Instance : ~app'[j][h].err /\ app'[j][h].pc # "fatal"
  BY Zenon DEF NoError
<1>3. \A j \in Server, h \in Instance : app[j][h].err => app[j][h].pc \in {"write", "snap"}
  BY Zenon DEF Instances
<1>4. ASSUME NEW i \in Server, NEW g \in Instance, AppStep(i, g)
      PROVE  \A j \in Server, h \in Instance : ~app[j][h].err /\ app[j][h].pc # "fatal"
  <2>1. \A j \in Server, h \in Instance : j # i \/ h # g => app'[j][h] = app[j][h]
    BY <1>4, OtherAppliers, Zenon
  <2>2. ~app[i][g].err /\ app[i][g].pc # "fatal"
    <3>1. ASSUME app[i][g].pc \in {"range", "begin", "check"}
          PROVE  ~app[i][g].err /\ app[i][g].pc # "fatal"
      BY <1>3, <3>1
    <3>2. CASE WriteApplied(i, g)
      <4>1. app[i][g].pc = "write"
        BY <3>2, Zenon DEF WriteApplied
      <4> QED
        BY <1>2, <3>2, <4>1, AfterWriteApplied, Zenon
    <3>3. CASE TakeSnap(i, g)
      <4>1. app[i][g].pc = "snap"
        BY <3>3, Zenon DEF TakeSnap
      <4> QED
        BY <1>2, <3>3, <4>1, AfterTakeSnap, Zenon
    <3> QED
      BY <1>4, <3>1, <3>2, <3>3, Zenon DEF AppStep, applier, BeginSnap, InstallSnap, ReceiveCmd, CheckCmd
  <2> QED
    BY <1>2, <2>1, <2>2, Zenon
<1>5. CASE MakeRaft
  <2> DEFINE i == test.i
             g == made[i] + 1
             b == Applier(IF snapshot THEN "begin" ELSE "range")
  <2>1. i \in Server /\ rafts[i] = 0
    BY <1>5, Zenon DEF Instances, MakeRaft
  <2>2. g \in Instance /\ made[i] \in Nat
    BY <2>1, NextInstance, SizeAssumption DEF TypeOK, Instance
  <2>3. g > made[i]
    BY <2>2
  <2>4. app[i][g].pc = "none"
    BY <2>1, <2>2, <2>3, Zenon DEF Instances
  <2>5. app' = [app EXCEPT ![i][g] = b]
    BY <1>5, Zenon DEF MakeRaft
  <2> HIDE DEF i, g, b
  <2>6. \A j \in Server, h \in Instance : j # i \/ h # g => app'[j][h] = app[j][h]
    BY <2>1, <2>2, <2>5 DEF TypeOK
  <2>7. ~app[i][g].err
    BY <1>3, <2>1, <2>2, <2>4
  <2>8. \A j \in Server, h \in Instance : ~app[j][h].err /\ app[j][h].pc # "fatal"
    BY <1>2, <2>4, <2>6, <2>7
  <2> QED
    BY <1>1, <2>8, Zenon DEF NoError, Running
<1>6. CASE UNCHANGED app
  BY <1>1, <1>6, Zenon DEF NoError, Running
<1>7. CASE TestStep \/ UNCHANGED vars \/ Agree
  BY <1>6, <1>7, TestCalm, Zenon DEF Calm, vars, Agree
<1>8. ASSUME NEW i \in Server, crash1(i) \/ Reset(i) \/ \E g \in Instance : Fatal(i, g)
      PROVE  UNCHANGED app
  BY <1>8, Zenon DEF crash1, Reset, Fatal
<1>9. ASSUME NEW i \in Server, NEW g \in Instance, AppStep(i, g)
      PROVE  NoError
  BY <1>1, <1>4, <1>9, Zenon DEF NoError, Running
<1> QED
  BY <1>5, <1>6, <1>7, <1>8, <1>9, Zenon DEF Next, TestStep, AppStep

LEMMA MismatchStep ==
    ASSUME TypeOK, Saved, Instances, MismatchReported, [Next]_vars
    PROVE  MismatchReported'
<1> DEFINE Agree2 == \A i, j \in Server : \A k \in DOMAIN logs[i] \intersect DOMAIN logs[j] :
                        logs[i][k] = logs[j][k]
<1> SUFFICES ASSUME NoError', taken' = {}
             PROVE  Agree2'
  BY Zenon DEF MismatchReported
<1>1. taken = {}
  <2>1. ASSUME NEW i \in Server, NEW g \in Instance, TakeSnap(i, g)
        PROVE  FALSE
    BY <2>1, Zenon DEF TakeSnap
  <2>2. ASSUME NEW i \in Server, NEW g \in Instance, AppStep(i, g) \/ Fatal(i, g), ~TakeSnap(i, g)
        PROVE  taken' = taken
    BY <2>2, Zenon DEF AppStep, applier, Fatal, BeginSnap, InstallSnap, ReceiveCmd, CheckCmd,
        WriteApplied, raft
  <2>3. ASSUME NEW i \in Server, crash1(i) \/ Reset(i)
        PROVE  taken' = taken
    BY <2>3, Zenon DEF crash1, Reset, raft
  <2>4. ASSUME TestStep \/ Agree \/ MakeRaft \/ UNCHANGED vars
        PROVE  taken' = taken
    BY <2>4, TestCalm, Zenon DEF Agree, MakeRaft, Calm, vars, raft
  <2> QED
    BY <2>1, <2>2, <2>3, <2>4, Zenon DEF Next, TestStep, AppStep
<1>2. NoError
  BY ErrorStays, Zenon
<1>3. Agree2
  BY <1>1, <1>2, Zenon DEF MismatchReported
<1>4. \A j \in Server, h \in Instance : ~app'[j][h].err /\ app'[j][h].pc # "fatal"
  BY Zenon DEF NoError
<1>5. CASE UNCHANGED <<logs, applied>>
  BY <1>3, <1>5, Zenon
<1>6. ASSUME NEW i \in Server, NEW m \in [index : Nat, cmd : Value], checkLogs(i, m), ~Bad(i, m)
      PROVE  Agree2'
  <2>1. /\ DOMAIN logs'[i] = DOMAIN logs[i] \union {m.index}
        /\ logs'[i][m.index] = m.cmd
        /\ \A k \in DOMAIN logs[i] : k # m.index => logs'[i][k] = logs[i][k]
        /\ \A j \in Server : j # i => logs'[j] = logs[j]
    BY <1>6, PutIs, Zenon
  <2>2. \A j \in Server : m.index \in DOMAIN logs[j] => logs[j][m.index] = m.cmd
    BY <1>6, Zenon DEF Bad, Mismatch, Has
  <2>3. \A j \in Server : \A k \in DOMAIN logs'[j] :
            /\ k = m.index => logs'[j][k] = m.cmd
            /\ k # m.index => k \in DOMAIN logs[j] /\ logs'[j][k] = logs[j][k]
    BY <2>1, <2>2, Zenon
  <2>4. ASSUME NEW x \in Server, NEW y \in Server, NEW k \in DOMAIN logs'[x] \intersect DOMAIN logs'[y]
        PROVE  logs'[x][k] = logs'[y][k]
    <3>1. CASE k = m.index
      <4>1. logs'[x][k] = m.cmd /\ logs'[y][k] = m.cmd
        BY <2>3, <2>4, <3>1, Zenon
      <4> QED
        BY <4>1, Zenon
    <3>2. CASE k # m.index
      <4>1. /\ k \in DOMAIN logs[x] /\ logs'[x][k] = logs[x][k]
            /\ k \in DOMAIN logs[y] /\ logs'[y][k] = logs[y][k]
        BY <2>3, <2>4, <3>2, Zenon
      <4>2. logs[x][k] = logs[y][k]
        BY <1>3, <4>1
      <4> QED
        BY <4>1, <4>2, Zenon
    <3> QED
      BY <3>1, <3>2, Zenon
  <2> QED
    BY <2>4, Zenon
<1>7. ASSUME NEW i \in Server, NEW g \in Instance, applier(i, g)
      PROVE  Agree2'
  <2>1. PICK m \in Commands(i, g) :
            /\ m \in [index : Nat, cmd : Value] /\ checkLogs(i, m)
            /\ app'[i][g].pc = (IF Bad(i, m) THEN "fatal" ELSE "range")
    BY <1>7, AfterApplier, Zenon
  <2>2. ~Bad(i, m)
    BY <1>4, <2>1, Zenon
  <2> QED
    BY <1>6, <2>1, <2>2, Zenon
<1>8. ASSUME NEW i \in Server, NEW g \in Instance, CheckCmd(i, g)
      PROVE  Agree2'
  <2>1. app[i][g].m \in [index : Nat, cmd : Value] /\ checkLogs(i, app[i][g].m) /\ ~Bad(i, app[i][g].m)
    BY <1>4, <1>8, AfterCheckCmd, Zenon
  <2>2. PICK m \in [index : Nat, cmd : Value] : m = app[i][g].m
    BY <2>1, Zenon
  <2> QED
    BY <1>6, <2>1, <2>2, Zenon
<1>9. ASSUME NEW i \in Server, NEW g \in Instance, InstallSnap(i, g)
      PROVE  UNCHANGED <<logs, applied>>
  <2>1. \A m \in Snapshots(i, g) : FALSE
    BY <1>1, SnapshotMsg, Zenon
  <2> QED
    BY <1>9, <2>1, Zenon DEF InstallSnap
<1>10. ASSUME NEW i \in Server, Reset(i)
       PROVE  UNCHANGED <<logs, applied>>
  <2>1. made[i] + 1 \in Instance
    BY <1>10, NextInstance, Zenon DEF Reset
  <2>2. persister[i][made[i] + 1] = NoSnap
    BY <1>1, <2>1, Zenon DEF Saved
  <2> QED
    BY <1>10, <2>2, Zenon DEF Reset
<1> QED
  BY <1>5, <1>7, <1>8, <1>9, <1>10, LogsKept, Zenon

----------------------------------------------------------------------------
(* A correct Raft *)

\* The logs are the agreed sequence, as far as they go.
LEMMA LogsAgreed ==
    ASSUME LogsApplied, AppliedAgreed, NEW i \in Server, NEW k \in DOMAIN logs[i], k # 0
    PROVE  k \in 1 .. Len(agreed) /\ logs[i][k] = agreed[k]
<1>1. <<i, k, logs[i][k]>> \in applied
  BY Zenon DEF LogsApplied
<1> QED
  BY <1>1 DEF AppliedAgreed

\* A correct Raft's next command is no mismatch and, behind its predecessor, no error.
LEMMA NotBad ==
    ASSUME TypeOK, LogsApplied, AppliedAgreed, NEW i \in Server,
           NEW m \in [index : Nat, cmd : Value], m.index > 0, m.cmd = agreed[m.index],
           m.index > 1 => Has(i, m.index - 1)
    PROVE  Bad(i, m) = FALSE
<1>1. ASSUME NEW j \in Server, Has(j, m.index)
      PROVE  logs[j][m.index] = m.cmd
  <2>1. m.index \in DOMAIN logs[j] /\ m.index # 0
    BY <1>1 DEF Has
  <2> QED
    BY <2>1, LogsAgreed, Zenon
<1> QED
  BY <1>1, Zenon DEF Bad, Mismatch

\* Tables that stay as they are stay in step.
LEMMA InStepKept ==
    ASSUME NEW j \in Server, InStep(j), agreed' = agreed, fresh'[j] = fresh[j],
           app'[j][fresh[j]] = app[j][fresh[j]], delivered'[j][fresh[j]] = delivered[j][fresh[j]],
           lastApplied'[j] = lastApplied[j], logs'[j] = logs[j],
           app[j][fresh[j]].pc = "none" => persister'[j][fresh[j]] = persister[j][fresh[j]]
    PROVE  InStep(j)'
<1>1. PICK g : g = fresh[j]
  OBVIOUS
<1>2. PICK a : a = app[j][g]
  OBVIOUS
<1>3. fresh'[j] = g /\ app'[j][g] = a
  BY <1>1, <1>2, Zenon
<1>4. /\ delivered'[j][g] = delivered[j][g]
      /\ a.pc = "none" => persister'[j][g] = persister[j][g]
  BY <1>1, <1>2, Zenon
<1>5. /\ \A k \in 1 .. lastApplied[j] : Has(j, k)
      /\ a.pc = "none" => lastApplied[j] = persister[j][g].index
      /\ a.pc \in {"begin", "range"} => delivered[j][g] = lastApplied[j]
      /\ a.pc \in {"check", "write"} =>
            delivered[j][g] = lastApplied[j] + 1 /\ a.m.index = lastApplied[j] + 1
      /\ a.pc = "check" => a.m.cmd = agreed[lastApplied[j] + 1]
      /\ a.pc = "write" => Has(j, lastApplied[j] + 1)
      /\ a.pc = "snap" => delivered[j][g] = lastApplied[j] /\ a.m.index = lastApplied[j]
  BY <1>1, <1>2, Zenon DEF InStep
<1>6. \A k : Has(j, k)' <=> Has(j, k)
  BY Zenon DEF Has
<1> QED
  BY <1>3, <1>4, <1>5, <1>6, Zenon DEF InStep

\* Good lasts only as long as the appliers that step are those of newest instances.
LEMMA GoodBefore ==
    ASSUME TypeOK, [Next]_vars, Good'
    PROVE  Good /\ correct' = correct /\ snapshot' = snapshot
<1>0. stale \in BOOLEAN
  BY Zenon DEF TypeOK
<1>1. ASSUME NEW i \in Server, NEW g \in Instance, AppStep(i, g) \/ Fatal(i, g)
      PROVE  UNCHANGED <<snapshot, correct>> /\ (stale => stale')
  BY <1>0, <1>1, Zenon DEF AppStep, applier, Fatal, BeginSnap, InstallSnap, ReceiveCmd, CheckCmd,
        WriteApplied, TakeSnap, Touch
<1>2. ASSUME NEW i \in Server, crash1(i) \/ Reset(i)
      PROVE  UNCHANGED <<snapshot, correct>> /\ (stale => stale')
  BY <1>0, <1>2 DEF crash1, Reset
<1>3. ASSUME TestStep \/ Agree \/ MakeRaft \/ UNCHANGED vars
      PROVE  UNCHANGED <<snapshot, correct>> /\ (stale => stale')
  BY <1>0, <1>3, TestCalm DEF Agree, MakeRaft, Calm, vars
<1>4. UNCHANGED <<snapshot, correct>> /\ (stale => stale')
  BY <1>1, <1>2, <1>3, Zenon DEF Next, TestStep, AppStep
<1> QED
  BY <1>4, Zenon DEF Good

LEMMA OfNewest ==
    ASSUME TypeOK, Instances, NEW i \in Server, NEW g \in Instance, AppStep(i, g),
           Touch(i, g), snapshot, Good'
    PROVE  g = fresh[i] /\ g = made[i]
<1>1. snapshot' = snapshot
  BY AppOnly, Zenon
<1>2. ~stale'
  BY <1>1, Zenon DEF Good
<1>3. ~(g < fresh[i])
  BY <1>2, Zenon DEF Touch
<1>4. ~(g > made[i])
  BY OtherAppliers, Zenon DEF Instances
<1>5. fresh[i] = made[i] \/ fresh[i] = made[i] + 1
  BY Zenon DEF Instances, Newest
<1>6. g \in Nat /\ made[i] \in Nat
  BY SizeAssumption DEF TypeOK, Instance
<1> QED
  BY <1>3, <1>4, <1>5, <1>6

\* Sent by a correct Raft.
LEMMA SentIs ==
    ASSUME TypeOK, correct, NEW i \in Server, NEW g \in Instance, NEW m, Sent(i, g, m)
    PROVE  /\ delivered'[i][g] = m.index
           /\ \A j \in Server, h \in Instance : j # i \/ h # g => delivered'[j][h] = delivered[j][h]
BY DEF TypeOK, Sent

LEMMA BoundedSent ==
    ASSUME TypeOK, correct, Bounded, NEW i \in Server, NEW g \in Instance, NEW m, Sent(i, g, m),
           m.index <= Len(agreed), agreed' = agreed
    PROVE  Bounded'
<1>1. ASSUME NEW j \in Server, NEW h \in Instance
      PROVE  delivered'[j][h] <= Len(agreed)
  <2>1. CASE j = i /\ h = g
    BY <2>1, SentIs, Zenon
  <2>2. CASE j # i \/ h # g
    <3>1. delivered'[j][h] = delivered[j][h]
      BY <2>2, SentIs
    <3> QED
      BY <3>1, Zenon DEF Bounded
  <2> QED
    BY <2>1, <2>2, Zenon
<1> QED
  BY <1>1, Zenon DEF Bounded

LEMMA NoAlarmsApp ==
    ASSUME TypeOK, Instances, NoAlarms, NEW i \in Server, NEW g \in Instance, AppStep(i, g),
           ~app'[i][g].err, app'[i][g].pc # "fatal"
    PROVE  NoAlarms'
<1>1. alarm' = alarm
  BY AppOnly, Zenon
<1>2. \A j \in Server, h \in Instance : j # i \/ h # g => app'[j][h] = app[j][h]
  BY OtherAppliers, Zenon
<1>3. ASSUME NEW j \in Server, NEW h \in Instance
      PROVE  ~app'[j][h].err /\ app'[j][h].pc # "fatal"
  <2>1. CASE j = i /\ h = g
    BY <2>1, Zenon
  <2>2. CASE j # i \/ h # g
    BY <1>2, <2>2, Zenon DEF NoAlarms
  <2> QED
    BY <2>1, <2>2, Zenon
<1> QED
  BY <1>1, <1>3, Zenon DEF NoAlarms

LEMMA AppliedAgreedPut ==
    ASSUME TypeOK, AppliedAgreed, NEW i \in Server, NEW m \in [index : Nat, cmd : Value],
           checkLogs(i, m), m.index \in 1 .. Len(agreed), m.cmd = agreed[m.index], agreed' = agreed
    PROVE  AppliedAgreed'
<1>1. applied' = applied \union {<<i, m.index, m.cmd>>}
  BY PutIs, Zenon
<1>2. LET t == <<i, m.index, m.cmd>> IN t[2] = m.index /\ t[3] = m.cmd
  OBVIOUS
<1> QED
  BY <1>1, <1>2, Zenon DEF AppliedAgreed

LEMMA AppliedAgreedIngest ==
    ASSUME TypeOK, AppliedAgreed, NEW i \in Server, NEW s \in taken, Complete(s), ingestSnap(i, s),
           agreed' = agreed
    PROVE  AppliedAgreed'
<1>1. \A t \in applied' : t \in applied \/ \E k \in DOMAIN s.xlog : t = <<i, k, s.xlog[k]>>
  BY IngestIs, Zenon
<1>2. DOMAIN s.xlog = 0 .. s.index /\ s.index \in Nat
  BY Zenon DEF TypeOK
<1>3. Len(agreed) \in Nat
  BY DEF TypeOK
<1>4. ASSUME NEW k \in DOMAIN s.xlog, k # 0
      PROVE  k \in 1 .. Len(agreed) /\ s.xlog[k] = agreed[k]
  BY <1>2, <1>3, <1>4 DEF Complete
<1>5. ASSUME NEW t \in applied', t[2] # 0
      PROVE  t[2] \in 1 .. Len(agreed) /\ t[3] = agreed[t[2]]
  <2>1. CASE t \in applied
    BY <1>5, <2>1, Zenon DEF AppliedAgreed
  <2>2. ASSUME NEW k \in DOMAIN s.xlog, t = <<i, k, s.xlog[k]>>
        PROVE  t[2] \in 1 .. Len(agreed) /\ t[3] = agreed[t[2]]
    <3>1. t[2] = k /\ t[3] = s.xlog[k]
      BY <2>2
    <3> QED
      BY <1>4, <1>5, <3>1, Zenon
  <2> QED
    BY <1>1, <2>1, <2>2, Zenon
<1> QED
  BY <1>5, Zenon DEF AppliedAgreed

LEMMA CompleteKept ==
    ASSUME NEW s, Complete(s), agreed' = agreed
    PROVE  Complete(s)'
BY Zenon DEF Complete

\* The messages that applier reads, without snapshots.
LEMMA GoodApplier ==
    ASSUME TypeOK, Instances, LogsApplied, AllGood, Good, NEW i \in Server, NEW g \in Instance,
           applier(i, g)
    PROVE  AllGood'
<1>1. PICK m \in Commands(i, g) :
        /\ m \in [index : Nat, cmd : Value] /\ checkLogs(i, m) /\ Sent(i, g, m)
        /\ app'[i][g].pc = (IF Bad(i, m) THEN "fatal" ELSE "range")
        /\ app'[i][g].err = FALSE
  BY AfterApplier, Zenon
<1>2. correct /\ ~snapshot /\ snapshot' = snapshot /\ agreed' = agreed /\ taken' = taken /\ AppStep(i, g)
  BY Zenon DEF Good, applier, AppStep
<1>3. /\ m.index > 0 /\ m.index = delivered[i][g] + 1 /\ m.index \in 1 .. Len(agreed)
      /\ m.cmd = agreed[m.index]
  BY <1>2, CommandMsg, Zenon
<1>4. delivered[i][g] \in Nat
  BY DEF TypeOK
<1>5. \A k \in 1 .. delivered[i][g] : Has(i, k)
  BY <1>2, Zenon DEF AllGood
<1>6. m.index > 1 => Has(i, m.index - 1)
  BY <1>3, <1>4, <1>5
<1>7. Bad(i, m) = FALSE
  BY <1>1, <1>3, <1>6, NotBad, Zenon DEF AllGood
<1>8. NoAlarms'
  <2>1. app'[i][g].pc = "range"
    BY <1>1, <1>7, Zenon
  <2>2. app'[i][g].pc # "fatal"
    BY <2>1
  <2> QED
    BY <1>1, <1>2, <2>2, NoAlarmsApp, Zenon DEF AllGood
<1>9. Bounded'
  <2>1. m.index <= Len(agreed)
    BY <1>3 DEF TypeOK
  <2> QED
    BY <1>1, <1>2, <2>1, BoundedSent, Zenon DEF AllGood
<1>10. AppliedAgreed'
  BY <1>1, <1>2, <1>3, AppliedAgreedPut, Zenon DEF AllGood
<1>11. \A s \in taken' : Complete(s)'
  BY <1>2, CompleteKept, Zenon DEF AllGood
<1>12. ASSUME NEW j \in Server, NEW h \in Instance, NEW k \in 1 .. delivered'[j][h]
       PROVE  k \in DOMAIN logs'[j]
  <2>1. /\ DOMAIN logs'[i] = DOMAIN logs[i] \union {m.index}
        /\ \A x \in Server : x # i => logs'[x] = logs[x]
    BY <1>1, PutIs, Zenon
  <2>2. CASE j = i /\ h = g
    <3>1. delivered'[j][h] = m.index
      BY <1>1, <1>2, <2>2, SentIs, Zenon
    <3>2. k = m.index \/ k \in 1 .. delivered[i][g]
      BY <1>3, <1>4, <3>1
    <3> QED
      BY <1>5, <2>1, <2>2, <3>2, Zenon DEF Has
  <2>3. CASE j # i \/ h # g
    <3>1. delivered'[j][h] = delivered[j][h]
      <4>1. \A x \in Server, y \in Instance : x # i \/ y # g => delivered'[x][y] = delivered[x][y]
        BY <1>1, <1>2, SentIs, Zenon
      <4> QED
        BY <2>3, <4>1
    <3>2. k \in 1 .. delivered[j][h]
      BY <3>1
    <3>3. k \in DOMAIN logs[j]
      BY <1>2, <3>2, Zenon DEF AllGood, Has
    <3> QED
      BY <2>1, <3>3, Zenon
  <2> QED
    BY <2>2, <2>3, Zenon
<1> QED
  BY <1>2, <1>8, <1>9, <1>10, <1>11, <1>12, Zenon DEF AllGood, Has

\* The applier of one server leaves the tables of the others alone.
LEMMA OtherServers ==
    ASSUME TypeOK, NEW i \in Server, NEW g \in Instance, AppStep(i, g), NEW j \in Server, j # i
    PROVE  /\ delivered'[j] = delivered[j] /\ lastApplied'[j] = lastApplied[j]
           /\ logs'[j] = logs[j] /\ persister'[j] = persister[j]
<1>1. ASSUME NEW m, Sent(i, g, m)
      PROVE  delivered'[j] = delivered[j]
  BY <1>1 DEF Sent, TypeOK
<1>2. ASSUME NEW m, checkLogs(i, m)
      PROVE  logs'[j] = logs[j]
  BY <1>2 DEF checkLogs, TypeOK
<1>3. ASSUME NEW s, ingestSnap(i, s)
      PROVE  logs'[j] = logs[j] /\ lastApplied'[j] = lastApplied[j]
  BY <1>3 DEF ingestSnap, TypeOK
<1>4. CASE applier(i, g)
  <2>1. PICK m : Sent(i, g, m) /\ checkLogs(i, m)
    BY <1>4, Zenon DEF applier
  <2> QED
    BY <1>1, <1>2, <1>4, <2>1, Zenon DEF applier
<1>5. CASE BeginSnap(i, g)
  BY <1>5, Zenon DEF BeginSnap, raft, cfg
<1>6. CASE InstallSnap(i, g)
  <2>1. PICK m : Sent(i, g, m) /\ (ingestSnap(i, m.snap) \/ UNCHANGED <<logs, applied, lastApplied>>)
    BY <1>6, Zenon DEF InstallSnap
  <2>2. CASE ingestSnap(i, m.snap)
    BY <1>1, <1>3, <1>6, <2>1, <2>2, Zenon DEF InstallSnap
  <2>3. CASE UNCHANGED <<logs, applied, lastApplied>>
    BY <1>1, <1>6, <2>1, <2>3, Zenon DEF InstallSnap
  <2> QED
    BY <2>1, <2>2, <2>3, Zenon
<1>7. CASE ReceiveCmd(i, g)
  <2>1. PICK m : Sent(i, g, m)
    BY <1>7, Zenon DEF ReceiveCmd
  <2> QED
    BY <1>1, <1>7, <2>1, Zenon DEF ReceiveCmd, cfg
<1>8. CASE CheckCmd(i, g)
  <2>1. PICK m : m = app[i][g].m
    OBVIOUS
  <2>2. checkLogs(i, m)
    BY <1>8, <2>1, Zenon DEF CheckCmd
  <2> QED
    BY <1>2, <1>8, <2>2, Zenon DEF CheckCmd, raft
<1>9. CASE WriteApplied(i, g)
  <2>1. lastApplied'[j] = lastApplied[j]
    BY <1>9 DEF WriteApplied, TypeOK
  <2> QED
    BY <1>9, <2>1, Zenon DEF WriteApplied, raft
<1>10. CASE TakeSnap(i, g)
  <2>1. PICK x, s : x = app[i][g].rf /\ s = SnapOf(i, app[i][g].m.index)
    OBVIOUS
  <2>2. persister' = persister \/ persister' = [persister EXCEPT ![i][x] = s]
    BY <1>10, <2>1, Zenon DEF TakeSnap
  <2>3. persister'[j] = persister[j]
    BY <2>2 DEF TypeOK
  <2> QED
    BY <1>10, <2>3, Zenon DEF TakeSnap, cfg
<1> QED
  BY <1>4, <1>5, <1>6, <1>7, <1>8, <1>9, <1>10, Zenon DEF AppStep

\* So only the server whose applier made the step needs a look.
LEMMA GoodAppStep ==
    ASSUME TypeOK, Instances, AllGood, NEW i \in Server, NEW g \in Instance, AppStep(i, g), snapshot,
           NoAlarms', Bounded', AppliedAgreed', \A s \in taken' : Complete(s)', InStep(i)'
    PROVE  AllGood'
<1>1. snapshot' /\ agreed' = agreed /\ fresh' = fresh
  BY AppOnly, Zenon
<1>2. ASSUME NEW j \in Server, j # i
      PROVE  InStep(j)'
  <2>1. InStep(j)
    BY Zenon DEF AllGood
  <2>2. fresh[j] \in Instance
    BY DEF TypeOK
  <2>3. app'[j][fresh[j]] = app[j][fresh[j]]
    BY <1>2, <2>2, OtherAppliers, Zenon
  <2>4. /\ delivered'[j] = delivered[j] /\ lastApplied'[j] = lastApplied[j]
        /\ logs'[j] = logs[j] /\ persister'[j] = persister[j]
    BY <1>2, OtherServers, Zenon
  <2>5. /\ delivered'[j][fresh[j]] = delivered[j][fresh[j]] /\ fresh'[j] = fresh[j]
        /\ persister'[j][fresh[j]] = persister[j][fresh[j]]
    BY <1>1, <2>4, Zenon
  <2> QED
    BY <1>1, <2>1, <2>3, <2>4, <2>5, InStepKept, Zenon
<1>3. \A j \in Server : InStep(j)'
  BY <1>2, Zenon
<1> QED
  BY <1>1, <1>3, Zenon DEF AllGood

\* What InStep says of the newest instance.
LEMMA InStepIs ==
    ASSUME TypeOK, NEW i \in Server, NEW g, g = fresh[i], InStep(i)
    PROVE  /\ \A k \in 1 .. lastApplied[i] : Has(i, k)
           /\ app[i][g].pc = "none" => lastApplied[i] = persister[i][g].index
           /\ app[i][g].pc \in {"begin", "range"} => delivered[i][g] = lastApplied[i]
           /\ app[i][g].pc \in {"check", "write"} =>
                delivered[i][g] = lastApplied[i] + 1 /\ app[i][g].m.index = lastApplied[i] + 1
           /\ app[i][g].pc = "check" => app[i][g].m.cmd = agreed[lastApplied[i] + 1]
           /\ app[i][g].pc = "write" => Has(i, lastApplied[i] + 1)
           /\ app[i][g].pc = "snap" => delivered[i][g] = lastApplied[i] /\ app[i][g].m.index = lastApplied[i]
           /\ lastApplied[i] \in Nat
<1>1. lastApplied[i] \in Nat
  BY DEF TypeOK
<1> QED
  BY <1>1, Zenon DEF InStep

LEMMA GoodBeginSnap ==
    ASSUME TypeOK, Instances, AllGood, Good, NEW i \in Server, NEW g \in Instance, BeginSnap(i, g)
    PROVE  AllGood'
<1>1. AppStep(i, g) /\ app[i][g].pc = "begin"
  BY Zenon DEF AppStep, BeginSnap
<1>2. snapshot
  <2>1. ~snapshot => app[i][g].pc \in {"none", "range", "fatal"}
    BY Zenon DEF Instances
  <2> QED
    BY <1>1, <2>1 DEF TypeOK
<1>3. /\ agreed' = agreed /\ taken' = taken /\ delivered' = delivered /\ logs' = logs
      /\ applied' = applied /\ lastApplied' = lastApplied /\ persister' = persister /\ fresh' = fresh
  BY Zenon DEF BeginSnap, raft, cfg
<1>4. app'[i][g].pc \in {"returned", "range"} /\ app'[i][g].err = app[i][g].err
  <2>1. app[i][g] \in AppRec
    BY DEF TypeOK
  <2> QED
    BY <2>1 DEF BeginSnap, TypeOK, AppRec
<1>5. NoAlarms'
  <2>1. ~app'[i][g].err
    BY <1>4, Zenon DEF AllGood, NoAlarms
  <2>2. app'[i][g].pc # "fatal"
    BY <1>4
  <2> QED
    BY <1>1, <2>1, <2>2, NoAlarmsApp, Zenon DEF AllGood
<1>6. Bounded' /\ AppliedAgreed' /\ \A s \in taken' : Complete(s)'
  BY <1>3, Zenon DEF AllGood, Bounded, AppliedAgreed, Complete
<1>7. InStep(i)
  BY <1>2, Zenon DEF AllGood
<1>8. InStep(i)'
  <2>1. CASE g # fresh[i]
    <3>1. fresh[i] \in Instance
      BY DEF TypeOK
    <3>2. app'[i][fresh[i]] = app[i][fresh[i]]
      BY <1>1, <2>1, <3>1, OtherAppliers, Zenon
    <3> QED
      BY <1>3, <1>7, <3>2, InStepKept, Zenon
  <2>2. CASE g = fresh[i]
    <3>1. /\ \A k \in 1 .. lastApplied[i] : Has(i, k)
          /\ delivered[i][g] = lastApplied[i]
      BY <1>1, <1>7, <2>2, InStepIs, Zenon
    <3>2. app'[i][g].pc \notin {"none", "begin", "check", "write", "snap"}
      BY <1>4
    <3>3. fresh'[i] = g
      BY <1>3, <2>2, Zenon
    <3> QED
      BY <1>3, <3>1, <3>2, <3>3, Zenon DEF InStep, Has
  <2> QED
    BY <2>1, <2>2, Zenon
<1> QED
  BY <1>1, <1>2, <1>5, <1>6, <1>8, GoodAppStep, Zenon

LEMMA GoodInstallSnap ==
    ASSUME TypeOK, Instances, AllGood, Good, NEW i \in Server, NEW g \in Instance, InstallSnap(i, g), Good'
    PROVE  AllGood'
<1>1. AppStep(i, g) /\ snapshot /\ app[i][g].pc = "range" /\ correct /\ Touch(i, g)
  BY Zenon DEF AppStep, InstallSnap, Good
<1>2. g = fresh[i]
  BY <1>1, OfNewest, Zenon
<1>3. PICK m \in Snapshots(i, g) :
        /\ Sent(i, g, m)
        /\ IF m.index = m.snap.index
           THEN ingestSnap(i, m.snap) /\ UNCHANGED app
           ELSE app' = [app EXCEPT ![i][g] = Finish(@, TRUE)] /\ UNCHANGED <<logs, applied, lastApplied>>
  BY Zenon DEF InstallSnap
<1>4. m.snap \in taken /\ m.index = m.snap.index
  BY <1>1, SnapshotMsg, Zenon
<1>5. PICK s \in taken : s = m.snap
  BY <1>4, Zenon
<1>6. ingestSnap(i, s) /\ app' = app /\ Sent(i, g, m) /\ m.index = s.index
  BY <1>3, <1>4, <1>5, Zenon
<1>7. /\ agreed' = agreed /\ taken' = taken /\ fresh' = fresh
  BY Zenon DEF InstallSnap
<1>8. Complete(s)
  BY Zenon DEF AllGood
<1>9. NoAlarms'
  <2>1. ~app'[i][g].err /\ app'[i][g].pc # "fatal"
    BY <1>6, Zenon DEF AllGood, NoAlarms
  <2> QED
    BY <1>1, <2>1, NoAlarmsApp, Zenon DEF AllGood
<1>10. Bounded'
  <2>1. m.index <= Len(agreed)
    BY <1>6, <1>8, Zenon DEF Complete
  <2> QED
    BY <1>1, <1>6, <1>7, <2>1, BoundedSent, Zenon DEF AllGood
<1>11. AppliedAgreed'
  BY <1>6, <1>7, <1>8, AppliedAgreedIngest, Zenon DEF AllGood
<1>12. \A t \in taken' : Complete(t)'
  BY <1>7, CompleteKept, Zenon DEF AllGood
<1>13. InStep(i)'
  <2>1. delivered'[i][g] = s.index
    BY <1>1, <1>6, SentIs, Zenon
  <2>2. logs'[i] = s.xlog /\ lastApplied' = [lastApplied EXCEPT ![i] = s.index]
    BY <1>6, IngestIs, Zenon
  <2>3. lastApplied'[i] = s.index
    BY <2>2 DEF TypeOK
  <2>4. DOMAIN s.xlog = 0 .. s.index /\ s.index \in Nat
    BY Zenon DEF TypeOK
  <2>5. \A k \in 1 .. s.index : k \in DOMAIN logs'[i]
    BY <2>2, <2>4
  <2>6. app'[i][g].pc \notin {"none", "check", "write", "snap"}
    BY <1>1, <1>6
  <2>7. fresh'[i] = g
    BY <1>2, <1>7, Zenon
  <2> QED
    BY <2>1, <2>3, <2>5, <2>6, <2>7, Zenon DEF InStep, Has
<1> QED
  BY <1>1, <1>9, <1>10, <1>11, <1>12, <1>13, GoodAppStep, Zenon

LEMMA GoodReceiveCmd ==
    ASSUME TypeOK, Instances, AllGood, Good, NEW i \in Server, NEW g \in Instance, ReceiveCmd(i, g), Good'
    PROVE  AllGood'
<1>1. AppStep(i, g) /\ snapshot /\ app[i][g].pc = "range" /\ correct /\ Touch(i, g)
  BY Zenon DEF AppStep, ReceiveCmd, Good
<1>2. g = fresh[i]
  BY <1>1, OfNewest, Zenon
<1>3. InStep(i)
  BY <1>1, Zenon DEF AllGood
<1>4. /\ \A k \in 1 .. lastApplied[i] : Has(i, k)
      /\ delivered[i][g] = lastApplied[i] /\ lastApplied[i] \in Nat
  BY <1>1, <1>2, <1>3, InStepIs, Zenon
<1> DEFINE err(m) == m.index # lastApplied[i] + 1
           pc(m) == IF err(m) THEN "write" ELSE "check"
<1>5. PICK m \in Commands(i, g) :
        /\ Sent(i, g, m)
        /\ app' = [app EXCEPT ![i][g].pc = pc(m), ![i][g].m = m, ![i][g].err = err(m)]
  BY Zenon DEF ReceiveCmd
<1>6. m.index = lastApplied[i] + 1 /\ m.index \in 1 .. Len(agreed) /\ m.cmd = agreed[m.index]
  <2>1. /\ m.index = delivered[i][g] + 1 /\ m.index \in 1 .. Len(agreed)
        /\ m.cmd = agreed[m.index]
    BY <1>1, CommandMsg, Zenon
  <2> QED
    BY <1>4, <2>1
<1>7. err(m) = FALSE /\ pc(m) = "check"
  BY <1>6, Zenon
<1>8. app' = [app EXCEPT ![i][g].pc = "check", ![i][g].m = m, ![i][g].err = FALSE]
  BY <1>5, <1>7, Zenon
<1>9. app'[i][g].pc = "check" /\ app'[i][g].m = m /\ app'[i][g].err = FALSE
  <2>1. app[i][g] \in AppRec
    BY DEF TypeOK
  <2> QED
    BY <1>8, <2>1 DEF TypeOK, AppRec
<1>10. /\ agreed' = agreed /\ taken' = taken /\ fresh' = fresh /\ logs' = logs /\ applied' = applied
       /\ lastApplied' = lastApplied
  BY Zenon DEF ReceiveCmd, cfg
<1>11. NoAlarms'
  <2>1. ~app'[i][g].err /\ app'[i][g].pc # "fatal"
    BY <1>9
  <2> QED
    BY <1>1, <2>1, NoAlarmsApp, Zenon DEF AllGood
<1>12. Bounded'
  <2>1. m.index <= Len(agreed)
    BY <1>6 DEF TypeOK
  <2> QED
    BY <1>1, <1>5, <1>10, <2>1, BoundedSent, Zenon DEF AllGood
<1>13. AppliedAgreed' /\ \A s \in taken' : Complete(s)'
  BY <1>10, Zenon DEF AllGood, AppliedAgreed, Complete
<1>14. InStep(i)'
  <2>1. delivered'[i][g] = m.index
    BY <1>1, <1>5, SentIs, Zenon
  <2>2. app'[i][g].pc \notin {"none", "begin", "range", "write", "snap"}
    BY <1>9
  <2>3. fresh'[i] = g
    BY <1>2, <1>10, Zenon
  <2>4. m.cmd = agreed[lastApplied[i] + 1]
    BY <1>6, Zenon
  <2> QED
    BY <1>4, <1>6, <1>9, <1>10, <2>1, <2>2, <2>3, <2>4, Zenon DEF InStep, Has
<1> QED
  BY <1>1, <1>11, <1>12, <1>13, <1>14, GoodAppStep, Zenon

LEMMA GoodCheckCmd ==
    ASSUME TypeOK, Instances, LogsApplied, AllGood, Good, NEW i \in Server, NEW g \in Instance,
           CheckCmd(i, g), Good'
    PROVE  AllGood'
<1>1. AppStep(i, g) /\ app[i][g].pc = "check" /\ correct /\ Touch(i, g)
  BY Zenon DEF AppStep, CheckCmd, Good
<1>2. snapshot
  <2>1. ~snapshot => app[i][g].pc \in {"none", "range", "fatal"}
    BY Zenon DEF Instances
  <2> QED
    BY <1>1, <2>1 DEF TypeOK
<1>3. g = fresh[i]
  BY <1>1, <1>2, OfNewest, Zenon
<1>4. InStep(i)
  BY <1>2, Zenon DEF AllGood
<1>5. PICK m \in [index : Nat, cmd : Value] : m = app[i][g].m
  BY AfterCheckCmd, Zenon
<1>6. /\ checkLogs(i, m)
      /\ app'[i][g].pc = "write" /\ app'[i][g].m = m /\ app'[i][g].err = Bad(i, m)
  BY <1>5, AfterCheckCmd, Zenon
<1>7. /\ \A k \in 1 .. lastApplied[i] : Has(i, k)
      /\ delivered[i][g] = lastApplied[i] + 1 /\ m.index = lastApplied[i] + 1
      /\ m.cmd = agreed[lastApplied[i] + 1]
      /\ lastApplied[i] \in Nat
  BY <1>1, <1>3, <1>4, <1>5, InStepIs, Zenon
<1>8. delivered[i][g] <= Len(agreed)
  BY Zenon DEF AllGood, Bounded
<1>9. m.index \in 1 .. Len(agreed) /\ m.cmd = agreed[m.index]
  BY <1>7, <1>8 DEF TypeOK
<1>10. Bad(i, m) = FALSE
  <2>1. m.index > 0 /\ (m.index > 1 => Has(i, m.index - 1))
    BY <1>7
  <2> QED
    BY <1>9, <2>1, NotBad, Zenon DEF AllGood
<1>11. /\ agreed' = agreed /\ taken' = taken /\ fresh' = fresh /\ delivered' = delivered
       /\ lastApplied' = lastApplied
  BY Zenon DEF CheckCmd, raft
<1>12. NoAlarms'
  <2>1. ~app'[i][g].err /\ app'[i][g].pc # "fatal"
    BY <1>6, <1>10
  <2> QED
    BY <1>1, <2>1, NoAlarmsApp, Zenon DEF AllGood
<1>13. Bounded' /\ \A s \in taken' : Complete(s)'
  BY <1>11, Zenon DEF AllGood, Bounded, Complete
<1>14. AppliedAgreed'
  BY <1>6, <1>9, <1>11, AppliedAgreedPut, Zenon DEF AllGood
<1>15. InStep(i)'
  <2>1. DOMAIN logs'[i] = DOMAIN logs[i] \union {m.index}
    BY <1>6, PutIs, Zenon
  <2>2. \A k \in 1 .. lastApplied[i] : k \in DOMAIN logs'[i]
    BY <1>7, <2>1, Zenon DEF Has
  <2>3. lastApplied[i] + 1 \in DOMAIN logs'[i]
    BY <1>7, <2>1, Zenon
  <2>4. app'[i][g].pc \notin {"none", "begin", "range", "check", "snap"}
    BY <1>6
  <2>5. fresh'[i] = g
    BY <1>3, <1>11, Zenon
  <2> QED
    BY <1>6, <1>7, <1>11, <2>2, <2>3, <2>4, <2>5, Zenon DEF InStep, Has
<1> QED
  BY <1>1, <1>2, <1>12, <1>13, <1>14, <1>15, GoodAppStep, Zenon

LEMMA GoodWriteApplied ==
    ASSUME TypeOK, Instances, AllGood, Good, NEW i \in Server, NEW g \in Instance,
           WriteApplied(i, g), Good'
    PROVE  AllGood'
<1>1. AppStep(i, g) /\ app[i][g].pc = "write" /\ Touch(i, g)
  BY Zenon DEF AppStep, WriteApplied
<1>2. snapshot
  <2>1. ~snapshot => app[i][g].pc \in {"none", "range", "fatal"}
    BY Zenon DEF Instances
  <2> QED
    BY <1>1, <2>1 DEF TypeOK
<1>3. g = fresh[i]
  BY <1>1, <1>2, OfNewest, Zenon
<1>4. InStep(i)
  BY <1>2, Zenon DEF AllGood
<1>5. /\ \A k \in 1 .. lastApplied[i] : Has(i, k)
      /\ delivered[i][g] = lastApplied[i] + 1 /\ app[i][g].m.index = lastApplied[i] + 1
      /\ Has(i, lastApplied[i] + 1)
      /\ lastApplied[i] \in Nat
  BY <1>1, <1>3, <1>4, InStepIs, Zenon
<1>6. ~app[i][g].err
  BY Zenon DEF AllGood, NoAlarms
<1>7. /\ \/ app'[i][g].pc = "snap" /\ app'[i][g].m = app[i][g].m /\ app'[i][g].err = app[i][g].err
         \/ app'[i][g].pc = "range" /\ app'[i][g].err = FALSE
      /\ lastApplied' = [lastApplied EXCEPT ![i] = app[i][g].m.index]
  BY <1>6, AfterWriteApplied, Zenon
<1>8. lastApplied'[i] = app[i][g].m.index
  BY <1>7 DEF TypeOK
<1>9. /\ agreed' = agreed /\ taken' = taken /\ fresh' = fresh /\ delivered' = delivered
      /\ logs' = logs /\ applied' = applied
  BY Zenon DEF WriteApplied, raft
<1>10. NoAlarms'
  <2>1. ~app'[i][g].err /\ app'[i][g].pc # "fatal"
    BY <1>6, <1>7
  <2> QED
    BY <1>1, <2>1, NoAlarmsApp, Zenon DEF AllGood
<1>11. Bounded' /\ AppliedAgreed' /\ \A s \in taken' : Complete(s)'
  BY <1>9, Zenon DEF AllGood, Bounded, AppliedAgreed, Complete
<1>12. InStep(i)'
  <2> DEFINE l == lastApplied[i] + 1
  <2>1. \A k \in 1 .. l : Has(i, k)
    BY <1>5
  <2>2. app'[i][g].pc \notin {"none", "begin", "check", "write"}
    BY <1>7
  <2>3. fresh'[i] = g
    BY <1>3, <1>9, Zenon
  <2>4. app'[i][g].pc = "snap" => app'[i][g].m.index = l
    <3>1. app'[i][g].pc = "snap" => app'[i][g].m = app[i][g].m
      BY <1>7
    <3> QED
      BY <1>5, <3>1, Zenon
  <2>5. lastApplied'[i] = l /\ delivered'[i][g] = l /\ logs' = logs
    BY <1>5, <1>8, <1>9, Zenon
  <2> HIDE DEF l
  <2> QED
    BY <2>1, <2>2, <2>3, <2>4, <2>5, Zenon DEF InStep, Has
<1> QED
  BY <1>1, <1>2, <1>10, <1>11, <1>12, GoodAppStep, Zenon

LEMMA GoodTakeSnap ==
    ASSUME TypeOK, Instances, LogsApplied, AllGood, Good, NEW i \in Server, NEW g \in Instance,
           TakeSnap(i, g), Good'
    PROVE  AllGood'
<1>1. AppStep(i, g) /\ app[i][g].pc = "snap" /\ Touch(i, g)
  BY Zenon DEF AppStep, TakeSnap
<1>2. snapshot
  <2>1. ~snapshot => app[i][g].pc \in {"none", "range", "fatal"}
    BY Zenon DEF Instances
  <2> QED
    BY <1>1, <2>1 DEF TypeOK
<1>3. g = fresh[i]
  BY <1>1, <1>2, OfNewest, Zenon
<1>4. InStep(i)
  BY <1>2, Zenon DEF AllGood
<1>5. PICK l \in Nat : l = lastApplied[i]
  BY DEF TypeOK
<1>6. (\A k \in 1 .. l : Has(i, k)) /\ delivered[i][g] = l /\ app[i][g].m.index = l
  BY <1>1, <1>3, <1>4, <1>5, InStepIs, Zenon
<1>7. ~app[i][g].err
  BY Zenon DEF AllGood, NoAlarms
<1>8. app'[i][g].pc = "range" /\ app'[i][g].err = FALSE
  BY <1>7, AfterTakeSnap, Zenon
<1>9. /\ agreed' = agreed /\ fresh' = fresh /\ delivered' = delivered /\ lastApplied' = lastApplied
      /\ logs' = logs /\ applied' = applied /\ taken' = taken \union {SnapOf(i, app[i][g].m.index)}
  BY Zenon DEF TakeSnap, cfg
<1>10. NoAlarms'
  <2>1. ~app'[i][g].err /\ app'[i][g].pc # "fatal"
    BY <1>8
  <2> QED
    BY <1>1, <2>1, NoAlarmsApp, Zenon DEF AllGood
<1>11. Bounded' /\ AppliedAgreed'
  BY <1>9, Zenon DEF AllGood, Bounded, AppliedAgreed
<1>12. Complete(SnapOf(i, l))
  <2> DEFINE s == SnapOf(i, l)
  <2>1. s.index = l /\ \A k \in 0 .. l : s.xlog[k] = IF Has(i, k) THEN logs[i][k] ELSE Nil
    BY SnapOfType, Zenon
  <2>2. l <= Len(agreed)
    BY <1>6, Zenon DEF AllGood, Bounded
  <2>3. ASSUME NEW k \in 1 .. l
        PROVE  s.xlog[k] = agreed[k]
    <3>1. k \in 0 .. l /\ k # 0
      OBVIOUS
    <3>2. Has(i, k)
      BY <1>6, Zenon
    <3>3. s.xlog[k] = logs[i][k]
      BY <2>1, <3>1, <3>2, Zenon
    <3>4. logs[i][k] = agreed[k]
      BY <3>1, <3>2, LogsAgreed, Zenon DEF AllGood, Has
    <3> QED
      BY <3>3, <3>4, Zenon
  <2> HIDE DEF s
  <2>4. Complete(s)
    BY <2>1, <2>2, <2>3, Zenon DEF Complete
  <2> QED
    BY <2>4, Zenon DEF s
<1>13. \A s \in taken' : Complete(s)'
  <2>1. \A s \in taken' : Complete(s)
    BY <1>6, <1>9, <1>12, Zenon DEF AllGood
  <2> QED
    BY <1>9, <2>1, CompleteKept, Zenon
<1>14. InStep(i)'
  <2>1. app'[i][g].pc \notin {"none", "begin", "check", "write", "snap"}
    BY <1>8
  <2>2. fresh'[i] = g /\ lastApplied'[i] = l /\ delivered'[i][g] = l
    BY <1>3, <1>5, <1>6, <1>9, Zenon
  <2> QED
    BY <1>6, <1>9, <2>1, <2>2, Zenon DEF InStep, Has
<1> QED
  BY <1>1, <1>2, <1>10, <1>11, <1>13, <1>14, GoodAppStep, Zenon

LEMMA GoodAgree ==
    ASSUME TypeOK, AllGood, Agree
    PROVE  AllGood'
<1>1. PICK c \in Cmd : agreed' = Append(agreed, c)
  BY Zenon DEF Agree
<1>2. /\ Len(agreed) \in Nat /\ Len(agreed') = Len(agreed) + 1
      /\ \A k \in 1 .. Len(agreed) : agreed'[k] = agreed[k]
  BY <1>1 DEF TypeOK
<1>3. UNCHANGED <<snapshot, delivered, persister, taken, rafts, made, logs, applied, lastApplied, app,
                  test, alarm, fresh>>
  BY Zenon DEF Agree, cfg
<1>4. NoAlarms'
  BY <1>3, Zenon DEF AllGood, NoAlarms
<1>5. Bounded'
  <2>1. ASSUME NEW i \in Server, NEW g \in Instance
        PROVE  delivered[i][g] <= Len(agreed')
    <3>1. delivered[i][g] <= Len(agreed) /\ delivered[i][g] \in Nat
      BY DEF AllGood, Bounded, TypeOK
    <3> QED
      BY <1>2, <3>1
  <2> QED
    BY <1>3, <2>1, Zenon DEF Bounded
<1>6. AppliedAgreed'
  <2>1. ASSUME NEW t \in applied, t[2] # 0
        PROVE  t[2] \in 1 .. Len(agreed') /\ t[3] = agreed'[t[2]]
    <3>1. t[2] \in 1 .. Len(agreed) /\ t[3] = agreed[t[2]]
      BY <2>1, Zenon DEF AllGood, AppliedAgreed
    <3> QED
      BY <1>2, <3>1
  <2> QED
    BY <1>3, <2>1, Zenon DEF AppliedAgreed
<1>7. \A s \in taken' : Complete(s)'
  <2>1. ASSUME NEW s \in taken
        PROVE  s.index <= Len(agreed') /\ \A k \in 1 .. s.index : s.xlog[k] = agreed'[k]
    <3>1. s.index \in Nat /\ s.index <= Len(agreed) /\ \A k \in 1 .. s.index : s.xlog[k] = agreed[k]
      BY Zenon DEF AllGood, Complete, TypeOK
    <3> QED
      BY <1>2, <3>1
  <2> QED
    BY <1>3, <2>1, Zenon DEF Complete
<1>8. ASSUME snapshot, NEW i \in Server
      PROVE  InStep(i)'
  <2>1. PICK g \in Instance : g = fresh[i]
    BY DEF TypeOK
  <2>2. InStep(i)
    BY <1>8, Zenon DEF AllGood
  <2>3. /\ \A k \in 1 .. lastApplied[i] : Has(i, k)
        /\ app[i][g].pc = "none" => lastApplied[i] = persister[i][g].index
        /\ app[i][g].pc \in {"begin", "range"} => delivered[i][g] = lastApplied[i]
        /\ app[i][g].pc \in {"check", "write"} =>
             delivered[i][g] = lastApplied[i] + 1 /\ app[i][g].m.index = lastApplied[i] + 1
        /\ app[i][g].pc = "check" => app[i][g].m.cmd = agreed[lastApplied[i] + 1]
        /\ app[i][g].pc = "write" => Has(i, lastApplied[i] + 1)
        /\ app[i][g].pc = "snap" => delivered[i][g] = lastApplied[i] /\ app[i][g].m.index = lastApplied[i]
        /\ lastApplied[i] \in Nat
    BY <2>1, <2>2, InStepIs, Zenon
  <2>4. delivered[i][g] <= Len(agreed)
    BY Zenon DEF AllGood, Bounded
  <2>5. app[i][g].pc = "check" => agreed'[lastApplied[i] + 1] = agreed[lastApplied[i] + 1]
    <3>1. SUFFICES ASSUME app[i][g].pc = "check"
                   PROVE  agreed'[lastApplied[i] + 1] = agreed[lastApplied[i] + 1]
      OBVIOUS
    <3>2. delivered[i][g] = lastApplied[i] + 1 /\ lastApplied[i] \in Nat
      BY <2>3, <3>1
    <3> QED
      BY <1>2, <2>4, <3>2
  <2>6. app[i][g].pc = "check" => app[i][g].m.cmd = agreed'[lastApplied[i] + 1]
    BY <2>3, <2>5, Zenon
  <2>7. \A k : Has(i, k)' <=> Has(i, k)
    BY <1>3, Zenon DEF Has
  <2> QED
    BY <1>3, <2>1, <2>3, <2>6, <2>7, Zenon DEF InStep
<1>9. ~snapshot => \A i \in Server, g \in Instance : \A k \in 1 .. delivered[i][g] : Has(i, k)
  BY Zenon DEF AllGood
<1>10. (~snapshot => \A i \in Server, g \in Instance : \A k \in 1 .. delivered[i][g] : Has(i, k))'
  BY <1>3, <1>9, Zenon DEF Has
<1> QED
  BY <1>3, <1>4, <1>5, <1>6, <1>7, <1>8, <1>10, Zenon DEF AllGood

LEMMA GoodCrash1 ==
    ASSUME TypeOK, Instances, AllGood, NEW i \in Server, crash1(i)
    PROVE  AllGood'
<1>1. UNCHANGED <<snapshot, agreed, delivered, taken, made, logs, applied, lastApplied, app, alarm, fresh>>
  BY Zenon DEF crash1
<1>2. NoAlarms' /\ Bounded' /\ AppliedAgreed' /\ \A s \in taken' : Complete(s)'
  BY <1>1, Zenon DEF AllGood, NoAlarms, Bounded, AppliedAgreed, Complete
<1>3. ASSUME NEW j \in Server, snapshot
      PROVE  InStep(j)'
  <2>1. InStep(j)
    BY <1>3, Zenon DEF AllGood
  <2>2. test.pc = "idle"
    BY Zenon DEF crash1
  <2>3. fresh[j] = made[j]
    BY <2>2, Zenon DEF Instances, Newest
  <2>4. fresh[j] \in Instance /\ ~(fresh[j] > made[j])
    BY <2>3, SizeAssumption DEF TypeOK, Instance
  <2>5. app[j][fresh[j]].pc # "none"
    BY <2>4, Zenon DEF Instances
  <2> QED
    BY <1>1, <2>1, <2>5, InStepKept, Zenon
<1>4. (~snapshot => \A j \in Server, g \in Instance : \A k \in 1 .. delivered[j][g] : Has(j, k))'
  BY <1>1, Zenon DEF AllGood, Has
<1> QED
  BY <1>1, <1>2, <1>3, <1>4, Zenon DEF AllGood

LEMMA GoodReset ==
    ASSUME TypeOK, Saved, Instances, AllGood, NEW i \in Server, Reset(i)
    PROVE  AllGood'
<1>1. /\ UNCHANGED <<snapshot, agreed, delivered, persister, taken, made, app, alarm>>
      /\ rafts[i] = 0 /\ test.pc = "idle"
  BY Zenon DEF Reset, raft
<1>2. PICK g \in Instance : g = made[i] + 1
  BY <1>1, NextInstance, Zenon
<1>3. PICK s : s = persister[i][g]
  OBVIOUS
<1>4. s \in taken \union {NoSnap}
  BY <1>3, Zenon DEF Saved
<1>5. fresh'[i] = g /\ \A j \in Server : j # i => fresh'[j] = fresh[j]
  BY <1>2 DEF Reset, TypeOK
<1>6. app[i][g].pc = "none"
  <2>1. g > made[i]
    BY <1>2 DEF TypeOK, Instance
  <2> QED
    BY <2>1, Zenon DEF Instances
<1>7. NoAlarms' /\ Bounded' /\ \A t \in taken' : Complete(t)'
  BY <1>1, Zenon DEF AllGood, NoAlarms, Bounded, Complete
<1>8. /\ AppliedAgreed'
      /\ lastApplied'[i] = s.index /\ \A k \in 1 .. s.index : k \in DOMAIN logs'[i]
      /\ \A j \in Server : j # i => lastApplied'[j] = lastApplied[j] /\ logs'[j] = logs[j]
      /\ s = NoSnap => logs' = logs
  <2>1. CASE s = NoSnap
    <3>1. lastApplied' = [lastApplied EXCEPT ![i] = 0] /\ logs' = logs /\ applied' = applied
      BY <1>2, <1>3, <2>1, Zenon DEF Reset
    <3>2. lastApplied'[i] = 0 /\ \A j \in Server : j # i => lastApplied'[j] = lastApplied[j]
      BY <3>1 DEF TypeOK
    <3>3. s.index = 0 /\ \A k \in 1 .. s.index : k \in DOMAIN logs'[i]
      BY <2>1 DEF NoSnap
    <3>4. AppliedAgreed'
      BY <1>1, <3>1, Zenon DEF AllGood, AppliedAgreed
    <3> QED
      BY <3>1, <3>2, <3>3, <3>4, Zenon
  <2>2. CASE s # NoSnap
    <3>1. s \in taken /\ ingestSnap(i, s)
      BY <1>2, <1>3, <1>4, <2>2, Zenon DEF Reset
    <3>2. Complete(s)
      BY <3>1, Zenon DEF AllGood
    <3>3. AppliedAgreed'
      BY <1>1, <3>1, <3>2, AppliedAgreedIngest, Zenon DEF AllGood
    <3>4. /\ logs'[i] = s.xlog /\ \A j \in Server : j # i => logs'[j] = logs[j]
          /\ lastApplied' = [lastApplied EXCEPT ![i] = s.index]
      BY <3>1, IngestIs, Zenon
    <3>5. lastApplied'[i] = s.index /\ \A j \in Server : j # i => lastApplied'[j] = lastApplied[j]
      BY <3>4 DEF TypeOK
    <3>6. DOMAIN s.xlog = 0 .. s.index /\ s.index \in Nat
      BY <3>1, Zenon DEF TypeOK
    <3>7. \A k \in 1 .. s.index : k \in DOMAIN logs'[i]
      BY <3>4, <3>6
    <3> QED
      BY <2>2, <3>3, <3>4, <3>5, <3>7, Zenon
  <2> QED
    BY <2>1, <2>2, Zenon
<1>9. ASSUME NEW j \in Server, snapshot
      PROVE  InStep(j)'
  <2>1. CASE j = i
    <3>1. /\ fresh'[j] = g /\ app'[j][g].pc = "none" /\ lastApplied'[j] = s.index
          /\ persister'[j][g] = s /\ \A k \in 1 .. s.index : k \in DOMAIN logs'[j]
      BY <1>1, <1>3, <1>5, <1>6, <1>8, <2>1, Zenon
    <3>2. app'[j][g].pc \notin {"begin", "range", "check", "write", "snap"}
      BY <3>1
    <3> QED
      BY <3>1, <3>2, Zenon DEF InStep, Has
  <2>2. CASE j # i
    <3>1. InStep(j)
      BY <1>9, Zenon DEF AllGood
    <3>2. fresh'[j] = fresh[j] /\ lastApplied'[j] = lastApplied[j] /\ logs'[j] = logs[j]
      BY <1>5, <1>8, <2>2, Zenon
    <3> QED
      BY <1>1, <3>1, <3>2, InStepKept, Zenon
  <2> QED
    BY <2>1, <2>2, Zenon
<1>10. ASSUME ~snapshot
       PROVE  (\A j \in Server, h \in Instance : \A k \in 1 .. delivered[j][h] : Has(j, k))'
  <2>1. s = NoSnap
    BY <1>4, <1>10, Zenon DEF Instances
  <2>2. logs' = logs
    BY <1>8, <2>1, Zenon
  <2> QED
    BY <1>1, <1>10, <2>2, Zenon DEF AllGood, Has
<1> QED
  BY <1>1, <1>7, <1>8, <1>9, <1>10, Zenon DEF AllGood

LEMMA GoodMakeRaft ==
    ASSUME TypeOK, Saved, Instances, AllGood, Good, MakeRaft
    PROVE  AllGood'
<1>1. PICK i \in Server : i = test.i /\ rafts[i] = 0
  BY Zenon DEF Instances, MakeRaft
<1>2. PICK g \in Instance : g = made[i] + 1
  BY <1>1, NextInstance, Zenon
<1>3. fresh[i] = g /\ test.pc = "make"
  BY <1>1, <1>2, Zenon DEF Instances, Newest, MakeRaft
<1>4. app[i][g].pc = "none"
  <2>1. g > made[i]
    BY <1>2 DEF TypeOK, Instance
  <2> QED
    BY <2>1, Zenon DEF Instances
<1>5. UNCHANGED <<snapshot, correct, agreed, persister, taken, logs, applied, lastApplied, alarm, fresh>>
  BY Zenon DEF MakeRaft
<1>6. PICK s : s = persister[i][g]
  OBVIOUS
<1>7. s \in taken \union {NoSnap}
  BY <1>6, Zenon DEF Saved
<1>8. s.index <= Len(agreed) /\ (s = NoSnap => s.index = 0)
  <2>1. CASE s \in taken
    <3>1. s.index <= Len(agreed)
      BY <2>1, Zenon DEF AllGood, Complete
    <3> QED
      BY <3>1 DEF NoSnap
  <2>2. CASE s = NoSnap
    BY <2>2 DEF NoSnap, TypeOK
  <2> QED
    BY <1>7, <2>1, <2>2, Zenon
<1>9. PICK b : b = Applier(IF snapshot THEN "begin" ELSE "range")
  OBVIOUS
<1>10. b.pc \in {"begin", "range"} /\ b.err = FALSE
  BY <1>9, FreshApplier, Zenon
<1>11. delivered' = [delivered EXCEPT ![i][g] = s.index] /\ app' = [app EXCEPT ![i][g] = b]
  BY <1>1, <1>2, <1>6, <1>9, Zenon DEF MakeRaft, Good
<1>12. /\ delivered'[i][g] = s.index /\ app'[i][g] = b
       /\ \A j \in Server, h \in Instance : j # i \/ h # g =>
            delivered'[j][h] = delivered[j][h] /\ app'[j][h] = app[j][h]
  BY <1>11 DEF TypeOK
<1>13. ASSUME NEW j \in Server, NEW h \in Instance
       PROVE  /\ ~app'[j][h].err /\ app'[j][h].pc # "fatal"
              /\ delivered'[j][h] <= Len(agreed)
  <2>1. CASE j = i /\ h = g
    BY <1>8, <1>10, <1>12, <2>1
  <2>2. CASE j # i \/ h # g
    <3>1. delivered'[j][h] = delivered[j][h] /\ app'[j][h] = app[j][h]
      BY <1>12, <2>2
    <3> QED
      BY <3>1, Zenon DEF AllGood, NoAlarms, Bounded
  <2> QED
    BY <2>1, <2>2, Zenon
<1>14. NoAlarms' /\ Bounded' /\ AppliedAgreed' /\ \A t \in taken' : Complete(t)'
  BY <1>5, <1>13, Zenon DEF AllGood, NoAlarms, Bounded, AppliedAgreed, Complete
<1>15. ASSUME NEW j \in Server, snapshot
       PROVE  InStep(j)'
  <2>1. InStep(j)
    BY <1>15, Zenon DEF AllGood
  <2>2. CASE j = i
    <3>1. (\A k \in 1 .. lastApplied[i] : Has(i, k)) /\ lastApplied[i] = s.index
      BY <1>3, <1>4, <1>6, <2>1, <2>2, InStepIs, Zenon
    <3>2. app'[i][g].pc \notin {"none", "check", "write", "snap"}
      BY <1>10, <1>12
    <3>3. fresh'[i] = g /\ delivered'[i][g] = lastApplied'[i] /\ lastApplied'[i] = lastApplied[i]
      BY <1>3, <1>5, <1>12, <3>1, Zenon
    <3>4. \A k \in 1 .. lastApplied[i] : k \in DOMAIN logs'[i]
      BY <1>5, <3>1, Zenon DEF Has
    <3> QED
      BY <2>2, <3>2, <3>3, <3>4, Zenon DEF InStep, Has
  <2>3. CASE j # i
    <3>1. fresh[j] \in Instance
      BY DEF TypeOK
    <3>2. app'[j][fresh[j]] = app[j][fresh[j]] /\ delivered'[j][fresh[j]] = delivered[j][fresh[j]]
      BY <1>12, <2>3, <3>1, Zenon
    <3> QED
      BY <1>5, <2>1, <3>2, InStepKept, Zenon
  <2> QED
    BY <2>2, <2>3, Zenon
<1>16. ASSUME ~snapshot, NEW j \in Server, NEW h \in Instance, NEW k \in 1 .. delivered'[j][h]
       PROVE  k \in DOMAIN logs'[j]
  <2>1. CASE j = i /\ h = g
    <3>1. s = NoSnap
      BY <1>7, <1>16, Zenon DEF Instances
    <3>2. delivered'[j][h] = 0
      BY <1>8, <1>12, <2>1, <3>1, Zenon
    <3> QED
      BY <3>2
  <2>2. CASE j # i \/ h # g
    <3>1. delivered'[j][h] = delivered[j][h]
      BY <1>12, <2>2
    <3>2. k \in 1 .. delivered[j][h]
      BY <3>1
    <3> QED
      BY <1>5, <1>16, <3>2, Zenon DEF AllGood, Has
  <2> QED
    BY <2>1, <2>2, Zenon
<1> QED
  BY <1>5, <1>14, <1>15, <1>16, Zenon DEF AllGood, Has

\* nCommitted finds no two values: what it saw and what it sees are agreed on.
LEMMA NoMismatchSeen ==
    ASSUME TypeOK, LogsApplied, Counted, AppliedAgreed, nCommitted
    PROVE  alarm' = alarm
<1>1. test \in TestRec
  BY Zenon DEF TypeOK
<1>2. PICK n \in Nat, k \in Nat, c \in Value, d \in Nat :
        n = test.i /\ k = test.index /\ c = test.seen /\ d = test.count
  BY <1>1 DEF TestRec
<1> DEFINE v == Found(test.i, test.index)
<1>3. IF test.count > 0 /\ v # {} /\ v # {test.seen}
      THEN alarm' = "mismatch" /\ UNCHANGED test
      ELSE test' = Count(test, v) /\ UNCHANGED alarm
  BY Zenon DEF nCommitted, Found
<1> HIDE DEF v
<1>4. SUFFICES ASSUME d > 0, v # {}, v # {c}
               PROVE  FALSE
  BY <1>2, <1>3, Zenon
<1>5. n \in Server /\ Has(n, k) /\ v = {logs[n][k]}
  BY <1>2, <1>4, FoundIs, Zenon DEF v
<1>6. test.pc \in {"one", "wait", "last"}
  BY Zenon DEF nCommitted
<1>7. k > 0 /\ Cardinality(Holders(n, k, c)) >= d
  BY <1>2, <1>6, Zenon DEF Counted
<1>8. k # 0
  BY <1>7
<1>9. logs[n][k] = agreed[k]
  BY <1>5, <1>8, LogsAgreed, Zenon DEF Has
<1>10. Holders(n, k, c) # {}
  <2>1. SUFFICES ASSUME Holders(n, k, c) = {} PROVE FALSE
    OBVIOUS
  <2>2. Cardinality(Holders(n, k, c)) = 0
    BY <2>1, FS_EmptySet, Zenon
  <2> QED
    BY <1>4, <1>7, <2>2
<1>11. PICK j : <<j, k, c>> \in applied
  BY <1>10, Zenon DEF Holders
<1>12. c = agreed[k]
  BY <1>8, <1>11 DEF AppliedAgreed
<1> QED
  BY <1>4, <1>5, <1>9, <1>12, Zenon

LEMMA GoodTestStep ==
    ASSUME TypeOK, LogsApplied, Counted, AllGood, TestStep
    PROVE  AllGood'
<1>1. UNCHANGED <<snapshot, agreed, delivered, persister, taken, logs, applied, lastApplied, app, fresh>>
  BY TestCalm, Zenon DEF Calm, raft, cfg
<1>2. alarm' \in {alarm, "no agreement"}
  <2>1. CASE nCommitted
    BY <2>1, NoMismatchSeen, Zenon DEF AllGood
  <2> QED
    BY <2>1, Zenon DEF TestStep, beginOne, startCmd, beginWait, one, wait, goOn
<1>3. NoAlarms'
  BY <1>1, <1>2, Zenon DEF AllGood, NoAlarms
<1>4. Bounded' /\ AppliedAgreed' /\ \A s \in taken' : Complete(s)'
  BY <1>1, Zenon DEF AllGood, Bounded, AppliedAgreed, Complete
<1>5. ASSUME NEW j \in Server, snapshot
      PROVE  InStep(j)'
  BY <1>1, <1>5, InStepKept, Zenon DEF AllGood
<1>6. (~snapshot => \A j \in Server, g \in Instance : \A k \in 1 .. delivered[j][g] : Has(j, k))'
  BY <1>1, Zenon DEF AllGood, Has
<1> QED
  BY <1>1, <1>3, <1>4, <1>5, <1>6, Zenon DEF AllGood

LEMMA GoodStutter ==
    ASSUME AllGood, UNCHANGED vars
    PROVE  AllGood'
<1>1. UNCHANGED <<snapshot, agreed, delivered, persister, taken, logs, applied, lastApplied, app, fresh, alarm>>
  BY Zenon DEF vars, raft, cfg
<1>2. NoAlarms' /\ Bounded' /\ AppliedAgreed' /\ \A s \in taken' : Complete(s)'
  BY <1>1, Zenon DEF AllGood, NoAlarms, Bounded, AppliedAgreed, Complete
<1>3. ASSUME NEW j \in Server, snapshot
      PROVE  InStep(j)'
  BY <1>1, <1>3, InStepKept, Zenon DEF AllGood
<1>4. (~snapshot => \A j \in Server, g \in Instance : \A k \in 1 .. delivered[j][g] : Has(j, k))'
  BY <1>1, Zenon DEF AllGood, Has
<1> QED
  BY <1>1, <1>2, <1>3, <1>4, Zenon DEF AllGood

LEMMA GoodStep ==
    ASSUME IInv, [Next]_vars, Good'
    PROVE  AllGood'
<1>1. Good
  BY GoodBefore, Zenon DEF IInv
<1>2. TypeOK /\ Saved /\ Instances /\ LogsApplied /\ Counted /\ AllGood
  BY <1>1, Zenon DEF IInv
<1>3. ASSUME NEW i \in Server, NEW g \in Instance, AppStep(i, g)
      PROVE  AllGood'
  BY <1>1, <1>2, <1>3, GoodApplier, GoodBeginSnap, GoodInstallSnap, GoodReceiveCmd, GoodCheckCmd,
     GoodWriteApplied, GoodTakeSnap, Zenon DEF AppStep
<1>4. ASSUME NEW i \in Server, NEW g \in Instance, Fatal(i, g)
      PROVE  FALSE
  BY <1>2, <1>4, Zenon DEF AllGood, NoAlarms, Fatal
<1>5. ASSUME NEW i \in Server, crash1(i) \/ Reset(i)
      PROVE  AllGood'
  BY <1>2, <1>5, GoodCrash1, GoodReset, Zenon
<1>6. CASE TestStep \/ Agree \/ MakeRaft \/ UNCHANGED vars
  BY <1>1, <1>2, <1>6, GoodTestStep, GoodAgree, GoodMakeRaft, GoodStutter, Zenon
<1> QED
  BY <1>3, <1>4, <1>5, <1>6, Zenon DEF Next, TestStep, AppStep

----------------------------------------------------------------------------
(* The theorems *)

LEMMA InitIInv == Init => IInv
<1> SUFFICES ASSUME Init PROVE IInv
  OBVIOUS
<1>1. 1 \in Instance /\ 0 \in Nat /\ \A i \in Server : i \in Nat
  BY SizeAssumption DEF Instance, Server
<1>2. PICK pc \in {"begin", "range"} : pc = IF snapshot THEN "begin" ELSE "range"
  BY Zenon
<1>3. \A i \in Server, g \in Instance : app[i][g] = Applier(IF g > 1 THEN "none" ELSE pc)
  BY <1>2, Zenon DEF Init
<1>4. Applier("none") \in AppRec /\ Applier("none").pc = "none" /\ Applier("none").rf = 0
      /\ Applier("none").err = FALSE
  BY DEF Applier, AppRec, AppPc, NoMsg, Value
<1>5. ASSUME NEW i \in Server, NEW g \in Instance
      PROVE  /\ app[i][g] \in AppRec /\ app[i][g].rf = 0 /\ app[i][g].err = FALSE
             /\ app[i][g].pc = "none" <=> g > 1
             /\ app[i][g].pc # "none" => app[i][g].pc = pc
  <2>1. CASE g > 1
    BY <1>2, <1>3, <1>4, <2>1
  <2>2. CASE ~(g > 1)
    BY <1>2, <1>3, <2>2, FreshApplier
  <2> QED
    BY <2>1, <2>2, Zenon
<1>6. TypeOK
  <2>1. app \in [Server -> [Instance -> AppRec]]
    <3>1. \A i \in Server : app[i] = [g \in Instance |-> app[i][g]]
      BY Zenon DEF Init
    <3>2. app = [i \in Server |-> app[i]]
      BY Zenon DEF Init
    <3> QED
      BY <1>5, <3>1, <3>2, Zenon
  <2>2. agreed \in Seq(Cmd) /\ delivered \in [Server -> [Instance -> Nat]]
    <3>1. agreed = <<>> /\ delivered = [i \in Server |-> [g \in Instance |-> 0]]
      BY Zenon DEF Init
    <3>2. <<>> \in Seq(Cmd)
      OBVIOUS
    <3>3. [i \in Server |-> [g \in Instance |-> 0]] \in [Server -> [Instance -> Nat]]
      OBVIOUS
    <3> QED
      BY <3>1, <3>2, <3>3, Zenon
  <2>3. /\ rafts \in [Server -> Nat] /\ made \in [Server -> Instance] /\ fresh \in [Server -> Instance]
        /\ lastApplied \in [Server -> Nat]
    BY <1>1, Zenon DEF Init
  <2>4. DOMAIN persister = Server /\ \A i \in Server : DOMAIN persister[i] = Instance
    BY Zenon DEF Init
  <2>5. DOMAIN logs = Server /\ \A i \in Server : \A k \in DOMAIN logs[i] : k \in Nat /\ logs[i][k] \in Value
    <3>1. logs = [i \in Server |-> <<>>]
      BY Zenon DEF Init
    <3>2. DOMAIN <<>> = {}
      OBVIOUS
    <3> QED
      BY <3>1, <3>2, Zenon
  <2>6. test \in TestRec
    BY IdleTest, Zenon DEF Init
  <2> QED
    BY <2>1, <2>2, <2>3, <2>4, <2>5, <2>6, Zenon DEF TypeOK, Init
<1>7. Saved
  BY Zenon DEF Init, Saved
<1>8. /\ test.pc = "idle" /\ taken = {} /\ applied = {} /\ alarm = ""
      /\ \A i \in Server : rafts[i] = 1 /\ made[i] = 1 /\ fresh[i] = 1 /\ lastApplied[i] = 0
      /\ \A i \in Server, g \in Instance : delivered[i][g] = 0 /\ persister[i][g] = NoSnap
  BY IdleTest, Zenon DEF Init
<1>14. Len(agreed) = 0 /\ \A i \in Server : DOMAIN logs[i] = {}
  <2>1. agreed = <<>> /\ \A i \in Server : logs[i] = <<>>
    BY Zenon DEF Init
  <2>2. Len(<<>>) = 0 /\ DOMAIN <<>> = {}
    OBVIOUS
  <2> QED
    BY <2>1, <2>2, Zenon
<1>9. Instances
  <2>1. ASSUME NEW i \in Server PROVE Newest(i)
    <3>1. rafts[i] = 1 /\ made[i] = 1 /\ fresh[i] = 1 /\ test.pc # "make"
      BY <1>8, Zenon
    <3>2. rafts[i] # 0
      BY <3>1
    <3> QED
      BY <3>1, <3>2, Zenon DEF Newest
  <2>2. ~snapshot => pc = "range"
    BY <1>2, Zenon
  <2>3. ASSUME NEW i \in Server, NEW g \in Instance
        PROVE  /\ app[i][g].pc = "none" <=> g > made[i]
               /\ app[i][g].rf <= made[i]
               /\ app[i][g].err => app[i][g].pc \in {"write", "snap"}
               /\ ~snapshot => app[i][g].pc \in {"none", "range", "fatal"}
    <3>1. made[i] = 1 /\ app[i][g].rf = 0 /\ app[i][g].err = FALSE
      BY <1>5, <1>8, Zenon
    <3>2. 0 <= 1
      OBVIOUS
    <3> QED
      BY <1>5, <2>2, <3>1, <3>2, Zenon
  <2>4. test.pc # "make"
    BY <1>8, Zenon
  <2> QED
    BY <1>8, <2>1, <2>3, <2>4, Zenon DEF Instances
<1>10. LogsApplied
  BY <1>14, Zenon DEF LogsApplied
<1>11. Counted
  BY <1>8, Zenon DEF Counted
<1>12. MismatchReported
  BY <1>14, Zenon DEF MismatchReported
<1>13. AllGood
  <2>1. NoAlarms
    BY <1>2, <1>5, <1>8, Zenon DEF NoAlarms
  <2>2. Bounded /\ AppliedAgreed
    <3>1. \A i \in Server, g \in Instance : delivered[i][g] = Len(agreed)
      BY <1>8, <1>14, Zenon
    <3>2. \A i \in Server, g \in Instance : delivered[i][g] <= Len(agreed)
      BY <1>14, <3>1
    <3> QED
      BY <1>8, <3>2, Zenon DEF Bounded, AppliedAgreed
  <2>3. ASSUME NEW i \in Server
        PROVE  InStep(i)
    <3>1. fresh[i] = 1 /\ lastApplied[i] = 0 /\ delivered[i][1] = 0
      BY <1>1, <1>8, Zenon
    <3>2. ~(1 > 1)
      OBVIOUS
    <3>3. app[i][1].pc \in {"begin", "range"}
      BY <1>1, <1>2, <1>5, <3>2, Zenon
    <3>4. app[i][1].pc \notin {"none", "check", "write", "snap"}
      BY <3>3
    <3>5. \A k \in 1 .. 0 : Has(i, k)
      OBVIOUS
    <3> QED
      BY <3>1, <3>4, <3>5, Zenon DEF InStep
  <2>4. \A i \in Server, g \in Instance : \A k \in 1 .. delivered[i][g] : Has(i, k)
    <3>1. 1 .. 0 = {}
      OBVIOUS
    <3> QED
      BY <1>8, <3>1, Zenon
  <2> QED
    BY <1>8, <2>1, <2>2, <2>3, <2>4, Zenon DEF AllGood
<1> QED
  BY <1>6, <1>7, <1>9, <1>10, <1>11, <1>12, <1>13, Zenon DEF IInv

\* The inductive invariant holds.
THEOREM Invariance == Spec => []IInv
<1>1. IInv /\ [Next]_vars => IInv'
  <2> SUFFICES ASSUME IInv, [Next]_vars PROVE IInv'
    OBVIOUS
  <2>1. TypeOK /\ Saved /\ Instances /\ LogsApplied /\ Counted /\ MismatchReported
    BY Zenon DEF IInv
  <2> QED
    BY <2>1, TypeStep, SavedStep, InstancesStep, LogsAppliedStep, CountedStep, MismatchStep,
       GoodStep, Zenon DEF IInv
<1> QED
  BY <1>1, InitIInv, PTL DEF Spec

\* NoFalseAlarm for all constants: a correct Raft fails the tests of applier never,
\* those of applierSnap only after a killed instance's applier has come between.
THEOREM NoFalseAlarmHolds == Spec => []NoFalseAlarm
<1>1. IInv => NoFalseAlarm
  <2> SUFFICES ASSUME IInv, correct, alarm \in {"apply", "mismatch"}
               PROVE  snapshot /\ stale
    BY Zenon DEF NoFalseAlarm
  <2>1. ~AllGood
    <3>1. alarm \notin {"", "no agreement"}
      BY Zenon
    <3> QED
      BY <3>1, Zenon DEF AllGood, NoAlarms
  <2> QED
    BY <2>1, Zenon DEF IInv, Good
<1> QED
  BY <1>1, Invariance, PTL

\* MismatchReported for all constants: what checkLogs lets pass is the same on all
\* servers, whatever Raft delivers, until a snapshot is taken.
THEOREM MismatchReportedHolds == Spec => []MismatchReported
<1>1. IInv => MismatchReported
  BY Zenon DEF IInv
<1> QED
  BY <1>1, Invariance, PTL

\* SnapshotsComplete for all constants: applierSnap reads cfg.logs without the
\* lock and yet saves every entry, unless a killed instance's applier came between.
THEOREM SnapshotsCompleteHolds == Spec => []SnapshotsComplete
<1>1. IInv => SnapshotsComplete
  <2> SUFFICES ASSUME IInv, correct, ~stale, NEW s \in taken, NEW k \in 1 .. s.index
               PROVE  k \in DOMAIN s.xlog /\ s.xlog[k] = agreed[k]
    BY Zenon DEF SnapshotsComplete
  <2>1. AllGood /\ TypeOK
    BY Zenon DEF IInv, Good
  <2>2. s.index \in Nat /\ DOMAIN s.xlog = 0 .. s.index /\ s.xlog[k] = agreed[k]
    BY <2>1, Zenon DEF AllGood, Complete, TypeOK
  <2> QED
    BY <2>2
<1> QED
  BY <1>1, Invariance, PTL

\* ReturnedIsApplied for all constants: one and wait return what enough servers
\* have applied, and with a correct Raft what is agreed on.
THEOREM ReturnedIsAppliedHolds == Spec => []ReturnedIsApplied
<1>1. IInv => ReturnedIsApplied
  <2> SUFFICES ASSUME IInv, test.pc = "returned"
               PROVE  /\ Cardinality({i \in Server : <<i, test.index, test.cmd>> \in applied}) >= test.want
                      /\ correct /\ ~stale => agreed[test.index] = test.cmd
    BY Zenon DEF ReturnedIsApplied
  <2>1. PICK H : H = Holders(N, test.index, test.cmd)
    OBVIOUS
  <2>2. H = {i \in Server : <<i, test.index, test.cmd>> \in applied}
    BY <2>1, Zenon DEF Holders, Server
  <2>3. Cardinality(H) >= test.want /\ test.want > 0 /\ test.index > 0
    BY <2>1, Zenon DEF IInv, Counted
  <2>4. ASSUME correct, ~stale
        PROVE  agreed[test.index] = test.cmd
    <3>1. AppliedAgreed
      BY <2>4, Zenon DEF IInv, Good, AllGood
    <3>2. H # {}
      <4>1. SUFFICES ASSUME H = {} PROVE FALSE
        OBVIOUS
      <4>2. Cardinality(H) = 0
        BY <4>1, FS_EmptySet, Zenon
      <4>3. test.want \in Nat
        BY DEF IInv, TypeOK, TestRec
      <4> QED
        BY <2>3, <4>2, <4>3
    <3>3. PICK i : <<i, test.index, test.cmd>> \in applied
      BY <2>2, <3>2, Zenon
    <3>4. test.index # 0
      BY <2>3
    <3> QED
      BY <3>1, <3>3, <3>4 DEF AppliedAgreed
  <2> QED
    BY <2>2, <2>3, <2>4, Zenon
<1> QED
  BY <1>1, Invariance, PTL
=============================================================================
