---------------------------- MODULE TesterChecks ----------------------------
(***************************************************************************)
(* How the raft tester (raft/config.go) checks what servers apply: the     *)
(* goroutines applier and applierSnap that read applyCh and compare every  *)
(* command with what the other servers applied, the snapshots applierSnap  *)
(* takes, start1 which resets the tester's view of a server, and the       *)
(* agreement checks nCommitted, wait and one.                              *)
(*                                                                         *)
(* The Raft instances are external: an instance delivers commands and      *)
(* snapshots on its applyCh.  The tester is checked against a correct Raft *)
(* (all instances deliver one agreed sequence in order) and against an     *)
(* incorrect one (anything is delivered).  Instance g of server i is its   *)
(* g-th start; a killed instance and its applier go on.                    *)
(***************************************************************************)
EXTENDS Integers, Sequences, FiniteSets

CONSTANTS
    N,                  \* number of servers
    Cmd,                \* commands
    Nil,                \* the nil interface: no command
    SnapShotInterval,
    MaxIndex,           \* bound on log indices and on what an instance delivers
    MaxRestarts         \* bound on restarts of one server

ASSUME SizeAssumption ==
    /\ N \in Nat \ {0} /\ SnapShotInterval \in Nat \ {0}
    /\ MaxIndex \in Nat \ {0} /\ MaxRestarts \in Nat
ASSUME NilAssumption == Nil \notin Cmd

Server   == 0 .. N - 1
Index    == 1 .. MaxIndex
Instance == 1 .. MaxRestarts + 1

VARIABLES
    snapshot,       \* make_config's argument: applierSnap instead of applier
    correct,        \* whether Raft is correct
    agreed,         \* what a correct Raft has agreed on
    delivered,      \* of every instance: the last index (or number) delivered
    persister,      \* of every instance: the snapshot in its Persister, or none
    taken,          \* all snapshots handed to Raft
    rafts,          \* cfg.rafts: the instance or 0 for nil
    made,           \* number of instances made
    logs,           \* cfg.logs
    lastApplied,    \* cfg.lastApplied
    app,            \* the appliers: where they are and their locals
    test,           \* the goroutine of the test: where it is and its locals
    alarm,          \* why the test failed, or ""
    applied,        \* history: which server has applied what, at which index
    fresh,          \* history: the instance start1 reset the tables for
    stale           \* history: an older instance's applier used them since

raft == <<agreed, delivered, persister, taken>>
cfg == <<rafts, made, logs, applied, lastApplied>>
vars == <<snapshot, correct, raft, cfg, app, test, alarm, fresh, stale>>

\* A snapshot: the index, and the values of cfg.logs from 0 on.
NoSnap == [index |-> 0, xlog |-> <<>>]

NoMsg  == [index |-> 0, cmd |-> Nil]
Applier(pc) == [pc |-> pc, rf |-> 0, m |-> NoMsg, err |-> FALSE]

Idle == [pc |-> "idle", i |-> 0, cmd |-> Nil, index |-> 0, want |-> 0,
         count |-> 0, seen |-> Nil]

\* make_config has started every server once.
Init ==
    /\ snapshot \in BOOLEAN /\ correct \in BOOLEAN
    /\ agreed = <<>> /\ taken = {}
    /\ delivered = [i \in Server |-> [g \in Instance |-> 0]]
    /\ persister = [i \in Server |-> [g \in Instance |-> NoSnap]]
    /\ rafts = [i \in Server |-> 1] /\ made = [i \in Server |-> 1]
    /\ logs = [i \in Server |-> <<>>] /\ applied = {}
    /\ lastApplied = [i \in Server |-> 0]
    /\ app = [i \in Server |-> [g \in Instance |->
                 Applier(IF g > 1 THEN "none" ELSE IF snapshot THEN "begin" ELSE "range")]]
    /\ test = Idle
    /\ alarm = ""
    /\ fresh = [i \in Server |-> 1] /\ stale = FALSE

\* log.Fatalf ends the process, t.Fatalf the test.
Running == alarm = ""

----------------------------------------------------------------------------
(* Raft, which is external *)

\* A command becomes agreed.
Agree ==
    /\ Running /\ correct /\ Len(agreed) < MaxIndex
    /\ \E c \in Cmd : agreed' = Append(agreed, c)
    /\ UNCHANGED <<snapshot, correct, delivered, persister, taken, cfg, app, test,
                   alarm, fresh, stale>>

\* The messages instance g of i may send next.
Commands(i, g) ==
    IF correct
    THEN {[index |-> k, cmd |-> agreed[k]] : k \in {delivered[i][g] + 1} \intersect DOMAIN agreed}
    ELSE IF delivered[i][g] < MaxIndex THEN [index : Index, cmd : Cmd] ELSE {}

Snapshots(i, g) ==
    IF correct
    THEN {[index |-> s.index, snap |-> s] : s \in {t \in taken : t.index > delivered[i][g]}}
    ELSE IF delivered[i][g] < MaxIndex THEN [index : Index, snap : taken] ELSE {}

Sent(i, g, m) ==
    delivered' = [delivered EXCEPT ![i][g] = IF correct THEN m.index ELSE @ + 1]

----------------------------------------------------------------------------
(* checkLogs, applier, ingestSnap, applierSnap *)

\* cfg.logs[j][k] exists; a log starts at index 0 if it came from a snapshot.
Has(j, k) == k \in DOMAIN logs[j]

Put(i, m) ==
    [k \in DOMAIN logs[i] \union {m.index} |-> IF k = m.index THEN m.cmd ELSE logs[i][k]]

\* Mutant: only the server's own log is looked at.
MismatchOwnOnly(i, m) == Has(i, m.index) /\ logs[i][m.index] # m.cmd

\* Some server has committed another value at this index.
Mismatch(i, m) == \E j \in Server : Has(j, m.index) /\ logs[j][m.index] # m.cmd

\* checkLogs records the command even if it does not match.
checkLogs(i, m) ==
    /\ logs' = [logs EXCEPT ![i] = Put(i, m)]
    /\ applied' = applied \union {<<i, m.index, m.cmd>>}

\* What checkLogs and its caller, which tests prevok, make an error.
Bad(i, m) == Mismatch(i, m) \/ (m.index > 1 /\ ~Has(i, m.index - 1))

\* An applier of an instance that is not the newest one has used the tables.
Touch(i, g) == stale' = (stale \/ g < fresh[i])

\* The applier goes on to its next message, or to log.Fatalf.
Finish(a, err) ==
    [a EXCEPT !.pc = IF err THEN "fatal" ELSE "range", !.m = NoMsg, !.err = FALSE]

\* applier: one command.
applier(i, g) ==
    /\ Running /\ ~snapshot /\ app[i][g].pc = "range"
    /\ \E m \in Commands(i, g) :
        /\ Sent(i, g, m)
        /\ checkLogs(i, m)
        /\ app' = [app EXCEPT ![i][g] = Finish(@, Bad(i, m))]
    /\ Touch(i, g)
    /\ UNCHANGED <<snapshot, correct, agreed, persister, taken, rafts, made,
                   lastApplied, test, alarm, fresh>>

\* log.Fatalf.
Fatal(i, g) ==
    /\ Running /\ app[i][g].pc = "fatal"
    /\ alarm' = "apply"
    /\ UNCHANGED <<snapshot, correct, raft, cfg, app, test, fresh, stale>>

ingestSnap(i, snap) ==
    /\ logs' = [logs EXCEPT ![i] = snap.xlog]
    /\ applied' = applied \union {<<i, k, snap.xlog[k]>> : k \in DOMAIN snap.xlog}
    /\ lastApplied' = [lastApplied EXCEPT ![i] = snap.index]

\* applierSnap looks its instance up when it gets to run.
BeginSnap(i, g) ==
    /\ Running /\ app[i][g].pc = "begin"
    /\ app' = [app EXCEPT ![i][g].pc = IF rafts[i] = 0 THEN "returned" ELSE "range",
                          ![i][g].rf = rafts[i]]
    /\ UNCHANGED <<snapshot, correct, raft, cfg, test, alarm, fresh, stale>>

\* A snapshot message; CondInstallSnapshot returns true.
InstallSnap(i, g) ==
    /\ Running /\ snapshot /\ app[i][g].pc = "range"
    /\ \E m \in Snapshots(i, g) :
        /\ Sent(i, g, m)
        /\ IF m.index = m.snap.index
           THEN ingestSnap(i, m.snap) /\ UNCHANGED app
           ELSE app' = [app EXCEPT ![i][g] = Finish(@, TRUE)] /\ UNCHANGED <<logs, applied, lastApplied>>
    /\ Touch(i, g)
    /\ UNCHANGED <<snapshot, correct, agreed, persister, taken, rafts, made, test,
                   alarm, fresh>>

\* A command message; lastApplied is read without the lock.
ReceiveCmd(i, g) ==
    /\ Running /\ snapshot /\ app[i][g].pc = "range"
    /\ \E m \in Commands(i, g) :
        LET err == m.index # lastApplied[i] + 1 IN
        /\ Sent(i, g, m)
        /\ app' = [app EXCEPT ![i][g].pc = IF err THEN "write" ELSE "check",
                              ![i][g].m = m, ![i][g].err = err]
    /\ Touch(i, g)
    /\ UNCHANGED <<snapshot, correct, agreed, persister, taken, cfg, test, alarm, fresh>>

CheckCmd(i, g) ==
    /\ Running /\ app[i][g].pc = "check"
    /\ checkLogs(i, app[i][g].m)
    /\ app' = [app EXCEPT ![i][g].pc = "write", ![i][g].err = Bad(i, app[i][g].m)]
    /\ Touch(i, g)
    /\ UNCHANGED <<snapshot, correct, raft, rafts, made, lastApplied, test, alarm, fresh>>

\* lastApplied is written even after an error.
WriteApplied(i, g) ==
    LET a == app[i][g] IN
    /\ Running /\ a.pc = "write"
    /\ lastApplied' = [lastApplied EXCEPT ![i] = a.m.index]
    /\ app' = [app EXCEPT ![i][g] = IF (a.m.index + 1) % SnapShotInterval = 0
                                    THEN [a EXCEPT !.pc = "snap"] ELSE Finish(a, a.err)]
    /\ Touch(i, g)
    /\ UNCHANGED <<snapshot, correct, raft, rafts, made, logs, applied, test, alarm, fresh>>

\* Mutant: the loop ends one too early.
SnapOfShort(i, index) ==
    [index |-> index, xlog |-> [k \in 0 .. index - 1 |-> IF Has(i, k) THEN logs[i][k] ELSE Nil]]

\* What applierSnap puts into a snapshot: nil where cfg.logs has no entry.
SnapOf(i, index) ==
    [index |-> index, xlog |-> [k \in 0 .. index |-> IF Has(i, k) THEN logs[i][k] ELSE Nil]]

\* The log is read without the lock and handed to Raft, which saves it with its
\* state, sooner or later or never.
TakeSnap(i, g) ==
    LET a == app[i][g]
        s == SnapOf(i, a.m.index) IN
    /\ Running /\ a.pc = "snap"
    /\ taken' = taken \union {s}
    /\ persister' \in {persister, [persister EXCEPT ![i][a.rf] = s]}
    /\ app' = [app EXCEPT ![i][g] = Finish(a, a.err)]
    /\ Touch(i, g)
    /\ UNCHANGED <<snapshot, correct, agreed, delivered, cfg, test, alarm, fresh>>

----------------------------------------------------------------------------
(* crash1 and start1, as far as they touch the tables *)

\* The Persister is copied for the next instance; the old one keeps its own.
crash1(i) ==
    /\ Running /\ test.pc = "idle" /\ rafts[i] # 0 /\ made[i] \in 1 .. MaxRestarts
    /\ persister' = [persister EXCEPT ![i][made[i] + 1] = persister[i][made[i]]]
    /\ rafts' = [rafts EXCEPT ![i] = 0]
    /\ test' = Idle
    /\ UNCHANGED <<snapshot, correct, agreed, delivered, taken, made, logs, applied, lastApplied,
                   app, alarm, fresh, stale>>

\* Mutant: nothing is reset.
ResetKeepsApplied(i) ==
    /\ Running /\ test.pc = "idle" /\ rafts[i] = 0
    /\ UNCHANGED <<logs, applied, lastApplied>>
    /\ fresh' = [fresh EXCEPT ![i] = made[i] + 1]
    /\ test' = [Idle EXCEPT !.pc = "make", !.i = i]
    /\ UNCHANGED <<snapshot, correct, raft, rafts, made, app, alarm, stale>>

\* lastApplied is reset; what was saved in a snapshot is taken back.
Reset(i) ==
    LET s == persister[i][made[i] + 1] IN
    /\ Running /\ test.pc = "idle" /\ rafts[i] = 0
    /\ \/ /\ s = NoSnap
          /\ lastApplied' = [lastApplied EXCEPT ![i] = 0]
          /\ UNCHANGED <<logs, applied>>
       \/ /\ s # NoSnap
          /\ ingestSnap(i, s)
    /\ fresh' = [fresh EXCEPT ![i] = made[i] + 1]
    /\ test' = [Idle EXCEPT !.pc = "make", !.i = i]
    /\ UNCHANGED <<snapshot, correct, raft, rafts, made, app, alarm, stale>>

\* Make, cfg.rafts[i] = rf and go applier.  Raft goes on behind its snapshot.
MakeRaft ==
    LET i == test.i
        g == made[i] + 1 IN
    /\ Running /\ test.pc = "make"
    /\ made' = [made EXCEPT ![i] = g]
    /\ rafts' = [rafts EXCEPT ![i] = g]
    /\ delivered' = [delivered EXCEPT ![i][g] = IF correct THEN persister[i][g].index ELSE 0]
    /\ app' = [app EXCEPT ![i][g] = Applier(IF snapshot THEN "begin" ELSE "range")]
    /\ test' = Idle
    /\ UNCHANGED <<snapshot, correct, agreed, persister, taken, logs, applied, lastApplied, alarm,
                   fresh, stale>>

----------------------------------------------------------------------------
(* nCommitted, wait, one *)

Calm == UNCHANGED <<snapshot, correct, raft, cfg, app, fresh, stale>>

beginOne ==
    /\ Running /\ test.pc = "idle"
    /\ \E c \in Cmd, n \in 1 .. N :
        test' = [Idle EXCEPT !.pc = "start", !.cmd = c, !.want = n]
    /\ UNCHANGED alarm /\ Calm

\* Some server that runs claims to lead and to have put the command at an index.
\* After ten seconds without success the test fails.
startCmd ==
    /\ Running /\ test.pc = "start"
    /\ \/ /\ \E i \in Server : rafts[i] # 0
          /\ \E k \in Index :
              test' = [test EXCEPT !.pc = "one", !.index = k, !.i = 0, !.count = 0, !.seen = Nil]
          /\ UNCHANGED alarm
       \/ /\ alarm' = "no agreement"
          /\ UNCHANGED test
    /\ Calm

beginWait ==
    /\ Running /\ test.pc = "idle"
    /\ \E k \in Index, n \in 1 .. N :
        test' = [Idle EXCEPT !.pc = "wait", !.index = k, !.want = n]
    /\ UNCHANGED alarm /\ Calm

Count(t, v) ==
    IF v = {} THEN [t EXCEPT !.i = @ + 1]
    ELSE [t EXCEPT !.i = @ + 1, !.count = @ + 1, !.seen = CHOOSE c \in v : TRUE]

\* One iteration of nCommitted, which takes the lock for one server at a time.
nCommitted ==
    LET i == test.i
        v == {logs[j][test.index] : j \in {k \in {i} \intersect Server : Has(k, test.index)}} IN
    /\ Running /\ test.pc \in {"one", "wait", "last"} /\ i < N
    /\ IF test.count > 0 /\ v # {} /\ v # {test.seen}
       THEN alarm' = "mismatch" /\ UNCHANGED test
       ELSE test' = Count(test, v) /\ UNCHANGED alarm
    /\ Calm

Again(pc) == [test EXCEPT !.pc = pc, !.i = 0, !.count = 0, !.seen = Nil]

\* Mutant: the command is not compared.
AgreementAnyCmd(t) == t.count > 0 /\ t.count >= t.want

\* one's test after nCommitted.
Agreement(t) == t.count > 0 /\ t.count >= t.want /\ t.seen = t.cmd

\* one returns the index, polls on, or gives up after two seconds: then it starts
\* over if its argument retry says so and otherwise fails the test.
one ==
    /\ Running /\ test.pc = "one" /\ test.i = N
    /\ \/ /\ Agreement(test)
          /\ test' = [test EXCEPT !.pc = "returned"]
          /\ UNCHANGED alarm
       \/ /\ ~Agreement(test)
          /\ test' = Again("one")
          /\ UNCHANGED alarm
       \/ /\ ~Agreement(test)
          /\ test' = Again("start")
          /\ UNCHANGED alarm
       \/ /\ ~Agreement(test)
          /\ alarm' = "no agreement"
          /\ UNCHANGED test
    /\ Calm

\* wait polls until enough servers have applied the index or it has tried often
\* enough, and counts once more; with a startTerm it may return -1 in between.
wait ==
    /\ Running /\ test.i = N
    /\ \/ /\ test.pc = "wait"
          /\ test' = Again("last")
          /\ UNCHANGED alarm
       \/ /\ test.pc = "wait" /\ test.count < test.want
          /\ test' \in {Again("wait"), Idle}
          /\ UNCHANGED alarm
       \/ /\ test.pc = "last" /\ test.count >= test.want
          /\ test' = [test EXCEPT !.pc = "returned", !.cmd = test.seen]
          /\ UNCHANGED alarm
       \/ /\ test.pc = "last" /\ test.count < test.want
          /\ alarm' = "no agreement"
          /\ UNCHANGED test
    /\ Calm

\* The test goes on with what one or wait returned.
goOn ==
    /\ Running /\ test.pc = "returned"
    /\ test' = Idle
    /\ UNCHANGED alarm /\ Calm

----------------------------------------------------------------------------
Next ==
    \/ Agree
    \/ \E i \in Server, g \in Instance :
        \/ applier(i, g) \/ Fatal(i, g)
        \/ BeginSnap(i, g) \/ InstallSnap(i, g) \/ ReceiveCmd(i, g) \/ CheckCmd(i, g)
        \/ WriteApplied(i, g) \/ TakeSnap(i, g)
    \/ \E i \in Server : crash1(i) \/ Reset(i)
    \/ MakeRaft
    \/ beginOne \/ startCmd \/ beginWait \/ nCommitted \/ one \/ wait \/ goOn

Spec == Init /\ [][Next]_vars

----------------------------------------------------------------------------
(* Properties *)

\* With a correct Raft applier never stops the test, and applierSnap does only if
\* the applier of a killed instance has used cfg.lastApplied or cfg.logs after
\* start1 had reset them for its successor.
NoFalseAlarm ==
    correct /\ alarm \in {"apply", "mismatch"} => snapshot /\ stale

NoError == Running /\ \A i \in Server, g \in Instance :
                        ~app[i][g].err /\ app[i][g].pc # "fatal"

\* Whatever Raft delivers, two servers that have applied different commands at an
\* index are on their way to log.Fatalf, as long as applierSnap has handed no
\* snapshot to Raft.  From then on this is so only of what checkLogs compares:
\* ingestSnap takes a snapshot over unseen.
MismatchReported ==
    NoError /\ taken = {} =>
        \A i, j \in Server : \A k \in DOMAIN logs[i] \intersect DOMAIN logs[j] :
            logs[i][k] = logs[j][k]

\* Snapshots of a correct Raft's log are the log: no entry is missing.
SnapshotsComplete ==
    correct /\ ~stale => \A s \in taken : \A k \in 1 .. s.index :
                              k \in DOMAIN s.xlog /\ s.xlog[k] = agreed[k]

\* What one and wait return has been applied at that index by as many servers as
\* asked for, although nCommitted looks at one server after the other.
ReturnedIsApplied ==
    test.pc = "returned" =>
        /\ Cardinality({i \in Server : <<i, test.index, test.cmd>> \in applied}) >= test.want
        /\ correct /\ ~stale => agreed[test.index] = test.cmd
=============================================================================
