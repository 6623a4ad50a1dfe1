# A TLA+ model of the 6.824 labs

This directory holds a formal model of the Go code of this repository: TLA+
modules of its concurrent parts, configurations with which TLC checks them on
small instances, and proofs, checked by TLAPS, that their safety properties hold for
instances of every size. `PROJECT.json` lists the components, the runs, the theorems
and the hazards, and names for every definition the lines of Go it stands for. Paths below are relative to `src/src/`.

## 1. The system

The repository is a set of laboratory exercises for a distributed systems
course: a framework (network, testers, checker), and as much of the exercises as
the author has solved. MapReduce and Raft without persistence are solved. The
replicated and sharded key/value servers are skeletons, but their clerks and
their testers are complete.

| part | code | state | operations | model |
|---|---|---|---|---|
| Raft peer | `raft/raft.go` | term, vote, role, log, indices, goroutines | `Start`, `AttemptEletion`, `RequestVote`, `HeartBeat`, `AppendEntries`, `apply`, `Make`, `ticker`, `Kill` | `Raft`, `ElectionTimer` |
| MapReduce | `mr/*.go`, `main/mrcoordinator.go`, `mrapps/crash.go` | status of tasks, timers, files | `HandleWorker`, `HandleFinish`, `Done`, `Worker`, `doMap`, `doReduce` | `MapReduce` |
| network | `labrpc/labrpc.go` | ends, connections, servers, calls in flight | `Call`, `processReq`, `Enable`, `Connect`, `AddServer`, `DeleteServer`, `Cleanup` | `Labrpc` |
| linearizability checker | `porcupine/checker.go`, `bitset.go`, `models/kv.go` | linked list, stack, cache, goroutines | `checkSingle`, `lift`, `unlift`, `checkParallel` | `Porcupine` |
| testers, persister | `raft/config.go`, `kvraft/config.go`, `shardctrler/config.go`, `shardkv/config.go`, `raft/persister.go` | instances, ends, persisters, what servers applied | `crash1`, `start1`, `ShutdownServer`, `StartServer`, `partition`, `connect`, `applier`, `applierSnap`, `nCommitted`, `wait`, `one` | `Tester`, `TesterChecks` (partly) |
| clerks | `shardkv/client.go`, `shardctrler/client.go` | configuration, position in lists of servers | `Get`, `PutAppend`, `Query`, `Join`, `Leave`, `Move` | `ShardClerk` |
| labgob | `labgob/labgob.go` | set of checked types | `Encode`, `Decode` with checks | none |
| visualization | `porcupine/visualization.go` | none | builds a page | none |
| servers of labs 3 and 4 | `kvraft/server.go`, `shardctrler/server.go`, `shardkv/server.go`, `kvraft/client.go` | skeletons | empty handlers | none |
| programs | `main/mrsequential.go`, `mrapps/*.go`, other mains | none | pure functions, tests of timing | none |
| commented-out code | `raft/raft_sleep.go`, `mr/coordinator_1.go` | none | none | none |

How the parts interact. Raft peers call each other through labrpc. A tester
makes the network, the peers and their persisters, cuts and restores connections
and restarts peers; it cannot stop goroutines, so an old instance of a peer goes
on beside the new one. The testers of labs 3 and 4 record what clerks do and give
the history to porcupine. A shardkv clerk asks the controller, through a
shardctrler clerk, which group serves a key. MapReduce is separate: workers
are processes that call the coordinator over `net/rpc` and share a directory.

What is hard to test in this code: votes, acknowledgements and heartbeats are
counted by goroutines that outlive the state in which they started; the status of
a MapReduce task is changed by handlers, timers and reports without a common lock;
a reply races the deletion of the server that sends it; the checker stops its
goroutines half way; a tester copies the persister of an instance that still
writes, and its appliers and those of the successor share their tables; two
calls of `ticker` store a timer in one field; a clerk repeats a call that may already have been carried out. Each place
is a hazard in `PROJECT.json`, at its line, with the properties that look at it.

## 2. The modules

Every component has a specification module, an `MC` module that instantiates it
for TLC (`ElectionTimer` needs none) and a `Proofs` module (`RaftProofs` is also the one
of `ElectionTimer`; `PorcupineProofs` extends `PorcupineLemmas`). `Job` and `Rpc` are
abstract specifications: what the coordinator and the network promise.

### Raft

`Raft.tla` has one action for every critical section of `rf.mu` and one for every
step a goroutine takes without the lock.

- A goroutine that waits for a call or for the lock is a record in `rvReq`,
  `rvRep`, `hbTask`, `aeReq` or `aeRep`. Each may go on at any time, in any order.
- `AttemptEletion` and the anonymous goroutine in it are `ElectionTimeout`,
  `AttemptEletion` and `VoteReply`. `pending` counts goroutines the timer has
  started that have not run yet: `AttemptEletion` does not look at the role again.
- `RequestVote` and `AppendEntries` are handlers with one disjunct per way out.
  `GrantVote` keeps the role of the voter, as the code does. `StepDown` answers
  success without touching the log, as the code does.
- `HeartBeat`, `SendAppendEntries` and `AppendReply` are the loop, the part of its
  goroutines that builds the arguments, and the part that handles the reply. They
  read the term, the log and `nextIndex` when they run, not when the round began.
- `apply` takes no lock. `ApplyAdvance` raises `lastApplied` and `ApplySend` reads
  the log, with anything in between. An index beyond the log kills the process.
- `Restart` gives a server the fields `Make` gives it, because `persist` and
  `readPersist` are empty. Requests it has sent stay in flight.
- `cast` is history: every vote with the role of the voter when it was cast.

Abstractions. The election timer is not a variable: every role but the leader
has a timer armed or a goroutine under way, so it may fire at any moment; this
includes timers that the code leaks. `ElectionTimer` justifies it. `matchIndex` is written and never read, and
left out. The arguments of a call are fixed when they are built; that labgob
encodes `Entries` and `TermToIndex` after the unlock, while `Start` may change
the shared map, is a hazard the model does not have. A lost call is one that is
never delivered, or with `Lossy` one that fails. `Snapshot` and
`CondInstallSnapshot` are empty in the code.

### ElectionTimer

`ElectionTimer.tla` models what `Raft.tla` abstracts from: the field
`rf.electionTimeout` of one server. `ticker` is two steps, `Stop` (the test of
`killed`, and the old timer stopped) and `AfterFunc` (a new one armed and stored).
Handlers call it with `rf.mu` held (`Reset`), `Make` and `AttemptEletion` without, so
calls overlap. A timer that has expired is a callback that waits for the lock; it tests
the role, and starts an `AttemptEletion` that takes the lock again and tests nothing.
The other servers are an environment that makes this one win, step down or reset its
timer. `overlapped` is history. `RaftProofs` extends this module and `Raft.tla`, so the
names of the two differ: here `role` is `rf.state`, `Attempt` is `AttemptEletion`,
`TimerInit`, `TimerNext` and `TimerSpec` make up the specification.

### MapReduce

`MapReduce.tla` models the coordinator at the granularity of single accesses to
`Status`. `HandleWorker` holds the mutex and is a loop with the program counter
`hpc`; `HandleFinish`, the timers and `Done` do not take the mutex and run in
between. A worker is a small program (`pc`, `task`, `file`, `block`). A file is
the set of blocks written to it: `os.Create` empties it, and every writer has an
offset of its own, so two attempts at one task damage each other's file as they do
on disk. A worker may crash at any step, `doMap` may fail, and with `DiskErrors`
the errors that `doReduce` ignores happen. `mishaps` is history: it counts timers that
expire while their worker is still at work and errors that were ignored. It
separates what the ten seconds are meant for from what they do to a slow worker. `Job.tla` is the abstract job.

### Labrpc

`Labrpc.tla` follows a call from `Call` through the channel of the network and
`processReq` to its return: the look-up of the end, the delays, the drop of a
request, the dispatch to a handler goroutine, the poll for a dead server, the last
look after the handler has returned, the drop or the reordering of the reply.
The tester toggles, connects, adds, deletes and cleans up meanwhile. A server is
a number, so that a server that was replaced under its name can be told from its
successor, as the pointer comparison in `isServerDead` does. Handlers of the calls
in `Hanging` may never return. Delays are steps that may come late. Counters of
calls and bytes are left out. `Rpc.tla` is the abstract call, and also what the
module `Raft` assumes of the network.

### Porcupine

`Porcupine.tla` models `checkSingle` with its doubly linked list, stack, bitset,
cache and `longest`, one goroutine per key, and `checkParallel` with the kill flag
and the timeout. `Init` chooses any history of at most `NOp` operations, the empty one included, with any times,
equal ones included, and any order of the entries that `sort.Sort`, which is not
stable, may leave: `byTime` does not tell two calls, or two returns, of one moment
apart. The reference is a definition of linearizability over the
whole history (`Linearizable`), without keys or search. The number of bits in a
word of a bitset is a constant, so that small histories need several words. The
search for histories of events (`checkEvents`) is the same, nothing in the repository
calls it, and it is left out.

### Tester

`Tester.tla` models what `config.go` of the labs does to servers: the steps of a
shutdown (`crash1`, `ShutdownServer`) and of a start (`start1`, `StartServer`) are
sequences that one thread works off (`todo`), while instances of servers, old ones
included, handle calls and save their state. `Init` chooses the lab. A client end
is named by owner, instance and target; a `Persister` is an element of a
sequence per server, so that the copies an old and a new instance write to are
different objects. `shardctrler/config.go` repeats `kvraft/config.go`. The
instances are external: an instance saves what it did
before it answers, which is what the comments in the testers assume of a server.
`Deliver` and `Reply` are `processReq` of `labrpc` as seen from the tester: a reply may
succeed only if its instance is still the registered one, and may always fail, because the
request was dropped, the reply was, or the end it came through is disabled by now.
`MakeEnd` is the closure `make_end` that shardkv's `StartServer` gets: it makes an end and
enables it, and no one keeps its name. `Elsewhere` stands for wherever it leads.
`PartitionLeader` is `make_partition` followed by `partition`, with the zeros that the
slices of `make_partition` are padded with; it needs two servers, because with one the
code indexes a slice at -1. `cut` is history: the leaders set apart by the last partition.
Not modelled: the checks for leaders and terms (`checkOneLeader`, `checkTerms`,
`checkNoLeader`), which only read, statistics, deadlines and `cleanup`.

### TesterChecks

`TesterChecks.tla` models the tables `cfg.logs` and `cfg.lastApplied` of
`raft/config.go` and all that touches them. An applier is a goroutine per instance of a
server: `applier` handles a command in one critical section; `applierSnap` looks its
instance up (`BeginSnap`), compares the index with `lastApplied` without the lock
(`ReceiveCmd`), runs `checkLogs` (`CheckCmd`), writes `lastApplied` (`WriteApplied`),
takes a snapshot without the lock (`TakeSnap`) and only then stops the test if there was
an error. The goroutine of the test crashes and restarts servers (`crash1`, `Reset`,
`MakeRaft`) or is in `one` or `wait`, which call `nCommitted`, one server per step. `Init`
chooses the kind of applier and whether Raft, which is external, is correct: then every
instance delivers one agreed sequence in order, or a snapshot that leads further;
otherwise any index and command. A snapshot is modelled as the values it holds, with
nil where the log had no entry; Raft saves it or ignores it. `stale` is history: the
applier of an old instance has used the tables after `start1` reset them for its
successor. `checkFinished`, which ends `one` during cleanup, is left out.

### ShardClerk

`ShardClerk.tla` models the loops of both clerks: a shardkv clerk tries the servers
of the group its configuration names, leaves the loop at `ErrWrongGroup`, and asks
the controller again; a shardctrler clerk rotates over its servers until one is the
leader. Configuration #0, a group without servers and the empty key are included.
Controller, groups and network are external, because the servers are not written:
a leader of the group that owns the shard carries a request out, a call may fail
before or after that, and a request whose call has failed may be carried out late.
The requests carry no identity, so an `Append` may take effect twice; to prevent it
is left to the server.

## 3. The runs

The states are the distinct ones; a run takes at most about three minutes with two workers.

| run | instance | states | checks |
|---|---|---|---|
| `RaftElections` | 3 servers, 2 terms, 3 elections, 1 round, 1 restart per server | 1,314,443 | `ElectedByMajority`, `FollowerVoteBinds`, `DoubleWinNeedsBrokenVoter`, `FirstTermElectionSafety` |
| `RaftLogs` | from an elected leader, 2 terms, 2 commands, logs of 2, 2 rounds, 1 restart per server, lost calls | 2,118,711 | `StateMachineSafety`, `LogTermsOrdered`, `LeaderNextIndexInRange` |
| `TimerRaces` | 3 timers and goroutines at a time, fairness | 19,423 | `TimerOrElection`, `LeakNeedsOverlap`, `SilentServerElects`, `KilledGoesQuiet` |
| `MapReduceRace` | 2 workers, 1 + 2 tasks, 1 fault, 1 mishap, disk errors, fairness | 1,219,573 | `OneTimerPerAttempt`, `ReduceAfterMaps`, `NeverNil`, `TimelyOutputCorrect`, `ImplementsJob`, `JobEnds` |
| `LabrpcCalls` | 2 calls, 2 ends, 1 name, 2 servers, 2 toggles, fairness | 604,920 | `NoReplyFromDead`, `ImplementsRpc`, `CallReturns`, `KilledServerFailsCalls`, `HandlersDrained` |
| `PorcupineCheck` | all histories of up to 3 operations out of 5 on 2 keys, 2 times, words of 2 bits, fairness | 1,699,970 | `ListIntact`, `LongestIsLongest`, `VerdictCorrect`, `CheckReturns` |
| `TesterRestarts` | 3 servers, 3 labs, 1 restart, 2 calls | 2,276,239 | `AcknowledgedIsSaved`, `StateFitsSnapshot`, `OldInstanceSilent`, `Connectivity`, `LeaderInMinority` |
| `TesterApplied` | 2 servers, 2 commands, 3 indices, a snapshot at index 2, 1 restart | 4,477,597 | `NoFalseAlarm`, `MismatchReported`, `SnapshotsComplete`, `ReturnedIsApplied` |
| `ClerkRetries` | 1 appender, 1 reader, 2 groups of 2 servers, 2 reconfigurations, 1 fault, fairness | 733,604 | `AppendWasDone`, `GetIsFresh`, `CallReturns`, `AdminReturns` |
| `RaftTwoLeaders` | 3 servers, 2 terms | violated | `OneLeaderPerTerm` |
| `RaftMismatch` | 3 servers, 2 terms, 2 commands | violated | `CommittedValuesMatch` |
| `MapReduceSlow` | 2 workers, 1 + 1 tasks, files of 2 blocks | violated | `OutputCorrect` |

### What the passing runs show

**Raft.** A leader was elected by a majority that voted in its term. The vote of a
follower binds, although `conevrtToFollower` clears `votedFor`: it does so within a
term only for a candidate or leader. Two winners of one term share a voter that was no
follower or crashed between its two votes, because `persist` is empty. In term 1 only the
crash can do it: a server enters that term as a follower. In that term, before any restart or further
election, no two servers apply different commands, with stale replies and heartbeats in any order. With crashes and
lost calls logs stay ordered by term, and a leader never indexes its log
out of range, although `termToIndex` comes from another server's log.

**Election timer.** However calls of `ticker` overlap, a live server that does not lead
has a timer, a waiting callback or a goroutine that leads to an election. If it hears
nothing more it stands again and again. A timer that no heartbeat can stop needs two
calls that overlap; they do, because two callers do not hold the lock. Such a timer
fires once, whatever the server hears meanwhile. After `Kill` all of them come to rest.

**MapReduce.** In spite of the plain store in `HandleWorker`, a finished task stays
finished and a running task has exactly one timer. The second `getReduceTask`,
whose result is not checked, finds a task: while the mutex is held a reduce task
that is not running cannot change. The lock-free scan of `Done` is true only when
all is finished. The output is complete if no worker outlives its timer and
`doReduce` has ignored no error. The job ends if one worker stays alive.

**labrpc.** A call that returns true was handled, once, by a server that was
registered when the handler returned. Every call returns unless its handler hangs on
a live server. No handler goroutine is left on its channel.

**porcupine.** The verdict agrees with the definition of linearizability for every
history of the instance, with and without `computeInfo` and timeout. It always comes, with
one exception: an empty history starts no goroutine, so without a timeout `checkParallel`
waits for ever (`CheckReturns` states both). The tests of the repository always set
a timeout.

**Testers.** What a server has acknowledged is in the persister its successor gets,
for every moment of a shutdown, because the server is deleted from the network before
the copy. State and snapshot of a copy belong together. The ends that
`StartServer` made for an old instance stay disabled. Those of shardkv's `make_end` do not:
`ShutdownServer` knows only the names in `endnames` and `mendnames`, so a killed shardkv
server can still send through an end it had made. `OldInstanceSilent` excepts these ends and
no others; no server under `src/` calls `make_end` yet. Connections are symmetric after any sequence of operations.
`make_partition` leaves the leader in a minority with three servers; the proof extends
this to every odd number. With an even number it is not so: the zeros that pad its
slices can put server 0 into both parts. The tests use three or five servers.

**The checks of the raft tester.** As long as no snapshot has been taken, two servers that
have applied different commands are reported, whatever Raft delivers. After that they
need not be: `ingestSnap` replaces a log and compares it with nothing. `one` and `wait` return only what enough servers
have applied, although `nCommitted` adds up what it saw at different moments. With a
correct Raft `applier` gives no alarm. `applierSnap` can: the applier of a
killed instance goes on with the old index after `start1` has set `lastApplied` to 0,
or moves the index under the applier of the new one. `NoFalseAlarm` says that this
is the only way, `SnapshotsComplete` that without it no snapshot misses an entry.

**Clerks.** A `PutAppend` that returned was carried out, a `Get` sees every append that
had returned when it was called, and both return if the shard stays with a group.

### What the violated runs show

- `RaftTwoLeaders`. `RequestVote` (`raft/raft.go:366`) sets the term of a leader and
  leaves its role. A leader of term 1 that grants a vote of term 2 is then a leader of
  term 2, beside the candidate. `raft/config.go:449` fails a test on this.
- `RaftMismatch`. A leader or candidate that steps down in `AppendEntries`
  (`raft/raft.go:276`) answers success without appending. The sender counts it
  towards a majority, and two servers commit different commands at one index.
  `raft/config.go:510` fails a test on this.
- `MapReduceSlow`. A worker that needs more than ten seconds goes on writing to the file
  of its successor (`mr/worker.go:179`). A finished job can have incomplete
  output, which `main/test-mr.sh` compares with the correct one.

### Bounds

Bounds stop behaviours, so deadlock is not checked in most configurations; in
the others the programs end. The bounds admit the cases the properties are about.
Two terms and three elections let a server vote, step down and vote again within a
term. One restart per server lets it vote, forget and vote again. Two rounds let an acknowledgement of one round arrive in the next and a delayed
request cut a log back. One crash and one slow worker are what it takes for two
attempts at one task. Two servers under one name are a replacement during a call.
Two toggles enable an end and disable it again. Up to three operations on two keys with
times 1 and 2 contain overlapping, touching and ordered operations; two bits per
word make the bitset need a second word. One restart gives an old and a new instance
side by side. Two reconfigurations make a clerk's configuration stale. Three timers are
one stored, one leaked and one waiting; `TimerRaces` never lacks one to allocate.

`RaftElections` has the constraint `CrashesBrief`: three elections up to term 2 as long as
nobody has crashed, three elections of term 1 after the crash of one server, two elections
after the crashes of several. `RaftLogs` starts from a state that `Spec` reaches (`InitElected` in `MCRaft`), so that
the bounds are spent on what follows the election. Its constraint `FirstTermOrBrief`
keeps what is either in the first term, with the full bounds on logs and rounds, or
brief: one command and one round, but a second term, restarts and lost calls.
`CrashesAndLosses` lets a server crash only while all is brief, and calls fail only after
a crash; to safety a failed call is one that never arrives. `MapReduceRace` has one map
task, because the theorems below cover every number of tasks. In
`TesterApplied`, `OneRestarts` lets server 0 restart and, with an incorrect Raft, nobody:
such a Raft can deliver anything from the first instance. `Small` has neighbours in the
agreed sequence differ, so that a command at a wrong place is noticed, and keeps the
agreement checks to the first two indices. `SnapShotInterval` is 3 instead of 10: the
snapshot at index 2 holds two entries, and a third index follows it.

Symmetry is used only where
no liveness is checked and for values that are compared for equality only.

### Fairness

`MapReduceRace`: goroutines and processes that can run do, timers expire, and a
mutex that is free goes to somebody who waits; that is what the Go scheduler, the
clock and `sync.Mutex` give. Crashes and slow attempts are bounded, not fair.
`TimerRaces`: goroutines run and timers expire; a callback or an `AttemptEletion` that
waits for `rf.mu` gets it even if handlers keep taking it (strong fairness), because
`sync.Mutex` hands the lock to a waiter that has starved for a millisecond.
`LabrpcCalls`: the goroutines of the network run; a handler returns unless it is in
`Hanging`. `PorcupineCheck`: the goroutines run, answers are received, and a timer
that was set goes off. `ClerkRetries`: clerks run, servers answer and shards move; failures
and changes of leaders are bounded. No run assumes that a network delivers or that a
worker survives.

## 4. What is proved

The theorems hold for every value of the constants that satisfies the `ASSUME`s of
the component's module: any finite set of servers, any number of workers, tasks,
calls, clerks and names, any bounds. One theorem assumes more, and says so: `LeaderInMinorityHolds`. Each states a property that
a run checks, except `TypeCorrect` and `Invariance`, which state types and inductive
invariants, `DoneTellsTruth` and `FinishedIsFinal`, which `ImplementsJob` includes, and
`Locality`, on which `VerdictCorrectHolds` rests.

Every proof has the same shape. An inductive invariant is defined, one lemma per action, or
per group of actions that touch the same state, says that it is kept, and the property
follows from it. TLC has checked the inductive invariants on the instances of the runs. Leaves cite `Zenon` where the obligation is first-order or where
the translation to SMT is slow.

### Raft

All of it is in `RaftProofs`.

- `TypeCorrect`. `TypeOK` is not inductive: a heartbeat goroutine takes
  `nextIndex - 1`, which is a natural number only if the server has led, and `ApplySend`
  reads the log at `lastApplied`, which must not be 0. `TypeInv` adds these two
  facts. `LogTermsAreOrdered` from `LogInv`: logs are ordered and bounded by
  the term of their server, and so are the prefix and the entries of every request in
  flight, however old. That requests are included is the point: `AppendEntries`
  splices what they carry onto what it finds. `LeaderIndexesInRange` from `IndexInv`:
  every `termToIndex`, in a server or in a request, points into the log it came with.
  `FollowerVotesBind` from
  `BindInv`: a vote cast as a follower by the current incarnation is held as long as
  the voter is in that term.
- `WinsHaveMajority` and `DoubleWinsNeedBrokenVoter` from
  `ElectionInv`. Its core is `CountInv`: the counter of an election is at most the
  number of voters whose reply has been handled, which needs that a call is in flight
  only once (`CallInv`) and that replies reach only the incarnation that called
  (`ReplyInv`). Two majorities then share a voter, and `BindInv` says what it did.
  `FirstTermElectionIsSafe` from `CrashInv`, with any number of crashes: as long as no
  server has voted for two candidates of term 1 in two incarnations (`VotedAgain`), a
  candidate or leader of term 1 holds its own vote, a candidate steps down only for
  somebody who is elected (`Stands`), a vote for another was cast by a follower
  (`VotesWithCrashes`), and heartbeats of the term come from an elected server, even if it
  has crashed since (`BeatsWithCrashes`). A server is `Elected` if more than half of the servers
  voted for it without ever having been candidates against it (`Loyal`): such voters
  have one vote, and two majorities of them share a voter, so one server at most is elected.
- `StateMachineSafetyHolds` from `FirstInv`, on top of the two above; without a
  crash `CrashInv` gives the one winner (`Calm`). While all servers
  are in term 1 and none has crashed, every log is a prefix of the log of the one winner,
  every request in flight, however old, carries a piece of that log from the place it
  names, and what a server has applied is what stands there. A delayed request may cut a
  follower's log back but cannot put anything else into it, so agreement needs no majority
  here; it is the winner's own log that only grows that carries it. `apply` runs without
  the lock: `Counting` relates the length of what was applied to `lastApplied` between
  its two steps. In a second term all this fails, as `RaftMismatch` shows.

### Election timer

In `RaftProofs` too. `ElectionAlwaysPending` is inductive with the types: every step
that takes one reason for an election away leaves another. `LeaksNeedOverlap` needs
`LeakInv`: as long as calls of `ticker` have not overlapped, at most one is between
`Stop` and `AfterFunc`, and while one is no timer is armed.

### MapReduce

`MapReduceProofs` proves `TypeCorrect`; then, from `CoordInv`,
`EveryAttemptHasItsTimer`, `ReducesWaitForMaps`, `SecondCallFindsTask`,
`DoneTellsTruth` and `FinishedIsFinal`. `CoordInv` adds to the properties what the
loops of `HandleWorker` and of `Done` have established about the tasks they have
passed, and that timers and reports cannot undo it: a step changes a status only
from not run to running, from running to not run and from running to finished
(`StatusStep`). `CoordinatorImplementsJob` maps every step to a step of `Job` or to a
stutter. `OutputIsCorrect` is `TimelyOutputCorrect` for every
instance; `OutputInv` says that, as long as there is no mishap, a task has one writer and its files are
complete up to the writer's position.

### labrpc

`LabrpcProofs` proves `TypeCorrect`, `DeadServersDoNotReply` and
`NetworkImplementsRpc` from `Inv`: where a call is determines the state of its
handler (`Places`), and a server that is not registered under its name any more
never will be again (`StaleInv`, from `RegInv`).

### porcupine

`PorcupineLemmas` has the lemmas about lists, bitsets, histories and single steps, and
`Locality`; `PorcupineProofs` proves the three safety properties of the checker from three
invariants, for any history, any set of keys and operations and any width of a word. It assumes that
nil is neither a number nor a sequence (`NilAssumption`).

- `ListInv` is the shape of a search. The stack is a sequence of calls, each of them ready
  and accepted when it was taken (`Stack`). The list is what the stack has left over,
  linked both ways, and every lifted node still points to where it belongs once the nodes
  lifted after it are back (`List`): that is why `unlift` is the inverse of `lift` only on top of the
  stack. The bitset has a bit for each operation on the stack; the lemmas on bitsets do
  the division by the width of a word. `ListIntactHolds` follows.
- `SearchInv` is what the search has tried. `Explored(h, D, st, ...)` says that no order of
  the remaining operations leads from the operations `D` and the state `st` to the end, and
  that `longest` knows every order that starts there. On every level of the stack the calls before the
  cursor have been explored (`AllTried`). A cache entry was explored or is on the stack
  (`CacheTried`), and it cannot be on the stack below the place where it is found, because
  the stack has fewer operations there: so the cache is sound to skip by. Every entry of `longest`
  is an order that could have been (`LongestReal`). `LongestIsLongestHolds` follows.
- `ControlInv` is the bookkeeping of `checkParallel`. A false answer is looked at only
  while `kill` is not set, and then means that its search has explored everything; what a
  search that was stopped answers is dropped. `Ok` needs a true answer from every part.

`VerdictCorrectHolds` then needs `Locality`: a history is linearizable exactly if each of its
parts is, which `model.go` states without proof for a model that is partitioned by key. `Split`: a full
order contains one for each key, and the value of a key does not change between its own
operations (`SameValues`). `Join`: given an order for each key, every operation gets as its
moment the latest call among the operations of its key up to it (`Clock`); that lies between its own call and its
return, because an operation that returned before another's call precedes it in the
order of their key. Sorting by moment, then by key, then by place merges the orders
(`Merge`) without turning a pair around.

The values of the keys along an order are a recursive function, and orders have any length.
The inductions over them go through `Least`, as for the testers below.

### Testers

`TesterProofs` proves `Invariance` of `IInv`, which has two halves.

- `Storage` is about persisters. Every instance has a persister of its own, and the
  registered one has the persister that the next instance will get (`Own`). From
  `DeleteServer` to `AddServer` the network knows no server of that name (`Gone`), so
  nothing is acknowledged between the copy and the start. Until the new instance is made
  the copy is nobody's (`NotGiven`), so no old instance can write to it. A
  persister holds a call in the raft state or in the snapshot, never in both (`Fits`).
  `Calls` ties the calls to it: one that was acknowledged is in the saved persister.
  `AcknowledgedIsSavedHolds` and `StateFitsSnapshotHolds` follow.
- `Network` is about ends. Enabled ends that no `make_end` made have current names, and none
  belongs to a server that is down (`EndsCurrent`); until `make_config` returns every server is started once
  (`Making`); which ends are enabled is what `connected` says in `raft`, and symmetric in `kv`
  (`Linked`). `OldInstanceSilentHolds` and `ConnectivityHolds` follow.

`LeaderInMinorityHolds` assumes that `N` is odd. `Cut` says that after a partition around
the leader, and until connections change again, the leader reaches at most half of the
servers while a majority is fully connected. The lemmas count the two slices of
`make_partition`, zeros included, and show that connecting each part in turn connects
exactly what is within a part, whatever the partition was before.

`partition` treats the servers of a part in a loop (`Separate`), and what the loop leaves behind
is shown for any number of them. The provers have no induction scheme for this; the lemma
`Least` gives every non-empty set of naturals a least element, from the library's
theorem on well-founded orders, and the loop is followed to the first place where the
claim would fail.

### Checks of the raft tester

`TesterChecksProofs` proves `Invariance` of `IInv`. Instances and tables belong together
(`Instances`), every entry of a log was applied by its server (`LogsApplied`), and the
counter of `nCommitted` is at most the number of servers that have applied what it saw
(`Counted`): `ReturnedIsAppliedHolds`, for any interleaving with the appliers.
`InStep` says that with a correct Raft, and no applier of a killed instance at the tables,
`lastApplied` and the log stay in step with what the newest instance has delivered, at each of
the steps `applierSnap` takes without the lock: `NoFalseAlarmHolds` and
`SnapshotsCompleteHolds`. `MismatchReportedHolds` is for any Raft.

### Clerks

`ShardClerkProofs` proves `Invariance`, `AppendWasDoneHolds` and `GetIsFreshHolds`. The
properties are about calls that have returned; what carries them is said of replies
under way. An OK for an append means the value has it (`AppendsDone`), and a reply that
ends a `Get` has everything that had returned when it was called (`RepliesFresh`).
The groups only ever add to the value, so a late or repeated request disturbs neither.

### Only model-checked

- Liveness (`JobEnds`, `CallReturns`, `KilledServerFailsCalls`, `HandlersDrained`,
  `CheckReturns`, `AdminReturns`, `SilentServerElects`, `KilledGoesQuiet`) is out of the
  prover's reach. Every safety invariant, action property and refinement that a passing
  run checks is also proved.
- That the theorems are not about an empty set of behaviours: the passing runs reach every
  action.

## 5. What is not modelled

- labgob: encodings are taken to preserve values. What `Encode` and `Decode` check is a
  recursion over Go types; lower-case fields and non-default reply values only print
  warnings, and the set of checked types never reaches the programs.
- The servers of labs 3 and 4 are skeletons; there is nothing to model.
- The checks of the testers for leaders and terms, which read and compare; statistics;
  deadlines. `shardctrler/config.go` repeats `kvraft/config.go`.
- `visualization.go`, `mrsequential.go`, the MapReduce applications and the other main
  programs have no state that lives across steps.
- Sharing of memory between a Raft peer and the encoder of its requests.
- Durations. A timeout is a step that may come at any time.

## 6. What could come next

1. The composition of `Raft` with `Rpc` in place of its own sets of calls.
2. `checkEvents` with `renumber` and `convertEntries`, should a test begin to use it.
3. A proof that `Rpc` is all that `Raft` needs of the network.
