------------------------------ MODULE MapReduce -----------------------------
(***************************************************************************)
(* The MapReduce coordinator and workers of src/mr.  Handlers of worker    *)
(* calls run concurrently in the coordinator: HandleWorker under c.mutex,  *)
(* HandleFinish, the ten second timers and Done without it.  Every access  *)
(* to a task's Status is a step of its own.                                *)
(*                                                                         *)
(* A file is the set of its blocks that are written: os.Create empties it, *)
(* and each write puts one block at the writer's own offset.               *)
(***************************************************************************)
EXTENDS Integers, FiniteSets

CONSTANTS
    Worker,     \* the worker processes
    None,       \* no worker, no task
    NMap,       \* number of input files
    NReduce,    \* number of reduce tasks
    NBlock,     \* writes it takes to fill an intermediate or output file
    MaxMishaps, \* bound on early timers and ignored errors together
    MaxFaults,  \* bound on worker crashes and failed doMap calls
    DiskErrors  \* whether the file operations of doReduce may fail

ASSUME SizesAssumption ==
    /\ NMap \in Nat \ {0} /\ NReduce \in Nat \ {0} /\ NBlock \in Nat \ {0}
    /\ MaxMishaps \in Nat /\ MaxFaults \in Nat /\ DiskErrors \in BOOLEAN
ASSUME NoneAssumption == None \notin Worker

NOTRUN   == 0
RUNNNING == 1
FINISHED == 2

MapTask    == {"MAP"} \X (1 .. NMap)
ReduceTask == {"REDUCE"} \X (1 .. NReduce)
Task  == MapTask \union ReduceTask
Block == 1 .. NBlock

VARIABLES
    status,     \* Status of every task
    timers,     \* number of timer goroutines sleeping for a task
    owner,      \* history: the worker a task was last handed to
    cpc,        \* the coordinator process: run, done, exited, panicked
    scan,       \* loop index of Done
    holder,     \* the worker whose HandleWorker call holds c.mutex
    hpc,        \* where that call is
    hi,         \* its loop index
    hcall,      \* which of its two getReduceTask calls is running
    pc,         \* the worker: ask, wait, map, reduce, finish, exited, crashed
    task,       \* the worker's task
    file,       \* loop index over files in doMap and doReduce
    block,      \* the next block to write, 0 for os.Create
    whole,      \* doReduce has found all its input complete so far
    inter,      \* mr-m-r: the blocks written
    out,        \* mr-out-r: what each block holds
    mishaps,    \* history: timers that expired while their worker still worked,
                \* and errors that doReduce ignored
    faults      \* crashes and failed doMap calls so far

taskVars == <<status, timers, owner>>
coordVars == <<cpc, scan>>
callVars == <<holder, hpc, hi, hcall>>
workVars == <<pc, task, file, block, whole>>
fileVars == <<inter, out>>
vars == <<taskVars, coordVars, callVars, workVars, fileVars, mishaps, faults>>

Init ==
    /\ status = [k \in Task |-> NOTRUN]
    /\ timers = [k \in Task |-> 0]
    /\ owner  = [k \in Task |-> None]
    /\ cpc = "run" /\ scan = 1
    /\ holder = None /\ hpc = "free" /\ hi = 1 /\ hcall = 1
    /\ pc    = [w \in Worker |-> "ask"]
    /\ task  = [w \in Worker |-> None]
    /\ file  = [w \in Worker |-> 1]
    /\ block = [w \in Worker |-> 0]
    /\ whole = [w \in Worker |-> TRUE]
    /\ inter = [m \in 1 .. NMap |-> [r \in 1 .. NReduce |-> {}]]
    /\ out   = [r \in 1 .. NReduce |-> [b \in Block |-> "none"]]
    /\ mishaps = 0 /\ faults = 0

\* The coordinator process still runs: Done's caller sleeps before it exits.
Up == cpc \in {"run", "done"}
Dead(w) == pc[w] \in {"exited", "crashed"}

----------------------------------------------------------------------------
(* HandleWorker *)

\* A worker's call enters the handler and takes the mutex.
Lock(w) ==
    /\ Up
    /\ pc[w] = "ask"
    /\ holder = None
    /\ pc' = [pc EXCEPT ![w] = "wait"]
    /\ holder' = w /\ hpc' = "getMapTask" /\ hi' = 1 /\ hcall' = 1
    /\ UNCHANGED <<taskVars, coordVars, task, file, block, whole, fileVars,
                   mishaps, faults>>

\* The handler returns: its worker, if it still lives, goes on at "next" with k.
Reply(next, k) ==
    /\ holder' = None /\ hpc' = "free" /\ UNCHANGED <<hi, hcall>>
    /\ IF pc[holder] = "wait"
       THEN /\ pc'    = [pc EXCEPT ![holder] = next]
            /\ task'  = [task EXCEPT ![holder] = k]
            /\ file'  = [file EXCEPT ![holder] = 1]
            /\ block' = [block EXCEPT ![holder] = 0]
            /\ whole' = [whole EXCEPT ![holder] = TRUE]
       ELSE UNCHANGED workVars

GoTo(p, i, c) ==
    /\ hpc' = p /\ hi' = i /\ hcall' = c
    /\ UNCHANGED <<holder, workVars, cpc>>

GetMapTaskRunning ==
    /\ Up /\ hpc = "getMapTask"
    /\ \/ /\ status[<<"MAP", hi>>] # FINISHED
          /\ GoTo("assignMap", hi, 1)
       \/ /\ status[<<"MAP", hi>>] = FINISHED
          /\ IF hi < NMap THEN GoTo("getMapTask", hi + 1, 1)
             ELSE GoTo("mapFinished", 1, 1)
    /\ UNCHANGED <<taskVars, scan, fileVars, mishaps, faults>>

\* getMapTask looks at one task.
GetMapTask ==
    /\ Up /\ hpc = "getMapTask"
    /\ \/ /\ status[<<"MAP", hi>>] = NOTRUN
          /\ GoTo("assignMap", hi, 1)
       \/ /\ status[<<"MAP", hi>>] # NOTRUN
          /\ IF hi < NMap THEN GoTo("getMapTask", hi + 1, 1)
             ELSE GoTo("mapFinished", 1, 1)
    /\ UNCHANGED <<taskVars, scan, fileVars, mishaps, faults>>

\* A getReduceTask call returns nil: the first leaves the worker without a
\* task, the second is dereferenced.
NilTask ==
    \/ /\ hcall = 1 /\ Reply("ask", None) /\ UNCHANGED cpc
    \/ /\ hcall = 2 /\ cpc' = "panicked" /\ UNCHANGED <<callVars, workVars>>

MapFinishedStarted ==
    /\ Up /\ hpc = "mapFinished"
    /\ \/ /\ status[<<"MAP", hi>>] = NOTRUN
          /\ NilTask
       \/ /\ status[<<"MAP", hi>>] # NOTRUN
          /\ IF hi < NMap THEN GoTo("mapFinished", hi + 1, hcall)
             ELSE GoTo("getReduceTask", 1, hcall)
    /\ UNCHANGED <<taskVars, scan, fileVars, mishaps, faults>>

\* getReduceTask checks that one map task is FINISHED.
MapFinished ==
    /\ Up /\ hpc = "mapFinished"
    /\ \/ /\ status[<<"MAP", hi>>] # FINISHED
          /\ NilTask
       \/ /\ status[<<"MAP", hi>>] = FINISHED
          /\ IF hi < NMap THEN GoTo("mapFinished", hi + 1, hcall)
             ELSE GoTo("getReduceTask", 1, hcall)
    /\ UNCHANGED <<taskVars, scan, fileVars, mishaps, faults>>

\* getReduceTask looks at one reduce task; HandleWorker calls it again when
\* it found one.
GetReduceTask ==
    /\ Up /\ hpc = "getReduceTask"
    /\ \/ /\ status[<<"REDUCE", hi>>] = NOTRUN
          /\ IF hcall = 1 THEN GoTo("mapFinished", 1, 2)
             ELSE GoTo("assignReduce", hi, 2)
       \/ /\ status[<<"REDUCE", hi>>] # NOTRUN
          /\ IF hi < NReduce THEN GoTo("getReduceTask", hi + 1, hcall)
             ELSE NilTask
    /\ UNCHANGED <<taskVars, scan, fileVars, mishaps, faults>>

\* The plain store of Status, the reply and the start of the timer.
HandOut(k, next) ==
    /\ status' = [status EXCEPT ![k] = RUNNNING]
    /\ timers' = [timers EXCEPT ![k] = @ + 1]
    /\ owner'  = [owner EXCEPT ![k] = holder]
    /\ Reply(next, k)
    /\ UNCHANGED <<coordVars, fileVars, mishaps, faults>>

AssignMap    == Up /\ hpc = "assignMap" /\ HandOut(<<"MAP", hi>>, "map")
AssignReduce == Up /\ hpc = "assignReduce" /\ HandOut(<<"REDUCE", hi>>, "reduce")

----------------------------------------------------------------------------
(* Timers, HandleFinish and Done, which take no lock *)

CompareAndSwap(k, old, new) ==
    status' = IF status[k] = old THEN [status EXCEPT ![k] = new] ELSE status

\* The worker the task was handed to is still working on it.
Busy(k) == /\ owner[k] # None
           /\ task[owner[k]] = k /\ pc[owner[k]] \in {"map", "reduce", "finish"}

TimerForgotten(k) == UNCHANGED status

TimerResetsAlways(k) == status' = [status EXCEPT ![k] = NOTRUN]

TimerReset(k) == CompareAndSwap(k, RUNNNING, NOTRUN)

\* The ten seconds of a timer are over.
TimerExpires(k) ==
    /\ Up
    /\ timers[k] > 0
    /\ Busy(k) => mishaps < MaxMishaps
    /\ mishaps' = IF Busy(k) THEN mishaps + 1 ELSE mishaps
    /\ timers' = [timers EXCEPT ![k] = @ - 1]
    /\ TimerReset(k)
    /\ UNCHANGED <<owner, coordVars, callVars, workVars, fileVars, faults>>

\* A worker reports its task, whoever the task belongs to by now.
HandleFinish(w) ==
    /\ Up
    /\ pc[w] = "finish"
    /\ CompareAndSwap(task[w], RUNNNING, FINISHED)
    /\ pc' = [pc EXCEPT ![w] = "ask"]
    /\ task' = [task EXCEPT ![w] = None]
    /\ UNCHANGED <<timers, owner, coordVars, callVars, file, block, whole,
                   fileVars, mishaps, faults>>

DoneRunning ==
    /\ cpc = "run"
    /\ \/ status[<<"REDUCE", scan>>] = NOTRUN /\ scan' = 1 /\ UNCHANGED cpc
       \/ /\ status[<<"REDUCE", scan>>] # NOTRUN
          /\ IF scan < NReduce THEN scan' = scan + 1 /\ UNCHANGED cpc
             ELSE cpc' = "done" /\ UNCHANGED scan
    /\ UNCHANGED <<taskVars, callVars, workVars, fileVars, mishaps, faults>>

\* main's loop: Done looks at one reduce task after the other.
Done ==
    /\ cpc = "run"
    /\ \/ status[<<"REDUCE", scan>>] # FINISHED /\ scan' = 1 /\ UNCHANGED cpc
       \/ /\ status[<<"REDUCE", scan>>] = FINISHED
          /\ IF scan < NReduce THEN scan' = scan + 1 /\ UNCHANGED cpc
             ELSE cpc' = "done" /\ UNCHANGED scan
    /\ UNCHANGED <<taskVars, callVars, workVars, fileVars, mishaps, faults>>

\* After a second of sleep the process ends, with every handler and timer.
Exit ==
    /\ cpc = "done"
    /\ cpc' = "exited"
    /\ UNCHANGED <<taskVars, scan, callVars, workVars, fileVars, mishaps, faults>>

----------------------------------------------------------------------------
(* Workers *)

\* doMap: for every reduce task, os.Create and then the writes of the bulk.
DoMap(w) ==
    LET m == task[w][2]
        r == file[w]
        last == block[w] = NBlock IN
    /\ pc[w] = "map"
    /\ inter' = [inter EXCEPT ![m][r] =
                    IF block[w] = 0 THEN {} ELSE @ \union {block[w]}]
    /\ block' = [block EXCEPT ![w] = IF last THEN 0 ELSE @ + 1]
    /\ file'  = [file EXCEPT ![w] = IF last /\ r < NReduce THEN @ + 1 ELSE @]
    /\ pc'    = [pc EXCEPT ![w] = IF last /\ r = NReduce THEN "finish" ELSE @]
    /\ UNCHANGED <<taskVars, coordVars, callVars, task, whole, out, mishaps, faults>>

EncodeFailsReported(w) ==
    /\ faults < MaxFaults
    /\ pc[w] = "map"
    /\ pc' = [pc EXCEPT ![w] = "finish"]
    /\ UNCHANGED task
    /\ faults' = faults + 1
    /\ UNCHANGED <<taskVars, coordVars, callVars, file, block, whole, fileVars, mishaps>>

\* os.Create or Encode fails and doMap returns the error: no report.
EncodeFails(w) ==
    /\ faults < MaxFaults
    /\ pc[w] = "map"
    /\ pc' = [pc EXCEPT ![w] = "ask"]
    /\ task' = [task EXCEPT ![w] = None]
    /\ faults' = faults + 1
    /\ UNCHANGED <<taskVars, coordVars, callVars, file, block, whole, fileVars, mishaps>>

\* doReduce: os.Create of the output.
CreateOut(w) ==
    /\ pc[w] = "reduce" /\ block[w] = 0
    /\ out' = [out EXCEPT ![task[w][2]] = [b \in Block |-> "none"]]
    /\ block' = [block EXCEPT ![w] = 1]
    /\ UNCHANGED <<taskVars, coordVars, callVars, pc, task, file, whole, inter,
                   mishaps, faults>>

\* doReduce decodes one intermediate file; an error ends the file silently.
ReadInter(w) ==
    /\ pc[w] = "reduce" /\ block[w] = 1
    /\ file[w] <= NMap
    /\ whole' = [whole EXCEPT ![w] = @ /\ inter[file[w]][task[w][2]] = Block]
    /\ file' = [file EXCEPT ![w] = @ + 1]
    /\ UNCHANGED <<taskVars, coordVars, callVars, pc, task, block, fileVars, mishaps, faults>>

\* doReduce writes the next block of the output.
WriteOut(w) ==
    /\ pc[w] = "reduce" /\ block[w] > 0
    /\ file[w] = NMap + 1
    /\ out' = [out EXCEPT ![task[w][2]][block[w]] =
                  IF whole[w] THEN "good" ELSE "bad"]
    /\ block' = [block EXCEPT ![w] = @ + 1]
    /\ pc' = [pc EXCEPT ![w] = IF block[w] = NBlock THEN "finish" ELSE @]
    /\ UNCHANGED <<taskVars, coordVars, callVars, task, file, whole, inter, mishaps, faults>>

\* An error in doReduce is not looked at: without an output file everything
\* that follows is void, an unreadable input counts as empty, a write is lost.
IgnoredError(w) ==
    /\ DiskErrors /\ mishaps < MaxMishaps
    /\ mishaps' = mishaps + 1
    /\ pc[w] = "reduce"
    /\ \/ /\ block[w] = 0
          /\ pc' = [pc EXCEPT ![w] = "finish"]
          /\ UNCHANGED <<file, block, whole>>
       \/ /\ block[w] = 1 /\ file[w] <= NMap
          /\ whole' = [whole EXCEPT ![w] = FALSE]
          /\ file' = [file EXCEPT ![w] = @ + 1]
          /\ UNCHANGED <<pc, block>>
       \/ /\ block[w] > 0 /\ file[w] = NMap + 1
          /\ block' = [block EXCEPT ![w] = @ + 1]
          /\ pc' = [pc EXCEPT ![w] = IF block[w] = NBlock THEN "finish" ELSE @]
          /\ UNCHANGED <<file, whole>>
    /\ UNCHANGED <<taskVars, coordVars, callVars, task, fileVars, faults>>

\* A call finds no coordinator: log.Fatal, or the loop of Worker ends.
WorkerExits(w) ==
    /\ ~Up
    /\ pc[w] \in {"ask", "wait", "finish"}
    /\ pc' = [pc EXCEPT ![w] = "exited"]
    /\ UNCHANGED <<taskVars, coordVars, callVars, task, file, block, whole,
                   fileVars, mishaps, faults>>

Crash(w) ==
    /\ ~Dead(w)
    /\ faults < MaxFaults
    /\ pc' = [pc EXCEPT ![w] = "crashed"]
    /\ faults' = faults + 1
    /\ UNCHANGED <<taskVars, coordVars, callVars, task, file, block, whole,
                   fileVars, mishaps>>

----------------------------------------------------------------------------
\* The steps of the coordinator process and of a worker that is not disturbed.
Handler == GetMapTask \/ MapFinished \/ GetReduceTask \/ AssignMap \/ AssignReduce
Work(w) == DoMap(w) \/ CreateOut(w) \/ ReadInter(w) \/ WriteOut(w)
           \/ HandleFinish(w) \/ WorkerExits(w)

Next ==
    \/ \E w \in Worker : Lock(w)
    \/ GetMapTask \/ MapFinished \/ GetReduceTask \/ AssignMap \/ AssignReduce
    \/ \E k \in Task : TimerExpires(k)
    \/ Done
    \/ Exit
    \/ \E w \in Worker : DoMap(w)
    \/ \E w \in Worker : EncodeFails(w)
    \/ \E w \in Worker : CreateOut(w)
    \/ \E w \in Worker : ReadInter(w)
    \/ \E w \in Worker : WriteOut(w)
    \/ \E w \in Worker : IgnoredError(w)
    \/ \E w \in Worker : HandleFinish(w)
    \/ \E w \in Worker : WorkerExits(w)
    \/ \E w \in Worker : Crash(w)

Spec == Init /\ [][Next]_vars

\* Goroutines and processes that can run do, timers expire, and the mutex is
\* given to somebody who waits for it.
Fairness ==
    /\ WF_vars(Handler) /\ WF_vars(Done) /\ WF_vars(Exit)
    /\ WF_vars(\E w \in Worker : Lock(w))
    /\ \A k \in Task : WF_vars(TimerExpires(k))
    /\ \A w \in Worker : WF_vars(Work(w))

FairSpec == Spec /\ Fairness

----------------------------------------------------------------------------
(* Properties *)

TypeTask ==
    /\ status \in [Task -> {NOTRUN, RUNNNING, FINISHED}]
    /\ timers \in [Task -> Nat]
    /\ owner  \in [Task -> Worker \union {None}]
TypeCoord ==
    /\ cpc \in {"run", "done", "exited", "panicked"}
    /\ scan \in 1 .. NReduce
    /\ holder \in Worker \union {None}
    /\ hpc \in {"free", "getMapTask", "assignMap", "mapFinished",
                "getReduceTask", "assignReduce"}
    /\ hpc = "free" <=> holder = None
    /\ hi \in Nat \ {0}
    /\ hpc \in {"getMapTask", "assignMap", "mapFinished"} => hi <= NMap
    /\ hpc \in {"getReduceTask", "assignReduce"} => hi <= NReduce
    /\ hcall \in {1, 2}
TypeWork ==
    /\ pc \in [Worker -> {"ask", "wait", "map", "reduce", "finish", "exited", "crashed"}]
    /\ task \in [Worker -> Task \union {None}]
    /\ \A w \in Worker : /\ pc[w] = "map" => task[w] \in MapTask
                         /\ pc[w] = "reduce" => task[w] \in ReduceTask
                         /\ pc[w] = "finish" => task[w] \in Task
                         /\ pc[w] = "map" => file[w] <= NReduce /\ block[w] <= NBlock
                         /\ pc[w] = "reduce" => file[w] <= NMap + 1 /\ block[w] <= NBlock
    /\ file \in [Worker -> Nat \ {0}]
    /\ block \in [Worker -> Nat]
    /\ whole \in [Worker -> BOOLEAN]
TypeFiles ==
    /\ inter \in [1 .. NMap -> [1 .. NReduce -> SUBSET Block]]
    /\ out \in [1 .. NReduce -> [Block -> {"none", "good", "bad"}]]
    /\ mishaps \in Nat /\ faults \in Nat

\* Every field has the shape the code gives it; loop indices stay in range.
TypeOK == TypeTask /\ TypeCoord /\ TypeWork /\ TypeFiles

\* A task is RUNNING exactly as long as a timer of its own will put it back:
\* a crashed worker's task is always handed out again, and the timer of an
\* earlier attempt never cuts a later attempt short.
OneTimerPerAttempt ==
    \A k \in Task : /\ status[k] = NOTRUN => timers[k] = 0
                    /\ status[k] = RUNNNING => timers[k] = 1
                    /\ timers[k] <= 1

\* FINISHED is final, although HandleWorker stores Status without CAS.
FinishedStays == [][\A k \in Task : status[k] = FINISHED => status'[k] = FINISHED]_vars

\* No reduce task is started, run or finished before every map task finished.
ReduceAfterMaps ==
    (\E k \in ReduceTask : status[k] # NOTRUN) \/ (\E w \in Worker : pc[w] = "reduce")
        => \A k \in MapTask : status[k] = FINISHED

\* The second getReduceTask call of HandleWorker, whose result is used without
\* a check, never returns nil, although timers and HandleFinish run in between.
NeverNil == cpc # "panicked"

\* Done, which scans without a lock, is true only when all tasks are FINISHED.
DoneIsTrue == cpc \in {"done", "exited"} => \A k \in Task : status[k] = FINISHED

\* The coordinator's view of its tasks implements the abstract job.
JobView == INSTANCE Job WITH
    finished <- {k \in Task : status[k] = FINISHED},
    over <- cpc \in {"done", "exited"}

\* HandleWorker, the timers, HandleFinish and Done together keep what Job says:
\* tasks finish once and for good, reduces after maps, Done after all of them.
ImplementsJob == JobView!Spec

\* When the coordinator has exited, every output file is complete and was
\* computed from complete input (the comparisons of main/test-mr.sh).
OutputCorrect ==
    cpc = "exited" => \A r \in 1 .. NReduce, b \in Block : out[r][b] = "good"

\* As long as no timer expires while its worker is still at work and no file
\* operation of doReduce fails, crashes and half-written files never leave a
\* wrong output: a failed doMap is not reported and is done again.
TimelyOutputCorrect == mishaps = 0 => OutputCorrect

\* As long as one worker never crashes and slow workers do not keep every
\* attempt from finishing, the job ends and every worker exits.
JobEnds == <>(cpc = "exited" /\ \A w \in Worker : Dead(w))
=============================================================================
