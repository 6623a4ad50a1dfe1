--------------------------- MODULE MapReduceProofs --------------------------
(***************************************************************************)
(* Proofs about the MapReduce coordinator: types, the coordinator's safety *)
(* properties with every access to a Status interleaved, the refinement of *)
(* Job, and the correctness of the output.                                 *)
(***************************************************************************)
EXTENDS MapReduce, TLAPS

\* Task names: a task is a map or a reduce task and never both.
LEMMA TaskNames ==
    /\ \A m \in 1 .. NMap : <<"MAP", m>> \in MapTask /\ <<"MAP", m>> \in Task
    /\ \A r \in 1 .. NReduce : <<"REDUCE", r>> \in ReduceTask /\ <<"REDUCE", r>> \in Task
    /\ \A k \in MapTask : k[2] \in 1 .. NMap /\ k = <<"MAP", k[2]>>
    /\ \A k \in ReduceTask : k[2] \in 1 .. NReduce /\ k = <<"REDUCE", k[2]>>
    /\ MapTask \intersect ReduceTask = {}
    /\ \A k \in Task : k \in MapTask \/ k \in ReduceTask
    /\ \A i, j : <<"MAP", i>> # <<"REDUCE", j>>
    /\ <<"REDUCE", 1>> \in ReduceTask
  BY SizesAssumption DEF MapTask, ReduceTask, Task

\* Init sets every field within its type.
LEMMA TypeInit == Init => TypeOK
<1> SUFFICES ASSUME Init PROVE TypeOK
  OBVIOUS
<1>1. TypeTask
  BY Zenon DEF Init, TypeTask, NOTRUN, RUNNNING, FINISHED
<1>2. TypeCoord
  BY SizesAssumption, NoneAssumption DEF Init, TypeCoord
<1>3. TypeWork
  BY DEF Init, TypeWork
<1>4. TypeFiles
  BY Zenon DEF Init, TypeFiles
<1> QED
  BY <1>1, <1>2, <1>3, <1>4, Zenon DEF TypeOK

\* The end of a HandleWorker call keeps the worker's and the handler's types.
LEMMA TypeReply ==
    ASSUME TypeCoord, TypeWork, NEW k \in Task \union {None}, NEW next, holder # None,
           UNCHANGED <<cpc, scan>>, Reply(next, k),
           \/ next = "ask"
           \/ next = "map" /\ k \in MapTask
           \/ next = "reduce" /\ k \in ReduceTask
    PROVE  TypeCoord' /\ TypeWork'
<1>1. holder \in Worker
  BY Zenon DEF TypeCoord
<1>2. TypeCoord'
  BY Zenon DEF TypeCoord, Reply
<1>3. CASE pc[holder] # "wait"
  BY <1>3, <1>2, Zenon DEF Reply, TypeWork, workVars
<1>4. CASE pc[holder] = "wait"
  <2>1. /\ pc' = [pc EXCEPT ![holder] = next]
        /\ task' = [task EXCEPT ![holder] = k]
        /\ file' = [file EXCEPT ![holder] = 1]
        /\ block' = [block EXCEPT ![holder] = 0]
        /\ whole' = [whole EXCEPT ![holder] = TRUE]
    BY <1>4, Zenon DEF Reply
  <2>2. TypeWork'
    BY <1>1, <2>1, SizesAssumption, TaskNames DEF TypeWork
  <2> QED
    BY <1>2, <2>2, Zenon
<1> QED
  BY <1>3, <1>4, Zenon

\* HandleWorker's steps keep the types.
LEMMA TypeHandler ==
    ASSUME TypeOK, Handler \/ \E w \in Worker : Lock(w)
    PROVE  TypeOK'
<1> USE SizesAssumption, NoneAssumption DEF TypeOK
<1>1. CASE \E w \in Worker : Lock(w)
  <2> PICK w \in Worker : Lock(w)
    BY <1>1, Zenon
  <2>1. TypeTask' /\ TypeFiles'
    BY Zenon DEF Lock, TypeTask, TypeFiles, taskVars, fileVars
  <2>2. TypeCoord'
    BY DEF Lock, TypeCoord, coordVars
  <2>3. TypeWork'
    BY Zenon DEF Lock, TypeWork
  <2> QED
    BY <2>1, <2>2, <2>3, Zenon
<1>2. CASE GetMapTask
  BY <1>2 DEF GetMapTask, GoTo, TypeTask, TypeCoord, TypeWork, TypeFiles, taskVars,
     workVars, fileVars
<1>3. ASSUME NilTask, UNCHANGED <<taskVars, scan, fileVars, mishaps, faults>>, hpc # "free"
      PROVE  TypeOK'
  <2>1. TypeTask' /\ TypeFiles'
    BY <1>3, Zenon DEF TypeTask, TypeFiles, taskVars, fileVars
  <2>2. CASE hcall = 1 /\ Reply("ask", None) /\ UNCHANGED cpc
    BY <1>3, <2>1, <2>2, TypeReply, Zenon DEF TypeCoord
  <2>3. CASE hcall = 2 /\ cpc' = "panicked" /\ UNCHANGED <<callVars, workVars>>
    BY <1>3, <2>1, <2>3, Zenon DEF TypeCoord, TypeWork, callVars, workVars
  <2> QED
    BY <1>3, <2>2, <2>3, Zenon DEF NilTask
<1>4. CASE MapFinished
  <2>1. CASE NilTask
    BY <1>3, <1>4, <2>1, Zenon DEF MapFinished
  <2>2. CASE ~NilTask
    BY <1>4, <2>2 DEF MapFinished, GoTo, TypeTask, TypeCoord, TypeWork, TypeFiles,
       taskVars, workVars, fileVars
  <2> QED
    BY <2>1, <2>2, Zenon
<1>5. CASE GetReduceTask
  <2>1. CASE NilTask
    BY <1>3, <1>5, <2>1, Zenon DEF GetReduceTask
  <2>2. CASE ~NilTask
    BY <1>5, <2>2 DEF GetReduceTask, GoTo, TypeTask, TypeCoord, TypeWork, TypeFiles,
       taskVars, workVars, fileVars
  <2> QED
    BY <2>1, <2>2, Zenon
<1>6. ASSUME NEW k \in Task, NEW next, HandOut(k, next), hpc # "free",
             \/ next = "map" /\ k \in MapTask
             \/ next = "reduce" /\ k \in ReduceTask
      PROVE  TypeOK'
  <2>1. TypeTask'
    BY <1>6 DEF HandOut, TypeTask, TypeCoord, RUNNNING
  <2>2. TypeFiles'
    BY <1>6, Zenon DEF HandOut, TypeFiles, fileVars
  <2>3. Reply(next, k) /\ UNCHANGED <<cpc, scan>>
    BY <1>6, Zenon DEF HandOut, coordVars
  <2> QED
    BY <1>6, <2>1, <2>2, <2>3, TypeReply, Zenon DEF TypeCoord
<1>7. CASE AssignMap
  BY <1>7, <1>6, TaskNames DEF AssignMap, TypeCoord
<1>8. CASE AssignReduce
  BY <1>8, <1>6, TaskNames DEF AssignReduce, TypeCoord
<1> QED
  BY <1>1, <1>2, <1>4, <1>5, <1>7, <1>8, Zenon DEF Handler

\* The timers, HandleFinish, Done and main keep the types.
LEMMA TypeLockFree ==
    ASSUME TypeOK,
           \/ \E k \in Task : TimerExpires(k)
           \/ \E w \in Worker : HandleFinish(w)
           \/ Done \/ Exit
    PROVE  TypeOK'
<1> USE SizesAssumption DEF TypeOK
<1>1. CASE \E k \in Task : TimerExpires(k)
  <2> PICK k \in Task : TimerExpires(k)
    BY <1>1, Zenon
  <2>1. TypeTask'
    BY DEF TimerExpires, TypeTask, TimerReset, CompareAndSwap, NOTRUN
  <2>2. TypeCoord' /\ TypeWork'
    BY Zenon DEF TimerExpires, TypeCoord, TypeWork, coordVars, callVars, workVars
  <2>3. TypeFiles'
    BY DEF TimerExpires, TypeFiles, fileVars
  <2> QED
    BY <2>1, <2>2, <2>3, Zenon
<1>2. CASE \E w \in Worker : HandleFinish(w)
  <2> PICK w \in Worker : HandleFinish(w)
    BY <1>2, Zenon
  <2>1. TypeTask'
    BY Zenon DEF HandleFinish, TypeTask, CompareAndSwap, FINISHED, taskVars
  <2>2. TypeCoord' /\ TypeFiles'
    BY Zenon DEF HandleFinish, TypeCoord, TypeFiles, coordVars, callVars, fileVars
  <2>3. TypeWork'
    BY Zenon DEF HandleFinish, TypeWork
  <2> QED
    BY <2>1, <2>2, <2>3, Zenon
<1>3. CASE Done \/ Exit
  <2>1. TypeTask' /\ TypeWork' /\ TypeFiles'
    BY <1>3, Zenon DEF Done, Exit, TypeTask, TypeWork, TypeFiles, taskVars, workVars, fileVars
  <2>2. TypeCoord'
    BY <1>3 DEF Done, Exit, TypeCoord, callVars
  <2> QED
    BY <2>1, <2>2, Zenon
<1> QED
  BY <1>1, <1>2, <1>3, Zenon

\* A worker's own steps, crashes included.
WorkStep(w) == \/ DoMap(w) \/ EncodeFails(w) \/ CreateOut(w) \/ ReadInter(w)
               \/ WriteOut(w) \/ IgnoredError(w) \/ WorkerExits(w) \/ Crash(w)

\* What workers do leaves the coordinator's memory alone.
LEMMA WorkFrame ==
    ASSUME NEW w, WorkStep(w)
    PROVE  UNCHANGED <<status, timers, owner, cpc, scan, holder, hpc, hi, hcall>>
  BY Zenon DEF WorkStep, DoMap, EncodeFails, CreateOut, ReadInter, WriteOut, IgnoredError,
     WorkerExits, Crash, taskVars, coordVars, callVars

\* doMap, doReduce, exits and crashes keep the types.
LEMMA TypeWorkers ==
    ASSUME TypeOK, NEW w \in Worker, WorkStep(w)
    PROVE  TypeOK'
<1> USE SizesAssumption DEF TypeOK
<1>1. TypeTask' /\ TypeCoord'
  BY WorkFrame, Zenon DEF TypeTask, TypeCoord
<1>2. CASE DoMap(w)
  <2>1. task[w][2] \in 1 .. NMap /\ file[w] \in 1 .. NReduce /\ block[w] \in 0 .. NBlock
    BY <1>2, TaskNames DEF DoMap, TypeWork
  <2>2. TypeFiles'
    BY <1>2, <2>1 DEF DoMap, TypeFiles, Block
  <2>3. /\ block' = [block EXCEPT ![w] = IF block[w] = NBlock THEN 0 ELSE @ + 1]
        /\ file'  = [file EXCEPT ![w] = IF block[w] = NBlock /\ file[w] < NReduce
                                        THEN @ + 1 ELSE @]
        /\ pc'    = [pc EXCEPT ![w] = IF block[w] = NBlock /\ file[w] = NReduce
                                      THEN "finish" ELSE @]
        /\ UNCHANGED <<task, whole>> /\ pc[w] = "map"
    BY <1>2, Zenon DEF DoMap
  <2>4. TypeWork'
    BY <2>1, <2>3, TaskNames DEF TypeWork
  <2> QED
    BY <1>1, <2>2, <2>4, Zenon
<1>3. CASE EncodeFails(w)
  BY <1>1, <1>3 DEF EncodeFails, TypeWork, TypeFiles, fileVars
<1>4. CASE CreateOut(w)
  <2>1. task[w][2] \in 1 .. NReduce
    BY <1>4, TaskNames, Zenon DEF CreateOut, TypeWork
  <2>2. TypeFiles'
    BY <1>4, <2>1, Zenon DEF CreateOut, TypeFiles
  <2>3. TypeWork'
    BY <1>4 DEF CreateOut, TypeWork
  <2> QED
    BY <1>1, <2>2, <2>3, Zenon
<1>5. CASE ReadInter(w)
  BY <1>1, <1>5 DEF ReadInter, TypeWork, TypeFiles, fileVars
<1>6. CASE WriteOut(w)
  <2>1. task[w][2] \in 1 .. NReduce /\ block[w] \in Block
    BY <1>6, TaskNames DEF WriteOut, TypeWork, Block
  <2>2. TypeFiles'
    BY <1>6, <2>1, Zenon DEF WriteOut, TypeFiles
  <2>3. TypeWork'
    BY <1>6, <2>1, TaskNames DEF WriteOut, TypeWork, Block
  <2> QED
    BY <1>1, <2>2, <2>3, Zenon
<1>7. CASE WorkerExits(w)
  BY <1>1, <1>7, Zenon DEF WorkerExits, TypeWork, TypeFiles, fileVars
<1>8. CASE Crash(w)
  BY <1>1, <1>8 DEF Crash, TypeWork, TypeFiles, fileVars
<1>9. CASE IgnoredError(w)
  <2>1. /\ pc[w] = "reduce" /\ task[w] \in Task
        /\ UNCHANGED <<task, inter, out, faults>> /\ mishaps' = mishaps + 1
    BY <1>9, TaskNames DEF IgnoredError, TypeWork, fileVars
  <2>2. TypeFiles'
    BY <2>1 DEF TypeFiles
  <2>3. block[w] = 0 => TypeWork'
    BY <1>9, <2>1 DEF IgnoredError, TypeWork
  <2>4. ASSUME block[w] # 0, file[w] <= NMap PROVE TypeWork'
    <3>1. /\ whole' = [whole EXCEPT ![w] = FALSE]
          /\ file' = [file EXCEPT ![w] = @ + 1]
          /\ UNCHANGED <<pc, block>>
      BY <1>9, <2>4 DEF IgnoredError, TypeWork
    <3>2. whole' \in [Worker -> BOOLEAN]
      BY <3>1, Zenon DEF TypeWork
    <3> QED
      BY <2>1, <2>4, <3>1, <3>2 DEF TypeWork
  <2>5. block[w] # 0 /\ ~(file[w] <= NMap) => TypeWork'
    BY <1>9, <2>1 DEF IgnoredError, TypeWork
  <2> QED
    BY <1>1, <2>2, <2>3, <2>4, <2>5, Zenon
<1> QED
  BY <1>2, <1>3, <1>4, <1>5, <1>6, <1>7, <1>8, <1>9, Zenon DEF WorkStep

\* The steps of Next, grouped as the lemmas take them.
LEMMA NextCases ==
    ASSUME Next
    PROVE  \/ Handler \/ \E w \in Worker : Lock(w)
           \/ \E k \in Task : TimerExpires(k)
           \/ \E w \in Worker : HandleFinish(w)
           \/ Done \/ Exit
           \/ \E w \in Worker : WorkStep(w)
  BY Zenon DEF Next, Handler, WorkStep

\* Every step keeps the types.
LEMMA TypeStep == TypeOK /\ [Next]_vars => TypeOK'
<1> SUFFICES ASSUME TypeOK, [Next]_vars PROVE TypeOK'
  OBVIOUS
<1>1. CASE Next
  BY <1>1, NextCases, TypeHandler, TypeLockFree, TypeWorkers, Zenon
<1>2. CASE UNCHANGED vars
  BY <1>2, Zenon DEF vars, taskVars, coordVars, callVars, workVars, fileVars, TypeOK,
     TypeTask, TypeCoord, TypeWork, TypeFiles
<1> QED
  BY <1>1, <1>2, Zenon

\* Coordinator and workers keep every field in its type and every loop index
\* in range, for any number of workers, tasks and blocks.
THEOREM TypeCorrect == Spec => []TypeOK
  BY TypeInit, TypeStep, PTL DEF Spec

----------------------------------------------------------------------------
(* The coordinator *)

MapsFinished == \A k \in MapTask : status[k] = FINISHED

\* What the loops of a HandleWorker call have found stays true while timers
\* and HandleFinish go on changing Status.
CallInv ==
    /\ hpc = "assignMap" => status[<<"MAP", hi>>] = NOTRUN
    /\ hpc = "mapFinished" =>
          \A m \in 1 .. NMap : m < hi => status[<<"MAP", m>>] = FINISHED
    /\ hpc \in {"getReduceTask", "assignReduce"} => MapsFinished
    /\ hpc = "assignReduce" => status[<<"REDUCE", hi>>] = NOTRUN
    /\ hpc = "mapFinished" /\ hcall = 2 =>
          /\ MapsFinished
          /\ \E r \in 1 .. NReduce : status[<<"REDUCE", r>>] = NOTRUN
    /\ hpc = "getReduceTask" /\ hcall = 2 =>
          \E r \in 1 .. NReduce : r >= hi /\ status[<<"REDUCE", r>>] = NOTRUN

\* Done has passed finished tasks only.
ScanInv ==
    /\ \A r \in 1 .. NReduce : r < scan => status[<<"REDUCE", r>>] = FINISHED
    /\ cpc \in {"done", "exited"} => \A k \in ReduceTask : status[k] = FINISHED

\* The inductive invariant of the coordinator.
CoordInv == /\ OneTimerPerAttempt /\ ReduceAfterMaps /\ NeverNil
            /\ CallInv /\ ScanInv

\* What a step may do to one Status: HandleWorker starts it, a timer resets
\* it, HandleFinish finishes it.
StatusStep ==
    \A k \in Task :
        \/ status'[k] = status[k]
        \/ status[k] = NOTRUN /\ status'[k] = RUNNNING
        \/ status[k] = RUNNNING /\ status'[k] \in {NOTRUN, FINISHED}

\* Nothing has started when the coordinator is made.
LEMMA CoordInit == Init => CoordInv
  BY TaskNames DEF Init, CoordInv, OneTimerPerAttempt, ReduceAfterMaps, NeverNil, CallInv,
     ScanInv, NOTRUN, RUNNNING

\* Lock and the loops of HandleWorker, which only read Status.
LEMMA CoordLoops ==
    ASSUME TypeOK, CoordInv,
           GetMapTask \/ MapFinished \/ GetReduceTask \/ \E w \in Worker : Lock(w)
    PROVE  CoordInv' /\ UNCHANGED status /\ (cpc' = cpc \/ cpc' = "panicked")
<1> USE SizesAssumption
<1>1. UNCHANGED <<status, timers, scan>>
  BY Zenon DEF GetMapTask, MapFinished, GetReduceTask, Lock, taskVars, coordVars
<1>2. cpc' = cpc
  <2>1. CASE GetMapTask \/ \E w \in Worker : Lock(w)
    BY <2>1, Zenon DEF GetMapTask, GoTo, Lock, coordVars
  <2>2. CASE MapFinished
    <3>1. ~(status[<<"MAP", hi>>] # FINISHED /\ hcall = 2)
      BY <2>2, TaskNames DEF MapFinished, CoordInv, CallInv, MapsFinished, TypeOK, TypeCoord
    <3> QED
      BY <2>2, <3>1, Zenon DEF MapFinished, GoTo, NilTask
  <2>3. CASE GetReduceTask
    <3>1. ~(status[<<"REDUCE", hi>>] # NOTRUN /\ hcall = 2 /\ ~(hi < NReduce))
      <4> SUFFICES ASSUME hcall = 2, ~(hi < NReduce)
                   PROVE  status[<<"REDUCE", hi>>] = NOTRUN
        OBVIOUS
      <4>1. PICK r \in 1 .. NReduce : r >= hi /\ status[<<"REDUCE", r>>] = NOTRUN
        BY <2>3, Zenon DEF GetReduceTask, CoordInv, CallInv
      <4>2. r = hi
        BY <4>1 DEF TypeOK, TypeCoord
      <4> QED
        BY <4>1, <4>2, Zenon
    <3> QED
      BY <2>3, <3>1, Zenon DEF GetReduceTask, GoTo, NilTask
  <2> QED
    BY <2>1, <2>2, <2>3, Zenon
<1>3. OneTimerPerAttempt' /\ ScanInv' /\ NeverNil'
  BY <1>1, <1>2, Zenon DEF CoordInv, OneTimerPerAttempt, ScanInv, NeverNil
<1>4. ReduceAfterMaps'
  <2>1. \A w \in Worker : pc'[w] = "reduce" => pc[w] = "reduce"
    BY Zenon DEF GetMapTask, MapFinished, GetReduceTask, Lock, GoTo, NilTask, Reply, workVars,
       TypeOK, TypeWork
  <2> QED
    BY <1>1, <2>1, Zenon DEF CoordInv, ReduceAfterMaps
<1>5. CallInv'
  <2>1. CASE GetMapTask \/ \E w \in Worker : Lock(w)
    <3>1. \/ hpc' = "assignMap" /\ hi' = hi /\ status[<<"MAP", hi>>] = NOTRUN
          \/ hpc' = "getMapTask"
          \/ hpc' = "mapFinished" /\ hi' = 1 /\ hcall' = 1
      BY <2>1, Zenon DEF GetMapTask, GoTo, Lock
    <3>2. \A m \in 1 .. NMap : ~(m < 1)
      OBVIOUS
    <3> QED
      BY <1>1, <3>1, <3>2 DEF CallInv
  <2>2. CASE MapFinished
    <3>1. CASE NilTask
      BY <1>1, <1>2, <2>2, <3>1, Zenon DEF NilTask, Reply, CallInv, CoordInv, NeverNil, callVars
    <3>2. CASE ~NilTask
      <4>1. hpc = "mapFinished" /\ status[<<"MAP", hi>>] = FINISHED
        BY <2>2, <3>2, Zenon DEF MapFinished
      <4>2. \A m \in 1 .. NMap : m <= hi => status[<<"MAP", m>>] = FINISHED
        BY <4>1 DEF CoordInv, CallInv, TypeOK, TypeCoord
      <4>3. hcall' = hcall
        BY <2>2, <3>2, Zenon DEF MapFinished, GoTo
      <4>4. CASE hi < NMap
        <5>1. hpc' = "mapFinished" /\ hi' = hi + 1
          BY <2>2, <3>2, <4>4, Zenon DEF MapFinished, GoTo
        <5> QED
          BY <1>1, <4>1, <4>2, <4>3, <5>1 DEF CoordInv, CallInv, MapsFinished, TypeOK, TypeCoord
      <4>5. CASE ~(hi < NMap)
        <5>1. hpc' = "getReduceTask" /\ hi' = 1
          BY <2>2, <3>2, <4>5, Zenon DEF MapFinished, GoTo
        <5>2. MapsFinished
          BY <4>1, <4>2, <4>5, TaskNames DEF MapsFinished, TypeOK, TypeCoord
        <5>3. MapsFinished'
          BY <1>1, <5>2, Zenon DEF MapsFinished
        <5>4. hcall' = 2 => \E r \in 1 .. NReduce : r >= 1 /\ status'[<<"REDUCE", r>>] = NOTRUN
          BY <1>1, <4>1, <4>3 DEF CoordInv, CallInv
        <5> QED
          BY <5>1, <5>3, <5>4, Zenon DEF CallInv
      <4> QED
        BY <4>4, <4>5, Zenon
    <3> QED
      BY <3>1, <3>2, Zenon
  <2>3. CASE GetReduceTask
    <3>1. CASE NilTask
      BY <1>1, <1>2, <2>3, <3>1, Zenon DEF NilTask, Reply, CallInv, CoordInv, NeverNil, callVars
    <3>2. CASE ~NilTask
      <4>1. hpc = "getReduceTask" /\ MapsFinished
        BY <2>3, Zenon DEF GetReduceTask, CoordInv, CallInv
      <4>2. MapsFinished'
        BY <1>1, <4>1, Zenon DEF MapsFinished
      <4>3. CASE status[<<"REDUCE", hi>>] = NOTRUN
        BY <1>1, <2>3, <3>2, <4>1, <4>2, <4>3, TaskNames
           DEF GetReduceTask, GoTo, CallInv, TypeOK, TypeCoord, MapsFinished
      <4>4. CASE status[<<"REDUCE", hi>>] # NOTRUN
        <5>1. hpc' = "getReduceTask" /\ hi' = hi + 1 /\ hcall' = hcall
          BY <2>3, <3>2, <4>4, Zenon DEF GetReduceTask, GoTo
        <5>2. hcall' = 2 =>
                  \E r \in 1 .. NReduce : r >= hi + 1 /\ status'[<<"REDUCE", r>>] = NOTRUN
          <6> SUFFICES ASSUME hcall = 2
                       PROVE  \E r \in 1 .. NReduce :
                                  r >= hi + 1 /\ status[<<"REDUCE", r>>] = NOTRUN
            BY <1>1, <5>1, Zenon
          <6>1. PICK r \in 1 .. NReduce : r >= hi /\ status[<<"REDUCE", r>>] = NOTRUN
            BY <4>1, Zenon DEF CoordInv, CallInv
          <6>2. r # hi
            BY <4>4, <6>1, Zenon
          <6>3. r >= hi + 1
            BY <6>1, <6>2 DEF TypeOK, TypeCoord
          <6> QED
            BY <6>1, <6>3, Zenon
        <5> QED
          BY <4>2, <5>1, <5>2, Zenon DEF CallInv
      <4> QED
        BY <4>3, <4>4, Zenon
    <3> QED
      BY <3>1, <3>2, Zenon
  <2> QED
    BY <2>1, <2>2, <2>3, Zenon
<1> QED
  BY <1>1, <1>2, <1>3, <1>4, <1>5, Zenon DEF CoordInv

\* Handing out a task that does not run, with all maps finished if it is a
\* reduce task, keeps the coordinator's invariant.
LEMMA CoordHandOut ==
    ASSUME TypeOK, CoordInv, AssignMap \/ AssignReduce
    PROVE  CoordInv' /\ StatusStep /\ UNCHANGED cpc
<1> USE SizesAssumption DEF NOTRUN, RUNNNING, FINISHED
<1>1. PICK k \in Task, next \in {"map", "reduce"} :
          /\ HandOut(k, next)
          /\ status[k] = NOTRUN
          /\ k \in ReduceTask => MapsFinished
          /\ next = "reduce" => k \in ReduceTask
  <2>1. CASE AssignMap
    BY <2>1, TaskNames DEF AssignMap, CoordInv, CallInv, TypeOK, TypeCoord
  <2>2. CASE AssignReduce
    BY <2>2, TaskNames DEF AssignReduce, CoordInv, CallInv, TypeOK, TypeCoord
  <2> QED
    BY <2>1, <2>2, Zenon
<1>2. /\ status' = [status EXCEPT ![k] = RUNNNING]
      /\ timers' = [timers EXCEPT ![k] = @ + 1]
      /\ UNCHANGED <<cpc, scan>> /\ hpc' = "free"
  BY <1>1, Zenon DEF HandOut, Reply, coordVars
<1>3. StatusStep
  BY <1>1, <1>2, Zenon DEF StatusStep, TypeOK, TypeTask
<1>4. OneTimerPerAttempt'
  BY <1>1, <1>2 DEF CoordInv, OneTimerPerAttempt, TypeOK, TypeTask
<1>5. ReduceAfterMaps'
  <2>1. \A w \in Worker : pc'[w] = "reduce" => pc[w] = "reduce" \/ k \in ReduceTask
    BY <1>1, Zenon DEF HandOut, Reply, workVars, TypeOK, TypeWork
  <2>2. MapsFinished => MapsFinished'
    BY <1>1, <1>2, TaskNames DEF MapsFinished, TypeOK, TypeTask
  <2>3. \A j \in ReduceTask : status'[j] # NOTRUN => status[j] # NOTRUN \/ k \in ReduceTask
    BY <1>1, <1>2, TaskNames DEF TypeOK, TypeTask
  <2> QED
    BY <1>1, <2>1, <2>2, <2>3, Zenon DEF CoordInv, ReduceAfterMaps, MapsFinished
<1>6. ScanInv'
  <2>1. \A j \in Task : status[j] = FINISHED => status'[j] = FINISHED
    BY <1>1, <1>2 DEF TypeOK, TypeTask
  <2> QED
    BY <1>2, <2>1, TaskNames, Zenon DEF CoordInv, ScanInv, Task
<1>7. CallInv'
  BY <1>2, Zenon DEF CallInv
<1> QED
  BY <1>2, <1>3, <1>4, <1>5, <1>6, <1>7, Zenon DEF CoordInv, NeverNil

\* A CompareAndSwap of a timer or of HandleFinish disturbs nothing that a
\* HandleWorker call or Done has seen.
LEMMA CoordSwap ==
    ASSUME TypeOK, CoordInv,
           (\E k \in Task : TimerExpires(k)) \/ (\E w \in Worker : HandleFinish(w))
    PROVE  CoordInv' /\ StatusStep /\ UNCHANGED cpc
<1> USE SizesAssumption DEF NOTRUN, RUNNNING, FINISHED
<1>1. UNCHANGED <<cpc, scan, hpc, hi, hcall>>
  BY Zenon DEF TimerExpires, HandleFinish, coordVars, callVars
<1>2. \A w \in Worker : pc'[w] = "reduce" => pc[w] = "reduce"
  BY Zenon DEF TimerExpires, HandleFinish, workVars, TypeOK, TypeWork
<1>3. StatusStep
  <2>1. CASE \E k \in Task : TimerExpires(k)
    BY <2>1, Zenon DEF TimerExpires, TimerReset, CompareAndSwap, StatusStep, TypeOK, TypeTask
  <2>2. CASE \E w \in Worker : HandleFinish(w)
    BY <2>2, Zenon DEF HandleFinish, CompareAndSwap, StatusStep, TypeOK, TypeTask, TypeWork
  <2> QED
    BY <2>1, <2>2, Zenon
<1>4. \A k \in Task : /\ status[k] = FINISHED => status'[k] = FINISHED
                      /\ status[k] = NOTRUN => status'[k] = NOTRUN
                      /\ status'[k] # NOTRUN => status[k] # NOTRUN
  <2>1. CASE \E k \in Task : TimerExpires(k)
    BY <2>1 DEF TimerExpires, TimerReset, CompareAndSwap, TypeOK, TypeTask
  <2>2. CASE \E w \in Worker : HandleFinish(w)
    BY <2>2 DEF HandleFinish, CompareAndSwap, TypeOK, TypeTask, TypeWork
  <2> QED
    BY <2>1, <2>2, Zenon
<1>5. OneTimerPerAttempt'
  <2>1. CASE \E k \in Task : TimerExpires(k)
    BY <2>1 DEF TimerExpires, TimerReset, CompareAndSwap, TypeOK, TypeTask, CoordInv,
       OneTimerPerAttempt
  <2>2. CASE \E w \in Worker : HandleFinish(w)
    BY <2>2 DEF HandleFinish, CompareAndSwap, TypeOK, TypeTask, TypeWork, CoordInv,
       OneTimerPerAttempt
  <2> QED
    BY <2>1, <2>2, Zenon
<1>6. MapsFinished => MapsFinished'
  BY <1>4, TaskNames, Zenon DEF MapsFinished, Task
<1>7. ReduceAfterMaps'
  <2>1. \A k \in ReduceTask : status'[k] # NOTRUN => status[k] # NOTRUN
    BY <1>4, Zenon DEF Task
  <2> QED
    BY <1>2, <2>1, <1>6, Zenon DEF CoordInv, ReduceAfterMaps, MapsFinished
<1>8. ScanInv'
  BY <1>1, <1>4, TaskNames, Zenon DEF CoordInv, ScanInv, Task
<1>9. CallInv'
  <2>1. \A m \in 1 .. NMap :
            /\ status[<<"MAP", m>>] = FINISHED => status'[<<"MAP", m>>] = FINISHED
            /\ status[<<"MAP", m>>] = NOTRUN => status'[<<"MAP", m>>] = NOTRUN
    BY <1>4, TaskNames, Zenon
  <2>2. \A r \in 1 .. NReduce :
            status[<<"REDUCE", r>>] = NOTRUN => status'[<<"REDUCE", r>>] = NOTRUN
    BY <1>4, TaskNames, Zenon
  <2>3. /\ hpc = "assignMap" => hi \in 1 .. NMap
        /\ hpc = "assignReduce" => hi \in 1 .. NReduce
    BY DEF TypeOK, TypeCoord
  <2> HIDE DEF NOTRUN, RUNNNING, FINISHED
  <2> QED
    BY <1>1, <1>6, <2>1, <2>2, <2>3, Zenon DEF CoordInv, CallInv
<1> QED
  BY <1>1, <1>3, <1>5, <1>7, <1>8, <1>9, Zenon DEF CoordInv, NeverNil

\* Done's scan and the exit keep the invariant; the workers' own steps do not
\* touch the coordinator.
LEMMA CoordRest ==
    ASSUME TypeOK, CoordInv, Done \/ Exit \/ \E w \in Worker : WorkStep(w)
    PROVE  CoordInv' /\ UNCHANGED status
<1> USE SizesAssumption
<1>1. UNCHANGED <<status, timers, hpc, hi, hcall>>
  BY WorkFrame, Zenon DEF Done, Exit, taskVars, callVars
<1>2. \A w \in Worker : pc'[w] = "reduce" => pc[w] = "reduce"
  <2>1. CASE Done \/ Exit
    BY <2>1, Zenon DEF Done, Exit, workVars
  <2>2. ASSUME NEW u \in Worker, WorkStep(u)
        PROVE  \A w \in Worker : pc'[w] = "reduce" => pc[w] = "reduce"
    <3>1. pc \in [Worker -> {"ask", "wait", "map", "reduce", "finish", "exited", "crashed"}]
      BY Zenon DEF TypeOK, TypeWork
    <3>2. CASE DoMap(u) \/ EncodeFails(u)
      BY <3>1, <3>2, Zenon DEF DoMap, EncodeFails
    <3>3. CASE CreateOut(u) \/ ReadInter(u) \/ WriteOut(u) \/ IgnoredError(u)
      BY <3>1, <3>3, Zenon DEF CreateOut, ReadInter, WriteOut, IgnoredError
    <3>4. CASE WorkerExits(u) \/ Crash(u)
      BY <3>1, <3>4, Zenon DEF WorkerExits, Crash
    <3> QED
      BY <2>2, <3>2, <3>3, <3>4, Zenon DEF WorkStep
  <2> QED
    BY <2>1, <2>2, Zenon
<1>3. OneTimerPerAttempt' /\ CallInv' /\ ReduceAfterMaps'
  BY <1>1, <1>2, Zenon DEF CoordInv, OneTimerPerAttempt, CallInv, ReduceAfterMaps, MapsFinished
<1>4. NeverNil'
  BY WorkFrame, Zenon DEF Done, Exit, CoordInv, NeverNil
<1>5. ScanInv'
  <2>1. CASE Done
    <3>1. CASE status[<<"REDUCE", scan>>] # FINISHED
      BY <1>1, <2>1, <3>1 DEF Done, CoordInv, ScanInv
    <3>2. CASE status[<<"REDUCE", scan>>] = FINISHED
      <4>1. \A r \in 1 .. NReduce : r <= scan => status[<<"REDUCE", r>>] = FINISHED
        BY <3>2 DEF CoordInv, ScanInv, TypeOK, TypeCoord
      <4>2. CASE scan < NReduce
        BY <1>1, <2>1, <3>2, <4>1, <4>2 DEF Done, CoordInv, ScanInv, TypeOK, TypeCoord
      <4>3. CASE ~(scan < NReduce)
        <5>1. \A k \in ReduceTask : status[k] = FINISHED
          BY <4>1, <4>3, TaskNames DEF TypeOK, TypeCoord
        <5> QED
          BY <1>1, <2>1, <3>2, <4>3, <5>1, Zenon DEF Done, CoordInv, ScanInv
      <4> QED
        BY <4>2, <4>3, Zenon
    <3> QED
      BY <3>1, <3>2, Zenon
  <2>2. CASE Exit
    BY <1>1, <2>2, Zenon DEF Exit, CoordInv, ScanInv
  <2>3. CASE \E w \in Worker : WorkStep(w)
    BY <1>1, <2>3, WorkFrame, Zenon DEF CoordInv, ScanInv
  <2> QED
    BY <2>1, <2>2, <2>3, Zenon
<1> QED
  BY <1>1, <1>3, <1>4, <1>5, Zenon DEF CoordInv

\* Every step keeps the coordinator's invariant and moves each Status only
\* along NOTRUN, RUNNING, and from RUNNING to NOTRUN or FINISHED.
LEMMA CoordStep ==
    ASSUME TypeOK, CoordInv, [Next]_vars
    PROVE  CoordInv' /\ StatusStep
<1>1. CASE GetMapTask \/ MapFinished \/ GetReduceTask \/ \E w \in Worker : Lock(w)
  BY <1>1, CoordLoops, Zenon DEF StatusStep
<1>2. CASE AssignMap \/ AssignReduce
  BY <1>2, CoordHandOut, Zenon
<1>3. CASE (\E k \in Task : TimerExpires(k)) \/ (\E w \in Worker : HandleFinish(w))
  BY <1>3, CoordSwap, Zenon
<1>4. CASE Done \/ Exit \/ \E w \in Worker : WorkStep(w)
  BY <1>4, CoordRest, Zenon DEF StatusStep
<1>5. CASE UNCHANGED vars
  BY <1>5, Zenon DEF vars, taskVars, coordVars, callVars, workVars, CoordInv, OneTimerPerAttempt,
     ReduceAfterMaps, NeverNil, CallInv, ScanInv, MapsFinished, StatusStep
<1> QED
  BY <1>1, <1>2, <1>3, <1>4, <1>5, NextCases, Zenon DEF Handler

\* The coordinator's invariant holds always.
LEMMA CoordAlways == Spec => [](TypeOK /\ CoordInv)
<1>1. Init => TypeOK /\ CoordInv
  BY TypeInit, CoordInit, Zenon
<1>2. TypeOK /\ CoordInv /\ [Next]_vars => (TypeOK /\ CoordInv)'
  BY TypeStep, CoordStep, Zenon
<1> QED
  BY <1>1, <1>2, PTL DEF Spec

\* A running task always has exactly one timer, its own, that will put it
\* back: no task is lost and no attempt is cut short by an older timer.
THEOREM EveryAttemptHasItsTimer == Spec => []OneTimerPerAttempt
<1>1. CoordInv => OneTimerPerAttempt
  BY Zenon DEF CoordInv
<1> QED
  BY <1>1, CoordAlways, PTL

\* No reduce task starts before all map tasks are FINISHED.
THEOREM ReducesWaitForMaps == Spec => []ReduceAfterMaps
<1>1. CoordInv => ReduceAfterMaps
  BY Zenon DEF CoordInv
<1> QED
  BY <1>1, CoordAlways, PTL

\* The unchecked second getReduceTask call never returns nil.
THEOREM SecondCallFindsTask == Spec => []NeverNil
<1>1. CoordInv => NeverNil
  BY Zenon DEF CoordInv
<1> QED
  BY <1>1, CoordAlways, PTL

\* All tasks are FINISHED when Done returns true.
LEMMA AllFinished ==
    ASSUME CoordInv, cpc \in {"done", "exited"}
    PROVE  \A k \in Task : status[k] = FINISHED
<1>1. \A k \in ReduceTask : status[k] = FINISHED
  BY Zenon DEF CoordInv, ScanInv
<1>2. \E k \in ReduceTask : status[k] # NOTRUN
  BY <1>1, TaskNames DEF FINISHED, NOTRUN
<1>3. \A k \in MapTask : status[k] = FINISHED
  BY <1>2, Zenon DEF CoordInv, ReduceAfterMaps
<1> QED
  BY <1>1, <1>3, TaskNames, Zenon

\* The lock-free scan of Done answers true only when every task is FINISHED.
THEOREM DoneTellsTruth == Spec => []DoneIsTrue
<1>1. CoordInv => DoneIsTrue
  BY AllFinished, Zenon DEF DoneIsTrue
<1> QED
  BY <1>1, CoordAlways, PTL

\* No store, swap or timer takes a task out of FINISHED.
THEOREM FinishedIsFinal == Spec => FinishedStays
<1>1. TypeOK /\ CoordInv /\ [Next]_vars
      => [\A k \in Task : status[k] = FINISHED => status'[k] = FINISHED]_vars
  BY CoordStep DEF StatusStep, NOTRUN, RUNNNING, FINISHED
<1> QED
  BY <1>1, CoordAlways, PTL DEF Spec, FinishedStays

\* One step of the coordinator or of a worker is one step of Job or none.
LEMMA JobStep ==
    ASSUME TypeOK, CoordInv, [Next]_vars
    PROVE  [JobView!Next]_<<{k \in Task : status[k] = FINISHED}, cpc \in {"done", "exited"}>>
<1> DEFINE fin == {k \in Task : status[k] = FINISHED}
           over == cpc \in {"done", "exited"}
<1> SUFFICES \/ JobView!Next
             \/ fin' = fin /\ over' = over
  OBVIOUS
<1>1. CASE UNCHANGED vars
  BY <1>1, Zenon DEF vars, taskVars, coordVars
<1>2. CASE GetMapTask \/ MapFinished \/ GetReduceTask \/ \E w \in Worker : Lock(w)
  <2>1. UNCHANGED status /\ (cpc' = cpc \/ cpc' = "panicked") /\ NeverNil'
    BY <1>2, CoordLoops, Zenon DEF CoordInv
  <2> QED
    BY <2>1, Zenon DEF NeverNil
<1>3. CASE AssignMap \/ AssignReduce
  <2>1. \A k \in Task : status'[k] = FINISHED <=> status[k] = FINISHED
    <3>1. StatusStep
      BY <1>3, CoordHandOut, Zenon
    <3>2. \A k \in Task : status'[k] = FINISHED => status[k] = FINISHED
      BY <1>3 DEF AssignMap, AssignReduce, HandOut, RUNNNING, FINISHED, TypeOK, TypeTask
    <3> QED
      BY <3>1, <3>2 DEF StatusStep, NOTRUN, RUNNNING, FINISHED
  <2>2. UNCHANGED cpc
    BY <1>3, CoordHandOut, Zenon
  <2> QED
    BY <2>1, <2>2, Zenon
<1>4. CASE \E k \in Task : TimerExpires(k)
  <2>1. \A k \in Task : status'[k] = FINISHED <=> status[k] = FINISHED
    BY <1>4 DEF TimerExpires, TimerReset, CompareAndSwap, NOTRUN, RUNNNING, FINISHED,
       TypeOK, TypeTask
  <2>2. UNCHANGED cpc
    BY <1>4, CoordSwap, Zenon
  <2> QED
    BY <2>1, <2>2, Zenon
<1>5. CASE \E w \in Worker : HandleFinish(w)
  <2>1. PICK w \in Worker : HandleFinish(w)
    BY <1>5, Zenon
  <2>2. PICK k \in Task : k = task[w]
    BY <2>1, Zenon DEF HandleFinish, TypeOK, TypeWork
  <2>3. UNCHANGED cpc
    BY <1>5, CoordSwap, Zenon
  <2>4. CASE status[k] # RUNNNING
    BY <2>1, <2>2, <2>3, <2>4, Zenon DEF HandleFinish, CompareAndSwap
  <2>5. CASE status[k] = RUNNNING
    <3>1. status' = [status EXCEPT ![k] = FINISHED]
      BY <2>1, <2>2, <2>5, Zenon DEF HandleFinish, CompareAndSwap
    <3>2. k \notin fin /\ fin' = fin \union {k}
      BY <2>5, <3>1 DEF TypeOK, TypeTask, RUNNNING, FINISHED
    <3>3. k \in ReduceTask => MapTask \subseteq fin
      BY <2>5 DEF CoordInv, ReduceAfterMaps, RUNNNING, NOTRUN, Task
    <3>4. JobView!Finish(k)
      BY <2>3, <3>2, <3>3, Zenon DEF JobView!Finish
    <3> QED
      BY <3>4, Zenon DEF JobView!Next, Task
  <2> QED
    BY <2>4, <2>5, Zenon
<1>6. CASE Done
  <2>1. UNCHANGED status
    BY <1>6, CoordRest, Zenon
  <2>2. CASE UNCHANGED cpc
    BY <2>1, <2>2, Zenon
  <2>3. CASE ~UNCHANGED cpc
    <3>1. cpc = "run" /\ cpc' = "done"
      BY <1>6, <2>3, Zenon DEF Done
    <3>2. \A k \in Task : status'[k] = FINISHED
      <4>1. CoordInv'
        BY <1>6, CoordRest, Zenon
      <4>2. \A k \in ReduceTask : status'[k] = FINISHED
        BY <3>1, <4>1, Zenon DEF CoordInv, ScanInv
      <4>3. \E k \in ReduceTask : status'[k] # NOTRUN
        BY <4>2, TaskNames DEF FINISHED, NOTRUN
      <4>4. \A k \in MapTask : status'[k] = FINISHED
        BY <4>1, <4>3, Zenon DEF CoordInv, ReduceAfterMaps
      <4> QED
        BY <4>2, <4>4, TaskNames, Zenon
    <3>3. JobView!Declare
      BY <2>1, <3>1, <3>2, Zenon DEF JobView!Declare, Task
    <3> QED
      BY <3>3, Zenon DEF JobView!Next
  <2> QED
    BY <2>2, <2>3, Zenon
<1>7. CASE Exit \/ \E w \in Worker : WorkStep(w)
  BY <1>7, CoordRest, WorkFrame DEF Exit
<1> QED
  BY <1>1, <1>2, <1>3, <1>4, <1>5, <1>6, <1>7, NextCases, Zenon DEF Handler

\* The coordinator, with all its unsynchronised accesses, implements Job.
THEOREM CoordinatorImplementsJob == Spec => ImplementsJob
<1>1. Init => JobView!Init
  BY DEF Init, JobView!Init, NOTRUN, FINISHED
<1> QED
  BY <1>1, JobStep, CoordAlways, PTL DEF Spec, ImplementsJob, JobView!Spec

----------------------------------------------------------------------------
(* The output, when no timer expires under a worker that still works *)

Working(w) == pc[w] \in {"map", "reduce", "finish"}

\* Who works on a task owns it, and it is RUNNING: there is one writer.
OneWriter == \A w \in Worker :
    Working(w) => owner[task[w]] = w /\ status[task[w]] = RUNNNING

\* Finished map tasks have complete files; a map at work has completed the
\* files before the current one and the blocks before the current one.
InterInv ==
    /\ \A m \in 1 .. NMap, r \in 1 .. NReduce :
          status[<<"MAP", m>>] = FINISHED => inter[m][r] = Block
    /\ \A w \in Worker : \A r \in 1 .. NReduce :
          /\ pc[w] = "map" /\ r < file[w] => inter[task[w][2]][r] = Block
          /\ pc[w] = "map" /\ r = file[w] =>
                \A b \in Block : b < block[w] => b \in inter[task[w][2]][r]
          /\ pc[w] = "finish" /\ task[w] \in MapTask => inter[task[w][2]][r] = Block

\* Finished reduce tasks have correct output; a reduce at work has read complete
\* input only, and written the blocks before the current one from it.
OutInv ==
    /\ \A r \in 1 .. NReduce, b \in Block :
          status[<<"REDUCE", r>>] = FINISHED => out[r][b] = "good"
    /\ \A w \in Worker :
          /\ pc[w] = "reduce" => whole[w] = TRUE
          /\ \A b \in Block :
                /\ pc[w] = "reduce" /\ b < block[w] /\ file[w] = NMap + 1 =>
                      out[task[w][2]][b] = "good"
                /\ pc[w] = "finish" /\ task[w] \in ReduceTask =>
                      out[task[w][2]][b] = "good"
          /\ pc[w] = "reduce" /\ block[w] > 1 => file[w] = NMap + 1

\* The inductive invariant of the output.
OutputInv == mishaps = 0 /\ OneWriter /\ InterInv /\ OutInv

\* Nobody works and nothing is finished at the start.
LEMMA OutputInit == Init => OutputInv
  BY TaskNames DEF Init, OutputInv, OneWriter, InterInv, OutInv, Working, NOTRUN, FINISHED

\* A step that gives nobody work and finishes nothing keeps OutputInv if
\* those who still work keep their place and their task.
LEMMA OutputKept ==
    ASSUME TypeOK, OutputInv, UNCHANGED <<inter, out, mishaps>>,
           \A w \in Worker : Working(w)' =>
               /\ pc'[w] = pc[w] /\ task'[w] = task[w]
               /\ file'[w] = file[w] /\ block'[w] = block[w] /\ whole'[w] = whole[w],
           \A k \in Task : status'[k] = FINISHED => status[k] = FINISHED,
           \A w \in Worker : Working(w)' =>
               owner'[task[w]] = owner[task[w]] /\ status'[task[w]] = status[task[w]]
    PROVE  OutputInv'
<1>1. OneWriter'
  BY Zenon DEF OutputInv, OneWriter, Working
<1>2. InterInv'
  <2>1. \A m \in 1 .. NMap : status'[<<"MAP", m>>] = FINISHED => status[<<"MAP", m>>] = FINISHED
    BY TaskNames, Zenon
  <2> QED
    BY <2>1 DEF OutputInv, InterInv, Working
<1>3. OutInv'
  <2>1. \A r \in 1 .. NReduce :
            status'[<<"REDUCE", r>>] = FINISHED => status[<<"REDUCE", r>>] = FINISHED
    BY TaskNames, Zenon
  <2> QED
    BY <2>1 DEF OutputInv, OutInv, Working
<1> QED
  BY <1>1, <1>2, <1>3, Zenon DEF OutputInv

\* The loops of HandleWorker, timers, Done, exits, failed writes and crashes.
LEMMA OutputIdle ==
    ASSUME mishaps' = 0, TypeOK, CoordInv, OutputInv,
           \/ GetMapTask \/ MapFinished \/ GetReduceTask \/ Done \/ Exit
           \/ \E w \in Worker : Lock(w) \/ EncodeFails(w) \/ WorkerExits(w) \/ Crash(w)
           \/ \E k \in Task : TimerExpires(k)
    PROVE  OutputInv'
<1>1. CASE \/ GetMapTask \/ MapFinished \/ GetReduceTask \/ Done \/ Exit
           \/ \E w \in Worker : Lock(w) \/ EncodeFails(w) \/ WorkerExits(w) \/ Crash(w)
  <2>1. UNCHANGED <<status, owner, inter, out, mishaps>>
    BY <1>1, Zenon DEF GetMapTask, MapFinished, GetReduceTask, Done, Exit, Lock, EncodeFails,
       WorkerExits, Crash, taskVars, fileVars
  <2>2. \A w \in Worker : Working(w)' =>
               /\ pc'[w] = pc[w] /\ task'[w] = task[w]
               /\ file'[w] = file[w] /\ block'[w] = block[w] /\ whole'[w] = whole[w]
    <3>1. CASE \/ GetMapTask \/ MapFinished \/ GetReduceTask
      BY <3>1, Zenon DEF GetMapTask, MapFinished, GetReduceTask, GoTo, NilTask, Reply, workVars,
         Working, TypeOK, TypeWork
    <3>2. CASE \/ Done \/ Exit
               \/ \E w \in Worker : Lock(w) \/ EncodeFails(w) \/ WorkerExits(w) \/ Crash(w)
      BY <3>2, Zenon DEF Done, Exit, Lock, EncodeFails, WorkerExits, Crash, workVars,
         Working, TypeOK, TypeWork
    <3> QED
      BY <1>1, <3>1, <3>2, Zenon
  <2> QED
    BY <2>1, <2>2, OutputKept, Zenon
<1>2. CASE \E k \in Task : TimerExpires(k)
  <2>1. PICK k \in Task : TimerExpires(k)
    BY <1>2, Zenon
  <2>2. ~Busy(k)
    BY <2>1 DEF TimerExpires, OutputInv
  <2>3. UNCHANGED <<pc, task, file, block, whole, inter, out, owner, mishaps>>
    BY <2>1, <2>2, Zenon DEF TimerExpires, workVars, fileVars
  <2>4. \A w \in Worker : Working(w) => task[w] # k
    BY <2>2, NoneAssumption, Zenon DEF OutputInv, OneWriter, Working, Busy
  <2>5. \A j \in Task : /\ j # k => status'[j] = status[j]
                        /\ status'[j] = FINISHED => status[j] = FINISHED
    BY <2>1 DEF TimerExpires, TimerReset, CompareAndSwap, TypeOK, TypeTask, NOTRUN, FINISHED
  <2>6. \A w \in Worker : Working(w) => task[w] \in Task
    BY TaskNames, Zenon DEF Working, TypeOK, TypeWork, Task
  <2> QED
    BY <2>3, <2>4, <2>5, <2>6, OutputKept, Zenon DEF Working
<1> QED
  BY <1>1, <1>2, Zenon

\* A task that is handed out has no writer: its new worker is the only one.
LEMMA OutputHandOut ==
    ASSUME TypeOK, CoordInv, OutputInv, AssignMap \/ AssignReduce
    PROVE  OutputInv'
<1> USE SizesAssumption DEF NOTRUN, RUNNNING, FINISHED
<1>1. PICK k \in Task, next \in {"map", "reduce"} :
          /\ HandOut(k, next)
          /\ status[k] = NOTRUN
          /\ next = "map" => k \in MapTask
          /\ next = "reduce" => k \in ReduceTask
  <2>1. CASE AssignMap
    BY <2>1, TaskNames DEF AssignMap, CoordInv, CallInv, TypeOK, TypeCoord
  <2>2. CASE AssignReduce
    BY <2>2, TaskNames DEF AssignReduce, CoordInv, CallInv, TypeOK, TypeCoord
  <2> QED
    BY <2>1, <2>2, Zenon
<1>2. holder \in Worker
  BY Zenon DEF AssignMap, AssignReduce, TypeOK, TypeCoord
<1>3. /\ status' = [status EXCEPT ![k] = RUNNNING]
      /\ owner' = [owner EXCEPT ![k] = holder]
      /\ UNCHANGED <<inter, out, mishaps>>
  BY <1>1, Zenon DEF HandOut, fileVars
<1>4. \A w \in Worker : Working(w) => task[w] \in Task /\ task[w] # k
  BY <1>1, TaskNames DEF OutputInv, OneWriter, Working, TypeOK, TypeWork, Task
<1>5. CASE pc[holder] # "wait"
  <2>1. UNCHANGED <<pc, task, file, block, whole>>
    BY <1>1, <1>5, Zenon DEF HandOut, Reply, workVars
  <2> QED
    BY <1>1, <1>3, <1>4, <2>1, OutputKept DEF Working, TypeOK, TypeTask
<1>6. CASE pc[holder] = "wait"
  <2>1. /\ pc'    = [pc EXCEPT ![holder] = next]
        /\ task'  = [task EXCEPT ![holder] = k]
        /\ file'  = [file EXCEPT ![holder] = 1]
        /\ block' = [block EXCEPT ![holder] = 0]
        /\ whole' = [whole EXCEPT ![holder] = TRUE]
    BY <1>1, <1>6, Zenon DEF HandOut, Reply
  <2>2. /\ pc'[holder] = next /\ task'[holder] = k /\ file'[holder] = 1
        /\ block'[holder] = 0 /\ whole'[holder] = TRUE
        /\ \A w \in Worker : w # holder =>
              /\ pc'[w] = pc[w] /\ task'[w] = task[w] /\ file'[w] = file[w]
              /\ block'[w] = block[w] /\ whole'[w] = whole[w]
    BY <1>2, <2>1, Zenon DEF TypeOK, TypeWork
  <2>3. \A j \in Task : /\ j # k => status'[j] = status[j] /\ owner'[j] = owner[j]
                        /\ status'[j] = FINISHED => status[j] = FINISHED
    BY <1>3 DEF TypeOK, TypeTask
  <2>4. OneWriter'
    BY <1>2, <1>3, <1>4, <2>2, <2>3 DEF OutputInv, OneWriter, Working, TypeOK, TypeTask
  <2>5. InterInv'
    <3>1. \A m \in 1 .. NMap : status'[<<"MAP", m>>] = FINISHED => status[<<"MAP", m>>] = FINISHED
      BY <2>3, TaskNames, Zenon
    <3>2. ASSUME NEW r \in 1 .. NReduce
          PROVE  ~(r < 1) /\ \A b \in Block : ~(b < 0)
      BY DEF Block
    <3> HIDE DEF NOTRUN, RUNNNING, FINISHED
    <3> QED
      BY <1>3, <2>2, <3>1, <3>2 DEF OutputInv, InterInv
  <2>6. OutInv'
    <3>1. \A r \in 1 .. NReduce :
              status'[<<"REDUCE", r>>] = FINISHED => status[<<"REDUCE", r>>] = FINISHED
      BY <2>3, TaskNames, Zenon
    <3>2. \A b \in Block : ~(b < 0)
      BY DEF Block
    <3> HIDE DEF NOTRUN, RUNNNING, FINISHED
    <3> QED
      BY <1>3, <2>2, <3>1, <3>2 DEF OutputInv, OutInv
  <2> QED
    BY <1>3, <2>4, <2>5, <2>6, Zenon DEF OutputInv
<1> QED
  BY <1>5, <1>6, Zenon

\* Workers that work have different tasks.
LEMMA Writers ==
    ASSUME TypeOK, OneWriter
    PROVE  \A u, w \in Worker : Working(u) /\ Working(w) /\ u # w => task[u] # task[w]
  BY Zenon DEF OneWriter

\* A finished task is not written any more.
LEMMA WorkingNotFinished ==
    ASSUME OneWriter, NEW w \in Worker, Working(w)
    PROVE  status[task[w]] # FINISHED
  BY DEF OneWriter, RUNNNING, FINISHED

\* A task that is reported has its files complete.
LEMMA OutputFinish ==
    ASSUME TypeOK, OutputInv, NEW w \in Worker, HandleFinish(w)
    PROVE  OutputInv'
<1>1. /\ status[task[w]] = RUNNNING /\ task[w] \in Task
      /\ status' = [status EXCEPT ![task[w]] = FINISHED]
  BY Zenon DEF HandleFinish, CompareAndSwap, OutputInv, OneWriter, Working, TypeOK, TypeWork
<1>2. /\ UNCHANGED <<owner, file, block, whole, inter, out, mishaps>>
      /\ ~Working(w)'
      /\ \A u \in Worker : u # w => pc'[u] = pc[u] /\ task'[u] = task[u]
  BY Zenon DEF HandleFinish, fileVars, Working, TypeOK, TypeWork
<1>3. \A u \in Worker : u # w /\ Working(u) => task[u] # task[w] /\ task[u] \in Task
  BY Writers, TaskNames, Zenon DEF HandleFinish, OutputInv, Working, TypeOK, TypeWork, Task
<1>4. OneWriter'
  BY <1>1, <1>2, <1>3, Zenon DEF OutputInv, OneWriter, Working, TypeOK, TypeTask
<1>5. InterInv'
  <2>1. ASSUME NEW m \in 1 .. NMap, NEW r \in 1 .. NReduce, status'[<<"MAP", m>>] = FINISHED
        PROVE  inter[m][r] = Block
    <3>1. CASE task[w] = <<"MAP", m>>
      BY <3>1, TaskNames DEF HandleFinish, OutputInv, InterInv
    <3>2. CASE task[w] # <<"MAP", m>>
      BY <1>1, <2>1, <3>2, TaskNames, Zenon DEF OutputInv, InterInv, TypeOK, TypeTask
    <3> QED
      BY <3>1, <3>2, Zenon
  <2> QED
    BY <1>2, <2>1, SMTT(30) DEF OutputInv, InterInv, Working
<1>6. OutInv'
  <2>1. ASSUME NEW r \in 1 .. NReduce, NEW b \in Block, status'[<<"REDUCE", r>>] = FINISHED
        PROVE  out[r][b] = "good"
    <3>1. CASE task[w] = <<"REDUCE", r>>
      BY <3>1, TaskNames, SMTT(30) DEF HandleFinish, OutputInv, OutInv
    <3>2. CASE task[w] # <<"REDUCE", r>>
      BY <1>1, <2>1, <3>2, TaskNames, Zenon DEF OutputInv, OutInv, TypeOK, TypeTask
    <3> QED
      BY <3>1, <3>2, Zenon
  <2> QED
    BY <1>2, <2>1 DEF OutputInv, OutInv, Working
<1> QED
  BY <1>2, <1>4, <1>5, <1>6, Zenon DEF OutputInv

\* doMap truncates and writes the files of its own task only.
LEMMA OutputDoMap ==
    ASSUME TypeOK, OutputInv, NEW w \in Worker, DoMap(w)
    PROVE  OutputInv'
<1> USE SizesAssumption
<1>1. PICK m \in 1 .. NMap, r \in 1 .. NReduce :
          task[w] = <<"MAP", m>> /\ task[w][2] = m /\ r = file[w]
  BY TaskNames DEF DoMap, TypeOK, TypeWork
<1>2. /\ pc[w] = "map" /\ block[w] \in 0 .. NBlock
      /\ UNCHANGED <<status, owner, task, whole, out, mishaps>>
  BY DEF DoMap, TypeOK, TypeWork, taskVars
<1>3. \A i \in 1 .. NMap, j \in 1 .. NReduce :
          inter'[i][j] = IF i = m /\ j = r
                         THEN IF block[w] = 0 THEN {} ELSE inter[m][r] \union {block[w]}
                         ELSE inter[i][j]
  <2>1. inter' = [inter EXCEPT ![m][r] =
                     IF block[w] = 0 THEN {} ELSE @ \union {block[w]}]
    BY <1>1, Zenon DEF DoMap
  <2> QED
    BY <2>1, Zenon DEF TypeOK, TypeFiles
<1>4. /\ block'[w] = IF block[w] = NBlock THEN 0 ELSE block[w] + 1
      /\ file'[w] = IF block[w] = NBlock /\ r < NReduce THEN r + 1 ELSE r
      /\ pc'[w] = IF block[w] = NBlock /\ r = NReduce THEN "finish" ELSE "map"
      /\ \A u \in Worker : u # w =>
            pc'[u] = pc[u] /\ file'[u] = file[u] /\ block'[u] = block[u]
  BY <1>1, <1>2, Zenon DEF DoMap, TypeOK, TypeWork
<1>5. OneWriter'
  BY <1>2, <1>4, Zenon DEF OutputInv, OneWriter, Working
<1>6. OutInv'
  <2>1. \A u \in Worker : pc'[u] = "reduce" => pc[u] = "reduce" /\ u # w
    BY <1>2, <1>4, Zenon
  <2>2. \A u \in Worker : pc'[u] = "finish" /\ task[u] \in ReduceTask => pc[u] = "finish"
    BY <1>1, <1>2, <1>4, TaskNames, Zenon
  <2>3. OutInv
    BY Zenon DEF OutputInv
  <2>4. \A i \in 1 .. NReduce, b \in Block :
            status'[<<"REDUCE", i>>] = FINISHED => out'[i][b] = "good"
    BY <1>2, <2>3, Zenon DEF OutInv
  <2>5. ASSUME NEW u \in Worker
        PROVE  /\ pc'[u] = "reduce" => whole'[u] = TRUE
               /\ pc'[u] = "reduce" /\ block'[u] > 1 => file'[u] = NMap + 1
    BY <1>2, <1>4, <2>1, <2>3, SMTT(30) DEF OutInv
  <2>6. ASSUME NEW u \in Worker, NEW b \in Block
        PROVE  /\ pc'[u] = "reduce" /\ b < block'[u] /\ file'[u] = NMap + 1 =>
                     out'[task'[u][2]][b] = "good"
               /\ pc'[u] = "finish" /\ task'[u] \in ReduceTask =>
                     out'[task'[u][2]][b] = "good"
    BY <1>2, <1>4, <2>1, <2>2, <2>3 DEF OutInv
  <2> QED
    BY <2>4, <2>5, <2>6, Zenon DEF OutInv
<1>7. InterInv'
  <2>1. status[<<"MAP", m>>] # FINISHED
    BY <1>1, <1>2, WorkingNotFinished, Zenon DEF OutputInv, Working
  <2>2. \A i \in 1 .. NMap, j \in 1 .. NReduce :
            status'[<<"MAP", i>>] = FINISHED => inter'[i][j] = Block
    <3> SUFFICES ASSUME NEW i \in 1 .. NMap, NEW j \in 1 .. NReduce,
                        status[<<"MAP", i>>] = FINISHED
                 PROVE  inter'[i][j] = Block
      BY <1>2, Zenon
    <3>1. inter[i][j] = Block
      BY Zenon DEF OutputInv, InterInv
    <3>2. i # m
      BY <2>1, Zenon
    <3> QED
      BY <1>3, <3>1, <3>2, Zenon
  <2>3. ASSUME NEW u \in Worker, u # w, pc[u] = "map" \/ (pc[u] = "finish" /\ task[u] \in MapTask),
               NEW j \in 1 .. NReduce
        PROVE  inter'[task[u][2]][j] = inter[task[u][2]][j]
    <3>1. task[u] \in MapTask /\ task[u] # task[w]
      BY <2>3, <1>2, Writers, Zenon DEF Working, TypeOK, TypeWork, OutputInv
    <3>2. task[u][2] \in 1 .. NMap /\ task[u][2] # m
      BY <1>1, <3>1, TaskNames, Zenon
    <3> QED
      BY <1>3, <3>2, Zenon
  <2>4. \A j \in 1 .. NReduce : j < r => inter'[m][j] = Block
    <3>1. \A j \in 1 .. NReduce : j < r => inter[m][j] = Block
      BY <1>1, <1>2, Zenon DEF OutputInv, InterInv
    <3> QED
      BY <1>3, <3>1
  <2>5. \A b \in Block : b <= block[w] => b \in inter'[m][r]
    <3>1. \A b \in Block : b < block[w] => b \in inter[m][r]
      BY <1>1, <1>2, Zenon DEF OutputInv, InterInv
    <3> QED
      BY <1>2, <1>3, <3>1 DEF Block
  <2>6. block[w] = NBlock => inter'[m][r] = Block
    <3>1. inter'[m][r] \subseteq Block
      <4>1. inter[m][r] \subseteq Block
        BY Zenon DEF TypeOK, TypeFiles
      <4>2. block[w] # 0 => block[w] \in Block
        BY <1>2 DEF Block
      <4> QED
        BY <1>3, <4>1, <4>2, Zenon
    <3>2. ASSUME block[w] = NBlock, NEW b \in Block PROVE b \in inter'[m][r]
      <4>1. b <= block[w]
        BY <3>2 DEF Block
      <4> QED
        BY <2>5, <4>1, Zenon
    <3> QED
      BY <3>1, <3>2, Zenon
  <2>7. ASSUME NEW j \in 1 .. NReduce
        PROVE  /\ pc'[w] = "map" /\ j < file'[w] => inter'[m][j] = Block
               /\ pc'[w] = "map" /\ j = file'[w] =>
                     \A b \in Block : b < block'[w] => b \in inter'[m][j]
               /\ pc'[w] = "finish" => inter'[m][j] = Block
    <3>1. CASE block[w] = NBlock
      BY <1>4, <2>4, <2>6, <3>1 DEF Block
    <3>2. CASE block[w] # NBlock
      BY <1>2, <1>4, <2>4, <2>5, <3>2 DEF Block
    <3> QED
      BY <3>1, <3>2, Zenon
  <2>8. ASSUME NEW u \in Worker, NEW j \in 1 .. NReduce
        PROVE  /\ pc'[u] = "map" /\ j < file'[u] => inter'[task'[u][2]][j] = Block
               /\ pc'[u] = "map" /\ j = file'[u] =>
                     \A b \in Block : b < block'[u] => b \in inter'[task'[u][2]][j]
               /\ pc'[u] = "finish" /\ task'[u] \in MapTask => inter'[task'[u][2]][j] = Block
    <3>1. CASE u = w
      BY <1>1, <1>2, <2>7, <3>1, Zenon
    <3>2. CASE u # w
      <4>1. /\ pc'[u] = pc[u] /\ file'[u] = file[u] /\ block'[u] = block[u]
            /\ task'[u] = task[u]
        BY <1>2, <1>4, <3>2, Zenon
      <4>2. CASE pc[u] = "map" \/ (pc[u] = "finish" /\ task[u] \in MapTask)
        <5>1. inter'[task[u][2]][j] = inter[task[u][2]][j]
          BY <2>3, <3>2, <4>2, Zenon
        <5> QED
          BY <4>1, <4>2, <5>1, Zenon DEF OutputInv, InterInv
      <4>3. CASE ~(pc[u] = "map" \/ (pc[u] = "finish" /\ task[u] \in MapTask))
        BY <4>1, <4>3, Zenon
      <4> QED
        BY <4>2, <4>3, Zenon
    <3> QED
      BY <3>1, <3>2, Zenon
  <2> QED
    BY <2>2, <2>8, Zenon DEF InterInv
<1> QED
  BY <1>2, <1>5, <1>6, <1>7, Zenon DEF OutputInv

\* A step of doReduce leaves the intermediate files and their writers alone.
LEMMA OutputReduceFrame ==
    ASSUME TypeOK, OutputInv, NEW w \in Worker,
           CreateOut(w) \/ ReadInter(w) \/ WriteOut(w)
    PROVE  mishaps' = 0 /\ OneWriter' /\ InterInv'
<1>1. /\ UNCHANGED <<status, owner, task, inter, mishaps>>
      /\ pc[w] = "reduce" /\ pc'[w] \in {"reduce", "finish"}
      /\ \A u \in Worker : u # w =>
            pc'[u] = pc[u] /\ file'[u] = file[u] /\ block'[u] = block[u]
  BY Zenon DEF CreateOut, ReadInter, WriteOut, TypeOK, TypeWork, taskVars, fileVars
<1>2. task[w] \notin MapTask
  BY <1>1, TaskNames, Zenon DEF TypeOK, TypeWork
<1>3. OneWriter'
  BY <1>1, Zenon DEF OutputInv, OneWriter, Working
<1>4. InterInv'
  <2>1. InterInv
    BY Zenon DEF OutputInv
  <2>2. \A m \in 1 .. NMap, r \in 1 .. NReduce :
            status'[<<"MAP", m>>] = FINISHED => inter'[m][r] = Block
    BY <1>1, <2>1, Zenon DEF InterInv
  <2>3. ASSUME NEW u \in Worker, NEW r \in 1 .. NReduce
        PROVE  /\ pc'[u] = "map" /\ r < file'[u] => inter'[task'[u][2]][r] = Block
               /\ pc'[u] = "map" /\ r = file'[u] =>
                     \A b \in Block : b < block'[u] => b \in inter'[task'[u][2]][r]
               /\ pc'[u] = "finish" /\ task'[u] \in MapTask => inter'[task'[u][2]][r] = Block
    <3>1. CASE u = w
      BY <1>1, <1>2, <3>1, Zenon
    <3>2. CASE u # w
      <4>1. /\ pc'[u] = pc[u] /\ file'[u] = file[u] /\ block'[u] = block[u]
            /\ task'[u] = task[u] /\ inter' = inter
        BY <1>1, <3>2, Zenon
      <4> QED
        BY <2>1, <4>1, Zenon DEF InterInv
    <3> QED
      BY <3>1, <3>2, Zenon
  <2> QED
    BY <2>2, <2>3, Zenon DEF InterInv
<1> QED
  BY <1>1, <1>3, <1>4, Zenon DEF OutputInv

\* doReduce reads complete files only and writes the output of its own task.
LEMMA OutputReduce ==
    ASSUME TypeOK, CoordInv, OutputInv, NEW w \in Worker,
           CreateOut(w) \/ ReadInter(w) \/ WriteOut(w)
    PROVE  OutputInv'
<1> USE SizesAssumption
<1>1. PICK r \in 1 .. NReduce : task[w] = <<"REDUCE", r>> /\ task[w][2] = r
  BY TaskNames, Zenon DEF CreateOut, ReadInter, WriteOut, TypeOK, TypeWork
<1>2. /\ UNCHANGED <<status, task>> /\ pc[w] = "reduce"
      /\ block[w] \in 0 .. NBlock /\ file[w] \in 1 .. NMap + 1
      /\ \A u \in Worker : u # w =>
            /\ pc'[u] = pc[u] /\ file'[u] = file[u] /\ block'[u] = block[u]
            /\ whole'[u] = whole[u]
  BY DEF CreateOut, ReadInter, WriteOut, TypeOK, TypeWork, taskVars
<1>3. \A j \in 1 .. NReduce : j # r => out'[j] = out[j]
  BY <1>1, Zenon DEF CreateOut, ReadInter, WriteOut, TypeOK, TypeFiles, fileVars
<1>4. status[<<"REDUCE", r>>] # FINISHED
  BY <1>1, <1>2, WorkingNotFinished, Zenon DEF OutputInv, Working
<1>5. \A i \in 1 .. NReduce, b \in Block :
          status'[<<"REDUCE", i>>] = FINISHED => out'[i][b] = "good"
  BY <1>2, <1>3, <1>4 DEF OutputInv, OutInv
<1>6. ASSUME NEW u \in Worker, u # w, pc[u] = "reduce" \/ (pc[u] = "finish" /\ task[u] \in ReduceTask)
      PROVE  out'[task[u][2]] = out[task[u][2]]
  <2>1. task[u] \in ReduceTask /\ task[u] # task[w]
    BY <1>6, <1>2, Writers, Zenon DEF Working, TypeOK, TypeWork, OutputInv
  <2>2. task[u][2] \in 1 .. NReduce /\ task[u][2] # r
    BY <1>1, <2>1, TaskNames, Zenon
  <2> QED
    BY <1>3, <2>2, Zenon
<1>7. whole[w] = TRUE /\ \A m \in 1 .. NMap : inter[m][r] = Block
  <2>1. \A m \in 1 .. NMap : status[<<"MAP", m>>] = FINISHED
    BY <1>2, TaskNames, Zenon DEF CoordInv, ReduceAfterMaps
  <2> QED
    BY <1>2, <2>1, Zenon DEF OutputInv, OutInv, InterInv
<1>8. /\ pc'[w] = "reduce" => whole'[w] = TRUE
      /\ \A b \in Block :
            /\ pc'[w] = "reduce" /\ b < block'[w] /\ file'[w] = NMap + 1 =>
                  out'[r][b] = "good"
            /\ pc'[w] = "finish" => out'[r][b] = "good"
      /\ pc'[w] = "reduce" /\ block'[w] > 1 => file'[w] = NMap + 1
  <2>1. CASE CreateOut(w)
    <3>1. block'[w] = 1
      BY <2>1, Zenon DEF CreateOut, TypeOK, TypeWork
    <3>2. pc'[w] = "reduce" /\ whole'[w] = TRUE
      BY <1>2, <1>7, <2>1, Zenon DEF CreateOut
    <3>3. \A b \in Block : ~(b < 1)
      BY DEF Block
    <3> QED
      BY <3>1, <3>2, <3>3
  <2>2. CASE ReadInter(w)
    <3>1. block'[w] = 1 /\ pc'[w] = "reduce"
      BY <1>2, <2>2, Zenon DEF ReadInter
    <3>2. file[w] \in 1 .. NMap
      BY <1>2, <2>2 DEF ReadInter
    <3>3. inter[file[w]][task[w][2]] = Block
      BY <1>1, <1>7, <3>2, Zenon
    <3>4. whole'[w] = TRUE
      <4>1. whole'[w] = (whole[w] /\ inter[file[w]][task[w][2]] = Block)
        BY <2>2, Zenon DEF ReadInter, TypeOK, TypeWork
      <4> QED
        BY <1>7, <3>3, <4>1, Zenon
    <3>5. \A b \in Block : ~(b < 1)
      BY DEF Block
    <3> QED
      BY <3>1, <3>4, <3>5
  <2>3. CASE WriteOut(w)
    <3>1. /\ block'[w] = block[w] + 1 /\ file'[w] = NMap + 1 /\ whole'[w] = TRUE
          /\ pc'[w] = IF block[w] = NBlock THEN "finish" ELSE "reduce"
          /\ file[w] = NMap + 1 /\ block[w] \in Block
      BY <1>2, <1>7, <2>3 DEF WriteOut, TypeOK, TypeWork, Block
    <3>2. out' = [out EXCEPT ![r][block[w]] = "good"]
      BY <1>1, <1>7, <2>3, Zenon DEF WriteOut
    <3>3. \A b \in Block : b < block[w] => out[r][b] = "good"
      BY <1>1, <1>2, <3>1, Zenon DEF OutputInv, OutInv
    <3>4. \A b \in Block : out'[r][b] = IF b = block[w] THEN "good" ELSE out[r][b]
      BY <3>1, <3>2, Zenon DEF TypeOK, TypeFiles
    <3> QED
      BY <1>2, <3>1, <3>3, <3>4, SMTT(30) DEF Block
  <2> QED
    BY <2>1, <2>2, <2>3, Zenon
<1>9. OutInv'
  <2>1. ASSUME NEW u \in Worker
        PROVE  /\ pc'[u] = "reduce" => whole'[u] = TRUE
               /\ \A b \in Block :
                     /\ pc'[u] = "reduce" /\ b < block'[u] /\ file'[u] = NMap + 1 =>
                           out'[task'[u][2]][b] = "good"
                     /\ pc'[u] = "finish" /\ task'[u] \in ReduceTask =>
                           out'[task'[u][2]][b] = "good"
               /\ pc'[u] = "reduce" /\ block'[u] > 1 => file'[u] = NMap + 1
    <3>1. CASE u = w
      BY <1>1, <1>2, <1>8, <3>1, Zenon
    <3>2. CASE u # w
      BY <1>2, <1>6, <3>2, SMTT(30) DEF OutputInv, OutInv
    <3> QED
      BY <3>1, <3>2, Zenon
  <2> QED
    BY <1>5, <2>1, Zenon DEF OutInv
<1> QED
  BY <1>9, OutputReduceFrame, Zenon DEF OutputInv

\* If every attempt ends, by report, failure or crash, before its timer does,
\* and doReduce meets no file error (it would not notice one),
\* the coordinator exits with complete output computed from complete input,
\* however many workers crash and wherever.
THEOREM OutputIsCorrect == Spec => []TimelyOutputCorrect
<1> DEFINE Timely == mishaps = 0
           Inv == TypeOK /\ CoordInv /\ (Timely => OutputInv)
<1>1. Init => Inv
  BY TypeInit, CoordInit, OutputInit, Zenon
<1>2. Inv /\ [Next]_vars => Inv'
  <2> SUFFICES ASSUME TypeOK, CoordInv, Timely => OutputInv, [Next]_vars, Timely'
               PROVE  OutputInv'
    BY TypeStep, CoordStep, Zenon
  <2>1. mishaps = 0
    <3>1. mishaps \in Nat
      BY Zenon DEF TypeOK, TypeFiles
    <3>2. mishaps' = mishaps \/ mishaps' = mishaps + 1
      BY Zenon DEF Next, vars, Lock, GetMapTask, AssignMap, HandOut, MapFinished, GetReduceTask,
         AssignReduce, TimerExpires, HandleFinish, Done, Exit, DoMap, EncodeFails,
         CreateOut, ReadInter, WriteOut, IgnoredError, WorkerExits, Crash
    <3> QED
      BY <3>1, <3>2
  <2>2. OutputInv /\ mishaps' = 0
    BY <2>1, Zenon
  <2>3. ASSUME NEW w \in Worker, IgnoredError(w) PROVE FALSE
    BY <2>1, <2>2, <2>3 DEF IgnoredError
  <2>4. CASE Next
    BY <2>2, <2>3, <2>4, OutputIdle, OutputHandOut, OutputFinish, OutputDoMap, OutputReduce, Zenon
       DEF Next
  <2>5. CASE UNCHANGED vars
    BY <2>2, <2>5, OutputKept, Zenon DEF vars, taskVars, workVars, fileVars, Working
  <2> QED
    BY <2>4, <2>5, Zenon
<1>3. Inv => TimelyOutputCorrect
  BY AllFinished, TaskNames, Zenon DEF OutputInv, OutInv, OutputCorrect, TimelyOutputCorrect
<1> QED
  BY <1>1, <1>2, <1>3, PTL DEF Spec
=============================================================================
