-------------------------------- MODULE Job ---------------------------------
(***************************************************************************)
(* What the MapReduce coordinator of src/mr promises: every task finishes  *)
(* at most once and for good, no reduce task finishes before all the map   *)
(* tasks have, and the job is declared over only when all have finished.   *)
(***************************************************************************)
CONSTANTS MapTask, ReduceTask

VARIABLES finished, over

Init == finished = {} /\ over = FALSE

\* HandleFinish turns a task that runs to FINISHED.
Finish(k) ==
    /\ k \notin finished
    /\ k \in ReduceTask => MapTask \subseteq finished
    /\ finished' = finished \union {k}
    /\ UNCHANGED over

\* Done returns true.
Declare ==
    /\ ~over
    /\ MapTask \union ReduceTask \subseteq finished
    /\ over' = TRUE
    /\ UNCHANGED finished

Next == (\E k \in MapTask \union ReduceTask : Finish(k)) \/ Declare

Spec == Init /\ [][Next]_<<finished, over>>
=============================================================================
