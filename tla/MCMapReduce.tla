----------------------------- MODULE MCMapReduce ----------------------------
(* Instances of MapReduce for TLC. *)
EXTENDS MapReduce

CONSTANTS w1, w2

MCWorker == {w1, w2}
=============================================================================
