------------------------------ MODULE MCTester ------------------------------
(* An instance of Tester for TLC: all labs, three servers. *)
EXTENDS Tester, TLC

CONSTANTS a, b

MCOp == {a, b}
MCLab == {"raft", "kv", "shardkv"}

\* Calls are compared only for equality.
Symmetry == Permutations(MCOp)
=============================================================================
