----------------------------- MODULE MCPorcupine ----------------------------
(* Instances of Porcupine for TLC. *)
EXTENDS Porcupine

CONSTANTS x, y

Get(k, v)   == [kind |-> "get", key |-> k, value |-> v]
Put(k, v)   == [kind |-> "put", key |-> k, value |-> v]
Extend(k, v) == [kind |-> "append", key |-> k, value |-> v]

MCKeys == {x, y}

\* Reads of written, appended, overwritten and initial values, of two keys.
MCOps == {Get(x, <<1>>), Put(x, <<1>>), Extend(x, <<1>>), Get(y, <<>>), Put(y, <<1>>)}
=============================================================================
