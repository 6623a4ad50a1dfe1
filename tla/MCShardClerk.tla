---------------------------- MODULE MCShardClerk ----------------------------
(* An instance of ShardClerk for TLC: one clerk appends, one reads. *)
EXTENDS ShardClerk

CONSTANTS a, c, admin

MCAppender == {a}
MCGetter == {c}

\* The empty key is in shard 0, a key that starts with byte 3 in shard 1 of 2.
MCKey == {<<>>, <<3>>}
MCGid == {100, 101}
=============================================================================
