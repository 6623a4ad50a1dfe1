------------------------------ MODULE MCLabrpc ------------------------------
(* An instance of Labrpc for TLC: two calls, of which the handler of one may *)
(* hang.                                                                     *)
EXTENDS Labrpc

CONSTANTS c1, c2, e1, e2, n1

MCCall    == {c1, c2}
MCHanging == {c2}
MCEnd     == {e1, e2}
MCName    == {n1}
=============================================================================
