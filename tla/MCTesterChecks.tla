--------------------------- MODULE MCTesterChecks ---------------------------
(* An instance of TesterChecks for TLC. *)
EXTENDS TesterChecks, TLC

CONSTANTS c1, c2

MCCmd == {c1, c2}
Symmetry == Permutations(MCCmd)

\* Server 0 alone restarts, and only if Raft is correct: an incorrect Raft can
\* deliver from a first instance all that a later one could.
OneRestarts == \A i \in Server : made[i] > 1 \/ rafts[i] = 0 => i = 0 /\ correct

\* Bounds: neighbours in the agreed log differ; the agreement checks are about
\* the first two indices, and wait for both servers once a third command is
\* agreed on; an incorrect Raft delivers two messages per instance, at the first
\* two indices.
Small ==
    /\ \A k \in DOMAIN agreed \ {1} : agreed[k] # agreed[k - 1]
    /\ ~correct => \A i \in Server :
                      /\ delivered[i][1] <= 2 /\ app[i][1].m.index <= 2
                      /\ DOMAIN logs[i] \subseteq 0 .. 2
    /\ test.index <= 2
    /\ Len(agreed) > 2 => test.want \in {0, N}
=============================================================================
