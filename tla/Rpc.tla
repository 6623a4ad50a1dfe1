-------------------------------- MODULE Rpc ---------------------------------
(***************************************************************************)
(* What labrpc promises its callers, and what the Raft model assumes of    *)
(* the network: a handler runs at most once for a call, a call is answered *)
(* at most once, and the answer true means that the handler has run.       *)
(* After the answer false the handler may still run.                       *)
(***************************************************************************)
CONSTANT Call

VARIABLES ran,      \* calls whose handler has returned
          yes, no   \* calls that returned true, false

Init == ran = {} /\ yes = {} /\ no = {}

Run(c) ==
    /\ c \notin ran
    /\ ran' = ran \union {c}
    /\ UNCHANGED <<yes, no>>

Succeed(c) ==
    /\ c \in ran
    /\ c \notin yes \union no
    /\ yes' = yes \union {c}
    /\ UNCHANGED <<ran, no>>

Fail(c) ==
    /\ c \notin yes \union no
    /\ no' = no \union {c}
    /\ UNCHANGED <<ran, yes>>

Next == \E c \in Call : Run(c) \/ Succeed(c) \/ Fail(c)

Spec == Init /\ [][Next]_<<ran, yes, no>>
=============================================================================
