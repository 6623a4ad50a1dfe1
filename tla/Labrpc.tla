------------------------------- MODULE Labrpc -------------------------------
(***************************************************************************)
(* The simulated network of src/labrpc/labrpc.go: calls that are lost,     *)
(* delayed, reordered or cut off while the tester enables and disables     *)
(* ends, deletes servers, replaces them and finally cleans up.             *)
(*                                                                         *)
(* A server name stands for one entry of rn.servers; the *Server registered*)
(* there is a number, 0 for nil.  The tester makes a fresh Server whenever *)
(* it registers one (start1 in src/raft/config.go).  Delays are steps that *)
(* may come late; longDelays only lengthens one of them.                   *)
(***************************************************************************)
EXTENDS Integers

CONSTANTS
    Call,       \* the calls that are made, one ClientEnd.Call each
    End,        \* names of client ends
    Name,       \* names of servers
    Nil,        \* an end that is not connected
    MaxServers, \* bound on the Servers made
    MaxToggles, \* bound on Enable, Reliable and LongReordering calls
    Hanging     \* calls whose handler may never return

ASSUME CallAssumption == Nil \notin Name /\ Hanging \subseteq Call
ASSUME LimitAssumption == MaxServers \in Nat /\ MaxToggles \in Nat

VARIABLES
    enabled,        \* rn.enabled
    connections,    \* rn.connections
    servers,        \* rn.servers
    reliable,       \* rn.reliable
    longReordering, \* rn.longReordering
    closed,         \* rn.done is closed
    listening,      \* the goroutine of MakeNetwork still runs
    made,           \* number of Servers made
    toggles,        \* number of toggles so far
    pc,             \* where a call, or the processReq goroutine for it, is
    end,            \* the end a call was made on
    seen,           \* what readEndnameInfo told processReq
    handler,        \* the goroutine that runs server.dispatch
    replyOK,        \* local of processReq
    result,         \* what Call returned
    stale           \* history: the Server was deleted before the handler returned

netVars == <<enabled, connections, servers, reliable, longReordering, closed,
             listening, made, toggles>>
callVars == <<pc, end, seen, handler, replyOK, result, stale>>
vars == <<netVars, callVars>>

NoInfo == [name |-> Nil, server |-> 0, reliable |-> TRUE, reorder |-> FALSE]

Init ==
    /\ enabled = [e \in End |-> FALSE]
    /\ connections = [e \in End |-> Nil]
    /\ servers = [n \in Name |-> 0]
    /\ reliable = TRUE /\ longReordering = FALSE
    /\ closed = FALSE /\ listening = TRUE
    /\ made = 0 /\ toggles = 0
    /\ pc = [c \in Call |-> "idle"]
    /\ end \in [Call -> End]
    /\ seen = [c \in Call |-> NoInfo]
    /\ handler = [c \in Call |-> "none"]
    /\ replyOK = [c \in Call |-> FALSE]
    /\ result = [c \in Call |-> "none"]
    /\ stale = [c \in Call |-> FALSE]

----------------------------------------------------------------------------
(* The tester *)

Toggle ==
    /\ toggles < MaxToggles
    /\ toggles' = toggles + 1
    /\ UNCHANGED <<connections, servers, closed, listening, made, callVars>>

Enable(e) ==
    /\ Toggle
    /\ enabled' = [enabled EXCEPT ![e] = ~@]
    /\ UNCHANGED <<reliable, longReordering>>

Reliable ==
    /\ Toggle
    /\ reliable' = ~reliable
    /\ UNCHANGED <<enabled, longReordering>>

LongReordering ==
    /\ Toggle
    /\ longReordering' = ~longReordering
    /\ UNCHANGED <<enabled, reliable>>

\* An end is connected once in its lifetime.
Connect(e, n) ==
    /\ connections[e] = Nil
    /\ connections' = [connections EXCEPT ![e] = n]
    /\ UNCHANGED <<enabled, servers, reliable, longReordering, closed, listening,
                   made, toggles, callVars>>

AddServer(n) ==
    /\ made < MaxServers
    /\ made' = made + 1
    /\ servers' = [servers EXCEPT ![n] = made + 1]
    /\ UNCHANGED <<enabled, connections, reliable, longReordering, closed,
                   listening, toggles, callVars>>

DeleteServer(n) ==
    /\ servers[n] # 0
    /\ servers' = [servers EXCEPT ![n] = 0]
    /\ UNCHANGED <<enabled, connections, reliable, longReordering, closed,
                   listening, made, toggles, callVars>>

Cleanup ==
    /\ ~closed
    /\ closed' = TRUE
    /\ UNCHANGED <<enabled, connections, servers, reliable, longReordering,
                   listening, made, toggles, callVars>>

\* The receiving goroutine notices that rn.done is closed.
StopListening ==
    /\ closed /\ listening
    /\ listening' = FALSE
    /\ UNCHANGED <<enabled, connections, servers, reliable, longReordering,
                   closed, made, toggles, callVars>>

----------------------------------------------------------------------------
(* A call *)

Goto(c, p) == pc' = [pc EXCEPT ![c] = p]

\* Call returns b.
Return(c, b) ==
    /\ Goto(c, "returned")
    /\ result' = [result EXCEPT ![c] = b]
    /\ UNCHANGED <<netVars, end, seen, handler, replyOK, stale>>

MakeCall(c) ==
    /\ pc[c] = "idle"
    /\ Goto(c, "sending")
    /\ UNCHANGED <<netVars, end, seen, handler, replyOK, result, stale>>

NetworkGoneUnnoticed(c) == FALSE /\ pc[c] = "sending" /\ UNCHANGED vars

\* The network has been destroyed before the request was taken.
NetworkGone(c) ==
    /\ pc[c] = "sending" /\ closed
    /\ Return(c, "false")

\* The goroutine of MakeNetwork takes the request and starts processReq.
Receive(c) ==
    /\ pc[c] = "sending" /\ listening
    /\ Goto(c, "received")
    /\ UNCHANGED <<netVars, end, seen, handler, replyOK, result, stale>>

\* processReq looks the end up, once.
ReadEndnameInfo(c) ==
    LET n == connections[end[c]] IN
    /\ pc[c] = "received"
    /\ IF enabled[end[c]] /\ n # Nil /\ servers[n] # 0
       THEN /\ seen' = [seen EXCEPT ![c] = [name |-> n, server |-> servers[n],
                                            reliable |-> reliable,
                                            reorder |-> longReordering]]
            /\ Goto(c, "deliver")
       ELSE /\ Goto(c, "timeout")
            /\ UNCHANGED seen
    /\ UNCHANGED <<netVars, end, handler, replyOK, result, stale>>

\* No such server: false after a while.
Timeout(c) ==
    /\ pc[c] = "timeout"
    /\ Return(c, "false")

DropRequest(c) ==
    /\ pc[c] = "deliver" /\ ~seen[c].reliable
    /\ Return(c, "false")

\* The handler gets a goroutine of its own.
Dispatch(c) ==
    /\ pc[c] = "deliver"
    /\ Goto(c, "wait")
    /\ handler' = [handler EXCEPT ![c] = "running"]
    /\ UNCHANGED <<netVars, end, seen, replyOK, result, stale>>

\* The handler returns; its goroutine blocks until its reply is taken.
HandlerReturns(c) ==
    /\ handler[c] = "running"
    /\ handler' = [handler EXCEPT ![c] = "replying"]
    /\ stale' = [stale EXCEPT ![c] = servers[seen[c].name] # seen[c].server]
    /\ UNCHANGED <<netVars, pc, end, seen, replyOK, result>>

TakeReply(c) ==
    /\ pc[c] = "wait" /\ handler[c] = "replying"
    /\ handler' = [handler EXCEPT ![c] = "gone"]
    /\ replyOK' = [replyOK EXCEPT ![c] = TRUE]
    /\ Goto(c, "recheck")
    /\ UNCHANGED <<netVars, end, seen, result, stale>>

isServerDeadByName(c) == ~enabled[end[c]] \/ servers[seen[c].name] = 0

isServerDead(c) == ~enabled[end[c]] \/ servers[seen[c].name] # seen[c].server

\* The poll every 100 ms finds the server dead and leaves the handler to a
\* goroutine that drains ech.
PollDead(c) ==
    /\ pc[c] = "wait" /\ isServerDead(c)
    /\ Goto(c, "recheck")
    /\ UNCHANGED <<netVars, end, seen, handler, replyOK, result, stale>>

DrainForgotten(c) == FALSE /\ handler[c] = "replying" /\ UNCHANGED vars

\* The drain: pc has left "wait" without a reply.
DrainHandler(c) ==
    /\ handler[c] = "replying" /\ pc[c] # "wait" /\ ~replyOK[c]
    /\ handler' = [handler EXCEPT ![c] = "gone"]
    /\ UNCHANGED <<netVars, pc, end, seen, replyOK, result, stale>>

RecheckSkipped(c) ==
    /\ pc[c] = "recheck"
    /\ \/ ~replyOK[c] /\ Return(c, "false")
       \/ /\ replyOK[c]
          /\ Goto(c, "answer")
          /\ UNCHANGED <<netVars, end, seen, handler, replyOK, result, stale>>

RecheckForgotten(c) ==
    /\ pc[c] = "recheck"
    /\ Goto(c, "answer")
    /\ UNCHANGED <<netVars, end, seen, handler, replyOK, result, stale>>

\* The last look at the server before the reply is sent.
Recheck(c) ==
    /\ pc[c] = "recheck"
    /\ \/ (~replyOK[c] \/ isServerDead(c)) /\ Return(c, "false")
       \/ /\ replyOK[c] /\ ~isServerDead(c)
          /\ Goto(c, "answer")
          /\ UNCHANGED <<netVars, end, seen, handler, replyOK, result, stale>>

DropReply(c) ==
    /\ pc[c] = "answer" /\ ~seen[c].reliable
    /\ Return(c, "false")

\* The reply is held back by a timer.
DelayReply(c) ==
    /\ pc[c] = "answer" /\ seen[c].reorder
    /\ Goto(c, "delayed")
    /\ UNCHANGED <<netVars, end, seen, handler, replyOK, result, stale>>

SendReply(c) ==
    /\ pc[c] \in {"answer", "delayed"}
    /\ Return(c, "true")

----------------------------------------------------------------------------
\* What the goroutines of labrpc do for a call once it is made.
Process(c) ==
    \/ NetworkGone(c) \/ Receive(c) \/ ReadEndnameInfo(c) \/ Timeout(c)
    \/ DropRequest(c) \/ Dispatch(c) \/ TakeReply(c) \/ PollDead(c)
    \/ Recheck(c) \/ DropReply(c) \/ DelayReply(c) \/ SendReply(c)

Next ==
    \/ \E e \in End : Enable(e)
    \/ Reliable
    \/ LongReordering
    \/ \E e \in End, n \in Name : Connect(e, n)
    \/ \E n \in Name : AddServer(n)
    \/ \E n \in Name : DeleteServer(n)
    \/ Cleanup
    \/ StopListening
    \/ \E c \in Call : MakeCall(c)
    \/ \E c \in Call : NetworkGone(c)
    \/ \E c \in Call : Receive(c)
    \/ \E c \in Call : ReadEndnameInfo(c)
    \/ \E c \in Call : Timeout(c)
    \/ \E c \in Call : DropRequest(c)
    \/ \E c \in Call : Dispatch(c)
    \/ \E c \in Call : HandlerReturns(c)
    \/ \E c \in Call : TakeReply(c)
    \/ \E c \in Call : PollDead(c)
    \/ \E c \in Call : DrainHandler(c)
    \/ \E c \in Call : Recheck(c)
    \/ \E c \in Call : DropReply(c)
    \/ \E c \in Call : DelayReply(c)
    \/ \E c \in Call : SendReply(c)

Spec == Init /\ [][Next]_vars

\* labrpc's goroutines run; handlers return unless they may hang.
FairSpec ==
    /\ Spec
    /\ \A c \in Call : WF_vars(Process(c)) /\ WF_vars(DrainHandler(c))
    /\ \A c \in Call \ Hanging : WF_vars(HandlerReturns(c))

----------------------------------------------------------------------------
(* Properties *)

Info == [name : Name \union {Nil}, server : Nat, reliable : BOOLEAN, reorder : BOOLEAN]

\* Where processReq is once it has found the server.
Found == {"deliver", "wait", "recheck", "answer", "delayed"}

\* Every field of the network and of a call has the shape the code gives it,
\* and a request that processReq delivers goes to a Server that is not nil.
TypeOK ==
    /\ enabled \in [End -> BOOLEAN]
    /\ connections \in [End -> Name \union {Nil}]
    /\ servers \in [Name -> Nat]
    /\ reliable \in BOOLEAN /\ longReordering \in BOOLEAN
    /\ closed \in BOOLEAN /\ listening \in BOOLEAN
    /\ made \in Nat /\ toggles \in Nat
    /\ pc \in [Call -> {"idle", "sending", "received", "deliver", "timeout", "wait",
                        "recheck", "answer", "delayed", "returned"}]
    /\ end \in [Call -> End]
    /\ seen \in [Call -> Info]
    /\ handler \in [Call -> {"none", "running", "replying", "gone"}]
    /\ replyOK \in [Call -> BOOLEAN]
    /\ result \in [Call -> {"none", "true", "false"}]
    /\ stale \in [Call -> BOOLEAN]
    /\ \A c \in Call : pc[c] \in Found => seen[c].name \in Name /\ seen[c].server \in 1..made

\* Seen from outside, labrpc is the abstract network.
Abstract == INSTANCE Rpc WITH
    ran <- {c \in Call : handler[c] \in {"replying", "gone"}},
    yes <- {c \in Call : result[c] = "true"},
    no  <- {c \in Call : result[c] = "false"}

\* A handler runs at most once per call, a call is answered once, and true
\* means that the handler ran (the comment at the top of labrpc.go).
ImplementsRpc == Abstract!Spec

\* If the Server was deleted or replaced before its handler returned, the call
\* does not return true: "this is needed to avoid situation in which a client
\* gets a positive reply to an Append, but the server persisted the update
\* into the old Persister" (processReq).
NoReplyFromDead == \A c \in Call : stale[c] => result[c] # "true"

\* Every call returns, whatever the tester does meanwhile, if its handler does.
CallReturns == \A c \in Call \ Hanging : pc[c] = "sending" ~> pc[c] = "returned"

\* A call returns even if its handler hangs, once its Server is deleted.
KilledServerFailsCalls ==
    \A c \in Call : (pc[c] = "wait" /\ servers[seen[c].name] # seen[c].server)
                        ~> pc[c] = "returned"

\* A handler goroutine that has returned is not stuck on its reply channel.
HandlersDrained == \A c \in Call : handler[c] = "replying" ~> handler[c] = "gone"
=============================================================================
