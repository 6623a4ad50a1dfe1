---------------------------- MODULE LabrpcProofs ----------------------------
(***************************************************************************)
(* Theorems about Labrpc, for any calls, ends, server names and bounds.    *)
(***************************************************************************)
EXTENDS Labrpc, TLAPS

\* The parts of TypeOK about the network and about the calls.
NetOK ==
    /\ enabled \in [End -> BOOLEAN]
    /\ connections \in [End -> Name \union {Nil}]
    /\ servers \in [Name -> Nat]
    /\ reliable \in BOOLEAN /\ longReordering \in BOOLEAN
    /\ closed \in BOOLEAN /\ listening \in BOOLEAN
    /\ made \in Nat /\ toggles \in Nat

\* A registered Server is one of those made.
RegInv == \A n \in Name : servers[n] \in 0..made

PlaceOK ==
    /\ pc \in [Call -> {"idle", "sending", "received", "deliver", "timeout", "wait",
                        "recheck", "answer", "delayed", "returned"}]
    /\ end \in [Call -> End]
    /\ handler \in [Call -> {"none", "running", "replying", "gone"}]
    /\ result \in [Call -> {"none", "true", "false"}]

SeenOK ==
    /\ seen \in [Call -> Info]
    /\ \A c \in Call : pc[c] \in Found => seen[c].name \in Name /\ seen[c].server \in 1..made

FlagsOK ==
    /\ replyOK \in [Call -> BOOLEAN]
    /\ stale \in [Call -> BOOLEAN]

\* A handler exists from Dispatch on and its reply is taken only once, by
\* processReq or by the drain; a call has an answer exactly when it returned.
CallInv ==
    \A c \in Call :
        /\ pc[c] \in {"idle", "sending", "received", "deliver", "timeout"}
               => handler[c] = "none" /\ ~replyOK[c]
        /\ pc[c] = "wait" => handler[c] \in {"running", "replying"} /\ ~replyOK[c]
        /\ pc[c] = "recheck" => handler[c] # "none"
        /\ handler[c] = "running" => pc[c] \in {"wait", "recheck", "returned"} /\ ~replyOK[c]
        /\ replyOK[c] => handler[c] = "gone"
        /\ pc[c] \in {"answer", "delayed"} => replyOK[c]
        /\ pc[c] = "returned" <=> result[c] # "none"
        /\ result[c] = "true" => replyOK[c]

\* A Server that a call was dispatched to is one of those made.
ServerInv ==
    \A c \in Call : handler[c] # "none" => seen[c].name \in Name /\ seen[c].server \in 1..made

\* Once a Server is not registered under its name it never is again, so the
\* last look of processReq finds it dead.
StaleInv ==
    \A c \in Call : stale[c] =>
        /\ handler[c] \in {"replying", "gone"}
        /\ servers[seen[c].name] # seen[c].server
        /\ pc[c] \notin {"answer", "delayed"}
        /\ result[c] # "true"

\* What the tester does.
Tester ==
    \/ \E e \in End : Enable(e)
    \/ Reliable \/ LongReordering
    \/ \E e \in End, n \in Name : Connect(e, n)
    \/ \E n \in Name : AddServer(n) \/ DeleteServer(n)
    \/ Cleanup \/ StopListening

\* What happens to a call, inside labrpc or in the handler.
CallStep(c) ==
    \/ MakeCall(c) \/ NetworkGone(c) \/ Receive(c) \/ ReadEndnameInfo(c)
    \/ Timeout(c) \/ DropRequest(c) \/ Dispatch(c) \/ HandlerReturns(c)
    \/ TakeReply(c) \/ PollDead(c) \/ DrainHandler(c) \/ Recheck(c)
    \/ DropReply(c) \/ DelayReply(c) \/ SendReply(c)

\* Next is a step of the tester or of one call.
LEMMA NextCases == Next => Tester \/ \E c \in Call : CallStep(c)
BY Zenon DEF Next, Tester, CallStep

\* The operations of the tester (Enable, AddServer, Cleanup, ...) keep the
\* network's types and touch no call.
LEMMA TesterNet == NetOK /\ Tester => NetOK' /\ UNCHANGED callVars /\ made' >= made
<1> SUFFICES ASSUME NetOK, Tester PROVE NetOK' /\ UNCHANGED callVars /\ made' >= made
  OBVIOUS
<1> USE DEF NetOK, callVars
<1>1. ASSUME NEW e \in End, Enable(e) PROVE NetOK' /\ UNCHANGED callVars /\ made' >= made
  <2>1. enabled' \in [End -> BOOLEAN]
    BY <1>1, Zenon DEF Enable
  <2> QED BY <1>1, <2>1 DEF Enable, Toggle
<1>2. CASE Reliable
  BY <1>2 DEF Reliable, Toggle
<1>3. CASE LongReordering
  BY <1>3 DEF LongReordering, Toggle
<1>4. ASSUME NEW e \in End, NEW n \in Name, Connect(e, n)
      PROVE  NetOK' /\ UNCHANGED callVars /\ made' >= made
  BY <1>4 DEF Connect
<1>5. ASSUME NEW n \in Name, AddServer(n) PROVE NetOK' /\ UNCHANGED callVars /\ made' >= made
  BY <1>5 DEF AddServer
<1>6. ASSUME NEW n \in Name, DeleteServer(n) PROVE NetOK' /\ UNCHANGED callVars /\ made' >= made
  BY <1>6 DEF DeleteServer
<1>7. CASE Cleanup
  BY <1>7 DEF Cleanup
<1>8. CASE StopListening
  <2>1. listening' \in BOOLEAN /\ closed' \in BOOLEAN
    BY <1>8, Zenon DEF StopListening
  <2>2. UNCHANGED callVars
    BY <1>8, Zenon DEF StopListening
  <2>3. UNCHANGED <<enabled, connections, servers, reliable, longReordering, made, toggles>>
    BY <1>8, Zenon DEF StopListening
  <2> QED BY <2>1, <2>2, <2>3
<1> QED BY <1>1, <1>2, <1>3, <1>4, <1>5, <1>6, <1>7, <1>8, Zenon DEF Tester

\* A registration or a deletion (AddServer, DeleteServer) never brings back a
\* Server that is not registered any more.
LEMMA TesterServers ==
    ASSUME NetOK, Tester, NEW n \in Name, NEW s \in 1..made, servers[n] # s
    PROVE  servers'[n] # s
<1>1. ASSUME NEW m \in Name, AddServer(m) PROVE servers'[n] # s
  BY <1>1 DEF AddServer, NetOK
<1>2. ASSUME NEW m \in Name, DeleteServer(m) PROVE servers'[n] # s
  BY <1>2 DEF DeleteServer, NetOK
<1>3. servers' = servers => servers'[n] # s
  OBVIOUS
<1>4. servers' = servers \/ \E m \in Name : AddServer(m) \/ DeleteServer(m)
  BY Zenon DEF Tester, Enable, Reliable, LongReordering, Toggle, Connect, Cleanup, StopListening
<1> QED BY <1>1, <1>2, <1>3, <1>4, Zenon

\* No step of a call touches the network's tables.
LEMMA CallNet == ASSUME NEW c \in Call, CallStep(c) PROVE UNCHANGED netVars
BY Zenon DEF CallStep, MakeCall, NetworkGone, Receive, ReadEndnameInfo, Timeout, DropRequest,
       Dispatch, HandlerReturns, TakeReply, PollDead, DrainHandler, Recheck, DropReply,
       DelayReply, SendReply, Return, Goto

\* The whole invariant about calls.
Places == PlaceOK /\ SeenOK /\ CallInv /\ ServerInv

\* A step of a call (Call, processReq or the handler) keeps its places in order.
LEMMA CallPlaces ==
    ASSUME NetOK, RegInv, FlagsOK, Places, NEW c \in Call, CallStep(c)
    PROVE  Places'
<1> USE DEF Places, PlaceOK, SeenOK, CallInv, ServerInv, Found, FlagsOK
<1>0. UNCHANGED netVars
  BY CallNet, Zenon
<1>1. made' = made /\ servers' = servers /\ made \in Nat
  BY <1>0, Zenon DEF netVars, NetOK
<1>2. CASE MakeCall(c)
  BY <1>1, <1>2, Zenon DEF MakeCall, Goto
<1>3. CASE NetworkGone(c)
  BY <1>1, <1>3, Zenon DEF NetworkGone, Return, Goto
<1>4. CASE Receive(c)
  BY <1>1, <1>4, Zenon DEF Receive, Goto
<1>5. CASE ReadEndnameInfo(c)
  <2> DEFINE n == connections[end[c]]
  <2>1. UNCHANGED <<end, handler, replyOK, result>>
    BY <1>5, Zenon DEF ReadEndnameInfo
  <2>2. handler[c] = "none" /\ ~replyOK[c] /\ result[c] = "none"
    BY <1>5, Zenon DEF ReadEndnameInfo
  <2>3. CASE enabled[end[c]] /\ n # Nil /\ servers[n] # 0
    <3>1. pc' = [pc EXCEPT ![c] = "deliver"]
      BY <1>5, <2>3, Zenon DEF ReadEndnameInfo, Goto
    <3>2. seen' = [seen EXCEPT ![c] = [name |-> n, server |-> servers[n],
                                       reliable |-> reliable, reorder |-> longReordering]]
      BY <1>5, <2>3, Zenon DEF ReadEndnameInfo
    <3>3. n \in Name /\ servers[n] \in 1..made
      BY <2>3 DEF NetOK, RegInv
    <3>4. [name |-> n, server |-> servers[n], reliable |-> reliable,
           reorder |-> longReordering] \in Info
      BY <3>3, Zenon DEF NetOK, Info
    <3>5. seen' \in [Call -> Info]
      BY <3>2, <3>4, Zenon
    <3>6. seen'[c].name = n /\ seen'[c].server = servers[n]
      BY <3>2, Zenon
    <3>7. \A d \in Call \ {c} : seen'[d] = seen[d] /\ pc'[d] = pc[d]
      BY <3>1, <3>2, Zenon
    <3>8. pc'[c] = "deliver"
      BY <3>1, Zenon
    <3>9. PlaceOK'
      BY <2>1, <3>1, Zenon
    <3>10. SeenOK'
      BY <1>1, <3>3, <3>5, <3>6, <3>7, Zenon
    <3>11. CallInv'
      BY <2>1, <2>2, <3>7, <3>8, Zenon
    <3>12. ServerInv'
      BY <1>1, <2>1, <2>2, <3>7, Zenon
    <3> QED BY <3>9, <3>10, <3>11, <3>12, Zenon
  <2>4. CASE ~(enabled[end[c]] /\ n # Nil /\ servers[n] # 0)
    <3>1. pc' = [pc EXCEPT ![c] = "timeout"] /\ seen' = seen
      BY <1>5, <2>4, Zenon DEF ReadEndnameInfo, Goto
    <3> QED BY <1>1, <2>1, <2>2, <3>1, Zenon
  <2> QED BY <2>3, <2>4, Zenon
<1>6. CASE Timeout(c)
  BY <1>1, <1>6, Zenon DEF Timeout, Return, Goto
<1>7. CASE DropRequest(c)
  BY <1>1, <1>7, Zenon DEF DropRequest, Return, Goto
<1>8. CASE Dispatch(c)
  BY <1>1, <1>8, Zenon DEF Dispatch, Goto
<1>9. CASE HandlerReturns(c)
  BY <1>1, <1>9, Zenon DEF HandlerReturns
<1>10. CASE TakeReply(c)
  BY <1>1, <1>10, Zenon DEF TakeReply, Goto
<1>11. CASE PollDead(c)
  BY <1>1, <1>11, Zenon DEF PollDead, Goto
<1>12. CASE DrainHandler(c)
  BY <1>1, <1>12, Zenon DEF DrainHandler
<1>13. CASE Recheck(c)
  BY <1>1, <1>13 DEF Recheck, Return, Goto
<1>14. CASE DropReply(c)
  BY <1>1, <1>14, Zenon DEF DropReply, Return, Goto
<1>15. CASE DelayReply(c)
  BY <1>1, <1>15, Zenon DEF DelayReply, Goto
<1>16. CASE SendReply(c)
  BY <1>1, <1>16, Zenon DEF SendReply, Return, Goto
<1> QED BY <1>2, <1>3, <1>4, <1>5, <1>6, <1>7, <1>8, <1>9, <1>10, <1>11, <1>12, <1>13, <1>14, <1>15, <1>16, Zenon DEF CallStep

\* AddServer registers a Server that has just been made.
LEMMA TesterReg == NetOK /\ RegInv /\ Tester => RegInv'
<1> SUFFICES ASSUME NetOK, RegInv, Tester PROVE RegInv'
  OBVIOUS
<1>1. ASSUME NEW m \in Name, AddServer(m) PROVE RegInv'
  BY <1>1 DEF AddServer, NetOK, RegInv
<1>2. ASSUME NEW m \in Name, DeleteServer(m) PROVE RegInv'
  BY <1>2 DEF DeleteServer, NetOK, RegInv
<1>3. UNCHANGED <<servers, made>> => RegInv'
  BY Zenon DEF RegInv
<1>4. UNCHANGED <<servers, made>> \/ \E m \in Name : AddServer(m) \/ DeleteServer(m)
  BY Zenon DEF Tester, Enable, Reliable, LongReordering, Toggle, Connect, Cleanup, StopListening
<1> QED BY <1>1, <1>2, <1>3, <1>4, Zenon

\* A step of a call keeps its Boolean fields Boolean.
LEMMA CallFlags ==
    ASSUME FlagsOK, NEW c \in Call, CallStep(c)
    PROVE  FlagsOK'
<1>1. replyOK' = replyOK \/ replyOK' = [replyOK EXCEPT ![c] = TRUE]
  BY Zenon DEF CallStep, MakeCall, NetworkGone, Receive, ReadEndnameInfo, Timeout, DropRequest,
         Dispatch, HandlerReturns, TakeReply, PollDead, DrainHandler, Recheck, DropReply,
         DelayReply, SendReply, Return
<1>2. stale' = stale \/ stale' = [stale EXCEPT ![c] = servers[seen[c].name] # seen[c].server]
  BY Zenon DEF CallStep, MakeCall, NetworkGone, Receive, ReadEndnameInfo, Timeout, DropRequest,
         Dispatch, HandlerReturns, TakeReply, PollDead, DrainHandler, Recheck, DropReply,
         DelayReply, SendReply, Return
<1>3. replyOK' \in [Call -> BOOLEAN]
  BY <1>1, Zenon DEF FlagsOK
<1>4. stale' \in [Call -> BOOLEAN]
  BY <1>2, Zenon DEF FlagsOK
<1> QED BY <1>3, <1>4, Zenon DEF FlagsOK

\* No step of a call answers true for a Server that was dead when its handler
\* returned: Recheck stands between TakeReply and the reply.
LEMMA CallStale ==
    ASSUME NetOK, FlagsOK, Places, StaleInv, NEW c \in Call, CallStep(c)
    PROVE  StaleInv'
<1> USE DEF Places, PlaceOK, CallInv, FlagsOK, StaleInv
<1>0. UNCHANGED netVars
  BY CallNet, Zenon
<1>1. servers' = servers
  BY <1>0, Zenon DEF netVars
<1>2. CASE HandlerReturns(c)
  <2>1. handler[c] = "running" /\ handler' = [handler EXCEPT ![c] = "replying"]
    BY <1>2, Zenon DEF HandlerReturns
  <2>2. stale' = [stale EXCEPT ![c] = servers[seen[c].name] # seen[c].server]
    BY <1>2, Zenon DEF HandlerReturns
  <2>3. UNCHANGED <<pc, seen, result>>
    BY <1>2, Zenon DEF HandlerReturns
  <2>4. result[c] # "true" /\ pc[c] \notin {"answer", "delayed"}
    BY <2>1, Zenon
  <2>5. stale'[c] => servers[seen[c].name] # seen[c].server
    BY <2>2, Zenon
  <2>6. \A d \in Call \ {c} : stale'[d] = stale[d] /\ handler'[d] = handler[d]
    BY <2>1, <2>2, Zenon
  <2>7. handler'[c] = "replying"
    BY <2>1, Zenon
  <2> QED BY <1>1, <2>3, <2>4, <2>5, <2>6, <2>7
<1>3. CASE Recheck(c)
  <2>1. stale[c] => isServerDead(c)
    BY Zenon DEF isServerDead
  <2> QED BY <1>1, <1>3, <2>1 DEF Recheck, Return, Goto
<1>4. CASE ReadEndnameInfo(c)
  <2>1. ~stale[c]
    BY <1>4, Zenon DEF ReadEndnameInfo
  <2>2. UNCHANGED <<stale, handler, result>>
    BY <1>4, Zenon DEF ReadEndnameInfo
  <2>3. \A d \in Call \ {c} : pc'[d] = pc[d] /\ seen'[d] = seen[d]
    <3>1. seen' = seen \/ \E i : seen' = [seen EXCEPT ![c] = i]
      BY <1>4, Zenon DEF ReadEndnameInfo
    <3>2. \E p : pc' = [pc EXCEPT ![c] = p]
      BY <1>4, Zenon DEF ReadEndnameInfo, Goto
    <3> QED BY <3>1, <3>2, Zenon DEF SeenOK
  <2> QED BY <1>1, <2>1, <2>2, <2>3
<1>5. CASE MakeCall(c) \/ Receive(c) \/ PollDead(c) \/ DelayReply(c)
  BY <1>1, <1>5 DEF MakeCall, Receive, PollDead, DelayReply, Goto
<1>6. CASE NetworkGone(c) \/ Timeout(c) \/ DropRequest(c) \/ DropReply(c)
  BY <1>1, <1>6 DEF NetworkGone, Timeout, DropRequest, DropReply, Return, Goto
<1>7. CASE SendReply(c)
  BY <1>1, <1>7, Zenon DEF SendReply, Return, Goto
<1>8. CASE Dispatch(c) \/ TakeReply(c) \/ DrainHandler(c)
  BY <1>1, <1>8 DEF Dispatch, TakeReply, DrainHandler, Goto
<1> QED BY <1>2, <1>3, <1>4, <1>5, <1>6, <1>7, <1>8, Zenon DEF CallStep

\* The inductive invariant.
Inv == NetOK /\ RegInv /\ FlagsOK /\ Places /\ StaleInv

\* MakeNetwork and MakeEnd establish it.
LEMMA InitInv == Init => Inv
<1> SUFFICES ASSUME Init PROVE Inv
  OBVIOUS
<1>1. NetOK /\ RegInv
  <2>1. /\ enabled \in [End -> BOOLEAN] /\ reliable \in BOOLEAN /\ longReordering \in BOOLEAN
        /\ closed \in BOOLEAN /\ listening \in BOOLEAN
    BY Zenon DEF Init
  <2>2. /\ connections \in [End -> Name \union {Nil}]
        /\ servers \in [Name -> Nat] /\ made \in Nat /\ toggles \in Nat
        /\ \A n \in Name : servers[n] \in 0..made
    BY DEF Init
  <2> QED BY <2>1, <2>2, Zenon DEF NetOK, RegInv
<1>2. FlagsOK /\ StaleInv
  BY Zenon DEF Init, FlagsOK, StaleInv
<1>3. PlaceOK /\ CallInv /\ ServerInv
  BY Zenon DEF Init, PlaceOK, CallInv, ServerInv
<1>4. SeenOK
  <2>1. NoInfo \in Info
    BY Zenon DEF NoInfo, Info
  <2> QED BY <2>1, Zenon DEF Init, SeenOK, Found
<1> QED BY <1>1, <1>2, <1>3, <1>4, Zenon DEF Inv, Places

\* Every step keeps it.
LEMMA StepInv == Inv /\ [Next]_vars => Inv'
<1> SUFFICES ASSUME Inv, [Next]_vars PROVE Inv'
  OBVIOUS
<1>0. NetOK /\ RegInv /\ FlagsOK /\ Places /\ StaleInv
  BY Zenon DEF Inv
<1>1. CASE Tester
  <2>1. NetOK' /\ UNCHANGED callVars /\ made' >= made
    BY <1>0, <1>1, TesterNet, Zenon
  <2>2. RegInv'
    BY <1>0, <1>1, TesterReg, Zenon
  <2>3. FlagsOK'
    BY <1>0, <2>1, Zenon DEF FlagsOK, callVars
  <2>4. made \in Nat /\ made' \in Nat
    BY <1>0, <2>1, Zenon DEF NetOK
  <2>5. Places'
    BY <1>0, <2>1, <2>4 DEF Places, PlaceOK, SeenOK, CallInv, ServerInv, callVars
  <2>6. ASSUME NEW c \in Call, stale[c] PROVE servers'[seen[c].name] # seen[c].server
    BY <1>0, <1>1, <2>6, TesterServers, Zenon DEF StaleInv, Places, ServerInv
  <2>7. StaleInv'
    BY <1>0, <2>1, <2>6, Zenon DEF StaleInv, callVars
  <2> QED BY <2>1, <2>2, <2>3, <2>5, <2>7, Zenon DEF Inv
<1>2. ASSUME NEW c \in Call, CallStep(c) PROVE Inv'
  <2>1. UNCHANGED netVars
    BY <1>2, CallNet, Zenon
  <2>2. NetOK' /\ RegInv'
    BY <1>0, <2>1, Zenon DEF NetOK, RegInv, netVars
  <2> QED BY <1>0, <1>2, <2>2, CallPlaces, CallFlags, CallStale, Zenon DEF Inv
<1>3. CASE UNCHANGED vars
  BY <1>0, <1>3, Zenon DEF Inv, NetOK, RegInv, FlagsOK, Places, PlaceOK, SeenOK, CallInv,
                    ServerInv, StaleInv, vars, netVars, callVars
<1> QED BY <1>1, <1>2, <1>3, NextCases, Zenon

\* The invariant holds in every state of every behaviour of labrpc.
LEMMA Invariant == Spec => []Inv
<1> QED BY InitInv, StepInv, PTL DEF Spec

\* Every field keeps its type and processReq never dispatches to a nil Server.
THEOREM TypeCorrect == Spec => []TypeOK
<1>1. Inv => TypeOK
  BY Zenon DEF Inv, TypeOK, NetOK, FlagsOK, Places, PlaceOK, SeenOK
<1> QED BY <1>1, Invariant, PTL

\* The promise of the comment in processReq: a Server deleted before its
\* handler returned never gets a positive reply through.
THEOREM DeadServersDoNotReply == Spec => []NoReplyFromDead
<1>1. Inv => NoReplyFromDead
  BY Zenon DEF Inv, StaleInv, NoReplyFromDead
<1> QED BY <1>1, Invariant, PTL

\* labrpc implements the abstract network: at most one execution, at most one
\* answer, and true only after the execution.
THEOREM NetworkImplementsRpc == Spec => ImplementsRpc
<1> DEFINE ran == {c \in Call : handler[c] \in {"replying", "gone"}}
           yes == {c \in Call : result[c] = "true"}
           no  == {c \in Call : result[c] = "false"}
<1>1. Init => Abstract!Init
  BY Zenon DEF Init, Abstract!Init
<1>2. Inv /\ [Next]_vars => [Abstract!Next]_<<ran, yes, no>>
  <2> SUFFICES ASSUME Inv, [Next]_vars PROVE [Abstract!Next]_<<ran, yes, no>>
    OBVIOUS
  <2>0. PlaceOK /\ CallInv
    BY Zenon DEF Inv, Places
  <2>1. UNCHANGED <<handler, result>> => UNCHANGED <<ran, yes, no>>
    OBVIOUS
  <2>2. CASE Tester \/ UNCHANGED vars
    <3>1. UNCHANGED callVars
      BY <2>2, TesterNet, Zenon DEF Inv, vars
    <3> QED BY <2>1, <3>1, Zenon DEF callVars
  <2>3. ASSUME NEW c \in Call, CallStep(c) PROVE [Abstract!Next]_<<ran, yes, no>>
    <3>1. ASSUME HandlerReturns(c) PROVE Abstract!Next
      <4>1. handler[c] = "running" /\ handler' = [handler EXCEPT ![c] = "replying"] /\ result' = result
        BY <3>1, Zenon DEF HandlerReturns
      <4>2. c \notin ran /\ ran' = ran \union {c} /\ yes' = yes /\ no' = no
        BY <2>0, <4>1, Zenon DEF PlaceOK
      <4> QED BY <4>2, Zenon DEF Abstract!Next, Abstract!Run
    <3>2. ASSUME Return(c, "false"), pc[c] # "returned" PROVE Abstract!Next
      <4>1. handler' = handler /\ result' = [result EXCEPT ![c] = "false"] /\ result[c] = "none"
        BY <2>0, <3>2, Zenon DEF Return, PlaceOK, CallInv
      <4>2. ran' = ran /\ yes' = yes /\ no' = no \union {c} /\ c \notin yes \union no
        BY <2>0, <4>1, Zenon DEF PlaceOK
      <4> QED BY <4>2, Zenon DEF Abstract!Next, Abstract!Fail
    <3>3. ASSUME SendReply(c) PROVE Abstract!Next
      <4>1. handler' = handler /\ result' = [result EXCEPT ![c] = "true"] /\ result[c] = "none"
        BY <2>0, <3>3, Zenon DEF SendReply, Return, PlaceOK, CallInv
      <4>2. handler[c] = "gone"
        BY <2>0, <3>3, Zenon DEF SendReply, PlaceOK, CallInv
      <4>3. c \in ran /\ ran' = ran /\ yes' = yes \union {c} /\ no' = no /\ c \notin yes \union no
        BY <2>0, <4>1, <4>2, Zenon DEF PlaceOK
      <4> QED BY <4>3, Zenon DEF Abstract!Next, Abstract!Succeed
    <3>4. CASE Dispatch(c) \/ TakeReply(c) \/ DrainHandler(c)
      <4>1. result' = result /\ handler' \in {[handler EXCEPT ![c] = "running"],
                                               [handler EXCEPT ![c] = "gone"]}
        BY <3>4, Zenon DEF Dispatch, TakeReply, DrainHandler
      <4>2. Dispatch(c) => handler[c] = "none" /\ handler' = [handler EXCEPT ![c] = "running"]
        BY <2>0, Zenon DEF Dispatch, CallInv
      <4>3. ~Dispatch(c) => handler[c] = "replying" /\ handler' = [handler EXCEPT ![c] = "gone"]
        BY <3>4, Zenon DEF TakeReply, DrainHandler
      <4>4. ran' = ran
        BY <2>0, <4>2, <4>3, Zenon DEF PlaceOK
      <4> QED BY <4>1, <4>4, Zenon
    <3>5. \/ HandlerReturns(c) \/ SendReply(c)
          \/ Return(c, "false") /\ pc[c] # "returned"
          \/ Dispatch(c) \/ TakeReply(c) \/ DrainHandler(c)
          \/ UNCHANGED <<handler, result>>
      BY <2>3, Zenon DEF CallStep, MakeCall, NetworkGone, Receive, ReadEndnameInfo, Timeout,
                  DropRequest, PollDead, Recheck, DropReply, DelayReply
    <3> QED BY <2>1, <3>1, <3>2, <3>3, <3>4, <3>5, Zenon
  <2> QED BY <2>2, <2>3, NextCases, Zenon
<1> QED BY <1>1, <1>2, Invariant, PTL DEF Spec, ImplementsRpc, Abstract!Spec
=============================================================================
