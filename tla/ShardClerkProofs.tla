-------------------------- MODULE ShardClerkProofs --------------------------
(***************************************************************************)
(* What a returned Get or PutAppend of shardkv/client.go stands for, for   *)
(* any number of clerks, keys, groups, servers, failures and changes of    *)
(* the configuration.  The two properties are carried by the replies: an   *)
(* OK under way to a clerk already says that the append was done, or that  *)
(* the value has all it must have.                                         *)
(***************************************************************************)
EXTENDS ShardClerk, TLAPS

\* An append of a is in s.
In(s, a) == \E i \in DOMAIN s : s[i] = a

Reply == [stage : {"none", "sent", "replied"},
          reply : {"none", "OK", "ErrNoKey", "ErrWrongGroup", "ErrWrongLeader"},
          value : Seq(Appender)]

TypeOK ==
    /\ pc \in [Clerk -> {"new", "try", "query", "done"}]
    /\ rpc \in [Clerk -> Reply]
    /\ value \in [Clerk -> Seq(Appender)]
    /\ before \in [Clerk -> SUBSET Appender]
    /\ data \in Seq(Appender)
    /\ late \subseteq Appender

\* No call is under way before Get or PutAppend is called.
NotEarly == \A c \in Clerk : pc[c] = "new" => rpc[c].stage = "none"

\* An append that has returned, or whose OK is under way, was carried out.
AppendsDone ==
    \A a \in Appender :
        (pc[a] = "done" \/ (rpc[a].stage = "replied" /\ rpc[a].reply = "OK")) => In(data, a)

\* What had returned when a clerk was called was carried out.
BeforeDone == \A c \in Clerk : \A a \in before[c] : In(data, a)

\* A reply under way that ends the Get has what had returned.
RepliesFresh ==
    \A c \in Getter :
        rpc[c].stage = "replied" /\ rpc[c].reply \in {"OK", "ErrNoKey"} =>
            \A a \in before[c] : In(rpc[c].value, a)

ValuesFresh ==
    \A c \in Getter : pc[c] = "done" => \A a \in before[c] : In(value[c], a)

IInv == TypeOK /\ NotEarly /\ AppendsDone /\ BeforeDone /\ RepliesFresh /\ ValuesFresh

----------------------------------------------------------------------------
LEMMA EmptyLog == <<>> \in Seq(Appender) /\ \A a : ~In(<<>>, a)
BY DEF In

\* The groups only add to the value of the key.
LEMMA Appended ==
    ASSUME NEW s \in Seq(Appender), NEW c \in Appender
    PROVE  /\ Append(s, c) \in Seq(Appender) /\ In(Append(s, c), c)
           /\ \A a : In(s, a) => In(Append(s, c), a)
<1>1. Append(s, c) \in Seq(Appender) /\ Len(Append(s, c)) = Len(s) + 1 /\ Append(s, c)[Len(s) + 1] = c
  OBVIOUS
<1>2. \A i \in 1 .. Len(s) : i \in DOMAIN Append(s, c) /\ Append(s, c)[i] = s[i]
  OBVIOUS
<1>3. Len(s) + 1 \in DOMAIN Append(s, c) /\ DOMAIN s = 1 .. Len(s)
  OBVIOUS
<1> QED
  BY <1>1, <1>2, <1>3, Zenon DEF In

LEMMA NoCallReply == NoCall \in Reply /\ NoCall.stage = "none"
BY DEF NoCall, Reply

\* A step that neither sends a reply, ends a call nor starts one.
LEMMA Kept ==
    ASSUME IInv, UNCHANGED <<rpc, value, before>>, data' \in Seq(Appender), late' \subseteq Appender,
           \A a : In(data, a) => In(data', a),
           pc' \in [Clerk -> {"new", "try", "query", "done"}],
           \A c \in Clerk : pc'[c] \in {"new", "done"} => pc[c] = pc'[c]
    PROVE  IInv'
<1>1. TypeOK'
  BY Zenon DEF IInv, TypeOK
<1>2. NotEarly'
  BY Zenon DEF IInv, NotEarly
<1>3. ASSUME NEW a \in Appender, pc'[a] = "done" \/ (rpc[a].stage = "replied" /\ rpc[a].reply = "OK")
      PROVE  In(data', a)
  BY <1>3 DEF IInv, AppendsDone, Clerk
<1>4. BeforeDone'
  BY Zenon DEF IInv, BeforeDone
<1>5. RepliesFresh' /\ ValuesFresh'
  BY Zenon DEF IInv, RepliesFresh, ValuesFresh, Clerk
<1> QED
  BY <1>1, <1>2, <1>3, <1>4, <1>5, Zenon DEF IInv, AppendsDone

----------------------------------------------------------------------------
(* One lemma per operation that changes a call *)

LEMMA BeginKeeps ==
    ASSUME IInv, NEW c \in Clerk, Begin(c)
    PROVE  IInv'
<1>1. /\ pc[c] = "new" /\ before' = [before EXCEPT ![c] = {a \in Appender : pc[a] = "done"}]
      /\ UNCHANGED <<rpc, value, data, late>>
  BY Zenon DEF Begin
<1>2. PICK p \in {"try", "query"} : pc' = [pc EXCEPT ![c] = p]
  BY Zenon DEF Begin, Restart
<1>3. TypeOK /\ NotEarly /\ AppendsDone /\ BeforeDone /\ RepliesFresh /\ ValuesFresh
  BY Zenon DEF IInv
<1>4. TypeOK'
  <2>1. pc' \in [Clerk -> {"new", "try", "query", "done"}]
    BY <1>2, <1>3 DEF TypeOK
  <2>2. before' \in [Clerk -> SUBSET Appender]
    BY <1>1, <1>3 DEF TypeOK
  <2> QED
    BY <1>1, <1>3, <2>1, <2>2, Zenon DEF TypeOK
<1>5. \A d \in Clerk : /\ pc'[d] = IF d = c THEN p ELSE pc[d]
                       /\ before'[d] = IF d = c THEN {a \in Appender : pc[a] = "done"} ELSE before[d]
  BY <1>1, <1>2, <1>3, Zenon DEF TypeOK
<1>6. p # "new" /\ p # "done"
  BY <1>2
<1>7. NotEarly'
  BY <1>1, <1>3, <1>5, <1>6, Zenon DEF NotEarly
<1>8. AppendsDone'
  <2>1. \A a \in Appender : pc'[a] = "done" => pc[a] = "done"
    BY <1>5, <1>6, Zenon DEF Clerk
  <2> QED
    BY <1>1, <1>3, <2>1, Zenon DEF AppendsDone
<1>9. BeforeDone'
  <2>1. \A a \in Appender : pc[a] = "done" => In(data, a)
    BY <1>3, Zenon DEF AppendsDone
  <2>2. ASSUME NEW d \in Clerk, NEW a \in before'[d]
        PROVE  In(data, a)
    <3>1. CASE d = c
      BY <1>5, <2>1, <2>2, <3>1, Zenon
    <3>2. CASE d # c
      BY <1>3, <1>5, <2>2, <3>2, Zenon DEF BeforeDone
    <3> QED
      BY <3>1, <3>2, Zenon
  <2> QED
    BY <1>1, <2>2, Zenon DEF BeforeDone
<1>10. ASSUME NEW d \in Getter, d # c
       PROVE  before'[d] = before[d] /\ pc'[d] = pc[d]
  BY <1>5, <1>10, Zenon DEF Clerk
<1>11. rpc[c].stage = "none" /\ rpc[c].stage # "replied" /\ pc'[c] # "done"
  <2>1. rpc[c].stage = "none"
    BY <1>1, <1>3, Zenon DEF NotEarly
  <2> QED
    BY <1>5, <1>6, <2>1, Zenon
<1>12. RepliesFresh' /\ ValuesFresh'
  BY <1>1, <1>3, <1>10, <1>11, Zenon DEF RepliesFresh, ValuesFresh
<1> QED
  BY <1>4, <1>7, <1>8, <1>9, <1>12, Zenon DEF IInv

\* A call is sent or dropped: no reply of it is under way.
LEMMA NoReply ==
    ASSUME IInv, NEW c \in Clerk, pc[c] # "new", NEW r \in Reply, r.stage # "replied",
           rpc' = [rpc EXCEPT ![c] = r], UNCHANGED <<value, before, data>>,
           late' \subseteq Appender,
           pc' \in [Clerk -> {"new", "try", "query", "done"}],
           \A d \in Clerk : pc'[d] \in {"new", "done"} => pc[d] = pc'[d]
    PROVE  IInv'
<1>1. TypeOK /\ NotEarly /\ AppendsDone /\ BeforeDone /\ RepliesFresh /\ ValuesFresh
  BY Zenon DEF IInv
<1>2. TypeOK'
  <2>1. rpc' \in [Clerk -> Reply]
    BY <1>1 DEF TypeOK
  <2> QED
    BY <1>1, <2>1, Zenon DEF TypeOK
<1>3. \A d \in Clerk : rpc'[d] = IF d = c THEN r ELSE rpc[d]
  BY <1>1, Zenon DEF TypeOK
<1>4. pc'[c] # "new"
  BY Zenon
<1>5. NotEarly'
  BY <1>1, <1>3, <1>4, Zenon DEF NotEarly
<1>6. AppendsDone'
  <2>1. \A a \in Appender : pc'[a] = "done" => pc[a] = "done"
    BY Zenon DEF Clerk
  <2>2. \A a \in Appender : rpc'[a].stage = "replied" => rpc'[a] = rpc[a]
    BY <1>3, Zenon DEF Clerk
  <2> QED
    BY <1>1, <2>1, <2>2, Zenon DEF AppendsDone
<1>7. BeforeDone'
  BY <1>1, Zenon DEF BeforeDone
<1>8. RepliesFresh' /\ ValuesFresh'
  BY <1>1, <1>3, Zenon DEF RepliesFresh, ValuesFresh, Clerk
<1> QED
  BY <1>2, <1>5, <1>6, <1>7, <1>8, Zenon DEF IInv

LEMMA CallKeeps ==
    ASSUME IInv, NEW c \in Clerk, Call(c)
    PROVE  IInv'
<1>1. /\ pc[c] = "try" /\ rpc' = [rpc EXCEPT ![c].stage = "sent"]
      /\ UNCHANGED <<pc, value, before, data, late>>
  BY Zenon DEF Call
<1>2. rpc[c] \in Reply
  BY Zenon DEF IInv, TypeOK
<1>3. PICK r : r = [rpc[c] EXCEPT !.stage = "sent"]
  BY Zenon
<1>4. r \in Reply /\ r.stage = "sent"
  BY <1>2, <1>3 DEF Reply
<1>5. rpc' = [rpc EXCEPT ![c] = r] /\ pc[c] # "new" /\ r.stage # "replied"
  BY <1>1, <1>3, <1>4
<1>6. late \subseteq Appender /\ pc \in [Clerk -> {"new", "try", "query", "done"}]
  BY Zenon DEF IInv, TypeOK
<1> QED
  BY <1>1, <1>4, <1>5, <1>6, NoReply, Zenon

\* What the loop over the servers does with pc.
LEMMA LoopGoesOn ==
    ASSUME TypeOK, NEW c \in Clerk, AskCtrler(c) \/ NextServer(c)
    PROVE  /\ pc' \in [Clerk -> {"new", "try", "query", "done"}]
           /\ \A d \in Clerk : pc'[d] \in {"new", "done"} => pc[d] = pc'[d]
<1>1. CASE UNCHANGED pc
  BY <1>1, Zenon DEF TypeOK
<1>2. CASE pc' = [pc EXCEPT ![c] = "query"]
  BY <1>2 DEF TypeOK
<1> QED
  BY <1>1, <1>2, Zenon DEF AskCtrler, NextServer

LEMMA CallFailsKeeps ==
    ASSUME IInv, NEW c \in Clerk, CallFails(c)
    PROVE  IInv'
<1>1. /\ rpc[c].stage # "none" /\ rpc' = [rpc EXCEPT ![c] = NoCall]
      /\ late' = (IF c \in Appender /\ rpc[c].stage = "sent" THEN late \union {c} ELSE late)
      /\ NextServer(c) /\ UNCHANGED <<value, before, data>>
  BY Zenon DEF CallFails
<1>2. TypeOK /\ NotEarly
  BY Zenon DEF IInv
<1>3. late' \subseteq Appender
  BY <1>1, <1>2, Zenon DEF TypeOK
<1>4. pc[c] # "new" /\ NoCall.stage # "replied"
  BY <1>1, <1>2, NoCallReply DEF NotEarly
<1> QED
  BY <1>1, <1>2, <1>3, <1>4, NoCallReply, LoopGoesOn, NoReply, Zenon

\* Get and PutAppend act on a reply; only a right one ends them.
LEMMA ReceiveKeeps ==
    ASSUME IInv, NEW c \in Clerk, Receive(c)
    PROVE  IInv'
<1>1. /\ Get(c) \/ PutAppend(c)
      /\ rpc' = [rpc EXCEPT ![c] = NoCall] /\ UNCHANGED <<before, data, late>>
  BY Zenon DEF Receive
<1>2. TypeOK /\ NotEarly /\ AppendsDone /\ BeforeDone /\ RepliesFresh /\ ValuesFresh
  BY Zenon DEF IInv
<1>3. rpc[c].stage = "replied" /\ pc[c] # "new" /\ late \subseteq Appender /\ NoCall.stage # "replied"
  <2>1. rpc[c].stage = "replied"
    BY <1>1, Zenon DEF Get, PutAppend
  <2>2. rpc[c].stage # "none"
    BY <2>1
  <2> QED
    BY <1>2, <2>1, <2>2, NoCallReply DEF NotEarly, TypeOK
<1>4. CASE UNCHANGED value /\ (AskCtrler(c) \/ NextServer(c))
  BY <1>1, <1>2, <1>3, <1>4, NoCallReply, LoopGoesOn, NoReply, Zenon
<1>5. CASE pc' = [pc EXCEPT ![c] = "done"] /\ ~(UNCHANGED value /\ (AskCtrler(c) \/ NextServer(c)))
  <2>1. c \in Getter =>
          rpc[c].reply \in {"OK", "ErrNoKey"} /\ value' = [value EXCEPT ![c] = rpc[c].value]
    BY <1>1, <1>5, ClerkAssumption, Zenon DEF Get, PutAppend
  <2>2. c \in Appender => rpc[c].reply = "OK" /\ UNCHANGED value
    BY <1>1, <1>5, ClerkAssumption, Zenon DEF Get, PutAppend
  <2>3. rpc[c].value \in Seq(Appender)
    BY <1>2 DEF TypeOK, Reply
  <2>4. /\ pc' \in [Clerk -> {"new", "try", "query", "done"}]
        /\ rpc' \in [Clerk -> Reply]
    BY <1>1, <1>2, <1>5, NoCallReply DEF TypeOK
  <2>5. value' \in [Clerk -> Seq(Appender)]
    BY <1>2, <2>1, <2>2, <2>3, Zenon DEF TypeOK, Clerk
  <2>6. TypeOK'
    BY <1>1, <1>2, <2>4, <2>5, Zenon DEF TypeOK
  <2>7. \A d \in Clerk : /\ pc'[d] = IF d = c THEN "done" ELSE pc[d]
                         /\ rpc'[d] = IF d = c THEN NoCall ELSE rpc[d]
                         /\ d # c => value'[d] = value[d]
    BY <1>1, <1>2, <1>5, <2>1, <2>2, Zenon DEF TypeOK, Clerk
  <2>8. pc'[c] = "done" /\ pc'[c] # "new" /\ rpc'[c].stage # "replied"
    BY <1>3, <2>7
  <2>9. \A d \in Clerk : d # c => pc'[d] = pc[d] /\ rpc'[d] = rpc[d] /\ value'[d] = value[d]
    BY <2>7, Zenon
  <2>10. NotEarly'
    BY <1>2, <2>8, <2>9, Zenon DEF NotEarly
  <2>11. AppendsDone'
    BY <1>1, <1>2, <1>3, <2>2, <2>8, <2>9, Zenon DEF AppendsDone, Clerk
  <2>12. BeforeDone'
    BY <1>1, <1>2, Zenon DEF BeforeDone
  <2>13. RepliesFresh'
    BY <1>1, <1>2, <2>8, <2>9, Zenon DEF RepliesFresh, Clerk
  <2>14. c \in Getter => value'[c] = rpc[c].value
    BY <1>2, <2>1, Zenon DEF TypeOK, Clerk
  <2>15. ASSUME NEW d \in Getter, pc'[d] = "done", NEW a \in before[d]
         PROVE  In(value'[d], a)
    <3>1. CASE d = c
      BY <1>2, <1>3, <2>1, <2>14, <2>15, <3>1, Zenon DEF RepliesFresh
    <3>2. CASE d # c
      BY <1>2, <2>9, <2>15, <3>2, Zenon DEF ValuesFresh, Clerk
    <3> QED
      BY <3>1, <3>2, Zenon
  <2>16. ValuesFresh'
    BY <1>1, <2>15, Zenon DEF ValuesFresh
  <2> QED
    BY <2>6, <2>10, <2>11, <2>12, <2>13, <2>16, Zenon DEF IInv
<1> QED
  BY <1>1, <1>4, <1>5, Zenon DEF Get, PutAppend

\* A server replies; the OK to an append comes with the append, a value with
\* all that was carried out.
LEMMA ServerKeeps ==
    ASSUME IInv, NEW c \in Clerk, ServerHandles(c)
    PROVE  IInv'
<1> DEFINE g == GroupOf(c)
           reply == IF si[c] # leader[g] THEN "ErrWrongLeader"
                    ELSE IF owner # g THEN "ErrWrongGroup"
                    ELSE IF c \in Getter /\ data = <<>> THEN "ErrNoKey" ELSE "OK"
<1>1. PICK w : w = reply
  BY Zenon
<1>2. PICK v : v = IF w = "OK" /\ c \in Getter THEN data ELSE <<>>
  BY Zenon
<1>3. PICK r : r = [stage |-> "replied", reply |-> w, value |-> v]
  BY Zenon
<1>4. /\ rpc[c].stage = "sent" /\ rpc' = [rpc EXCEPT ![c] = r]
      /\ data' = (IF w = "OK" /\ c \in Appender THEN Append(data, c) ELSE data)
      /\ UNCHANGED <<pc, value, before, late>>
  BY <1>1, <1>2, <1>3, Zenon DEF ServerHandles
<1>5. w \in {"OK", "ErrNoKey", "ErrWrongGroup", "ErrWrongLeader"}
  BY <1>1
<1>6. w = "ErrNoKey" => c \in Getter /\ data = <<>>
  BY <1>1
<1> HIDE DEF reply, g
<1>7. TypeOK /\ NotEarly /\ AppendsDone /\ BeforeDone /\ RepliesFresh /\ ValuesFresh
  BY Zenon DEF IInv
<1>8. v \in Seq(Appender)
  BY <1>2, <1>7, EmptyLog, Zenon DEF TypeOK
<1>9. r \in Reply /\ r.stage = "replied" /\ r.reply = w /\ r.value = v
  BY <1>3, <1>5, <1>8 DEF Reply
<1>10. data' \in Seq(Appender) /\ \A a : In(data, a) => In(data', a)
  BY <1>4, <1>7, Appended, Zenon DEF TypeOK
<1>11. w = "OK" /\ c \in Appender => In(data', c)
  BY <1>4, <1>7, Appended, Zenon DEF TypeOK
<1>12. TypeOK'
  <2>1. rpc' \in [Clerk -> Reply]
    BY <1>4, <1>7, <1>9 DEF TypeOK
  <2> QED
    BY <1>4, <1>7, <1>10, <2>1, Zenon DEF TypeOK
<1>13. \A d \in Clerk : rpc'[d] = IF d = c THEN r ELSE rpc[d]
  BY <1>4, <1>7, Zenon DEF TypeOK
<1>14. pc[c] # "new"
  <2>1. rpc[c].stage # "none"
    BY <1>4
  <2> QED
    BY <1>7, <2>1, Zenon DEF NotEarly
<1>15. NotEarly'
  BY <1>4, <1>7, <1>13, <1>14, Zenon DEF NotEarly
<1>16. AppendsDone'
  BY <1>4, <1>7, <1>9, <1>10, <1>11, <1>13, Zenon DEF AppendsDone, Clerk
<1>17. BeforeDone'
  BY <1>4, <1>7, <1>10, Zenon DEF BeforeDone
<1>18. ASSUME c \in Getter, w \in {"OK", "ErrNoKey"}, NEW a \in before[c]
       PROVE  In(v, a)
  <2>1. In(data, a)
    BY <1>7, Zenon DEF BeforeDone
  <2>2. w = "OK"
    BY <1>6, <1>18, <2>1, EmptyLog, Zenon
  <2> QED
    BY <1>2, <1>18, <2>1, <2>2, Zenon
<1>19. RepliesFresh'
  BY <1>4, <1>7, <1>9, <1>13, <1>18, Zenon DEF RepliesFresh, Clerk
<1>20. ValuesFresh'
  BY <1>4, <1>7, Zenon DEF ValuesFresh
<1> QED
  BY <1>12, <1>15, <1>16, <1>17, <1>19, <1>20, Zenon DEF IInv

----------------------------------------------------------------------------
(* The theorems *)

LEMMA InitIInv == Init => IInv
<1> SUFFICES ASSUME Init PROVE IInv
  OBVIOUS
<1>1. /\ pc = [c \in Clerk |-> "new"] /\ rpc = [c \in Clerk |-> NoCall]
      /\ value = [c \in Clerk |-> <<>>] /\ before = [c \in Clerk |-> {}]
      /\ data = <<>> /\ late = {}
  BY Zenon DEF Init
<1>2. \A c \in Clerk : pc[c] = "new" /\ pc[c] # "done" /\ rpc[c] = NoCall /\ before[c] = {}
  BY <1>1
<1>3. TypeOK
  <2>1. /\ pc \in [Clerk -> {"new", "try", "query", "done"}] /\ before \in [Clerk -> SUBSET Appender]
        /\ rpc \in [Clerk -> Reply] /\ value \in [Clerk -> Seq(Appender)]
    BY <1>1, NoCallReply, EmptyLog
  <2> QED
    BY <1>1, <2>1, EmptyLog, Zenon DEF TypeOK
<1>4. NoCall.stage = "none" /\ NoCall.stage # "replied"
  BY NoCallReply
<1> QED
  BY <1>2, <1>3, <1>4, Zenon
     DEF IInv, NotEarly, AppendsDone, BeforeDone, RepliesFresh, ValuesFresh, Clerk

\* The inductive invariant holds.
THEOREM Invariance == Spec => []IInv
<1>1. IInv /\ [Next]_vars => IInv'
  <2> SUFFICES ASSUME IInv, [Next]_vars PROVE IInv'
    OBVIOUS
  <2>0. /\ data \in Seq(Appender) /\ late \subseteq Appender
        /\ pc \in [Clerk -> {"new", "try", "query", "done"}]
    BY Zenon DEF IInv, TypeOK
  <2>1. ASSUME NEW c \in Clerk, Begin(c) \/ Call(c) \/ Receive(c) \/ CallFails(c) \/ ServerHandles(c)
        PROVE  IInv'
    BY <2>1, BeginKeeps, CallKeeps, ReceiveKeeps, CallFailsKeeps, ServerKeeps, Zenon
  <2>2. ASSUME UNCHANGED <<rpc, value, before, data, late, pc>>
        PROVE  IInv'
    BY <2>0, <2>2, Kept, Zenon
  <2>3. ASSUME NEW c \in Clerk, ClerkGoesOn(c)
        PROVE  IInv'
    <3>1. UNCHANGED <<rpc, value, before, data, late>>
      BY <2>3, Zenon DEF ClerkGoesOn
    <3>2. PICK p \in {"try", "query"} : pc' = [pc EXCEPT ![c] = p]
      BY <2>3, Zenon DEF ClerkGoesOn, QueryReturns
    <3>3. /\ pc' \in [Clerk -> {"new", "try", "query", "done"}]
          /\ \A d \in Clerk : pc'[d] \in {"new", "done"} => pc[d] = pc'[d]
      BY <2>0, <3>2
    <3> QED
      BY <2>0, <3>1, <3>3, Kept, Zenon
  <2>4. ASSUME NEW c \in Clerk, LateAppend(c)
        PROVE  IInv'
    <3>1. c \in late /\ late' = late \ {c} /\ data' = Append(data, c) /\ UNCHANGED <<rpc, value, before, pc>>
      BY <2>4, Zenon DEF LateAppend, clerkVars
    <3>2. late' \subseteq Appender /\ c \in Appender
      BY <2>0, <3>1, Zenon
    <3>3. data' \in Seq(Appender) /\ \A a : In(data, a) => In(data', a)
      BY <2>0, <3>1, <3>2, Appended, Zenon
    <3> QED
      BY <2>0, <3>1, <3>2, <3>3, Kept, Zenon
  <2>5. ASSUME NEW c \in Clerk, Query(c)
        PROVE  UNCHANGED <<rpc, value, before, data, late, pc>>
    BY <2>5, Zenon DEF Query, clerkVars
  <2>6. ASSUME NEW p \in Process, CallCtrler(p) \/ TryNextCtrler(p) \/ CtrlerCallFails(p) \/ CtrlerHandles(p)
        PROVE  UNCHANGED <<rpc, value, before, data, late, pc>>
    BY <2>6, Zenon DEF CallCtrler, TryNextCtrler, CtrlerCallFails, CtrlerHandles, clerkVars
  <2>7. CASE Join \/ Leave \/ Move \/ AdminGoesOn \/ Migrate \/ ChangeLeader \/ UNCHANGED vars
    <3>1. UNCHANGED <<rpc, value, before, data, late, pc>>
      BY <2>7, Zenon DEF Join, Leave, Move, Administer, AdminGoesOn, Migrate, ChangeLeader,
           vars, clerkVars
    <3> QED
      BY <2>2, <3>1, Zenon
  <2> QED
    BY <2>1, <2>2, <2>3, <2>4, <2>5, <2>6, <2>7, Zenon DEF Next
<1> QED
  BY <1>1, InitIInv, PTL DEF Spec

\* AppendWasDone for all constants: PutAppend returns on an OK only, and an OK
\* is sent with the append.
THEOREM AppendWasDoneHolds == Spec => []AppendWasDone
<1>1. IInv => AppendWasDone
  BY Zenon DEF IInv, AppendsDone, AppendWasDone, In
<1> QED
  BY <1>1, Invariance, PTL

\* GetIsFresh for all constants: Get returns on OK or ErrNoKey only, and what had
\* returned when it was called stays in the key's value, wherever the shard goes.
THEOREM GetIsFreshHolds == Spec => []GetIsFresh
<1>1. IInv => GetIsFresh
  BY Zenon DEF IInv, ValuesFresh, GetIsFresh, In
<1> QED
  BY <1>1, Invariance, PTL
=============================================================================
