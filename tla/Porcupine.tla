------------------------------ MODULE Porcupine -----------------------------
(***************************************************************************)
(* The linearizability checker of src/porcupine with the key-value model   *)
(* of src/models/kv.go: the depth-first search of checkSingle over a       *)
(* doubly linked list of calls and returns, one goroutine per key, and     *)
(* checkParallel, which collects the answers, stops the others and times   *)
(* out.                                                                    *)
(*                                                                         *)
(* A node is its position in the sorted list of entries; 0 is the head.    *)
(* An id is the position of an operation in the part of the history that   *)
(* belongs to its key.  Go's ids start at 0, those here at 1.              *)
(***************************************************************************)
EXTENDS Integers, Sequences, FiniteSets, Functions, TLC

CONSTANTS
    Key,        \* keys of operations
    Op,         \* operations: records of kind, key and value
    NOp,        \* greatest number of operations in a history
    MaxTime,    \* operations are called and return at times 1 .. MaxTime
    Word,       \* bits in a word of a bitset, 64 in the code
    Nil         \* a nil pointer

ASSUME SizeAssumption ==
    NOp \in Nat /\ MaxTime \in Nat \ {0} /\ Word \in Nat \ {0}
ASSUME NilAssumption == Nil \notin Nat /\ Nil \notin Seq(Nat)
ASSUME OpAssumption == \A o \in Op : o.kind \in {"get", "put", "append"} /\ o.key \in Key

VARIABLES
    hist,       \* the history of operations
    computeInfo, \* whether the caller wants the partial linearizations
    limited,    \* whether the caller gave a timeout
    entries,    \* its entries, by key
    next, prev, \* the linked list of each goroutine
    entry,      \* the node it looks at
    calls,      \* its stack of linearized calls
    state,      \* the state of the model
    linearized, \* bitset of linearized ids
    cache,      \* pairs of a bitset and a state seen before
    longest,    \* for every id the longest linearizable prefix with it
    answer,     \* what checkSingle returned: none, true, false
    kill,       \* the flag that stops the goroutines
    got,        \* goroutines whose answer was received
    ok,         \* local of checkParallel
    timedOut,   \* local of checkParallel
    verdict     \* none, collect, Ok, Illegal, Unknown

searchVars == <<next, prev, entry, calls, state, linearized, cache, longest, answer>>
args == <<hist, computeInfo, limited>>
vars == <<args, entries, searchVars, kill, got, ok, timedOut, verdict>>

----------------------------------------------------------------------------
(* models/kv.go: the value of a key is the sequence of what was appended. *)

\* The operations of one key, in the order of the history.
Partition(h, k) ==
    LET mine == {i \in DOMAIN h : h[i].op.key = k} IN
    [j \in 1 .. Cardinality(mine) |->
        h[CHOOSE i \in mine : Cardinality({m \in mine : m <= i}) = j]]

\* The keys that occur in the history, one goroutine each.
Parts == {hist[i].op.key : i \in DOMAIN hist}

InitState == <<>>

\* Whether an operation could have returned what it did, and the next state.
Accepts(st, o) == o.kind = "get" => o.value = st

NewState(st, o) ==
    CASE o.kind = "get" -> st
      [] o.kind = "put" -> o.value
      [] o.kind = "append" -> st \o o.value

----------------------------------------------------------------------------
(* Entries and the linked list *)

\* byTime: calls come before returns of the same time.
Less(a, b) == a.time < b.time \/ (a.time = b.time /\ a.call /\ ~b.call)

\* sort.Sort is not stable: entries that Less does not tell apart come in any order.
\* (Permutations and Bijection are the same set: TLC lists the one, proofs use the other.)
Sorted(s) ==
    LET D == DOMAIN s IN
    {[i \in D |-> s[p[i]]] :
        p \in {q \in Permutations(D) \intersect Bijection(D, D) :
                \A i, j \in D : i < j => ~Less(s[q[j]], s[q[i]])}}

MakeEntries(h) ==
    Sorted([i \in 1 .. 2 * Len(h) |->
                LET id == (i + 1) \div 2
                    o  == h[id]
                    c  == i % 2 = 1 IN
                [id |-> id, call |-> c, time |-> IF c THEN o.call ELSE o.return,
                 op |-> o.op]])

\* entry.match: the return of a call, nil for a return.
Match(k, n) ==
    IF ~entries[k][n].call THEN Nil
    ELSE CHOOSE m \in DOMAIN entries[k] :
            entries[k][m].id = entries[k][n].id /\ ~entries[k][m].call

Lift(k, e) ==
    LET m  == Match(k, e)
        n1 == [next[k] EXCEPT ![prev[k][e]] = next[k][e]]
        p1 == [prev[k] EXCEPT ![next[k][e]] = prev[k][e]] IN
    /\ next' = [next EXCEPT ![k] = [n1 EXCEPT ![p1[m]] = n1[m]]]
    /\ prev' = [prev EXCEPT ![k] =
                    IF n1[m] = Nil THEN p1 ELSE [p1 EXCEPT ![n1[m]] = p1[m]]]

\* The return first, then the call: the reverse of Lift.
Unlift(k, e) ==
    LET m  == Match(k, e)
        n1 == [next[k] EXCEPT ![prev[k][m]] = m]
        p1 == IF next[k][m] = Nil THEN prev[k] ELSE [prev[k] EXCEPT ![next[k][m]] = m] IN
    /\ next' = [next EXCEPT ![k] = [n1 EXCEPT ![p1[e]] = e]]
    /\ prev' = [prev EXCEPT ![k] = [p1 EXCEPT ![n1[e]] = e]]

----------------------------------------------------------------------------
(* Bitsets: words of Word bits each *)

ChunksRoundedDown(n) == n \div Word

Chunks(n) == n \div Word + IF n % Word # 0 THEN 1 ELSE 0

NewBitset(n) == [c \in 0 .. Chunks(n) - 1 |-> {}]

Set(b, id) == [b EXCEPT ![(id - 1) \div Word] = @ \union {(id - 1) % Word}]

Clear(b, id) == [b EXCEPT ![(id - 1) \div Word] = @ \ {(id - 1) % Word}]

----------------------------------------------------------------------------
\* The empty history, of a test whose clients got no operation through, is one of them.
Histories ==
    UNION {{h \in [1 .. n -> [op : Op, call : 1 .. MaxTime, return : 1 .. MaxTime]] :
                \A i \in 1 .. n : h[i].call <= h[i].return} : n \in 0 .. NOp}

\* checkOperations has partitioned the history and checkParallel has started
\* one checkSingle for each part.
Init ==
    /\ hist \in Histories
    /\ \E made \in {[k \in Parts |-> MakeEntries(Partition(hist, k))]} :
        entries \in {e \in [Parts -> UNION Range(made)] : \A k \in Parts : e[k] \in made[k]}
    /\ computeInfo \in BOOLEAN /\ limited \in BOOLEAN
    /\ next = [k \in Parts |-> [n \in 0 .. Len(entries[k]) |->
                                    IF n = Len(entries[k]) THEN Nil ELSE n + 1]]
    /\ prev = [k \in Parts |-> [n \in 0 .. Len(entries[k]) |->
                                    IF n = 0 THEN Nil ELSE n - 1]]
    /\ entry = [k \in Parts |-> 1]
    /\ calls = [k \in Parts |-> <<>>]
    /\ state = [k \in Parts |-> InitState]
    /\ linearized = [k \in Parts |-> NewBitset(Len(entries[k]) \div 2)]
    /\ cache = [k \in Parts |-> {}]
    /\ longest = [k \in Parts |-> [i \in 1 .. Len(entries[k]) \div 2 |-> Nil]]
    /\ answer = [k \in Parts |-> "none"]
    /\ kill = FALSE /\ got = {} /\ ok = TRUE /\ timedOut = FALSE
    /\ verdict = "none"

----------------------------------------------------------------------------
(* checkSingle *)

\* The loop goes on with another iteration.
Searching(k) == answer[k] = "none" /\ next[k][0] # Nil /\ ~kill

SeenBitset(k, b, st) == \E c \in cache[k] : c[1] = b

Seen(k, b, st) == <<b, st>> \in cache[k]

\* The call at entry is linearized next, if the model allows it and the search
\* has not been in the resulting configuration before.
Linearize(k) ==
    LET e  == entry[k]
        o  == entries[k][e].op
        id == entries[k][e].id
        b  == Set(linearized[k], id)
        st == NewState(state[k], o) IN
    /\ Searching(k)
    /\ entries[k][e].call
    /\ Accepts(state[k], o) /\ ~Seen(k, b, st)
    /\ cache' = [cache EXCEPT ![k] = @ \union {<<b, st>>}]
    /\ calls' = [calls EXCEPT ![k] = Append(@, [entry |-> e, state |-> state[k]])]
    /\ state' = [state EXCEPT ![k] = st]
    /\ linearized' = [linearized EXCEPT ![k] = b]
    /\ Lift(k, e)
    /\ entry' = [entry EXCEPT ![k] = next'[k][0]]
    /\ UNCHANGED <<args, entries, longest, answer, kill, got, ok, timedOut, verdict>>

\* The call at entry cannot be linearized now.
Skip(k) ==
    LET e  == entry[k]
        o  == entries[k][e].op IN
    /\ Searching(k)
    /\ entries[k][e].call
    /\ ~(/\ Accepts(state[k], o)
         /\ ~Seen(k, Set(linearized[k], entries[k][e].id), NewState(state[k], o)))
    /\ entry' = [entry EXCEPT ![k] = next[k][e]]
    /\ UNCHANGED <<args, entries, next, prev, calls, state, linearized, cache,
                   longest, answer, kill, got, ok, timedOut, verdict>>

Ids(k, cs) == [i \in DOMAIN cs |-> entries[k][cs[i].entry].id]

LongestFirst(k, cs) ==
    [id \in DOMAIN longest[k] |->
        IF (\E i \in DOMAIN cs : Ids(k, cs)[i] = id) /\ longest[k][id] = Nil
        THEN Ids(k, cs) ELSE longest[k][id]]

\* longest after the prefix cs has come to its end.
Longest(k, cs) ==
    [id \in DOMAIN longest[k] |->
        IF /\ \E i \in DOMAIN cs : Ids(k, cs)[i] = id
           /\ longest[k][id] = Nil \/ Len(cs) > Len(longest[k][id])
        THEN Ids(k, cs) ELSE longest[k][id]]

\* A return is reached before its call was linearized: the last call is undone.
Backtrack(k) ==
    LET top == calls[k][Len(calls[k])]
        e   == top.entry IN
    /\ Searching(k)
    /\ ~entries[k][entry[k]].call
    /\ calls[k] # <<>>
    /\ longest' = IF computeInfo THEN [longest EXCEPT ![k] = Longest(k, calls[k])] ELSE longest
    /\ state' = [state EXCEPT ![k] = top.state]
    /\ linearized' = [linearized EXCEPT ![k] = Clear(@, entries[k][e].id)]
    /\ calls' = [calls EXCEPT ![k] = SubSeq(@, 1, Len(@) - 1)]
    /\ Unlift(k, e)
    /\ entry' = [entry EXCEPT ![k] = next'[k][e]]
    /\ UNCHANGED <<args, entries, cache, answer, kill, got, ok, timedOut, verdict>>

\* Nothing is left to undo.
Fail(k) ==
    /\ Searching(k)
    /\ ~entries[k][entry[k]].call
    /\ calls[k] = <<>>
    /\ answer' = [answer EXCEPT ![k] = "false"]
    /\ UNCHANGED <<args, entries, next, prev, entry, calls, state, linearized, cache,
                   longest, kill, got, ok, timedOut, verdict>>

\* Every operation is linearized.
Succeed(k) ==
    /\ answer[k] = "none" /\ next[k][0] = Nil
    /\ answer' = [answer EXCEPT ![k] = "true"]
    /\ longest' = [longest EXCEPT ![k] = [id \in DOMAIN @ |-> Ids(k, calls[k])]]
    /\ UNCHANGED <<args, entries, next, prev, entry, calls, state, linearized, cache,
                   kill, got, ok, timedOut, verdict>>

\* The goroutine sees the kill flag.
Killed(k) ==
    /\ answer[k] = "none" /\ next[k][0] # Nil /\ kill
    /\ answer' = [answer EXCEPT ![k] = "false"]
    /\ UNCHANGED <<args, entries, next, prev, entry, calls, state, linearized, cache,
                   longest, kill, got, ok, timedOut, verdict>>

----------------------------------------------------------------------------
(* checkParallel *)

Result(good, late) == IF ~good THEN "Illegal" ELSE IF late THEN "Unknown" ELSE "Ok"

\* The loop is left; with computeInfo the other goroutines are waited for.
Leave(good, late, seen) ==
    verdict' = IF computeInfo /\ seen # Parts THEN "collect" ELSE Result(good, late)

ReceiveOffByOne(k) ==
    LET good == ok /\ answer[k] = "true" IN
    /\ verdict = "none"
    /\ answer[k] # "none" /\ k \notin got
    /\ got' = got \union {k}
    /\ ok' = good
    /\ kill' = (kill \/ (~good /\ ~computeInfo))
    /\ IF ~good /\ ~computeInfo THEN Leave(good, timedOut, got') ELSE UNCHANGED verdict
    /\ UNCHANGED <<args, entries, searchVars, timedOut>>

Receive(k) ==
    LET good == ok /\ answer[k] = "true" IN
    /\ verdict = "none"
    /\ answer[k] # "none" /\ k \notin got
    /\ got' = got \union {k}
    /\ ok' = good
    /\ kill' = (kill \/ (~good /\ ~computeInfo))
    /\ IF (~good /\ ~computeInfo) \/ got' = Parts THEN Leave(good, timedOut, got')
       ELSE UNCHANGED verdict
    /\ UNCHANGED <<args, entries, searchVars, timedOut>>

Timeout ==
    /\ limited /\ verdict = "none"
    /\ timedOut' = TRUE
    /\ kill' = TRUE
    /\ Leave(ok, TRUE, got)
    /\ UNCHANGED <<args, entries, searchVars, got, ok>>

CollectAnd(k) ==
    LET good == ok /\ answer[k] = "true" IN
    /\ verdict = "collect"
    /\ answer[k] # "none" /\ k \notin got
    /\ got' = got \union {k}
    /\ ok' = good
    /\ IF got' = Parts THEN verdict' = Result(good, timedOut) ELSE UNCHANGED verdict
    /\ UNCHANGED <<args, entries, searchVars, kill, timedOut>>

\* The answers of goroutines that were stopped are not looked at.
Collect(k) ==
    /\ verdict = "collect"
    /\ answer[k] # "none" /\ k \notin got
    /\ got' = got \union {k}
    /\ IF got' = Parts THEN verdict' = Result(ok, timedOut) ELSE UNCHANGED verdict
    /\ UNCHANGED <<args, entries, searchVars, kill, ok, timedOut>>

----------------------------------------------------------------------------
Search(k) == Linearize(k) \/ Skip(k) \/ Backtrack(k) \/ Fail(k) \/ Succeed(k) \/ Killed(k)

Next ==
    \/ \E k \in Parts : Linearize(k)
    \/ \E k \in Parts : Skip(k)
    \/ \E k \in Parts : Backtrack(k)
    \/ \E k \in Parts : Fail(k)
    \/ \E k \in Parts : Succeed(k)
    \/ \E k \in Parts : Killed(k)
    \/ \E k \in Parts : Receive(k)
    \/ Timeout
    \/ \E k \in Parts : Collect(k)

Spec == Init /\ [][Next]_vars

\* Goroutines run, answers are received and a timer that was set goes off.
FairSpec ==
    /\ Spec
    /\ \A k \in Key : WF_vars(k \in Parts /\ Search(k))
    /\ WF_vars(\E k \in Parts : Receive(k) \/ Collect(k))
    /\ WF_vars(Timeout)

----------------------------------------------------------------------------
(* The reference: what it means that a history is linearizable *)

\* The operation i of h returned before operation j was called.
Before(h, i, j) == h[i].return < h[j].call

\* The order in which distinct operations of h take effect is one that their
\* times allow: it has no gap and turns no pair around.
InOrder(h, order) ==
    \A p \in DOMAIN order, i \in DOMAIN h :
        Before(h, i, order[p]) => \E q \in 1 .. p - 1 : order[q] = i

\* The value of every key after the first n operations of the order.
Values(h, order) ==
    LET v[n \in 0 .. Len(order)] ==
            IF n = 0 THEN [k \in Key |-> InitState]
            ELSE LET o == h[order[n]].op IN
                 [v[n - 1] EXCEPT ![o.key] = NewState(@, o)]
    IN v

Legal(h, order) ==
    LET v == Values(h, order) IN
    \A n \in DOMAIN order : Accepts(v[n - 1][h[order[n]].op.key], h[order[n]].op)

\* The sequences of distinct operations of h that could have taken effect.
Prefixes(h) ==
    {order \in UNION {[1 .. n -> DOMAIN h] : n \in 0 .. Len(h)} :
        /\ \A p, q \in DOMAIN order : order[p] = order[q] => p = q
        /\ InOrder(h, order)
        /\ Legal(h, order)}

Linearizable(h) == \E order \in Prefixes(h) : Len(order) = Len(h)

----------------------------------------------------------------------------
(* Properties *)

\* Ok means that the whole history is linearizable and Illegal that it is not,
\* although every key is searched on its own and goroutines are stopped half
\* way ("a history is linearizable if and only if each partition is
\* linearizable", model.go).
VerdictCorrect ==
    /\ verdict = "Ok" => Linearizable(hist)
    /\ verdict = "Illegal" => ~Linearizable(hist)

\* The linked list is the history without the linearized operations, in its
\* original order and linked both ways, and the bitset says which those are:
\* lift and unlift are exact inverses across any amount of backtracking.
ListIntact ==
    \A k \in Parts :
        LET done == {Ids(k, calls[k])[i] : i \in DOMAIN calls[k]}
            left == {n \in DOMAIN entries[k] : entries[k][n].id \notin done} IN
        /\ \A n \in left \union {0} :
            \/ next[k][n] = Nil /\ \A m \in left : m <= n
            \/ /\ next[k][n] \in left /\ next[k][n] > n /\ prev[k][next[k][n]] = n
               /\ \A m \in left : m <= n \/ m >= next[k][n]
        /\ \A id \in DOMAIN longest[k] :
            id \in done <=> \E c \in DOMAIN linearized[k] :
                                id - 1 \in {c * Word + bit : bit \in linearized[k][c]}

\* When a search has failed, longest holds for every operation a longest
\* possible order of effects that includes it, or nil if there is none
\* ("longest linearizable prefix that includes the given entry"), although
\* the cache cuts branches off.
LongestIsLongest ==
    \A k \in Parts : (computeInfo /\ ~kill /\ answer[k] = "false") =>
        LET all == Prefixes(Partition(hist, k)) IN
        \A id \in DOMAIN longest[k] :
            LET with == {p \in all : \E i \in DOMAIN p : p[i] = id} IN
            \/ with = {} /\ longest[k][id] = Nil
            \/ /\ longest[k][id] \in with
               /\ \A p \in with : Len(p) <= Len(longest[k][id])

\* checkParallel returns in both modes, even without a timeout, unless the
\* history is empty: no goroutine is started then, so that its select waits for
\* the timer alone, and for ever if there is none (the test that leaves the
\* loop, count >= len(history), comes after a receive).
CheckReturns ==
    /\ hist # <<>> \/ limited => <>(verdict \in {"Ok", "Illegal", "Unknown"})
    /\ hist = <<>> /\ ~limited => [](verdict = "none")
=============================================================================
