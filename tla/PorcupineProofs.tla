-------------------------- MODULE PorcupineProofs ---------------------------
(***************************************************************************)
(* Proofs about Porcupine.tla, for any history, any number of keys and any *)
(* width of a word: the list survives lift and unlift, the search finds a  *)
(* linearization exactly when there is one although the cache cuts it      *)
(* short, and what it says of the keys is true of the whole history.       *)
(***************************************************************************)
EXTENDS PorcupineLemmas

----------------------------------------------------------------------------
(* The list is intact *)

Shape(k) ==
    /\ ShapeOf(Partition(hist, k), entries[k], calls[k], state[k], next[k], prev[k], entry[k],
               linearized[k])
    /\ DOMAIN longest[k] = 1 .. Len(Partition(hist, k))

ListInv == Setting /\ Keyed /\ \A k \in Parts : Shape(k)

LEMMA ShapeFirst ==
    ASSUME NEW h, IsHist(h), NEW e, Listing(h, e), NEW nx, NEW pv,
           nx = [n \in 0 .. Len(e) |-> IF n = Len(e) THEN Nil ELSE n + 1],
           pv = [n \in 0 .. Len(e) |-> IF n = 0 THEN Nil ELSE n - 1]
    PROVE  /\ ShapeOf(h, e, <<>>, InitState, nx, pv, 1, NewBitset(Len(e) \div 2))
           /\ Len(e) \div 2 = Len(h)
<1> DEFINE z == Len(e)
           S == Left(e, <<>>, 0)
<1>1. Len(h) \in Nat /\ z = 2 * Len(h)
  BY Zenon DEF IsHist, Listing
<1>2. z \div 2 = Len(h) /\ z \in Nat
  BY <1>1
<1>3. S = 1 .. z /\ DoneAt(e, <<>>, 0) = {}
  BY DoneNone, Zenon DEF Listing
<1>4. Len(<<>>) = 0 /\ IsSeq(<<>>) /\ \A i \in 1 .. 0 : FALSE
  <2>1. <<>> \in Seq(Nat) /\ Len(<<>>) = 0 /\ \A i \in 1 .. 0 : FALSE
    OBVIOUS
  <2>. QED  BY <2>1, Zenon DEF IsSeq
<1>5. Stack(e, <<>>, InitState)
  BY <1>4, Zenon DEF Stack, StateAt
<1> HIDE DEF z, S
<1>6. nx \in [0 .. z -> (0 .. z) \union {Nil}] /\ pv \in [0 .. z -> (0 .. z) \union {Nil}]
  BY <1>2 DEF z
<1>7. \A n \in 0 .. z : nx[n] = (IF n = z THEN Nil ELSE n + 1) /\ pv[n] = (IF n = 0 THEN Nil ELSE n - 1)
  BY Zenon DEF z
<1>8. ASSUME NEW n \in S \union {0} PROVE IsNext(S, n, nx[n])
  <2>1. n \in 0 .. z
    BY <1>2, <1>3
  <2>2. CASE n = z
    <3>1. nx[n] = Nil
      BY <1>7, <2>1, <2>2, Zenon
    <3>2. \A y \in S : y <= n
      BY <1>2, <1>3, <2>2
    <3>. QED  BY <3>1, <3>2, Zenon DEF IsNext
  <2>3. CASE n # z
    <3>1. nx[n] = n + 1
      BY <1>7, <2>1, <2>3, Zenon
    <3>2. n + 1 \in S /\ n < n + 1 /\ \A y \in S : y <= n \/ y >= n + 1
      BY <1>2, <1>3, <2>1, <2>3
    <3>. QED  BY <3>1, <3>2, Zenon DEF IsNext
  <2>. QED  BY <2>2, <2>3, Zenon
<1>9. ASSUME NEW n \in S PROVE IsPrev(S, n, pv[n])
  <2>1. n \in 0 .. z /\ n # 0
    BY <1>2, <1>3
  <2>2. pv[n] = n - 1
    BY <1>7, <2>1, Zenon
  <2>3. n - 1 \in S \union {0} /\ n - 1 < n /\ \A y \in S : y <= n - 1 \/ y >= n
    BY <1>2, <1>3
  <2>. QED  BY <2>2, <2>3, Zenon DEF IsPrev
<1>10. List(e, <<>>, nx, pv)
  BY <1>4, <1>6, <1>8, <1>9, Zenon DEF List, Linked, z, S
<1>11. Looking(e, <<>>, nx, 1)
  <2>1. CASE z = 0
    <3>1. nx[0] = Nil
      BY <1>2, <1>7, <2>1
    <3>. QED  BY <3>1, Zenon DEF Looking
  <2>2. CASE z # 0
    <3>1. 1 \in S /\ \A n \in S : ~(n < 1)
      BY <1>2, <1>3, <2>2
    <3>. QED  BY <1>4, <3>1, Zenon DEF Looking, S
  <2>. QED  BY <2>1, <2>2, Zenon
<1>12. BitsType(NewBitset(z \div 2), Len(h)) /\ Ones(NewBitset(z \div 2), Len(h)) = {}
  BY <1>1, <1>2, NewBits, Zenon
<1>. QED  BY <1>2, <1>3, <1>4, <1>5, <1>10, <1>11, <1>12, Zenon DEF ShapeOf, z

\* The initial states.
LEMMA ListInit ==
    ASSUME Init
    PROVE  ListInv
<1>1. hist \in Histories
  BY DEF Init
<1>2. \A k \in Parts : entries[k] \in MakeEntries(Partition(hist, k))
  BY Zenon DEF Init
<1>3. \A k \in Parts : Listing(Partition(hist, k), entries[k])
  BY <1>1, <1>2, HistIs, ListingMade, Zenon
<1>4. Setting
  BY <1>1, <1>3, Zenon DEF Setting
<1>5. Keyed
  BY Zenon DEF Init, Keyed
<1>6. ASSUME NEW k \in Parts PROVE Shape(k)
  <2> DEFINE e == entries[k]
             h == Partition(hist, k)
  <2>1. /\ next[k] = [n \in 0 .. Len(e) |-> IF n = Len(e) THEN Nil ELSE n + 1]
        /\ prev[k] = [n \in 0 .. Len(e) |-> IF n = 0 THEN Nil ELSE n - 1]
        /\ entry[k] = 1 /\ calls[k] = <<>> /\ state[k] = InitState
        /\ linearized[k] = NewBitset(Len(e) \div 2) /\ DOMAIN longest[k] = 1 .. Len(e) \div 2
    BY Zenon DEF Init
  <2>2. IsHist(h) /\ Listing(h, e)
    BY <1>1, <1>3, HistIs, Zenon
  <2> HIDE DEF e, h
  <2>3. /\ ShapeOf(h, e, <<>>, InitState, next[k], prev[k], 1, NewBitset(Len(e) \div 2))
        /\ Len(e) \div 2 = Len(h)
    BY <2>1, <2>2, ShapeFirst, Zenon
  <2>. QED  BY <2>1, <2>3, Zenon DEF Shape, e, h
<1>. QED  BY <1>4, <1>5, <1>6, Zenon DEF ListInv

\* A step that leaves the search of j alone.
LEMMA ShapeIdle ==
    ASSUME NEW j, Shape(j), hist' = hist, entries' = entries, Idle(j)
    PROVE  Shape(j)'
<1>1. Partition(hist, j)' = Partition(hist, j)
  BY Zenon
<1>. QED  BY <1>1, Zenon DEF Shape, Idle

\* A step of the search of k.
LEMMA ListLocal ==
    ASSUME ListInv, NEW k \in Parts, Local(k), Keyed', Shape(k)'
    PROVE  ListInv'
<1>1. hist' = hist /\ entries' = entries
  BY Zenon DEF Local
<1>2. Parts' = Parts
  BY <1>1, PartsKept, Zenon
<1>3. \A j : Partition(hist, j)' = Partition(hist, j)
  BY <1>1, Zenon
<1>4. Setting'
  BY <1>1, <1>2, <1>3, Zenon DEF Setting, ListInv
<1>5. \A j \in Parts : Shape(j)'
  BY <1>1, ShapeIdle, Zenon DEF Local, ListInv
<1>. QED  BY <1>2, <1>4, <1>5, Zenon DEF ListInv

\* The facts about one search.
LEMMA SearchFacts ==
    ASSUME ListInv, NEW k \in Parts
    PROVE  /\ IsHist(Partition(hist, k)) /\ Listing(Partition(hist, k), entries[k])
           /\ ShapeOf(Partition(hist, k), entries[k], calls[k], state[k], next[k], prev[k],
                      entry[k], linearized[k])
           /\ DOMAIN longest[k] = 1 .. Len(Partition(hist, k))
BY HistIs, Zenon DEF ListInv, Setting, Shape

LEMMA ListLinearize ==
    ASSUME ListInv, NEW k \in Parts, Linearize(k)
    PROVE  /\ ListInv'
           /\ Len(calls[k]) \in Nat /\ Len(calls'[k]) = Len(calls[k]) + 1
           /\ calls'[k][Len(calls'[k])].entry = entry[k]
           /\ calls'[k][Len(calls'[k])].state = state[k]
           /\ Agree(calls[k], calls'[k], Len(calls[k]))
           /\ next'[k][0] # Nil =>
                \A n \in Left(entries[k], calls'[k], Len(calls'[k])) : ~(n < next'[k][0])
           /\ DoneAt(entries[k], calls'[k], Len(calls'[k])) =
                DoneAt(entries[k], calls[k], Len(calls[k])) \union {entries[k][entry[k]].id}
<1> DEFINE h == Partition(hist, k)
           e == entries[k]
           c == calls[k]
           a == entry[k]
           d == Pushed(c, a, state[k])
           n2 == LiftNext(next[k], prev[k], a, Return(e, a))
           p2 == LiftPrev(next[k], prev[k], a, Return(e, a))
<1>1. /\ IsHist(h) /\ Listing(h, e) /\ ShapeOf(h, e, c, state[k], next[k], prev[k], a, linearized[k])
      /\ DOMAIN longest[k] = 1 .. Len(h)
  BY SearchFacts, Zenon
<1>2. Keyed
  BY DEF ListInv
<1>3. /\ Keyed' /\ Local(k) /\ next[k][0] # Nil /\ e[a].call /\ Accepts(state[k], e[a].op)
      /\ calls'[k] = d /\ state'[k] = NewState(state[k], e[a].op)
      /\ linearized'[k] = Set(linearized[k], e[a].id)
      /\ entry'[k] = next'[k][0] /\ longest' = longest
      /\ next[k][a] # Nil => next'[k] = n2 /\ prev'[k] = p2
  BY <1>2, LinearizeDoes, Zenon
<1>4. d = Pushed(c, a, state[k]) /\ n2 = LiftNext(next[k], prev[k], a, Return(e, a))
      /\ p2 = LiftPrev(next[k], prev[k], a, Return(e, a))
  OBVIOUS
<1> HIDE DEF h, e, c, a, d, n2, p2
<1>5. /\ ShapeOf(h, e, d, NewState(state[k], e[a].op), n2, p2, n2[0], Set(linearized[k], e[a].id))
      /\ next[k][a] # Nil /\ Len(c) \in Nat /\ Len(d) = Len(c) + 1 /\ d[Len(d)].entry = a
      /\ d[Len(d)].state = state[k] /\ Agree(c, d, Len(c))
      /\ n2[0] # Nil => \A n \in Left(e, d, Len(d)) : ~(n < n2[0])
      /\ DoneAt(e, d, Len(d)) = DoneAt(e, c, Len(c)) \union {e[a].id}
  <2>1. AfterPush(h, e, c, state[k], next[k], a, linearized[k], d, n2, p2)
    BY <1>1, <1>3, <1>4, ShapePush, Zenon
  <2>. QED  BY <2>1, Zenon DEF AfterPush
<1>6. next'[k] = n2 /\ prev'[k] = p2
  BY <1>3, <1>5, Zenon
<1>7. hist' = hist /\ entries' = entries
  BY <1>3, Zenon DEF Local
<1>8. Shape(k)'
  <2>1. Partition(hist, k)' = Partition(hist, k)
    BY <1>7, Zenon
  <2>. QED  BY <1>1, <1>3, <1>5, <1>6, <1>7, <2>1, Zenon DEF Shape, h, e
<1>9. ListInv'
  BY <1>3, <1>8, ListLocal, Zenon
<1>. QED  BY <1>3, <1>5, <1>6, <1>9, Zenon DEF e, c, a

LEMMA ListSkip ==
    ASSUME ListInv, NEW k \in Parts, Skip(k)
    PROVE  /\ ListInv'
           /\ entry'[k] \in Left(entries[k], calls[k], Len(calls[k]))
           /\ \A n \in Left(entries[k], calls[k], Len(calls[k])) : n < entry'[k] => n <= entry[k]
<1> DEFINE h == Partition(hist, k)
           e == entries[k]
           c == calls[k]
           a == entry[k]
<1>1. /\ IsHist(h) /\ Listing(h, e) /\ ShapeOf(h, e, c, state[k], next[k], prev[k], a, linearized[k])
      /\ DOMAIN longest[k] = 1 .. Len(h)
  BY SearchFacts, Zenon
<1>2. Keyed
  BY DEF ListInv
<1>3. /\ Keyed' /\ Local(k) /\ next[k][0] # Nil /\ e[a].call /\ entry'[k] = next[k][a]
      /\ next' = next /\ prev' = prev /\ calls' = calls /\ state' = state
      /\ linearized' = linearized /\ longest' = longest
  BY <1>2, SkipDoes, Zenon
<1> HIDE DEF h, e, c, a
<1>4. /\ ShapeOf(h, e, c, state[k], next[k], prev[k], next[k][a], linearized[k])
      /\ next[k][a] \in Left(e, c, Len(c))
      /\ \A n \in Left(e, c, Len(c)) : n < next[k][a] => n <= a
  BY <1>1, <1>3, ShapeSkip
<1>5. hist' = hist /\ entries' = entries
  BY <1>3, Zenon DEF Local
<1>6. Shape(k)'
  <2>1. Partition(hist, k)' = Partition(hist, k)
    BY <1>5, Zenon
  <2>. QED  BY <1>1, <1>3, <1>4, <1>5, <2>1, Zenon DEF Shape, h, e, c
<1>7. ListInv'
  BY <1>3, <1>6, ListLocal, Zenon
<1>. QED  BY <1>3, <1>4, <1>7, Zenon DEF e, c, a

LEMMA ListBacktrack ==
    ASSUME ListInv, NEW k \in Parts, Backtrack(k)
    PROVE  LET a == calls[k][Len(calls[k])].entry
               d == calls'[k] IN
           /\ ListInv'
           /\ Len(calls[k]) \in Nat \ {0} /\ Len(d) = Len(calls[k]) - 1
           /\ Agree(calls[k], d, Len(d))
           /\ a \in Left(entries[k], d, Len(d)) /\ entry'[k] \in Left(entries[k], d, Len(d))
           /\ \A n \in Left(entries[k], d, Len(d)) : n < entry'[k] => n <= a
<1> DEFINE h == Partition(hist, k)
           e == entries[k]
           c == calls[k]
           a == c[Len(c)].entry
           d == Popped(c)
           n2 == UnliftNext(next[k], prev[k], a, Return(e, a))
           p2 == UnliftPrev(next[k], prev[k], a, Return(e, a))
<1>1. /\ IsHist(h) /\ Listing(h, e)
      /\ ShapeOf(h, e, c, state[k], next[k], prev[k], entry[k], linearized[k])
      /\ DOMAIN longest[k] = 1 .. Len(h)
  BY SearchFacts, Zenon
<1>2. Keyed
  BY DEF ListInv
<1>3. /\ Keyed' /\ Local(k) /\ c # <<>>
      /\ calls'[k] = d /\ state'[k] = c[Len(c)].state
      /\ linearized'[k] = Clear(linearized[k], e[a].id)
      /\ entry'[k] = next'[k][a]
      /\ longest'[k] = IF computeInfo THEN Longest(k, c) ELSE longest[k]
      /\ e[a].call /\ PutNext(next[k], prev[k], Return(e, a))[a] # Nil =>
            next'[k] = n2 /\ prev'[k] = p2
  BY <1>2, BacktrackDoes, Zenon
<1>4. DOMAIN longest'[k] = 1 .. Len(h)
  BY <1>1, <1>3, Zenon DEF Longest
<1>5. d = Popped(c) /\ n2 = UnliftNext(next[k], prev[k], a, Return(e, a))
      /\ p2 = UnliftPrev(next[k], prev[k], a, Return(e, a)) /\ a = c[Len(c)].entry
  OBVIOUS
<1> HIDE DEF h, e, c, a, d, n2, p2
<1>6. /\ ShapeOf(h, e, d, c[Len(c)].state, n2, p2, n2[a], Clear(linearized[k], e[a].id))
      /\ PutNext(next[k], prev[k], Return(e, a))[a] # Nil
      /\ Len(c) \in Nat \ {0} /\ Len(d) = Len(c) - 1 /\ Agree(c, d, Len(d))
      /\ a \in Left(e, d, Len(d)) /\ n2[a] \in Left(e, d, Len(d))
      /\ \A n \in Left(e, d, Len(d)) : n < n2[a] => n <= a
  <2>1. AfterPop(h, e, c, next[k], prev[k], a, linearized[k], d, n2, p2)
    BY <1>1, <1>3, <1>5, ShapePop, Zenon
  <2>. QED  BY <2>1, Zenon DEF AfterPop
<1>7. e[a].call
  <2>1. Len(c) \in 1 .. Len(c)
    BY <1>6
  <2>. QED  BY <1>1, <1>5, <2>1, Zenon DEF ShapeOf, Stack
<1>8. next'[k] = n2 /\ prev'[k] = p2
  BY <1>3, <1>6, <1>7, Zenon
<1>9. hist' = hist /\ entries' = entries
  BY <1>3, Zenon DEF Local
<1>10. Shape(k)'
  <2>1. Partition(hist, k)' = Partition(hist, k)
    BY <1>9, Zenon
  <2>. QED  BY <1>3, <1>4, <1>6, <1>8, <1>9, <2>1, Zenon DEF Shape, h, e
<1>11. ListInv'
  BY <1>3, <1>10, ListLocal, Zenon
<1>. QED  BY <1>3, <1>5, <1>6, <1>8, <1>11, Zenon DEF e, c

LEMMA ListEnd ==
    ASSUME ListInv, NEW k \in Parts, Fail(k) \/ Succeed(k) \/ Killed(k)
    PROVE  ListInv'
<1>1. Keyed
  BY DEF ListInv
<1>2. /\ Keyed' /\ Local(k)
      /\ next' = next /\ prev' = prev /\ entry' = entry /\ calls' = calls /\ state' = state
      /\ linearized' = linearized
      /\ longest' = longest \/ longest'[k] = [id \in DOMAIN longest[k] |-> Ids(k, calls[k])]
  BY <1>1, EndDoes, Zenon
<1>3. DOMAIN longest'[k] = DOMAIN longest[k]
  BY <1>2, Zenon
<1>4. hist' = hist /\ entries' = entries /\ Shape(k)
  BY <1>2, Zenon DEF Local, ListInv
<1>5. Shape(k)'
  <2>1. Partition(hist, k)' = Partition(hist, k)
    BY <1>4, Zenon
  <2>. QED  BY <1>2, <1>3, <1>4, <2>1, Zenon DEF Shape
<1>. QED  BY <1>2, <1>5, ListLocal, Zenon

\* A step that leaves all searches alone.
LEMMA ListSame ==
    ASSUME ListInv, hist' = hist, entries' = entries, next' = next, prev' = prev, entry' = entry,
           calls' = calls, state' = state, linearized' = linearized, cache' = cache,
           longest' = longest, answer' = answer
    PROVE  ListInv'
<1>1. Parts' = Parts /\ \A j : Partition(hist, j)' = Partition(hist, j)
  BY PartsKept, Zenon
<1>2. Setting' /\ Keyed'
  BY <1>1, Zenon DEF Setting, Keyed, ListInv
<1>3. \A j \in Parts : Shape(j)'
  BY ShapeIdle, Zenon DEF Idle, ListInv
<1>. QED  BY <1>1, <1>2, <1>3, Zenon DEF ListInv

\* Every step keeps the shape of every search.
LEMMA ListStep ==
    ASSUME ListInv, [Next]_vars
    PROVE  ListInv'
<1>1. ASSUME NEW k \in Parts, Linearize(k) PROVE ListInv'
  BY <1>1, ListLinearize, Zenon
<1>2. ASSUME NEW k \in Parts, Skip(k) PROVE ListInv'
  BY <1>2, ListSkip, Zenon
<1>3. ASSUME NEW k \in Parts, Backtrack(k) PROVE ListInv'
  BY <1>3, ListBacktrack, Zenon
<1>4. ASSUME NEW k \in Parts, Fail(k) \/ Succeed(k) \/ Killed(k) PROVE ListInv'
  BY <1>4, ListEnd, Zenon
<1>5. ASSUME (\E k \in Parts : Receive(k)) \/ Timeout \/ (\E k \in Parts : Collect(k))
      PROVE  ListInv'
  BY <1>5, ParallelDoes, ListSame, Zenon
<1>6. ASSUME UNCHANGED vars PROVE ListInv'
  BY <1>6, ListSame, Zenon DEF vars, args, searchVars
<1>. QED  BY <1>1, <1>2, <1>3, <1>4, <1>5, <1>6, Zenon DEF Next

LEMMA ListAlways == Spec => []ListInv
<1>1. Init => ListInv
  BY ListInit
<1>2. ListInv /\ [Next]_vars => ListInv'
  BY ListStep
<1>. QED  BY <1>1, <1>2, PTL DEF Spec

\* The neighbours of a list, as ListIntact has them.
LEMMA LinkedShown ==
    ASSUME NEW z \in Nat, NEW S \in SUBSET (1 .. z), NEW nx, NEW pv, Linked(S, nx, pv, z),
           NEW n \in S \union {0}
    PROVE  \/ nx[n] = Nil /\ \A m \in S : m <= n
           \/ /\ nx[n] \in S /\ nx[n] > n /\ pv[nx[n]] = n
              /\ \A m \in S : m <= n \/ m >= nx[n]
<1> DEFINE x == nx[n]
           y == pv[x]
<1>1. IsNext(S, n, x)
  BY Zenon DEF Linked
<1>2. x \in S => IsPrev(S, x, y)
  BY Zenon DEF Linked
<1> HIDE DEF x, y
<1>3. ASSUME x \in S, n < x, \A m \in S : m <= n \/ m >= x PROVE y = n /\ x > n
  <2>1. y \in S \union {0} /\ y < x /\ \A m \in S : m <= y \/ m >= x
    BY <1>2, <1>3, Zenon DEF IsPrev
  <2>2. n \in Nat /\ x \in Nat /\ y \in Nat
    BY <1>3, <2>1
  <2>3. y <= n
    BY <1>3, <2>1, <2>2
  <2>4. n <= y
    BY <1>3, <2>1, <2>2
  <2>. QED  BY <1>3, <2>2, <2>3, <2>4
<1>4. CASE x = Nil /\ \A m \in S : m <= n
  BY <1>4, Zenon DEF x
<1>5. CASE x \in S /\ n < x /\ \A m \in S : m <= n \/ m >= x
  <2>1. y = n /\ x > n
    BY <1>3, <1>5, Zenon
  <2>. QED  BY <1>5, <2>1, Zenon DEF x, y
<1>. QED  BY <1>1, <1>4, <1>5, Zenon DEF IsNext

\* The shape of the searches is what ListIntact says.
LEMMA ListShown ==
    ASSUME ListInv
    PROVE  ListIntact
<1> SUFFICES ASSUME NEW k \in Parts
             PROVE  LET done == {Ids(k, calls[k])[i] : i \in DOMAIN calls[k]}
                        left == {n \in DOMAIN entries[k] : entries[k][n].id \notin done} IN
                    /\ \A n \in left \union {0} :
                        \/ next[k][n] = Nil /\ \A m \in left : m <= n
                        \/ /\ next[k][n] \in left /\ next[k][n] > n /\ prev[k][next[k][n]] = n
                           /\ \A m \in left : m <= n \/ m >= next[k][n]
                    /\ \A id \in DOMAIN longest[k] :
                        id \in done <=> \E c \in DOMAIN linearized[k] :
                                            id - 1 \in {c * Word + bit : bit \in linearized[k][c]}
  BY Zenon DEF ListIntact
<1> DEFINE h == Partition(hist, k)
           e == entries[k]
           c == calls[k]
           done == {Ids(k, calls[k])[i] : i \in DOMAIN calls[k]}
           left == {n \in DOMAIN entries[k] : entries[k][n].id \notin done}
<1>1. /\ IsHist(h) /\ Listing(h, e)
      /\ ShapeOf(h, e, c, state[k], next[k], prev[k], entry[k], linearized[k])
      /\ DOMAIN longest[k] = 1 .. Len(h)
  BY SearchFacts, Zenon
<1>2. DOMAIN c = 1 .. Len(c)
  BY <1>1, SeqIs, Zenon DEF ShapeOf, Stack
<1>3. \A i \in DOMAIN c : Ids(k, c)[i] = e[c[i].entry].id
  BY Zenon DEF Ids
<1>4. done = DoneAt(e, c, Len(c))
  BY <1>2, <1>3, Zenon DEF DoneAt
<1>5. left = Left(e, c, Len(c))
  BY <1>4, Zenon DEF Left
<1> HIDE DEF h, done, left
<1>6. Len(e) \in Nat /\ left \in SUBSET (1 .. Len(e))
  BY <1>1, <1>5, LeftType, Zenon
<1>7. Linked(left, next[k], prev[k], Len(e))
  BY <1>1, <1>5, Zenon DEF ShapeOf, List
<1>8. ASSUME NEW n \in left \union {0}
      PROVE  \/ next[k][n] = Nil /\ \A m \in left : m <= n
             \/ /\ next[k][n] \in left /\ next[k][n] > n /\ prev[k][next[k][n]] = n
                /\ \A m \in left : m <= n \/ m >= next[k][n]
  BY <1>6, <1>7, LinkedShown, Zenon
<1>9. ASSUME NEW id \in DOMAIN longest[k]
      PROVE  id \in done <=> \E w \in DOMAIN linearized[k] :
                                id - 1 \in {w * Word + bit : bit \in linearized[k][w]}
  <2>1. id \in 1 .. Len(h) /\ Len(h) \in Nat
    BY <1>1, Zenon DEF IsHist
  <2>2. BitsType(linearized[k], Len(h)) /\ Ones(linearized[k], Len(h)) = done
    BY <1>1, <1>4, Zenon DEF ShapeOf
  <2>3. id \in Ones(linearized[k], Len(h)) <=>
           \E w \in DOMAIN linearized[k] : id - 1 \in {w * Word + bit : bit \in linearized[k][w]}
    BY <2>1, <2>2, OnesShown
  <2>. QED  BY <2>2, <2>3, Zenon
<1>. QED  BY <1>8, <1>9, Zenon DEF done, left

\* The linked list is the history without what is linearized and the bitset says what
\* that is, in every reachable state: lift and unlift undo each other.
THEOREM ListIntactHolds == Spec => []ListIntact
<1>1. ListInv => ListIntact
  BY ListShown
<1>. QED  BY <1>1, ListAlways, PTL

----------------------------------------------------------------------------
(* The search has tried what it has passed *)

\* The node that the search has come to on the j-th level.
Bound(c, en, j) == IF j = Len(c) THEN en ELSE c[j + 1].entry

\* What is left before the node bound was tried after D and st.
Tried(h, e, D, st, S, bound, info, lg) ==
    \A n \in S : n < bound /\ Accepts(st, e[n].op) =>
        Explored(h, D \union {e[n].id}, NewState(st, e[n].op), info, lg)

\* On every level of the stack.
AllTried(h, e, c, st, nx, en, info, lg) ==
    \A j \in 0 .. Len(c) :
        (j = Len(c) => nx[0] # Nil) =>
            Tried(h, e, DoneAt(e, c, j), StateAt(c, st, j), Left(e, c, j), Bound(c, en, j), info, lg)

\* The operations D and the state s are those of a level of the stack.
OnStack(e, c, st, D, s) == \E j \in 1 .. Len(c) : D = DoneAt(e, c, j) /\ s = StateAt(c, st, j)

\* What is in the cache was explored or is being explored.
CacheTried(h, e, c, st, ch, info, lg) ==
    \A p \in ch : \E b, s :
        /\ p = <<b, s>> /\ BitsType(b, Len(h))
        /\ Explored(h, Ones(b, Len(h)), s, info, lg) \/ OnStack(e, c, st, Ones(b, Len(h)), s)

\* p is a way to begin that has operation i in it.
Has(h, p, i) ==
    \E L \in Nat : \E f : /\ IsExt(h, {}, InitState, L, p, f) /\ Len(p) = L
                          /\ \E q \in 1 .. L : p[q] = i

LongestReal(h, lg) == \A i \in DOMAIN h : lg[i] # Nil => Has(h, lg[i], i)

SearchOf(k) ==
    LET h == Partition(hist, k) IN
    /\ answer[k] # "true" =>
          /\ AllTried(h, entries[k], calls[k], state[k], next[k], entry[k], computeInfo, longest[k])
          /\ CacheTried(h, entries[k], calls[k], state[k], cache[k], computeInfo, longest[k])
          /\ LongestReal(h, longest[k])
    /\ answer[k] = "false" /\ ~kill => Explored(h, {}, InitState, computeInfo, longest[k])
    /\ answer[k] = "true" => Complete(h)

SearchInv == \A k \in Parts : SearchOf(k)

\* As many operations are done as there are calls on the stack.
LEMMA StackDone ==
    ASSUME NEW h, NEW e, Listing(h, e), NEW c, NEW st, Stack(e, c, st), NEW j \in 0 .. Len(c)
    PROVE  /\ IsFiniteSet(DoneAt(e, c, j)) /\ Cardinality(DoneAt(e, c, j)) = j
           /\ DoneAt(e, c, j) \subseteq DOMAIN h
           /\ \A i \in 1 .. Len(c) : e[c[i].entry].id \in DOMAIN h
           /\ \A a, b \in 1 .. Len(c) : e[c[a].entry].id = e[c[b].entry].id => a = b
<1> DEFINE m == Len(c)
           g == [i \in 1 .. j |-> e[c[i].entry].id]
<1>1. m \in Nat
  BY SeqIs, Zenon DEF Stack
<1>2. j \in Nat /\ \A i \in 1 .. j : i \in 1 .. m
  BY <1>1
<1>3. \A i \in 1 .. m : e[c[i].entry].id \in DOMAIN h
  BY Zenon DEF Stack, Listing
<1>4. ASSUME NEW a \in 1 .. m, NEW b \in 1 .. m, a < b PROVE e[c[a].entry].id # e[c[b].entry].id
  <2>1. a \in 1 .. b - 1
    BY <1>1, <1>4
  <2>2. e[c[a].entry].id \in DoneAt(e, c, b - 1)
    BY <2>1, Zenon DEF DoneAt
  <2>. QED  BY <2>2, Zenon DEF Stack
<1>5. \A a, b \in 1 .. m : a = b \/ a < b \/ b < a
  BY <1>1
<1>6. \A a, b \in 1 .. m : e[c[a].entry].id = e[c[b].entry].id => a = b
  BY <1>4, <1>5, Zenon
<1>7. g \in Bijection(1 .. j, DoneAt(e, c, j))
  <2>1. g \in [1 .. j -> DoneAt(e, c, j)]
    BY Zenon DEF DoneAt
  <2>2. \A a, b \in 1 .. j : g[a] = g[b] => a = b
    BY <1>2, <1>6, Zenon
  <2>3. \A t \in DoneAt(e, c, j) : \E a \in 1 .. j : g[a] = t
    BY Zenon DEF DoneAt
  <2>. QED  BY <2>1, <2>2, <2>3, BijectionIs, Zenon
<1>8. IsFiniteSet(1 .. j) /\ Cardinality(1 .. j) = j
  <2>1. IsFiniteSet(1 .. j) /\ Cardinality(1 .. j) = IF 1 > j THEN 0 ELSE j - 1 + 1
    BY <1>2, FS_Interval
  <2>. QED  BY <1>2, <2>1
<1>9. IsFiniteSet(DoneAt(e, c, j)) /\ Cardinality(DoneAt(e, c, j)) = j
  BY <1>7, <1>8, FS_Bijection, Zenon DEF ExistsBijection
<1>10. DoneAt(e, c, j) \subseteq DOMAIN h
  BY <1>2, <1>3, Zenon DEF DoneAt
<1>. QED  BY <1>3, <1>6, <1>9, <1>10, Zenon

\* An operation whose time allows it next has its call before the first return.
LEMMA ReadyBefore ==
    ASSUME NEW h, IsHist(h), NEW e, Listing(h, e), NEW c, NEW j, NEW r \in Left(e, c, j), ~e[r].call,
           NEW x \in DOMAIN h, x \notin DoneAt(e, c, j), Ready(h, DoneAt(e, c, j), x)
    PROVE  \E n \in Left(e, c, j) : n < r /\ e[n].id = x /\ e[n].op = h[x].op
<1>1. PICK n \in DOMAIN e : e[n].id = x /\ e[n].call
  BY Zenon DEF Listing
<1>2. n \in Left(e, c, j) /\ e[n].op = h[x].op /\ n # r
  BY <1>1, Zenon DEF Left, Listing
<1>3. r \in DOMAIN e /\ e[r].id \in DOMAIN h /\ e[r].id \notin DoneAt(e, c, j)
  BY Zenon DEF Left, Listing
<1>4. ~(r < n)
  BY <1>1, <1>3, ListingOrder, Zenon DEF Ready
<1>5. n < r
  <2>1. n \in Nat /\ r \in Nat
    <3>1. DOMAIN e = 1 .. Len(e)
      BY DEF Listing
    <3>. QED  BY <1>3, <3>1
  <2>. QED  BY <1>2, <1>4, <2>1
<1>. QED  BY <1>1, <1>2, <1>5, Zenon

\* lg2 has all that lg has.
Grows(h, lg, lg2) == \A i \in DOMAIN h : \A n \in Nat : Long(lg, i, n) => Long(lg2, i, n)

\* What has been tried stays tried when longest only grows.
LEMMA TriedMore ==
    ASSUME NEW h, NEW e, NEW D, IsFiniteSet(D), NEW st, NEW S, NEW bound, NEW info, NEW lg, NEW lg2,
           Tried(h, e, D, st, S, bound, info, lg), info => Grows(h, lg, lg2)
    PROVE  Tried(h, e, D, st, S, bound, info, lg2)
<1> SUFFICES ASSUME NEW n \in S, n < bound, Accepts(st, e[n].op)
             PROVE  Explored(h, D \union {e[n].id}, NewState(st, e[n].op), info, lg2)
  BY Zenon DEF Tried
<1>1. IsFiniteSet(D \union {e[n].id})
  BY FS_AddElement
<1>2. Explored(h, D \union {e[n].id}, NewState(st, e[n].op), info, lg)
  BY Zenon DEF Tried
<1>. QED  BY <1>1, <1>2, ExploredMore, Zenon DEF Grows

\* lg has something of length m for all operations in D.
AllLong(lg, D, m) == \A i \in D : Long(lg, i, m)

\* When the search has come to a return, it has explored all that follows the stack.
LEMMA ExploredTop ==
    ASSUME NEW h, IsHist(h), NEW e, Listing(h, e), NEW c, NEW st, Stack(e, c, st),
           NEW r \in Left(e, c, Len(c)), ~e[r].call, NEW info, NEW lg,
           Tried(h, e, DoneAt(e, c, Len(c)), st, Left(e, c, Len(c)), r, info, lg),
           info => AllLong(lg, DoneAt(e, c, Len(c)), Len(c))
    PROVE  Explored(h, DoneAt(e, c, Len(c)), st, info, lg)
<1> DEFINE m == Len(c)
           D == DoneAt(e, c, m)
<1>1. m \in 0 .. m
  <2>1. m \in Nat
    BY SeqIs, Zenon DEF Stack
  <2>. QED  BY <2>1
<1>2. IsFiniteSet(D) /\ Cardinality(D) = m
  BY <1>1, StackDone
<1>3. ASSUME NEW x \in DOMAIN h, x \notin D, Ready(h, D, x), Accepts(st, h[x].op)
      PROVE  Explored(h, D \union {x}, NewState(st, h[x].op), info, lg)
  <2>1. \E n \in Left(e, c, m) : n < r /\ e[n].id = x /\ e[n].op = h[x].op
    BY <1>3, ReadyBefore
  <2>. QED  BY <1>3, <2>1, Zenon DEF Tried
<1>4. \E i \in DOMAIN h : i \notin D
  BY Zenon DEF Left, Listing
<1>5. info => \A i \in DOMAIN h : i \in D => Long(lg, i, Cardinality(D))
  BY <1>2, Zenon DEF AllLong
<1> HIDE DEF D
<1>6. Explored(h, D, st, info, lg)
  BY <1>2, <1>3, <1>4, <1>5, ExploredUp
<1>. QED  BY <1>6 DEF D

\* The stack is itself a way to begin: its ids, and its states.
IdsOf(e, c) == [i \in DOMAIN c |-> e[c[i].entry].id]

StatesOf(c, st) == [j \in 0 .. Len(c) |-> StateAt(c, st, j)]

Covers(t, m, D) == \A i : i \in D <=> \E p \in 1 .. m : t[p] = i

\* The stack is an order of effects that could have been.
LEMMA StackExt ==
    ASSUME NEW h, IsHist(h), NEW e, Listing(h, e), NEW c, NEW st, Stack(e, c, st)
    PROVE  /\ Len(c) \in Nat /\ Len(IdsOf(e, c)) = Len(c)
           /\ IsExt(h, {}, InitState, Len(c), IdsOf(e, c), StatesOf(c, st))
           /\ Covers(IdsOf(e, c), Len(c), DoneAt(e, c, Len(c)))
<1> DEFINE m == Len(c)
           t == IdsOf(e, c)
           f == [j \in 0 .. m |-> StateAt(c, st, j)]
<1>1. m \in Nat /\ DOMAIN c = 1 .. m
  BY SeqIs, Zenon DEF Stack
<1>2. m \in 0 .. m /\ 0 \in 0 .. m
  BY <1>1
<1>3. /\ \A i \in 1 .. m : e[c[i].entry].id \in DOMAIN h
      /\ \A a, b \in 1 .. m : e[c[a].entry].id = e[c[b].entry].id => a = b
  BY <1>2, StackDone
<1>4. \A p \in 1 .. m : t[p] = e[c[p].entry].id
  BY <1>1, Zenon DEF IdsOf
<1>5. t \in [1 .. m -> DOMAIN h]
  BY <1>1, <1>3, Zenon DEF IdsOf
<1> HIDE DEF t
<1>6. Len(t) = m
  BY <1>1, <1>5, LenIs
<1>7. f[0] = InitState
  BY <1>2, Zenon DEF Stack
<1>8. ASSUME NEW p \in 1 .. m
      PROVE  /\ t[p] \notin {}
             /\ \A q \in 1 .. m : t[p] = t[q] => p = q
             /\ \A j \in DOMAIN h :
                    Before(h, j, t[p]) => j \in {} \/ \E q \in 1 .. p - 1 : t[q] = j
             /\ Accepts(f[p - 1], h[t[p]].op)
             /\ f[p] = NewState(f[p - 1], h[t[p]].op)
  <2>1. p \in 0 .. m /\ p - 1 \in 0 .. m /\ p - 1 # m /\ (p - 1) + 1 = p
    BY <1>1
  <2>2. f[p] = StateAt(c, st, p) /\ f[p - 1] = c[p].state
    BY <2>1, Zenon DEF StateAt
  <2> DEFINE a == c[p].entry
  <2>0. a \in DOMAIN e /\ e[a].call
    BY Zenon DEF Stack
  <2>3. e[a].id = t[p] /\ e[a].op = h[t[p]].op
    <3>1. e[a].id = t[p]
      BY <1>4, Zenon
    <3>2. e[a].op = h[e[a].id].op
      BY <2>0, Zenon DEF Listing
    <3> HIDE DEF a
    <3>. QED  BY <3>1, <3>2, Zenon
  <2>4. ASSUME NEW j \in DOMAIN h, Before(h, j, t[p]) PROVE \E q \in 1 .. p - 1 : t[q] = j
    <3>1. PICK n \in DOMAIN e : e[n].id = j /\ ~e[n].call
      BY Zenon DEF Listing
    <3>2. n < a
      <4> HIDE DEF a
      <4>1. Before(h, e[n].id, e[a].id)
        BY <2>3, <2>4, <3>1, Zenon
      <4>. QED  BY <2>0, <3>1, <4>1, ListingOrder, Zenon
    <3>3. n \notin Left(e, c, p - 1)
      BY <3>1, <3>2, Zenon DEF Stack
    <3>4. j \in DoneAt(e, c, p - 1)
      BY <3>1, <3>3, Zenon DEF Left
    <3>5. \A q \in 1 .. p - 1 : q \in 1 .. m
      BY <1>1
    <3>. QED  BY <1>4, <3>4, <3>5, Zenon DEF DoneAt
  <2>5. Accepts(f[p - 1], h[t[p]].op) /\ f[p] = NewState(f[p - 1], h[t[p]].op)
    <3>1. Accepts(c[p].state, e[a].op) /\ StateAt(c, st, p) = NewState(c[p].state, e[a].op)
      BY Zenon DEF Stack
    <3> HIDE DEF f, a
    <3>. QED  BY <2>2, <2>3, <3>1, Zenon
  <2>. QED  BY <1>3, <1>4, <2>4, <2>5, Zenon
<1>9. IsExt(h, {}, InitState, m, t, f)
  <2> HIDE DEF f
  <2>. QED  BY <1>5, <1>7, <1>8, Zenon DEF IsExt
<1>10. \A i : i \in DoneAt(e, c, m) <=> \E p \in 1 .. m : t[p] = i
  BY <1>4, Zenon DEF DoneAt
<1>. QED  BY <1>1, <1>6, <1>9, <1>10, Zenon DEF t, StatesOf, Covers

\* d is the stack c with the call a pushed in the state st.
OneMore(c, d, a, st) ==
    /\ Len(c) \in Nat /\ Len(d) = Len(c) + 1 /\ Agree(c, d, Len(c))
    /\ d[Len(d)].entry = a /\ d[Len(d)].state = st

SameLevel(e, c, st, a, d, s, x, j) ==
    /\ DoneAt(e, d, j) = DoneAt(e, c, j) /\ Left(e, d, j) = Left(e, c, j)
    /\ StateAt(d, s, j) = StateAt(c, st, j) /\ Bound(d, x, j) = Bound(c, a, j)

\* It changes nothing on the levels that c has.
LEMMA Levels ==
    ASSUME NEW e, NEW c, NEW st, NEW d, NEW s, NEW a, NEW x, OneMore(c, d, a, st),
           NEW j \in 0 .. Len(c)
    PROVE  SameLevel(e, c, st, a, d, s, x, j)
<1> DEFINE m == Len(c)
           G == StateAt(d, s, j) = StateAt(c, st, j) /\ Bound(d, x, j) = Bound(c, a, j)
<1>0. /\ m \in Nat /\ Len(d) = m + 1 /\ Agree(c, d, m)
      /\ d[Len(d)].entry = a /\ d[Len(d)].state = st
  BY Zenon DEF OneMore
<1>1. DoneAt(e, d, j) = DoneAt(e, c, j) /\ Left(e, d, j) = Left(e, c, j)
  BY <1>0, SameDone, Zenon
<1>2. j # Len(d) /\ j \in 0 .. Len(d) /\ (j = m => j + 1 = Len(d)) /\ (j # m => j + 1 \in 1 .. m)
  BY <1>0
<1>3. ASSUME j = m PROVE G
  BY <1>0, <1>2, <1>3, Zenon DEF StateAt, Bound
<1>4. ASSUME j # m PROVE G
  <2>1. d[j + 1] = c[j + 1]
    BY <1>0, <1>2, <1>4, Zenon DEF Agree
  <2>. QED  BY <1>2, <1>4, <2>1, Zenon DEF StateAt, Bound
<1>. QED  BY <1>1, <1>3, <1>4, Zenon DEF SameLevel

\* Linearize: nothing has been passed on the new level.
LEMMA TriedPush ==
    ASSUME NEW h, NEW e, NEW c, NEW st, NEW d, NEW s, NEW a, NEW nx, NEW n2, NEW info, NEW lg,
           OneMore(c, d, a, st), nx[0] # Nil,
           n2[0] # Nil => \A n \in Left(e, d, Len(d)) : ~(n < n2[0]),
           AllTried(h, e, c, st, nx, a, info, lg)
    PROVE  AllTried(h, e, d, s, n2, n2[0], info, lg)
<1> DEFINE x == n2[0]
           T(j) == Tried(h, e, DoneAt(e, d, j), StateAt(d, s, j), Left(e, d, j), Bound(d, x, j), info, lg)
<1> SUFFICES ASSUME NEW j \in 0 .. Len(d), j = Len(d) => x # Nil PROVE T(j)
  BY Zenon DEF AllTried
<1>1. CASE j = Len(d)
  <2>1. Bound(d, x, j) = x
    BY <1>1, Zenon DEF Bound
  <2> HIDE DEF x
  <2>2. \A n \in Left(e, d, j) : ~(n < x)
    BY <1>1, Zenon DEF x
  <2>. QED  BY <2>1, <2>2, Zenon DEF Tried
<1>2. CASE j # Len(d)
  <2>1. j \in 0 .. Len(c)
    BY <1>2 DEF OneMore
  <2>2. SameLevel(e, c, st, a, d, s, x, j)
    BY <2>1, Levels, Zenon
  <2>3. Tried(h, e, DoneAt(e, c, j), StateAt(c, st, j), Left(e, c, j), Bound(c, a, j), info, lg)
    BY <2>1, Zenon DEF AllTried
  <2>. QED  BY <2>2, <2>3, Zenon DEF SameLevel
<1>. QED  BY <1>1, <1>2, Zenon

\* A cache entry for the configuration on the stack.
LEMMA CachePush ==
    ASSUME NEW h, NEW e, NEW c, NEW st, NEW d, NEW s, NEW a, NEW ch, NEW b, NEW info, NEW lg,
           OneMore(c, d, a, st),
           BitsType(b, Len(h)), Ones(b, Len(h)) = DoneAt(e, d, Len(d)),
           CacheTried(h, e, c, st, ch, info, lg)
    PROVE  CacheTried(h, e, d, s, ch \union {<<b, s>>}, info, lg)
<1> DEFINE N == Len(h)
<1>1. ASSUME NEW D, NEW u, OnStack(e, c, st, D, u) PROVE OnStack(e, d, s, D, u)
  <2>1. PICK j \in 1 .. Len(c) : D = DoneAt(e, c, j) /\ u = StateAt(c, st, j)
    BY <1>1, Zenon DEF OnStack
  <2>2. j \in 0 .. Len(c) /\ j \in 1 .. Len(d)
    BY DEF OneMore
  <2>3. SameLevel(e, c, st, a, d, s, a, j)
    BY <2>2, Levels, Zenon
  <2>. QED  BY <2>1, <2>2, <2>3, Zenon DEF OnStack, SameLevel
<1>2. OnStack(e, d, s, Ones(b, N), s)
  <2>1. Len(d) \in 1 .. Len(d)
    BY DEF OneMore
  <2>2. StateAt(d, s, Len(d)) = s
    BY Zenon DEF StateAt
  <2>. QED  BY <2>1, <2>2, Zenon DEF OnStack
<1> SUFFICES ASSUME NEW p \in ch \union {<<b, s>>}
             PROVE  \E v, u :
                       /\ p = <<v, u>> /\ BitsType(v, N)
                       /\ Explored(h, Ones(v, N), u, info, lg) \/ OnStack(e, d, s, Ones(v, N), u)
  BY Zenon DEF CacheTried
<1>3. CASE p = <<b, s>>
  BY <1>2, <1>3, Zenon
<1>4. CASE p \in ch
  BY <1>1, <1>4, Zenon DEF CacheTried
<1>. QED  BY <1>3, <1>4, Zenon

\* What is in the cache and not on the stack was explored.
LEMMA CacheHit ==
    ASSUME NEW h, IsHist(h), NEW e, NEW c, NEW st, Len(c) \in Nat, NEW b,
           BitsType(b, Len(h)), Ones(b, Len(h)) = DoneAt(e, c, Len(c)),
           NEW i \in 1 .. Len(h), i \notin DoneAt(e, c, Len(c)),
           NEW ch, NEW info, NEW lg, CacheTried(h, e, c, st, ch, info, lg),
           NEW s, <<Set(b, i), s>> \in ch
    PROVE  Explored(h, DoneAt(e, c, Len(c)) \union {i}, s, info, lg)
<1> DEFINE N == Len(h)
           D == DoneAt(e, c, Len(c)) \union {i}
<1>1. Ones(Set(b, i), N) = D
  <2>1. N \in Nat
    BY DEF IsHist
  <2>. QED  BY <2>1, SetBits
<1>2. PICK v, u : /\ <<Set(b, i), s>> = <<v, u>>
                  /\ Explored(h, Ones(v, N), u, info, lg) \/ OnStack(e, c, st, Ones(v, N), u)
  BY Zenon DEF CacheTried
<1>3. v = Set(b, i) /\ u = s
  BY <1>2, Zenon
<1>4. ~OnStack(e, c, st, D, s)
  <2> SUFFICES ASSUME NEW j \in 1 .. Len(c), D = DoneAt(e, c, j) PROVE FALSE
    BY Zenon DEF OnStack
  <2>1. j \in 0 .. Len(c)
    OBVIOUS
  <2>2. DoneAt(e, c, j) \subseteq DoneAt(e, c, Len(c))
    BY <2>1, DoneGrows, Zenon
  <2>. QED  BY <2>2, Zenon
<1>. QED  BY <1>1, <1>2, <1>3, <1>4, Zenon

\* Skip: the call that was looked at is tried now, or cannot come next.
LEMMA TriedSkip ==
    ASSUME NEW h, NEW e, NEW c, NEW st, NEW a, NEW x, NEW nx, NEW info, NEW lg,
           nx[0] # Nil, a \in Nat, Left(e, c, Len(c)) \subseteq Nat,
           \A n \in Left(e, c, Len(c)) : n < x => n <= a,
           Accepts(st, e[a].op) =>
               Explored(h, DoneAt(e, c, Len(c)) \union {e[a].id}, NewState(st, e[a].op), info, lg),
           AllTried(h, e, c, st, nx, a, info, lg), Len(c) \in Nat
    PROVE  AllTried(h, e, c, st, nx, x, info, lg)
<1> DEFINE m == Len(c)
           T(j, y) == Tried(h, e, DoneAt(e, c, j), StateAt(c, st, j), Left(e, c, j), y, info, lg)
<1> SUFFICES ASSUME NEW j \in 0 .. m PROVE T(j, Bound(c, x, j))
  BY Zenon DEF AllTried
<1>1. T(j, Bound(c, a, j))
  BY Zenon DEF AllTried
<1>2. CASE j # m
  BY <1>1, <1>2, Zenon DEF Bound
<1>3. CASE j = m
  <2>1. StateAt(c, st, j) = st /\ Bound(c, x, j) = x /\ Bound(c, a, j) = a
    BY <1>3, Zenon DEF StateAt, Bound
  <2>2. ASSUME NEW n \in Left(e, c, m), n < x, Accepts(st, e[n].op)
        PROVE  Explored(h, DoneAt(e, c, m) \union {e[n].id}, NewState(st, e[n].op), info, lg)
    <3>1. n <= a /\ n \in Nat
      BY <2>2, Zenon
    <3>2. n = a \/ n < a
      BY <3>1
    <3>3. CASE n = a
      BY <2>2, <3>3, Zenon
    <3>4. CASE n < a
      BY <1>1, <1>3, <2>1, <2>2, <3>4, Zenon DEF Tried
    <3>. QED  BY <3>2, <3>3, <3>4, Zenon
  <2>. QED  BY <1>3, <2>1, <2>2, Zenon DEF Tried
<1>. QED  BY <1>2, <1>3, Zenon

\* Backtrack: the call that is taken back has been explored.
LEMMA TriedPop ==
    ASSUME NEW h, NEW e, NEW c, NEW st, NEW d, NEW s, NEW a, NEW x, NEW nx, NEW n2, NEW y,
           NEW info, NEW lg, NEW lg2,
           OneMore(d, c, a, s), nx[0] # Nil, a \in Nat, Left(e, d, Len(d)) \subseteq Nat,
           \A n \in Left(e, d, Len(d)) : n < x => n <= a,
           \A j \in 0 .. Len(d) : IsFiniteSet(DoneAt(e, d, j)),
           info => Grows(h, lg, lg2),
           Explored(h, DoneAt(e, d, Len(d)) \union {e[a].id}, NewState(s, e[a].op), info, lg2),
           AllTried(h, e, c, st, nx, y, info, lg)
    PROVE  AllTried(h, e, d, s, n2, x, info, lg2)
<1>0. Len(d) \in Nat
  BY Zenon DEF OneMore
<1>1. ASSUME NEW j \in 0 .. Len(d)
      PROVE  Tried(h, e, DoneAt(e, d, j), StateAt(d, s, j), Left(e, d, j), Bound(d, a, j), info, lg2)
  <2>1. j \in 0 .. Len(c) /\ j # Len(c)
    BY DEF OneMore
  <2>2. Tried(h, e, DoneAt(e, c, j), StateAt(c, st, j), Left(e, c, j), Bound(c, y, j), info, lg)
    BY <2>1, Zenon DEF AllTried
  <2>3. SameLevel(e, d, s, a, c, st, y, j)
    BY Levels, Zenon
  <2>4. Tried(h, e, DoneAt(e, d, j), StateAt(d, s, j), Left(e, d, j), Bound(d, a, j), info, lg)
    BY <2>2, <2>3, Zenon DEF SameLevel
  <2>. QED  BY <2>4, TriedMore, Zenon
<1>2. AllTried(h, e, d, s, nx, a, info, lg2)
  BY <1>1, Zenon DEF AllTried
<1>3. AllTried(h, e, d, s, nx, x, info, lg2)
  BY <1>0, <1>2, TriedSkip, Zenon
<1>. QED  BY <1>3, Zenon DEF AllTried

\* The configuration that is popped has been explored.
LEMMA CachePop ==
    ASSUME NEW h, IsHist(h), NEW e, NEW c, NEW st, NEW d, NEW s, NEW a, NEW ch,
           NEW info, NEW lg, NEW lg2,
           OneMore(d, c, a, s), info => Grows(h, lg, lg2),
           Explored(h, DoneAt(e, c, Len(c)), st, info, lg2),
           CacheTried(h, e, c, st, ch, info, lg)
    PROVE  CacheTried(h, e, d, s, ch, info, lg2)
<1> DEFINE N == Len(h)
           Fine(b, u) == Explored(h, Ones(b, N), u, info, lg2) \/ OnStack(e, d, s, Ones(b, N), u)
<1>1. ASSUME NEW b, NEW u, Explored(h, Ones(b, N), u, info, lg) PROVE Fine(b, u)
  <2>1. IsFiniteSet(Ones(b, N))
    <3>1. N \in Nat
      BY DEF IsHist
    <3>2. IsFiniteSet(1 .. N)
      BY <3>1, FS_Interval
    <3>3. Ones(b, N) \in SUBSET (1 .. N)
      BY Zenon DEF Ones
    <3>. QED  BY <3>2, <3>3, FS_Subset, Zenon
  <2>2. Explored(h, Ones(b, N), u, info, lg2)
    BY <1>1, <2>1, ExploredMore, Zenon DEF Grows
  <2>. QED  BY <2>2, Zenon
<1>2. ASSUME NEW b, NEW u, OnStack(e, c, st, Ones(b, N), u) PROVE Fine(b, u)
  <2>1. PICK j \in 1 .. Len(c) : Ones(b, N) = DoneAt(e, c, j) /\ u = StateAt(c, st, j)
    BY <1>2, Zenon DEF OnStack
  <2>2. CASE j = Len(c)
    BY <2>1, <2>2, Zenon DEF StateAt
  <2>3. CASE j # Len(c)
    <3>1. j \in 0 .. Len(d) /\ j \in 1 .. Len(d)
      BY <2>3 DEF OneMore
    <3>2. SameLevel(e, d, s, a, c, st, a, j)
      BY <3>1, Levels, Zenon
    <3>. QED  BY <2>1, <3>1, <3>2, Zenon DEF OnStack, SameLevel
  <2>. QED  BY <2>2, <2>3, Zenon
<1>. QED  BY <1>1, <1>2, Zenon DEF CacheTried

\* lg with t for those of its operations that have nothing as long.
Update(lg, c, t) ==
    [i \in DOMAIN lg |->
        IF (\E q \in DOMAIN c : t[q] = i) /\ (lg[i] = Nil \/ Len(c) > Len(lg[i])) THEN t ELSE lg[i]]

\* Updating longest with the stack loses no length.
LEMMA LongestGrows ==
    ASSUME NEW h, IsHist(h), NEW e, Listing(h, e), NEW c, NEW st, Stack(e, c, st),
           NEW lg, DOMAIN lg = 1 .. Len(h), LongestReal(h, lg)
    PROVE  LET lg2 == Update(lg, c, IdsOf(e, c)) IN
           /\ Grows(h, lg, lg2) /\ LongestReal(h, lg2)
           /\ AllLong(lg2, DoneAt(e, c, Len(c)), Len(c))
<1> DEFINE m == Len(c)
           t == IdsOf(e, c)
           f == StatesOf(c, st)
           lg2 == Update(lg, c, t)
<1>1. /\ m \in Nat /\ Len(t) = m /\ IsExt(h, {}, InitState, m, t, f)
      /\ Covers(t, m, DoneAt(e, c, m))
  BY StackExt, Zenon
<1>2. DOMAIN h = 1 .. Len(h) /\ DOMAIN c = 1 .. m
  BY SeqIs, Zenon DEF IsHist, Stack
<1> HIDE DEF f, t
<1>3. t # Nil
  <2>1. t \in [1 .. m -> DOMAIN h]
    BY <1>1, Zenon DEF IsExt
  <2>2. t \in Seq(Nat)
    BY <1>1, <1>2, <2>1
  <2>. QED  BY <2>2, NilAssumption
<1>4. ASSUME NEW i \in DOMAIN h PROVE lg[i] # Nil => Len(lg[i]) \in Nat
  BY Zenon DEF LongestReal, Has
<1>5. \A i \in DOMAIN h :
         \/ /\ lg2[i] = t /\ \E p \in 1 .. m : t[p] = i
            /\ lg[i] = Nil \/ m > Len(lg[i])
         \/ /\ lg2[i] = lg[i]
            /\ (\E p \in 1 .. m : t[p] = i) => lg[i] # Nil /\ ~(m > Len(lg[i]))
  BY <1>2, Zenon DEF Update
<1> HIDE DEF lg2
<1>6. Grows(h, lg, lg2)
  <2> SUFFICES ASSUME NEW i \in DOMAIN h, NEW n \in Nat, Long(lg, i, n) PROVE Long(lg2, i, n)
    BY Zenon DEF Grows
  <2>1. lg[i] # Nil /\ Len(lg[i]) >= n
    BY Zenon DEF Long
  <2>2. CASE lg2[i] = lg[i]
    BY <2>1, <2>2, Zenon DEF Long
  <2>3. CASE lg2[i] = t /\ m > Len(lg[i])
    <3>1. Len(lg[i]) \in Nat
      BY <1>4, <2>1, Zenon
    <3>2. Len(t) >= n
      BY <1>1, <2>1, <2>3, <3>1
    <3>. QED  BY <1>3, <2>3, <3>2, Zenon DEF Long
  <2>. QED  BY <1>5, <2>1, <2>2, <2>3, Zenon
<1>7. LongestReal(h, lg2)
  <2> SUFFICES ASSUME NEW i \in DOMAIN h, lg2[i] # Nil PROVE Has(h, lg2[i], i)
    BY Zenon DEF LongestReal
  <2>1. CASE lg2[i] = lg[i]
    BY <2>1, Zenon DEF LongestReal
  <2>2. CASE lg2[i] = t /\ \E p \in 1 .. m : t[p] = i
    BY <1>1, <2>2, Zenon DEF Has
  <2>. QED  BY <1>5, <2>1, <2>2, Zenon
<1>8. ASSUME NEW i \in DoneAt(e, c, m) PROVE Long(lg2, i, m)
  <2>1. PICK p \in 1 .. m : t[p] = i
    BY <1>1, Zenon DEF Covers
  <2>2. i \in DOMAIN h
    <3>1. t \in [1 .. m -> DOMAIN h]
      BY <1>1, Zenon DEF IsExt
    <3>. QED  BY <2>1, <3>1
  <2>3. CASE lg2[i] = t
    <3>1. Len(t) >= m
      BY <1>1
    <3>. QED  BY <1>3, <2>3, <3>1, Zenon DEF Long
  <2>4. CASE lg2[i] = lg[i] /\ lg[i] # Nil /\ ~(m > Len(lg[i]))
    <3>1. Len(lg[i]) \in Nat
      BY <1>4, <2>2, <2>4, Zenon
    <3>2. Len(lg[i]) >= m
      BY <1>1, <2>4, <3>1
    <3>. QED  BY <2>4, <3>2, Zenon DEF Long
  <2>. QED  BY <1>5, <2>1, <2>2, <2>3, <2>4, Zenon
<1>. QED  BY <1>6, <1>7, <1>8, Zenon DEF lg2, t, AllLong

----------------------------------------------------------------------------
(* The search is right *)

\* A step that leaves the search of j alone.
LEMMA SearchIdle ==
    ASSUME NEW j, SearchOf(j), hist' = hist, computeInfo' = computeInfo, entries' = entries,
           kill => kill', Idle(j)
    PROVE  SearchOf(j)'
<1>1. Partition(hist, j)' = Partition(hist, j)
  BY Zenon
<1>. QED  BY <1>1, Zenon DEF SearchOf, Idle

LEMMA SearchLocal ==
    ASSUME SearchInv, NEW k \in Parts, Local(k), SearchOf(k)'
    PROVE  SearchInv'
<1>1. Parts' = Parts
  BY PartsKept, Zenon DEF Local
<1>2. \A j \in Parts : j # k => SearchOf(j)'
  BY SearchIdle, Zenon DEF Local, SearchInv
<1>. QED  BY <1>1, <1>2, Zenon DEF SearchInv

\* What the invariant says of a search that goes on.
LEMMA SearchGoes ==
    ASSUME SearchInv, NEW k \in Parts, answer[k] = "none"
    PROVE  LET h == Partition(hist, k) IN
           /\ AllTried(h, entries[k], calls[k], state[k], next[k], entry[k], computeInfo, longest[k])
           /\ CacheTried(h, entries[k], calls[k], state[k], cache[k], computeInfo, longest[k])
           /\ LongestReal(h, longest[k])
<1>1. answer[k] # "true"
  OBVIOUS
<1>. QED  BY <1>1, Zenon DEF SearchInv, SearchOf

\* A call is linearized that the cache has not seen.
LEMMA SearchLinearize ==
    ASSUME ListInv, SearchInv, NEW k \in Parts, Linearize(k)
    PROVE  SearchInv'
<1> DEFINE h == Partition(hist, k)
           e == entries[k]
           c == calls[k]
           a == entry[k]
           st == state[k]
           d == calls'[k]
           s == NewState(st, e[a].op)
           b == Set(linearized[k], e[a].id)
           n2 == next'[k]
           lg == longest[k]
<1>1. /\ Local(k) /\ answer[k] = "none" /\ next[k][0] # Nil
      /\ state'[k] = s /\ linearized'[k] = b /\ cache'[k] = cache[k] \union {<<b, s>>}
      /\ entry'[k] = n2[0] /\ longest' = longest /\ answer' = answer
  <2>1. Keyed
    BY DEF ListInv
  <2>. QED  BY <2>1, LinearizeDoes, Zenon
<1>2. OneMore(c, d, a, st)
  BY ListLinearize, Zenon DEF OneMore
<1>3. n2[0] # Nil => \A n \in Left(e, d, Len(d)) : ~(n < n2[0])
  BY ListLinearize, Zenon
<1>4. /\ AllTried(h, e, c, st, next[k], a, computeInfo, lg)
      /\ CacheTried(h, e, c, st, cache[k], computeInfo, lg)
      /\ LongestReal(h, lg)
  BY <1>1, SearchGoes, Zenon
<1>5. hist' = hist /\ entries' = entries /\ computeInfo' = computeInfo
  BY <1>1, Zenon DEF Local
<1>6. Partition(hist, k)' = h
  BY <1>5, Zenon
<1>7. BitsType(b, Len(h)) /\ Ones(b, Len(h)) = DoneAt(e, d, Len(d))
  <2>1. ListInv'
    BY ListLinearize, Zenon
  <2>2. Shape(k)'
    <3>1. Parts' = Parts
      BY <1>5, PartsKept, Zenon
    <3>. QED  BY <2>1, <3>1, Zenon DEF ListInv
  <2>. QED  BY <1>1, <1>5, <1>6, <2>2, Zenon DEF Shape, ShapeOf
<1> HIDE DEF h, e, c, a, st, d, s, b, n2, lg
<1>8. AllTried(h, e, d, s, n2, n2[0], computeInfo, lg)
  BY <1>1, <1>2, <1>3, <1>4, TriedPush, Zenon
<1>9. CacheTried(h, e, d, s, cache[k] \union {<<b, s>>}, computeInfo, lg)
  BY <1>2, <1>4, <1>7, CachePush
<1>10. SearchOf(k)'
  <2>1. answer'[k] = "none" /\ answer'[k] # "true" /\ answer'[k] # "false"
    BY <1>1
  <2>. QED  BY <1>1, <1>4, <1>5, <1>6, <1>8, <1>9, <2>1, Zenon DEF SearchOf, e, d, n2, lg
<1>. QED  BY <1>1, <1>10, SearchLocal, Zenon

\* A call is passed over: the operation is not accepted, or the cache has seen it.
LEMMA SearchSkip ==
    ASSUME ListInv, SearchInv, NEW k \in Parts, Skip(k)
    PROVE  SearchInv'
<1> DEFINE h == Partition(hist, k)
           e == entries[k]
           c == calls[k]
           a == entry[k]
           st == state[k]
           s == NewState(st, e[a].op)
           b == linearized[k]
           x == entry'[k]
           lg == longest[k]
<1>1. /\ Local(k) /\ answer[k] = "none" /\ next[k][0] # Nil
      /\ Accepts(st, e[a].op) => <<Set(b, e[a].id), s>> \in cache[k]
      /\ next' = next /\ calls' = calls /\ state' = state /\ cache' = cache /\ longest' = longest
      /\ answer' = answer
  <2>1. Keyed
    BY DEF ListInv
  <2>. QED  BY <2>1, SkipDoes, Zenon
<1>2. \A n \in Left(e, c, Len(c)) : n < x => n <= a
  BY ListSkip, Zenon
<1>3. /\ AllTried(h, e, c, st, next[k], a, computeInfo, lg)
      /\ CacheTried(h, e, c, st, cache[k], computeInfo, lg)
      /\ LongestReal(h, lg)
  BY <1>1, SearchGoes, Zenon
<1>4. /\ IsHist(h) /\ Listing(h, e)
      /\ ShapeOf(h, e, c, st, next[k], prev[k], a, b)
  BY SearchFacts, Zenon
<1>5. hist' = hist /\ entries' = entries /\ computeInfo' = computeInfo
  BY <1>1, Zenon DEF Local
<1>6. Partition(hist, k)' = h
  BY <1>5, Zenon
<1> HIDE DEF h, e, c, a, st, s, b, x, lg
<1>7. /\ a \in Left(e, c, Len(c)) /\ Len(c) \in Nat
      /\ BitsType(b, Len(h)) /\ Ones(b, Len(h)) = DoneAt(e, c, Len(c))
  <2>1. a \in Left(e, c, Len(c))
    BY <1>1, <1>4, Zenon DEF ShapeOf, Looking
  <2>2. IsSeq(c)
    BY <1>4, Zenon DEF ShapeOf, Stack
  <2>. QED  BY <1>4, <2>1, <2>2, SeqIs, Zenon DEF ShapeOf
<1>8. a \in Nat /\ Left(e, c, Len(c)) \subseteq Nat
  <2>1. Len(e) \in Nat /\ Left(e, c, Len(c)) \in SUBSET (1 .. Len(e))
    BY <1>4, LeftType, Zenon
  <2>. QED  BY <1>7, <2>1
<1>9. ASSUME Accepts(st, e[a].op)
      PROVE  Explored(h, DoneAt(e, c, Len(c)) \union {e[a].id}, s, computeInfo, lg)
  <2> DEFINE i == e[a].id
  <2>1. i \in 1 .. Len(h) /\ i \notin DoneAt(e, c, Len(c))
    BY <1>4, <1>7, Zenon DEF Left, Listing, IsHist
  <2>2. <<Set(b, i), s>> \in cache[k]
    BY <1>1, <1>9, Zenon
  <2> HIDE DEF i
  <2>3. Explored(h, DoneAt(e, c, Len(c)) \union {i}, s, computeInfo, lg)
    BY <1>3, <1>4, <1>7, <2>1, <2>2, CacheHit
  <2>. QED  BY <2>3, Zenon DEF i
<1>10. AllTried(h, e, c, st, next[k], x, computeInfo, lg)
  BY <1>1, <1>2, <1>3, <1>7, <1>8, <1>9, TriedSkip, Zenon DEF s
<1>11. SearchOf(k)'
  <2>1. answer'[k] = "none" /\ answer'[k] # "true" /\ answer'[k] # "false"
    BY <1>1
  <2>. QED  BY <1>1, <1>3, <1>5, <1>6, <1>10, <2>1, Zenon DEF SearchOf, e, c, st, x, lg
<1>. QED  BY <1>1, <1>11, SearchLocal, Zenon

\* longest is updated for the operations of the stack.
LEMMA LongestIs ==
    ASSUME NEW k
    PROVE  /\ Longest(k, calls[k]) = Update(longest[k], calls[k], IdsOf(entries[k], calls[k]))
           /\ Ids(k, calls[k]) = IdsOf(entries[k], calls[k])
BY Zenon DEF Longest, Update, Ids, IdsOf

\* A return is met: every extension of the stack has been tried.
LEMMA SearchBacktrack ==
    ASSUME ListInv, SearchInv, NEW k \in Parts, Backtrack(k)
    PROVE  SearchInv'
<1> DEFINE h == Partition(hist, k)
           e == entries[k]
           c == calls[k]
           m == Len(c)
           a == c[m].entry
           st == state[k]
           d == calls'[k]
           s == c[m].state
           en == entry[k]
           x == entry'[k]
           lg == longest[k]
           lg2 == longest'[k]
           info == computeInfo
<1>1. /\ Local(k) /\ answer[k] = "none" /\ next[k][0] # Nil
      /\ ~e[en].call /\ c # <<>> /\ state'[k] = s
      /\ cache' = cache /\ answer' = answer
      /\ lg2 = IF info THEN Longest(k, c) ELSE lg
  <2>1. Keyed
    BY DEF ListInv
  <2>. QED  BY <2>1, BacktrackDoes, Zenon
<1>2. /\ m \in Nat \ {0} /\ Len(d) = m - 1 /\ Agree(c, d, Len(d))
      /\ a \in Left(e, d, Len(d)) /\ x \in Left(e, d, Len(d))
      /\ \A n \in Left(e, d, Len(d)) : n < x => n <= a
  BY ListBacktrack, Zenon
<1>3. /\ AllTried(h, e, c, st, next[k], en, info, lg)
      /\ CacheTried(h, e, c, st, cache[k], info, lg)
      /\ LongestReal(h, lg)
  BY <1>1, SearchGoes, Zenon
<1>4. /\ IsHist(h) /\ Listing(h, e)
      /\ ShapeOf(h, e, c, st, next[k], prev[k], en, linearized[k])
      /\ DOMAIN lg = 1 .. Len(h)
  BY SearchFacts, Zenon
<1>5. hist' = hist /\ entries' = entries /\ computeInfo' = computeInfo
  BY <1>1, Zenon DEF Local
<1>6. Partition(hist, k)' = h
  BY <1>5, Zenon
<1>7. lg2 = IF info THEN Update(lg, c, IdsOf(e, c)) ELSE lg
  BY <1>1, LongestIs, Zenon
<1>8. Stack(e, c, st) /\ en \in Left(e, c, m)
  BY <1>1, <1>4, Zenon DEF ShapeOf, Looking
<1>9. a = c[m].entry /\ s = c[m].state
  OBVIOUS
<1> HIDE DEF h, e, c, m, a, st, d, s, en, x, lg, lg2, info
<1>10. OneMore(d, c, a, s)
  <2>1. Len(d) \in Nat /\ m = Len(d) + 1
    BY <1>2
  <2>2. Agree(d, c, Len(d))
    BY <1>2, Zenon DEF Agree
  <2>. QED  BY <1>9, <2>1, <2>2, Zenon DEF OneMore, m
<1>11. info => /\ Grows(h, lg, lg2) /\ LongestReal(h, lg2)
               /\ AllLong(lg2, DoneAt(e, c, m), m)
  <2> SUFFICES ASSUME info PROVE /\ Grows(h, lg, lg2) /\ LongestReal(h, lg2)
                                 /\ AllLong(lg2, DoneAt(e, c, m), m)
    OBVIOUS
  <2> DEFINE u == Update(lg, c, IdsOf(e, c))
  <2>1. Grows(h, lg, u) /\ LongestReal(h, u) /\ AllLong(u, DoneAt(e, c, m), m)
    BY <1>3, <1>4, <1>8, LongestGrows, Zenon DEF m
  <2>2. lg2 = u
    BY <1>7, Zenon
  <2>. QED  BY <2>1, <2>2, Zenon
<1>12. LongestReal(h, lg2)
  BY <1>3, <1>7, <1>11, Zenon
<1>13. StateAt(c, st, m) = st /\ StateAt(c, st, m) = NewState(s, e[a].op)
  <2>1. m \in 1 .. Len(c)
    BY <1>2 DEF m
  <2>. QED  BY <1>9, <1>8, <2>1, Zenon DEF Stack, StateAt, m
<1>14. Explored(h, DoneAt(e, c, m), st, info, lg2)
  <2>1. m \in 0 .. m
    BY <1>2
  <2>2. IsFiniteSet(DoneAt(e, c, m))
    BY <1>4, <1>8, <2>1, StackDone DEF m
  <2>3. Tried(h, e, DoneAt(e, c, m), st, Left(e, c, m), en, info, lg)
    <3>1. Tried(h, e, DoneAt(e, c, m), StateAt(c, st, m), Left(e, c, m), Bound(c, en, m), info, lg)
      BY <1>1, <1>3, <2>1, Zenon DEF AllTried, m
    <3>2. Bound(c, en, m) = en
      BY Zenon DEF Bound, m
    <3>. QED  BY <1>13, <3>1, <3>2, Zenon
  <2>4. Tried(h, e, DoneAt(e, c, m), st, Left(e, c, m), en, info, lg2)
    BY <1>11, <2>2, <2>3, TriedMore, Zenon
  <2>. QED  BY <1>1, <1>4, <1>8, <1>11, <2>4, ExploredTop, Zenon DEF m
<1>15. DoneAt(e, c, m) = DoneAt(e, d, Len(d)) \union {e[a].id}
  <2>1. m \in Nat /\ m # 0 /\ Len(d) \in 0 .. Len(d) /\ Len(d) = m - 1 /\ Len(d) \in Nat
    BY <1>2
  <2>2. DoneAt(e, c, m) = DoneAt(e, c, m - 1) \union {e[a].id}
    <3>1. DoneAt(e, c, m) = DoneAt(e, c, m - 1) \union {e[c[m].entry].id}
      BY <2>1, DoneNext
    <3>. QED  BY <1>9, <3>1, Zenon
  <2>3. DoneAt(e, d, Len(d)) = DoneAt(e, c, Len(d))
    BY <1>2, <2>1, SameDone
  <2>. QED  BY <2>1, <2>2, <2>3, Zenon
<1>16. Explored(h, DoneAt(e, d, Len(d)) \union {e[a].id}, NewState(s, e[a].op), info, lg2)
  BY <1>13, <1>14, <1>15, Zenon
<1>17. \A j \in 0 .. Len(d) : IsFiniteSet(DoneAt(e, d, j))
  <2> TAKE j \in 0 .. Len(d)
  <2>1. j \in 0 .. Len(c) /\ Len(d) \in Nat
    BY <1>2 DEF m
  <2>2. IsFiniteSet(DoneAt(e, c, j))
    BY <1>4, <1>8, <2>1, StackDone
  <2>3. DoneAt(e, d, j) = DoneAt(e, c, j)
    BY <1>2, <2>1, SameDone
  <2>. QED  BY <2>2, <2>3, Zenon
<1>18. a \in Nat /\ Left(e, d, Len(d)) \subseteq Nat
  <2>1. Len(e) \in Nat /\ Left(e, d, Len(d)) \in SUBSET (1 .. Len(e))
    BY <1>4, LeftType, Zenon
  <2>. QED  BY <1>2, <2>1
<1>19. \A n2 : AllTried(h, e, d, s, n2, x, info, lg2)
  <2> TAKE n2
  <2> DEFINE nx == next[k]
  <2>1. nx[0] # Nil /\ AllTried(h, e, c, st, nx, en, info, lg)
    BY <1>1, <1>3, Zenon
  <2>2. info => Grows(h, lg, lg2)
    BY <1>11, Zenon
  <2>3. \A n \in Left(e, d, Len(d)) : n < x => n <= a
    BY <1>2, Zenon
  <2> HIDE DEF nx
  <2>. QED  BY <1>10, <1>16, <1>17, <1>18, <2>1, <2>2, <2>3, TriedPop, Zenon
<1>20. CacheTried(h, e, d, s, cache[k], info, lg2)
  <2>1. Explored(h, DoneAt(e, c, Len(c)), st, info, lg2)
    BY <1>14, Zenon DEF m
  <2>. QED  BY <1>3, <1>4, <1>10, <1>11, <2>1, CachePop, Zenon
<1>21. SearchOf(k)'
  <2>1. answer'[k] = "none" /\ answer'[k] # "true" /\ answer'[k] # "false"
    BY <1>1
  <2>. QED  BY <1>1, <1>5, <1>6, <1>12, <1>19, <1>20, <2>1, Zenon DEF SearchOf, e, d, x, lg2, info
<1>. QED  BY <1>1, <1>21, SearchLocal, Zenon

\* Fail: nothing can follow the empty stack.
LEMMA FailExplored ==
    ASSUME ListInv, SearchInv, NEW k \in Parts, answer[k] = "none", next[k][0] # Nil,
           ~entries[k][entry[k]].call, calls[k] = <<>>
    PROVE  Explored(Partition(hist, k), {}, InitState, computeInfo, longest[k])
<1> DEFINE h == Partition(hist, k)
           e == entries[k]
           c == calls[k]
           st == state[k]
           en == entry[k]
           lg == longest[k]
<1>1. AllTried(h, e, c, st, next[k], en, computeInfo, lg)
  BY SearchGoes, Zenon
<1>2. /\ IsHist(h) /\ Listing(h, e)
      /\ ShapeOf(h, e, c, st, next[k], prev[k], en, linearized[k])
  BY SearchFacts, Zenon
<1>3. Stack(e, c, st) /\ en \in Left(e, c, Len(c))
  BY <1>2, Zenon DEF ShapeOf, Looking
<1>4. Len(c) = 0 /\ ~e[en].call /\ 0 \in 0 .. Len(c)
  OBVIOUS
<1> HIDE DEF h, e, c, st, en, lg
<1>5. DoneAt(e, c, Len(c)) = {}
  BY <1>4, DoneNone, Zenon
<1>6. st = InitState
  BY <1>3, <1>4, Zenon DEF Stack, StateAt
<1>7. Tried(h, e, DoneAt(e, c, Len(c)), st, Left(e, c, Len(c)), en, computeInfo, lg)
  <2>1. Tried(h, e, DoneAt(e, c, 0), StateAt(c, st, 0), Left(e, c, 0), Bound(c, en, 0), computeInfo, lg)
    BY <1>1, <1>4, Zenon DEF AllTried
  <2>2. StateAt(c, st, 0) = st /\ Bound(c, en, 0) = en
    BY <1>4, Zenon DEF StateAt, Bound
  <2>. QED  BY <1>4, <2>1, <2>2, Zenon
<1>8. computeInfo => AllLong(lg, DoneAt(e, c, Len(c)), Len(c))
  BY <1>5, Zenon DEF AllLong
<1>9. Explored(h, DoneAt(e, c, Len(c)), st, computeInfo, lg)
  BY <1>2, <1>3, <1>4, <1>7, <1>8, ExploredTop, Zenon
<1>. QED  BY <1>5, <1>6, <1>9, Zenon DEF h, lg

\* Succeed: with nothing left the stack has all operations.
LEMMA SucceedComplete ==
    ASSUME ListInv, NEW k \in Parts, next[k][0] = Nil
    PROVE  Complete(Partition(hist, k))
<1> DEFINE h == Partition(hist, k)
           e == entries[k]
           c == calls[k]
           st == state[k]
           S == Left(e, c, Len(c))
<1>1. /\ IsHist(h) /\ Listing(h, e)
      /\ ShapeOf(h, e, c, st, next[k], prev[k], entry[k], linearized[k])
  BY SearchFacts, Zenon
<1>2. Stack(e, c, st) /\ Linked(S, next[k], prev[k], Len(e))
  BY <1>1, Zenon DEF ShapeOf, List
<1> HIDE DEF h, e, c, st
<1>3. Len(e) \in Nat /\ S \in SUBSET (1 .. Len(e))
  BY <1>1, LeftType, Zenon
<1>4. IsNext(S, 0, Nil)
  BY <1>2, Zenon DEF Linked
<1>5. S = {}
  <2>1. Nil \notin S
    BY <1>3, NoNil, Zenon
  <2>2. \A y \in S : y <= 0
    BY <1>4, <2>1, Zenon DEF IsNext
  <2> HIDE DEF S
  <2>. QED  BY <1>3, <2>2
<1>6. \A i \in DOMAIN h : i \in DoneAt(e, c, Len(c))
  <2> TAKE i \in DOMAIN h
  <2>1. PICK n \in DOMAIN e : e[n].id = i
    BY <1>1, Zenon DEF Listing
  <2>2. n \notin S
    BY <1>5
  <2>. QED  BY <2>1, <2>2, Zenon DEF Left
<1>7. /\ Len(c) \in Nat
      /\ IsExt(h, {}, InitState, Len(c), IdsOf(e, c), StatesOf(c, st))
      /\ Covers(IdsOf(e, c), Len(c), DoneAt(e, c, Len(c)))
  BY <1>1, <1>2, StackExt, Zenon
<1> DEFINE t == IdsOf(e, c)
           f == StatesOf(c, st)
           L == Len(c)
<1>8. L \in Nat /\ IsExt(h, {}, InitState, L, t, f)
  BY <1>7, Zenon
<1>9. \A i \in DOMAIN h : \E p \in 1 .. L : t[p] = i
  BY <1>6, <1>7, Zenon DEF Covers
<1> HIDE DEF t, f, L
<1>10. Complete(h)
  BY <1>8, <1>9, Zenon DEF Complete
<1>. QED  BY <1>10, Zenon DEF h

\* The search answers.
LEMMA SearchEnd ==
    ASSUME ListInv, SearchInv, NEW k \in Parts, Fail(k) \/ Succeed(k) \/ Killed(k)
    PROVE  SearchInv'
<1>1. /\ Local(k) /\ answer[k] = "none" /\ calls' = calls /\ state' = state /\ next' = next
      /\ entry' = entry /\ cache' = cache
      /\ \/ Fail(k) /\ answer'[k] = "false" /\ longest' = longest
         \/ Succeed(k) /\ answer'[k] = "true"
         \/ Killed(k) /\ answer'[k] = "false" /\ longest' = longest
  <2>1. Keyed
    BY DEF ListInv
  <2>. QED  BY <2>1, EndDoes, Zenon
<1>2. /\ hist' = hist /\ entries' = entries /\ computeInfo' = computeInfo /\ kill' = kill
      /\ Partition(hist, k)' = Partition(hist, k)
  <2>1. hist' = hist /\ entries' = entries /\ computeInfo' = computeInfo /\ kill' = kill
    BY <1>1, Zenon DEF Local
  <2>2. Partition(hist, k)' = Partition(hist, k)
    BY <2>1, Zenon
  <2>. QED  BY <2>1, <2>2, Zenon
<1>3. LET h == Partition(hist, k) IN
      /\ AllTried(h, entries[k], calls[k], state[k], next[k], entry[k], computeInfo, longest[k])
      /\ CacheTried(h, entries[k], calls[k], state[k], cache[k], computeInfo, longest[k])
      /\ LongestReal(h, longest[k])
  BY <1>1, SearchGoes, Zenon
<1>4. CASE Fail(k) /\ answer'[k] = "false" /\ longest' = longest
  <2>1. next[k][0] # Nil /\ ~entries[k][entry[k]].call /\ calls[k] = <<>>
    BY <1>4, Zenon DEF Fail, Searching
  <2>2. Explored(Partition(hist, k), {}, InitState, computeInfo, longest[k])
    BY <1>1, <2>1, FailExplored, Zenon
  <2>3. answer'[k] # "true"
    BY <1>4
  <2>4. SearchOf(k)'
    BY <1>1, <1>2, <1>3, <1>4, <2>2, <2>3, Zenon DEF SearchOf
  <2>. QED  BY <1>1, <2>4, SearchLocal, Zenon
<1>5. CASE Succeed(k) /\ answer'[k] = "true"
  <2>1. next[k][0] = Nil
    BY <1>5, Zenon DEF Succeed
  <2>2. Complete(Partition(hist, k))
    BY <2>1, SucceedComplete, Zenon
  <2>3. answer'[k] # "false"
    BY <1>5
  <2>4. SearchOf(k)'
    BY <1>2, <1>5, <2>2, <2>3, Zenon DEF SearchOf
  <2>. QED  BY <1>1, <2>4, SearchLocal, Zenon
<1>6. CASE Killed(k) /\ answer'[k] = "false" /\ longest' = longest
  <2>1. kill'
    <3>1. kill
      BY <1>6, Zenon DEF Killed
    <3>. QED  BY <1>2, <3>1
  <2>2. answer'[k] # "true"
    BY <1>6
  <2>3. SearchOf(k)'
    BY <1>1, <1>2, <1>3, <1>6, <2>1, <2>2, Zenon DEF SearchOf
  <2>. QED  BY <1>1, <2>3, SearchLocal, Zenon
<1>. QED  BY <1>1, <1>4, <1>5, <1>6, Zenon

LEMMA SearchSame ==
    ASSUME SearchInv, hist' = hist, entries' = entries, computeInfo' = computeInfo, kill => kill',
           next' = next, prev' = prev, entry' = entry, calls' = calls, state' = state,
           linearized' = linearized, cache' = cache, longest' = longest, answer' = answer
    PROVE  SearchInv'
<1>1. Parts' = Parts
  BY PartsKept, Zenon
<1>2. \A j \in Parts : SearchOf(j)'
  BY SearchIdle, Zenon DEF Idle, SearchInv
<1>. QED  BY <1>1, <1>2, Zenon DEF SearchInv

\* Every step keeps what has been tried.
LEMMA SearchStep ==
    ASSUME ListInv, SearchInv, [Next]_vars
    PROVE  SearchInv'
<1>1. ASSUME NEW k \in Parts, Linearize(k) PROVE SearchInv'
  BY <1>1, SearchLinearize, Zenon
<1>2. ASSUME NEW k \in Parts, Skip(k) PROVE SearchInv'
  BY <1>2, SearchSkip, Zenon
<1>3. ASSUME NEW k \in Parts, Backtrack(k) PROVE SearchInv'
  BY <1>3, SearchBacktrack, Zenon
<1>4. ASSUME NEW k \in Parts, Fail(k) \/ Succeed(k) \/ Killed(k) PROVE SearchInv'
  BY <1>4, SearchEnd, Zenon
<1>5. ASSUME (\E k \in Parts : Receive(k)) \/ Timeout \/ (\E k \in Parts : Collect(k))
      PROVE  SearchInv'
  BY <1>5, ParallelDoes, SearchSame, Zenon
<1>6. ASSUME UNCHANGED vars PROVE SearchInv'
  BY <1>6, SearchSame, Zenon DEF vars, args, searchVars
<1>. QED  BY <1>1, <1>2, <1>3, <1>4, <1>5, <1>6, Zenon DEF Next

\* The initial states.
LEMMA SearchInit ==
    ASSUME Init
    PROVE  SearchInv
<1>1. ListInv
  BY ListInit, Zenon
<1> SUFFICES ASSUME NEW k \in Parts PROVE SearchOf(k)
  BY Zenon DEF SearchInv
<1> DEFINE h == Partition(hist, k)
           e == entries[k]
           c == calls[k]
           st == state[k]
           lg == longest[k]
<1>2. /\ entry[k] = 1 /\ c = <<>> /\ cache[k] = {} /\ answer[k] = "none"
      /\ \A i \in DOMAIN lg : lg[i] = Nil
  BY DEF Init
<1>3. answer[k] # "true" /\ answer[k] # "false"
  BY <1>2
<1>4. IsHist(h) /\ Listing(h, e) /\ DOMAIN lg = 1 .. Len(h)
  BY <1>1, SearchFacts, Zenon
<1>5. LongestReal(h, lg)
  BY <1>2, <1>4, Zenon DEF LongestReal, IsHist
<1>6. CacheTried(h, e, c, st, cache[k], computeInfo, lg)
  BY <1>2, Zenon DEF CacheTried
<1>7. Len(c) = 0
  BY <1>2
<1>8. AllTried(h, e, c, st, next[k], entry[k], computeInfo, lg)
  <2> SUFFICES ASSUME NEW j \in 0 .. Len(c)
               PROVE  Tried(h, e, DoneAt(e, c, j), StateAt(c, st, j), Left(e, c, j),
                            Bound(c, entry[k], j), computeInfo, lg)
    BY Zenon DEF AllTried
  <2>1. j = Len(c)
    BY <1>7
  <2>2. Bound(c, entry[k], j) = 1
    BY <1>2, <2>1, Zenon DEF Bound
  <2>3. Len(e) \in Nat /\ Left(e, c, j) \in SUBSET (1 .. Len(e))
    BY <1>4, LeftType, Zenon
  <2> HIDE DEF e, c
  <2>4. \A n \in Left(e, c, j) : ~(n < 1)
    BY <2>3
  <2>. QED  BY <2>2, <2>4, Zenon DEF Tried
<1>. QED  BY <1>3, <1>5, <1>6, <1>8, Zenon DEF SearchOf

LEMMA SearchAlways == Spec => []SearchInv
<1>1. Init => SearchInv
  BY SearchInit
<1>2. ListInv /\ SearchInv /\ [Next]_vars => SearchInv'
  BY SearchStep
<1>. QED  BY <1>1, <1>2, ListAlways, PTL DEF Spec

----------------------------------------------------------------------------
(* The verdict on the parts *)

ControlInv ==
    /\ ok \in BOOLEAN /\ kill \in BOOLEAN /\ timedOut \in BOOLEAN /\ got \subseteq Parts
    /\ \A k \in Parts : answer[k] \in {"none", "true", "false"}
    /\ verdict = "none" => ~kill /\ ~timedOut
    /\ ~ok => \E k \in Parts : ~Complete(Partition(hist, k))
    /\ ok /\ verdict = "none" => \A k \in got : answer[k] = "true"
    /\ verdict = "collect" => timedOut \/ ~ok
    /\ verdict = "Ok" => \A k \in Parts : answer[k] = "true"
    /\ verdict = "Illegal" => ~ok

\* A history that has been explored has no full order.
LEMMA NotComplete ==
    ASSUME NEW h, NEW info, NEW lg, Explored(h, {}, InitState, info, lg)
    PROVE  ~Complete(h)
BY Zenon DEF Explored, Complete

\* A step of a search: what has been answered stays.
LEMMA ControlLocal ==
    ASSUME ControlInv, NEW k \in Parts, Local(k), answer[k] = "none",
           answer'[k] \in {"none", "true", "false"}
    PROVE  ControlInv'
<1>1. /\ hist' = hist /\ kill' = kill /\ got' = got /\ ok' = ok /\ timedOut' = timedOut
      /\ verdict' = verdict /\ \A j \in Parts : j # k => answer'[j] = answer[j]
  BY Zenon DEF Local, Idle
<1>2. Parts' = Parts /\ \A j : Partition(hist, j)' = Partition(hist, j)
  <2>1. Parts' = Parts
    BY <1>1, PartsKept, Zenon
  <2>2. \A j : Partition(hist, j)' = Partition(hist, j)
    BY <1>1, Zenon
  <2>. QED  BY <2>1, <2>2, Zenon
<1>3. answer[k] # "true"
  OBVIOUS
<1>4. \A j \in Parts : answer[j] = "true" => answer'[j] = "true"
  BY <1>1, <1>3, Zenon
<1>5. \A j \in Parts : answer'[j] \in {"none", "true", "false"}
  BY <1>1, Zenon DEF ControlInv
<1>6. ok /\ verdict = "none" => \A j \in got : answer'[j] = "true"
  BY <1>4, Zenon DEF ControlInv
<1>7. verdict = "Ok" => \A j \in Parts : answer'[j] = "true"
  BY <1>4, Zenon DEF ControlInv
<1>8. ~ok => \E j \in Parts : ~Complete(Partition(hist, j)')
  BY <1>2, Zenon DEF ControlInv
<1>9. /\ (ok \in BOOLEAN)' /\ (kill \in BOOLEAN)' /\ (timedOut \in BOOLEAN)'
      /\ (got \subseteq Parts)' /\ (verdict = "none" => ~kill /\ ~timedOut)'
      /\ (verdict = "collect" => timedOut \/ ~ok)' /\ (verdict = "Illegal" => ~ok)'
  BY <1>1, <1>2, Zenon DEF ControlInv
<1>. QED  BY <1>1, <1>2, <1>5, <1>6, <1>7, <1>8, <1>9, Zenon DEF ControlInv

\* checkParallel takes a step with the answers that are there.
LEMMA ControlParallel ==
    ASSUME ControlInv, hist' = hist, answer' = answer,
           (ok \in BOOLEAN /\ kill \in BOOLEAN /\ timedOut \in BOOLEAN)', got' \subseteq Parts,
           verdict' = "none" => ~kill' /\ ~timedOut',
           ~ok' => ~ok \/ \E k \in Parts : ~Complete(Partition(hist, k)),
           ok' /\ verdict' = "none" => \A k \in got' : answer[k] = "true",
           verdict' = "collect" => timedOut' \/ ~ok',
           verdict' = "Ok" => \A k \in Parts : answer[k] = "true",
           verdict' = "Illegal" => ~ok'
    PROVE  ControlInv'
<1>1. Parts' = Parts /\ \A j : Partition(hist, j)' = Partition(hist, j)
  <2>1. Parts' = Parts
    BY PartsKept, Zenon
  <2>2. \A j : Partition(hist, j)' = Partition(hist, j)
    BY Zenon
  <2>. QED  BY <2>1, <2>2, Zenon
<1>2. ~ok' => \E k \in Parts : ~Complete(Partition(hist, k)')
  BY <1>1, Zenon DEF ControlInv
<1>3. \A k \in Parts : answer'[k] \in {"none", "true", "false"}
  BY Zenon DEF ControlInv
<1>. QED  BY <1>1, <1>2, <1>3, Zenon DEF ControlInv

\* An answer is received.
LEMMA ControlReceive ==
    ASSUME ControlInv, SearchInv, NEW k \in Parts, Receive(k)
    PROVE  ControlInv'
<1> DEFINE good == ok /\ answer[k] = "true"
           bad == \E j \in Parts : ~Complete(Partition(hist, j))
<1>1. /\ verdict = "none" /\ answer[k] # "none" /\ got' = got \union {k}
      /\ hist' = hist /\ answer' = answer /\ timedOut' = timedOut
  BY Zenon DEF Receive, args, searchVars
<1>2. ok' = good /\ kill' = (kill \/ (~good /\ ~computeInfo))
  BY Zenon DEF Receive
<1>3. IF (~good /\ ~computeInfo) \/ got' = Parts
      THEN verdict' = IF computeInfo /\ got' # Parts THEN "collect" ELSE Result(good, timedOut)
      ELSE verdict' = verdict
  BY Zenon DEF Receive, Leave
<1>4. ~kill /\ ~timedOut /\ ok \in BOOLEAN /\ timedOut \in BOOLEAN /\ got \subseteq Parts
  BY <1>1, Zenon DEF ControlInv
<1>5. got' \subseteq Parts
  BY <1>1, <1>4
<1>6. CASE good
  <2>1. ok' = TRUE /\ kill' = FALSE /\ timedOut' = FALSE
    BY <1>1, <1>2, <1>4, <1>6, Zenon
  <2>2. Result(good, timedOut) = "Ok"
    BY <1>4, <1>6, Zenon DEF Result
  <2>3. IF got' = Parts THEN verdict' = "Ok" ELSE verdict' = "none"
    BY <1>1, <1>3, <1>6, <2>2, Zenon
  <2>4. \A j \in got' : answer[j] = "true"
    BY <1>1, <1>6, Zenon DEF ControlInv
  <2>5. verdict' \in {"Ok", "none"} /\ (verdict' = "Ok" => got' = Parts)
    BY <2>3
  <2>6. verdict' # "collect" /\ verdict' # "Illegal"
    BY <2>5
  <2>7. verdict' = "Ok" => \A j \in Parts : answer[j] = "true"
    BY <2>4, <2>5, Zenon
  <2>8. /\ (ok \in BOOLEAN /\ kill \in BOOLEAN /\ timedOut \in BOOLEAN)'
        /\ ok' /\ ~kill' /\ ~timedOut'
    BY <2>1, Zenon
  <2>. QED  BY <1>1, <1>5, <2>4, <2>6, <2>7, <2>8, ControlParallel, Zenon
<1>7. CASE ~good
  <2>1. ok' = FALSE /\ timedOut' = FALSE /\ kill' \in BOOLEAN /\ (computeInfo => ~kill')
    BY <1>1, <1>2, <1>4, <1>7
  <2>2. Result(good, timedOut) = "Illegal"
    BY <1>7, Zenon DEF Result
  <2>3. /\ verdict' \in {"Illegal", "none"} /\ (verdict' = "none" => computeInfo)
    <3>1. CASE ~computeInfo \/ got' = Parts
      BY <1>3, <1>7, <2>2, <3>1, Zenon
    <3>2. CASE computeInfo /\ got' # Parts
      BY <1>1, <1>3, <3>2, Zenon
    <3>. QED  BY <3>1, <3>2, Zenon
  <2>4. verdict' # "collect" /\ verdict' # "Ok"
    BY <2>3
  <2>5. ~ok \/ bad
    <3> SUFFICES ASSUME ok PROVE bad
      BY Zenon
    <3>1. answer[k] \in {"none", "true", "false"}
      BY Zenon DEF ControlInv
    <3>2. answer[k] = "false"
      BY <1>1, <1>7, <3>1, Zenon
    <3>3. Explored(Partition(hist, k), {}, InitState, computeInfo, longest[k])
      BY <1>4, <3>2, Zenon DEF SearchInv, SearchOf
    <3>. QED  BY <3>3, NotComplete, Zenon
  <2>6. /\ (ok \in BOOLEAN /\ kill \in BOOLEAN /\ timedOut \in BOOLEAN)'
        /\ ~ok' /\ ~timedOut'
    BY <2>1, Zenon
  <2>7. verdict' = "none" => ~kill'
    BY <2>1, <2>3, Zenon
  <2>. QED  BY <1>1, <1>5, <2>4, <2>5, <2>6, <2>7, ControlParallel, Zenon
<1>. QED  BY <1>6, <1>7, Zenon

\* The timer fires.
LEMMA ControlTimeout ==
    ASSUME ControlInv, Timeout
    PROVE  ControlInv'
<1>1. /\ hist' = hist /\ answer' = answer /\ timedOut' = TRUE /\ kill' = TRUE /\ got' = got
      /\ ok' = ok
  BY Zenon DEF Timeout, args, searchVars
<1>2. verdict' = IF computeInfo /\ got # Parts THEN "collect" ELSE Result(ok, TRUE)
  BY Zenon DEF Timeout, Leave
<1>3. ok \in BOOLEAN /\ got \subseteq Parts
  BY Zenon DEF ControlInv
<1>4. Result(ok, TRUE) = IF ~ok THEN "Illegal" ELSE "Unknown"
  BY Zenon DEF Result
<1>5. verdict' \in {"collect", "Illegal", "Unknown"} /\ (verdict' = "Illegal" => ~ok)
  BY <1>2, <1>4, Zenon
<1>6. verdict' # "none" /\ verdict' # "Ok"
  BY <1>5
<1>7. (ok \in BOOLEAN /\ kill \in BOOLEAN /\ timedOut \in BOOLEAN)' /\ timedOut'
  BY <1>1, <1>3
<1>. QED  BY <1>1, <1>3, <1>5, <1>6, <1>7, ControlParallel, Zenon

\* An answer is waited for after the verdict is settled.
LEMMA ControlCollect ==
    ASSUME ControlInv, NEW k \in Parts, Collect(k)
    PROVE  ControlInv'
<1>1. /\ hist' = hist /\ answer' = answer /\ timedOut' = timedOut /\ kill' = kill
      /\ got' = got \union {k} /\ ok' = ok /\ verdict = "collect"
  BY Zenon DEF Collect, args, searchVars
<1>2. verdict' = Result(ok, timedOut) \/ verdict' = "collect"
  BY <1>1, Zenon DEF Collect
<1>3. /\ ok \in BOOLEAN /\ kill \in BOOLEAN /\ timedOut \in BOOLEAN /\ got \subseteq Parts
      /\ timedOut \/ ~ok
  BY <1>1, Zenon DEF ControlInv
<1>4. Result(ok, timedOut) = IF ~ok THEN "Illegal" ELSE "Unknown"
  BY <1>3, Zenon DEF Result
<1>5. verdict' \in {"collect", "Illegal", "Unknown"} /\ (verdict' = "Illegal" => ~ok)
  BY <1>2, <1>4
<1>6. verdict' # "none" /\ verdict' # "Ok"
  BY <1>5
<1>7. (ok \in BOOLEAN /\ kill \in BOOLEAN /\ timedOut \in BOOLEAN)' /\ got' \subseteq Parts
  BY <1>1, <1>3
<1>8. timedOut' \/ ~ok'
  BY <1>1, <1>3, Zenon
<1>. QED  BY <1>1, <1>5, <1>6, <1>7, <1>8, ControlParallel, Zenon

\* Every step keeps the bookkeeping of checkParallel.
LEMMA ControlStep ==
    ASSUME ListInv, SearchInv, ControlInv, [Next]_vars
    PROVE  ControlInv'
<1>0. Keyed
  BY DEF ListInv
<1>1. ASSUME NEW k \in Parts, Linearize(k) \/ Skip(k) \/ Backtrack(k) PROVE ControlInv'
  <2>1. Local(k) /\ answer[k] = "none" /\ answer' = answer
    BY <1>0, <1>1, LinearizeDoes, SkipDoes, BacktrackDoes, Zenon
  <2>2. answer'[k] \in {"none", "true", "false"}
    BY <2>1
  <2>. QED  BY <2>1, <2>2, ControlLocal, Zenon
<1>2. ASSUME NEW k \in Parts, Fail(k) \/ Succeed(k) \/ Killed(k) PROVE ControlInv'
  <2>1. Local(k) /\ answer[k] = "none" /\ answer'[k] \in {"true", "false"}
    BY <1>0, <1>2, EndDoes, Zenon
  <2>2. answer'[k] \in {"none", "true", "false"}
    BY <2>1
  <2>. QED  BY <2>1, <2>2, ControlLocal, Zenon
<1>3. ASSUME NEW k \in Parts, Receive(k) PROVE ControlInv'
  BY <1>3, ControlReceive, Zenon
<1>4. ASSUME Timeout PROVE ControlInv'
  BY <1>4, ControlTimeout, Zenon
<1>5. ASSUME NEW k \in Parts, Collect(k) PROVE ControlInv'
  BY <1>5, ControlCollect, Zenon
<1>6. ASSUME UNCHANGED vars PROVE ControlInv'
  <2>1. /\ hist' = hist /\ answer' = answer /\ timedOut' = timedOut /\ kill' = kill
        /\ got' = got /\ ok' = ok /\ verdict' = verdict
    BY <1>6, Zenon DEF vars, args, searchVars
  <2>. QED  BY <2>1, ControlParallel, Zenon DEF ControlInv
<1>. QED  BY <1>1, <1>2, <1>3, <1>4, <1>5, <1>6, Zenon DEF Next

\* The initial states.
LEMMA ControlInit ==
    ASSUME Init
    PROVE  ControlInv
<1>1. /\ ok = TRUE /\ kill = FALSE /\ timedOut = FALSE /\ got = {} /\ verdict = "none"
      /\ \A k \in Parts : answer[k] = "none"
  BY DEF Init
<1>2. verdict # "collect" /\ verdict # "Ok" /\ verdict # "Illegal"
  BY <1>1
<1>3. \A k \in Parts : answer[k] \in {"none", "true", "false"}
  BY <1>1
<1>. QED  BY <1>1, <1>2, <1>3, Zenon DEF ControlInv

LEMMA ControlAlways == Spec => []ControlInv
<1>1. Init => ControlInv
  BY ControlInit
<1>2. ListInv /\ SearchInv /\ ControlInv /\ [Next]_vars => ControlInv'
  BY ControlStep
<1>. QED  BY <1>1, <1>2, ListAlways, SearchAlways, PTL DEF Spec

----------------------------------------------------------------------------
(* The longest prefixes *)

\* A part has one key.
LEMMA KeyIs ==
    ASSUME ListInv, NEW k \in Parts
    PROVE  k \in Key /\ OneKey(Partition(hist, k), k)
<1>1. hist \in Histories
  BY Zenon DEF ListInv, Setting
<1>2. k \in Key
  <2>1. PICK i \in DOMAIN hist : k = hist[i].op.key
    BY Zenon DEF Parts
  <2>2. hist[i].op \in Op
    BY <1>1, HistIs, Zenon
  <2>. QED  BY <2>1, <2>2, OpAssumption, Zenon
<1>3. IsHist(hist)
  BY <1>1, HistIs, Zenon
<1>4. OneKey(Partition(hist, k), k)
  <2> DEFINE q == Partition(hist, k)
             n == Cardinality(Mine(hist, k))
  <2>1. DOMAIN q = 1 .. n /\ \A j \in 1 .. n : q[j].op.key = k
    BY <1>3, PartitionHist
  <2> HIDE DEF q
  <2>2. OneKey(q, k)
    BY <2>1, Zenon DEF OneKey
  <2>. QED  BY <2>2, Zenon DEF q
<1>. QED  BY <1>2, <1>4, Zenon

\* What has been explored is what LongestIsLongest says.
LEMMA LongestShown ==
    ASSUME ListInv, SearchInv
    PROVE  LongestIsLongest
<1> SUFFICES ASSUME NEW k \in Parts, computeInfo, ~kill, answer[k] = "false",
                    NEW id \in DOMAIN longest[k]
             PROVE  LET with == {p \in Prefixes(Partition(hist, k)) : \E i \in DOMAIN p : p[i] = id} IN
                    \/ with = {} /\ longest[k][id] = Nil
                    \/ /\ longest[k][id] \in with
                       /\ \A p \in with : Len(p) <= Len(longest[k][id])
  BY Zenon DEF LongestIsLongest
<1> DEFINE h == Partition(hist, k)
           lg == longest[k]
           with == {p \in Prefixes(h) : \E i \in DOMAIN p : p[i] = id}
<1>1. IsHist(h) /\ DOMAIN lg = 1 .. Len(h)
  BY SearchFacts, Zenon
<1>2. k \in Key /\ OneKey(h, k)
  BY KeyIs, Zenon
<1>3. Explored(h, {}, InitState, computeInfo, lg) /\ LongestReal(h, lg)
  <2>1. answer[k] # "true"
    OBVIOUS
  <2>. QED  BY <2>1, Zenon DEF SearchInv, SearchOf
<1>4. id \in DOMAIN h
  BY <1>1, Zenon DEF IsHist
<1> HIDE DEF h, lg
<1>5. ASSUME NEW p \in with PROVE lg[id] # Nil /\ Len(lg[id]) >= Len(p)
  <2>1. p \in Prefixes(h) /\ \E i \in DOMAIN p : p[i] = id
    BY <1>5, Zenon
  <2>2. PICK f : Len(p) \in Nat /\ DOMAIN p = 1 .. Len(p) /\ IsExt(h, {}, InitState, Len(p), p, f)
    BY <1>1, <1>2, <2>1, PrefixRun, Zenon
  <2>3. Long(lg, id, Cardinality({}) + Len(p))
    BY <1>3, <1>4, <2>1, <2>2, Zenon DEF Explored
  <2>4. Cardinality({}) + Len(p) = Len(p)
    <3>1. Cardinality({}) = 0
      BY FS_EmptySet
    <3>. QED  BY <2>2, <3>1
  <2>. QED  BY <2>3, <2>4, Zenon DEF Long
<1>6. ASSUME lg[id] # Nil PROVE lg[id] \in with /\ Len(lg[id]) \in Nat
  <2>1. PICK L, f : /\ L \in Nat
                    /\ IsExt(h, {}, InitState, L, lg[id], f) /\ Len(lg[id]) = L
                    /\ \E q \in 1 .. L : lg[id][q] = id
    BY <1>3, <1>4, <1>6, Zenon DEF LongestReal, Has
  <2>2. lg[id] \in Prefixes(h) /\ DOMAIN lg[id] = 1 .. L
    BY <1>1, <1>2, <2>1, RunPrefix, Zenon
  <2>. QED  BY <2>1, <2>2, Zenon
<1>7. ASSUME NEW p \in with PROVE Len(p) \in Nat
  BY <1>1, <1>2, PrefixRun, Zenon
<1> HIDE DEF with
<1>8. \/ with = {} /\ lg[id] = Nil
      \/ lg[id] \in with /\ \A p \in with : Len(p) <= Len(lg[id])
  <2>1. CASE lg[id] = Nil
    BY <1>5, <2>1, Zenon
  <2>2. CASE lg[id] # Nil
    <3>1. lg[id] \in with /\ Len(lg[id]) \in Nat
      BY <1>6, <2>2, Zenon
    <3>2. ASSUME NEW p \in with PROVE Len(p) <= Len(lg[id])
      <4>1. Len(lg[id]) >= Len(p) /\ Len(p) \in Nat
        BY <1>5, <1>7, Zenon
      <4>. QED  BY <3>1, <4>1
    <3>. QED  BY <3>1, <3>2, Zenon
  <2>. QED  BY <2>1, <2>2, Zenon
<1>. QED  BY <1>8, Zenon DEF with, h, lg

\* When a search has failed, longest has for every operation a longest order of effects
\* that includes it, although the cache cuts branches off: what is in the cache was
\* explored, or is on the stack.
THEOREM LongestIsLongestHolds == Spec => []LongestIsLongest
<1>1. ListInv /\ SearchInv => LongestIsLongest
  BY LongestShown
<1>. QED  BY <1>1, ListAlways, SearchAlways, PTL

----------------------------------------------------------------------------
(* The verdict *)

\* The bookkeeping and the searches are what VerdictCorrect says.
LEMMA VerdictShown ==
    ASSUME ListInv, SearchInv, ControlInv
    PROVE  VerdictCorrect
<1>1. hist \in Histories
  BY Zenon DEF ListInv, Setting
<1>2. ASSUME verdict = "Ok" PROVE Linearizable(hist)
  <2>1. \A k \in Parts : answer[k] = "true"
    BY <1>2, Zenon DEF ControlInv
  <2>2. \A k \in Parts : Complete(Partition(hist, k))
    BY <2>1, Zenon DEF SearchInv, SearchOf
  <2>. QED  BY <1>1, <2>2, Locality, Zenon
<1>3. ASSUME verdict = "Illegal" PROVE ~Linearizable(hist)
  <2>1. \E k \in Parts : ~Complete(Partition(hist, k))
    BY <1>3, Zenon DEF ControlInv
  <2>. QED  BY <1>1, <2>1, Locality, Zenon
<1>. QED  BY <1>2, <1>3, Zenon DEF VerdictCorrect

\* Ok means that the whole history is linearizable and Illegal that it is not, for any
\* number of keys, operations, clients and times: the search of a part answers true only
\* with a full order of it and false only after all orders, an answer cut short by kill
\* is never taken for false, and the orders of the parts merge into one of the history.
THEOREM VerdictCorrectHolds == Spec => []VerdictCorrect
<1>1. ListInv /\ SearchInv /\ ControlInv => VerdictCorrect
  BY VerdictShown
<1>. QED  BY <1>1, ListAlways, SearchAlways, ControlAlways, PTL
=============================================================================
