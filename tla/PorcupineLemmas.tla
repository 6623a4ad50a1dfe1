-------------------------- MODULE PorcupineLemmas ---------------------------
(***************************************************************************)
(* What the proofs about Porcupine.tla rest on: linked lists, bitsets,     *)
(* histories, the ways to go on with a search, its stack; that a history   *)
(* is linearizable exactly if the history of every key is; and what the    *)
(* steps of a search do to it.                                             *)
(***************************************************************************)
EXTENDS Porcupine, FiniteSetTheorems, WellFoundedInduction, TLAPS

----------------------------------------------------------------------------
(* Doubly linked lists: the nodes S of 1 .. z in ascending order behind 0 *)

\* x is the node of S behind n, or nil.
IsNext(S, n, x) ==
    \/ x = Nil /\ \A y \in S : y <= n
    \/ x \in S /\ n < x /\ \A y \in S : y <= n \/ y >= x

\* x is the node of S before n, or the head.
IsPrev(S, n, x) ==
    x \in S \union {0} /\ x < n /\ \A y \in S : y <= x \/ y >= n

\* Where the node n belongs in the list of S.
Slot(S, nx, pv, n) == IsNext(S, n, nx[n]) /\ IsPrev(S, n, pv[n])

\* f with b at a.
Change(f, a, b) == [f EXCEPT ![a] = b]

\* The links when the node x is taken out, and when it is put in.
TakenNext(nx, pv, x) == Change(nx, pv[x], nx[x])

TakenPrev(nx, pv, x) == IF nx[x] = Nil THEN pv ELSE Change(pv, nx[x], pv[x])

PutNext(nx, pv, x) == Change(nx, pv[x], x)

PutPrev(nx, pv, x) == IF nx[x] = Nil THEN pv ELSE Change(pv, nx[x], x)

\* The links when a and then b are taken out, when b and then a are put in.
LiftNext(nx, pv, a, b) == TakenNext(TakenNext(nx, pv, a), TakenPrev(nx, pv, a), b)

LiftPrev(nx, pv, a, b) == TakenPrev(TakenNext(nx, pv, a), TakenPrev(nx, pv, a), b)

UnliftNext(nx, pv, a, b) == PutNext(PutNext(nx, pv, b), PutPrev(nx, pv, b), a)

UnliftPrev(nx, pv, a, b) == PutPrev(PutNext(nx, pv, b), PutPrev(nx, pv, b), a)

\* f and g differ at the head and at nodes of S at most.
Kept(S, f, g, z) == \A y \in 0 .. z : y \notin S /\ y # 0 => g[y] = f[y]

Linked(S, nx, pv, z) ==
    /\ nx \in [0 .. z -> (0 .. z) \union {Nil}]
    /\ pv \in [0 .. z -> (0 .. z) \union {Nil}]
    /\ \A n \in S \union {0} : IsNext(S, n, nx[n])
    /\ \A n \in S : IsPrev(S, n, pv[n])

\* No node is nil.
LEMMA NoNil ==
    ASSUME NEW z \in Nat, NEW S \in SUBSET (1 .. z)
    PROVE  Nil \notin S
<1>1. \A x \in 1 .. z : x \in Nat
  OBVIOUS
<1>. QED  BY <1>1, NilAssumption, Zenon

\* Neighbours are nodes.
LEMMA Neighbours ==
    ASSUME NEW z \in Nat, NEW S \in SUBSET (1 .. z), NEW x \in 1 .. z,
           NEW a, IsNext(S, x, a), NEW b, IsPrev(S, x, b)
    PROVE  /\ a # Nil => a \in S /\ a \in 0 .. z /\ a # 0
           /\ a # x /\ b # x /\ b \in S \union {0} /\ b \in 0 .. z /\ x \in 0 .. z
<1>1. ASSUME a # Nil PROVE a \in S /\ a \in 0 .. z /\ a # 0
  <2>1. a \in S
    BY <1>1, Zenon DEF IsNext
  <2>. QED  BY <2>1
<1>2. a # x
  BY NilAssumption DEF IsNext
<1>3. b # x /\ b \in S \union {0} /\ b \in 0 .. z
  BY DEF IsPrev
<1>. QED  BY <1>1, <1>2, <1>3

\* The neighbours of the others when the node x is gone.
LEMMA Without ==
    ASSUME NEW z \in Nat, NEW S \in SUBSET (1 .. z), NEW x \in S,
           NEW a, IsNext(S, x, a), NEW b, IsPrev(S, x, b)
    PROVE  /\ IsNext(S \ {x}, b, a) /\ (a # Nil => IsPrev(S \ {x}, a, b))
           /\ IsNext(S \ {x}, x, a) /\ IsPrev(S \ {x}, x, b)
           /\ \A n \in (S \ {x}) \union {0} : \A c :
                  n # b /\ IsNext(S, n, c) => IsNext(S \ {x}, n, c)
           /\ \A n \in S \ {x} : \A c :
                  n # a /\ IsPrev(S, n, c) => IsPrev(S \ {x}, n, c)
<1>1. IsNext(S \ {x}, b, a)
  <2>1. b \in Nat /\ b < x /\ \A y \in S : y <= b \/ y >= x
    BY DEF IsPrev
  <2>2. CASE a = Nil /\ \A y \in S : y <= x
    <3>1. \A y \in S \ {x} : y <= b
      BY <2>1, <2>2
    <3>. QED  BY <2>2, <3>1, Zenon DEF IsNext
  <2>3. CASE a \in S /\ x < a /\ \A y \in S : y <= x \/ y >= a
    <3>1. \A y \in S \ {x} : y <= b \/ y >= a
      BY <2>1, <2>3
    <3>2. b < a
      BY <2>1, <2>3
    <3>3. a \in S \ {x}
      BY <2>3
    <3>. QED  BY <2>3, <3>1, <3>2, <3>3, Zenon DEF IsNext
  <2>. QED  BY <2>2, <2>3, Zenon DEF IsNext
<1>2. ASSUME a # Nil PROVE IsPrev(S \ {x}, a, b)
  <2>1. b \in Nat /\ b < x /\ \A y \in S : y <= b \/ y >= x
    BY DEF IsPrev
  <2>2. a \in S /\ x < a /\ \A y \in S : y <= x \/ y >= a
    BY <1>2, Zenon DEF IsNext
  <2>3. \A y \in S \ {x} : y <= b \/ y >= a
      BY <2>1, <2>2
  <2>4. b < a
      BY <2>1, <2>2
  <2>5. b \in (S \ {x}) \union {0}
      BY <2>1, <2>2 DEF IsPrev
  <2>. QED  BY <2>3, <2>4, <2>5, Zenon DEF IsPrev
<1>3. IsNext(S \ {x}, x, a)
  BY NilAssumption DEF IsNext
<1>4. IsPrev(S \ {x}, x, b)
  BY DEF IsPrev
<1>5. ASSUME NEW n \in (S \ {x}) \union {0}, NEW c, n # b, IsNext(S, n, c)
      PROVE  IsNext(S \ {x}, n, c)
  <2>1. n \in Nat /\ x \in Nat /\ b \in Nat
    BY DEF IsPrev
  <2>2. c # x
    <3> SUFFICES ASSUME c = x PROVE FALSE
      OBVIOUS
    <3>1. x # Nil
      BY <2>1, NilAssumption
    <3>2. n < x /\ \A y \in S : y <= n \/ y >= x
      BY <1>5, <3>1, Zenon DEF IsNext
    <3>3. n <= b \/ n >= x
      BY <1>5, <2>1 DEF IsPrev
    <3>4. b <= n \/ b >= x
      BY <2>1, <3>2 DEF IsPrev
    <3>. QED  BY <1>5, <2>1, <3>2, <3>3, <3>4 DEF IsPrev
  <2>. QED  BY <1>5, <2>2 DEF IsNext
<1>6. ASSUME NEW n \in S \ {x}, NEW c, n # a, IsPrev(S, n, c)
      PROVE  IsPrev(S \ {x}, n, c)
  <2>1. n \in Nat /\ x \in Nat
    OBVIOUS
  <2>2. c # x
    <3> SUFFICES ASSUME c = x PROVE FALSE
      OBVIOUS
    <3>1. x < n /\ \A y \in S : y <= x \/ y >= n
      BY <1>6, Zenon DEF IsPrev
    <3>2. ~(a = Nil /\ \A y \in S : y <= x)
      BY <2>1, <3>1
    <3>3. a \in S /\ x < a /\ (n <= x \/ n >= a)
      BY <1>6, <3>2, Zenon DEF IsNext
    <3>4. a <= x \/ a >= n
      BY <3>1, <3>3, Zenon
    <3>. QED  BY <1>6, <2>1, <3>1, <3>3, <3>4
  <2>. QED  BY <1>6, <2>2 DEF IsPrev
<1>. QED  BY <1>1, <1>2, <1>3, <1>4, <1>5, <1>6, Zenon

\* And when it is back.
LEMMA With ==
    ASSUME NEW z \in Nat, NEW S \in SUBSET (1 .. z), NEW x \in 1 .. z, x \notin S,
           NEW a, IsNext(S, x, a), NEW b, IsPrev(S, x, b)
    PROVE  /\ IsNext(S \union {x}, b, x) /\ IsPrev(S \union {x}, x, b)
           /\ IsNext(S \union {x}, x, a) /\ (a # Nil => IsPrev(S \union {x}, a, x))
           /\ \A n \in S \union {0} : \A c :
                  n # b /\ IsNext(S, n, c) => IsNext(S \union {x}, n, c)
           /\ \A n \in S : \A c :
                  n # a /\ IsPrev(S, n, c) => IsPrev(S \union {x}, n, c)
<1>1. IsNext(S \union {x}, b, x)
  BY DEF IsNext, IsPrev
<1>2. IsPrev(S \union {x}, x, b)
  BY DEF IsPrev
<1>3. IsNext(S \union {x}, x, a)
  BY DEF IsNext
<1>4. ASSUME a # Nil PROVE IsPrev(S \union {x}, a, x)
  BY <1>4 DEF IsNext, IsPrev
<1>5. ASSUME NEW n \in S \union {0}, NEW c, n # b, IsNext(S, n, c)
      PROVE  IsNext(S \union {x}, n, c)
  <2>1. n \in Nat /\ x \in Nat /\ b \in Nat /\ n # x
    BY DEF IsPrev
  <2>2. n <= b \/ n >= x
    BY <1>5, <2>1 DEF IsPrev
  <2>3. CASE c = Nil
    <3>1. c \notin S
      BY <2>3, NoNil, Zenon
    <3>2. \A y \in S : y <= n
      BY <1>5, <3>1, Zenon DEF IsNext
    <3>3. x <= n
      BY <1>5, <2>1, <2>2, <3>2 DEF IsPrev
    <3>. QED  BY <2>3, <3>2, <3>3, Zenon DEF IsNext
  <2>4. CASE c # Nil
    <3>1. c \in S /\ n < c /\ \A y \in S : y <= n \/ y >= c
      BY <1>5, <2>4, Zenon DEF IsNext
    <3>2. c \in Nat
      BY <3>1
    <3>3. c <= b \/ c >= x
      BY <3>1, Zenon DEF IsPrev
    <3>4. b <= n \/ b >= c
      BY <2>1, <3>1, <3>2 DEF IsPrev
    <3>5. x <= n \/ x >= c
      BY <1>5, <2>1, <2>2, <3>1, <3>2, <3>3, <3>4 DEF IsPrev
    <3>6. \A y \in S \union {x} : y <= n \/ y >= c
      BY <3>1, <3>5, Zenon
    <3>. QED  BY <3>1, <3>6, Zenon DEF IsNext
  <2>. QED  BY <2>3, <2>4, Zenon
<1>6. ASSUME NEW n \in S, NEW c, n # a, IsPrev(S, n, c)
      PROVE  IsPrev(S \union {x}, n, c)
  <2>1. n \in Nat /\ x \in Nat /\ c \in Nat /\ n # x /\ c # x
    BY <1>6 DEF IsPrev
  <2>2. x <= c \/ x >= n
    <3>1. CASE a = Nil
      <4>1. a \notin S
        BY <3>1, NoNil, Zenon
      <4>2. n <= x
        BY <4>1, Zenon DEF IsNext
      <4>. QED  BY <2>1, <4>2
    <3>2. CASE a # Nil
      <4>1. a \in S /\ x < a /\ \A y \in S : y <= x \/ y >= a
        BY <3>2, Zenon DEF IsNext
      <4>2. a \in Nat /\ (a <= c \/ a >= n) /\ (n <= x \/ n >= a)
        BY <1>6, <4>1 DEF IsPrev
      <4>. QED  BY <1>6, <2>1, <4>1, <4>2
    <3>. QED  BY <3>1, <3>2, Zenon
  <2>. QED  BY <1>6, <2>2, Zenon DEF IsPrev
<1>. QED  BY <1>1, <1>2, <1>3, <1>4, <1>5, <1>6, Zenon

\* Taking the node x out: it remembers its neighbours.
LEMMA Remove ==
    ASSUME NEW z \in Nat, NEW S \in SUBSET (1 .. z), NEW nx, NEW pv, Linked(S, nx, pv, z),
           NEW x \in S
    PROVE  LET n1 == TakenNext(nx, pv, x)
               p1 == TakenPrev(nx, pv, x) IN
           /\ Linked(S \ {x}, n1, p1, z)
           /\ Slot(S \ {x}, n1, p1, x)
           /\ Kept(S, nx, n1, z) /\ Kept(S, pv, p1, z)
<1> DEFINE a == nx[x]
           b == pv[x]
           n1 == TakenNext(nx, pv, x)
           p1 == TakenPrev(nx, pv, x)
<1>1. IsNext(S, x, a) /\ IsPrev(S, x, b)
  BY Zenon DEF Linked
<1>2. /\ a # Nil => a \in S /\ a \in 0 .. z /\ a # 0
      /\ a # x /\ b # x /\ b \in S \union {0} /\ b \in 0 .. z /\ x \in 0 .. z
  <2> HIDE DEF a, b
  <2>. QED  BY <1>1, Neighbours, Zenon
<1>0. /\ n1 = Change(nx, b, a)
      /\ p1 = IF a = Nil THEN pv ELSE Change(pv, a, b)
  BY Zenon DEF TakenNext, TakenPrev
<1> HIDE DEF n1, p1
<1>3. n1[b] = a /\ \A y \in 0 .. z : y # b => n1[y] = nx[y]
  BY <1>0, <1>2, Zenon DEF Linked, Change
<1>4. /\ a # Nil => p1[a] = b
      /\ \A y \in 0 .. z : y # a => p1[y] = pv[y]
  <2>1. CASE a = Nil
    BY <1>0, <2>1, Zenon
  <2>2. CASE a # Nil
    <3>1. p1 = Change(pv, a, b)
      BY <1>0, <2>2, Zenon
    <3>. QED  BY <1>2, <2>2, <3>1, Zenon DEF Linked, Change
  <2>. QED  BY <2>1, <2>2, Zenon
<1>5. /\ n1 \in [0 .. z -> (0 .. z) \union {Nil}]
      /\ p1 \in [0 .. z -> (0 .. z) \union {Nil}]
  BY <1>0, <1>2, Zenon DEF Linked, Change
<1>6. /\ IsNext(S \ {x}, b, a) /\ (a # Nil => IsPrev(S \ {x}, a, b))
      /\ IsNext(S \ {x}, x, a) /\ IsPrev(S \ {x}, x, b)
      /\ \A n \in (S \ {x}) \union {0} : \A c :
             n # b /\ IsNext(S, n, c) => IsNext(S \ {x}, n, c)
      /\ \A n \in S \ {x} : \A c :
             n # a /\ IsPrev(S, n, c) => IsPrev(S \ {x}, n, c)
  <2> HIDE DEF a, b
  <2>. QED  BY <1>1, Without, Zenon
<1>7. \A n \in S \union {0} : n \in 0 .. z
  OBVIOUS
<1>8. ASSUME NEW n \in (S \ {x}) \union {0} PROVE IsNext(S \ {x}, n, n1[n])
  <2>1. IsNext(S, n, nx[n]) /\ n \in 0 .. z
    BY <1>7, Zenon DEF Linked
  <2>. QED  BY <1>3, <1>6, <2>1, Zenon
<1>9. ASSUME NEW n \in S \ {x} PROVE IsPrev(S \ {x}, n, p1[n])
  <2>1. IsPrev(S, n, pv[n]) /\ n \in 0 .. z /\ n # Nil
    BY <1>7, NilAssumption DEF Linked
  <2>. QED  BY <1>4, <1>6, <2>1, Zenon
<1>10. Slot(S \ {x}, n1, p1, x)
  BY <1>2, <1>3, <1>4, <1>6, Zenon DEF Slot
<1>11. ASSUME NEW y \in 0 .. z, y \notin S, y # 0 PROVE n1[y] = nx[y] /\ p1[y] = pv[y]
  <2>1. y # Nil
    BY NilAssumption
  <2>. QED  BY <1>2, <1>3, <1>4, <1>11, <2>1, Zenon
<1>. QED  BY <1>5, <1>8, <1>9, <1>10, <1>11, Zenon DEF Linked, Kept, n1, p1

\* Putting it back between the neighbours it remembers.
LEMMA Insert ==
    ASSUME NEW z \in Nat, NEW S \in SUBSET (1 .. z), NEW nx, NEW pv, Linked(S, nx, pv, z),
           NEW x \in 1 .. z, x \notin S, Slot(S, nx, pv, x)
    PROVE  LET n1 == PutNext(nx, pv, x)
               p1 == PutPrev(nx, pv, x) IN
           /\ Linked(S \union {x}, n1, p1, z)
           /\ Kept(S, nx, n1, z) /\ Kept(S, pv, p1, z)
<1> DEFINE a == nx[x]
           b == pv[x]
           n1 == PutNext(nx, pv, x)
           p1 == PutPrev(nx, pv, x)
<1>1. IsNext(S, x, a) /\ IsPrev(S, x, b)
  BY Zenon DEF Slot
<1>2. /\ a # Nil => a \in S /\ a \in 0 .. z /\ a # 0
      /\ a # x /\ b # x /\ b \in S \union {0} /\ b \in 0 .. z /\ x \in 0 .. z
  <2> HIDE DEF a, b
  <2>. QED  BY <1>1, Neighbours, Zenon
<1>0. /\ n1 = Change(nx, b, x)
      /\ p1 = IF a = Nil THEN pv ELSE Change(pv, a, x)
  BY Zenon DEF PutNext, PutPrev
<1> HIDE DEF n1, p1
<1>3. n1[b] = x /\ \A y \in 0 .. z : y # b => n1[y] = nx[y]
  BY <1>0, <1>2, Zenon DEF Linked, Change
<1>4. /\ a # Nil => p1[a] = x
      /\ \A y \in 0 .. z : y # a => p1[y] = pv[y]
  <2>1. CASE a = Nil
    BY <1>0, <2>1, Zenon
  <2>2. CASE a # Nil
    <3>1. p1 = Change(pv, a, x)
      BY <1>0, <2>2, Zenon
    <3>. QED  BY <1>2, <2>2, <3>1, Zenon DEF Linked, Change
  <2>. QED  BY <2>1, <2>2, Zenon
<1>5. /\ n1 \in [0 .. z -> (0 .. z) \union {Nil}]
      /\ p1 \in [0 .. z -> (0 .. z) \union {Nil}]
  BY <1>0, <1>2, Zenon DEF Linked, Change
<1>6. /\ IsNext(S \union {x}, b, x) /\ IsPrev(S \union {x}, x, b)
      /\ IsNext(S \union {x}, x, a) /\ (a # Nil => IsPrev(S \union {x}, a, x))
      /\ \A n \in S \union {0} : \A c :
             n # b /\ IsNext(S, n, c) => IsNext(S \union {x}, n, c)
      /\ \A n \in S : \A c :
             n # a /\ IsPrev(S, n, c) => IsPrev(S \union {x}, n, c)
  <2> HIDE DEF a, b
  <2>. QED  BY <1>1, With, Zenon
<1>7. \A n \in S \union {0} : n \in 0 .. z
  OBVIOUS
<1>8. ASSUME NEW n \in S \union {x} \union {0} PROVE IsNext(S \union {x}, n, n1[n])
  <2>1. CASE n = x
    BY <1>2, <1>3, <1>6, <2>1, Zenon
  <2>2. CASE n # x
    <3>1. IsNext(S, n, nx[n]) /\ n \in 0 .. z /\ n \in S \union {0}
      BY <1>7, <2>2, Zenon DEF Linked
    <3>. QED  BY <1>3, <1>6, <3>1, Zenon
  <2>. QED  BY <2>1, <2>2, Zenon
<1>9. ASSUME NEW n \in S \union {x} PROVE IsPrev(S \union {x}, n, p1[n])
  <2>1. CASE n = x
    BY <1>2, <1>4, <1>6, <2>1, Zenon
  <2>2. CASE n # x
    <3>1. IsPrev(S, n, pv[n]) /\ n \in 0 .. z /\ n # Nil /\ n \in S
      BY <1>7, <2>2, NilAssumption DEF Linked
    <3>. QED  BY <1>4, <1>6, <3>1, Zenon
  <2>. QED  BY <2>1, <2>2, Zenon
<1>10. ASSUME NEW y \in 0 .. z, y \notin S, y # 0 PROVE n1[y] = nx[y] /\ p1[y] = pv[y]
  <2>1. y # Nil
    BY NilAssumption
  <2>. QED  BY <1>2, <1>3, <1>4, <1>10, <2>1, Zenon
<1>. QED  BY <1>5, <1>8, <1>9, <1>10, Zenon DEF Linked, Kept, n1, p1

\* Lift takes two nodes out, the call a and the return b behind it.
LEMMA TakeTwo ==
    ASSUME NEW z \in Nat, NEW S \in SUBSET (1 .. z), NEW nx, NEW pv, Linked(S, nx, pv, z),
           NEW a \in S, NEW b \in S \ {a}
    PROVE  LET n2 == LiftNext(nx, pv, a, b)
               p2 == LiftPrev(nx, pv, a, b) IN
           /\ Linked((S \ {a}) \ {b}, n2, p2, z)
           /\ Slot((S \ {a}) \ {b}, n2, p2, b) /\ Slot(S \ {a}, n2, p2, a)
           /\ Kept(S, nx, n2, z) /\ Kept(S, pv, p2, z)
<1> DEFINE n1 == TakenNext(nx, pv, a)
           p1 == TakenPrev(nx, pv, a)
           n2 == LiftNext(nx, pv, a, b)
           p2 == LiftPrev(nx, pv, a, b)
<1>0. /\ n1 = TakenNext(nx, pv, a) /\ p1 = TakenPrev(nx, pv, a)
      /\ n2 = TakenNext(n1, p1, b) /\ p2 = TakenPrev(n1, p1, b)
  BY Zenon DEF LiftNext, LiftPrev
<1> HIDE DEF n1, p1, n2, p2
<1>1. /\ Linked(S \ {a}, n1, p1, z) /\ Slot(S \ {a}, n1, p1, a)
      /\ Kept(S, nx, n1, z) /\ Kept(S, pv, p1, z)
  BY <1>0, Remove, Zenon
<1> DEFINE T == S \ {a}
<1>2. T \in SUBSET (1 .. z) /\ b \in T /\ Linked(T, n1, p1, z)
  BY <1>1, Zenon
<1>3. a \in 0 .. z /\ a \notin T /\ a # 0
  OBVIOUS
<1> HIDE DEF T
<1>4. /\ Linked(T \ {b}, n2, p2, z) /\ Slot(T \ {b}, n2, p2, b)
      /\ Kept(T, n1, n2, z) /\ Kept(T, p1, p2, z)
  BY <1>0, <1>2, Remove, Zenon
<1>5. n2[a] = n1[a] /\ p2[a] = p1[a]
  BY <1>3, <1>4, Zenon DEF Kept
<1>6. Slot(S \ {a}, n2, p2, a)
  BY <1>1, <1>5, Zenon DEF Slot
<1>7. ASSUME NEW y \in 0 .. z, y \notin S, y # 0 PROVE n2[y] = nx[y] /\ p2[y] = pv[y]
  <2>2. y \notin T
    BY <1>7, Zenon DEF T
  <2>3. n2[y] = n1[y] /\ n1[y] = nx[y] /\ p2[y] = p1[y] /\ p1[y] = pv[y]
    BY <1>1, <1>4, <1>7, <2>2, Zenon DEF Kept
  <2>. QED  BY <2>3, Zenon
<1>. QED  BY <1>4, <1>6, <1>7, Zenon DEF T, Kept, n2, p2

\* Unlift puts them back in the opposite order.
LEMMA PutTwo ==
    ASSUME NEW z \in Nat, NEW S \in SUBSET (1 .. z), NEW nx, NEW pv, Linked(S, nx, pv, z),
           NEW b \in 1 .. z, b \notin S, Slot(S, nx, pv, b),
           NEW a \in 1 .. z, a \notin S \union {b}, Slot(S \union {b}, nx, pv, a)
    PROVE  LET n2 == UnliftNext(nx, pv, a, b)
               p2 == UnliftPrev(nx, pv, a, b) IN
           /\ IsNext(S \union {b}, a, PutNext(nx, pv, b)[a])
           /\ Linked((S \union {b}) \union {a}, n2, p2, z)
           /\ Kept((S \union {b}) \union {a}, nx, n2, z) /\ Kept((S \union {b}) \union {a}, pv, p2, z)
<1> DEFINE n1 == PutNext(nx, pv, b)
           p1 == PutPrev(nx, pv, b)
           n2 == UnliftNext(nx, pv, a, b)
           p2 == UnliftPrev(nx, pv, a, b)
<1>0. /\ n1 = PutNext(nx, pv, b) /\ p1 = PutPrev(nx, pv, b)
      /\ n2 = PutNext(n1, p1, a) /\ p2 = PutPrev(n1, p1, a)
  BY Zenon DEF UnliftNext, UnliftPrev
<1> HIDE DEF n1, p1, n2, p2
<1>1. /\ Linked(S \union {b}, n1, p1, z)
      /\ Kept(S, nx, n1, z) /\ Kept(S, pv, p1, z)
  BY <1>0, Insert, Zenon
<1> DEFINE T == S \union {b}
<1>2. T \in SUBSET (1 .. z) /\ a \notin T /\ Linked(T, n1, p1, z)
  BY <1>1, Zenon
<1>3. a \in 0 .. z /\ a \notin S /\ a # 0
  OBVIOUS
<1>4. Slot(T, n1, p1, a)
  BY <1>1, <1>3, Zenon DEF Slot, Kept
<1> HIDE DEF T
<1>5. /\ Linked(T \union {a}, n2, p2, z)
      /\ Kept(T, n1, n2, z) /\ Kept(T, p1, p2, z)
  BY <1>0, <1>2, <1>4, Insert, Zenon
<1>6. ASSUME NEW y \in 0 .. z, y \notin (S \union {b}) \union {a}, y # 0
      PROVE  n2[y] = nx[y] /\ p2[y] = pv[y]
  <2>2. y \notin T /\ y \notin S
    BY <1>6, Zenon DEF T
  <2>3. n2[y] = n1[y] /\ n1[y] = nx[y] /\ p2[y] = p1[y] /\ p1[y] = pv[y]
    BY <1>1, <1>5, <1>6, <2>2, Zenon DEF Kept
  <2>. QED  BY <2>3, Zenon
<1>. QED  BY <1>4, <1>5, <1>6, Zenon DEF T, Slot, Kept, n1, n2, p2

----------------------------------------------------------------------------
(* Bitsets *)

\* The word and the bit of an id.
WordOf(id) == (id - 1) \div Word

BitOf(id) == (id - 1) % Word

\* A bitset for n ids, and the ids whose bits are set.
BitsType(b, n) == b \in [0 .. Chunks(n) - 1 -> SUBSET (0 .. Word - 1)]

Ones(b, n) == {id \in 1 .. n : BitOf(id) \in b[WordOf(id)]}

\* Division with remainder.
LEMMA Halves ==
    ASSUME NEW a \in Nat
    PROVE  \E q \in Nat, r \in 0 .. Word - 1 :
               a \div Word = q /\ a % Word = r /\ a = q * Word + r
<1> DEFINE q == a \div Word
           r == a % Word
<1>1. Word \in Nat /\ Word > 0
  BY SizeAssumption
<1>2. q \in Nat
  BY <1>1
<1>3. r = a - q * Word
  BY <1>1
<1>4. r \in 0 .. Word - 1
  BY <1>1
<1>5. a \div Word = q /\ a % Word = r
  OBVIOUS
<1> HIDE DEF q, r
<1>6. q * Word \in Nat
  BY <1>1, <1>2
<1>7. a = q * Word + r
  BY <1>3, <1>6
<1>. QED  BY <1>2, <1>4, <1>5, <1>7, Zenon

\* Word and bit determine an id.
LEMMA Place ==
    ASSUME NEW id \in Nat, id >= 1
    PROVE  /\ WordOf(id) \in Nat /\ BitOf(id) \in 0 .. Word - 1
           /\ id - 1 = WordOf(id) * Word + BitOf(id)
<1>1. id - 1 \in Nat
  OBVIOUS
<1>2. PICK q \in Nat, r \in 0 .. Word - 1 :
          (id - 1) \div Word = q /\ (id - 1) % Word = r /\ id - 1 = q * Word + r
  BY <1>1, Halves, Zenon
<1>3. WordOf(id) = q /\ BitOf(id) = r
  BY <1>2, Zenon DEF WordOf, BitOf
<1>. QED  BY <1>2, <1>3, Zenon

\* An operation has one call and one return in the list.
LEMMA HalvesUnique ==
    ASSUME NEW c \in Int, NEW d \in Int, NEW r \in 0 .. Word - 1, NEW s \in 0 .. Word - 1,
           NEW a, a = c * Word + r, a = d * Word + s
    PROVE  c = d /\ r = s
<1>1. Word \in Int /\ Word > 0
  BY SizeAssumption
<1>2. \A x, y \in Int : x < y => x * Word + Word <= y * Word
  <2> TAKE x, y \in Int
  <2> HAVE x < y
  <2>1. y - x >= 1 /\ y - x \in Int
    OBVIOUS
  <2>2. (y - x) * Word >= Word
    BY <1>1, <2>1
  <2>3. (y - x) * Word = y * Word - x * Word
    BY <1>1
  <2>. QED  BY <1>1, <2>2, <2>3
<1>3. c * Word \in Int /\ d * Word \in Int
  BY <1>1
<1>4. ~(c < d)
  BY <1>1, <1>2, <1>3
<1>5. ~(d < c)
  BY <1>1, <1>2, <1>3
<1>6. c = d
  BY <1>4, <1>5
<1>. QED  BY <1>1, <1>3, <1>6

\* Every id has its place in one of the words.
LEMMA InChunks ==
    ASSUME NEW n \in Nat, NEW id \in 1 .. n
    PROVE  WordOf(id) \in 0 .. Chunks(n) - 1 /\ BitOf(id) \in 0 .. Word - 1
<1> DEFINE c == WordOf(id)
           r == BitOf(id)
<1>1. id \in Nat /\ id >= 1 /\ id <= n /\ Word \in Nat /\ Word > 0
  BY SizeAssumption
<1>2. c \in Nat /\ r \in 0 .. Word - 1 /\ id - 1 = c * Word + r
  BY <1>1, Place, Zenon
<1>3. PICK d \in Nat, s \in 0 .. Word - 1 : n \div Word = d /\ n % Word = s /\ n = d * Word + s
  BY Halves, Zenon
<1>4. Chunks(n) = d + IF s # 0 THEN 1 ELSE 0
  BY <1>3, Zenon DEF Chunks
<1> HIDE DEF c, r
<1>5. c * Word \in Nat /\ d * Word \in Nat
  BY <1>1, <1>2, <1>3
<1>6. c <= d /\ (s = 0 => c < d)
  <2>1. ASSUME c >= d + 1 PROVE FALSE
    <3>1. c * Word >= (d + 1) * Word
      BY <1>1, <1>2, <1>3, <2>1
    <3>2. (d + 1) * Word = d * Word + Word
      BY <1>1, <1>3
    <3>. QED  BY <1>1, <1>2, <1>3, <1>5, <3>1, <3>2
  <2>2. ASSUME c = d, s = 0 PROVE FALSE
    BY <1>1, <1>2, <1>3, <1>5, <2>2
  <2>. QED  BY <1>2, <1>3, <2>1, <2>2
<1>7. c \in 0 .. Chunks(n) - 1
  BY <1>2, <1>3, <1>4, <1>6
<1>. QED  BY <1>2, <1>7 DEF c, r

\* Different ids have different bits.
LEMMA BitsDiffer ==
    ASSUME NEW n \in Nat, NEW i \in 1 .. n, NEW j \in 1 .. n, i # j
    PROVE  WordOf(i) # WordOf(j) \/ BitOf(i) # BitOf(j)
<1>1. i \in Nat /\ i >= 1 /\ j \in Nat /\ j >= 1 /\ i - 1 # j - 1
  OBVIOUS
<1>2. /\ i - 1 = WordOf(i) * Word + BitOf(i)
      /\ j - 1 = WordOf(j) * Word + BitOf(j)
  BY <1>1, Place, Zenon
<1>. QED  BY <1>1, <1>2, Zenon

\* A new bitset has no bit set.
LEMMA NewBits ==
    ASSUME NEW n \in Nat
    PROVE  BitsType(NewBitset(n), n) /\ Ones(NewBitset(n), n) = {}
<1>1. BitsType(NewBitset(n), n)
  BY Zenon DEF BitsType, NewBitset
<1>2. \A id \in 1 .. n : NewBitset(n)[WordOf(id)] = {}
  BY InChunks, Zenon DEF NewBitset
<1>3. \A id \in 1 .. n : ~(BitOf(id) \in NewBitset(n)[WordOf(id)])
  BY <1>2, Zenon
<1>. QED  BY <1>1, <1>3, Zenon DEF Ones

\* set(i) adds i to the set bits.
LEMMA SetBits ==
    ASSUME NEW n \in Nat, NEW b, BitsType(b, n), NEW id \in 1 .. n
    PROVE  BitsType(Set(b, id), n) /\ Ones(Set(b, id), n) = Ones(b, n) \union {id}
<1>1. \A i \in 1 .. n : WordOf(i) \in 0 .. Chunks(n) - 1 /\ BitOf(i) \in 0 .. Word - 1
  BY InChunks, Zenon
<1>2. \A i \in 1 .. n : i # id => WordOf(i) # WordOf(id) \/ BitOf(i) # BitOf(id)
  BY BitsDiffer, Zenon
<1>3. Set(b, id) = [b EXCEPT ![WordOf(id)] = b[WordOf(id)] \union {BitOf(id)}]
  BY Zenon DEF Set, WordOf, BitOf
<1>4. BitsType(Set(b, id), n)
  BY <1>1, <1>3, Zenon DEF BitsType
<1>5. ASSUME NEW i \in 1 .. n
      PROVE  BitOf(i) \in Set(b, id)[WordOf(i)] <=> BitOf(i) \in b[WordOf(i)] \/ i = id
  BY <1>1, <1>2, <1>3, Zenon DEF BitsType
<1>. QED  BY <1>4, <1>5, Zenon DEF Ones

\* clear(i) takes i out of the set bits.
LEMMA ClearBits ==
    ASSUME NEW n \in Nat, NEW b, BitsType(b, n), NEW id \in 1 .. n
    PROVE  BitsType(Clear(b, id), n) /\ Ones(Clear(b, id), n) = Ones(b, n) \ {id}
<1>1. \A i \in 1 .. n : WordOf(i) \in 0 .. Chunks(n) - 1 /\ BitOf(i) \in 0 .. Word - 1
  BY InChunks, Zenon
<1>2. \A i \in 1 .. n : i # id => WordOf(i) # WordOf(id) \/ BitOf(i) # BitOf(id)
  BY BitsDiffer, Zenon
<1>3. Clear(b, id) = [b EXCEPT ![WordOf(id)] = b[WordOf(id)] \ {BitOf(id)}]
  BY Zenon DEF Clear, WordOf, BitOf
<1>4. BitsType(Clear(b, id), n)
  BY <1>1, <1>3, Zenon DEF BitsType
<1>5. ASSUME NEW i \in 1 .. n
      PROVE  BitOf(i) \in Clear(b, id)[WordOf(i)] <=> BitOf(i) \in b[WordOf(i)] /\ i # id
  BY <1>1, <1>2, <1>3, Zenon DEF BitsType
<1>. QED  BY <1>4, <1>5, Zenon DEF Ones

\* The ids as ListIntact reads them off the words.
LEMMA OnesShown ==
    ASSUME NEW n \in Nat, NEW b, BitsType(b, n), NEW id \in 1 .. n
    PROVE  id \in Ones(b, n) <=>
               \E c \in DOMAIN b : id - 1 \in {c * Word + bit : bit \in b[c]}
<1> DEFINE w == WordOf(id)
           x == BitOf(id)
<1>1. id \in Nat /\ id >= 1
  OBVIOUS
<1>2. w \in Nat /\ x \in 0 .. Word - 1 /\ id - 1 = w * Word + x
  BY <1>1, Place, Zenon
<1>3. w \in 0 .. Chunks(n) - 1 /\ DOMAIN b = 0 .. Chunks(n) - 1
  BY InChunks, Zenon DEF BitsType
<1>4. id \in Ones(b, n) <=> x \in b[w]
  BY Zenon DEF Ones
<1> HIDE DEF w, x
<1>5. ASSUME x \in b[w]
      PROVE  \E c \in DOMAIN b : id - 1 \in {c * Word + bit : bit \in b[c]}
  BY <1>2, <1>3, <1>5, Zenon
<1>6. ASSUME NEW c \in DOMAIN b, id - 1 \in {c * Word + bit : bit \in b[c]}
      PROVE  x \in b[w]
  <2>1. PICK bit \in b[c] : id - 1 = c * Word + bit
    BY <1>6, Zenon
  <2>2. bit \in 0 .. Word - 1
    BY <1>3, Zenon DEF BitsType
  <2>3. c \in Int /\ w \in Int
    BY <1>2, <1>3
  <2>4. c = w /\ bit = x
    BY <1>2, <2>1, <2>2, <2>3, HalvesUnique
  <2>. QED  BY <2>4, Zenon
<1>. QED  BY <1>4, <1>5, <1>6, Zenon

----------------------------------------------------------------------------
(* Histories and their entries *)

\* A function on 1 .. n is a sequence of length n.
LEMMA LenIs ==
    ASSUME NEW n \in Nat, NEW S, NEW f \in [1 .. n -> S]
    PROVE  Len(f) = n /\ DOMAIN f = 1 .. n /\ f \in Seq(S)
OBVIOUS

\* What the definition of Bijection says.
LEMMA BijectionIs ==
    ASSUME NEW S, NEW T, NEW f
    PROVE  f \in Bijection(S, T) <=> /\ f \in [S -> T]
                                     /\ \A a, b \in S : f[a] = f[b] => a = b
                                     /\ \A t \in T : \E a \in S : f[a] = t
BY Zenon DEF Bijection, Injection, Surjection, IsInjective

\* A history: every operation is called before it returns.
IsHist(h) ==
    /\ Len(h) \in Nat /\ DOMAIN h = 1 .. Len(h)
    /\ \A i \in DOMAIN h : h[i].call \in Int /\ h[i].return \in Int /\ h[i].call <= h[i].return

\* e lists the calls and returns of h, ordered by time.
Listing(h, e) ==
    /\ Len(e) = 2 * Len(h) /\ DOMAIN e = 1 .. Len(e)
    /\ \A n \in DOMAIN e :
          /\ e[n].id \in DOMAIN h /\ e[n].call \in BOOLEAN /\ e[n].op = h[e[n].id].op
          /\ e[n].call => e[n].time = h[e[n].id].call
          /\ ~e[n].call => e[n].time = h[e[n].id].return
    /\ \A m, n \in DOMAIN e : e[m].id = e[n].id /\ e[m].call = e[n].call => m = n
    /\ \A id \in DOMAIN h : /\ \E n \in DOMAIN e : e[n].id = id /\ e[n].call
                            /\ \E n \in DOMAIN e : e[n].id = id /\ ~e[n].call
    /\ \A m, n \in DOMAIN e : m < n => ~Less(e[n], e[m])

\* makeEntries lists the calls and returns of its history.
LEMMA ListingMade ==
    ASSUME NEW h, IsHist(h), NEW e \in MakeEntries(h)
    PROVE  Listing(h, e)
<1> DEFINE L == Len(h)
           D == 1 .. 2 * L
           rec(i) == LET id == (i + 1) \div 2
                         o  == h[id]
                         c  == i % 2 = 1 IN
                     [id |-> id, call |-> c, time |-> IF c THEN o.call ELSE o.return, op |-> o.op]
           s == [i \in D |-> rec(i)]
<1>1. L \in Nat /\ DOMAIN h = 1 .. L /\ 2 * L \in Nat
  BY DEF IsHist
<1>2. e \in Sorted(s)
  BY Zenon DEF MakeEntries
<1>3. DOMAIN s = D
  OBVIOUS
<1>4. PICK p \in Bijection(D, D) :
          /\ e = [i \in D |-> s[p[i]]]
          /\ \A i, j \in D : i < j => ~Less(s[p[j]], s[p[i]])
  <2> HIDE DEF s, D
  <2>. QED  BY <1>2, <1>3, Zenon DEF Sorted
<1>5. /\ p \in [D -> D] /\ \A i, j \in D : p[i] = p[j] => i = j
      /\ \A i \in D : \E n \in D : p[n] = i
  <2> HIDE DEF D
  <2>. QED  BY BijectionIs, Zenon
<1>6. \A i \in D : /\ s[i].id = (i + 1) \div 2 /\ s[i].call = (i % 2 = 1)
                   /\ s[i].time = IF i % 2 = 1 THEN h[(i + 1) \div 2].call ELSE h[(i + 1) \div 2].return
                   /\ s[i].op = h[(i + 1) \div 2].op
  BY Zenon
<1>7. \A n \in D : e[n] = s[p[n]] /\ p[n] \in D
  BY <1>4, <1>5, Zenon
<1>8. e \in [1 .. 2 * L -> {s[p[i]] : i \in D}]
  BY <1>4, Zenon
<1>9. Len(e) = 2 * L /\ DOMAIN e = 1 .. 2 * L
  BY <1>1, <1>8, LenIs, Zenon
<1> HIDE DEF s
<1>10. \A i \in D : (i + 1) \div 2 \in 1 .. L /\ (i % 2 = 1) \in BOOLEAN
  BY <1>1
<1>11. \A i, j \in D : (i + 1) \div 2 = (j + 1) \div 2 /\ (i % 2 = 1 <=> j % 2 = 1) => i = j
  BY <1>1
<1>12. ASSUME NEW n \in D
       PROVE  /\ e[n].id \in DOMAIN h /\ e[n].call \in BOOLEAN /\ e[n].op = h[e[n].id].op
              /\ e[n].call => e[n].time = h[e[n].id].call
              /\ ~e[n].call => e[n].time = h[e[n].id].return
  <2>1. p[n] \in D /\ e[n] = s[p[n]]
    BY <1>7, Zenon
  <2>2. e[n].id = (p[n] + 1) \div 2 /\ e[n].call = (p[n] % 2 = 1) /\ e[n].op = h[e[n].id].op
    BY <1>6, <2>1, Zenon
  <2>3. e[n].time = IF p[n] % 2 = 1 THEN h[e[n].id].call ELSE h[e[n].id].return
    BY <1>6, <2>1, <2>2, Zenon
  <2>4. e[n].id \in DOMAIN h /\ e[n].call \in BOOLEAN
    BY <1>1, <1>10, <2>1, <2>2, Zenon
  <2>. QED  BY <2>2, <2>3, <2>4, Zenon
<1>13. ASSUME NEW m \in D, NEW n \in D, e[m].id = e[n].id, e[m].call = e[n].call
       PROVE  m = n
  <2>1. p[m] \in D /\ e[m] = s[p[m]] /\ p[n] \in D /\ e[n] = s[p[n]]
    BY <1>7, Zenon
  <2>2. /\ e[m].id = (p[m] + 1) \div 2 /\ e[m].call = (p[m] % 2 = 1)
        /\ e[n].id = (p[n] + 1) \div 2 /\ e[n].call = (p[n] % 2 = 1)
    <3>1. e[m].id = (p[m] + 1) \div 2 /\ e[m].call = (p[m] % 2 = 1)
      BY <1>6, <2>1, Zenon
    <3>2. e[n].id = (p[n] + 1) \div 2 /\ e[n].call = (p[n] % 2 = 1)
      BY <1>6, <2>1, Zenon
    <3>. QED  BY <3>1, <3>2, Zenon
  <2>3. (p[m] + 1) \div 2 = (p[n] + 1) \div 2
    BY <1>13, <2>2, Zenon
  <2>4. p[m] % 2 = 1 <=> p[n] % 2 = 1
    BY <1>13, <2>2, Zenon
  <2>. QED  BY <1>5, <1>11, <2>1, <2>3, <2>4, Zenon
<1>14. ASSUME NEW id \in DOMAIN h
       PROVE  /\ \E n \in D : e[n].id = id /\ e[n].call
              /\ \E n \in D : e[n].id = id /\ ~e[n].call
  <2>1. /\ 2 * id - 1 \in D /\ ((2 * id - 1) + 1) \div 2 = id /\ (2 * id - 1) % 2 = 1
        /\ 2 * id \in D /\ (2 * id + 1) \div 2 = id /\ ~((2 * id) % 2 = 1)
    <3>1. id \in 1 .. L
      BY <1>1
    <3>2. 2 * id - 1 \in D /\ 2 * id \in D
      BY <1>1, <3>1
    <3>3. ((2 * id - 1) + 1) \div 2 = id /\ (2 * id + 1) \div 2 = id
      BY <1>1, <3>1
    <3>4. (2 * id - 1) % 2 = 1 /\ ~((2 * id) % 2 = 1)
      BY <1>1, <3>1
    <3>. QED  BY <3>2, <3>3, <3>4
  <2>2. /\ s[2 * id - 1].id = id /\ s[2 * id - 1].call
        /\ s[2 * id].id = id /\ ~s[2 * id].call
    BY <1>6, <2>1, Zenon
  <2>3. PICK n \in D : p[n] = 2 * id - 1
    BY <1>5, <2>1, Zenon
  <2>4. PICK m \in D : p[m] = 2 * id
    BY <1>5, <2>1, Zenon
  <2>. QED  BY <1>7, <2>2, <2>3, <2>4, Zenon
<1>15. ASSUME NEW m \in D, NEW n \in D, m < n PROVE ~Less(e[n], e[m])
  BY <1>4, <1>7, <1>15, Zenon
<1>. QED  BY <1>9, <1>12, <1>13, <1>14, <1>15, Zenon DEF Listing

\* The list is ordered: an operation is called before it returns, and one operation
\* returns before another is called exactly if its return comes before that call.
LEMMA ListingOrder ==
    ASSUME NEW h, IsHist(h), NEW e, Listing(h, e)
    PROVE  \A m, n \in DOMAIN e :
               ~e[m].call /\ e[n].call =>
                   /\ e[m].id = e[n].id => n < m
                   /\ m < n <=> Before(h, e[m].id, e[n].id)
<1> SUFFICES ASSUME NEW m \in DOMAIN e, NEW n \in DOMAIN e, ~e[m].call, e[n].call
             PROVE  /\ e[m].id = e[n].id => n < m
                    /\ m < n <=> Before(h, e[m].id, e[n].id)
  OBVIOUS
<1>1. /\ e[m].id \in DOMAIN h /\ e[n].id \in DOMAIN h
      /\ e[m].time = h[e[m].id].return /\ e[n].time = h[e[n].id].call
  BY Zenon DEF Listing
<1>2. /\ h[e[m].id].return \in Int /\ h[e[n].id].call \in Int
      /\ e[m].id = e[n].id => h[e[n].id].call <= h[e[m].id].return
  BY <1>1, Zenon DEF IsHist
<1>3. m \in Int /\ n \in Int /\ m # n
  BY DEF Listing
<1>4. (m < n => ~Less(e[n], e[m])) /\ (n < m => ~Less(e[m], e[n]))
  BY Zenon DEF Listing
<1>5. m < n \/ n < m
  BY <1>3
<1>6. Less(e[n], e[m]) <=> h[e[n].id].call <= h[e[m].id].return
  BY <1>1, <1>2 DEF Less
<1>7. Less(e[m], e[n]) <=> h[e[m].id].return < h[e[n].id].call
  BY <1>1, <1>2 DEF Less
<1>8. ~(h[e[m].id].return < h[e[n].id].call /\ h[e[n].id].call <= h[e[m].id].return)
  BY <1>2
<1>9. ~(m < n /\ n < m)
  BY <1>3
<1>10. h[e[m].id].return < h[e[n].id].call \/ h[e[n].id].call <= h[e[m].id].return
  BY <1>2
<1>. QED  BY <1>2, <1>4, <1>5, <1>6, <1>7, <1>8, <1>9, <1>10, Zenon DEF Before

----------------------------------------------------------------------------
(* Ways to go on from a configuration of the search *)

\* Everything that returned before operation i was called is in D.
Ready(h, D, i) == \A j \in DOMAIN h : Before(h, j, i) => j \in D

\* After the operations in D have led to the state st, those of t can take effect,
\* L of them, and f are the states in between.
IsExt(h, D, st, L, t, f) ==
    /\ t \in [1 .. L -> DOMAIN h]
    /\ f[0] = st
    /\ \A p \in 1 .. L :
          /\ t[p] \notin D
          /\ \A q \in 1 .. L : t[p] = t[q] => p = q
          /\ \A j \in DOMAIN h : Before(h, j, t[p]) => j \in D \/ \E q \in 1 .. p - 1 : t[q] = j
          /\ Accepts(f[p - 1], h[t[p]].op)
          /\ f[p] = NewState(f[p - 1], h[t[p]].op)

\* What lg has for operation i is n operations long, or longer.
Long(lg, i, n) == lg[i] # Nil /\ Len(lg[i]) >= n

\* No way to go on from D and st reaches all operations, and lg knows of each one.
Explored(h, D, st, info, lg) ==
    \A L \in Nat : \A t, f : IsExt(h, D, st, L, t, f) =>
        /\ \E i \in DOMAIN h : i \notin D /\ \A p \in 1 .. L : t[p] # i
        /\ info => \A i \in DOMAIN h :
                       i \in D \/ (\E p \in 1 .. L : t[p] = i) => Long(lg, i, Cardinality(D) + L)

\* The first operation of an extension is ready, the others extend what it leads to.
LEMMA Unfold ==
    ASSUME NEW h, NEW D, NEW st, NEW L \in Nat, L # 0, NEW t, NEW f, IsExt(h, D, st, L, t, f)
    PROVE  LET x  == t[1]
               t2 == [p \in 1 .. L - 1 |-> t[p + 1]]
               f2 == [p \in 0 .. L - 1 |-> f[p + 1]] IN
           /\ x \in DOMAIN h /\ x \notin D /\ Ready(h, D, x) /\ Accepts(st, h[x].op)
           /\ IsExt(h, D \union {x}, NewState(st, h[x].op), L - 1, t2, f2)
           /\ \A i : (\E p \in 1 .. L : t[p] = i) <=> i = x \/ \E p \in 1 .. L - 1 : t2[p] = i
<1> DEFINE x  == t[1]
           t2 == [p \in 1 .. L - 1 |-> t[p + 1]]
           f2 == [p \in 0 .. L - 1 |-> f[p + 1]]
<1>1. /\ 1 \in 1 .. L /\ L - 1 \in Nat /\ 1 - 1 = 0
      /\ \A p \in 1 .. L - 1 : p + 1 \in 1 .. L /\ p + 1 # 1 /\ p \in 0 .. L - 1 /\ p - 1 \in 0 .. L - 1
                               /\ (p + 1) - 1 = p /\ (p - 1) + 1 = p
      /\ 0 \in 0 .. L - 1 /\ 0 + 1 = 1
      /\ \A q \in 1 .. 1 - 1 : FALSE
  OBVIOUS
<1>2. /\ x \in DOMAIN h /\ x \notin D /\ Accepts(st, h[x].op)
      /\ f[1] = NewState(st, h[x].op)
  BY <1>1, Zenon DEF IsExt
<1>3. Ready(h, D, x)
  BY <1>1, Zenon DEF IsExt, Ready
<1>4. \A p \in 1 .. L - 1 : t2[p] = t[p + 1] /\ f2[p] = f[p + 1] /\ f2[p - 1] = f[p]
  BY <1>1, Zenon
<1>5. t2 \in [1 .. L - 1 -> DOMAIN h] /\ f2[0] = NewState(st, h[x].op)
  BY <1>1, <1>2, Zenon DEF IsExt
<1>6. ASSUME NEW p \in 1 .. L - 1
      PROVE  /\ t2[p] \notin D \union {x}
             /\ \A q \in 1 .. L - 1 : t2[p] = t2[q] => p = q
             /\ \A j \in DOMAIN h : Before(h, j, t2[p]) =>
                    j \in D \union {x} \/ \E q \in 1 .. p - 1 : t2[q] = j
             /\ Accepts(f2[p - 1], h[t2[p]].op)
             /\ f2[p] = NewState(f2[p - 1], h[t2[p]].op)
  <2>1. p + 1 \in 1 .. L /\ p + 1 # 1 /\ (p + 1) - 1 = p
    BY <1>1, Zenon
  <2>2. t[p + 1] \notin D /\ t[p + 1] # x
    BY <1>1, <2>1, Zenon DEF IsExt
  <2>3. ASSUME NEW q \in 1 .. L - 1, t2[p] = t2[q] PROVE p = q
    <3>1. t[p + 1] = t[q + 1] /\ q + 1 \in 1 .. L
      BY <1>1, <1>4, <2>3, Zenon
    <3>2. p + 1 = q + 1
      BY <2>1, <3>1, Zenon DEF IsExt
    <3>. QED  BY <3>2
  <2>4. ASSUME NEW j \in DOMAIN h, Before(h, j, t2[p]), j \notin D, j # x
        PROVE  \E q \in 1 .. p - 1 : t2[q] = j
    <3>1. PICK q \in 1 .. (p + 1) - 1 : t[q] = j
      BY <1>4, <2>1, <2>4, Zenon DEF IsExt
    <3>2. q # 1
      BY <2>4, <3>1
    <3>3. q - 1 \in 1 .. p - 1 /\ q - 1 \in 1 .. L - 1 /\ (q - 1) + 1 = q
      BY <3>2
    <3>. QED  BY <1>4, <3>1, <3>3, Zenon
  <2>5. Accepts(f[p], h[t[p + 1]].op) /\ f[p + 1] = NewState(f[p], h[t[p + 1]].op)
    BY <2>1, Zenon DEF IsExt
  <2>. QED  BY <1>4, <2>2, <2>3, <2>4, <2>5, Zenon
<1>7. IsExt(h, D \union {x}, NewState(st, h[x].op), L - 1, t2, f2)
  <2> HIDE DEF x, t2, f2
  <2>. QED  BY <1>5, <1>6, Zenon DEF IsExt
<1>8. ASSUME NEW i
      PROVE  (\E p \in 1 .. L : t[p] = i) <=> i = x \/ \E p \in 1 .. L - 1 : t2[p] = i
  <2>1. ASSUME NEW p \in 1 .. L, t[p] = i, i # x PROVE \E q \in 1 .. L - 1 : t2[q] = i
    <3>1. p # 1
      BY <2>1
    <3>2. p - 1 \in 1 .. L - 1 /\ (p - 1) + 1 = p
      BY <3>1
    <3>. QED  BY <1>4, <2>1, <3>2, Zenon
  <2>2. ASSUME NEW q \in 1 .. L - 1, t2[q] = i PROVE \E p \in 1 .. L : t[p] = i
    BY <1>1, <1>4, <2>2, Zenon
  <2>. QED  BY <1>1, <2>1, <2>2, Zenon
<1>. QED  BY <1>2, <1>3, <1>7, <1>8, Zenon

\* A configuration is explored once all that can come next is.
LEMMA ExploredUp ==
    ASSUME NEW h, NEW D, IsFiniteSet(D), NEW st, NEW info, NEW lg,
           \A x \in DOMAIN h : x \notin D /\ Ready(h, D, x) /\ Accepts(st, h[x].op) =>
               Explored(h, D \union {x}, NewState(st, h[x].op), info, lg),
           \E i \in DOMAIN h : i \notin D,
           info => \A i \in DOMAIN h : i \in D => Long(lg, i, Cardinality(D))
    PROVE  Explored(h, D, st, info, lg)
<1> DEFINE Good(L, t, E) ==
               /\ \E i \in DOMAIN h : i \notin E /\ \A p \in 1 .. L : t[p] # i
               /\ info => \A i \in DOMAIN h :
                       i \in E \/ (\E p \in 1 .. L : t[p] = i) => Long(lg, i, Cardinality(E) + L)
<1> SUFFICES ASSUME NEW L \in Nat, NEW t, NEW f, IsExt(h, D, st, L, t, f) PROVE Good(L, t, D)
  BY Zenon DEF Explored
<1>1. Cardinality(D) \in Nat
  BY FS_CardinalityType, Zenon
<1>2. CASE L = 0
  <2>1. Cardinality(D) + L = Cardinality(D) /\ \A p \in 1 .. L : FALSE
    BY <1>1, <1>2
  <2>. QED  BY <2>1, Zenon
<1>3. CASE L # 0
  <2> DEFINE x  == t[1]
             t2 == [p \in 1 .. L - 1 |-> t[p + 1]]
             f2 == [p \in 0 .. L - 1 |-> f[p + 1]]
  <2>1. /\ x \in DOMAIN h /\ x \notin D /\ Ready(h, D, x) /\ Accepts(st, h[x].op)
        /\ IsExt(h, D \union {x}, NewState(st, h[x].op), L - 1, t2, f2)
        /\ \A i : (\E p \in 1 .. L : t[p] = i) <=> i = x \/ \E p \in 1 .. L - 1 : t2[p] = i
    BY <1>3, Unfold, Zenon
  <2> HIDE DEF x, t2, f2
  <2>2. L - 1 \in Nat
    BY <1>3
  <2>3. Good(L - 1, t2, D \union {x})
    BY <2>1, <2>2, Zenon DEF Explored
  <2>4. Cardinality(D \union {x}) = Cardinality(D) + 1
    BY <2>1, FS_AddElement, Zenon
  <2>5. Cardinality(D \union {x}) + (L - 1) = Cardinality(D) + L
    BY <1>1, <2>4
  <2>. QED  BY <2>1, <2>3, <2>5, Zenon
<1>. QED  BY <1>2, <1>3, Zenon

\* It stays explored while lg grows.
LEMMA ExploredMore ==
    ASSUME NEW h, NEW D, IsFiniteSet(D), NEW st, NEW info, NEW lg, NEW lg2,
           Explored(h, D, st, info, lg),
           info => \A i \in DOMAIN h : \A n \in Nat : Long(lg, i, n) => Long(lg2, i, n)
    PROVE  Explored(h, D, st, info, lg2)
<1>1. \A L \in Nat : Cardinality(D) + L \in Nat
  BY FS_CardinalityType
<1>. QED  BY <1>1, Zenon DEF Explored

----------------------------------------------------------------------------
(* The stack of linearized calls *)

IsSeq(c) == \E S : c \in Seq(S)

\* The ids of the first j calls of the stack, and the nodes of all other ids.
DoneAt(e, c, j) == {e[c[i].entry].id : i \in 1 .. j}

Left(e, c, j) == {n \in DOMAIN e : e[n].id \notin DoneAt(e, c, j)}

\* The state after j calls.
StateAt(c, st, j) == IF j = Len(c) THEN st ELSE c[j + 1].state

\* The return that belongs to the call a.
Return(e, a) == CHOOSE m \in DOMAIN e : e[m].id = e[a].id /\ ~e[m].call

\* The stack is a way to linearize operations: each one is ready when it is taken.
Stack(e, c, st) ==
    /\ IsSeq(c)
    /\ StateAt(c, st, 0) = InitState
    /\ \A i \in 1 .. Len(c) :
          /\ c[i].entry \in DOMAIN e /\ e[c[i].entry].call
          /\ e[c[i].entry].id \notin DoneAt(e, c, i - 1)
          /\ Accepts(c[i].state, e[c[i].entry].op)
          /\ StateAt(c, st, i) = NewState(c[i].state, e[c[i].entry].op)
          /\ \A n \in Left(e, c, i - 1) : n < c[i].entry => e[n].call

LEMMA SeqIs ==
    ASSUME NEW c, IsSeq(c)
    PROVE  Len(c) \in Nat /\ DOMAIN c = 1 .. Len(c)
BY DEF IsSeq

\* append, seen from the elements.
LEMMA Push ==
    ASSUME NEW c, IsSeq(c), NEW x
    PROVE  /\ IsSeq(Append(c, x)) /\ Len(Append(c, x)) = Len(c) + 1
           /\ Append(c, x)[Len(c) + 1] = x
           /\ \A i \in 1 .. Len(c) : Append(c, x)[i] = c[i]
<1>1. PICK S : c \in Seq(S)
  BY DEF IsSeq
<1>2. c \in Seq(S \union {x})
  BY <1>1
<1>3. Append(c, x) \in Seq(S \union {x})
  BY <1>2
<1>. QED  BY <1>2, <1>3 DEF IsSeq

\* calls[:len(calls)-1], seen from the elements.
LEMMA Pop ==
    ASSUME NEW c, IsSeq(c), c # <<>>
    PROVE  /\ Len(c) \in Nat \ {0}
           /\ IsSeq(SubSeq(c, 1, Len(c) - 1)) /\ Len(SubSeq(c, 1, Len(c) - 1)) = Len(c) - 1
           /\ \A i \in 1 .. Len(c) - 1 : SubSeq(c, 1, Len(c) - 1)[i] = c[i]
<1>1. PICK S : c \in Seq(S)
  BY DEF IsSeq
<1>2. Len(c) \in Nat \ {0}
  BY <1>1
<1>3. SubSeq(c, 1, Len(c) - 1) = [i \in 1 .. Len(c) - 1 |-> c[i]]
  BY <1>1, <1>2
<1>4. [i \in 1 .. Len(c) - 1 |-> c[i]] \in [1 .. Len(c) - 1 -> S]
  BY <1>1, <1>2
<1>5. /\ SubSeq(c, 1, Len(c) - 1) \in Seq(S)
      /\ Len(SubSeq(c, 1, Len(c) - 1)) = Len(c) - 1
  <2>1. Len(c) - 1 \in Nat
    BY <1>2
  <2>2. SubSeq(c, 1, Len(c) - 1) \in [1 .. Len(c) - 1 -> S]
    BY <1>3, <1>4, Zenon
  <2>. QED  BY <2>1, <2>2, LenIs, Zenon
<1>6. \A i \in 1 .. Len(c) - 1 : SubSeq(c, 1, Len(c) - 1)[i] = c[i]
  BY <1>3, Zenon
<1>. QED  BY <1>2, <1>5, <1>6, Zenon DEF IsSeq

\* c and d have the same first n elements.
Agree(c, d, n) == \A i \in 1 .. n : d[i] = c[i]

\* The stack with one more call, and with one less.
Pushed(c, a, st) == Append(c, [entry |-> a, state |-> st])

Popped(c) == SubSeq(c, 1, Len(c) - 1)

\* The ids of the first calls depend on nothing else.
LEMMA SameDone ==
    ASSUME NEW e, NEW c, NEW d, NEW n \in Nat, Agree(c, d, n), NEW j \in 0 .. n
    PROVE  DoneAt(e, d, j) = DoneAt(e, c, j) /\ Left(e, d, j) = Left(e, c, j)
<1>1. \A i \in 1 .. j : d[i] = c[i]
  BY DEF Agree
<1>2. DoneAt(e, d, j) = DoneAt(e, c, j)
  BY <1>1, Zenon DEF DoneAt
<1>. QED  BY <1>2, Zenon DEF Left

\* One more call on the stack: one more operation is done.
LEMMA DoneNext ==
    ASSUME NEW e, NEW c, NEW j \in Nat, j # 0
    PROVE  DoneAt(e, c, j) = DoneAt(e, c, j - 1) \union {e[c[j].entry].id}
<1>1. \A i : i \in 1 .. j <=> i \in 1 .. j - 1 \/ i = j
  OBVIOUS
<1>2. ASSUME NEW x \in DoneAt(e, c, j) PROVE x \in DoneAt(e, c, j - 1) \union {e[c[j].entry].id}
  BY <1>1, Zenon DEF DoneAt
<1>3. ASSUME NEW x \in DoneAt(e, c, j - 1) \union {e[c[j].entry].id} PROVE x \in DoneAt(e, c, j)
  BY <1>1, Zenon DEF DoneAt
<1>. QED  BY <1>2, <1>3, Zenon

\* Nothing is done with an empty stack.
LEMMA DoneNone ==
    ASSUME NEW e, NEW c
    PROVE  DoneAt(e, c, 0) = {} /\ Left(e, c, 0) = DOMAIN e
<1>1. \A i \in 1 .. 0 : FALSE
  OBVIOUS
<1>2. DoneAt(e, c, 0) = {}
  BY <1>1, Zenon DEF DoneAt
<1>. QED  BY <1>2, Zenon DEF Left

\* What is done stays done further up the stack.
LEMMA DoneGrows ==
    ASSUME NEW e, NEW c, NEW j \in Nat, NEW i \in 0 .. j
    PROVE  DoneAt(e, c, i) \subseteq DoneAt(e, c, j) /\ Left(e, c, j) \subseteq Left(e, c, i)
<1>1. \A n \in 1 .. i : n \in 1 .. j
  OBVIOUS
<1>2. DoneAt(e, c, i) \subseteq DoneAt(e, c, j)
  BY <1>1, Zenon DEF DoneAt
<1>. QED  BY <1>2, Zenon DEF Left

\* The return of a call is behind it.
LEMMA ReturnIs ==
    ASSUME NEW h, IsHist(h), NEW e, Listing(h, e), NEW a \in DOMAIN e, e[a].call
    PROVE  /\ Return(e, a) \in DOMAIN e /\ e[Return(e, a)].id = e[a].id /\ ~e[Return(e, a)].call
           /\ a < Return(e, a) /\ a # Return(e, a)
<1>1. \E m \in DOMAIN e : e[m].id = e[a].id /\ ~e[m].call
  BY Zenon DEF Listing
<1>2. Return(e, a) \in DOMAIN e /\ e[Return(e, a)].id = e[a].id /\ ~e[Return(e, a)].call
  BY <1>1, Zenon DEF Return
<1>3. a < Return(e, a)
  BY <1>2, ListingOrder, Zenon
<1>. QED  BY <1>2, <1>3, Zenon

\* The nodes left after one more call: without the call and its return.
LEMMA LeftNext ==
    ASSUME NEW h, IsHist(h), NEW e, Listing(h, e), NEW c, NEW j \in Nat, j # 0,
           NEW a \in DOMAIN e, c[j].entry = a, e[a].call, e[a].id \notin DoneAt(e, c, j - 1)
    PROVE  LET b == Return(e, a) IN
           /\ a \in Left(e, c, j - 1) /\ b \in Left(e, c, j - 1) \ {a}
           /\ Left(e, c, j) = (Left(e, c, j - 1) \ {a}) \ {b}
           /\ Left(e, c, j) \union {b} = Left(e, c, j - 1) \ {a}
           /\ (Left(e, c, j) \union {b}) \union {a} = Left(e, c, j - 1)
           /\ a \notin Left(e, c, j) \union {b} /\ b \notin Left(e, c, j)
<1> DEFINE b == Return(e, a)
<1>1. b \in DOMAIN e /\ e[b].id = e[a].id /\ ~e[b].call /\ a # b
  BY ReturnIs
<1> HIDE DEF b
<1>2. a \in Left(e, c, j - 1) /\ b \in Left(e, c, j - 1) \ {a}
  BY <1>1, Zenon DEF Left
<1>3. ASSUME NEW n \in DOMAIN e, e[n].id = e[a].id PROVE n = a \/ n = b
  <2>1. e[n].call \in BOOLEAN /\ e[a].call \in BOOLEAN /\ e[b].call \in BOOLEAN
    BY <1>1, Zenon DEF Listing
  <2>2. e[n].call = e[a].call \/ e[n].call = e[b].call
    BY <1>1, <2>1, Zenon
  <2>3. CASE e[n].call = e[a].call
    BY <1>3, <2>3, Zenon DEF Listing
  <2>4. CASE e[n].call = e[b].call
    <3>1. e[n].id = e[b].id
      BY <1>1, <1>3, Zenon
    <3>. QED  BY <1>1, <2>4, <3>1, Zenon DEF Listing
  <2>. QED  BY <2>2, <2>3, <2>4, Zenon
<1>4. Left(e, c, j) = (Left(e, c, j - 1) \ {a}) \ {b}
  <2>1. DoneAt(e, c, j) = DoneAt(e, c, j - 1) \union {e[a].id}
    BY DoneNext
  <2>. QED  BY <1>1, <1>3, <2>1, Zenon DEF Left
<1> DEFINE A == Left(e, c, j - 1)
           B == Left(e, c, j)
<1>5. a \in A /\ b \in A /\ a # b /\ B = (A \ {a}) \ {b}
  BY <1>2, <1>4, Zenon
<1> HIDE DEF A, B
<1>6. /\ B \union {b} = A \ {a} /\ (B \union {b}) \union {a} = A
      /\ a \notin B \union {b} /\ b \notin B
  BY <1>5
<1>. QED  BY <1>2, <1>4, <1>6 DEF A, B, b

\* All nodes of S before a are calls.
OnlyCalls(e, S, a) == \A n \in S : n < a => e[n].call

\* Pushing a call that is ready.
LEMMA StackPush ==
    ASSUME NEW e, NEW c, NEW st, Stack(e, c, st),
           NEW a \in Left(e, c, Len(c)), e[a].call, Accepts(st, e[a].op),
           OnlyCalls(e, Left(e, c, Len(c)), a)
    PROVE  LET d == Pushed(c, a, st) IN
           /\ Stack(e, d, NewState(st, e[a].op)) /\ Len(d) = Len(c) + 1
           /\ d[Len(d)].entry = a /\ d[Len(d)].state = st /\ Agree(c, d, Len(c))
<1> DEFINE d == Pushed(c, a, st)
           m == Len(c)
           s == NewState(st, e[a].op)
<1>1. IsSeq(c) /\ m \in Nat
  BY SeqIs, Zenon DEF Stack
<1>2. /\ IsSeq(d) /\ Len(d) = m + 1 /\ d[m + 1] = [entry |-> a, state |-> st]
      /\ \A i \in 1 .. m : d[i] = c[i]
  BY <1>1, Push DEF Pushed
<1>3. d[m + 1].entry = a /\ d[m + 1].state = st /\ Agree(c, d, m)
  BY <1>2 DEF Agree
<1> HIDE DEF s, d
<1>4. \A j \in 0 .. m : DoneAt(e, d, j) = DoneAt(e, c, j) /\ Left(e, d, j) = Left(e, c, j)
  BY <1>1, <1>3, SameDone
<1>5. \A j \in 0 .. m : StateAt(d, s, j) = StateAt(c, st, j)
  <2> TAKE j \in 0 .. m
  <2>1. j # m + 1 /\ (j # m => j + 1 \in 1 .. m)
    BY <1>1
  <2>. QED  BY <1>2, <1>3, <2>1, Zenon DEF StateAt
<1>6. StateAt(d, s, m + 1) = s
  BY <1>2, Zenon DEF StateAt
<1>7. 0 \in 0 .. m
  BY <1>1
<1>8. StateAt(d, s, 0) = InitState
  BY <1>5, <1>7, Zenon DEF Stack
<1>9. ASSUME NEW i \in 1 .. m + 1
      PROVE  /\ d[i].entry \in DOMAIN e /\ e[d[i].entry].call
             /\ e[d[i].entry].id \notin DoneAt(e, d, i - 1)
             /\ Accepts(d[i].state, e[d[i].entry].op)
             /\ StateAt(d, s, i) = NewState(d[i].state, e[d[i].entry].op)
             /\ \A n \in Left(e, d, i - 1) : n < d[i].entry => e[n].call
  <2>1. CASE i = m + 1
    <3>1. i - 1 = m /\ m \in 0 .. m
      BY <1>1, <2>1
    <3>2. a \in DOMAIN e /\ e[a].id \notin DoneAt(e, c, m)
      BY Zenon DEF Left
    <3>. QED  BY <1>3, <1>4, <1>6, <2>1, <3>1, <3>2, Zenon DEF s, OnlyCalls
  <2>2. CASE i # m + 1
    <3>1. i \in 1 .. m /\ i \in 0 .. m /\ i - 1 \in 0 .. m
      BY <1>1, <2>2
    <3>. QED  BY <1>2, <1>4, <1>5, <3>1, Zenon DEF Stack
  <2>. QED  BY <2>1, <2>2, Zenon
<1>10. Stack(e, d, s)
  BY <1>2, <1>8, <1>9, Zenon DEF Stack
<1>. QED  BY <1>2, <1>3, <1>10, Zenon DEF s, d

\* Taking the last call back.
LEMMA StackPop ==
    ASSUME NEW e, NEW c, NEW st, Stack(e, c, st), c # <<>>
    PROVE  LET d == Popped(c) IN
           /\ Stack(e, d, c[Len(c)].state) /\ Len(c) \in Nat \ {0} /\ Len(d) = Len(c) - 1
           /\ Agree(c, d, Len(d))
<1> DEFINE d == Popped(c)
           m == Len(c)
           s == c[m].state
<1>1. /\ m \in Nat \ {0} /\ IsSeq(d) /\ Len(d) = m - 1
      /\ \A i \in 1 .. m - 1 : d[i] = c[i]
  BY Pop, Zenon DEF Stack, Popped
<1> HIDE DEF d
<1>2. m - 1 \in Nat
  BY <1>1
<1>3. \A j \in 0 .. m - 1 : DoneAt(e, d, j) = DoneAt(e, c, j) /\ Left(e, d, j) = Left(e, c, j)
  <2> DEFINE r == m - 1
  <2>1. r \in Nat /\ Agree(c, d, r)
    BY <1>1, <1>2, Zenon DEF Agree
  <2> HIDE DEF r
  <2>2. \A j \in 0 .. r : DoneAt(e, d, j) = DoneAt(e, c, j) /\ Left(e, d, j) = Left(e, c, j)
    BY <2>1, SameDone
  <2>. QED  BY <2>2 DEF r
<1>4. \A j \in 0 .. m - 1 : StateAt(d, s, j) = StateAt(c, st, j)
  <2> TAKE j \in 0 .. m - 1
  <2>1. j # m /\ (j # m - 1 => j + 1 \in 1 .. m - 1) /\ (j = m - 1 => j + 1 = m)
    BY <1>1
  <2>2. CASE j = m - 1
    BY <1>1, <2>1, <2>2, Zenon DEF StateAt
  <2>3. CASE j # m - 1
    <3>1. d[j + 1] = c[j + 1]
      BY <1>1, <2>1, <2>3, Zenon
    <3>. QED  BY <1>1, <2>1, <2>3, <3>1, Zenon DEF StateAt
  <2>. QED  BY <2>2, <2>3, Zenon
<1> HIDE DEF s
<1>5. 0 \in 0 .. m - 1
  BY <1>1
<1>6. StateAt(d, s, 0) = InitState
  BY <1>4, <1>5, Zenon DEF Stack
<1>7. ASSUME NEW i \in 1 .. m - 1
      PROVE  /\ d[i].entry \in DOMAIN e /\ e[d[i].entry].call
             /\ e[d[i].entry].id \notin DoneAt(e, d, i - 1)
             /\ Accepts(d[i].state, e[d[i].entry].op)
             /\ StateAt(d, s, i) = NewState(d[i].state, e[d[i].entry].op)
             /\ \A n \in Left(e, d, i - 1) : n < d[i].entry => e[n].call
  <2>1. i \in 1 .. m /\ i \in 0 .. m - 1 /\ i - 1 \in 0 .. m - 1
    BY <1>1
  <2>. QED  BY <1>1, <1>3, <1>4, <2>1, Zenon DEF Stack
<1>8. Stack(e, d, s)
  BY <1>1, <1>6, <1>7, Zenon DEF Stack
<1>9. Agree(c, d, Len(d))
  BY <1>1, Zenon DEF Agree
<1>. QED  BY <1>1, <1>8, <1>9, Zenon DEF s, d

----------------------------------------------------------------------------
(* The list under the stack *)

\* The list has what is left, and every call of the stack and its return remember
\* where they were when the call was lifted.
List(e, c, nx, pv) ==
    /\ Linked(Left(e, c, Len(c)), nx, pv, Len(e))
    /\ \A i \in 1 .. Len(c) :
          /\ Slot(Left(e, c, i), nx, pv, Return(e, c[i].entry))
          /\ Slot(Left(e, c, i) \union {Return(e, c[i].entry)}, nx, pv, c[i].entry)

\* What is behind a call is not nil: its return is.
LEMMA NotLast ==
    ASSUME NEW z \in Nat, NEW S \in SUBSET (1 .. z), NEW a \in Nat, NEW b \in S, a < b,
           NEW x, IsNext(S, a, x)
    PROVE  x # Nil
<1> SUFFICES ASSUME x = Nil PROVE FALSE
  OBVIOUS
<1>1. x \notin S
  BY NoNil, Zenon
<1>2. b <= a
  BY <1>1, Zenon DEF IsNext
<1>. QED  BY <1>2

\* Calls of the stack and their returns are not in the list.
LEMMA NotLeft ==
    ASSUME NEW h, IsHist(h), NEW e, Listing(h, e), NEW c, NEW st, Stack(e, c, st),
           NEW i \in 1 .. Len(c)
    PROVE  LET a == c[i].entry
               b == Return(e, c[i].entry) IN
           /\ a \in DOMAIN e /\ b \in DOMAIN e /\ a \in (0 .. Len(e)) \ {0} /\ b \in (0 .. Len(e)) \ {0}
           /\ a \notin Left(e, c, Len(c)) /\ b \notin Left(e, c, Len(c))
<1> DEFINE a == c[i].entry
           b == Return(e, c[i].entry)
<1>1. a \in DOMAIN e /\ e[a].call
  BY Zenon DEF Stack
<1>2. b \in DOMAIN e /\ e[b].id = e[a].id
  BY <1>1, ReturnIs
<1>3. a \in (0 .. Len(e)) \ {0} /\ b \in (0 .. Len(e)) \ {0}
  <2>1. DOMAIN e = 1 .. Len(e)
    BY DEF Listing
  <2> HIDE DEF a, b
  <2>. QED  BY <1>1, <1>2, <2>1
<1>4. e[a].id \in DoneAt(e, c, Len(c))
  BY Zenon DEF DoneAt
<1>5. a \notin Left(e, c, Len(c)) /\ b \notin Left(e, c, Len(c))
  BY <1>2, <1>4, Zenon DEF Left
<1>. QED  BY <1>1, <1>2, <1>3, <1>5, Zenon

\* Lift: the call comes out of the list, then its return.
LEMMA LiftKeeps ==
    ASSUME NEW h, IsHist(h), NEW e, Listing(h, e), NEW c, NEW st, Stack(e, c, st),
           NEW nx, NEW pv, List(e, c, nx, pv),
           NEW a \in Left(e, c, Len(c)), e[a].call,
           NEW d, IsSeq(d), Len(d) = Len(c) + 1, d[Len(d)].entry = a, Agree(c, d, Len(c))
    PROVE  /\ nx[a] # Nil
           /\ List(e, d, LiftNext(nx, pv, a, Return(e, a)), LiftPrev(nx, pv, a, Return(e, a)))
<1> DEFINE b == Return(e, a)
           n2 == LiftNext(nx, pv, a, b)
           p2 == LiftPrev(nx, pv, a, b)
           m == Len(c)
           z == Len(e)
           A == Left(e, c, m)
           B == Left(e, d, m + 1)
<1>1. /\ m \in Nat /\ m + 1 \in Nat /\ m + 1 # 0 /\ (m + 1) - 1 = m /\ m \in 0 .. m
      /\ Len(d) = m + 1
  BY SeqIs DEF Stack
<1>2. z \in Nat /\ DOMAIN e = 1 .. z /\ A \in SUBSET (1 .. z)
  <2>1. Len(e) = 2 * Len(h) /\ Len(h) \in Nat /\ DOMAIN e = 1 .. Len(e)
    BY Zenon DEF Listing, IsHist
  <2>2. A \subseteq DOMAIN e
    BY Zenon DEF Left
  <2>. QED  BY <2>1, <2>2
<1>3. \A j \in 0 .. m : DoneAt(e, d, j) = DoneAt(e, c, j) /\ Left(e, d, j) = Left(e, c, j)
  BY <1>1, SameDone
<1>4. /\ a \in A /\ b \in A \ {a} /\ B = (A \ {a}) \ {b} /\ B \union {b} = A \ {a}
      /\ a \notin B \union {b} /\ b \notin B
  <2>1. a \in DOMAIN e /\ e[a].id \notin DoneAt(e, d, m) /\ A = Left(e, d, m)
    BY <1>1, <1>3, Zenon DEF Left
  <2>2. LET r == Return(e, a) IN
        /\ a \in Left(e, d, (m + 1) - 1) /\ r \in Left(e, d, (m + 1) - 1) \ {a}
        /\ Left(e, d, m + 1) = (Left(e, d, (m + 1) - 1) \ {a}) \ {r}
        /\ Left(e, d, m + 1) \union {r} = Left(e, d, (m + 1) - 1) \ {a}
        /\ a \notin Left(e, d, m + 1) \union {r} /\ r \notin Left(e, d, m + 1)
    BY <1>1, <2>1, LeftNext
  <2>. QED  BY <1>1, <2>1, <2>2, Zenon
<1>5. a < b
  BY <1>4, ReturnIs DEF Left
<1> HIDE DEF m, z, A, B
<1>6. Linked(A, nx, pv, z)
  BY Zenon DEF List, m, z, A
<1>7. nx[a] # Nil
  <2>1. IsNext(A, a, nx[a]) /\ a \in Nat /\ b \in A
    BY <1>2, <1>4, <1>6 DEF Linked
  <2>. QED  BY <1>2, <1>5, <2>1, NotLast, Zenon
<1> HIDE DEF b
<1>9. /\ Linked((A \ {a}) \ {b}, n2, p2, z)
      /\ Slot((A \ {a}) \ {b}, n2, p2, b) /\ Slot(A \ {a}, n2, p2, a)
      /\ Kept(A, nx, n2, z) /\ Kept(A, pv, p2, z)
  BY <1>2, <1>4, <1>6, TakeTwo, Zenon
<1> HIDE DEF n2, p2
<1>12. Linked(B, n2, p2, z) /\ Slot(B, n2, p2, b)
  BY <1>4, <1>9, Zenon
<1>13. Slot(B \union {b}, n2, p2, a)
  BY <1>4, <1>9, Zenon
<1>14. Kept(A, nx, n2, z) /\ Kept(A, pv, p2, z)
  BY <1>9, Zenon
<1>15. ASSUME NEW i \in 1 .. m + 1
       PROVE  /\ Slot(Left(e, d, i), n2, p2, Return(e, d[i].entry))
              /\ Slot(Left(e, d, i) \union {Return(e, d[i].entry)}, n2, p2, d[i].entry)
  <2>1. CASE i = m + 1
    <3>1. d[i].entry = a
      BY <1>1, <2>1, Zenon DEF m
    <3>. QED  BY <1>12, <1>13, <2>1, <3>1, Zenon DEF B, b
  <2>2. CASE i # m + 1
    <3>1. i \in 1 .. m /\ i \in 0 .. m
      BY <1>1, <2>2
    <3> DEFINE x == c[i].entry
               y == Return(e, c[i].entry)
    <3>2. /\ x \in (0 .. z) \ {0} /\ y \in (0 .. z) \ {0} /\ x \notin A /\ y \notin A
      BY <3>1, NotLeft DEF z, A, m
    <3>3. Slot(Left(e, c, i), nx, pv, y) /\ Slot(Left(e, c, i) \union {y}, nx, pv, x)
      BY <3>1, Zenon DEF List, m
    <3>4. d[i].entry = x /\ Left(e, d, i) = Left(e, c, i)
      BY <1>3, <3>1, Zenon DEF m, Agree
    <3> HIDE DEF x, y
    <3>5. Slot(Left(e, c, i), n2, p2, y)
      BY <1>14, <3>2, <3>3, Zenon DEF Slot, Kept
    <3>6. Slot(Left(e, c, i) \union {y}, n2, p2, x)
      BY <1>14, <3>2, <3>3, Zenon DEF Slot, Kept
    <3>. QED  BY <3>4, <3>5, <3>6, Zenon DEF x, y
  <2>. QED  BY <2>1, <2>2, Zenon
<1>16. List(e, d, n2, p2)
  BY <1>1, <1>12, <1>15, Zenon DEF List, B, z
<1>. QED  BY <1>7, <1>16, Zenon DEF n2, p2, b

\* Unlift: the return goes back into the list, then its call.
LEMMA UnliftKeeps ==
    ASSUME NEW h, IsHist(h), NEW e, Listing(h, e), NEW c, NEW st, Stack(e, c, st),
           NEW nx, NEW pv, List(e, c, nx, pv), c # <<>>,
           NEW d, IsSeq(d), Len(d) = Len(c) - 1, Agree(c, d, Len(d))
    PROVE  LET a  == c[Len(c)].entry
               b  == Return(e, a)
               n2 == UnliftNext(nx, pv, a, b)
               p2 == UnliftPrev(nx, pv, a, b) IN
           /\ PutNext(nx, pv, b)[a] # Nil
           /\ List(e, d, n2, p2) /\ Linked(Left(e, c, Len(c) - 1), n2, p2, Len(e))
<1> DEFINE a == c[Len(c)].entry
           b == Return(e, a)
           n2 == UnliftNext(nx, pv, a, b)
           p2 == UnliftPrev(nx, pv, a, b)
           m == Len(c)
           z == Len(e)
           A == Left(e, c, m)
           B == Left(e, c, m - 1)
<1>1. m \in Nat /\ m # 0 /\ m - 1 \in Nat /\ m \in 1 .. m /\ Len(d) = m - 1 /\ m - 1 \in 0 .. m - 1
  BY Pop DEF Stack
<1>2. a \in DOMAIN e /\ e[a].call /\ e[a].id \notin DoneAt(e, c, m - 1)
  BY <1>1, Zenon DEF Stack
<1>3. /\ a \in B /\ b \in B /\ A \union {b} = B \ {a}
      /\ (A \union {b}) \union {a} = B
      /\ a \notin A \union {b} /\ b \notin A
  <2>1. LET r == Return(e, a) IN
        /\ a \in Left(e, c, m - 1) /\ r \in Left(e, c, m - 1) \ {a}
        /\ Left(e, c, m) \union {r} = Left(e, c, m - 1) \ {a}
        /\ (Left(e, c, m) \union {r}) \union {a} = Left(e, c, m - 1)
        /\ a \notin Left(e, c, m) \union {r} /\ r \notin Left(e, c, m)
    BY <1>1, <1>2, LeftNext
  <2>. QED  BY <2>1, Zenon
<1>4. /\ z \in Nat /\ DOMAIN e = 1 .. z /\ A \in SUBSET (1 .. z) /\ A \union {b} \in SUBSET (1 .. z)
      /\ B \in SUBSET (1 .. z)
  <2>1. Len(e) = 2 * Len(h) /\ Len(h) \in Nat /\ DOMAIN e = 1 .. Len(e)
    BY Zenon DEF Listing, IsHist
  <2>2. A \subseteq DOMAIN e /\ B \subseteq DOMAIN e
    BY Zenon DEF Left
  <2> HIDE DEF A, B
  <2>. QED  BY <1>3, <2>1, <2>2
<1>5. a < b
  BY <1>2, ReturnIs
<1>6. \A j \in 0 .. m - 1 : Left(e, d, j) = Left(e, c, j)
  BY <1>1, SameDone, Zenon
<1> HIDE DEF m, z, A, B
<1>7. Linked(A, nx, pv, z) /\ Slot(A, nx, pv, b) /\ Slot(A \union {b}, nx, pv, a)
  BY <1>1, Zenon DEF List, m, z, A
<1>8. b \in 1 .. z /\ a \in 1 .. z
  BY <1>3, <1>4, Zenon
<1> HIDE DEF a, b
<1>10. IsNext(A \union {b}, a, PutNext(nx, pv, b)[a])
  BY <1>3, <1>4, <1>7, <1>8, PutTwo, Zenon
<1>11. PutNext(nx, pv, b)[a] # Nil
  <2>1. a \in Nat /\ b \in A \union {b}
    BY <1>8
  <2>. QED  BY <1>4, <1>5, <1>10, <2>1, NotLast, Zenon
<1>13. /\ Linked((A \union {b}) \union {a}, n2, p2, z)
       /\ Kept((A \union {b}) \union {a}, nx, n2, z) /\ Kept((A \union {b}) \union {a}, pv, p2, z)
  BY <1>3, <1>4, <1>7, <1>8, PutTwo, Zenon
<1> HIDE DEF n2, p2
<1>14. Linked(B, n2, p2, z)
  BY <1>3, <1>13, Zenon
<1>15. Kept(B, nx, n2, z) /\ Kept(B, pv, p2, z)
  BY <1>3, <1>13, Zenon
<1>16. ASSUME NEW i \in 1 .. m - 1
       PROVE  /\ Slot(Left(e, d, i), n2, p2, Return(e, d[i].entry))
              /\ Slot(Left(e, d, i) \union {Return(e, d[i].entry)}, n2, p2, d[i].entry)
  <2>1. i \in 1 .. m /\ i \in 0 .. m - 1 /\ i \in 1 .. Len(d)
    BY <1>1
  <2> DEFINE x == c[i].entry
             y == Return(e, c[i].entry)
  <2>2. x \in (0 .. z) \ {0} /\ y \in (0 .. z) \ {0} /\ x \in DOMAIN e /\ y \in DOMAIN e
    BY <2>1, NotLeft DEF z, m
  <2>3. x \notin B /\ y \notin B
    <3>1. e[x].id \in DoneAt(e, c, m - 1)
      BY Zenon DEF DoneAt
    <3>2. x \in DOMAIN e /\ e[x].call
      BY <2>1, Zenon DEF Stack, m
    <3>3. e[y].id = e[x].id
      BY <3>2, ReturnIs
    <3>. QED  BY <3>1, <3>3, Zenon DEF Left, B
  <2>4. Slot(Left(e, c, i), nx, pv, y) /\ Slot(Left(e, c, i) \union {y}, nx, pv, x)
    BY <2>1, Zenon DEF List, m
  <2>5. d[i].entry = x /\ Left(e, d, i) = Left(e, c, i)
    BY <1>6, <2>1, Zenon DEF Agree
  <2> HIDE DEF x, y
  <2>6. Slot(Left(e, c, i), n2, p2, y)
    BY <1>15, <2>2, <2>3, <2>4, Zenon DEF Slot, Kept
  <2>7. Slot(Left(e, c, i) \union {y}, n2, p2, x)
    BY <1>15, <2>2, <2>3, <2>4, Zenon DEF Slot, Kept
  <2>. QED  BY <2>5, <2>6, <2>7, Zenon DEF x, y
<1>17. Left(e, d, Len(d)) = B
  BY <1>1, <1>6, Zenon DEF B
<1>18. List(e, d, n2, p2)
  BY <1>1, <1>14, <1>16, <1>17, Zenon DEF List, B, z
<1>. QED  BY <1>11, <1>14, <1>18, Zenon DEF B, z, m, n2, p2, a, b

----------------------------------------------------------------------------
(* Finite sets in order; the history of one key *)

\* R puts the elements of S in a strict order, each pair one way round.
Orders(R, S) ==
    /\ \A x \in S : <<x, x>> \notin R
    /\ \A x, y, z \in S : <<x, y>> \in R /\ <<y, z>> \in R => <<x, z>> \in R
    /\ \A x, y \in S : x = y \/ <<x, y>> \in R \/ <<y, x>> \in R

UpTo(S, R, x) == {y \in S : y = x \/ <<y, x>> \in R}

\* The number of elements up to x is the place of x.
Ranks(R, S) ==
    LET r(x) == Cardinality(UpTo(S, R, x))
        n    == Cardinality(S) IN
    /\ n \in Nat
    /\ \A x \in S : r(x) \in 1 .. n
    /\ \A x, y \in S : <<x, y>> \in R <=> r(x) < r(y)
    /\ \A x, y \in S : r(x) = r(y) => x = y
    /\ \A j \in 1 .. n : \E x \in S : r(x) = j

\* Ranks number the elements from one, in their order.
LEMMA Ranked ==
    ASSUME NEW S, IsFiniteSet(S), NEW R, Orders(R, S)
    PROVE  Ranks(R, S)
<1> DEFINE r(x) == Cardinality(UpTo(S, R, x))
           n    == Cardinality(S)
<1>1. n \in Nat
  BY FS_CardinalityType
<1>2. ASSUME NEW x \in S PROVE IsFiniteSet(UpTo(S, R, x)) /\ r(x) \in 1 .. n
  <2>1. UpTo(S, R, x) \in SUBSET S /\ x \in UpTo(S, R, x)
    BY DEF UpTo
  <2>2. IsFiniteSet(UpTo(S, R, x)) /\ r(x) <= n
    BY <2>1, FS_Subset
  <2>3. r(x) \in Nat /\ r(x) # 0
    BY <2>1, <2>2, FS_CardinalityType, FS_EmptySet
  <2>. QED  BY <1>1, <2>2, <2>3
<1>3. ASSUME NEW x \in S, NEW y \in S, <<x, y>> \in R PROVE r(x) < r(y)
  <2>1. UpTo(S, R, x) \in SUBSET UpTo(S, R, y)
    BY <1>3, Zenon DEF UpTo, Orders
  <2>2. y \in UpTo(S, R, y) /\ y \notin UpTo(S, R, x)
    BY <1>3, Zenon DEF UpTo, Orders
  <2>3. r(x) <= r(y) /\ (r(y) = r(x) => UpTo(S, R, y) = UpTo(S, R, x))
    BY <1>2, <2>1, FS_Subset
  <2>4. r(y) # r(x)
    BY <2>2, <2>3, Zenon
  <2>5. r(x) \in Int /\ r(y) \in Int
    BY <1>2
  <2> HIDE DEF r
  <2>. QED  BY <2>3, <2>4, <2>5
<1>4. ASSUME NEW x \in S, NEW y \in S
      PROVE  (<<x, y>> \in R <=> r(x) < r(y)) /\ (r(x) = r(y) => x = y)
  <2>1. r(x) \in Int /\ r(y) \in Int
    BY <1>2
  <2>2. x = y \/ <<x, y>> \in R \/ <<y, x>> \in R
    BY Zenon DEF Orders
  <2>3. (<<x, y>> \in R => r(x) < r(y)) /\ (<<y, x>> \in R => r(y) < r(x))
    BY <1>3, Zenon
  <2>4. x = y => r(x) = r(y)
    OBVIOUS
  <2> HIDE DEF r
  <2>. QED  BY <2>1, <2>2, <2>3, <2>4
<1>5. ASSUME NEW j \in 1 .. n PROVE \E x \in S : r(x) = j
  <2> DEFINE f == [x \in S |-> r(x)]
  <2>1. f \in [S -> 1 .. n]
    BY <1>2, Zenon
  <2>2. \A x, y \in S : f[x] = f[y] => x = y
    BY <1>4, Zenon
  <2>3. f \in Injection(S, 1 .. n)
    <3> HIDE DEF f, n, r
    <3>. QED  BY <2>1, <2>2, Zenon DEF Injection, IsInjective
  <2>4. IsFiniteSet(1 .. n) /\ Cardinality(1 .. n) = n
    BY <1>1, FS_Interval
  <2>5. f \in Surjection(S, 1 .. n)
    <3> HIDE DEF f
    <3>. QED  BY <2>3, <2>4, FS_Injection
  <2>6. \E x \in S : f[x] = j
    <3> HIDE DEF f, n
    <3>. QED  BY <2>5, Zenon DEF Surjection
  <2>. QED  BY <2>6, Zenon
<1> HIDE DEF r, n
<1>6. \A x \in S : r(x) \in 1 .. n
  BY <1>2, Zenon
<1>. QED  BY <1>1, <1>4, <1>5, <1>6, Zenon DEF Ranks, r, n

\* So the elements can be listed in the order of R.
LEMMA Listed ==
    ASSUME NEW S, IsFiniteSet(S), NEW R, Orders(R, S)
    PROVE  /\ Cardinality(S) \in Nat
           /\ \E w \in [1 .. Cardinality(S) -> S] :
                /\ \A x \in S : \E j \in 1 .. Cardinality(S) : w[j] = x
                /\ \A a, b \in 1 .. Cardinality(S) : a < b <=> <<w[a], w[b]>> \in R
<1> DEFINE r(x) == Cardinality(UpTo(S, R, x))
           n    == Cardinality(S)
           w    == [j \in 1 .. n |-> CHOOSE x \in S : r(x) = j]
<1>1. /\ n \in Nat
      /\ \A x \in S : r(x) \in 1 .. n
      /\ \A x, y \in S : <<x, y>> \in R <=> r(x) < r(y)
      /\ \A x, y \in S : r(x) = r(y) => x = y
      /\ \A j \in 1 .. n : \E x \in S : r(x) = j
  <2>1. Ranks(R, S)
    BY Ranked, Zenon
  <2>. QED  BY <2>1, Zenon DEF Ranks
<1> HIDE DEF r, n
<1>2. \A j \in 1 .. n : w[j] \in S /\ r(w[j]) = j
  BY <1>1, Zenon
<1>3. w \in [1 .. n -> S]
  BY <1>2, Zenon
<1> HIDE DEF w
<1>4. \A x \in S : w[r(x)] = x
  BY <1>1, <1>2, Zenon
<1>5. \A x \in S : \E j \in 1 .. n : w[j] = x
  BY <1>1, <1>4, Zenon
<1>6. \A a, b \in 1 .. n : a < b <=> <<w[a], w[b]>> \in R
  <2> TAKE a, b \in 1 .. n
  <2>1. w[a] \in S /\ w[b] \in S /\ r(w[a]) = a /\ r(w[b]) = b
    BY <1>2, Zenon
  <2>2. <<w[a], w[b]>> \in R <=> r(w[a]) < r(w[b])
    BY <1>1, <2>1, Zenon
  <2>. QED  BY <2>1, <2>2, Zenon
<1>. QED  BY <1>1, <1>3, <1>5, <1>6, Zenon DEF n

\* Operations of key k, and their places in h.
Mine(h, k) == {i \in DOMAIN h : h[i].op.key = k}

Pick(h, k) ==
    [j \in 1 .. Cardinality(Mine(h, k)) |->
        CHOOSE i \in Mine(h, k) : Cardinality({m \in Mine(h, k) : m <= i}) = j]

\* A part is made of the operations of its key, each once.
LEMMA PartitionIs ==
    ASSUME NEW h, IsHist(h), NEW k
    PROVE  LET n == Cardinality(Mine(h, k))
               g == Pick(h, k) IN
           /\ n \in Nat /\ IsFiniteSet(Mine(h, k)) /\ g \in [1 .. n -> Mine(h, k)]
           /\ \A i \in Mine(h, k) : \E j \in 1 .. n : g[j] = i
           /\ \A a, b \in 1 .. n : g[a] = g[b] => a = b
           /\ Partition(h, k) = [j \in 1 .. n |-> h[g[j]]]
<1> DEFINE S == Mine(h, k)
           n == Cardinality(S)
           g == Pick(h, k)
           R == {p \in S \X S : p[1] < p[2]}
           r(i) == Cardinality(UpTo(S, R, i))
<1>1. S \subseteq 1 .. Len(h) /\ Len(h) \in Nat
  BY Zenon DEF Mine, IsHist
<1>2. IsFiniteSet(S)
  <2>1. IsFiniteSet(1 .. Len(h))
    BY <1>1, FS_Interval
  <2>. QED  BY <1>1, <2>1, FS_Subset, Zenon
<1>3. \A x, y \in S : <<x, y>> \in R <=> x < y
  OBVIOUS
<1> HIDE DEF S, R
<1>4. Orders(R, S)
  <2>1. \A x \in S : x \in Int
    BY <1>1
  <2>2. \A x \in S : <<x, x>> \notin R
    BY <1>3, <2>1
  <2>3. \A x, y, z \in S : <<x, y>> \in R /\ <<y, z>> \in R => <<x, z>> \in R
    BY <1>3, <2>1
  <2>4. \A x, y \in S : x = y \/ <<x, y>> \in R \/ <<y, x>> \in R
    <3>1. \A x, y \in S : x = y \/ x < y \/ y < x
      BY <2>1
    <3>. QED  BY <1>3, <3>1, Zenon
  <2>. QED  BY <2>2, <2>3, <2>4, Zenon DEF Orders
<1>5. /\ n \in Nat
      /\ \A x \in S : r(x) \in 1 .. n
      /\ \A x, y \in S : <<x, y>> \in R <=> r(x) < r(y)
      /\ \A x, y \in S : r(x) = r(y) => x = y
      /\ \A j \in 1 .. n : \E x \in S : r(x) = j
  <2>1. Ranks(R, S)
    BY <1>2, <1>4, Ranked, Zenon
  <2>. QED  BY <2>1, Zenon DEF Ranks
<1>6. \A i \in S : {m \in S : m <= i} = UpTo(S, R, i)
  <2> TAKE i \in S
  <2>1. \A m \in S : m <= i <=> m = i \/ <<m, i>> \in R
    BY <1>1, <1>3
  <2>. QED  BY <2>1, Zenon DEF UpTo
<1>7. \A i \in S : Cardinality({m \in S : m <= i}) = r(i)
  BY <1>6, Zenon
<1>8. \A j \in 1 .. n : g[j] = CHOOSE i \in S : Cardinality({m \in S : m <= i}) = j
  BY Zenon DEF Pick, S
<1> HIDE DEF r, n, g
<1>9. ASSUME NEW j \in 1 .. n PROVE g[j] \in S /\ r(g[j]) = j
  <2> DEFINE Q(i) == Cardinality({m \in S : m <= i}) = j
  <2>1. \A i \in S : Q(i) <=> r(i) = j
    BY <1>7, Zenon
  <2>2. g[j] = CHOOSE i \in S : Q(i)
    BY <1>8, Zenon
  <2> HIDE DEF Q
  <2>3. \E i \in S : Q(i)
    BY <1>5, <2>1, Zenon
  <2>. QED  BY <2>1, <2>2, <2>3, Zenon
<1>10. g \in [1 .. n -> S]
  <2> DEFINE body(j) == CHOOSE i \in S : Cardinality({m \in S : m <= i}) = j
  <2>1. g = [j \in 1 .. n |-> body(j)]
    BY DEF g, Pick, n, S
  <2>2. \A j \in 1 .. n : body(j) \in S
    BY <1>8, <1>9, Zenon
  <2> HIDE DEF body
  <2>. QED  BY <2>1, <2>2, Zenon
<1>11. \A i \in S : \E j \in 1 .. n : g[j] = i
  BY <1>5, <1>9, Zenon
<1>12. \A a, b \in 1 .. n : g[a] = g[b] => a = b
  BY <1>9, Zenon
<1>13. Partition(h, k) = [j \in 1 .. n |-> h[g[j]]]
  <2> DEFINE body(j) == CHOOSE i \in S : Cardinality({m \in S : m <= i}) = j
  <2>1. Partition(h, k) = [j \in 1 .. n |-> h[body(j)]]
    BY DEF Partition, n, S, Mine
  <2>2. \A j \in 1 .. n : g[j] = body(j)
    BY <1>8, Zenon
  <2> HIDE DEF body
  <2>. QED  BY <2>1, <2>2, Zenon
<1>. QED  BY <1>2, <1>5, <1>10, <1>11, <1>12, <1>13, Zenon DEF S, n, g

\* What is true of the history of one key.
LEMMA PartitionHist ==
    ASSUME NEW h, IsHist(h), NEW k
    PROVE  LET q == Partition(h, k)
               n == Cardinality(Mine(h, k)) IN
           /\ IsHist(q) /\ Len(q) = n /\ DOMAIN q = 1 .. n
           /\ \A j \in 1 .. n : q[j] = h[Pick(h, k)[j]] /\ q[j].op.key = k
<1> DEFINE n == Cardinality(Mine(h, k))
           g == Pick(h, k)
           q == Partition(h, k)
<1>1. n \in Nat /\ g \in [1 .. n -> Mine(h, k)] /\ q = [j \in 1 .. n |-> h[g[j]]]
  BY PartitionIs, Zenon
<1> HIDE DEF n, g, q
<1>2. q \in [1 .. n -> {h[g[j]] : j \in 1 .. n}]
  BY <1>1, Zenon
<1>3. Len(q) = n /\ DOMAIN q = 1 .. n
  BY <1>1, <1>2, LenIs, Zenon
<1>4. \A j \in 1 .. n : q[j] = h[g[j]] /\ g[j] \in DOMAIN h /\ h[g[j]].op.key = k
  BY <1>1, Zenon DEF Mine
<1>5. \A j \in 1 .. n : q[j].call \in Int /\ q[j].return \in Int /\ q[j].call <= q[j].return
  BY <1>4, Zenon DEF IsHist
<1>. QED  BY <1>1, <1>3, <1>4, <1>5, Zenon DEF IsHist, n, g, q

\* What the initial states say of the history.
LEMMA HistIs ==
    ASSUME hist \in Histories
    PROVE  /\ IsHist(hist) /\ \A k : IsHist(Partition(hist, k))
           /\ \A i \in DOMAIN hist : hist[i].op \in Op /\ hist[i].call \in Nat
<1>1. PICK n \in 0 .. NOp :
        /\ hist \in [1 .. n -> [op : Op, call : 1 .. MaxTime, return : 1 .. MaxTime]]
        /\ \A i \in 1 .. n : hist[i].call <= hist[i].return
  BY Zenon DEF Histories
<1>2. n \in Nat /\ MaxTime \in Nat
  BY SizeAssumption
<1>3. Len(hist) = n /\ DOMAIN hist = 1 .. n
  BY <1>1, <1>2, LenIs, Zenon
<1>4. \A i \in 1 .. n : /\ hist[i].call \in 1 .. MaxTime /\ hist[i].return \in 1 .. MaxTime
                        /\ hist[i].call <= hist[i].return /\ hist[i].op \in Op
  BY <1>1, Zenon
<1>5. \A i \in 1 .. n : hist[i].call \in Nat /\ hist[i].call \in Int /\ hist[i].return \in Int
  BY <1>4
<1>6. IsHist(hist)
  BY <1>2, <1>3, <1>4, <1>5, Zenon DEF IsHist
<1>7. \A k : IsHist(Partition(hist, k))
  BY <1>6, PartitionHist, Zenon
<1>. QED  BY <1>3, <1>4, <1>5, <1>6, <1>7, Zenon

\* There is a way through all operations.
Complete(h) ==
    \E L \in Nat : \E t, f : /\ IsExt(h, {}, InitState, L, t, f)
                             /\ \A i \in DOMAIN h : \E p \in 1 .. L : t[p] = i

----------------------------------------------------------------------------
(* The values of the keys along an order *)

\* A nonempty set of naturals has a least element.
LEMMA Least ==
    ASSUME NEW T \in SUBSET Nat, T # {}
    PROVE  \E n \in T : \A m \in T : n <= m
<1>1. PICK n \in T : \A m \in T : ~(<<m, n>> \in OpToRel(<, Nat))
  BY WFMin, NatLessThanWellFounded, Zenon
<1>2. \A m \in T : ~(m < n)
  BY <1>1, Zenon DEF OpToRel
<1>. QED  BY <1>2

\* All keys at the start, and after operation o.
Start == [k \in Key |-> InitState]

After(x, o) == [x EXCEPT ![o.key] = NewState(x[o.key], o)]

LEMMA AfterIs ==
    ASSUME NEW x, DOMAIN x = Key, NEW o, o.key \in Key
    PROVE  /\ DOMAIN After(x, o) = Key
           /\ \A k \in Key : After(x, o)[k] = IF o.key = k THEN NewState(x[k], o) ELSE x[k]
BY DEF After

\* v are the values of all keys along order, L operations of h.
Evolves(h, order, L, v) ==
    \A k \in Key :
        /\ v[0][k] = InitState
        /\ \A n \in 1 .. L :
              v[n][k] = IF h[order[n]].op.key = k THEN NewState(v[n - 1][k], h[order[n]].op)
                        ELSE v[n - 1][k]

\* What the recursive definition of Values computes, step by step.
LEMMA ValuesIs ==
    ASSUME NEW h, NEW L \in Nat, NEW order \in [1 .. L -> DOMAIN h],
           \A i \in DOMAIN h : h[i].op.key \in Key
    PROVE  Evolves(h, order, L, Values(h, order))
<1> DEFINE o(n) == h[order[n]].op
           Is(f, n) == f = [m \in 0 .. n |-> IF m = 0 THEN Start ELSE After(f[m - 1], o(m))]
           Bad == {n \in 0 .. L : ~(\E f : Is(f, n))}
           v == CHOOSE f : Is(f, Len(order))
<1>0. Len(order) = L
  BY LenIs
<1>1. Bad = {}
  <2> SUFFICES ASSUME Bad # {} PROVE FALSE
    OBVIOUS
  <2>1. PICK n \in Bad : \A j \in Bad : n <= j
    <3>1. Bad \in SUBSET Nat
      OBVIOUS
    <3> HIDE DEF Bad
    <3>. QED  BY <3>1, Least
  <2>2. n # 0
    <3>1. Is([m \in 0 .. 0 |-> Start], 0)
      OBVIOUS
    <3>. QED  BY <2>1, <3>1, Zenon
  <2>3. PICK f : Is(f, n - 1)
    <3>1. n - 1 \in 0 .. L /\ ~(n <= n - 1)
      BY <2>1, <2>2
    <3>2. n - 1 \notin Bad
      BY <2>1, <3>1, Zenon
    <3>. QED  BY <3>1, <3>2, Zenon
  <2> DEFINE g == [m \in 0 .. n |-> IF m = n THEN After(f[n - 1], o(n)) ELSE f[m]]
  <2>4. Is(g, n)
    BY <2>1, <2>2, <2>3
  <2>. QED  BY <2>1, <2>4, Zenon
<1>2. Is(v, L)
  <2>1. \E f : Is(f, L)
    <3>1. L \in 0 .. L
      OBVIOUS
    <3>. QED  BY <1>1, <3>1, Zenon
  <2>2. \E f : Is(f, Len(order))
    BY <1>0, <2>1, Zenon
  <2>3. Is(v, Len(order))
    BY <2>2, Zenon
  <2>. QED  BY <1>0, <2>3, Zenon
<1>3. Values(h, order) = v
  BY DEF Values, Start, After
<1>4. v[0] = Start /\ \A n \in 1 .. L : v[n] = After(v[n - 1], o(n))
  <2> HIDE DEF v, o
  <2>. QED  BY <1>2
<1>5. \A n \in 1 .. L : o(n).key \in Key
  OBVIOUS
<1> HIDE DEF v, o
<1>6. \A n \in 0 .. L : DOMAIN v[n] = Key
  <2> DEFINE B == {n \in 0 .. L : DOMAIN v[n] # Key}
  <2> SUFFICES ASSUME B # {} PROVE FALSE
    OBVIOUS
  <2>1. PICK n \in B : \A j \in B : n <= j
    <3>1. B \in SUBSET Nat
      OBVIOUS
    <3> HIDE DEF B
    <3>. QED  BY <3>1, Least
  <2>2. DOMAIN v[0] = Key
    BY <1>4, Zenon DEF Start
  <2>3. n \in 1 .. L /\ n - 1 \in 0 .. L /\ ~(n <= n - 1)
    BY <2>1, <2>2
  <2>4. DOMAIN v[n - 1] = Key
    BY <2>1, <2>3, Zenon
  <2>5. DOMAIN v[n] = Key
    BY <1>4, <1>5, <2>3, <2>4, AfterIs
  <2>. QED  BY <2>1, <2>5
<1>7. ASSUME NEW k \in Key PROVE v[0][k] = InitState
  BY <1>4 DEF Start
<1>8. ASSUME NEW k \in Key, NEW n \in 1 .. L
      PROVE  v[n][k] = IF o(n).key = k THEN NewState(v[n - 1][k], o(n)) ELSE v[n - 1][k]
  <2>1. n - 1 \in 0 .. L
    OBVIOUS
  <2> DEFINE x == v[n - 1]
             y == o(n)
  <2>2. DOMAIN x = Key /\ y.key \in Key /\ v[n] = After(x, y)
    BY <1>4, <1>5, <1>6, <2>1, Zenon
  <2> HIDE DEF x, y
  <2>3. After(x, y)[k] = IF y.key = k THEN NewState(x[k], y) ELSE x[k]
    BY <2>2, AfterIs
  <2>4. v[n][k] = IF y.key = k THEN NewState(x[k], y) ELSE x[k]
    BY <2>2, <2>3, Zenon
  <2>. QED  BY <2>4, Zenon DEF x, y
<1>. QED  BY <1>3, <1>7, <1>8, Zenon DEF Evolves, o

\* f is the run of M operations of h, those at the places w of order.
Follows(h, order, w, M, f) ==
    f[0] = InitState /\ \A q \in 1 .. M : f[q] = NewState(f[q - 1], h[order[w[q]]].op)

\* w are the places of the operations of key k, in order.
Places(h, order, L, k, w, M) ==
    /\ w \in [1 .. M -> 1 .. L]
    /\ \A a, b \in 1 .. M : a < b => w[a] < w[b]
    /\ \A n \in 1 .. L : h[order[n]].op.key = k <=> \E q \in 1 .. M : w[q] = n

SameAt(v, k, w, M, f) == \A q \in 1 .. M : v[w[q] - 1][k] = f[q - 1]

\* The value of a key changes with its own operations only.
LEMMA SameValues ==
    ASSUME NEW h, NEW order, NEW L \in Nat, NEW v, Evolves(h, order, L, v), NEW k \in Key,
           NEW M \in Nat, NEW w, Places(h, order, L, k, w, M), NEW f, Follows(h, order, w, M, f)
    PROVE  SameAt(v, k, w, M, f)
<1> DEFINE Here(q, n) == (q = 0 \/ w[q] <= n) /\ (q = M \/ n < w[q + 1])
           P(n) == \A q \in 0 .. M : Here(q, n) => v[n][k] = f[q]
           Bad == {n \in 0 .. L : ~P(n)}
<1>0. /\ w \in [1 .. M -> 1 .. L] /\ \A a, b \in 1 .. M : a < b => w[a] < w[b]
      /\ \A n \in 1 .. L : h[order[n]].op.key = k <=> \E q \in 1 .. M : w[q] = n
  BY Zenon DEF Places
<1>1. Bad = {}
  <2> SUFFICES ASSUME Bad # {} PROVE FALSE
    OBVIOUS
  <2>1. PICK n \in Bad : \A j \in Bad : n <= j
    <3>1. Bad \in SUBSET Nat
      OBVIOUS
    <3> HIDE DEF Bad
    <3>. QED  BY <3>1, Least
  <2>2. n \in 0 .. L /\ ~P(n)
    BY <2>1, Zenon
  <2>3. PICK q \in 0 .. M : Here(q, n) /\ v[n][k] # f[q]
    BY <2>2, Zenon
  <2>4. n # 0
    <3> SUFFICES ASSUME n = 0 PROVE FALSE
      OBVIOUS
    <3>1. q = 0
      BY <1>0, <2>3
    <3>2. v[0][k] = InitState /\ f[0] = InitState
      BY Zenon DEF Evolves, Follows
    <3>. QED  BY <2>3, <3>1, <3>2, Zenon
  <2>5. P(n - 1)
    <3>1. n - 1 \in 0 .. L /\ ~(n <= n - 1)
      BY <2>2, <2>4
    <3>2. n - 1 \notin Bad
      BY <2>1, <3>1, Zenon
    <3> HIDE DEF P
    <3>. QED  BY <3>1, <3>2, Zenon
  <2>6. n \in 1 .. L
    BY <2>2, <2>4
  <2>7. CASE \E a \in 1 .. M : w[a] = n
    <3>1. PICK a \in 1 .. M : w[a] = n
      BY <2>7
    <3>2. a = q
      <4>1. \A b \in 1 .. M : w[b] \in Nat
        BY <1>0
      <4>2. ~(a < q)
        <5> SUFFICES ASSUME a < q PROVE FALSE
          OBVIOUS
        <5>1. q \in 1 .. M /\ q # 0
          OBVIOUS
        <5>2. n < w[q] /\ w[q] <= n
          BY <1>0, <2>3, <3>1, <5>1, Zenon
        <5>. QED  BY <2>6, <4>1, <5>1, <5>2
      <4>3. ~(q < a)
        <5> SUFFICES ASSUME q < a PROVE FALSE
          OBVIOUS
        <5>1. q + 1 \in 1 .. M /\ q # M /\ (q + 1 = a \/ q + 1 < a)
          OBVIOUS
        <5>2. n < w[q + 1]
          BY <2>3, <5>1, Zenon
        <5>3. q + 1 = a \/ w[q + 1] < n
          BY <1>0, <3>1, <5>1, Zenon
        <5>4. w[q + 1] \in Nat
          BY <4>1, <5>1
        <5>. QED  BY <2>6, <3>1, <5>2, <5>3, <5>4
      <4>. QED  BY <4>2, <4>3
    <3>3. q \in 1 .. M /\ w[q] = n /\ q - 1 \in 0 .. M /\ (q - 1) + 1 = q /\ q - 1 # M
      BY <3>1, <3>2
    <3>4. Here(q - 1, n - 1)
      <4>1. n - 1 < w[(q - 1) + 1]
        BY <2>6, <3>3
      <4>2. CASE q - 1 = 0
        BY <4>1, <4>2, Zenon
      <4>3. CASE q - 1 # 0
        <5>1. q - 1 \in 1 .. M /\ q - 1 < q
          BY <3>3, <4>3
        <5>2. w[q - 1] < n
          BY <1>0, <3>3, <5>1, Zenon
        <5>3. w[q - 1] <= n - 1
          BY <1>0, <2>6, <5>1, <5>2
        <5>. QED  BY <4>1, <5>3, Zenon
      <4>. QED  BY <4>2, <4>3, Zenon
    <3>5. v[n - 1][k] = f[q - 1]
      BY <2>5, <3>3, <3>4, Zenon
    <3>6. h[order[n]].op.key = k
      BY <1>0, <2>6, <2>7, Zenon
    <3>7. v[n][k] = NewState(v[n - 1][k], h[order[n]].op)
      BY <2>6, <3>6, Zenon DEF Evolves
    <3>8. f[q] = NewState(f[q - 1], h[order[n]].op)
      BY <3>3, Zenon DEF Follows
    <3>. QED  BY <2>3, <3>5, <3>7, <3>8, Zenon
  <2>8. CASE ~(\E a \in 1 .. M : w[a] = n)
    <3>1. h[order[n]].op.key # k
      BY <1>0, <2>6, <2>8, Zenon
    <3>2. v[n][k] = v[n - 1][k]
      BY <2>6, <3>1, Zenon DEF Evolves
    <3>3. Here(q, n - 1)
      <4>1. q = 0 \/ w[q] <= n - 1
        <5> SUFFICES ASSUME q # 0 PROVE w[q] <= n - 1
          OBVIOUS
        <5>1. q \in 1 .. M
          OBVIOUS
        <5>2. w[q] <= n /\ w[q] # n
          BY <2>3, <2>8, <5>1, Zenon
        <5>3. w[q] \in Nat
          BY <1>0, <5>1
        <5>. QED  BY <2>6, <5>2, <5>3
      <4>2. q = M \/ n - 1 < w[q + 1]
        <5> SUFFICES ASSUME q # M PROVE n - 1 < w[q + 1]
          OBVIOUS
        <5>1. q + 1 \in 1 .. M
          OBVIOUS
        <5>2. n < w[q + 1]
          BY <2>3, Zenon
        <5>3. w[q + 1] \in Nat
          BY <1>0, <5>1
        <5>. QED  BY <2>6, <5>2, <5>3
      <4>. QED  BY <4>1, <4>2, Zenon
    <3>4. v[n - 1][k] = f[q]
      BY <2>5, <3>3, Zenon
    <3>. QED  BY <2>3, <3>2, <3>4, Zenon
  <2>. QED  BY <2>7, <2>8, Zenon
<1> SUFFICES ASSUME NEW q \in 1 .. M PROVE v[w[q] - 1][k] = f[q - 1]
  BY Zenon DEF SameAt
<1>2. w[q] \in 1 .. L
  BY <1>0
<1>3. w[q] - 1 \in 0 .. L /\ q - 1 \in 0 .. M /\ (q - 1) + 1 = q
  BY <1>2
<1>4. P(w[q] - 1)
  BY <1>1, <1>3, Zenon
<1>5. Here(q - 1, w[q] - 1)
  <2>1. w[q] - 1 < w[(q - 1) + 1]
    BY <1>2, <1>3
  <2>2. CASE q - 1 = 0
    BY <2>1, <2>2, Zenon
  <2>3. CASE q - 1 # 0
    <3>1. q - 1 \in 1 .. M /\ q - 1 < q
      BY <2>3
    <3>2. w[q - 1] < w[q] /\ w[q - 1] \in 1 .. L
      BY <1>0, <3>1
    <3>3. w[q - 1] <= w[q] - 1
      BY <1>2, <3>2
    <3>. QED  BY <2>1, <3>3, Zenon
  <2>. QED  BY <2>2, <2>3, Zenon
<1>. QED  BY <1>3, <1>4, <1>5, Zenon

\* All operations of h are of key k.
OneKey(h, k) == \A i \in DOMAIN h : h[i].op.key = k

\* The states along an order of operations of one key.
RunOf(h, k, L, t) == [p \in 0 .. L |-> Values(h, t)[p][k]]

IsRun(h, k, L, t, f) ==
    /\ f[0] = InitState
    /\ \A p \in 1 .. L : f[p - 1] = Values(h, t)[p - 1][k] /\ f[p] = NewState(f[p - 1], h[t[p]].op)

LEMMA RunExists ==
    ASSUME NEW h, NEW k \in Key, OneKey(h, k), NEW L \in Nat, NEW t \in [1 .. L -> DOMAIN h]
    PROVE  IsRun(h, k, L, t, RunOf(h, k, L, t))
<1> DEFINE v == Values(h, t)
           f == [p \in 0 .. L |-> v[p][k]]
<1>1. Evolves(h, t, L, v)
  BY ValuesIs, Zenon DEF OneKey
<1> HIDE DEF v
<1>2. 0 \in 0 .. L
  OBVIOUS
<1>3. f[0] = InitState
  BY <1>1, <1>2, Zenon DEF Evolves
<1>4. ASSUME NEW p \in 1 .. L PROVE f[p - 1] = v[p - 1][k] /\ f[p] = NewState(f[p - 1], h[t[p]].op)
  <2>1. p \in 0 .. L /\ p - 1 \in 0 .. L
    OBVIOUS
  <2>2. f[p] = v[p][k] /\ f[p - 1] = v[p - 1][k]
    BY <2>1, Zenon
  <2>3. t[p] \in DOMAIN h
    OBVIOUS
  <2>4. h[t[p]].op.key = k
    BY <2>3, Zenon DEF OneKey
  <2>5. v[p][k] = NewState(v[p - 1][k], h[t[p]].op)
    BY <1>1, <2>4, Zenon DEF Evolves
  <2> HIDE DEF f
  <2>. QED  BY <2>2, <2>5, Zenon
<1>5. f = RunOf(h, k, L, t)
  BY Zenon DEF v, RunOf
<1> HIDE DEF f
<1>6. IsRun(h, k, L, t, f)
  BY <1>3, <1>4, Zenon DEF v, IsRun
<1>. QED  BY <1>5, <1>6, Zenon

\* What Prefixes asks of an order of length L.
IsPrefix(h, order, L) ==
    /\ order \in [1 .. L -> DOMAIN h] /\ Len(order) = L /\ DOMAIN order = 1 .. L
    /\ \A p, q \in 1 .. L : order[p] = order[q] => p = q
    /\ \A p \in 1 .. L, i \in DOMAIN h :
          Before(h, i, order[p]) => \E q \in 1 .. p - 1 : order[q] = i
    /\ \A n \in 1 .. L : Accepts(Values(h, order)[n - 1][h[order[n]].op.key], h[order[n]].op)

LEMMA PrefixIs ==
    ASSUME NEW h, IsHist(h), NEW order
    PROVE  order \in Prefixes(h) <=> \E L \in 0 .. Len(h) : IsPrefix(h, order, L)
<1> DEFINE O == UNION {[1 .. n -> DOMAIN h] : n \in 0 .. Len(h)}
           C == /\ \A p, q \in DOMAIN order : order[p] = order[q] => p = q
                /\ InOrder(h, order)
                /\ Legal(h, order)
<1>1. order \in Prefixes(h) <=> order \in O /\ C
  BY Zenon DEF Prefixes
<1>2. order \in O <=> \E L \in 0 .. Len(h) : order \in [1 .. L -> DOMAIN h]
  OBVIOUS
<1>3. ASSUME NEW L \in 0 .. Len(h), order \in [1 .. L -> DOMAIN h]
      PROVE  Len(order) = L /\ DOMAIN order = 1 .. L /\ (C <=> IsPrefix(h, order, L))
  <2>1. L \in Nat
    BY DEF IsHist
  <2>2. Len(order) = L /\ DOMAIN order = 1 .. L
    BY <1>3, <2>1, LenIs, Zenon
  <2>3. C <=> IsPrefix(h, order, L)
    BY <1>3, <2>2, Zenon DEF InOrder, Legal, IsPrefix
  <2>. QED  BY <2>2, <2>3, Zenon
<1> HIDE DEF O, C
<1>4. ASSUME NEW L \in 0 .. Len(h), IsPrefix(h, order, L) PROVE order \in Prefixes(h)
  <2>1. order \in [1 .. L -> DOMAIN h]
    BY <1>4, Zenon DEF IsPrefix
  <2>. QED  BY <1>1, <1>2, <1>3, <1>4, <2>1, Zenon
<1>5. ASSUME order \in Prefixes(h) PROVE \E L \in 0 .. Len(h) : IsPrefix(h, order, L)
  <2>1. PICK L \in 0 .. Len(h) : order \in [1 .. L -> DOMAIN h]
    BY <1>1, <1>2, <1>5, Zenon
  <2>. QED  BY <1>1, <1>3, <1>5, <2>1, Zenon
<1>. QED  BY <1>4, <1>5, Zenon

\* An order of effects of one key is an extension of nothing.
LEMMA PrefixRun ==
    ASSUME NEW h, IsHist(h), NEW k \in Key, OneKey(h, k), NEW order \in Prefixes(h)
    PROVE  /\ Len(order) \in Nat /\ DOMAIN order = 1 .. Len(order)
           /\ \E f : IsExt(h, {}, InitState, Len(order), order, f)
<1>0. PICK L \in 0 .. Len(h) : IsPrefix(h, order, L)
  BY PrefixIs, Zenon
<1>1. /\ order \in [1 .. L -> DOMAIN h] /\ Len(order) = L /\ DOMAIN order = 1 .. L
      /\ \A p, q \in 1 .. L : order[p] = order[q] => p = q
      /\ \A p \in 1 .. L, i \in DOMAIN h :
            Before(h, i, order[p]) => \E q \in 1 .. p - 1 : order[q] = i
      /\ \A n \in 1 .. L : Accepts(Values(h, order)[n - 1][h[order[n]].op.key], h[order[n]].op)
  BY <1>0, Zenon DEF IsPrefix
<1>2. L \in Nat
  BY DEF IsHist
<1> DEFINE v == Values(h, order)
           f == RunOf(h, k, L, order)
<1>3. /\ f[0] = InitState
      /\ \A p \in 1 .. L : f[p - 1] = v[p - 1][k] /\ f[p] = NewState(f[p - 1], h[order[p]].op)
  <2>1. IsRun(h, k, L, order, f)
    BY <1>1, <1>2, RunExists, Zenon
  <2>. QED  BY <2>1, Zenon DEF IsRun
<1> HIDE DEF v, f
<1>4. \A p \in 1 .. L : Accepts(f[p - 1], h[order[p]].op)
  <2> TAKE p \in 1 .. L
  <2>1. h[order[p]].op.key = k
    <3>1. order[p] \in DOMAIN h
      BY <1>1
    <3>. QED  BY <3>1, Zenon DEF OneKey
  <2>2. Accepts(v[p - 1][h[order[p]].op.key], h[order[p]].op)
    BY <1>1, Zenon DEF v
  <2>. QED  BY <1>3, <2>1, <2>2, Zenon
<1>5. IsExt(h, {}, InitState, L, order, f)
  BY <1>1, <1>3, <1>4, Zenon DEF IsExt
<1>. QED  BY <1>1, <1>2, <1>5, Zenon

\* An extension of nothing is an order of effects.
LEMMA RunPrefix ==
    ASSUME NEW h, IsHist(h), NEW k \in Key, OneKey(h, k), NEW L \in Nat, NEW order, NEW f,
           IsExt(h, {}, InitState, L, order, f)
    PROVE  order \in Prefixes(h) /\ Len(order) = L /\ DOMAIN order = 1 .. L
<1> DEFINE v == Values(h, order)
           w == [q \in 1 .. L |-> q]
<1>1. order \in [1 .. L -> DOMAIN h] /\ \A p, q \in 1 .. L : order[p] = order[q] => p = q
  BY Zenon DEF IsExt
<1>2. Len(order) = L /\ DOMAIN order = 1 .. L
  BY <1>1, LenIs
<1>3. \A p \in 1 .. L : h[order[p]].op.key = k
  <2> TAKE p \in 1 .. L
  <2>1. order[p] \in DOMAIN h
    BY <1>1
  <2>. QED  BY <2>1, Zenon DEF OneKey
<1>4. Evolves(h, order, L, v)
  BY <1>1, ValuesIs, Zenon DEF OneKey
<1> HIDE DEF v
<1>5. \A q \in 1 .. L : w[q] = q
  OBVIOUS
<1>6. w \in [1 .. L -> 1 .. L]
  OBVIOUS
<1> HIDE DEF w
<1>7. Places(h, order, L, k, w, L)
  <2>1. \A a, b \in 1 .. L : a < b => w[a] < w[b]
    BY <1>5, Zenon
  <2>2. \A n \in 1 .. L : h[order[n]].op.key = k <=> \E q \in 1 .. L : w[q] = n
    BY <1>3, <1>5, Zenon
  <2>. QED  BY <1>6, <2>1, <2>2, Zenon DEF Places
<1>8. Follows(h, order, w, L, f)
  BY <1>5, Zenon DEF Follows, IsExt
<1>9. \A q \in 1 .. L : v[w[q] - 1][k] = f[q - 1]
  <2>1. SameAt(v, k, w, L, f)
    BY <1>4, <1>7, <1>8, SameValues, Zenon
  <2>. QED  BY <2>1, Zenon DEF SameAt
<1>10. \A n \in 1 .. L : Accepts(v[n - 1][h[order[n]].op.key], h[order[n]].op)
  <2> TAKE n \in 1 .. L
  <2>1. w[n] - 1 = n - 1
    BY <1>5, Zenon
  <2>2. v[n - 1][k] = f[n - 1]
    BY <1>9, <2>1, Zenon
  <2>3. Accepts(f[n - 1], h[order[n]].op)
    BY Zenon DEF IsExt
  <2>. QED  BY <1>3, <2>2, <2>3, Zenon
<1>11. L \in 0 .. Len(h)
  <2> DEFINE N == Len(h)
  <2>1. N \in Nat /\ DOMAIN h = 1 .. N
    BY DEF IsHist
  <2>2. order \in Injection(1 .. L, 1 .. N)
    BY <1>1, <2>1, Zenon DEF Injection, IsInjective
  <2> HIDE DEF N
  <2>3. /\ IsFiniteSet(1 .. N) /\ Cardinality(1 .. N) = IF 1 > N THEN 0 ELSE N - 1 + 1
        /\ Cardinality(1 .. L) = IF 1 > L THEN 0 ELSE L - 1 + 1
    BY <2>1, FS_Interval
  <2>4. Cardinality(1 .. L) <= Cardinality(1 .. N)
    BY <2>2, <2>3, FS_Injection, Zenon
  <2>5. L <= N
    BY <2>1, <2>3, <2>4
  <2>. QED  BY <2>1, <2>5 DEF N
<1>12. \A p \in 1 .. L, i \in DOMAIN h :
          Before(h, i, order[p]) => \E q \in 1 .. p - 1 : order[q] = i
  BY Zenon DEF IsExt
<1>13. order \in Prefixes(h)
  <2>1. IsPrefix(h, order, L)
    BY <1>1, <1>2, <1>10, <1>12, Zenon DEF IsPrefix, v
  <2>. QED  BY <1>11, <2>1, PrefixIs, Zenon
<1>. QED  BY <1>2, <1>13, Zenon

----------------------------------------------------------------------------
(* A history is linearizable exactly if that of every key is *)

\* a is an order of the operations of key k that their times allow, f the states.
Line(h, k, L, a, f) ==
    /\ L \in Nat /\ a \in [1 .. L -> DOMAIN h]
    /\ \A p \in 1 .. L : h[a[p]].op.key = k
    /\ \A p, q \in 1 .. L : a[p] = a[q] => p = q
    /\ \A i \in DOMAIN h : h[i].op.key = k => \E p \in 1 .. L : a[p] = i
    /\ \A p, q \in 1 .. L : Before(h, a[p], a[q]) => p < q
    /\ f[0] = InitState
    /\ \A p \in 1 .. L : Accepts(f[p - 1], h[a[p]].op) /\ f[p] = NewState(f[p - 1], h[a[p]].op)

\* What is used of Pick and Partition below.
Picked(h, k, n, g, q) ==
    /\ n \in Nat /\ DOMAIN q = 1 .. n
    /\ \A j \in 1 .. n : g[j] \in DOMAIN h /\ h[g[j]].op.key = k /\ q[j] = h[g[j]]
    /\ \A i \in DOMAIN h : h[i].op.key = k => \E j \in 1 .. n : g[j] = i
    /\ \A a, b \in 1 .. n : g[a] = g[b] => a = b

\* Partition picks the operations of its key.
LEMMA PickedIs ==
    ASSUME NEW h, IsHist(h), NEW k
    PROVE  Picked(h, k, Cardinality(Mine(h, k)), Pick(h, k), Partition(h, k))
<1> DEFINE n == Cardinality(Mine(h, k))
           g == Pick(h, k)
           q == Partition(h, k)
<1>1. /\ n \in Nat /\ g \in [1 .. n -> Mine(h, k)]
      /\ \A i \in Mine(h, k) : \E j \in 1 .. n : g[j] = i
      /\ \A a, b \in 1 .. n : g[a] = g[b] => a = b
      /\ q = [j \in 1 .. n |-> h[g[j]]]
  BY PartitionIs
<1> HIDE DEF n, g, q
<1>2. DOMAIN q = 1 .. n /\ \A j \in 1 .. n : q[j] = h[g[j]]
  BY <1>1, Zenon
<1>3. \A j \in 1 .. n : g[j] \in Mine(h, k)
  BY <1>1
<1>4. \A i : i \in Mine(h, k) <=> i \in DOMAIN h /\ h[i].op.key = k
  BY Zenon DEF Mine
<1>5. Picked(h, k, n, g, q)
  BY <1>1, <1>2, <1>3, <1>4, Zenon DEF Picked
<1>. QED  BY <1>5, Zenon DEF n, g, q

\* A full order of a part is one of the operations of its key.
LEMMA LineOf ==
    ASSUME NEW h, NEW k, NEW n, NEW g, NEW q, Picked(h, k, n, g, q), Complete(q)
    PROVE  \E L, a, f : Line(h, k, L, a, f)
<1>1. PICK L, t, f : /\ L \in Nat /\ IsExt(q, {}, InitState, L, t, f)
                     /\ \A i \in DOMAIN q : \E p \in 1 .. L : t[p] = i
  BY Zenon DEF Complete
<1> DEFINE a == [p \in 1 .. L |-> g[t[p]]]
<1>2. /\ DOMAIN q = 1 .. n
      /\ \A j \in 1 .. n : g[j] \in DOMAIN h /\ h[g[j]].op.key = k /\ q[j] = h[g[j]]
      /\ \A i \in DOMAIN h : h[i].op.key = k => \E j \in 1 .. n : g[j] = i
      /\ \A x, y \in 1 .. n : g[x] = g[y] => x = y
  BY Zenon DEF Picked
<1>3. \A p \in 1 .. L : t[p] \in 1 .. n
  <2>1. t \in [1 .. L -> DOMAIN q]
    BY <1>1, Zenon DEF IsExt
  <2>. QED  BY <1>2, <2>1
<1>4. \A p \in 1 .. L : a[p] = g[t[p]] /\ a[p] \in DOMAIN h /\ h[a[p]].op.key = k /\ q[t[p]] = h[a[p]]
  BY <1>2, <1>3, Zenon
<1>5. a \in [1 .. L -> DOMAIN h]
  BY <1>2, <1>3, Zenon
<1> HIDE DEF a
<1>6. ASSUME NEW p \in 1 .. L, NEW r \in 1 .. L, a[p] = a[r] PROVE p = r
  <2>1. t[p] = t[r]
    <3>1. g[t[p]] = g[t[r]] /\ t[p] \in 1 .. n /\ t[r] \in 1 .. n
      BY <1>3, <1>4, <1>6
    <3>. QED  BY <1>2, <3>1, Zenon
  <2>. QED  BY <1>1, <2>1, Zenon DEF IsExt
<1>7. \A i \in DOMAIN h : h[i].op.key = k => \E p \in 1 .. L : a[p] = i
  <2> SUFFICES ASSUME NEW i \in DOMAIN h, h[i].op.key = k PROVE \E p \in 1 .. L : a[p] = i
    OBVIOUS
  <2>1. PICK j \in 1 .. n : g[j] = i
    BY <1>2, Zenon
  <2>2. PICK p \in 1 .. L : t[p] = j
    BY <1>1, <1>2, Zenon
  <2>. QED  BY <1>4, <2>1, <2>2, Zenon
<1>8. ASSUME NEW p \in 1 .. L, NEW r \in 1 .. L, Before(h, a[p], a[r]) PROVE p < r
  <2>1. Before(q, t[p], t[r])
    BY <1>4, <1>8, Zenon DEF Before
  <2>2. PICK x \in 1 .. r - 1 : t[x] = t[p]
    <3>1. t[p] \in DOMAIN q
      BY <1>2, <1>3, Zenon
    <3>. QED  BY <1>1, <2>1, <3>1, Zenon DEF IsExt
  <2>3. x \in 1 .. L /\ x < r
    BY <1>1
  <2>4. x = p
    BY <1>1, <2>2, <2>3, Zenon DEF IsExt
  <2>. QED  BY <2>3, <2>4, Zenon
<1>9. f[0] = InitState
  BY <1>1, Zenon DEF IsExt
<1>10. \A p \in 1 .. L : Accepts(f[p - 1], h[a[p]].op) /\ f[p] = NewState(f[p - 1], h[a[p]].op)
  <2> TAKE p \in 1 .. L
  <2>1. Accepts(f[p - 1], q[t[p]].op) /\ f[p] = NewState(f[p - 1], q[t[p]].op)
    BY <1>1, Zenon DEF IsExt
  <2>2. q[t[p]] = h[a[p]]
    BY <1>4, Zenon
  <2>. QED  BY <2>1, <2>2, Zenon
<1>11. Line(h, k, L, a, f)
  BY <1>1, <1>4, <1>5, <1>6, <1>7, <1>8, <1>9, <1>10, Zenon DEF Line
<1>. QED  BY <1>11, Zenon

\* An order of all operations of a key is a full order of its part.
LEMMA LineComplete ==
    ASSUME NEW h, NEW k, NEW n, NEW g, NEW q, Picked(h, k, n, g, q),
           NEW L, NEW a, NEW f, Line(h, k, L, a, f)
    PROVE  Complete(q)
<1> DEFINE t == [p \in 1 .. L |-> CHOOSE j \in 1 .. n : g[j] = a[p]]
<1>1. /\ L \in Nat /\ a \in [1 .. L -> DOMAIN h]
      /\ \A p \in 1 .. L : h[a[p]].op.key = k
      /\ \A p, r \in 1 .. L : a[p] = a[r] => p = r
      /\ \A i \in DOMAIN h : h[i].op.key = k => \E p \in 1 .. L : a[p] = i
      /\ \A p, r \in 1 .. L : Before(h, a[p], a[r]) => p < r
      /\ f[0] = InitState
      /\ \A p \in 1 .. L : Accepts(f[p - 1], h[a[p]].op) /\ f[p] = NewState(f[p - 1], h[a[p]].op)
  BY Zenon DEF Line
<1>2. /\ DOMAIN q = 1 .. n
      /\ \A j \in 1 .. n : g[j] \in DOMAIN h /\ h[g[j]].op.key = k /\ q[j] = h[g[j]]
      /\ \A i \in DOMAIN h : h[i].op.key = k => \E j \in 1 .. n : g[j] = i
      /\ \A x, y \in 1 .. n : g[x] = g[y] => x = y
  BY Zenon DEF Picked
<1>3. ASSUME NEW p \in 1 .. L PROVE t[p] \in 1 .. n /\ g[t[p]] = a[p] /\ q[t[p]] = h[a[p]]
  <2>1. a[p] \in DOMAIN h
    BY <1>1
  <2>2. \E j \in 1 .. n : g[j] = a[p]
    BY <1>1, <1>2, <2>1, Zenon
  <2>3. t[p] \in 1 .. n /\ g[t[p]] = a[p]
    BY <2>2, Zenon
  <2> HIDE DEF t
  <2>4. q[t[p]] = h[g[t[p]]]
    BY <1>2, <2>3, Zenon
  <2>. QED  BY <2>3, <2>4
<1>4. t \in [1 .. L -> DOMAIN q]
  BY <1>2, <1>3, Zenon
<1> HIDE DEF t
<1>5. \A j \in 1 .. n : \E p \in 1 .. L : t[p] = j
  <2> TAKE j \in 1 .. n
  <2>1. PICK p \in 1 .. L : a[p] = g[j]
    BY <1>1, <1>2, Zenon
  <2>2. t[p] \in 1 .. n /\ g[t[p]] = g[j]
    BY <1>3, <2>1
  <2>3. t[p] = j
    BY <1>2, <2>2, Zenon
  <2>. QED  BY <2>3, Zenon
<1>6. ASSUME NEW p \in 1 .. L
      PROVE  /\ t[p] \notin {}
             /\ \A r \in 1 .. L : t[p] = t[r] => p = r
             /\ \A j \in DOMAIN q :
                    Before(q, j, t[p]) => j \in {} \/ \E r \in 1 .. p - 1 : t[r] = j
             /\ Accepts(f[p - 1], q[t[p]].op)
             /\ f[p] = NewState(f[p - 1], q[t[p]].op)
  <2>1. ASSUME NEW r \in 1 .. L, t[p] = t[r] PROVE p = r
    <3>1. a[p] = a[r]
      <4>1. g[t[p]] = a[p] /\ g[t[r]] = a[r]
        BY <1>3, Zenon
      <4>. QED  BY <2>1, <4>1
    <3>. QED  BY <1>1, <3>1, Zenon
  <2>2. ASSUME NEW j \in DOMAIN q, Before(q, j, t[p]) PROVE \E r \in 1 .. p - 1 : t[r] = j
    <3>1. PICK r \in 1 .. L : t[r] = j
      BY <1>2, <1>5, Zenon
    <3>2. Before(h, a[r], a[p])
      BY <1>3, <2>2, <3>1, Zenon DEF Before
    <3>3. r < p
      BY <1>1, <3>2, Zenon
    <3>4. r \in 1 .. p - 1
      BY <1>1, <3>3
    <3>. QED  BY <3>1, <3>4, Zenon
  <2>3. q[t[p]] = h[a[p]]
    BY <1>3, Zenon
  <2>4. Accepts(f[p - 1], q[t[p]].op) /\ f[p] = NewState(f[p - 1], q[t[p]].op)
    BY <1>1, <2>3, Zenon
  <2>. QED  BY <2>1, <2>2, <2>4, Zenon
<1>7. IsExt(q, {}, InitState, L, t, f)
  BY <1>1, <1>4, <1>6, Zenon DEF IsExt
<1>8. \A i \in DOMAIN q : \E p \in 1 .. L : t[p] = i
  BY <1>2, <1>5, Zenon
<1>9. L \in Nat
  BY <1>1
<1>. QED  BY <1>7, <1>8, <1>9, Zenon DEF Complete

\* The pairs of S, smaller number first.
Smaller(S) == {z \in S \X S : z[1] < z[2]}

\* A finite set of numbers in order.
Lists(S, M, w) ==
    /\ M \in Nat /\ w \in [1 .. M -> S]
    /\ \A x \in S : \E j \in 1 .. M : w[j] = x
    /\ \A a, b \in 1 .. M : a < b => w[a] < w[b]

LEMMA ListedNumbers ==
    ASSUME NEW N \in Nat, NEW S \in SUBSET (1 .. N)
    PROVE  \E M, w : Lists(S, M, w)
<1> DEFINE R == Smaller(S)
           M == Cardinality(S)
<1>1. IsFiniteSet(S)
  <2>1. IsFiniteSet(1 .. N)
    BY FS_Interval
  <2>. QED  BY <2>1, FS_Subset, Zenon
<1>2. \A x, y \in S : <<x, y>> \in R <=> x < y
  BY DEF Smaller
<1> HIDE DEF R
<1>3. \A x \in S : x \in Nat
  OBVIOUS
<1>4. Orders(R, S)
  <2>1. \A x \in S : <<x, x>> \notin R
    BY <1>2, <1>3
  <2>2. ASSUME NEW x \in S, NEW y \in S, NEW z \in S, <<x, y>> \in R, <<y, z>> \in R
        PROVE  <<x, z>> \in R
    <3>1. x < y /\ y < z
      BY <1>2, <2>2, Zenon
    <3>2. x < z
      BY <1>3, <3>1
    <3>. QED  BY <1>2, <3>2, Zenon
  <2>3. ASSUME NEW x \in S, NEW y \in S PROVE x = y \/ <<x, y>> \in R \/ <<y, x>> \in R
    <3>1. x = y \/ x < y \/ y < x
      BY <1>3
    <3>. QED  BY <1>2, <3>1, Zenon
  <2>. QED  BY <2>1, <2>2, <2>3, Zenon DEF Orders
<1>5. M \in Nat
  BY <1>1, FS_CardinalityType
<1>6. PICK w \in [1 .. M -> S] :
         /\ \A x \in S : \E j \in 1 .. M : w[j] = x
         /\ \A a, b \in 1 .. M : a < b <=> <<w[a], w[b]>> \in R
  BY <1>1, <1>4, Listed
<1> HIDE DEF M
<1>7. \A a, b \in 1 .. M : a < b => w[a] < w[b]
  <2> SUFFICES ASSUME NEW a \in 1 .. M, NEW b \in 1 .. M, a < b PROVE w[a] < w[b]
    OBVIOUS
  <2>1. w[a] \in S /\ w[b] \in S
    BY <1>6
  <2>2. <<w[a], w[b]>> \in R
    BY <1>6, Zenon
  <2>. QED  BY <1>2, <2>1, <2>2, Zenon
<1>8. Lists(S, M, w)
  BY <1>5, <1>6, <1>7, Zenon DEF Lists
<1>. QED  BY <1>8, Zenon

\* The states along any operations of one key.
OfKey(h, k, M, a) == \A p \in 1 .. M : a[p] \in DOMAIN h /\ h[a[p]].op.key = k

AreStates(h, M, a, f) == f[0] = InitState /\ \A p \in 1 .. M : f[p] = NewState(f[p - 1], h[a[p]].op)

LEMMA StatesExist ==
    ASSUME NEW h, NEW k \in Key, NEW M \in Nat, NEW a, OfKey(h, k, M, a)
    PROVE  \E f : AreStates(h, M, a, f)
<1> DEFINE q == [p \in 1 .. M |-> h[a[p]]]
           t == [p \in 1 .. M |-> p]
<1>1. DOMAIN q = 1 .. M /\ \A p \in 1 .. M : q[p] = h[a[p]]
  OBVIOUS
<1>2. t \in [1 .. M -> DOMAIN q] /\ \A p \in 1 .. M : t[p] = p
  BY <1>1
<1> HIDE DEF q, t
<1>3. OneKey(q, k)
  BY <1>1, Zenon DEF OneKey, OfKey
<1> DEFINE f == RunOf(q, k, M, t)
<1>4. IsRun(q, k, M, t, f)
  BY <1>2, <1>3, RunExists, Zenon
<1> HIDE DEF f
<1>5. f[0] = InitState /\ \A p \in 1 .. M : f[p] = NewState(f[p - 1], q[t[p]].op)
  BY <1>4, Zenon DEF IsRun
<1>6. \A p \in 1 .. M : q[t[p]] = h[a[p]]
  BY <1>1, <1>2, Zenon
<1>7. \A p \in 1 .. M : f[p] = NewState(f[p - 1], h[a[p]].op)
  BY <1>5, <1>6, Zenon
<1>. QED  BY <1>5, <1>7, Zenon DEF AreStates

\* An order of all operations has an order of those of each key in it.
LEMMA Split ==
    ASSUME NEW h, IsHist(h), \A i \in DOMAIN h : h[i].op.key \in Key, NEW k \in Key, Linearizable(h)
    PROVE  \E L, a, f : Line(h, k, L, a, f)
<1> DEFINE N == Len(h)
<1>1. PICK order \in Prefixes(h) : Len(order) = N
  BY Zenon DEF Linearizable
<1>2. N \in Nat /\ DOMAIN h = 1 .. N
  BY DEF IsHist
<1>3. PICK L \in 0 .. N : IsPrefix(h, order, L)
  BY PrefixIs, Zenon
<1> DEFINE v == Values(h, order)
           S == {n \in 1 .. N : h[order[n]].op.key = k}
<1>4. /\ order \in [1 .. N -> DOMAIN h]
      /\ \A p, q \in 1 .. N : order[p] = order[q] => p = q
      /\ \A p \in 1 .. N, i \in DOMAIN h :
            Before(h, i, order[p]) => \E q \in 1 .. p - 1 : order[q] = i
      /\ \A n \in 1 .. N : Accepts(v[n - 1][h[order[n]].op.key], h[order[n]].op)
  <2>1. L = N
    BY <1>1, <1>3, Zenon DEF IsPrefix
  <2>. QED  BY <1>3, <2>1, Zenon DEF IsPrefix
<1>5. \A i \in DOMAIN h : \E n \in 1 .. N : order[n] = i
  <2>1. IsFiniteSet(1 .. N)
    BY <1>2, FS_Interval
  <2>2. order \in Injection(1 .. N, 1 .. N)
    BY <1>2, <1>4, Zenon DEF Injection, IsInjective
  <2>3. order \in Surjection(1 .. N, 1 .. N)
    BY <2>1, <2>2, FS_Injection, Zenon
  <2>. QED  BY <1>2, <2>3, Zenon DEF Surjection
<1>6. Evolves(h, order, N, v)
  BY <1>2, <1>4, ValuesIs, Zenon
<1> HIDE DEF v, N
<1>7. PICK M, w : /\ M \in Nat /\ w \in [1 .. M -> S]
                  /\ \A x \in S : \E j \in 1 .. M : w[j] = x
                  /\ \A a, b \in 1 .. M : a < b => w[a] < w[b]
  <2>1. S \in SUBSET (1 .. N)
    OBVIOUS
  <2> HIDE DEF S
  <2>2. PICK M, w : Lists(S, M, w)
    BY <1>2, <2>1, ListedNumbers, Zenon
  <2>. QED  BY <2>2, Zenon DEF Lists
<1>8. \A n : n \in S <=> n \in 1 .. N /\ h[order[n]].op.key = k
  BY Zenon
<1> HIDE DEF S
<1>9. \A p \in 1 .. M : w[p] \in 1 .. N /\ h[order[w[p]]].op.key = k
  <2> TAKE p \in 1 .. M
  <2>1. w[p] \in S
    BY <1>7
  <2>. QED  BY <1>8, <2>1, Zenon
<1> DEFINE a == [p \in 1 .. M |-> order[w[p]]]
<1>10. /\ \A p \in 1 .. M : a[p] = order[w[p]] /\ a[p] \in DOMAIN h /\ h[a[p]].op.key = k
       /\ a \in [1 .. M -> DOMAIN h]
  <2>1. \A p \in 1 .. M : order[w[p]] \in DOMAIN h
    BY <1>4, <1>9
  <2>. QED  BY <1>9, <2>1, Zenon
<1> HIDE DEF a
<1>11. PICK f : f[0] = InitState /\ \A p \in 1 .. M : f[p] = NewState(f[p - 1], h[a[p]].op)
  <2>1. OfKey(h, k, M, a) /\ M \in Nat
    BY <1>7, <1>10, Zenon DEF OfKey
  <2>2. \E f : AreStates(h, M, a, f)
    BY <2>1, StatesExist, Zenon
  <2>. QED  BY <2>2, Zenon DEF AreStates
<1>12. Places(h, order, N, k, w, M)
  <2>1. w \in [1 .. M -> 1 .. N]
    BY <1>7, <1>9
  <2>2. \A n \in 1 .. N : h[order[n]].op.key = k <=> \E q \in 1 .. M : w[q] = n
    BY <1>7, <1>8, <1>9, Zenon
  <2>. QED  BY <1>7, <2>1, <2>2, Zenon DEF Places
<1>13. Follows(h, order, w, M, f)
  BY <1>10, <1>11, Zenon DEF Follows
<1>14. \A q \in 1 .. M : v[w[q] - 1][k] = f[q - 1]
  <2>1. SameAt(v, k, w, M, f)
    BY <1>2, <1>6, <1>7, <1>12, <1>13, SameValues, Zenon
  <2>. QED  BY <2>1, Zenon DEF SameAt
<1>15. \A p \in 1 .. M : Accepts(f[p - 1], h[a[p]].op)
  <2> TAKE p \in 1 .. M
  <2>1. Accepts(v[w[p] - 1][h[order[w[p]]].op.key], h[order[w[p]]].op)
    BY <1>4, <1>9, Zenon
  <2>2. h[order[w[p]]].op.key = k /\ a[p] = order[w[p]] /\ v[w[p] - 1][k] = f[p - 1]
    BY <1>9, <1>10, <1>14, Zenon
  <2>. QED  BY <2>1, <2>2, Zenon
<1>16. ASSUME NEW p \in 1 .. M, NEW q \in 1 .. M, a[p] = a[q] PROVE p = q
  <2>1. w[p] = w[q]
    BY <1>4, <1>9, <1>10, <1>16, Zenon
  <2>2. ~(w[p] < w[q]) /\ ~(w[q] < w[p])
    BY <1>9, <2>1
  <2>3. ~(p < q) /\ ~(q < p)
    BY <1>7, <2>2, Zenon
  <2>. QED  BY <2>3
<1>17. ASSUME NEW i \in DOMAIN h, h[i].op.key = k PROVE \E p \in 1 .. M : a[p] = i
  <2>1. PICK n \in 1 .. N : order[n] = i
    BY <1>5, Zenon
  <2>2. n \in S
    BY <1>8, <1>17, <2>1, Zenon
  <2>3. PICK p \in 1 .. M : w[p] = n
    BY <1>7, <2>2, Zenon
  <2>4. a[p] = order[w[p]]
    BY <1>10, Zenon
  <2>. QED  BY <2>1, <2>3, <2>4, Zenon
<1>18. ASSUME NEW p \in 1 .. M, NEW q \in 1 .. M, Before(h, a[p], a[q]) PROVE p < q
  <2>1. PICK n \in 1 .. w[q] - 1 : order[n] = a[p]
    BY <1>4, <1>9, <1>10, <1>18, Zenon
  <2>2. n \in 1 .. N /\ n < w[q]
    BY <1>2, <1>9
  <2>3. n = w[p]
    BY <1>4, <1>9, <1>10, <2>1, <2>2, Zenon
  <2>4. ~(w[q] < w[p]) /\ w[q] # w[p]
    BY <1>9, <2>2, <2>3
  <2>5. ~(q < p) /\ q # p
    BY <1>7, <2>4, Zenon
  <2>. QED  BY <2>5
<1>19. Line(h, k, M, a, f)
  BY <1>7, <1>10, <1>11, <1>15, <1>16, <1>17, <1>18, Zenon DEF Line
<1>. QED  BY <1>19, Zenon

\* The operations of every key have an order, LineAt the one chosen, and the
\* place of an operation in it.
Lined(h) == \A i \in DOMAIN h : \E L, a, f : Line(h, h[i].op.key, L, a, f)

LineAt(h, k) == CHOOSE x : Line(h, k, x[1], x[2], x[3])

IsLineAt(h, k) == Line(h, k, LineAt(h, k)[1], LineAt(h, k)[2], LineAt(h, k)[3])

PlaceAt(h, i) ==
    CHOOSE p \in 1 .. LineAt(h, h[i].op.key)[1] : LineAt(h, h[i].op.key)[2][p] = i

Placed(h) == [i \in DOMAIN h |-> PlaceAt(h, i)]

\* The chosen order is one.
LEMMA LineAtIs ==
    ASSUME NEW h, Lined(h), NEW i \in DOMAIN h
    PROVE  IsLineAt(h, h[i].op.key)
<1> DEFINE k == h[i].op.key
           P(x) == Line(h, k, x[1], x[2], x[3])
<1>1. PICK L, a, f : Line(h, k, L, a, f)
  BY Zenon DEF Lined
<1> DEFINE y == <<L, a, f>>
<1>2. y[1] = L /\ y[2] = a /\ y[3] = f
  OBVIOUS
<1> HIDE DEF y
<1>3. P(y)
  BY <1>1, <1>2, Zenon
<1>4. \E x : P(x)
  BY <1>3, Zenon
<1>5. P(CHOOSE x : P(x))
  BY <1>4, Zenon
<1>. QED  BY <1>5, Zenon DEF IsLineAt, LineAt

\* Operations i and j are of one key.
SameKey(h, i, j) == h[i].op.key = h[j].op.key

\* pos tells the operations of a key apart and keeps to their times.
Posed(h, pos) ==
    /\ \A i \in DOMAIN h : pos[i] \in Nat
    /\ \A i, j \in DOMAIN h : SameKey(h, i, j) /\ pos[i] = pos[j] => i = j
    /\ \A i, j \in DOMAIN h : SameKey(h, i, j) /\ Before(h, i, j) => pos[i] < pos[j]

\* Places in the chosen orders tell operations apart and keep to their times.
LEMMA PlaceIs ==
    ASSUME NEW h, Lined(h)
    PROVE  /\ \A i \in DOMAIN h :
                 /\ Placed(h)[i] \in 1 .. LineAt(h, h[i].op.key)[1]
                 /\ LineAt(h, h[i].op.key)[2][Placed(h)[i]] = i
           /\ Posed(h, Placed(h))
<1> DEFINE pos == Placed(h)
<1>1. ASSUME NEW i \in DOMAIN h
      PROVE  /\ pos[i] \in 1 .. LineAt(h, h[i].op.key)[1]
             /\ LineAt(h, h[i].op.key)[2][pos[i]] = i
             /\ pos[i] \in Nat
  <2> DEFINE k == h[i].op.key
             L == LineAt(h, k)[1]
             a == LineAt(h, k)[2]
             f == LineAt(h, k)[3]
  <2>1. Line(h, k, L, a, f)
    BY LineAtIs, Zenon DEF IsLineAt
  <2>2. pos[i] = CHOOSE p \in 1 .. L : a[p] = i
    BY Zenon DEF Placed, PlaceAt
  <2> HIDE DEF L, a, f, pos
  <2>3. \E p \in 1 .. L : a[p] = i
    BY <2>1, Zenon DEF Line
  <2>4. pos[i] \in 1 .. L /\ a[pos[i]] = i
    BY <2>2, <2>3, Zenon
  <2>5. L \in Nat
    BY <2>1, Zenon DEF Line
  <2>6. pos[i] \in Nat
    BY <2>4, <2>5
  <2>. QED  BY <2>4, <2>6, Zenon DEF L, a
<1> HIDE DEF pos
<1>2. ASSUME NEW i \in DOMAIN h, NEW j \in DOMAIN h, SameKey(h, i, j)
      PROVE  (pos[i] = pos[j] => i = j) /\ (Before(h, i, j) => pos[i] < pos[j])
  <2> DEFINE k == h[i].op.key
             L == LineAt(h, k)[1]
             a == LineAt(h, k)[2]
             f == LineAt(h, k)[3]
  <2>1. Line(h, k, L, a, f)
    BY LineAtIs, Zenon DEF IsLineAt
  <2>2. h[j].op.key = k
    BY <1>2, Zenon DEF SameKey
  <2>3. pos[i] \in 1 .. L /\ pos[j] \in 1 .. L /\ a[pos[i]] = i /\ a[pos[j]] = j
    BY <1>1, <2>2, Zenon
  <2> HIDE DEF L, a, f, k
  <2>4. Before(h, i, j) => pos[i] < pos[j]
    <3> DEFINE x == pos[i]
               y == pos[j]
    <3>1. x \in 1 .. L /\ y \in 1 .. L /\ a[x] = i /\ a[y] = j
      BY <2>3, Zenon
    <3> HIDE DEF x, y
    <3>2. Before(h, a[x], a[y]) => x < y
      BY <2>1, <3>1, Zenon DEF Line
    <3>3. Before(h, i, j) => x < y
      BY <3>1, <3>2, Zenon
    <3>. QED  BY <3>3, Zenon DEF x, y
  <2>5. pos[i] = pos[j] => a[pos[i]] = a[pos[j]]
    OBVIOUS
  <2>6. pos[i] = pos[j] => i = j
    BY <2>3, <2>5
  <2>. QED  BY <2>4, <2>6, Zenon
<1>3. Posed(h, pos)
  BY <1>1, <1>2, Zenon DEF Posed
<1>. QED  BY <1>1, <1>3, Zenon DEF pos

\* The moments at which an operation may take effect after those before it.
Moments(h, pos, i) ==
    {n \in Nat : \A j \in DOMAIN h : SameKey(h, i, j) /\ pos[j] <= pos[i] => h[j].call <= n}

Moment(h, pos, i) == CHOOSE n \in Moments(h, pos, i) : \A m \in Moments(h, pos, i) : n <= m

\* T gives every operation a moment between its call and its return, and those
\* of a key moments in their order.
Clocked(h, pos, T) ==
    /\ \A i \in DOMAIN h : T[i] \in Nat /\ h[i].call <= T[i] /\ T[i] <= h[i].return
    /\ \A i, j \in DOMAIN h : SameKey(h, i, j) /\ pos[i] < pos[j] => T[i] <= T[j]

\* The latest call so far lies between the call and the return of an operation.
LEMMA Clock ==
    ASSUME NEW h, IsHist(h), \A i \in DOMAIN h : h[i].call \in Nat, NEW pos, Posed(h, pos)
    PROVE  Clocked(h, pos, [i \in DOMAIN h |-> Moment(h, pos, i)])
<1> DEFINE T == [i \in DOMAIN h |-> Moment(h, pos, i)]
           U(i) == Moments(h, pos, i)
<1>1. /\ \A i \in DOMAIN h : h[i].call \in Nat /\ h[i].return \in Nat /\ h[i].call <= h[i].return
      /\ \A i \in DOMAIN h : pos[i] \in Nat
  BY DEF IsHist, Posed
<1>2. \A i : \A n : n \in U(i) <=>
         n \in Nat /\ \A j \in DOMAIN h : SameKey(h, i, j) /\ pos[j] <= pos[i] => h[j].call <= n
  BY Zenon DEF Moments
<1>3. ASSUME NEW i \in DOMAIN h PROVE h[i].return \in U(i)
  <2> SUFFICES ASSUME NEW j \in DOMAIN h, SameKey(h, i, j), pos[j] <= pos[i]
               PROVE  h[j].call <= h[i].return
    BY <1>1, <1>2, Zenon
  <2>1. ~(pos[i] < pos[j])
    BY <1>1
  <2>2. ~Before(h, i, j)
    BY <2>1, Zenon DEF Posed
  <2>3. ~(h[i].return < h[j].call)
    BY <2>2, Zenon DEF Before
  <2>. QED  BY <1>1, <2>3
<1>4. ASSUME NEW i \in DOMAIN h PROVE T[i] \in U(i) /\ \A m \in U(i) : T[i] <= m
  <2>1. T[i] = CHOOSE n \in U(i) : \A m \in U(i) : n <= m
    BY Zenon DEF Moment
  <2>2. U(i) \in SUBSET Nat /\ U(i) # {}
    BY <1>2, <1>3, Zenon
  <2> HIDE DEF U, T
  <2>3. \E n \in U(i) : \A m \in U(i) : n <= m
    BY <2>2, Least
  <2>. QED  BY <2>1, <2>3, Zenon
<1> HIDE DEF T, U
<1>5. ASSUME NEW i \in DOMAIN h PROVE T[i] \in Nat /\ h[i].call <= T[i] /\ T[i] <= h[i].return
  <2>1. SameKey(h, i, i) /\ pos[i] <= pos[i]
    BY <1>1 DEF SameKey
  <2>. QED  BY <1>2, <1>3, <1>4, <2>1, Zenon
<1>6. ASSUME NEW i \in DOMAIN h, NEW j \in DOMAIN h, SameKey(h, i, j), pos[i] < pos[j]
      PROVE  T[i] <= T[j]
  <2>1. T[j] \in U(i)
    <3>1. ASSUME NEW m \in DOMAIN h, SameKey(h, i, m), pos[m] <= pos[i] PROVE h[m].call <= T[j]
      <4>1. SameKey(h, j, m)
        BY <1>6, <3>1, Zenon DEF SameKey
      <4>2. pos[m] <= pos[j]
        BY <1>1, <1>6, <3>1
      <4>. QED  BY <1>2, <1>4, <4>1, <4>2, Zenon
    <3>. QED  BY <1>2, <1>5, <3>1, Zenon
  <2>. QED  BY <1>4, <2>1, Zenon
<1>7. Clocked(h, pos, T)
  BY <1>5, <1>6, Zenon DEF Clocked
<1>. QED  BY <1>7, Zenon DEF T

\* An operation that stands for all those of its key.
Rep(h, i) == CHOOSE j \in DOMAIN h : h[j].op.key = h[i].op.key

\* Two operations have one representative exactly if they are of one key.
LEMMA RepIs ==
    ASSUME NEW h, NEW i \in DOMAIN h, NEW j \in DOMAIN h
    PROVE  /\ Rep(h, i) \in DOMAIN h
           /\ Rep(h, i) = Rep(h, j) <=> SameKey(h, i, j)
<1>1. Rep(h, i) \in DOMAIN h /\ h[Rep(h, i)].op.key = h[i].op.key
  BY Zenon DEF Rep
<1>2. Rep(h, j) \in DOMAIN h /\ h[Rep(h, j)].op.key = h[j].op.key
  BY Zenon DEF Rep
<1>3. SameKey(h, i, j) => Rep(h, i) = Rep(h, j)
  BY Zenon DEF SameKey, Rep
<1>4. ASSUME Rep(h, i) = Rep(h, j) PROVE SameKey(h, i, j)
  <2>1. h[Rep(h, i)] = h[Rep(h, j)]
    BY <1>4, Zenon
  <2>2. h[Rep(h, i)].op.key = h[Rep(h, j)].op.key
    BY <2>1, Zenon
  <2>. QED  BY <1>1, <1>2, <2>2, Zenon DEF SameKey
<1>. QED  BY <1>1, <1>3, <1>4, Zenon

\* Earlier moment first, at one moment key by key, and each key in its order.
Lex(a, b, c, x, y, z) == a < x \/ (a = x /\ (b < y \/ (b = y /\ c < z)))

Earlier(h, pos, T, i, j) == Lex(T[i], Rep(h, i), pos[i], T[j], Rep(h, j), pos[j])

Merging(h, pos, T) == {z \in (DOMAIN h) \X (DOMAIN h) : Earlier(h, pos, T, z[1], z[2])}

LEMMA MergingIs ==
    ASSUME NEW h, NEW pos, NEW T, NEW i \in DOMAIN h, NEW j \in DOMAIN h
    PROVE  <<i, j>> \in Merging(h, pos, T) <=> Earlier(h, pos, T, i, j)
BY DEF Merging

\* The moments, keys and places order all operations.
LEMMA MergingOrders ==
    ASSUME NEW h, IsHist(h), NEW pos, Posed(h, pos), NEW T, Clocked(h, pos, T)
    PROVE  Orders(Merging(h, pos, T), DOMAIN h)
<1> DEFINE D == DOMAIN h
           R == Merging(h, pos, T)
           E(i, j) == Earlier(h, pos, T, i, j)
<1>1. \A i, j \in D : <<i, j>> \in R <=> E(i, j)
  BY MergingIs, Zenon
<1>2. \A i \in D : i \in Int
  BY DEF IsHist
<1>3. \A i \in D : T[i] \in Int /\ pos[i] \in Int /\ Rep(h, i) \in Int
  <2> TAKE i \in D
  <2>1. T[i] \in Nat /\ pos[i] \in Nat
    BY Zenon DEF Clocked, Posed
  <2>2. Rep(h, i) \in Int
    BY <1>2, RepIs, Zenon
  <2>. QED  BY <2>1, <2>2
<1> HIDE DEF R
<1>4. ASSUME NEW i \in D PROVE ~E(i, i)
  <2> DEFINE a == T[i]  b == Rep(h, i)  c == pos[i]
  <2>1. a \in Int /\ b \in Int /\ c \in Int
    BY <1>3, Zenon
  <2> HIDE DEF a, b, c
  <2>2. ~Lex(a, b, c, a, b, c)
    BY <2>1 DEF Lex
  <2>. QED  BY <2>2, Zenon DEF Earlier, a, b, c
<1>5. ASSUME NEW i \in D, NEW j \in D, NEW m \in D, E(i, j), E(j, m) PROVE E(i, m)
  <2> DEFINE a == T[i]  b == Rep(h, i)  c == pos[i]
             p == T[j]  q == Rep(h, j)  r == pos[j]
             x == T[m]  y == Rep(h, m)  z == pos[m]
  <2>1. /\ a \in Int /\ b \in Int /\ c \in Int /\ p \in Int /\ q \in Int /\ r \in Int
        /\ x \in Int /\ y \in Int /\ z \in Int
    BY <1>3, Zenon
  <2>2. Lex(a, b, c, p, q, r) /\ Lex(p, q, r, x, y, z)
    BY <1>5, Zenon DEF Earlier
  <2> HIDE DEF a, b, c, p, q, r, x, y, z
  <2>3. Lex(a, b, c, x, y, z)
    BY <2>1, <2>2 DEF Lex
  <2>. QED  BY <2>3, Zenon DEF Earlier, a, b, c, x, y, z
<1>6. ASSUME NEW i \in D, NEW j \in D PROVE i = j \/ E(i, j) \/ E(j, i)
  <2>1. E(i, j) \/ E(j, i) \/ (T[i] = T[j] /\ Rep(h, i) = Rep(h, j) /\ pos[i] = pos[j])
    <3> DEFINE a == T[i]  b == Rep(h, i)  c == pos[i]
               x == T[j]  y == Rep(h, j)  z == pos[j]
    <3>1. a \in Int /\ b \in Int /\ c \in Int /\ x \in Int /\ y \in Int /\ z \in Int
      BY <1>3, Zenon
    <3> HIDE DEF a, b, c, x, y, z
    <3>2. Lex(a, b, c, x, y, z) \/ Lex(x, y, z, a, b, c) \/ (a = x /\ b = y /\ c = z)
      BY <3>1 DEF Lex
    <3>. QED  BY <3>2, Zenon DEF Earlier, a, b, c, x, y, z
  <2>2. Rep(h, i) = Rep(h, j) => SameKey(h, i, j)
    BY RepIs, Zenon
  <2>. QED  BY <2>1, <2>2, Zenon DEF Posed
<1> HIDE DEF E
<1>7. Orders(R, D)
  BY <1>1, <1>4, <1>5, <1>6, Zenon DEF Orders
<1>. QED  BY <1>7, Zenon DEF R

\* order has all operations once, as their times and their places allow.
Merged(h, pos, order) ==
    /\ order \in [1 .. Len(h) -> DOMAIN h]
    /\ \A i \in DOMAIN h : \E p \in 1 .. Len(h) : order[p] = i
    /\ \A p, q \in 1 .. Len(h) : order[p] = order[q] => p = q
    /\ \A p, q \in 1 .. Len(h) : Before(h, order[p], order[q]) => p < q
    /\ \A p, q \in 1 .. Len(h) :
          SameKey(h, order[p], order[q]) /\ pos[order[p]] < pos[order[q]] => p < q

\* The orders of the keys merge into one that all times allow.
LEMMA Merge ==
    ASSUME NEW h, IsHist(h), \A i \in DOMAIN h : h[i].call \in Nat, NEW pos, Posed(h, pos)
    PROVE  \E order : Merged(h, pos, order)
<1> DEFINE N == Len(h)
           T == [i \in DOMAIN h |-> Moment(h, pos, i)]
           R == Merging(h, pos, T)
<1>1. N \in Nat /\ DOMAIN h = 1 .. N
  BY DEF IsHist
<1>2. Clocked(h, pos, T)
  BY Clock
<1> HIDE DEF T
<1>3. \A i, j \in DOMAIN h : <<i, j>> \in R <=> Earlier(h, pos, T, i, j)
  BY MergingIs, Zenon
<1>4. Orders(R, DOMAIN h)
  BY <1>2, MergingOrders, Zenon
<1> HIDE DEF R, N
<1>5. IsFiniteSet(DOMAIN h) /\ Cardinality(DOMAIN h) = N
  BY <1>1, FS_Interval
<1>6. PICK w \in [1 .. N -> DOMAIN h] :
         /\ \A x \in DOMAIN h : \E j \in 1 .. N : w[j] = x
         /\ \A a, b \in 1 .. N : a < b <=> <<w[a], w[b]>> \in R
  <2>1. /\ Cardinality(DOMAIN h) \in Nat
        /\ \E w \in [1 .. Cardinality(DOMAIN h) -> DOMAIN h] :
              /\ \A x \in DOMAIN h : \E j \in 1 .. Cardinality(DOMAIN h) : w[j] = x
              /\ \A a, b \in 1 .. Cardinality(DOMAIN h) : a < b <=> <<w[a], w[b]>> \in R
    BY <1>4, <1>5, Listed
  <2>. QED  BY <1>5, <2>1, Zenon
<1>7. \A p \in 1 .. N : w[p] \in DOMAIN h
  BY <1>6
<1>8. \A p, q \in 1 .. N : p < q <=> Earlier(h, pos, T, w[p], w[q])
  BY <1>3, <1>6, <1>7, Zenon
<1>9. \A i \in DOMAIN h : /\ T[i] \in Nat /\ h[i].call <= T[i] /\ T[i] <= h[i].return
                          /\ h[i].call \in Int /\ h[i].return \in Int
  BY <1>2, Zenon DEF Clocked, IsHist
<1>10. ASSUME NEW p \in 1 .. N, NEW q \in 1 .. N, w[p] = w[q] PROVE p = q
  <2>1. <<w[p], w[q]>> \notin R /\ <<w[q], w[p]>> \notin R
    BY <1>4, <1>7, <1>10, Zenon DEF Orders
  <2>2. ~(p < q) /\ ~(q < p)
    BY <1>6, <2>1, Zenon
  <2>. QED  BY <1>1, <2>2
<1>11. ASSUME NEW p \in 1 .. N, NEW q \in 1 .. N, Before(h, w[p], w[q]) PROVE p < q
  <2> DEFINE i == w[p]
             j == w[q]
  <2>1. i \in DOMAIN h /\ j \in DOMAIN h
    BY <1>7, Zenon
  <2>2. h[i].return < h[j].call
    BY <1>11, Zenon DEF Before
  <2> HIDE DEF i, j
  <2>3. T[i] < T[j]
    BY <1>9, <2>1, <2>2
  <2>4. Earlier(h, pos, T, i, j)
    BY <2>3, Zenon DEF Earlier, Lex
  <2>. QED  BY <1>8, <2>4, Zenon DEF i, j
<1>12. ASSUME NEW p \in 1 .. N, NEW q \in 1 .. N, SameKey(h, w[p], w[q]), pos[w[p]] < pos[w[q]]
       PROVE  p < q
  <2> DEFINE i == w[p]
             j == w[q]
  <2>1. i \in DOMAIN h /\ j \in DOMAIN h /\ SameKey(h, i, j) /\ pos[i] < pos[j]
    BY <1>7, <1>12, Zenon
  <2> HIDE DEF i, j
  <2>2. T[i] <= T[j] /\ T[i] \in Nat /\ T[j] \in Nat
    BY <1>2, <2>1, Zenon DEF Clocked
  <2>3. T[i] < T[j] \/ T[i] = T[j]
    BY <2>2
  <2>4. Rep(h, i) = Rep(h, j)
    BY <2>1, RepIs, Zenon
  <2>5. Earlier(h, pos, T, i, j)
    BY <2>1, <2>3, <2>4, Zenon DEF Earlier, Lex
  <2>. QED  BY <1>8, <2>5, Zenon DEF i, j
<1>13. Merged(h, pos, w)
  BY <1>6, <1>10, <1>11, <1>12, Zenon DEF Merged, N
<1>. QED  BY <1>13, Zenon

\* The operations of one key accept what they returned in a merged order.
LEMMA MergedLegal ==
    ASSUME NEW h, IsHist(h), \A i \in DOMAIN h : h[i].op.key \in Key, Lined(h),
           NEW order, Merged(h, Placed(h), order), NEW n \in 1 .. Len(h)
    PROVE  Accepts(Values(h, order)[n - 1][h[order[n]].op.key], h[order[n]].op)
<1> DEFINE N == Len(h)
           v == Values(h, order)
           k == h[order[n]].op.key
           L == LineAt(h, k)[1]
           a == LineAt(h, k)[2]
           f == LineAt(h, k)[3]
           w == [q \in 1 .. L |-> CHOOSE m \in 1 .. N : order[m] = a[q]]
<1>1. /\ order \in [1 .. N -> DOMAIN h]
      /\ \A i \in DOMAIN h : \E p \in 1 .. N : order[p] = i
      /\ \A p, q \in 1 .. N : order[p] = order[q] => p = q
      /\ \A p, q \in 1 .. N :
            SameKey(h, order[p], order[q]) /\ Placed(h)[order[p]] < Placed(h)[order[q]] => p < q
  BY Zenon DEF Merged
<1>2. N \in Nat
  BY DEF IsHist
<1>3. Evolves(h, order, N, v)
  BY <1>1, <1>2, ValuesIs, Zenon
<1>4. order[n] \in DOMAIN h
  BY <1>1
<1>5. k \in Key /\ IsLineAt(h, k)
  BY <1>4, LineAtIs, Zenon
<1>6. Line(h, k, L, a, f)
  BY <1>5, Zenon DEF IsLineAt
<1>7. \A i \in DOMAIN h : h[i].op.key = k => Placed(h)[i] \in 1 .. L /\ a[Placed(h)[i]] = i
  BY PlaceIs, Zenon
<1> HIDE DEF L, a, f, v, N
<1>10. \A q \in 1 .. L : a[q] \in DOMAIN h /\ h[a[q]].op.key = k
  <2>1. a \in [1 .. L -> DOMAIN h] /\ \A q \in 1 .. L : h[a[q]].op.key = k
    BY <1>6, Zenon DEF Line
  <2>. QED  BY <2>1
<1>11. \A q \in 1 .. L : w[q] \in 1 .. N /\ order[w[q]] = a[q]
  <2> TAKE q \in 1 .. L
  <2>1. \E m \in 1 .. N : order[m] = a[q]
    BY <1>1, <1>10, Zenon
  <2>2. w[q] = CHOOSE m \in 1 .. N : order[m] = a[q]
    BY Zenon
  <2> HIDE DEF w
  <2>. QED  BY <2>1, <2>2, Zenon
<1>9. w \in [1 .. L -> 1 .. N]
  <2>1. \A q \in 1 .. L : w[q] \in 1 .. N /\ w[q] = CHOOSE m \in 1 .. N : order[m] = a[q]
    BY <1>11, Zenon
  <2>2. \A q \in 1 .. L : (CHOOSE m \in 1 .. N : order[m] = a[q]) \in 1 .. N
    BY <2>1, Zenon
  <2>. QED  BY <2>2, Zenon
<1> HIDE DEF w
<1>12. \A q \in 1 .. L : Placed(h)[a[q]] = q
  <2> TAKE q \in 1 .. L
  <2> DEFINE p == Placed(h)[a[q]]
  <2>1. p \in 1 .. L /\ a[p] = a[q]
    BY <1>7, <1>10, Zenon
  <2> HIDE DEF p
  <2>2. p = q
    BY <1>6, <2>1, Zenon DEF Line
  <2>. QED  BY <2>2, Zenon DEF p
<1>13. Places(h, order, N, k, w, L)
  <2>1. w \in [1 .. L -> 1 .. N]
    BY <1>9, Zenon
  <2>2. ASSUME NEW p \in 1 .. L, NEW q \in 1 .. L, p < q PROVE w[p] < w[q]
    <3> DEFINE x == w[p]
               y == w[q]
    <3>1. x \in 1 .. N /\ y \in 1 .. N /\ order[x] = a[p] /\ order[y] = a[q]
      BY <1>11, Zenon
    <3> HIDE DEF x, y
    <3>2. SameKey(h, a[p], a[q]) /\ Placed(h)[a[p]] = p /\ Placed(h)[a[q]] = q
      BY <1>10, <1>12, Zenon DEF SameKey
    <3>3. SameKey(h, order[x], order[y])
      BY <3>1, <3>2, Zenon
    <3>4. Placed(h)[order[x]] = p /\ Placed(h)[order[y]] = q
      BY <3>1, <3>2, Zenon
    <3>5. Placed(h)[order[x]] < Placed(h)[order[y]]
      BY <2>2, <3>4
    <3>6. x < y
      BY <1>1, <3>1, <3>3, <3>5, Zenon
    <3>. QED  BY <3>6, Zenon DEF x, y
  <2>3. ASSUME NEW m \in 1 .. N, h[order[m]].op.key = k PROVE \E q \in 1 .. L : w[q] = m
    <3>1. order[m] \in DOMAIN h
      BY <1>1
    <3>2. PICK q \in 1 .. L : a[q] = order[m]
      BY <1>6, <2>3, <3>1, Zenon DEF Line
    <3>3. w[q] \in 1 .. N /\ order[w[q]] = order[m]
      BY <1>11, <3>2, Zenon
    <3>. QED  BY <1>1, <3>3, Zenon
  <2>4. ASSUME NEW q \in 1 .. L PROVE h[order[w[q]]].op.key = k
    BY <1>10, <1>11, Zenon
  <2>5. \A m \in 1 .. N : h[order[m]].op.key = k <=> \E q \in 1 .. L : w[q] = m
    BY <2>3, <2>4, Zenon
  <2>. QED  BY <2>1, <2>2, <2>5, Zenon DEF Places
<1>14. Follows(h, order, w, L, f)
  <2>1. \A q \in 1 .. L : f[q] = NewState(f[q - 1], h[a[q]].op)
    BY <1>6, Zenon DEF Line
  <2>2. f[0] = InitState
    BY <1>6, Zenon DEF Line
  <2>3. \A q \in 1 .. L : f[q] = NewState(f[q - 1], h[order[w[q]]].op)
    BY <1>11, <2>1, Zenon
  <2>. QED  BY <2>2, <2>3, Zenon DEF Follows
<1>15. L \in Nat
  BY <1>6, Zenon DEF Line
<1>16. SameAt(v, k, w, L, f)
  <2> HIDE DEF k
  <2>. QED  BY <1>2, <1>3, <1>5, <1>13, <1>14, <1>15, SameValues, Zenon
<1>17. PICK q \in 1 .. L : w[q] = n
  <2>1. n \in 1 .. N
    BY Zenon DEF N
  <2>. QED  BY <1>13, <2>1, Zenon DEF Places
<1>18. v[w[q] - 1][k] = f[q - 1]
  BY <1>16, Zenon DEF SameAt
<1>19. v[n - 1][k] = f[q - 1]
  BY <1>17, <1>18, Zenon
<1>20. Accepts(f[q - 1], h[a[q]].op)
  BY <1>6, Zenon DEF Line
<1>21. a[q] = order[n]
  BY <1>11, <1>17, Zenon
<1>. QED  BY <1>19, <1>20, <1>21, Zenon DEF v

\* Orders for all keys make a history linearizable.
LEMMA Join ==
    ASSUME NEW h, IsHist(h), \A i \in DOMAIN h : h[i].op.key \in Key /\ h[i].call \in Nat, Lined(h)
    PROVE  Linearizable(h)
<1> DEFINE N == Len(h)
           pos == Placed(h)
<1>1. N \in Nat /\ DOMAIN h = 1 .. N
  BY DEF IsHist
<1>2. Posed(h, pos)
  BY PlaceIs, Zenon
<1>3. PICK order : Merged(h, pos, order)
  <2> HIDE DEF pos
  <2>. QED  BY <1>2, Merge, Zenon
<1>4. \A n \in 1 .. N : Accepts(Values(h, order)[n - 1][h[order[n]].op.key], h[order[n]].op)
  BY <1>3, MergedLegal, Zenon
<1> HIDE DEF pos, N
<1>5. /\ order \in [1 .. N -> DOMAIN h]
      /\ \A i \in DOMAIN h : \E p \in 1 .. N : order[p] = i
      /\ \A p, q \in 1 .. N : order[p] = order[q] => p = q
      /\ \A p, q \in 1 .. N : Before(h, order[p], order[q]) => p < q
  BY <1>3, Zenon DEF Merged, N
<1>6. Len(order) = N /\ DOMAIN order = 1 .. N
  BY <1>1, <1>5, LenIs, Zenon
<1>7. ASSUME NEW p \in 1 .. N, NEW i \in DOMAIN h, Before(h, i, order[p])
      PROVE  \E q \in 1 .. p - 1 : order[q] = i
  <2>1. PICK q \in 1 .. N : order[q] = i
    BY <1>5, Zenon
  <2>2. q < p
    BY <1>5, <1>7, <2>1, Zenon
  <2>3. q \in 1 .. p - 1
    BY <1>1, <2>2
  <2>. QED  BY <2>1, <2>3, Zenon
<1>8. IsPrefix(h, order, N)
  BY <1>4, <1>5, <1>6, <1>7, Zenon DEF IsPrefix
<1>9. N \in 0 .. N
  BY <1>1
<1>10. \E L \in 0 .. Len(h) : IsPrefix(h, order, L)
  BY <1>8, <1>9, Zenon DEF N
<1>11. order \in Prefixes(h)
  BY <1>10, PrefixIs, Zenon
<1>. QED  BY <1>6, <1>11, Zenon DEF Linearizable, N

\* The checker searches the history of every key on its own: the whole history is
\* linearizable exactly if each of them has a full order of effects.
THEOREM Locality ==
    ASSUME hist \in Histories
    PROVE  Linearizable(hist) <=> \A k \in Parts : Complete(Partition(hist, k))
<1>1. IsHist(hist)
  BY HistIs, Zenon
<1>2. \A i \in DOMAIN hist : hist[i].op \in Op /\ hist[i].call \in Nat
  BY HistIs, Zenon
<1>3. \A i \in DOMAIN hist : hist[i].op.key \in Key
  BY <1>2, OpAssumption, Zenon
<1>4. \A k : k \in Parts <=> \E i \in DOMAIN hist : k = hist[i].op.key
  BY Zenon DEF Parts
<1>5. ASSUME Linearizable(hist), NEW k \in Parts PROVE Complete(Partition(hist, k))
  <2>1. k \in Key
    BY <1>3, <1>4, Zenon
  <2>2. PICK L, a, f : Line(hist, k, L, a, f)
    BY <1>1, <1>3, <1>5, <2>1, Split, Zenon
  <2>3. Picked(hist, k, Cardinality(Mine(hist, k)), Pick(hist, k), Partition(hist, k))
    BY <1>1, PickedIs, Zenon
  <2>. QED  BY <2>2, <2>3, LineComplete, Zenon
<1>6. ASSUME \A k \in Parts : Complete(Partition(hist, k)) PROVE Linearizable(hist)
  <2>1. ASSUME NEW i \in DOMAIN hist PROVE \E L, a, f : Line(hist, hist[i].op.key, L, a, f)
    <3> DEFINE k == hist[i].op.key
    <3>1. Complete(Partition(hist, k))
      BY <1>4, <1>6, Zenon
    <3>2. Picked(hist, k, Cardinality(Mine(hist, k)), Pick(hist, k), Partition(hist, k))
      BY <1>1, PickedIs, Zenon
    <3> HIDE DEF k
    <3>3. \E L, a, f : Line(hist, k, L, a, f)
      BY <3>1, <3>2, LineOf, Zenon
    <3>. QED  BY <3>3, Zenon DEF k
  <2>2. Lined(hist)
    BY <2>1, Zenon DEF Lined
  <2>. QED  BY <1>1, <1>2, <1>3, <2>2, Join, Zenon
<1>. QED  BY <1>5, <1>6, Zenon

----------------------------------------------------------------------------
(* The shape of a search *)

\* The search looks at a node of the list, and has passed calls only.
Looking(e, c, nx, en) ==
    nx[0] = Nil \/ /\ en \in Left(e, c, Len(c))
                   /\ \A n \in Left(e, c, Len(c)) : n < en => e[n].call

ShapeOf(h, e, c, st, nx, pv, en, b) ==
    /\ Stack(e, c, st)
    /\ List(e, c, nx, pv)
    /\ Looking(e, c, nx, en)
    /\ BitsType(b, Len(h)) /\ Ones(b, Len(h)) = DoneAt(e, c, Len(c))

\* Nodes are numbers.
LEMMA LeftType ==
    ASSUME NEW h, IsHist(h), NEW e, Listing(h, e), NEW c, NEW j
    PROVE  Len(e) \in Nat /\ DOMAIN e = 1 .. Len(e) /\ Left(e, c, j) \in SUBSET (1 .. Len(e))
<1>1. Len(e) = 2 * Len(h) /\ Len(h) \in Nat /\ DOMAIN e = 1 .. Len(e)
  BY Zenon DEF Listing, IsHist
<1>2. Left(e, c, j) \subseteq DOMAIN e
  BY Zenon DEF Left
<1>. QED  BY <1>1, <1>2

\* A node is behind another one of the list exactly if it is not before its next.
LEMMA NextIs ==
    ASSUME NEW z \in Nat, NEW S \in SUBSET (1 .. z), NEW n \in 0 .. z, NEW x, x # Nil,
           IsNext(S, n, x)
    PROVE  x \in S /\ \A y \in S : y < x => y <= n
<1>1. x \in S /\ \A y \in S : y <= n \/ y >= x
  BY Zenon DEF IsNext
<1>. QED  BY <1>1

\* The stack, the links and the bits when the call a was linearized, against those before.
AfterPush(h, e, c, st, nx, a, b, d, n2, p2) ==
    /\ ShapeOf(h, e, d, NewState(st, e[a].op), n2, p2, n2[0], Set(b, e[a].id))
    /\ nx[a] # Nil /\ Len(c) \in Nat /\ Len(d) = Len(c) + 1 /\ d[Len(d)].entry = a
    /\ d[Len(d)].state = st /\ Agree(c, d, Len(c))
    /\ n2[0] # Nil => \A n \in Left(e, d, Len(d)) : ~(n < n2[0])
    /\ DoneAt(e, d, Len(d)) = DoneAt(e, c, Len(c)) \union {e[a].id}

\* Lifting the entry under the cursor keeps the shape of a search.
LEMMA ShapePush ==
    ASSUME NEW h, IsHist(h), NEW e, Listing(h, e), NEW c, NEW st, NEW nx, NEW pv, NEW a, NEW b,
           ShapeOf(h, e, c, st, nx, pv, a, b), nx[0] # Nil, e[a].call, Accepts(st, e[a].op),
           NEW d, d = Pushed(c, a, st),
           NEW n2, n2 = LiftNext(nx, pv, a, Return(e, a)),
           NEW p2, p2 = LiftPrev(nx, pv, a, Return(e, a))
    PROVE  AfterPush(h, e, c, st, nx, a, b, d, n2, p2)
<1> DEFINE m == Len(c)
<1>1. /\ Stack(e, c, st) /\ List(e, c, nx, pv) /\ a \in Left(e, c, m)
      /\ OnlyCalls(e, Left(e, c, m), a)
  BY Zenon DEF ShapeOf, Looking, OnlyCalls
<1>2. /\ Stack(e, d, NewState(st, e[a].op)) /\ Len(d) = m + 1
      /\ d[Len(d)].entry = a /\ d[Len(d)].state = st /\ Agree(c, d, m)
  <2>1. LET x == Pushed(c, a, st) IN
        /\ Stack(e, x, NewState(st, e[a].op)) /\ Len(x) = m + 1
        /\ x[Len(x)].entry = a /\ x[Len(x)].state = st /\ Agree(c, x, m)
    BY <1>1, StackPush, Zenon
  <2>. QED  BY <2>1, Zenon
<1>3. m \in Nat
  BY <1>1, SeqIs, Zenon DEF Stack
<1>4. nx[a] # Nil /\ List(e, d, n2, p2)
  <2>1. IsSeq(d)
    BY <1>2, Zenon DEF Stack
  <2>2. /\ nx[a] # Nil
        /\ List(e, d, LiftNext(nx, pv, a, Return(e, a)), LiftPrev(nx, pv, a, Return(e, a)))
    BY <1>1, <1>2, <2>1, LiftKeeps, Zenon
  <2>. QED  BY <2>2, Zenon
<1>5. /\ n2[0] = Nil \/ n2[0] \in Left(e, d, Len(d))
      /\ n2[0] # Nil => \A n \in Left(e, d, Len(d)) : ~(n < n2[0])
  <2> DEFINE B == Left(e, d, Len(d))
             z == Len(e)
             x == n2[0]
  <2>1. z \in Nat /\ B \in SUBSET (1 .. z)
    BY LeftType
  <2>2. IsNext(B, 0, x)
    BY <1>4, Zenon DEF List, Linked
  <2>3. 0 \in 0 .. z
    BY <2>1
  <2> HIDE DEF B, z, x
  <2>4. ASSUME x # Nil PROVE x \in B /\ \A n \in B : ~(n < x)
    <3>1. x \in B /\ \A y \in B : y < x => y <= 0
      BY <2>1, <2>2, <2>3, <2>4, NextIs
    <3>2. \A y \in B : ~(y <= 0)
      BY <2>1
    <3>. QED  BY <3>1, <3>2, Zenon
  <2>. QED  BY <2>4, Zenon DEF B, x
<1>6. Looking(e, d, n2, n2[0])
  BY <1>5, Zenon DEF Looking
<1>7. DoneAt(e, d, Len(d)) = DoneAt(e, c, m) \union {e[a].id}
  <2>1. m + 1 \in Nat /\ m + 1 # 0 /\ (m + 1) - 1 = m /\ m \in 0 .. m
    BY <1>3
  <2>2. DoneAt(e, d, m + 1) = DoneAt(e, d, m) \union {e[d[m + 1].entry].id}
    BY <2>1, DoneNext
  <2>3. DoneAt(e, d, m) = DoneAt(e, c, m)
    BY <1>2, <1>3, <2>1, SameDone, Zenon
  <2>. QED  BY <1>2, <2>2, <2>3, Zenon
<1>8. BitsType(Set(b, e[a].id), Len(h)) /\ Ones(Set(b, e[a].id), Len(h)) = DoneAt(e, d, Len(d))
  <2>1. a \in DOMAIN e
    BY <1>1, Zenon DEF Left
  <2>2. e[a].id \in 1 .. Len(h) /\ Len(h) \in Nat
    BY <2>1, Zenon DEF Listing, IsHist
  <2>3. BitsType(b, Len(h)) /\ Ones(b, Len(h)) = DoneAt(e, c, m)
    BY Zenon DEF ShapeOf
  <2>4. /\ BitsType(Set(b, e[a].id), Len(h))
        /\ Ones(Set(b, e[a].id), Len(h)) = Ones(b, Len(h)) \union {e[a].id}
    BY <2>2, <2>3, SetBits, Zenon
  <2>. QED  BY <1>7, <2>3, <2>4, Zenon
<1>9. ShapeOf(h, e, d, NewState(st, e[a].op), n2, p2, n2[0], Set(b, e[a].id))
  BY <1>2, <1>4, <1>6, <1>8, Zenon DEF ShapeOf
<1>. QED  BY <1>2, <1>3, <1>4, <1>5, <1>7, <1>9, Zenon DEF AfterPush

\* Moving the cursor on keeps the shape of a search.
LEMMA ShapeSkip ==
    ASSUME NEW h, IsHist(h), NEW e, Listing(h, e), NEW c, NEW st, NEW nx, NEW pv, NEW a, NEW b,
           ShapeOf(h, e, c, st, nx, pv, a, b), nx[0] # Nil, e[a].call
    PROVE  /\ ShapeOf(h, e, c, st, nx, pv, nx[a], b)
           /\ nx[a] \in Left(e, c, Len(c)) /\ \A n \in Left(e, c, Len(c)) : n < nx[a] => n <= a
<1> DEFINE A == Left(e, c, Len(c))
           z == Len(e)
<1>1. z \in Nat /\ A \in SUBSET (1 .. z)
  BY LeftType
<1>2. /\ a \in A /\ \A n \in A : n < a => e[n].call
      /\ Linked(A, nx, pv, z)
  BY Zenon DEF ShapeOf, Looking, List
<1>3. IsNext(A, a, nx[a]) /\ a \in DOMAIN e
  BY <1>2, Zenon DEF Linked, Left
<1>4. Return(e, a) \in A /\ a < Return(e, a)
  <2>1. Return(e, a) \in DOMAIN e /\ e[Return(e, a)].id = e[a].id /\ a < Return(e, a)
    BY <1>3, ReturnIs
  <2>. QED  BY <1>2, <2>1, Zenon DEF Left
<1> HIDE DEF A, z
<1>5. a \in 0 .. z /\ a \in Nat
  BY <1>1, <1>2
<1>6. nx[a] # Nil
  BY <1>1, <1>3, <1>4, <1>5, NotLast, Zenon
<1>7. nx[a] \in A /\ \A n \in A : n < nx[a] => n <= a
  BY <1>1, <1>3, <1>5, <1>6, NextIs
<1>8. ASSUME NEW n \in A, n < nx[a] PROVE e[n].call
  <2>1. n <= a
    BY <1>7, <1>8, Zenon
  <2>2. n < a \/ n = a
    BY <1>1, <1>5, <2>1
  <2>. QED  BY <1>2, <2>2, Zenon
<1>9. Looking(e, c, nx, nx[a])
  BY <1>7, <1>8, Zenon DEF Looking, A
<1>. QED  BY <1>7, <1>9, Zenon DEF ShapeOf, A

\* The same when the call a was taken back.
AfterPop(h, e, c, nx, pv, a, b, d, n2, p2) ==
    /\ ShapeOf(h, e, d, c[Len(c)].state, n2, p2, n2[a], Clear(b, e[a].id))
    /\ PutNext(nx, pv, Return(e, a))[a] # Nil
    /\ Len(c) \in Nat \ {0} /\ Len(d) = Len(c) - 1 /\ Agree(c, d, Len(d))
    /\ a \in Left(e, d, Len(d)) /\ n2[a] \in Left(e, d, Len(d))
    /\ \A n \in Left(e, d, Len(d)) : n < n2[a] => n <= a

\* Unlifting the entry on top of the stack keeps the shape of a search.
LEMMA ShapePop ==
    ASSUME NEW h, IsHist(h), NEW e, Listing(h, e), NEW c, NEW st, NEW nx, NEW pv, NEW en, NEW b,
           ShapeOf(h, e, c, st, nx, pv, en, b), c # <<>>,
           NEW d, d = Popped(c), NEW a, a = c[Len(c)].entry,
           NEW n2, n2 = UnliftNext(nx, pv, a, Return(e, a)),
           NEW p2, p2 = UnliftPrev(nx, pv, a, Return(e, a))
    PROVE  AfterPop(h, e, c, nx, pv, a, b, d, n2, p2)
<1> DEFINE m == Len(c)
           B == Left(e, d, Len(d))
           z == Len(e)
<1>1. Stack(e, c, st) /\ List(e, c, nx, pv)
  BY Zenon DEF ShapeOf
<1>2. /\ Stack(e, d, c[m].state) /\ m \in Nat \ {0} /\ Len(d) = m - 1
      /\ Agree(c, d, Len(d))
  BY <1>1, StackPop, Zenon
<1>3. /\ PutNext(nx, pv, Return(e, a))[a] # Nil /\ List(e, d, n2, p2)
  <2>1. IsSeq(d)
    BY <1>2, Zenon DEF Stack
  <2>2. LET a1 == c[Len(c)].entry
            b1 == Return(e, a1)
            x2 == UnliftNext(nx, pv, a1, b1)
            y2 == UnliftPrev(nx, pv, a1, b1) IN
        PutNext(nx, pv, b1)[a1] # Nil /\ List(e, d, x2, y2)
    BY <1>1, <1>2, <2>1, UnliftKeeps, Zenon
  <2>. QED  BY <2>2, Zenon
<1>4. m \in 1 .. m /\ m - 1 \in 0 .. m - 1 /\ m \in Nat /\ m # 0 /\ m - 1 \in Nat
  BY <1>2
<1>5. /\ a \in DOMAIN e /\ e[a].call /\ e[a].id \notin DoneAt(e, c, m - 1)
      /\ \A n \in Left(e, c, m - 1) : n < a => e[n].call
  BY <1>1, <1>4, Zenon DEF Stack
<1>6. DoneAt(e, d, m - 1) = DoneAt(e, c, m - 1) /\ Left(e, d, m - 1) = Left(e, c, m - 1)
  BY <1>2, <1>4, SameDone
<1>7. a \in B /\ B = Left(e, c, m - 1)
  BY <1>2, <1>5, <1>6, Zenon DEF Left
<1>8. z \in Nat /\ B \in SUBSET (1 .. z)
  BY LeftType
<1>9. IsNext(B, a, n2[a]) /\ n2[0] # Nil
  <2>1. Linked(B, n2, p2, z)
    BY <1>3, Zenon DEF List
  <2>2. IsNext(B, a, n2[a]) /\ IsNext(B, 0, n2[0])
    BY <1>7, <2>1, Zenon DEF Linked
  <2> HIDE DEF B, z
  <2>3. a \in Nat /\ 0 < a /\ 0 \in Nat
    BY <1>7, <1>8
  <2>4. n2[0] # Nil
    BY <1>7, <1>8, <2>2, <2>3, NotLast, Zenon
  <2>. QED  BY <2>2, <2>4, Zenon
<1>10. Return(e, a) \in B /\ a < Return(e, a)
  <2>1. Return(e, a) \in DOMAIN e /\ e[Return(e, a)].id = e[a].id /\ a < Return(e, a)
    BY <1>5, ReturnIs
  <2>. QED  BY <1>5, <1>7, <2>1, Zenon DEF Left
<1> HIDE DEF B, z
<1>11. a \in 0 .. z /\ a \in Nat
  BY <1>7, <1>8
<1>12. n2[a] # Nil
  BY <1>8, <1>9, <1>10, <1>11, NotLast, Zenon
<1>13. n2[a] \in B /\ \A n \in B : n < n2[a] => n <= a
  BY <1>8, <1>9, <1>11, <1>12, NextIs, Zenon
<1>14. ASSUME NEW n \in B, n < n2[a] PROVE e[n].call
  <2>1. n <= a
    BY <1>13, <1>14, Zenon
  <2>2. n < a \/ n = a
    BY <1>8, <1>11, <2>1
  <2>. QED  BY <1>5, <1>7, <2>2, Zenon
<1>15. Looking(e, d, n2, n2[a])
  BY <1>13, <1>14, Zenon DEF Looking, B
<1>16. /\ BitsType(Clear(b, e[a].id), Len(h))
       /\ Ones(Clear(b, e[a].id), Len(h)) = DoneAt(e, d, Len(d))
  <2>1. e[a].id \in 1 .. Len(h) /\ Len(h) \in Nat
    BY <1>5, Zenon DEF Listing, IsHist
  <2>2. BitsType(b, Len(h)) /\ Ones(b, Len(h)) = DoneAt(e, c, m)
    BY Zenon DEF ShapeOf
  <2>3. /\ BitsType(Clear(b, e[a].id), Len(h))
        /\ Ones(Clear(b, e[a].id), Len(h)) = Ones(b, Len(h)) \ {e[a].id}
    BY <2>1, <2>2, ClearBits, Zenon
  <2>4. DoneAt(e, c, m) = DoneAt(e, c, m - 1) \union {e[a].id}
    BY <1>4, DoneNext
  <2>5. DoneAt(e, c, m) \ {e[a].id} = DoneAt(e, c, m - 1)
    BY <1>5, <2>4, Zenon
  <2>. QED  BY <1>2, <1>6, <2>2, <2>3, <2>5, Zenon
<1>17. ShapeOf(h, e, d, c[m].state, n2, p2, n2[a], Clear(b, e[a].id))
  BY <1>2, <1>3, <1>15, <1>16, Zenon DEF ShapeOf
<1>. QED  BY <1>2, <1>3, <1>7, <1>13, <1>17, Zenon DEF AfterPop, B

----------------------------------------------------------------------------
(* What the steps of a search do to it *)

Setting ==
    /\ hist \in Histories
    /\ \A k \in Parts : Listing(Partition(hist, k), entries[k])

Keyed ==
    /\ DOMAIN next = Parts /\ DOMAIN prev = Parts /\ DOMAIN entry = Parts
    /\ DOMAIN calls = Parts /\ DOMAIN state = Parts /\ DOMAIN linearized = Parts
    /\ DOMAIN cache = Parts /\ DOMAIN longest = Parts /\ DOMAIN answer = Parts

\* The search of j does not take part in a step.
Idle(j) ==
    /\ next'[j] = next[j] /\ prev'[j] = prev[j] /\ entry'[j] = entry[j]
    /\ calls'[j] = calls[j] /\ state'[j] = state[j] /\ linearized'[j] = linearized[j]
    /\ cache'[j] = cache[j] /\ longest'[j] = longest[j] /\ answer'[j] = answer[j]

\* Only the search of k does.
Local(k) ==
    /\ hist' = hist /\ computeInfo' = computeInfo /\ entries' = entries
    /\ kill' = kill /\ got' = got /\ ok' = ok /\ timedOut' = timedOut /\ verdict' = verdict
    /\ \A j \in Parts : j # k => Idle(j)

\* Changing a function at k.
LEMMA ChangeAt ==
    ASSUME NEW f, NEW k \in DOMAIN f, NEW x
    PROVE  LET g == [f EXCEPT ![k] = x] IN
           g[k] = x /\ DOMAIN g = DOMAIN f /\ \A j \in DOMAIN f : j # k => g[j] = f[j]
BY Zenon

LEMMA PartsKept ==
    ASSUME hist' = hist
    PROVE  Parts' = Parts
BY Zenon DEF Parts

\* Linearize, one variable at a time.
LEMMA LinearizeDoes ==
    ASSUME Keyed, NEW k \in Parts, Linearize(k)
    PROVE  LET e == entries[k]
               a == entry[k]
               b == Set(linearized[k], e[a].id)
               s == NewState(state[k], e[a].op) IN
           /\ Keyed' /\ Local(k)
           /\ answer[k] = "none" /\ next[k][0] # Nil /\ ~kill
           /\ e[a].call /\ Accepts(state[k], e[a].op) /\ <<b, s>> \notin cache[k]
           /\ calls'[k] = Pushed(calls[k], a, state[k])
           /\ state'[k] = s /\ linearized'[k] = b /\ cache'[k] = cache[k] \union {<<b, s>>}
           /\ entry'[k] = next'[k][0] /\ longest' = longest /\ answer' = answer
           /\ next[k][a] # Nil =>
                /\ next'[k] = LiftNext(next[k], prev[k], a, Return(e, a))
                /\ prev'[k] = LiftPrev(next[k], prev[k], a, Return(e, a))
<1> DEFINE e == entries[k]
           a == entry[k]
           b == Set(linearized[k], e[a].id)
           s == NewState(state[k], e[a].op)
<1>1. /\ answer[k] = "none" /\ next[k][0] # Nil /\ ~kill
      /\ e[a].call /\ Accepts(state[k], e[a].op) /\ <<b, s>> \notin cache[k]
  BY Zenon DEF Linearize, Searching, Seen
<1>2. /\ cache' = [cache EXCEPT ![k] = cache[k] \union {<<b, s>>}]
      /\ calls' = [calls EXCEPT ![k] = Pushed(calls[k], a, state[k])]
      /\ state' = [state EXCEPT ![k] = s] /\ linearized' = [linearized EXCEPT ![k] = b]
      /\ Lift(k, a) /\ entry' = [entry EXCEPT ![k] = next'[k][0]]
  BY Zenon DEF Linearize, Pushed
<1>3. /\ hist' = hist /\ computeInfo' = computeInfo /\ entries' = entries
      /\ longest' = longest /\ answer' = answer
      /\ kill' = kill /\ got' = got /\ ok' = ok /\ timedOut' = timedOut /\ verdict' = verdict
  BY DEF Linearize, args
<1> DEFINE r  == Match(k, a)
           n1 == [next[k] EXCEPT ![prev[k][a]] = next[k][a]]
           p1 == [prev[k] EXCEPT ![next[k][a]] = prev[k][a]]
           n2 == [n1 EXCEPT ![p1[r]] = n1[r]]
           p2 == IF n1[r] = Nil THEN p1 ELSE [p1 EXCEPT ![n1[r]] = p1[r]]
<1>4. next' = [next EXCEPT ![k] = n2] /\ prev' = [prev EXCEPT ![k] = p2]
  BY <1>2, Zenon DEF Lift
<1>5. r = Return(e, a)
  BY <1>1, Zenon DEF Match, Return
<1>6. ASSUME next[k][a] # Nil
      PROVE  n2 = LiftNext(next[k], prev[k], a, r) /\ p2 = LiftPrev(next[k], prev[k], a, r)
  <2>1. n1 = TakenNext(next[k], prev[k], a) /\ p1 = TakenPrev(next[k], prev[k], a)
    BY <1>6, Zenon DEF TakenNext, TakenPrev, Change
  <2> HIDE DEF n1, p1
  <2>2. n2 = TakenNext(n1, p1, r) /\ p2 = TakenPrev(n1, p1, r)
    BY Zenon DEF TakenNext, TakenPrev, Change
  <2> HIDE DEF n2, p2, r
  <2>. QED  BY <2>1, <2>2, Zenon DEF LiftNext, LiftPrev
<1> HIDE DEF e, a, b, s, n2, p2, r
<1>7. /\ calls'[k] = Pushed(calls[k], a, state[k]) /\ state'[k] = s /\ linearized'[k] = b
      /\ cache'[k] = cache[k] \union {<<b, s>>} /\ next'[k] = n2 /\ prev'[k] = p2
      /\ entry'[k] = next'[k][0]
  BY <1>2, <1>4, ChangeAt, Zenon DEF Keyed
<1>8. /\ DOMAIN next' = Parts /\ DOMAIN prev' = Parts /\ DOMAIN entry' = Parts
      /\ DOMAIN calls' = Parts /\ DOMAIN state' = Parts /\ DOMAIN linearized' = Parts
      /\ DOMAIN cache' = Parts /\ DOMAIN longest' = Parts /\ DOMAIN answer' = Parts
  BY <1>2, <1>3, <1>4, ChangeAt, Zenon DEF Keyed
<1>9. Keyed'
  BY <1>3, <1>8, PartsKept, Zenon DEF Keyed
<1>10. ASSUME NEW j \in Parts, j # k PROVE Idle(j)
  BY <1>2, <1>3, <1>4, <1>10, ChangeAt, Zenon DEF Keyed, Idle
<1>11. Local(k)
  BY <1>3, <1>10, Zenon DEF Local
<1>12. next[k][a] # Nil => /\ next'[k] = LiftNext(next[k], prev[k], a, Return(e, a))
                           /\ prev'[k] = LiftPrev(next[k], prev[k], a, Return(e, a))
  BY <1>5, <1>6, <1>7, Zenon
<1>. QED  BY <1>1, <1>3, <1>7, <1>9, <1>11, <1>12, Zenon DEF e, a, b, s

\* Skip, one variable at a time.
LEMMA SkipDoes ==
    ASSUME Keyed, NEW k \in Parts, Skip(k)
    PROVE  LET e == entries[k]
               a == entry[k] IN
           /\ Keyed' /\ Local(k)
           /\ answer[k] = "none" /\ next[k][0] # Nil /\ ~kill /\ e[a].call
           /\ Accepts(state[k], e[a].op) =>
                <<Set(linearized[k], e[a].id), NewState(state[k], e[a].op)>> \in cache[k]
           /\ entry'[k] = next[k][a]
           /\ next' = next /\ prev' = prev /\ calls' = calls /\ state' = state
           /\ linearized' = linearized /\ cache' = cache /\ longest' = longest /\ answer' = answer
<1> DEFINE e == entries[k]
           a == entry[k]
<1>1. /\ answer[k] = "none" /\ next[k][0] # Nil /\ ~kill /\ e[a].call
      /\ Accepts(state[k], e[a].op) =>
            <<Set(linearized[k], e[a].id), NewState(state[k], e[a].op)>> \in cache[k]
  BY Zenon DEF Skip, Searching, Seen
<1>2. /\ entry' = [entry EXCEPT ![k] = next[k][a]]
      /\ hist' = hist /\ computeInfo' = computeInfo /\ entries' = entries
      /\ next' = next /\ prev' = prev /\ calls' = calls /\ state' = state
      /\ linearized' = linearized /\ cache' = cache /\ longest' = longest /\ answer' = answer
      /\ kill' = kill /\ got' = got /\ ok' = ok /\ timedOut' = timedOut /\ verdict' = verdict
  BY DEF Skip, args
<1>3. entry'[k] = next[k][a] /\ DOMAIN entry' = Parts
  BY <1>2, ChangeAt, Zenon DEF Keyed
<1>4. Keyed'
  BY <1>2, <1>3, PartsKept, Zenon DEF Keyed
<1>5. ASSUME NEW j \in Parts, j # k PROVE Idle(j)
  BY <1>2, <1>5, ChangeAt, Zenon DEF Keyed, Idle
<1>6. Local(k)
  BY <1>2, <1>5, Zenon DEF Local
<1>. QED  BY <1>1, <1>2, <1>3, <1>4, <1>6, Zenon

\* Backtrack, one variable at a time.
LEMMA BacktrackDoes ==
    ASSUME Keyed, NEW k \in Parts, Backtrack(k)
    PROVE  LET e   == entries[k]
               top == calls[k][Len(calls[k])]
               a   == top.entry
               r   == Return(e, a) IN
           /\ Keyed' /\ Local(k)
           /\ answer[k] = "none" /\ next[k][0] # Nil /\ ~kill
           /\ ~e[entry[k]].call /\ calls[k] # <<>>
           /\ calls'[k] = Popped(calls[k]) /\ state'[k] = top.state
           /\ linearized'[k] = Clear(linearized[k], e[a].id)
           /\ cache' = cache /\ answer' = answer
           /\ entry'[k] = next'[k][a]
           /\ longest'[k] = IF computeInfo THEN Longest(k, calls[k]) ELSE longest[k]
           /\ e[a].call /\ PutNext(next[k], prev[k], r)[a] # Nil =>
                /\ next'[k] = UnliftNext(next[k], prev[k], a, r)
                /\ prev'[k] = UnliftPrev(next[k], prev[k], a, r)
<1> DEFINE e   == entries[k]
           top == calls[k][Len(calls[k])]
           a   == top.entry
           r   == Match(k, a)
           s   == top.state
           b   == Clear(linearized[k], e[a].id)
           lg  == Longest(k, calls[k])
<1>1. /\ answer[k] = "none" /\ next[k][0] # Nil /\ ~kill
      /\ ~e[entry[k]].call /\ calls[k] # <<>>
  BY Zenon DEF Backtrack, Searching
<1>2. /\ longest' = IF computeInfo THEN [longest EXCEPT ![k] = lg] ELSE longest
      /\ state' = [state EXCEPT ![k] = s] /\ linearized' = [linearized EXCEPT ![k] = b]
      /\ calls' = [calls EXCEPT ![k] = Popped(calls[k])]
      /\ Unlift(k, a) /\ entry' = [entry EXCEPT ![k] = next'[k][a]]
  BY Zenon DEF Backtrack, Popped
<1>3. /\ hist' = hist /\ computeInfo' = computeInfo /\ entries' = entries
      /\ cache' = cache /\ answer' = answer
      /\ kill' = kill /\ got' = got /\ ok' = ok /\ timedOut' = timedOut /\ verdict' = verdict
  BY DEF Backtrack, args
<1> DEFINE n1 == [next[k] EXCEPT ![prev[k][r]] = r]
           p1 == IF next[k][r] = Nil THEN prev[k] ELSE [prev[k] EXCEPT ![next[k][r]] = r]
           n2 == [n1 EXCEPT ![p1[a]] = a]
           p2 == [p1 EXCEPT ![n1[a]] = a]
<1>4. next' = [next EXCEPT ![k] = n2] /\ prev' = [prev EXCEPT ![k] = p2]
  BY <1>2, Zenon DEF Unlift
<1>5. e[a].call => r = Return(e, a)
  BY Zenon DEF Match, Return
<1>6. n1 = PutNext(next[k], prev[k], r) /\ p1 = PutPrev(next[k], prev[k], r)
  BY Zenon DEF PutNext, PutPrev, Change
<1>7. ASSUME n1[a] # Nil
      PROVE  n2 = UnliftNext(next[k], prev[k], a, r) /\ p2 = UnliftPrev(next[k], prev[k], a, r)
  <2> HIDE DEF n1, p1
  <2>1. n2 = PutNext(n1, p1, a) /\ p2 = PutPrev(n1, p1, a)
    BY <1>7, Zenon DEF PutNext, PutPrev, Change
  <2> HIDE DEF n2, p2, r
  <2>. QED  BY <1>6, <2>1, Zenon DEF UnliftNext, UnliftPrev
<1> HIDE DEF e, top, a, r, s, b, lg, n1, p1, n2, p2
<1>8. /\ calls'[k] = Popped(calls[k]) /\ state'[k] = s /\ linearized'[k] = b
      /\ next'[k] = n2 /\ prev'[k] = p2 /\ entry'[k] = next'[k][a]
  BY <1>2, <1>4, ChangeAt, Zenon DEF Keyed
<1>9. /\ longest'[k] = IF computeInfo THEN lg ELSE longest[k]
      /\ DOMAIN longest' = Parts /\ \A j \in Parts : j # k => longest'[j] = longest[j]
  <2>1. CASE computeInfo
    BY <1>2, <2>1, ChangeAt, Zenon DEF Keyed
  <2>2. CASE ~computeInfo
    BY <1>2, <2>2, Zenon DEF Keyed
  <2>. QED  BY <2>1, <2>2, Zenon
<1>10. /\ DOMAIN next' = Parts /\ DOMAIN prev' = Parts /\ DOMAIN entry' = Parts
       /\ DOMAIN calls' = Parts /\ DOMAIN state' = Parts /\ DOMAIN linearized' = Parts
       /\ DOMAIN cache' = Parts /\ DOMAIN longest' = Parts /\ DOMAIN answer' = Parts
  BY <1>2, <1>3, <1>4, <1>9, ChangeAt, Zenon DEF Keyed
<1>11. Keyed'
  BY <1>3, <1>10, PartsKept, Zenon DEF Keyed
<1>12. ASSUME NEW j \in Parts, j # k PROVE Idle(j)
  BY <1>2, <1>3, <1>4, <1>9, <1>12, ChangeAt, Zenon DEF Keyed, Idle
<1>13. Local(k)
  BY <1>3, <1>12, Zenon DEF Local
<1>14. e[a].call /\ PutNext(next[k], prev[k], Return(e, a))[a] # Nil =>
          /\ next'[k] = UnliftNext(next[k], prev[k], a, Return(e, a))
          /\ prev'[k] = UnliftPrev(next[k], prev[k], a, Return(e, a))
  BY <1>5, <1>6, <1>7, <1>8, Zenon
<1>. QED  BY <1>1, <1>3, <1>8, <1>9, <1>11, <1>13, <1>14, Zenon DEF e, top, a, s, b, lg

\* A search that ends: everything but its answer stays, and longest if it succeeds.
LEMMA EndDoes ==
    ASSUME Keyed, NEW k \in Parts, Fail(k) \/ Succeed(k) \/ Killed(k)
    PROVE  /\ Keyed' /\ Local(k) /\ answer[k] = "none"
           /\ next' = next /\ prev' = prev /\ entry' = entry /\ calls' = calls /\ state' = state
           /\ linearized' = linearized /\ cache' = cache
           /\ \/ /\ Fail(k) /\ answer'[k] = "false" /\ longest' = longest
              \/ /\ Succeed(k) /\ answer'[k] = "true"
                 /\ longest'[k] = [id \in DOMAIN longest[k] |-> Ids(k, calls[k])]
              \/ /\ Killed(k) /\ answer'[k] = "false" /\ longest' = longest
<1>1. /\ next' = next /\ prev' = prev /\ entry' = entry /\ calls' = calls /\ state' = state
      /\ linearized' = linearized /\ cache' = cache
      /\ hist' = hist /\ computeInfo' = computeInfo /\ entries' = entries
      /\ kill' = kill /\ got' = got /\ ok' = ok /\ timedOut' = timedOut /\ verdict' = verdict
      /\ answer[k] = "none"
  BY DEF Fail, Succeed, Killed, Searching, args
<1> DEFINE lg == [id \in DOMAIN longest[k] |-> Ids(k, calls[k])]
<1>2. \/ Fail(k) /\ answer' = [answer EXCEPT ![k] = "false"] /\ longest' = longest
      \/ /\ Succeed(k) /\ answer' = [answer EXCEPT ![k] = "true"]
         /\ longest' = [longest EXCEPT ![k] = lg]
      \/ Killed(k) /\ answer' = [answer EXCEPT ![k] = "false"] /\ longest' = longest
  BY Zenon DEF Fail, Succeed, Killed
<1> HIDE DEF lg
<1>3. DOMAIN answer' = Parts /\ DOMAIN longest' = Parts
  BY <1>2, ChangeAt, Zenon DEF Keyed
<1>4. Keyed'
  BY <1>1, <1>3, PartsKept, Zenon DEF Keyed
<1>5. ASSUME NEW j \in Parts, j # k PROVE Idle(j)
  <2>1. answer'[j] = answer[j] /\ longest'[j] = longest[j]
    BY <1>2, <1>5, ChangeAt, Zenon DEF Keyed
  <2>. QED  BY <1>1, <2>1, Zenon DEF Idle
<1>6. Local(k)
  BY <1>1, <1>5, Zenon DEF Local
<1>7. \/ Fail(k) /\ answer'[k] = "false" /\ longest' = longest
      \/ Succeed(k) /\ answer'[k] = "true" /\ longest'[k] = lg
      \/ Killed(k) /\ answer'[k] = "false" /\ longest' = longest
  BY <1>2, ChangeAt, Zenon DEF Keyed
<1>. QED  BY <1>1, <1>4, <1>6, <1>7, Zenon DEF lg

\* checkParallel leaves the searches alone.
LEMMA ParallelDoes ==
    ASSUME (\E k \in Parts : Receive(k)) \/ Timeout \/ (\E k \in Parts : Collect(k))
    PROVE  /\ hist' = hist /\ computeInfo' = computeInfo /\ entries' = entries
           /\ next' = next /\ prev' = prev /\ entry' = entry /\ calls' = calls /\ state' = state
           /\ linearized' = linearized /\ cache' = cache /\ longest' = longest /\ answer' = answer
           /\ kill => kill'
<1>1. CASE \E k \in Parts : Receive(k)
  BY <1>1, Zenon DEF Receive, args, searchVars
<1>2. CASE Timeout
  BY <1>2, Zenon DEF Timeout, args, searchVars
<1>3. CASE \E k \in Parts : Collect(k)
  BY <1>3 DEF Collect, args, searchVars
<1>. QED  BY <1>1, <1>2, <1>3, Zenon
=============================================================================
