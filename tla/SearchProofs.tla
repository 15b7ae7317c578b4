---------------------------- MODULE SearchProofs ----------------------------
(***************************************************************************)
(* A* of MapView::path finds a shortest path, over every finite graph.     *)
(***************************************************************************)
EXTENDS Search, EuclideanGraph, FiniteSetTheorems, WellFoundedInduction, TLAPS

(***************************************************************************)
(* Numbers.                                                                *)
(***************************************************************************)

\* A non-empty set of naturals has a least element.
LEMMA LeastOf ==
  ASSUME NEW S \in SUBSET Nat, S # {}
  PROVE  \E x \in S : \A y \in S : x <= y
<1> DEFINE R == OpToRel(<, Nat)
<1>1. \E x \in S : \A y \in S : <<y, x>> \notin R
  BY NatLessThanWellFounded, WFMin
<1>2. \A x, y \in Nat : <<y, x>> \notin R => x <= y
  BY DEF OpToRel
<1> QED
  BY <1>1, <1>2

\* One more cell, one more move.
LEMMA OneMore ==
  ASSUME NEW most \in Nat, NEW k \in Nat, NEW n \in Nat, k + 1 <= n
  PROVE  /\ most * (k + 1) = most * k + most
         /\ most * k + most <= most * n
<1>1. most * (k + 1) = most * k + most
  OBVIOUS
<1>2. PICK j \in Nat : n = (k + 1) + j
  BY n - (k + 1) \in Nat /\ n = (k + 1) + (n - (k + 1))
<1>3. most * n = most * (k + 1) + most * j
  BY <1>2
<1>4. most * j \in Nat /\ most * (k + 1) \in Nat
  BY <1>2
<1> QED
  BY <1>1, <1>3, <1>4

(***************************************************************************)
(* Walks.                                                                  *)
(***************************************************************************)

N == Cardinality(Cell)

\* The walk of no move, and the shortest walks of one move more.
NoMove(m, s) == {<<c, 0>> : c \in {s} \cap Passable[m]}
OneMove(m, walks) == ShortestOf(walks \cup Longer(m, walks))

\* The recursion of Shortest, and the function it defines.
IsWithin(m, s, f) ==
  f = [n \in 0..N |-> IF n = 0 THEN NoMove(m, s) ELSE OneMove(m, f[n - 1])]
Within(m, s) == CHOOSE f : IsWithin(m, s, f)

\* There is at least one cell where there is a search.
LEMMA Count ==
  /\ N \in Nat
  /\ IsFiniteSet(Cell)
BY CellAssumption, FS_CardinalityType DEF N

\* The recursion has a solution: it has one up to each number of moves.
LEMMA WithinExists ==
  ASSUME NEW m, NEW s
  PROVE  IsWithin(m, s, Within(m, s))
<1> DEFINE Solves(f, k) ==
             f = [n \in 0..k |-> IF n = 0 THEN NoMove(m, s) ELSE OneMove(m, f[n - 1])]
           Lost == {k \in Nat : ~ \E f : Solves(f, k)}
<1>1. Lost = {}
  <2> SUFFICES ASSUME Lost # {} PROVE FALSE
    OBVIOUS
  <2>1. PICK k \in Lost : \A j \in Lost : k <= j
    BY LeastOf
  <2>2. CASE k = 0
    <3> DEFINE f == [n \in 0..0 |-> NoMove(m, s)]
    <3>1. Solves(f, 0)
      OBVIOUS
    <3> QED
      BY <2>1, <2>2, <3>1
  <2>3. CASE k # 0
    <3>1. k \in Nat /\ k - 1 \in Nat /\ ~ k <= k - 1
      BY <2>3
    <3>2. PICK f : Solves(f, k - 1)
      BY <2>1, <3>1
    <3> DEFINE g == [n \in 0..k |-> IF n = k THEN OneMove(m, f[k - 1]) ELSE f[n]]
    <3>3. \A n \in 0..k : n # 0 => g[n - 1] = f[n - 1]
      BY <3>1
    <3>4. ASSUME NEW n \in 0..k
          PROVE  g[n] = IF n = 0 THEN NoMove(m, s) ELSE OneMove(m, g[n - 1])
      <4>1. CASE n = k
        BY <2>3, <3>3, <4>1
      <4>2. CASE n # k
        <5>1. n \in 0..(k - 1) /\ g[n] = f[n]
          BY <3>1, <4>2
        <5>2. f[n] = IF n = 0 THEN NoMove(m, s) ELSE OneMove(m, f[n - 1])
          BY <3>2, <5>1
        <5> QED
          BY <3>3, <5>1, <5>2
      <4> QED
        BY <4>1, <4>2
    <3>5. g = [n \in 0..k |-> g[n]]
      OBVIOUS
    <3> HIDE DEF g
    <3>6. Solves(g, k)
      BY <3>4, <3>5
    <3> QED
      BY <2>1, <3>6
  <2> QED
    BY <2>2, <2>3
<1>2. \E f : IsWithin(m, s, f)
  <2>1. N \in Nat
    BY Count
  <2> QED
    BY <1>1, <2>1 DEF IsWithin
<1> QED
  BY <1>2 DEF Within

\* Shortest is what the recursion gives for as many moves as there are cells.
LEMMA ShortestIsWithin ==
  ASSUME NEW m, NEW s
  PROVE  Shortest(m, s) = Within(m, s)[N]
BY DEF Shortest, Within, IsWithin, N, NoMove, OneMove

\* The recursion, equation by equation.
LEMMA WithinDef ==
  ASSUME NEW m, NEW s
  PROVE  /\ Within(m, s)[0] = NoMove(m, s)
         /\ \A n \in 1..N : Within(m, s)[n] = OneMove(m, Within(m, s)[n - 1])
<1>1. PICK f : f = Within(m, s)
  OBVIOUS
<1>2. f = [n \in 0..N |-> IF n = 0 THEN NoMove(m, s) ELSE OneMove(m, f[n - 1])]
  BY <1>1, WithinExists DEF IsWithin
<1>3. /\ f[0] = NoMove(m, s)
      /\ \A n \in 1..N : f[n] = OneMove(m, f[n - 1])
  BY <1>2, Count
<1> QED
  BY <1>1, <1>3

\* No move leads out of a set of walks.
KeepsWalks(m, G) ==
  \A w \in G : \A b \in Adjacent[w[1]] :
    Move[m][w[1]][b] # -1 => <<b, w[2] + Move[m][w[1]][b]>> \in G

\* Induction on the moves, once for all that is said of every walk: a set with
\* the walk of no move, out of which no move leads, has every walk.
LEMMA WalksWithin ==
  ASSUME NEW m, NEW s, NEW G, NoMove(m, s) \subseteq G, KeepsWalks(m, G)
  PROVE  \A n \in 0..N : Within(m, s)[n] \subseteq G
<1> DEFINE Lost == {k \in 0..N : ~ Within(m, s)[k] \subseteq G}
<1> SUFFICES ASSUME Lost # {} PROVE FALSE
  OBVIOUS
<1>1. N \in Nat /\ Lost \in SUBSET Nat
  BY Count
<1>2. PICK k \in Lost : \A j \in Lost : k <= j
  BY <1>1, LeastOf
<1>3. CASE k = 0
  BY <1>2, <1>3, WithinDef
<1>4. CASE k # 0
  <2>1. k \in 1..N /\ k - 1 \in 0..N /\ ~ k <= k - 1
    BY <1>1, <1>4
  <2>2. Within(m, s)[k - 1] \subseteq G
    BY <1>2, <2>1
  <2>3. Longer(m, Within(m, s)[k - 1]) \subseteq G
    BY <2>2 DEF Longer, KeepsWalks
  <2>4. Within(m, s)[k] \subseteq G
    BY <2>1, <2>2, <2>3, WithinDef DEF OneMove, ShortestOf
  <2> QED
    BY <1>2, <2>4
<1> QED
  BY <1>3, <1>4

\* A move of a map is a natural number, between passable cells.
LEMMA MoveType ==
  ASSUME NEW m \in Map, NEW a \in Cell, NEW b \in Adjacent[a], Move[m][a][b] # -1
  PROVE  /\ b \in Cell /\ Move[m][a][b] \in Nat
         /\ a \in Passable[m] /\ b \in Passable[m]
BY CellAssumption, MapAssumption

\* Walks end in cells and have natural lengths.
LEMMA WithinType ==
  ASSUME NEW m \in Map, NEW s \in Cell
  PROVE  \A n \in 0..N : Within(m, s)[n] \subseteq Cell \X Nat
<1>1. NoMove(m, s) \subseteq Cell \X Nat
  BY DEF NoMove
<1>2. KeepsWalks(m, Cell \X Nat)
  <2> SUFFICES ASSUME NEW w \in Cell \X Nat, NEW b \in Adjacent[w[1]],
                      Move[m][w[1]][b] # -1
               PROVE  <<b, w[2] + Move[m][w[1]][b]>> \in Cell \X Nat
    BY DEF KeepsWalks
  <2>1. w[1] \in Cell /\ w[2] \in Nat
    OBVIOUS
  <2>2. b \in Cell /\ Move[m][w[1]][b] \in Nat
    BY <2>1, MoveType
  <2> QED
    BY <2>1, <2>2
<1> QED
  BY <1>1, <1>2, WalksWithin

\* No move leads up by more than it costs, nor does the walk of no move.
IsLower(m, s, D) ==
  /\ D \in [Cell -> Int]
  /\ D[s] <= 0
  /\ \A a \in Cell : \A b \in Adjacent[a] :
       Move[m][a][b] # -1 => D[b] <= D[a] + Move[m][a][b]

\* Such a function is less than the length of every walk to a cell.
LEMMA LowerBound ==
  ASSUME NEW m \in Map, NEW s \in Cell, NEW D, IsLower(m, s, D)
  PROVE  \A n \in 0..N : \A w \in Within(m, s)[n] : D[w[1]] <= w[2]
<1> DEFINE G == {w \in Cell \X Nat : D[w[1]] <= w[2]}
<1>1. NoMove(m, s) \subseteq G
  BY DEF NoMove, IsLower
<1>2. KeepsWalks(m, G)
  <2> SUFFICES ASSUME NEW w \in G, NEW b \in Adjacent[w[1]],
                      Move[m][w[1]][b] # -1
               PROVE  <<b, w[2] + Move[m][w[1]][b]>> \in G
    BY DEF KeepsWalks
  <2>1. w[1] \in Cell /\ w[2] \in Nat /\ D[w[1]] <= w[2]
    OBVIOUS
  <2>2. b \in Cell /\ Move[m][w[1]][b] \in Nat
    BY <2>1, MoveType
  <2>3. D[b] <= D[w[1]] + Move[m][w[1]][b] /\ D[b] \in Int /\ D[w[1]] \in Int
    BY <2>1, <2>2 DEF IsLower
  <2>4. D[b] <= w[2] + Move[m][w[1]][b]
    BY <2>1, <2>2, <2>3
  <2> QED
    BY <2>1, <2>2, <2>4
<1> QED
  BY <1>1, <1>2, WalksWithin

\* Walks stay in a set of cells that no move leaves.
LEMMA WalksStay ==
  ASSUME NEW m \in Map, NEW s \in Cell, NEW S \in SUBSET Cell, s \in S,
         IsClosed(m, S)
  PROVE  \A n \in 0..N : \A w \in Within(m, s)[n] : w[1] \in S
<1> DEFINE G == {w \in Cell \X Nat : w[1] \in S}
<1>1. NoMove(m, s) \subseteq G
  BY DEF NoMove
<1>2. KeepsWalks(m, G)
  <2> SUFFICES ASSUME NEW w \in G, NEW b \in Adjacent[w[1]],
                      Move[m][w[1]][b] # -1
               PROVE  <<b, w[2] + Move[m][w[1]][b]>> \in G
    BY DEF KeepsWalks
  <2>1. w[1] \in Cell /\ w[2] \in Nat /\ w[1] \in S
    OBVIOUS
  <2>2. b \in Cell /\ Move[m][w[1]][b] \in Nat
    BY <2>1, MoveType
  <2>3. b \in S
    BY <2>1 DEF IsClosed
  <2> QED
    BY <2>1, <2>2, <2>3
<1> QED
  BY <1>1, <1>2, WalksWithin

\* A walk of at most n moves leads from s to c and is no longer than length.
IsReached(m, s, n, c, length) ==
  \E l \in Nat : l <= length /\ <<c, l>> \in Within(m, s)[n]

\* Of the walks to a cell, one is a shortest.
LEMMA ShortestExists ==
  ASSUME NEW walks \in SUBSET (Cell \X Nat), NEW w \in walks
  PROVE  \E l \in Nat : l <= w[2] /\ <<w[1], l>> \in ShortestOf(walks)
<1> DEFINE Lengths == {l \in Nat : <<w[1], l>> \in walks}
<1>1. w[1] \in Cell /\ w[2] \in Nat /\ w = <<w[1], w[2]>>
  OBVIOUS
<1>2. w[2] \in Lengths
  BY <1>1
<1>3. PICK l \in Lengths : \A k \in Lengths : l <= k
  BY <1>2, LeastOf
<1>4. ASSUME NEW v \in walks, v[1] = w[1] PROVE l <= v[2]
  <2>1. v[2] \in Nat /\ v = <<v[1], v[2]>>
    OBVIOUS
  <2>2. v[2] \in Lengths
    BY <1>4, <2>1
  <2> QED
    BY <1>3, <2>2
<1>5. <<w[1], l>> \in ShortestOf(walks)
  BY <1>3, <1>4 DEF ShortestOf
<1> QED
  BY <1>2, <1>3, <1>5

\* What is reached stays reached as more moves are allowed, and so is what one
\* move more leads to.
LEMMA ReachedOn ==
  ASSUME NEW m \in Map, NEW s \in Cell, NEW n \in 0..N, n + 1 <= N,
         NEW c \in Cell, NEW length \in Nat, IsReached(m, s, n, c, length)
  PROVE  /\ IsReached(m, s, n + 1, c, length)
         /\ \A b \in Adjacent[c] :
              Move[m][c][b] # -1 => IsReached(m, s, n + 1, b, length + Move[m][c][b])
<1> DEFINE less == Within(m, s)[n]
           walks == less \cup Longer(m, less)
<1>1. PICK l \in Nat : l <= length /\ <<c, l>> \in less
  BY DEF IsReached
<1>2. Within(m, s)[n + 1] = ShortestOf(walks)
  <2>1. n + 1 \in 1..N /\ (n + 1) - 1 = n
    BY Count
  <2> QED
    BY <2>1, WithinDef DEF OneMove
<1>3. less \in SUBSET (Cell \X Nat)
  BY WithinType
<1>4. walks \in SUBSET (Cell \X Nat)
  <2>1. ASSUME NEW w \in less, NEW b \in Adjacent[w[1]], Move[m][w[1]][b] # -1
        PROVE  <<b, w[2] + Move[m][w[1]][b]>> \in Cell \X Nat
    <3>1. w[1] \in Cell /\ w[2] \in Nat
      BY <1>3
    <3>2. b \in Cell /\ Move[m][w[1]][b] \in Nat
      BY <2>1, <3>1, MoveType
    <3> QED
      BY <3>1, <3>2
  <2> QED
    BY <1>3, <2>1 DEF Longer
<1>5. IsReached(m, s, n + 1, c, length)
  <2>1. <<c, l>> \in walks
    BY <1>1
  <2>2. PICK k \in Nat : k <= l /\ <<c, k>> \in ShortestOf(walks)
    BY <1>4, <2>1, ShortestExists
  <2> QED
    BY <1>1, <1>2, <2>2 DEF IsReached
<1>6. ASSUME NEW b \in Adjacent[c], Move[m][c][b] # -1
      PROVE  IsReached(m, s, n + 1, b, length + Move[m][c][b])
  <2>1. Move[m][c][b] \in Nat
    BY <1>6, MoveType
  <2>2. <<b, l + Move[m][c][b]>> \in walks
    BY <1>1, <1>6 DEF Longer
  <2>3. PICK k \in Nat : k <= l + Move[m][c][b] /\ <<b, k>> \in ShortestOf(walks)
    BY <1>4, <2>2, ShortestExists
  <2>4. k <= length + Move[m][c][b]
    BY <1>1, <2>1, <2>3
  <2> QED
    BY <1>2, <2>3, <2>4 DEF IsReached
<1> QED
  BY <1>5, <1>6

\* What is reached in some moves is reached in as many moves as there are cells.
LEMMA ReachedInAll ==
  ASSUME NEW m \in Map, NEW s \in Cell, NEW n \in 0..N,
         NEW c \in Cell, NEW length \in Nat, IsReached(m, s, n, c, length)
  PROVE  IsReached(m, s, N, c, length)
<1> DEFINE Left == {k \in Nat : k <= N /\ IsReached(m, s, N - k, c, length)}
<1>1. N \in Nat /\ Left \in SUBSET Nat
  BY Count
<1>2. N - n \in Left
  <2>1. N - n \in Nat /\ N - n <= N /\ N - (N - n) = n
    BY <1>1
  <2> QED
    BY <2>1
<1>3. PICK k \in Left : \A j \in Left : k <= j
  BY <1>1, <1>2, LeastOf
<1>4. CASE k = 0
  BY <1>1, <1>3, <1>4
<1>5. CASE k # 0
  <2>1. /\ N - k \in 0..N /\ (N - k) + 1 <= N /\ k - 1 \in Nat /\ k - 1 <= N
        /\ (N - k) + 1 = N - (k - 1) /\ ~ k <= k - 1
    BY <1>1, <1>5
  <2>2. IsReached(m, s, (N - k) + 1, c, length)
    BY <2>1, <1>3, ReachedOn
  <2> QED
    BY <1>3, <2>1, <2>2
<1> QED
  BY <1>4, <1>5

\* Every shortest walk to a cell has one length.
LEMMA OneLength ==
  ASSUME NEW m \in Map, NEW s \in Cell,
         NEW v \in Shortest(m, s), NEW w \in Shortest(m, s), v[1] = w[1]
  PROVE  v[2] = w[2]
<1>1. N # 0
  BY Count, FS_EmptySet DEF N
<1>2. N \in 1..N /\ N \in 0..N
  BY <1>1, Count
<1>3. v[2] \in Nat /\ w[2] \in Nat
  BY <1>2, WithinType, ShortestIsWithin
<1>4. Shortest(m, s) = OneMove(m, Within(m, s)[N - 1])
  BY <1>2, WithinDef, ShortestIsWithin
<1>5. v[2] <= w[2] /\ w[2] <= v[2]
  BY <1>4 DEF OneMove, ShortestOf
<1> QED
  BY <1>3, <1>5

(***************************************************************************)
(* The inductive invariant.                                                *)
(***************************************************************************)

Expanded == {c \in Cell : expanded[c]}
Reached  == {c \in Cell : distance[c] # INFINITY}

\* The cost a cell is queued with.
Key(c) == distance[c] + Estimate[c][dst]

\* A move of map m, over which the distances grow by its cost.
IsStep(m, dist, a, b) ==
  /\ b \in Adjacent[a]
  /\ Move[m][a][b] # -1
  /\ dist[b] = dist[a] + Move[m][a][b]

TypeOK ==
  /\ map \in Map /\ src \in Cell /\ dst \in Cell
  /\ pc \in {"start", "search", "done"}
  /\ expanded \in [Cell -> BOOLEAN]
  /\ distance \in [Cell -> 0..INFINITY]
  /\ previous \in [Cell -> Cell]
  /\ fringe \subseteq [pos : Cell, cost : Nat]

\* Nothing is reached before the loop, nor if there is none.
Untouched == Expanded = {} /\ Reached = {} /\ fringe = {}

\* Every cell that is reached, but src, was reached from an expanded one, and
\* every neighbour of an expanded cell is reached.
Opened ==
  /\ Untouched \/ distance[src] = 0
  /\ Expanded \subseteq Reached
  /\ \A c \in Reached \ {src} :
       previous[c] \in Expanded /\ IsStep(map, distance, previous[c], c)
  /\ \A a \in Expanded \ {dst} : \A b \in Adjacent[a] :
       Move[map][a][b] # -1 => b \in Reached

\* The queue holds cells that are reached, none of them too early, and each that
\* is not expanded at its cost.
Queued ==
  /\ \A e \in fringe : /\ e.pos \in Reached /\ e.pos \in Passable[map]
                       /\ Key(e.pos) <= e.cost
  /\ \A c \in Reached \ Expanded : \E e \in fringe : e.pos = c /\ e.cost = Key(c)

\* No distance is longer than a move for each expanded cell.
Bounded ==
  \A most \in Nat :
    (\A m \in Map : \A a, b \in Cell : Move[m][a][b] <= most)
      => \A c \in Reached : distance[c] <= most * Cardinality(Expanded)

\* A way from s to d over cells of E, none of them twice.
IsTrail(m, dist, s, E, p, d) ==
  /\ p \in Seq(E) /\ p # <<>>
  /\ p[1] = s /\ p[Len(p)] = d
  /\ IsInjective(p)
  /\ \A i \in 2..Len(p) : IsStep(m, dist, p[i - 1], p[i])

\* The recursion of Trail, over the cells E.
IsTrace(t, E, prev, s) ==
  t = [d \in E |-> IF d = s THEN <<s>> ELSE Append(t[prev[d]], d)]

\* It has one solution, and that gives trails.
Traced(m, dist, s, E, prev) ==
  \E t : /\ IsTrace(t, E, prev, s)
         /\ \A u : IsTrace(u, E, prev, s) => u = t
         /\ \A d \in E : IsTrail(m, dist, s, E, t[d], d)

Phases ==
  /\ pc = "start" => Untouched /\ result = NoPath
  /\ pc = "search" =>
       /\ MayConnect(src, dst) /\ src # dst
       /\ distance[src] = 0 /\ dst \notin Expanded
       /\ result = NoPath
  /\ pc = "done" =>
       \/ Untouched /\ result = NoPath /\ ~ MayConnect(src, dst)
       \/ Untouched /\ result = Path(<<src>>, 0) /\ src = dst /\ src \in Passable[map]
       \/ /\ src # dst /\ dst \in Expanded
          /\ result = Path(result.points, distance[dst])
          /\ IsTrail(map, distance, src, Expanded, result.points, dst)

IInv ==
  /\ TypeOK
  /\ Phases
  /\ Opened
  /\ Queued
  /\ Bounded
  /\ Traced(map, distance, src, Expanded, previous)

\* With consistent estimates: the expanded cells come before the queue, their
\* neighbours have been relaxed, dst came last, and the distances are reached by
\* walks of as many moves as there are expanded cells.
Ordered ==
  /\ \A c \in Expanded : \A e \in fringe : Key(c) <= e.cost
  /\ \A a \in Expanded \ {dst} : \A b \in Adjacent[a] :
       Move[map][a][b] # -1 => distance[b] <= distance[a] + Move[map][a][b]
  /\ dst \in Expanded => \A c \in Expanded : Key(c) <= Key(dst)

Walked ==
  \A c \in Reached : IsReached(map, src, Cardinality(Expanded), c, distance[c])

OInv == IInv /\ (Consistent => Ordered) /\ Walked

(***************************************************************************)
(* Trails.                                                                 *)
(***************************************************************************)

\* The moves of a trail do not depend on cells it does not visit.
LEMMA TrailStands ==
  ASSUME NEW m, NEW dist, NEW far, NEW s, NEW E, NEW F, E \subseteq F, NEW p, NEW d,
         IsTrail(m, dist, s, E, p, d), \A a \in E : far[a] = dist[a]
  PROVE  IsTrail(m, far, s, F, p, d)
<1>1. p \in Seq(E) /\ p \in Seq(F) /\ Len(p) \in Nat
  BY DEF IsTrail
<1>2. ASSUME NEW i \in 2..Len(p) PROVE IsStep(m, far, p[i - 1], p[i])
  <2>1. i \in 1..Len(p) /\ i - 1 \in 1..Len(p)
    BY <1>1
  <2>2. p[i] \in E /\ p[i - 1] \in E
    BY <1>1, <2>1
  <2>3. IsStep(m, dist, p[i - 1], p[i])
    BY DEF IsTrail
  <2> QED
    BY <2>2, <2>3 DEF IsStep
<1> QED
  BY <1>1, <1>2 DEF IsTrail

\* A cell is a trail to itself.
LEMMA TrailOfOne ==
  ASSUME NEW m, NEW dist, NEW s, NEW E, s \in E
  PROVE  IsTrail(m, dist, s, E, <<s>>, s)
<1>1. <<s>> \in Seq(E) /\ <<s>> # <<>> /\ Len(<<s>>) = 1 /\ <<s>>[1] = s
  OBVIOUS
<1>2. IsInjective(<<s>>)
  BY DEF IsInjective
<1>3. 2..Len(<<s>>) = {}
  BY <1>1
<1> QED
  BY <1>1, <1>2, <1>3 DEF IsTrail

\* A trail and one move more, to a cell it has not visited.
LEMMA TrailGrows ==
  ASSUME NEW m, NEW dist, NEW s, NEW E, NEW p, NEW d,
         IsTrail(m, dist, s, E, p, d),
         NEW c, c \notin E, IsStep(m, dist, d, c)
  PROVE  IsTrail(m, dist, s, E \cup {c}, Append(p, c), c)
<1> DEFINE q == Append(p, c)
<1>1. /\ p \in Seq(E) /\ Len(p) \in Nat /\ Len(p) >= 1
      /\ \A i \in 1..Len(p) : p[i] \in E
  BY DEF IsTrail
<1>2. /\ q \in Seq(E \cup {c}) /\ q # <<>> /\ Len(q) = Len(p) + 1
      /\ q[Len(p) + 1] = c /\ \A i \in 1..Len(p) : q[i] = p[i]
  <2>1. p \in Seq(E \cup {c})
    BY <1>1
  <2> QED
    BY <1>1, <2>1
<1>3. q[1] = s /\ q[Len(q)] = c
  BY <1>1, <1>2 DEF IsTrail
<1> HIDE DEF q
<1>4. IsInjective(q)
  <2>1. DOMAIN q = 1..(Len(p) + 1) /\ DOMAIN p = 1..Len(p)
    BY <1>1, <1>2
  <2>2. \A i, j \in 1..Len(p) : p[i] = p[j] => i = j
    BY <2>1 DEF IsTrail, IsInjective
  <2>3. ASSUME NEW i \in DOMAIN q, NEW j \in DOMAIN q, q[i] = q[j] PROVE i = j
    <3>1. CASE i \in 1..Len(p) /\ j \in 1..Len(p)
      BY <1>2, <2>2, <2>3, <3>1
    <3>2. CASE i = Len(p) + 1 /\ j \in 1..Len(p)
      BY <1>1, <1>2, <2>3, <3>2
    <3>3. CASE i \in 1..Len(p) /\ j = Len(p) + 1
      BY <1>1, <1>2, <2>3, <3>3
    <3>4. CASE i = Len(p) + 1 /\ j = Len(p) + 1
      BY <3>4
    <3> QED
      BY <1>1, <2>1, <3>1, <3>2, <3>3, <3>4
  <2> QED
    BY <2>3 DEF IsInjective
<1>5. ASSUME NEW i \in 2..Len(q) PROVE IsStep(m, dist, q[i - 1], q[i])
  <2>1. CASE i = Len(q)
    <3>1. i - 1 = Len(p) /\ q[i - 1] = p[Len(p)]
      BY <1>1, <1>2, <2>1
    <3> QED
      BY <1>2, <1>3, <2>1, <3>1 DEF IsTrail
  <2>2. CASE i # Len(q)
    <3>1. i \in 2..Len(p) /\ i - 1 \in 1..Len(p) /\ i \in 1..Len(p)
      BY <1>1, <1>2, <2>2
    <3> QED
      BY <1>2, <3>1 DEF IsTrail
  <2> QED
    BY <2>1, <2>2
<1> QED
  BY <1>2, <1>3, <1>4, <1>5 DEF IsTrail, q

\* Where nothing is expanded there is nothing to trace.
LEMMA TracedNothing ==
  ASSUME NEW m, NEW dist, NEW s, NEW prev
  PROVE  Traced(m, dist, s, {}, prev)
<1> DEFINE t == [d \in {} |-> IF d = s THEN <<s>> ELSE <<>>]
<1>1. IsTrace(t, {}, prev, s)
  BY DEF IsTrace
<1>2. \A u : IsTrace(u, {}, prev, s) => u = t
  BY DEF IsTrace
<1> QED
  BY <1>1, <1>2 DEF Traced

\* One equation of a trace.
LEMMA TraceAt ==
  ASSUME NEW t, NEW E, NEW prev, NEW s, IsTrace(t, E, prev, s), NEW d \in E
  PROVE  t[d] = IF d = s THEN <<s>> ELSE Append(t[prev[d]], d)
BY DEF IsTrace

\* The equations make a trace.
LEMMA TraceOf ==
  ASSUME NEW t, NEW E, NEW prev, NEW s, t = [d \in E |-> t[d]],
         \A d \in E : t[d] = IF d = s THEN <<s>> ELSE Append(t[prev[d]], d)
  PROVE  IsTrace(t, E, prev, s)
<1>1. [d \in E |-> t[d]] = [d \in E |-> IF d = s THEN <<s>> ELSE Append(t[prev[d]], d)]
  OBVIOUS
<1> QED
  BY <1>1 DEF IsTrace

\* A cell that was reached from a traced one, or is src, can be traced, and the
\* trails of the others stay what they are.
LEMMA TracedOn ==
  ASSUME NEW m, NEW dist, NEW far, NEW s, NEW E, NEW prev, NEW last,
         Traced(m, dist, s, E, prev), NEW c, c \notin E,
         \A d \in E \ {s} : prev[d] \in E,
         c # s => prev[c] \in E /\ IsStep(m, dist, prev[c], c),
         \A d \in E \cup {c} : far[d] = dist[d] /\ last[d] = prev[d]
  PROVE  Traced(m, far, s, E \cup {c}, last)
<1> DEFINE F == E \cup {c}
<1>1. PICK t : /\ IsTrace(t, E, prev, s)
               /\ \A u : IsTrace(u, E, prev, s) => u = t
               /\ \A d \in E : IsTrail(m, dist, s, E, t[d], d)
  BY DEF Traced
<1> DEFINE way == IF c = s THEN <<s>> ELSE Append(t[prev[c]], c)
           r == [d \in F |-> IF d = c THEN way ELSE t[d]]
<1>2. \A d \in E : d # c /\ r[d] = t[d]
  OBVIOUS
<1>3. r[c] = way /\ r = [d \in F |-> r[d]]
  OBVIOUS
<1> HIDE DEF r
<1>4. IsTrace(r, F, last, s)
  <2>1. ASSUME NEW d \in F
        PROVE  r[d] = IF d = s THEN <<s>> ELSE Append(r[last[d]], d)
    <3>1. CASE d \in E
      BY <1>1, <1>2, <3>1, TraceAt
    <3>2. CASE d = c
      BY <1>2, <1>3, <3>2
    <3> QED
      BY <3>1, <3>2
  <2> QED
    BY <1>3, <2>1, TraceOf
<1>5. ASSUME NEW u, IsTrace(u, F, last, s) PROVE u = r
  <2> DEFINE v == [d \in E |-> u[d]]
  <2>1. \A d \in E : v[d] = u[d]
    OBVIOUS
  <2>2. v = [d \in E |-> v[d]] /\ u = [d \in F |-> u[d]]
    BY <1>5 DEF IsTrace
  <2> HIDE DEF v
  <2>3. \A d \in F : u[d] = IF d = s THEN <<s>> ELSE Append(u[last[d]], d)
    BY <1>5, TraceAt
  <2>4. \A d \in E : v[d] = IF d = s THEN <<s>> ELSE Append(v[prev[d]], d)
    BY <2>1, <2>3
  <2>5. IsTrace(v, E, prev, s)
    BY <2>2, <2>4, TraceOf
  <2>6. \A d \in E : u[d] = t[d]
    BY <1>1, <2>1, <2>5
  <2>7. u[c] = way
    BY <2>3, <2>6
  <2>8. \A d \in F : u[d] = r[d]
    BY <1>2, <1>3, <2>6, <2>7
  <2> QED
    BY <1>3, <2>2, <2>8
<1>6. ASSUME NEW d \in F PROVE IsTrail(m, far, s, F, r[d], d)
  <2>1. IsTrail(m, dist, s, F, r[d], d)
    <3>1. CASE d \in E
      BY <1>1, <1>2, <3>1, TrailStands
    <3>2. CASE d = c /\ c # s
      <4>1. r[d] = Append(t[prev[c]], c) /\ prev[c] \in E
            /\ IsStep(m, dist, prev[c], c)
        BY <1>3, <3>2
      <4>2. IsTrail(m, dist, s, E, t[prev[c]], prev[c])
        BY <1>1, <4>1
      <4>3. IsTrail(m, dist, s, F, Append(t[prev[c]], c), c)
        BY <4>1, <4>2, TrailGrows
      <4> QED
        BY <3>2, <4>1, <4>3
    <3>3. CASE d = c /\ c = s
      <4>1. r[d] = <<s>> /\ s \in F
        BY <1>3, <3>3
      <4> QED
        BY <3>3, <4>1, TrailOfOne
    <3> QED
      BY <3>1, <3>2, <3>3
  <2> QED
    BY <2>1, TrailStands
<1> QED
  BY <1>4, <1>5, <1>6 DEF Traced

(***************************************************************************)
(* The steps.                                                              *)
(***************************************************************************)

\* Infinity is not zero.
LEMMA InfinityType == INFINITY \in Nat /\ INFINITY # 0
<1>1. PICK most \in 0..INFINITY : most * N < INFINITY
  BY InfinityAssumption DEF N
<1>2. INFINITY \in Nat /\ most \in Nat /\ N \in Nat
  BY InfinityAssumption, Count
<1>3. most * N \in Nat
  BY <1>2
<1> QED
  BY <1>1, <1>2, <1>3

\* There are as many expanded cells as cells at most, and fewer while one is not.
LEMMA CountExpanded ==
  /\ IsFiniteSet(Expanded) /\ Cardinality(Expanded) \in 0..N
  /\ \A c \in Cell \ Expanded :
       /\ Cardinality(Expanded \cup {c}) = Cardinality(Expanded) + 1
       /\ Cardinality(Expanded) + 1 <= N
<1>1. Expanded \in SUBSET Cell
  BY DEF Expanded
<1>2. IsFiniteSet(Expanded) /\ Cardinality(Expanded) <= N
  BY <1>1, Count, FS_Subset DEF N
<1>3. Cardinality(Expanded) \in Nat
  BY <1>2, FS_CardinalityType
<1>4. ASSUME NEW c \in Cell \ Expanded
      PROVE  /\ Cardinality(Expanded \cup {c}) = Cardinality(Expanded) + 1
             /\ Cardinality(Expanded) + 1 <= N
  <2>1. Expanded \cup {c} \in SUBSET Cell
    BY <1>1
  <2>2. Cardinality(Expanded \cup {c}) <= N
    BY <2>1, Count, FS_Subset DEF N
  <2>3. Cardinality(Expanded \cup {c}) = Cardinality(Expanded) + 1
    BY <1>2, FS_AddElement
  <2> QED
    BY <2>2, <2>3
<1> QED
  BY <1>2, <1>3, <1>4, Count

\* No cell is so far that its neighbours would be at INFINITY.
LEMMA FarEnough ==
  ASSUME TypeOK, Bounded, NEW c \in Reached \ Expanded,
         NEW b \in Adjacent[c], Move[map][c][b] # -1
  PROVE  /\ distance[c] + Move[map][c][b] \in Nat
         /\ distance[c] + Move[map][c][b] < INFINITY
<1> DEFINE K == Cardinality(Expanded)
<1>1. PICK most \in 0..INFINITY :
        /\ \A m \in Map : \A x, y \in Cell : Move[m][x][y] <= most
        /\ most * N < INFINITY
  BY InfinityAssumption DEF N
<1>2. most \in Nat /\ INFINITY \in Nat /\ c \in Cell /\ map \in Map
  BY InfinityAssumption DEF Reached, TypeOK
<1>3. b \in Cell /\ Move[map][c][b] \in Nat /\ distance[c] \in Nat
  BY <1>2, MoveType DEF TypeOK
<1>4. distance[c] <= most * K
  BY <1>1, <1>2 DEF Bounded
<1>5. K \in Nat /\ K + 1 <= N /\ N \in Nat
  <2>1. c \in Cell \ Expanded
    BY <1>2
  <2>2. N \in Nat /\ K \in 0..N
    BY CountExpanded, Count
  <2>3. K + 1 <= N
    BY <2>1, CountExpanded
  <2> QED
    BY <2>2, <2>3
<1> HIDE DEF K
<1>6. most * K + most <= most * N /\ most * K \in Nat /\ most * N \in Nat
  BY <1>2, <1>5, OneMore
<1>7. Move[map][c][b] <= most
  BY <1>1, <1>2, <1>3
<1> QED
  BY <1>1, <1>2, <1>3, <1>4, <1>6, <1>7

\* What Expand does, cell by cell.
LEMMA ExpandEffect ==
  ASSUME TypeOK, NEW e \in fringe, Expand(e)
  PROVE  LET c == e.pos IN
         /\ c \in Cell \ Expanded /\ c # dst /\ pc = "search"
         /\ e.cost \in Nat /\ \A f \in fringe : e.cost <= f.cost
         /\ Expanded' = Expanded \cup {c}
         /\ expanded' \in [Cell -> BOOLEAN]
         /\ distance' \in [Cell -> Int]
         /\ previous' \in [Cell -> Cell]
         /\ \A n \in Nearer(c) :
              /\ n \in Adjacent[c] /\ n \in Cell \ Expanded /\ n # c
              /\ Move[map][c][n] # -1
              /\ distance[c] + Move[map][c][n] < distance[n]
              /\ distance'[n] = distance[c] + Move[map][c][n]
              /\ previous'[n] = c
         /\ \A n \in Cell \ Nearer(c) :
              distance'[n] = distance[n] /\ previous'[n] = previous[n]
<1> DEFINE c == e.pos
<1>1. c \in Cell /\ e.cost \in Nat
  BY DEF TypeOK
<1>2. /\ pc = "search" /\ ~ expanded[c] /\ c # dst
      /\ expanded' = [expanded EXCEPT ![c] = TRUE]
      /\ distance' = [n \in Cell |-> IF n \in Nearer(c)
                                       THEN distance[c] + Move[map][c][n] ELSE distance[n]]
      /\ previous' = [n \in Cell |-> IF n \in Nearer(c) THEN c ELSE previous[n]]
      /\ e \in Top
  BY DEF Expand, Popped
<1>3. \A n \in Nearer(c) :
        /\ n \in Adjacent[c] /\ n \in Cell \ Expanded /\ n # c
        /\ Move[map][c][n] # -1 /\ Move[map][c][n] \in Nat
        /\ distance[c] + Move[map][c][n] < distance[n]
  BY <1>1, MoveType DEF Nearer, Expanded, TypeOK
<1>4. \A f \in fringe : e.cost <= f.cost
  BY <1>2 DEF Top
<1>5. Expanded' = Expanded \cup {c} /\ expanded' \in [Cell -> BOOLEAN]
  BY <1>1, <1>2 DEF Expanded, TypeOK
<1>6. \A n \in Cell : distance[n] \in Int
  BY InfinityType DEF TypeOK
<1>7. distance' \in [Cell -> Int] /\ previous' \in [Cell -> Cell]
  BY <1>1, <1>2, <1>3, <1>6 DEF TypeOK
<1> QED
  BY <1>1, <1>2, <1>3, <1>4, <1>5, <1>7 DEF Expanded

\* The invariant holds initially.
LEMMA InitEstablishes == Init => OInv
<1> SUFFICES ASSUME Init PROVE OInv
  OBVIOUS
<1>1. Expanded = {} /\ Reached = {}
  BY DEF Init, Expanded, Reached
<1>2. TypeOK
  BY InfinityType DEF Init, TypeOK
<1>3. Phases /\ Opened /\ Queued /\ Bounded
  BY <1>1 DEF Init, Phases, Untouched, Opened, Queued, Bounded
<1>4. Traced(map, distance, src, Expanded, previous)
  BY <1>1, TracedNothing
<1>5. Ordered /\ Walked
  BY <1>1, <1>2 DEF Ordered, Walked, TypeOK
<1> QED
  BY <1>2, <1>3, <1>4, <1>5 DEF IInv, OInv

\* An answer at once leaves the search alone.
LEMMA AnswerKeeps ==
  ASSUME IInv, AnswerAtOnce
  PROVE  IInv' /\ (Ordered => Ordered') /\ (Walked => Walked')
<1>1. /\ pc = "start" /\ pc' = "done"
      /\ UNCHANGED <<map, src, dst, expanded, distance, previous, fringe>>
      /\ result' = IF MayConnect(src, dst) THEN Path(<<src>>, 0) ELSE NoPath
      /\ MayConnect(src, dst) => src = dst
  BY DEF AnswerAtOnce
<1>2. Expanded' = Expanded /\ Reached' = Reached
  BY <1>1 DEF Expanded, Reached
<1>3. TypeOK'
  BY <1>1 DEF IInv, TypeOK
<1>4. Opened' /\ Queued'
  BY <1>1, <1>2 DEF IInv, Opened, Queued, Untouched, Key
<1>5. Bounded'
  BY <1>1, <1>2 DEF IInv, Bounded
<1>6. Traced(map, distance, src, Expanded, previous)'
  BY <1>1, <1>2 DEF IInv
<1>7. Phases'
  <2>1. Untouched'
    BY <1>1, <1>2 DEF IInv, Phases, Untouched
  <2>2. CASE MayConnect(src, dst)
    <3>1. src = dst /\ src \in Passable[map]
      BY <1>1, <2>2 DEF MayConnect, Passes
    <3> QED
      BY <1>1, <2>1, <2>2, <3>1 DEF Phases
  <2>3. CASE ~ MayConnect(src, dst)
    <3>1. ~ MayConnect(src, dst)'
      BY <1>1, <2>3 DEF MayConnect, Passes
    <3> QED
      BY <1>1, <2>1, <2>3, <3>1 DEF Phases
  <2> QED
    BY <2>2, <2>3
<1>8. Ordered => Ordered'
  BY <1>1, <1>2 DEF Ordered, Key
<1>9. Walked => Walked'
  BY <1>1, <1>2 DEF Walked
<1> QED
  BY <1>3, <1>4, <1>5, <1>6, <1>7, <1>8, <1>9 DEF IInv

\* The first entry is queued, and src reached.
LEMMA BeginKeeps ==
  ASSUME IInv, Begin
  PROVE  IInv' /\ Ordered' /\ Walked'
<1>1. /\ pc = "start" /\ pc' = "search" /\ MayConnect(src, dst) /\ src # dst
      /\ UNCHANGED <<map, src, dst, expanded, previous, result>>
      /\ distance' = [distance EXCEPT ![src] = 0]
      /\ fringe' = {[pos |-> src, cost |-> Estimate[src][dst]]}
  BY DEF Begin
<1>2. /\ Expanded = {} /\ Reached = {} /\ result = NoPath
      /\ map \in Map /\ src \in Cell /\ dst \in Cell
      /\ distance \in [Cell -> 0..INFINITY]
  BY <1>1 DEF IInv, Phases, Untouched, TypeOK
<1>3. Estimate[src][dst] \in Nat /\ src \in Passable[map]
  BY <1>1, <1>2, CellAssumption DEF MayConnect, Passes
<1>4. /\ distance' \in [Cell -> 0..INFINITY]
      /\ distance'[src] = 0 /\ \A c \in Cell \ {src} : distance'[c] = INFINITY
  BY <1>1, <1>2, InfinityType DEF Reached
<1>5. Expanded' = {} /\ Reached' = {src}
  BY <1>1, <1>2, <1>4, InfinityType DEF Expanded, Reached
<1>6. TypeOK'
  BY <1>1, <1>2, <1>3, <1>4 DEF IInv, TypeOK
<1>7. Opened'
  BY <1>1, <1>4, <1>5 DEF Opened
<1>8. Queued'
  BY <1>1, <1>3, <1>4, <1>5 DEF Queued, Key
<1>9. Bounded'
  <2>1. Cardinality(Expanded)' = 0
    BY <1>5, FS_EmptySet
  <2>2. \A most \in Nat : most * 0 = 0
    OBVIOUS
  <2> QED
    BY <1>4, <1>5, <2>1, <2>2 DEF Bounded
<1>10. Traced(map, distance, src, Expanded, previous)'
  BY <1>5, TracedNothing
<1>11. Phases'
  <2>1. MayConnect(src, dst)'
    BY <1>1 DEF MayConnect, Passes
  <2> QED
    BY <1>1, <1>2, <1>4, <1>5, <2>1 DEF Phases
<1>12. Ordered'
  BY <1>1, <1>2, <1>5 DEF Ordered
<1>13. Walked'
  <2>1. Cardinality(Expanded)' = 0
    BY <1>5, FS_EmptySet
  <2>2. <<src, 0>> \in Within(map, src)[0]
    BY <1>3, WithinDef DEF NoMove
  <2>3. IsReached(map, src, 0, src, 0)
    BY <2>2 DEF IsReached
  <2> QED
    BY <1>1, <1>4, <1>5, <2>1, <2>3 DEF Walked
<1> QED
  BY <1>6, <1>7, <1>8, <1>9, <1>10, <1>11 , <1>12, <1>13 DEF IInv

\* An entry of an expanded cell is none that a cell waits for.
LEMMA DropKeeps ==
  ASSUME IInv, NEW e \in fringe, Drop(e)
  PROVE  IInv' /\ (Ordered => Ordered') /\ (Walked => Walked')
<1>1. /\ pc = "search" /\ expanded[e.pos] /\ fringe' = fringe \ {e}
      /\ UNCHANGED <<map, src, dst, pc, expanded, distance, previous, result>>
  BY DEF Drop, Popped
<1>2. Expanded' = Expanded /\ Reached' = Reached
  BY <1>1 DEF Expanded, Reached
<1>3. e.pos \in Expanded
  BY <1>1 DEF Expanded, IInv, TypeOK
<1>4. TypeOK'
  BY <1>1 DEF IInv, TypeOK
<1>5. Phases'
  <2>1. MayConnect(src, dst)' = MayConnect(src, dst)
    BY <1>1 DEF MayConnect, Passes
  <2> QED
    BY <1>1, <1>2, <2>1 DEF IInv, Phases
<1>6. Opened'
  <2>1. distance[src] = 0
    BY <1>1 DEF IInv, Phases
  <2> QED
    BY <1>1, <1>2, <2>1 DEF IInv, Opened
<1>7. Queued'
  <2>1. \A c \in Reached \ Expanded : \E f \in fringe \ {e} : f.pos = c /\ f.cost = Key(c)
    BY <1>3 DEF IInv, Queued
  <2> QED
    BY <1>1, <1>2, <2>1 DEF IInv, Queued, Key
<1>8. Bounded' /\ Traced(map, distance, src, Expanded, previous)'
  BY <1>1, <1>2 DEF IInv, Bounded
<1>9. Ordered => Ordered'
  BY <1>1, <1>2 DEF Ordered, Key
<1>10. Walked => Walked'
  BY <1>1, <1>2 DEF Walked
<1> QED
  BY <1>4, <1>5, <1>6, <1>7, <1>8, <1>9, <1>10 DEF IInv

\* The entry on top is queued at the cost of its cell, which is reached.
LEMMA TopIsKey ==
  ASSUME IInv, NEW e \in fringe, \A f \in fringe : e.cost <= f.cost,
         e.pos \notin Expanded
  PROVE  /\ e.pos \in Reached /\ e.pos \in Passable[map]
         /\ e.cost = Key(e.pos)
<1>1. e.pos \in Reached /\ e.pos \in Passable[map] /\ Key(e.pos) <= e.cost
  BY DEF IInv, Queued
<1>2. PICK f \in fringe : f.pos = e.pos /\ f.cost = Key(e.pos)
  BY <1>1 DEF IInv, Queued
<1>3. f.cost \in Nat /\ e.cost \in Nat /\ e.cost <= f.cost
  BY DEF IInv, TypeOK
<1> QED
  BY <1>1, <1>2, <1>3

\* A key is a number.
LEMMA KeyType ==
  ASSUME TypeOK, NEW c \in Cell
  PROVE  Key(c) \in Nat /\ distance[c] \in Nat /\ Estimate[c][dst] \in Nat
BY CellAssumption, InfinityType DEF TypeOK, Key

\* What Trail gives is what every trace gives.
LEMMA TrailIsTrace ==
  ASSUME NEW c \in Cell,
         NEW t, IsTrace(t, Expanded \cup {c}, previous, src),
         \A u : IsTrace(u, Expanded \cup {c}, previous, src) => u = t
  PROVE  Trail(c) = t[c]
<1> DEFINE F == {a \in Cell : expanded[a] \/ a = c}
           chosen == CHOOSE u : IsTrace(u, F, previous, src)
<1>1. F = Expanded \cup {c}
  BY DEF Expanded
<1>2. Trail(c) = chosen[c]
  BY DEF Trail, IsTrace
<1>3. IsTrace(t, F, previous, src) /\ \A u : IsTrace(u, F, previous, src) => u = t
  BY <1>1
<1> HIDE DEF F
<1>4. chosen = t
  BY <1>3
<1> QED
  BY <1>2, <1>4

\* dst is expanded last, and its trail is the result.
LEMMA FinishKeeps ==
  ASSUME IInv, NEW e \in fringe, Finish(e)
  PROVE  IInv' /\ (Ordered => Ordered') /\ (Walked => Walked')
<1> DEFINE E == Expanded \cup {dst}
<1>1. /\ pc = "search" /\ pc' = "done" /\ e.pos = dst
      /\ expanded' = [expanded EXCEPT ![dst] = TRUE]
      /\ fringe' = fringe \ {e}
      /\ result' = Path(Trail(dst), distance[dst])
      /\ UNCHANGED <<map, src, dst, distance, previous>>
      /\ \A f \in fringe : e.cost <= f.cost
  BY DEF Finish, Popped, Top
<1>2. /\ map \in Map /\ src \in Cell /\ dst \in Cell /\ dst \notin Expanded
      /\ src # dst /\ distance[src] = 0
      /\ TypeOK
  BY <1>1 DEF IInv, TypeOK, Phases
<1>3. Expanded' = E /\ Reached' = Reached
  BY <1>1, <1>2 DEF Expanded, Reached, TypeOK
<1>4. dst \in Reached /\ e.cost = Key(dst)
  BY <1>1, <1>2, TopIsKey
<1>5. TypeOK'
  BY <1>1, <1>2 DEF TypeOK
<1>6. Opened'
  BY <1>1, <1>2, <1>3, <1>4 DEF IInv, Opened
<1>7. Queued'
  <2>1. \A c \in Reached \ E : \E f \in fringe \ {e} : f.pos = c /\ f.cost = Key(c)
    BY <1>1 DEF IInv, Queued
  <2> QED
    BY <1>1, <1>3, <2>1 DEF IInv, Queued, Key
<1>8. /\ Cardinality(Expanded)' = Cardinality(Expanded) + 1
      /\ Cardinality(Expanded) \in 0..N /\ Cardinality(Expanded) + 1 <= N
      /\ Cardinality(Expanded) \in Nat
  BY <1>2, <1>3, CountExpanded, Count
<1>9. Bounded'
  <2>1. SUFFICES ASSUME NEW most \in Nat,
                        \A m \in Map : \A a, b \in Cell : Move[m][a][b] <= most,
                        NEW c \in Reached
                 PROVE  distance[c] <= most * (Cardinality(Expanded) + 1)
    BY <1>1, <1>3, <1>8 DEF Bounded
  <2>2. distance[c] <= most * Cardinality(Expanded)
    BY <2>1 DEF IInv, Bounded
  <2>3. distance[c] \in Nat
    BY <1>2, KeyType DEF Reached
  <2> QED
    BY <1>8, <2>2, <2>3, OneMore, Count
<1>10. Traced(map, distance, src, E, previous)
  <2>1. \A d \in Expanded \ {src} : previous[d] \in Expanded
    BY DEF IInv, Opened
  <2>2. previous[dst] \in Expanded /\ IsStep(map, distance, previous[dst], dst)
    BY <1>2, <1>4 DEF IInv, Opened
  <2> QED
    BY <1>2, <2>1, <2>2, TracedOn DEF IInv
<1>11. Traced(map, distance, src, Expanded, previous)'
  BY <1>1, <1>3, <1>10
<1>12. Phases'
  <2>1. IsTrail(map, distance, src, E, Trail(dst), dst)
    <3>1. PICK t : /\ IsTrace(t, E, previous, src)
                   /\ \A u : IsTrace(u, E, previous, src) => u = t
                   /\ \A d \in E : IsTrail(map, distance, src, E, t[d], d)
      BY <1>10 DEF Traced
    <3>2. Trail(dst) = t[dst]
      BY <1>2, <3>1, TrailIsTrace
    <3> QED
      BY <3>1, <3>2
  <2>2. result'.points = Trail(dst) /\ result' = Path(result'.points, distance[dst])
    BY <1>1 DEF Path
  <2>3. IsTrail(map, distance, src, E, result'.points, dst)
    BY <2>1, <2>2
  <2> QED
    BY <1>1, <1>2, <1>3, <2>2, <2>3 DEF Phases
<1>13. ASSUME Ordered PROVE Ordered'
  <2>1. \A c \in E : \A f \in fringe : Key(c) <= f.cost
    BY <1>1, <1>4, <1>13 DEF Ordered
  <2>2. \A c \in E : Key(c) <= Key(dst)
    <3>1. Key(dst) <= Key(dst)
      BY <1>2, KeyType
    <3> QED
      BY <1>4, <1>13, <3>1 DEF Ordered
  <2> QED
    BY <1>1, <1>3, <1>13, <2>1, <2>2 DEF Ordered, Key
<1>14. ASSUME Walked PROVE Walked'
  <2>1. SUFFICES ASSUME NEW c \in Reached
                 PROVE  IsReached(map, src, Cardinality(Expanded) + 1, c, distance[c])
    BY <1>1, <1>3, <1>8 DEF Walked
  <2>2. IsReached(map, src, Cardinality(Expanded), c, distance[c])
    BY <1>14 DEF Walked
  <2>3. c \in Cell /\ distance[c] \in Nat
    BY <1>2, KeyType DEF Reached
  <2> QED
    BY <1>2, <1>8, <2>2, <2>3, ReachedOn
<1> QED
  BY <1>5, <1>6, <1>7, <1>9, <1>11, <1>12, <1>13, <1>14 DEF IInv

\* The neighbours of the cell on top are relaxed.
LEMMA ExpandKeeps ==
  ASSUME IInv, NEW e \in fringe, Expand(e)
  PROVE  IInv' /\ (Consistent /\ Ordered => Ordered') /\ (Walked => Walked')
<1> DEFINE c == e.pos
           near == Nearer(c)
           E == Expanded \cup {c}
<1>1. /\ TypeOK /\ pc = "search" /\ c \in Cell \ Expanded /\ c # dst /\ e.cost \in Nat
      /\ \A f \in fringe : e.cost <= f.cost
      /\ Expanded' = E
      /\ expanded' \in [Cell -> BOOLEAN] /\ distance' \in [Cell -> Int]
      /\ previous' \in [Cell -> Cell]
  BY ExpandEffect DEF IInv
<1>2. \A n \in near :
        /\ n \in Adjacent[c] /\ n \in Cell \ Expanded /\ n # c
        /\ Move[map][c][n] # -1
        /\ distance[c] + Move[map][c][n] < distance[n]
        /\ distance'[n] = distance[c] + Move[map][c][n]
        /\ previous'[n] = c
  BY ExpandEffect DEF IInv
<1>3. \A n \in Cell \ near :
        distance'[n] = distance[n] /\ previous'[n] = previous[n]
  BY ExpandEffect DEF IInv
<1>4. /\ UNCHANGED <<map, src, dst, pc, result>>
      /\ fringe' = (fringe \ {e}) \cup
           {[pos |-> n, cost |-> Estimate[n][dst] + (distance[c] + Move[map][c][n])] :
              n \in near}
  BY DEF Expand
<1>5. near = {n \in Adjacent[c] : /\ ~ expanded[n] /\ n # c /\ Move[map][c][n] # -1
                                  /\ distance[c] + Move[map][c][n] < distance[n]}
  BY DEF Nearer
<1>6. /\ map \in Map /\ src \in Cell /\ dst \in Cell
      /\ src # dst /\ distance[src] = 0 /\ dst \notin Expanded
      /\ result = NoPath /\ MayConnect(src, dst)
  BY <1>1 DEF TypeOK, IInv, Phases
<1> HIDE DEF c, near
<1>7. /\ c \in Reached /\ c \in Passable[map] /\ e.cost = Key(c)
      /\ distance[c] \in Nat /\ Key(c) \in Nat
  <2>1. e.pos \notin Expanded /\ e.pos \in Cell
    BY <1>1 DEF c
  <2> QED
    BY <1>1, <2>1, TopIsKey, KeyType DEF c
<1>8. \A n \in near : /\ Move[map][c][n] \in Nat /\ n \in Passable[map]
                      /\ distance[n] \in Nat /\ distance[n] <= INFINITY
                      /\ distance'[n] \in Nat /\ distance'[n] < INFINITY
  <2> SUFFICES ASSUME NEW n \in near
               PROVE  /\ Move[map][c][n] \in Nat /\ n \in Passable[map]
                      /\ distance[n] \in Nat /\ distance[n] <= INFINITY
                      /\ distance'[n] \in Nat /\ distance'[n] < INFINITY
    OBVIOUS
  <2>1. Move[map][c][n] \in Nat /\ n \in Passable[map] /\ n \in Cell
    BY <1>1, <1>2, <1>6, MoveType
  <2>2. distance[n] \in Nat /\ distance[n] <= INFINITY /\ INFINITY \in Nat
    BY <1>1, <2>1, InfinityType DEF TypeOK
  <2> QED
    BY <1>2, <1>7, <2>1, <2>2
<1>9. Reached' = Reached \cup near
  BY <1>1, <1>2, <1>3, <1>8, InfinityType DEF Reached
<1>10. src \notin near /\ c \notin near /\ near \cap Expanded = {} /\ distance'[src] = 0
  BY <1>2, <1>3, <1>6, <1>7, <1>8
<1>11. \A n \in E : n \in Cell /\ n \notin near
  BY <1>1, <1>2, <1>10 DEF Expanded
<1>12. TypeOK'
  <2>1. distance' \in [Cell -> 0..INFINITY]
    <3>1. \A n \in Cell : distance'[n] \in 0..INFINITY
      <4>1. \A n \in near : distance'[n] \in 0..INFINITY
        BY <1>8, InfinityType
      <4> QED
        BY <1>1, <1>3, <4>1 DEF TypeOK
    <3> QED
      BY <1>1, <3>1
  <2>2. \A n \in near :
          [pos |-> n, cost |-> Estimate[n][dst] + (distance[c] + Move[map][c][n])]
            \in [pos : Cell, cost : Nat]
    <3> SUFFICES ASSUME NEW n \in near
                 PROVE  Estimate[n][dst] + (distance[c] + Move[map][c][n]) \in Nat
      BY <1>2
    <3>1. Estimate[n][dst] \in Nat
      BY <1>1, <1>2, KeyType
    <3> QED
      BY <1>7, <1>8, <3>1
  <2>3. fringe' \subseteq [pos : Cell, cost : Nat]
    BY <1>1, <1>4, <2>2 DEF TypeOK
  <2> QED
    BY <1>1, <1>4, <2>1, <2>3 DEF TypeOK
<1>13. Opened'
  <2>1. Expanded' \subseteq Reached'
    BY <1>1, <1>7, <1>9 DEF IInv, Opened
  <2>2. ASSUME NEW n \in Reached' \ {src}
        PROVE  previous'[n] \in E /\ IsStep(map, distance', previous'[n], n)
    <3>1. CASE n \in near
      <4>1. previous'[n] = c /\ distance'[c] = distance[c]
        BY <1>1, <1>2, <1>3, <1>10, <3>1
      <4> QED
        BY <1>2, <3>1, <4>1 DEF IsStep
    <3>2. CASE n \notin near
      <4>1. n \in Reached \ {src} /\ n \in Cell
        BY <1>9, <2>2, <3>2 DEF Reached
      <4>2. previous[n] \in Expanded /\ IsStep(map, distance, previous[n], n)
        BY <4>1 DEF IInv, Opened
      <4>3. /\ previous'[n] = previous[n] /\ distance'[n] = distance[n]
            /\ distance'[previous[n]] = distance[previous[n]]
        BY <1>3, <1>11, <3>2, <4>1, <4>2
      <4> QED
        BY <4>2, <4>3 DEF IsStep
    <3> QED
      BY <3>1, <3>2
  <2>3. ASSUME NEW a \in E \ {dst}, NEW b \in Adjacent[a], Move[map][a][b] # -1
        PROVE  b \in Reached'
    <3>1. CASE a \in Expanded
      BY <1>9, <2>3, <3>1 DEF IInv, Opened
    <3>2. CASE a = c
      <4>1. b \in Cell
        BY <1>1, <1>6, <2>3, <3>2, MoveType
      <4>2. SUFFICES ASSUME b \notin Reached PROVE b \in near
        BY <1>9
      <4>3. distance[b] = INFINITY /\ b \notin Expanded /\ b # c
        BY <1>7, <4>1, <4>2 DEF IInv, Opened, Reached
      <4>4. distance[c] + Move[map][c][b] < INFINITY
        BY <1>1, <1>7, <2>3, <3>2, FarEnough DEF IInv
      <4>5. ~ expanded[b]
        BY <4>1, <4>3 DEF Expanded
      <4> QED
        BY <1>5, <2>3, <3>2, <4>3, <4>4, <4>5
    <3> QED
      BY <3>1, <3>2
  <2> QED
    BY <1>1, <1>4, <1>10, <2>1, <2>2, <2>3 DEF Opened
<1>14. Queued'
  <2>1. ASSUME NEW n \in near
        PROVE  Key(n)' = Estimate[n][dst] + (distance[c] + Move[map][c][n])
    <3>1. Estimate[n][dst] \in Nat
      BY <1>1, <1>2, KeyType
    <3>2. Key(n)' = (distance[c] + Move[map][c][n]) + Estimate[n][dst]
      BY <1>2, <1>4 DEF Key
    <3> QED
      BY <1>7, <1>8, <3>1, <3>2
  <2>2. \A n \in Cell \ near : Key(n)' = Key(n)
    BY <1>3, <1>4 DEF Key
  <2>3. ASSUME NEW f \in fringe'
        PROVE  f.pos \in Reached' /\ f.pos \in Passable[map] /\ Key(f.pos)' <= f.cost
    <3>1. CASE f \in fringe
      <4>1. f.pos \in Reached /\ f.pos \in Passable[map] /\ Key(f.pos) <= f.cost
            /\ f.pos \in Cell /\ f.cost \in Nat
        BY <1>1, <3>1 DEF IInv, Queued, TypeOK
      <4>2. CASE f.pos \in near
        <5>1. distance'[f.pos] \in Nat /\ distance[f.pos] \in Nat
              /\ distance'[f.pos] <= distance[f.pos]
          BY <1>2, <1>7, <1>8, <4>2
        <5>2. Estimate[f.pos][dst] \in Nat
          BY <1>1, <4>1, KeyType
        <5>3. Key(f.pos)' = distance'[f.pos] + Estimate[f.pos][dst]
          BY <1>4 DEF Key
        <5> QED
          BY <1>9, <4>1, <5>1, <5>2, <5>3 DEF Key
      <4>3. CASE f.pos \notin near
        BY <1>9, <2>2, <4>1, <4>3
      <4> QED
        BY <4>2, <4>3
    <3>2. CASE f \notin fringe
      <4>1. PICK n \in near : f = [pos |-> n, cost |->
                                Estimate[n][dst] + (distance[c] + Move[map][c][n])]
        BY <1>4, <2>3, <3>2
      <4>2. f.pos = n /\ f.cost = Key(n)'
        BY <2>1, <4>1
      <4>3. f.cost \in Nat
        BY <1>12, <2>3 DEF TypeOK
      <4>4. Key(n)' <= f.cost
        BY <4>2, <4>3
      <4> QED
        BY <1>8, <1>9, <4>2, <4>4
    <3> QED
      BY <3>1, <3>2
  <2>4. ASSUME NEW d \in Reached' \ E
        PROVE  \E f \in fringe' : f.pos = d /\ f.cost = Key(d)'
    <3>1. CASE d \in near
      <4> DEFINE f == [pos |-> d, cost |->
                         Estimate[d][dst] + (distance[c] + Move[map][c][d])]
      <4>1. f \in fringe'
        BY <1>4, <3>1
      <4>2. f.pos = d /\ f.cost = Key(d)'
        BY <2>1, <3>1
      <4> QED
        BY <4>1, <4>2
    <3>2. CASE d \notin near
      <4>1. d \in Reached \ Expanded /\ d # c /\ d \in Cell
        BY <1>9, <2>4, <3>2 DEF Reached
      <4>2. PICK f \in fringe : f.pos = d /\ f.cost = Key(d)
        BY <4>1 DEF IInv, Queued
      <4>3. f # e
        BY <4>1, <4>2 DEF c
      <4> QED
        BY <1>4, <2>2, <3>2, <4>1, <4>2, <4>3
    <3> QED
      BY <3>1, <3>2
  <2> QED
    BY <1>1, <1>4, <2>3, <2>4 DEF Queued
<1>15. /\ Cardinality(Expanded)' = Cardinality(Expanded) + 1
       /\ Cardinality(Expanded) \in 0..N /\ Cardinality(Expanded) + 1 <= N
       /\ Cardinality(Expanded) \in Nat
  BY <1>1, CountExpanded, Count
<1>16. Bounded'
  <2>1. SUFFICES ASSUME NEW most \in Nat,
                        \A m \in Map : \A a, b \in Cell : Move[m][a][b] <= most,
                        NEW n \in Reached'
                 PROVE  distance'[n] <= most * (Cardinality(Expanded) + 1)
    BY <1>4, <1>15 DEF Bounded
  <2> DEFINE k == most * Cardinality(Expanded)
  <2>2. k \in Nat /\ most * (Cardinality(Expanded) + 1) = k + most
    BY <1>15, OneMore, Count
  <2>3. \A d \in Reached : distance[d] <= k
    BY <2>1 DEF IInv, Bounded
  <2> HIDE DEF k
  <2>4. CASE n \in near
    <3>1. Move[map][c][n] <= most
      BY <1>1, <1>2, <1>6, <2>1, <2>4
    <3>2. distance[c] <= k
      BY <1>7, <2>3
    <3> QED
      BY <1>2, <1>7, <1>8, <2>2, <2>4, <3>1, <3>2
  <2>5. CASE n \notin near
    <3>1. n \in Reached /\ n \in Cell /\ distance'[n] = distance[n]
      BY <1>3, <1>9, <2>1, <2>5 DEF Reached
    <3>2. distance[n] \in Nat
      BY <1>1, <3>1, KeyType
    <3> QED
      BY <2>2, <2>3, <3>1, <3>2
  <2> QED
    BY <2>4, <2>5
<1>17. Traced(map, distance, src, Expanded, previous)'
  <2>1. \A d \in Expanded \ {src} : previous[d] \in Expanded
    BY DEF IInv, Opened
  <2>2. c # src => previous[c] \in Expanded /\ IsStep(map, distance, previous[c], c)
    BY <1>7 DEF IInv, Opened
  <2>3. \A d \in E : distance'[d] = distance[d] /\ previous'[d] = previous[d]
    BY <1>3, <1>11
  <2>4. Traced(map, distance', src, E, previous')
    BY <1>1, <2>1, <2>2, <2>3, TracedOn DEF IInv
  <2> QED
    BY <1>1, <1>4, <2>4
<1>18. Phases'
  <2>1. MayConnect(src, dst)'
    BY <1>4, <1>6 DEF MayConnect, Passes
  <2> QED
    BY <1>1, <1>4, <1>6, <1>10, <2>1 DEF Phases
<1>19. ASSUME Walked PROVE Walked'
  <2> DEFINE K == Cardinality(Expanded)
  <2>1. SUFFICES ASSUME NEW n \in Reached'
                 PROVE  IsReached(map, src, K + 1, n, distance'[n])
    BY <1>4, <1>15 DEF Walked
  <2>2. K \in 0..N /\ K + 1 <= N
    BY <1>15
  <2>3. \A d \in Reached : IsReached(map, src, K, d, distance[d])
    BY <1>19 DEF Walked
  <2> HIDE DEF K
  <2>4. CASE n \in near
    <3>1. IsReached(map, src, K, c, distance[c]) /\ c \in Cell
      BY <1>1, <1>7, <2>3
    <3>2. n \in Adjacent[c] /\ Move[map][c][n] # -1
          /\ distance'[n] = distance[c] + Move[map][c][n]
      BY <1>2, <2>4
    <3> QED
      BY <1>6, <1>7, <2>2, <3>1, <3>2, ReachedOn
  <2>5. CASE n \notin near
    <3>1. n \in Reached /\ n \in Cell /\ distance'[n] = distance[n]
      BY <1>3, <1>9, <2>1, <2>5 DEF Reached
    <3>2. distance[n] \in Nat
      BY <1>1, <3>1, KeyType
    <3> QED
      BY <1>6, <2>2, <2>3, <3>1, <3>2, ReachedOn
  <2> QED
    BY <2>4, <2>5
<1> HIDE DEF E
<1>20. ASSUME Consistent, Ordered PROVE Ordered'
  <2>1. ASSUME NEW b \in Adjacent[c], Move[map][c][b] # -1
        PROVE  /\ b \in Cell /\ Move[map][c][b] \in Nat /\ Estimate[b][dst] \in Nat
               /\ Key(c) <= distance[c] + Move[map][c][b] + Estimate[b][dst]
    <3>1. b \in Cell /\ Move[map][c][b] \in Nat
      BY <1>1, <1>6, <2>1, MoveType
    <3>2. Estimate[c][dst] <= Move[map][c][b] + Estimate[b][dst]
      BY <1>1, <1>6, <1>20, <2>1 DEF Consistent
    <3>3. Estimate[c][dst] \in Nat /\ Estimate[b][dst] \in Nat
      BY <1>1, <3>1, KeyType
    <3> QED
      BY <1>7, <3>1, <3>2, <3>3 DEF Key
  <2>2. \A a \in E : Key(a)' = Key(a) /\ Key(a) \in Nat /\ distance'[a] = distance[a]
    BY <1>1, <1>3, <1>4, <1>11, KeyType DEF Key
  <2>3. \A a \in E : Key(a) <= e.cost
    BY <1>7, <1>20 DEF E, Ordered
  <2>4. ASSUME NEW a \in E, NEW f \in fringe' PROVE Key(a)' <= f.cost
    <3>1. f.cost \in Nat
      BY <1>12, <2>4 DEF TypeOK
    <3>2. CASE f \in fringe
      BY <1>1, <2>2, <2>3, <3>1, <3>2
    <3>3. CASE f \notin fringe
      <4>1. PICK n \in near : f = [pos |-> n, cost |->
                                Estimate[n][dst] + (distance[c] + Move[map][c][n])]
        BY <1>4, <2>4, <3>3
      <4>2. f.cost = Estimate[n][dst] + (distance[c] + Move[map][c][n])
        BY <4>1
      <4>3. /\ Key(c) <= distance[c] + Move[map][c][n] + Estimate[n][dst]
            /\ Move[map][c][n] \in Nat /\ Estimate[n][dst] \in Nat
        BY <1>2, <2>1
      <4> QED
        BY <1>1, <1>7, <2>2, <2>3, <3>1, <4>2, <4>3
    <3> QED
      BY <3>2, <3>3
  <2>5. ASSUME NEW a \in E \ {dst}, NEW b \in Adjacent[a], Move[map][a][b] # -1
        PROVE  distance'[b] <= distance'[a] + Move[map][a][b]
    <3>1. a \in Cell /\ b \in Cell /\ Move[map][a][b] \in Nat
      BY <1>6, <1>11, <2>5, MoveType
    <3>2. distance'[a] = distance[a] /\ distance[a] \in Nat
          /\ distance[b] \in Nat /\ distance'[b] \in Nat
      BY <1>1, <1>3, <1>8, <2>2, <3>1, KeyType
    <3>3. distance'[b] <= distance[b]
      BY <1>2, <1>3, <1>7, <1>8, <3>1, <3>2
    <3>4. CASE a \in Expanded
      <4>1. distance[b] <= distance[a] + Move[map][a][b]
        BY <1>20, <2>5, <3>4 DEF Ordered
      <4> QED
        BY <3>1, <3>2, <3>3, <4>1
    <3>5. CASE a = c
      <4>1. CASE b \in near
        BY <1>2, <3>1, <3>2, <3>5, <4>1
      <4>2. CASE b \in E
        <5>1. Key(b) <= Key(c)
          BY <1>7, <2>3, <4>2
        <5>2. /\ Key(c) <= distance[c] + Move[map][c][b] + Estimate[b][dst]
              /\ Estimate[b][dst] \in Nat
          BY <2>1, <2>5, <3>5
        <5>3. distance[b] <= distance[c] + Move[map][c][b]
          BY <1>7, <3>1, <3>2, <3>5, <5>1, <5>2 DEF Key
        <5> QED
          BY <3>1, <3>2, <3>3, <3>5, <5>3
      <4>3. CASE b \notin E /\ b \notin near
        <5>1. ~ expanded[b] /\ b # c
          BY <3>1, <4>3 DEF E, Expanded
        <5>2. ~ distance[c] + Move[map][c][b] < distance[b]
          BY <1>5, <2>5, <3>5, <4>3, <5>1
        <5> QED
          BY <3>1, <3>2, <3>3, <3>5, <5>2
      <4> QED
        BY <4>1, <4>2, <4>3
    <3> QED
      BY <3>4, <3>5 DEF E
  <2>6. dst \notin E
    BY <1>1, <1>6 DEF E
  <2> QED
    BY <1>1, <1>4, <2>4, <2>5, <2>6 DEF Ordered
<1> QED
  BY <1>12, <1>13, <1>14, <1>16, <1>17, <1>18, <1>20, <1>19 DEF IInv

\* The invariant is inductive.
LEMMA NextPreserves == OInv /\ [Next]_vars => OInv'
<1> SUFFICES ASSUME OInv, [Next]_vars PROVE OInv'
  OBVIOUS
<1>1. IInv /\ Walked /\ (Consistent => Ordered)
  BY DEF OInv
<1>2. CASE AnswerAtOnce
  BY <1>1, <1>2, AnswerKeeps DEF OInv
<1>3. CASE Begin
  BY <1>1, <1>3, BeginKeeps DEF OInv
<1>4. ASSUME NEW e \in fringe, Drop(e) PROVE OInv'
  BY <1>1, <1>4, DropKeeps DEF OInv
<1>5. ASSUME NEW e \in fringe, Finish(e) PROVE OInv'
  BY <1>1, <1>5, FinishKeeps DEF OInv
<1>6. ASSUME NEW e \in fringe, Expand(e) PROVE OInv'
  BY <1>1, <1>6, ExpandKeeps DEF OInv
<1>7. CASE UNCHANGED vars
  <2>1. UNCHANGED <<map, src, dst, pc, expanded, distance, previous, fringe, result>>
    BY <1>7 DEF vars
  <2>2. Expanded' = Expanded /\ Reached' = Reached
    BY <2>1 DEF Expanded, Reached
  <2>3. TypeOK' /\ Queued' /\ Bounded' /\ Opened'
    BY <1>1, <2>1, <2>2 DEF IInv, TypeOK, Queued, Bounded, Opened, Untouched, Key
  <2>4. Phases'
    <3>1. MayConnect(src, dst)' = MayConnect(src, dst)
      BY <2>1 DEF MayConnect, Passes
    <3> QED
      BY <1>1, <2>1, <2>2, <3>1 DEF IInv, Phases, Untouched
  <2>5. Traced(map, distance, src, Expanded, previous)'
    BY <1>1, <2>1, <2>2 DEF IInv
  <2>6. (Ordered => Ordered') /\ Walked'
    BY <1>1, <2>1, <2>2 DEF Ordered, Walked, Key
  <2> QED
    BY <1>1, <2>3, <2>4, <2>5, <2>6 DEF OInv, IInv
<1> QED
  BY <1>2, <1>3, <1>4, <1>5, <1>6, <1>7 DEF Next

\* The search keeps its invariant, on every map.
THEOREM Invariance == Spec => []OInv
BY InitEstablishes, NextPreserves, PTL DEF Spec

(***************************************************************************)
(* What the invariant says of a search.                                    *)
(***************************************************************************)

\* While it runs the queue is not empty: the expanded cells would be all that
\* moves lead to from src, and dst is one of those.
LEMMA NotLost ==
  ASSUME IInv, pc = "search"
  PROVE  fringe # {}
<1>1. /\ MayConnect(src, dst) /\ distance[src] = 0 /\ dst \notin Expanded
      /\ map \in Map /\ src \in Cell
  BY DEF IInv, Phases, TypeOK
<1> SUFFICES ASSUME fringe = {} PROVE FALSE
  OBVIOUS
<1>2. Expanded = Reached /\ Expanded \in SUBSET Cell
  BY DEF IInv, Queued, Opened, Expanded
<1>3. src \in Expanded
  BY <1>1, <1>2, InfinityType DEF Reached
<1>4. IsClosed(map, Expanded)
  BY <1>1, <1>2 DEF IsClosed, IInv, Opened
<1>5. src \in Passable[map] /\ dst \in Linked[map][src]
  BY <1>1 DEF MayConnect, Passes
<1>6. Linked[map][src] \subseteq Expanded
  BY <1>1, <1>2, <1>3, <1>4, <1>5, LinkedAssumption
<1> QED
  BY <1>1, <1>5, <1>6

\* The assertions of path() hold on every map.
THEOREM NeverIsLost == Spec => []NeverLost
<1>1. OInv => NeverLost
  BY NotLost DEF OInv, IInv, Queued, NeverLost
<1> QED
  BY <1>1, Invariance, PTL

\* The recursion of ReturnsWalk, and the lengths it gives.
IsLength(m, p, f) ==
  f = [i \in 1..Len(p) |-> IF i = 1 THEN 0 ELSE f[i - 1] + Move[m][p[i - 1]][p[i]]]
LengthOf(m, p) == CHOOSE f : IsLength(m, p, f)

\* A trail from a cell at distance 0 is as long as the distance of its end.
LEMMA LengthOfTrail ==
  ASSUME NEW m, NEW dist, NEW s, NEW E, NEW p, NEW d,
         IsTrail(m, dist, s, E, p, d), dist[s] = 0
  PROVE  LengthOf(m, p)[Len(p)] = dist[d]
<1>1. /\ Len(p) \in Nat /\ Len(p) >= 1 /\ p[1] = s /\ p[Len(p)] = d
      /\ \A i \in 2..Len(p) : dist[p[i]] = dist[p[i - 1]] + Move[m][p[i - 1]][p[i]]
  BY DEF IsTrail, IsStep
<1>2. \A i \in 1..Len(p) : i # 1 => i \in 2..Len(p) /\ i - 1 \in 1..Len(p)
  BY <1>1
<1>3. \E f : IsLength(m, p, f)
  <2> DEFINE f == [i \in 1..Len(p) |-> dist[p[i]]]
  <2>1. \A i \in 1..Len(p) :
          dist[p[i]] = IF i = 1 THEN 0 ELSE f[i - 1] + Move[m][p[i - 1]][p[i]]
    BY <1>1, <1>2
  <2>2. f = [i \in 1..Len(p) |->
               IF i = 1 THEN 0 ELSE f[i - 1] + Move[m][p[i - 1]][p[i]]]
    BY <2>1
  <2> QED
    BY <2>2 DEF IsLength
<1>4. PICK f : f = LengthOf(m, p)
  OBVIOUS
<1>5. f = [i \in 1..Len(p) |-> IF i = 1 THEN 0 ELSE f[i - 1] + Move[m][p[i - 1]][p[i]]]
  BY <1>3, <1>4 DEF LengthOf, IsLength
<1> DEFINE Wrong == {i \in 1..Len(p) : f[i] # dist[p[i]]}
<1>6. Wrong = {}
  <2> SUFFICES ASSUME Wrong # {} PROVE FALSE
    OBVIOUS
  <2>1. PICK k \in Wrong : \A j \in Wrong : k <= j
    <3>1. Wrong \in SUBSET Nat
      BY <1>1
    <3> HIDE DEF Wrong
    <3> QED
      BY <3>1, LeastOf
  <2>2. CASE k = 1
    <3>1. f[1] = 0
      BY <1>1, <1>5
    <3> QED
      BY <1>1, <2>1, <2>2, <3>1
  <2>3. CASE k # 1
    <3>1. k \in 2..Len(p) /\ k - 1 \in 1..Len(p) /\ ~ k <= k - 1
      BY <1>1, <2>3
    <3>2. f[k - 1] = dist[p[k - 1]]
      BY <2>1, <3>1
    <3>3. f[k] = f[k - 1] + Move[m][p[k - 1]][p[k]]
      <4>1. k \in 1..Len(p)
        OBVIOUS
      <4> QED
        BY <1>5, <2>3, <4>1
    <3> QED
      BY <1>1, <2>1, <3>1, <3>2, <3>3
  <2> QED
    BY <2>2, <2>3
<1> QED
  BY <1>1, <1>4, <1>6

\* What path() returns is a walk from src to dst, as long as it says.
THEOREM AlwaysReturnsWalk == Spec => []ReturnsWalk
<1>1. ASSUME IInv PROVE ReturnsWalk
  <2> DEFINE p == result.points
  <2>1. ReturnsWalk <=>
          (result # NoPath =>
             /\ p[1] = src /\ p[Len(p)] = dst
             /\ IsInjective(p)
             /\ \A i \in {j \in 1..Len(p) : j > 1} :
                  p[i] \in Adjacent[p[i - 1]] /\ Move[map][p[i - 1]][p[i]] # -1
             /\ result.length = LengthOf(map, p)[Len(p)])
    BY DEF ReturnsWalk, LengthOf, IsLength
  <2>2. SUFFICES ASSUME result # NoPath, NEW dist, NEW E,
                        IsTrail(map, dist, src, E, p, dst), dist[src] = 0,
                        result.length = dist[dst]
                 PROVE  ReturnsWalk
    <3>1. SUFFICES ASSUME result # NoPath PROVE ReturnsWalk
      BY DEF ReturnsWalk
    <3>2. CASE result = Path(<<src>>, 0) /\ src = dst
      <4> DEFINE dist == [c \in Cell |-> 0]
      <4>1. src \in Cell /\ p = <<src>> /\ result.length = 0
        BY <1>1, <3>2 DEF IInv, TypeOK, Path
      <4>2. IsTrail(map, dist, src, Cell, p, dst)
        BY <3>2, <4>1, TrailOfOne
      <4>3. dist[src] = 0 /\ dist[dst] = 0
        BY <3>2, <4>1
      <4> QED
        BY <2>2, <3>1, <4>1, <4>2, <4>3
    <3>3. CASE /\ src # dst /\ dst \in Expanded
               /\ result = Path(p, distance[dst])
               /\ IsTrail(map, distance, src, Expanded, p, dst)
      <4>1. distance[src] = 0 /\ result.length = distance[dst]
        BY <1>1, <3>3 DEF IInv, Opened, Untouched, Path
      <4> QED
        BY <2>2, <3>1, <3>3, <4>1
    <3> QED
      BY <1>1, <3>1, <3>2, <3>3 DEF IInv, Phases, TypeOK
  <2>3. result.length = LengthOf(map, p)[Len(p)]
    BY <2>2, LengthOfTrail
  <2>4. \A i \in {j \in 1..Len(p) : j > 1} : i \in 2..Len(p)
    <3>1. Len(p) \in Nat
      BY <2>2 DEF IsTrail
    <3> QED
      BY <3>1
  <2> HIDE DEF p
  <2> QED
    BY <2>1, <2>2, <2>3, <2>4 DEF IsTrail, IsStep
<1>2. OInv => ReturnsWalk
  BY <1>1 DEF OInv
<1> QED
  BY <1>2, Invariance, PTL

\* F parts the expanded cells from the queue; once dst is expanded, it is its key.
IsFrontier(F) ==
  /\ \A c \in Expanded : Key(c) <= F
  /\ \A e \in fringe : F <= e.cost
  /\ dst \in Expanded => F = Key(dst)

\* There is such a cost: the least of the queue, or the key of dst.
LEMMA FrontierExists ==
  ASSUME IInv, Ordered, ~ Untouched
  PROVE  \E F \in Nat : IsFrontier(F)
<1>1. CASE dst \in Expanded
  <2>1. Key(dst) \in Nat
    BY KeyType DEF IInv, TypeOK
  <2>2. IsFrontier(Key(dst))
    BY <1>1 DEF Ordered, IsFrontier
  <2> QED
    BY <2>1, <2>2
<1>2. CASE dst \notin Expanded
  <2> DEFINE costs == {e.cost : e \in fringe}
  <2>1. pc = "search"
    BY <1>2 DEF IInv, Phases, TypeOK
  <2>2. costs # {} /\ costs \in SUBSET Nat
    BY <2>1, NotLost DEF IInv, TypeOK
  <2>3. PICK F \in costs : \A cost \in costs : F <= cost
    BY <2>2, LeastOf
  <2>4. F \in Nat /\ \A e \in fringe : F <= e.cost
    BY <2>2, <2>3
  <2>5. \A c \in Expanded : Key(c) <= F
    BY <2>3 DEF Ordered
  <2> QED
    BY <1>2, <2>4, <2>5 DEF IsFrontier
<1> QED
  BY <1>1, <1>2

\* The distances of the expanded cells, and what the frontier leaves for the
\* others, are less than the length of every walk.
LEMMA FrontierIsLower ==
  ASSUME IInv, Ordered, Consistent, ~ Untouched, NEW F \in Nat, IsFrontier(F)
  PROVE  IsLower(map, src, [c \in Cell |-> IF c \in Expanded THEN distance[c]
                                           ELSE F - Estimate[c][dst]])
<1> DEFINE D == [c \in Cell |-> IF c \in Expanded THEN distance[c]
                                ELSE F - Estimate[c][dst]]
<1>1. /\ map \in Map /\ src \in Cell /\ dst \in Cell /\ distance[src] = 0 /\ TypeOK
      /\ src \in Reached
  BY InfinityType DEF IInv, TypeOK, Opened, Reached
<1>2. \A c \in Cell : /\ Key(c) = distance[c] + Estimate[c][dst]
                      /\ distance[c] \in Nat /\ Estimate[c][dst] \in Nat
  BY <1>1, KeyType DEF Key
<1>3. \A c \in Expanded : c \in Cell /\ Key(c) <= F
  BY DEF IsFrontier, Expanded
<1>4. ASSUME NEW c \in Reached \ Expanded PROVE c \in Cell /\ F <= Key(c)
  BY <1>4 DEF IInv, Queued, IsFrontier, Reached
<1>5. D \in [Cell -> Int]
  BY <1>2
<1>6. D[src] <= 0
  <2>1. CASE src \in Expanded
    BY <1>1, <2>1
  <2>2. CASE src \notin Expanded
    BY <1>1, <1>2, <1>4, <2>2
  <2> QED
    BY <2>1, <2>2
<1>7. ASSUME NEW a \in Cell, NEW b \in Adjacent[a], Move[map][a][b] # -1
      PROVE  D[b] <= D[a] + Move[map][a][b]
  <2>1. b \in Cell /\ Move[map][a][b] \in Nat
    BY <1>1, <1>7, MoveType
  <2>2. Estimate[a][dst] <= Move[map][a][b] + Estimate[b][dst]
    BY <1>1, <1>7 DEF Consistent
  <2>3. D[b] <= F - Estimate[b][dst]
    BY <1>2, <1>3, <2>1
  <2>4. CASE a \notin Expanded
    BY <1>2, <1>5, <2>1, <2>2, <2>3, <2>4
  <2>5. CASE a = dst /\ a \in Expanded
    <3>1. F = Key(a)
      BY <2>5 DEF IsFrontier
    <3> QED
      BY <1>1, <1>2, <1>5, <2>1, <2>2, <2>3, <2>5, <3>1
  <2>6. CASE a # dst /\ a \in Expanded
    <3>1. distance[b] <= distance[a] + Move[map][a][b]
      BY <1>7, <2>6 DEF Ordered
    <3>2. b \in Reached
      BY <1>7, <2>6 DEF IInv, Opened
    <3>3. D[b] <= distance[b]
      BY <1>2, <1>4, <2>1, <3>2
    <3>4. D[a] = distance[a]
      BY <2>6
    <3> QED
      BY <1>2, <1>5, <2>1, <3>1, <3>3, <3>4
  <2> QED
    BY <2>4, <2>5, <2>6
<1> HIDE DEF D
<1>8. IsLower(map, src, D)
  BY <1>5, <1>6, <1>7 DEF IsLower
<1> QED
  BY <1>8 DEF D

\* So an expanded cell is at its shortest distance.
LEMMA Settled ==
  ASSUME IInv, Ordered, Walked, Consistent, NEW c \in Expanded
  PROVE  <<c, distance[c]>> \in Shortest(map, src)
<1>1. ~ Untouched /\ c \in Cell /\ map \in Map /\ src \in Cell /\ c \in Reached
  BY DEF Untouched, Expanded, IInv, TypeOK, Opened
<1>2. distance[c] \in Nat
  BY <1>1, KeyType DEF IInv
<1>3. PICK F \in Nat : IsFrontier(F)
  BY <1>1, FrontierExists
<1> DEFINE D == [d \in Cell |-> IF d \in Expanded THEN distance[d]
                                ELSE F - Estimate[d][dst]]
<1>4. IsLower(map, src, D) /\ D[c] = distance[c]
  BY <1>1, <1>3, FrontierIsLower
<1>5. Cardinality(Expanded) \in 0..N /\ N \in 0..N
  BY CountExpanded, Count
<1>6. IsReached(map, src, N, c, distance[c])
  BY <1>1, <1>2, <1>5, ReachedInAll DEF Walked
<1>7. PICK l \in Nat : l <= distance[c] /\ <<c, l>> \in Within(map, src)[N]
  BY <1>6 DEF IsReached
<1> HIDE DEF D
<1>8. D[c] <= l
  BY <1>1, <1>4, <1>5, <1>7, LowerBound
<1>9. l = distance[c]
  BY <1>2, <1>4, <1>7, <1>8
<1> QED
  BY <1>7, <1>9, ShortestIsWithin

\* Where path_exists denies it, no walk leads from src to dst.
LEMMA NoWalk ==
  ASSUME TypeOK, ~ MayConnect(src, dst), NEW w \in Shortest(map, src)
  PROVE  w[1] # dst
<1>1. map \in Map /\ src \in Cell /\ dst \in Cell /\ Passable[map] \in SUBSET Cell
  BY MapAssumption DEF TypeOK
<1>2. w \in Within(map, src)[N] /\ N \in 0..N
  BY Count, ShortestIsWithin
<1>3. CASE src \notin Passable[map]
  <2>1. NoMove(map, src) = {} /\ KeepsWalks(map, {})
    BY <1>3 DEF NoMove, KeepsWalks
  <2>2. Within(map, src)[N] = {}
    BY <1>2, <2>1, WalksWithin
  <2> QED
    BY <1>2, <2>2
<1>4. CASE src \in Passable[map] /\ dst \notin Passable[map]
  <2>1. IsClosed(map, Passable[map])
    BY <1>1, MoveType DEF IsClosed
  <2> QED
    BY <1>1, <1>2, <1>4, <2>1, WalksStay
<1>5. CASE src \in Passable[map] /\ dst \in Passable[map]
  <2>1. dst \notin Linked[map][src]
    BY <1>5 DEF MayConnect, Passes
  <2>2. /\ src \in Linked[map][src] /\ IsClosed(map, Linked[map][src])
        /\ Linked[map][src] \in SUBSET Cell
    BY <1>1, <1>5, LinkedAssumption
  <2> QED
    BY <1>1, <1>2, <2>1, <2>2, WalksStay
<1> QED
  BY <1>3, <1>4, <1>5

\* An expanded cell has its final distance, if no estimate overrates a move.
THEOREM ExpandedAlwaysSettled == Consistent => (Spec => []ExpandedIsSettled)
<1> SUFFICES ASSUME Consistent PROVE Spec => []ExpandedIsSettled
  OBVIOUS
<1>1. OInv => ExpandedIsSettled
  BY Settled DEF OInv, ExpandedIsSettled, Expanded
<1> QED
  BY <1>1, Invariance, PTL

\* The length of the one walk there is to dst, among the lengths that are.
LEMMA OnlyLength ==
  ASSUME TypeOK, NEW l, <<dst, l>> \in Shortest(map, src)
  PROVE  {w[2] : w \in {v \in Shortest(map, src) : v[1] = dst}} = {l}
<1>1. map \in Map /\ src \in Cell
  BY DEF TypeOK
<1>2. \A v \in Shortest(map, src) : v[1] = dst => v[2] = l
  BY <1>1, OneLength
<1> QED
  BY <1>2

\* MapView::path returns a shortest path if there is one, and else none.
THEOREM AlwaysReturnsShortest == Consistent => (Spec => []ReturnsShortest)
<1> SUFFICES ASSUME Consistent PROVE Spec => []ReturnsShortest
  OBVIOUS
<1>1. ASSUME OInv PROVE ReturnsShortest
  <2> DEFINE lengths == {w[2] : w \in {v \in Shortest(map, src) : v[1] = dst}}
  <2>1. /\ IInv /\ Ordered /\ Walked /\ TypeOK
        /\ map \in Map /\ src \in Cell /\ dst \in Cell
    BY <1>1 DEF OInv, IInv, TypeOK
  <2>2. SUFFICES ASSUME pc = "done"
                 PROVE  lengths = IF result = NoPath THEN {} ELSE {result.length}
    BY DEF ReturnsShortest
  <2>3. CASE result = NoPath /\ ~ MayConnect(src, dst)
    BY <2>1, <2>3, NoWalk
  <2>4. CASE result = Path(<<src>>, 0) /\ src = dst /\ src \in Passable[map]
    <3>1. <<src, 0>> \in Within(map, src)[0]
      BY <2>4, WithinDef DEF NoMove
    <3>2. IsReached(map, src, 0, src, 0) /\ 0 \in 0..N
      BY <3>1, Count DEF IsReached
    <3>3. IsReached(map, src, N, src, 0)
      BY <2>1, <3>2, ReachedInAll
    <3>4. <<dst, 0>> \in Shortest(map, src)
      BY <2>4, <3>3, ShortestIsWithin DEF IsReached
    <3>5. result.length = 0 /\ result # NoPath
      BY <2>4 DEF Path, NoPath
    <3> QED
      BY <2>1, <3>4, <3>5, OnlyLength
  <2>5. CASE dst \in Expanded /\ result = Path(result.points, distance[dst])
    <3>1. <<dst, distance[dst]>> \in Shortest(map, src)
      BY <2>1, <2>5, Settled
    <3>2. distance[dst] \in Nat
      BY <2>1, KeyType
    <3>3. result.length = distance[dst] /\ result # NoPath
      BY <2>5, <3>2 DEF Path, NoPath
    <3> QED
      BY <2>1, <3>1, <3>3, OnlyLength
  <2> QED
    BY <2>1, <2>2, <2>3, <2>4, <2>5 DEF IInv, Phases
<1> QED
  BY <1>1, Invariance, PTL

(***************************************************************************)
(* EuclideanGraph is such a graph.                                         *)
(***************************************************************************)

\* No cell of S has a passable neighbour out of S, diagonals aside: what the
\* components of a map are closed under.
IsManhattanClosed(cost, S) ==
  \A a \in S : \A b \in Coord : IsManhattan(a, b) /\ IsPassable(cost, b) => b \in S

\* No move of the graph leaves S.
IsMoveClosed(cost, S) ==
  \A a \in S : \A b \in Neighbors(a) : MoveCost(cost, a, b) # -1 => b \in S

\* A move of the graph is a natural number, between passable cells.
LEMMA MoveCostType ==
  ASSUME NEW cost \in [Coord -> Nat], NEW a \in Coord, NEW b \in Coord
  PROVE  \/ MoveCost(cost, a, b) = -1
         \/ MoveCost(cost, a, b) \in Nat /\ IsPassable(cost, a) /\ IsPassable(cost, b)
<1>1. cost[b] \in Nat /\ STRAIGHT * cost[b] \in Nat /\ DIAGONAL * cost[b] \in Nat
  BY DEF STRAIGHT, DIAGONAL
<1> QED
  BY <1>1 DEF MoveCost

\* The corners a diagonal move passes between are cells that Manhattan moves
\* join with both its ends.
LEMMA Corner ==
  ASSUME NEW a \in Coord, NEW b \in Coord, IsDiagonal(a, b),
         NEW k \in {[row |-> a.row, col |-> b.col, layer |-> a.layer],
                    [row |-> b.row, col |-> a.col, layer |-> a.layer]}
  PROVE  k \in Coord /\ IsManhattan(a, k) /\ IsManhattan(k, b)
<1>1. /\ a.row \in 0..(Rows - 1) /\ b.row \in 0..(Rows - 1)
      /\ a.col \in 0..(Cols - 1) /\ b.col \in 0..(Cols - 1)
      /\ a.layer \in 0..(Layers - 1)
      /\ a.layer = b.layer /\ Gap(a.row, b.row) = 1 /\ Gap(a.col, b.col) = 1
  BY DEF Coord, IsDiagonal
<1>2. /\ Gap(a.row, a.row) = 0 /\ Gap(a.col, a.col) = 0 /\ Gap(a.layer, a.layer) = 0
      /\ Gap(b.row, b.row) = 0 /\ Gap(b.col, b.col) = 0
  BY <1>1 DEF Gap
<1>3. CASE k = [row |-> a.row, col |-> b.col, layer |-> a.layer]
  <2>1. k.row = a.row /\ k.col = b.col /\ k.layer = a.layer /\ k \in Coord
    BY <1>1, <1>3 DEF Coord
  <2> QED
    BY <1>1, <1>2, <2>1 DEF IsManhattan
<1>4. CASE k = [row |-> b.row, col |-> a.col, layer |-> a.layer]
  <2>1. k.row = b.row /\ k.col = a.col /\ k.layer = a.layer /\ k \in Coord
    BY <1>1, <1>4 DEF Coord
  <2> QED
    BY <1>1, <1>2, <2>1 DEF IsManhattan
<1> QED
  BY <1>3, <1>4

\* Cutting corners leads nowhere that Manhattan moves do not: the components
\* path_exists asks are the cells the search can reach, on every grid.
THEOREM CornersLinkNothing ==
  ASSUME NEW cost \in [Coord -> Nat],
         NEW S \in SUBSET {a \in Coord : IsPassable(cost, a)}
  PROVE  IsManhattanClosed(cost, S) <=> IsMoveClosed(cost, S)
<1>1. ASSUME IsManhattanClosed(cost, S), NEW a \in S, NEW b \in Neighbors(a),
             MoveCost(cost, a, b) # -1
      PROVE  b \in S
  <2>1. a \in Coord /\ b \in Coord /\ IsPassable(cost, b)
    BY <1>1, MoveCostType DEF Neighbors
  <2>2. CASE IsManhattan(a, b)
    BY <1>1, <2>1, <2>2 DEF IsManhattanClosed
  <2>3. CASE ~ IsManhattan(a, b)
    <3>1. IsDiagonal(a, b) /\ MayCut(cost, a, b)
      BY <1>1, <2>1, <2>3 DEF Neighbors, MoveCost
    <3>2. PICK k \in {[row |-> a.row, col |-> b.col, layer |-> a.layer],
                      [row |-> b.row, col |-> a.col, layer |-> a.layer]} :
            IsPassable(cost, k)
      BY <3>1 DEF MayCut
    <3>3. k \in Coord /\ IsManhattan(a, k) /\ IsManhattan(k, b)
      BY <2>1, <3>1, Corner
    <3>4. k \in S
      BY <1>1, <3>2, <3>3 DEF IsManhattanClosed
    <3> QED
      BY <1>1, <2>1, <3>3, <3>4 DEF IsManhattanClosed
  <2> QED
    BY <2>2, <2>3
<1>2. ASSUME IsMoveClosed(cost, S), NEW a \in S, NEW b \in Coord,
             IsManhattan(a, b), IsPassable(cost, b)
      PROVE  b \in S
  <2>1. a \in Coord /\ IsPassable(cost, a) /\ b \in Neighbors(a)
    BY <1>2 DEF Neighbors
  <2>2. cost[b] \in Nat /\ MoveCost(cost, a, b) = STRAIGHT * cost[b]
    BY <1>2, <2>1 DEF MoveCost
  <2>3. MoveCost(cost, a, b) # -1
    BY <2>2 DEF STRAIGHT
  <2> QED
    BY <1>2, <2>1, <2>3 DEF IsMoveClosed
<1> QED
  BY <1>1, <1>2 DEF IsManhattanClosed, IsMoveClosed
=============================================================================
