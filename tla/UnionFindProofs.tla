--------------------------- MODULE UnionFindProofs ---------------------------
(***************************************************************************)
(* The forests of disjoint_sets and the objects of util::UnionFind that    *)
(* own them.  First what finds, links and resets do to a forest whose      *)
(* ranks grow along the parents; then the tables of the objects, which no  *)
(* other object shares; then the theorems.                                 *)
(***************************************************************************)
EXTENDS UnionFind, FunctionTheorems, FiniteSetTheorems, WellFoundedInduction, TLAPS

(***************************************************************************)
(* Numbers.                                                                *)
(***************************************************************************)

\* A non-empty set of naturals has a least element.
LEMMA LeastOf ==
  ASSUME NEW S \in SUBSET Nat, S # {}
  PROVE  \E x \in S : \A y \in S : x <= y
<1> DEFINE R == OpToRel(<, Nat)
<1>1. \E x \in S : \A y \in S : <<y, x>> \notin R
  BY NatLessThanWellFounded, WFMin
<1>2. \A x, y \in Nat : <<y, x>> \notin R => x <= y
  BY DEF OpToRel
<1> QED
  BY <1>1, <1>2

\* The ids of n elements.
Ids(n) == 0..(n - 1)

\* Finitely many numbers have a bound.
LEMMA Bounded ==
  ASSUME NEW n \in Nat, NEW f \in [Ids(n) -> Nat]
  PROVE  \E most \in Nat : \A i \in Ids(n) : f[i] <= most
<1> DEFINE Lost == {k \in 0..n : ~ \E most \in Nat : \A i \in Ids(k) : f[i] <= most}
<1> SUFFICES ASSUME Lost # {} PROVE FALSE
  OBVIOUS
<1>1. Lost \in SUBSET Nat
  OBVIOUS
<1>2. PICK k \in Lost : \A j \in Lost : k <= j
  BY <1>1, LeastOf
<1>3. CASE k = 0
  BY <1>2, <1>3 DEF Ids
<1>4. CASE k # 0
  <2>1. /\ k \in Nat /\ k - 1 \in 0..n /\ ~ k <= k - 1
        /\ k - 1 \in Ids(n) /\ Ids(k - 1) \subseteq Ids(n)
    BY <1>4 DEF Ids
  <2>2. PICK most \in Nat : \A i \in Ids(k - 1) : f[i] <= most
    BY <1>2, <2>1
  <2>3. f[k - 1] \in Nat
    BY <2>1
  <2>4. PICK more \in Nat : more = IF f[k - 1] <= most THEN most ELSE f[k - 1]
    BY <2>3
  <2>5. \A i \in Ids(k) : i = k - 1 \/ i \in Ids(k - 1)
    BY <2>1 DEF Ids
  <2>6. \A i \in Ids(k - 1) : f[i] \in Nat
    BY <2>1
  <2>7. \A i \in Ids(k) : f[i] <= more
    BY <2>2, <2>3, <2>4, <2>5, <2>6
  <2> QED
    BY <2>7
<1> QED
  BY <1>3, <1>4

(***************************************************************************)
(* Forests.                                                                *)
(***************************************************************************)

\* Parents of n ids, with ranks that grow along them.
Forest(n, parent, rank) ==
  /\ parent \in [Ids(n) -> Ids(n)]
  /\ rank \in [Ids(n) -> Nat]
  /\ \A i \in Ids(n) : parent[i] # i => rank[i] < rank[parent[i]]

\* What holds of the roots, and of an id when it holds of its parent, holds of
\* every id.
LEMMA UpTheParents ==
  ASSUME NEW n \in Nat, NEW parent, NEW rank, Forest(n, parent, rank), NEW S,
         \A i \in Ids(n) : parent[i] = i \/ parent[i] \in S => i \in S
  PROVE  Ids(n) \subseteq S
<1>1. PICK most \in Nat : \A i \in Ids(n) : rank[i] <= most
  BY Bounded DEF Forest
<1> DEFINE Lost == {most - rank[i] : i \in Ids(n) \ S}
<1> SUFFICES ASSUME Lost # {} PROVE FALSE
  OBVIOUS
<1>2. \A i \in Ids(n) : rank[i] \in Nat /\ parent[i] \in Ids(n)
  BY DEF Forest
<1>3. Lost \in SUBSET Nat
  BY <1>1, <1>2
<1>4. PICK k \in Lost : \A j \in Lost : k <= j
  BY <1>3, LeastOf
<1>5. PICK i \in Ids(n) \ S : k = most - rank[i]
  BY <1>4
<1>6. parent[i] # i /\ parent[i] \in Ids(n) \ S
  BY <1>2, <1>5
<1>7. rank[i] < rank[parent[i]]
  BY <1>5, <1>6 DEF Forest
<1>8. most - rank[parent[i]] \in Lost
  BY <1>6
<1>9. k <= most - rank[parent[i]]
  BY <1>4, <1>8
<1> QED
  BY <1>2, <1>5, <1>6, <1>7, <1>9

\* The functions that are defined along the parents.
Climbs(n, parent, base, step, f) ==
  f = [i \in Ids(n) |-> IF parent[i] = i THEN base[i] ELSE step[i][f[parent[i]]]]

\* There is one, whatever is done at the roots and on the way down.
LEMMA ClimbExists ==
  ASSUME NEW n \in Nat, NEW parent, NEW rank, Forest(n, parent, rank),
         NEW V, NEW base \in [Ids(n) -> V], NEW step \in [Ids(n) -> [V -> V]]
  PROVE  \E f \in [Ids(n) -> V] : Climbs(n, parent, base, step, f)
<1>1. PICK most \in Nat : \A i \in Ids(n) : rank[i] <= most
  BY Bounded DEF Forest
<1>2. \A i \in Ids(n) : rank[i] \in Nat /\ parent[i] \in Ids(n)
  BY DEF Forest
<1> DEFINE High(k) == {i \in Ids(n) : most - rank[i] <= k}
           Solves(f, k) ==
             \A i \in High(k) : f[i] = IF parent[i] = i THEN base[i]
                                       ELSE step[i][f[parent[i]]]
           Lost == {k \in Nat : ~ \E f \in [High(k) -> V] : Solves(f, k)}
<1>3. \A k \in Nat : \A i \in High(k) : parent[i] # i => k # 0 /\ parent[i] \in High(k - 1)
  BY <1>1, <1>2 DEF Forest
<1>4. Lost = {}
  <2> SUFFICES ASSUME Lost # {} PROVE FALSE
    OBVIOUS
  <2>1. PICK k \in Lost : \A j \in Lost : k <= j
    <3>1. Lost \in SUBSET Nat
      OBVIOUS
    <3> HIDE DEF Lost
    <3> QED
      BY <3>1, LeastOf
  <2>2. \E f : k # 0 => f \in [High(k - 1) -> V] /\ Solves(f, k - 1)
    <3>1. CASE k # 0
      <4>1. k - 1 \in Nat /\ ~ k <= k - 1
        BY <3>1
      <4>2. k - 1 \notin Lost
        <5> HIDE DEF Lost
        <5> QED
          BY <2>1, <4>1
      <4> HIDE DEF High, Solves
      <4> QED
        BY <4>1, <4>2
    <3> QED
      BY <3>1
  <2>3. PICK f : k # 0 => f \in [High(k - 1) -> V] /\ Solves(f, k - 1)
    BY <2>2
  <2> DEFINE g == [i \in High(k) |-> IF parent[i] = i THEN base[i]
                                     ELSE step[i][f[parent[i]]]]
  <2>4. k \in Nat
    OBVIOUS
  <2>5. ASSUME NEW i \in High(k), parent[i] # i
        PROVE  /\ k # 0 /\ parent[i] \in High(k - 1) /\ parent[i] \in High(k)
               /\ g[parent[i]] = f[parent[i]] /\ f[parent[i]] \in V
    <3>1. k # 0 /\ parent[i] \in High(k - 1)
      BY <1>3, <2>4, <2>5
    <3>2. parent[i] \in High(k)
      BY <1>1, <1>2, <2>4, <3>1
    <3>3. /\ f[parent[i]] = IF parent[parent[i]] = parent[i] THEN base[parent[i]]
                            ELSE step[parent[i]][f[parent[parent[i]]]]
          /\ f[parent[i]] \in V
      BY <2>3, <3>1
    <3>4. g[parent[i]] = IF parent[parent[i]] = parent[i] THEN base[parent[i]]
                         ELSE step[parent[i]][f[parent[parent[i]]]]
      BY <3>2
    <3> QED
      BY <3>1, <3>2, <3>3, <3>4
  <2>6. g \in [High(k) -> V]
    <3> SUFFICES ASSUME NEW i \in High(k) PROVE g[i] \in V
      OBVIOUS
    <3>1. CASE parent[i] = i
      BY <3>1
    <3>2. CASE parent[i] # i
      BY <3>2, <2>5
    <3> QED
      BY <3>1, <3>2
  <2>7. Solves(g, k)
    <3> SUFFICES ASSUME NEW i \in High(k)
                 PROVE  g[i] = IF parent[i] = i THEN base[i] ELSE step[i][g[parent[i]]]
      OBVIOUS
    <3> QED
      BY <2>5
  <2> HIDE DEF g, Solves, High
  <2> QED
    BY <2>1, <2>6, <2>7
<1>5. High(most) = Ids(n)
  BY <1>1, <1>2
<1>6. PICK f \in [High(most) -> V] : Solves(f, most)
  BY <1>4
<1> QED
  BY <1>5, <1>6 DEF Climbs

\* Two functions defined along the parents alike are one.
LEMMA ClimbUnique ==
  ASSUME NEW n \in Nat, NEW parent, NEW rank, Forest(n, parent, rank),
         NEW f, NEW g, DOMAIN f = Ids(n), DOMAIN g = Ids(n),
         f = [i \in Ids(n) |-> f[i]], g = [i \in Ids(n) |-> g[i]],
         \A i \in Ids(n) : parent[i] = i \/ f[parent[i]] = g[parent[i]] => f[i] = g[i]
  PROVE  f = g
<1> DEFINE S == {i \in Ids(n) : f[i] = g[i]}
<1>1. \A i \in Ids(n) : parent[i] = i \/ parent[i] \in S => i \in S
  OBVIOUS
<1>2. Ids(n) \subseteq S
  <2> HIDE DEF S
  <2> QED
    BY <1>1, UpTheParents
<1> QED
  BY <1>2

(***************************************************************************)
(* Roots and paths.                                                        *)
(***************************************************************************)

\* What the recursion of Root asks of a function.
IsRoot(parent, f) ==
  f = [i \in DOMAIN parent |-> IF parent[i] = i THEN i ELSE f[parent[i]]]

\* What the recursion of Path asks of one.
IsPath(parent, f) ==
  f = [i \in DOMAIN parent |-> {i} \cup (IF parent[i] = i THEN {} ELSE f[parent[i]])]

\* Root is defined, and by its recursion alone.
LEMMA RootIs ==
  ASSUME NEW n \in Nat, NEW parent, NEW rank, Forest(n, parent, rank)
  PROVE  /\ Root(parent) \in [Ids(n) -> Ids(n)]
         /\ IsRoot(parent, Root(parent))
         /\ \A g : IsRoot(parent, g) => g = Root(parent)
<1>1. DOMAIN parent = Ids(n) /\ \A i \in Ids(n) : parent[i] \in Ids(n)
  BY DEF Forest
<1> DEFINE base == [i \in Ids(n) |-> i]
           step == [i \in Ids(n) |-> [v \in Ids(n) |-> v]]
<1>2. base \in [Ids(n) -> Ids(n)] /\ step \in [Ids(n) -> [Ids(n) -> Ids(n)]]
  OBVIOUS
<1>3. PICK f \in [Ids(n) -> Ids(n)] : Climbs(n, parent, base, step, f)
  <2> HIDE DEF base, step
  <2> QED
    BY <1>2, ClimbExists
<1>4. ASSUME NEW i \in Ids(n)
      PROVE  f[i] = IF parent[i] = i THEN i ELSE f[parent[i]]
  BY <1>1, <1>3 DEF Climbs
<1>5. IsRoot(parent, f)
  BY <1>1, <1>4 DEF IsRoot
<1>6. ASSUME NEW g, IsRoot(parent, g) PROVE g = f
  <2>1. /\ DOMAIN g = Ids(n) /\ g = [i \in Ids(n) |-> g[i]]
        /\ \A i \in Ids(n) : g[i] = IF parent[i] = i THEN i ELSE g[parent[i]]
    BY <1>1, <1>6 DEF IsRoot
  <2>2. \A i \in Ids(n) : parent[i] = i \/ g[parent[i]] = f[parent[i]] => g[i] = f[i]
    BY <1>4, <2>1
  <2> QED
    BY <2>1, <2>2, ClimbUnique
<1>7. Root(parent) = CHOOSE g : IsRoot(parent, g)
  BY DEF Root, IsRoot
<1> QED
  BY <1>3, <1>5, <1>6, <1>7

\* Roots, id by id.
LEMMA Roots ==
  ASSUME NEW n \in Nat, NEW parent, NEW rank, Forest(n, parent, rank), NEW i \in Ids(n)
  PROVE  /\ Root(parent)[i] \in Ids(n)
         /\ parent[i] = i => Root(parent)[i] = i
         /\ parent[i] # i => Root(parent)[i] = Root(parent)[parent[i]]
         /\ parent[Root(parent)[i]] = Root(parent)[i]
         /\ Root(parent)[Root(parent)[i]] = Root(parent)[i]
         /\ rank[i] \in Nat
         /\ Root(parent)[i] # i => rank[i] < rank[Root(parent)[i]]
<1>1. PICK f : f = Root(parent)
  OBVIOUS
<1>2. f \in [Ids(n) -> Ids(n)] /\ IsRoot(parent, f)
  BY <1>1, RootIs
<1>3. parent \in [Ids(n) -> Ids(n)] /\ rank \in [Ids(n) -> Nat]
  BY DEF Forest
<1>4. \A j \in Ids(n) : f[j] = IF parent[j] = j THEN j ELSE f[parent[j]]
  BY <1>2, <1>3 DEF IsRoot
<1> DEFINE S == {j \in Ids(n) : /\ parent[f[j]] = f[j]
                                /\ f[j] # j => rank[j] < rank[f[j]]}
<1>5. ASSUME NEW j \in Ids(n), parent[j] = j \/ parent[j] \in S
      PROVE  j \in S
  <2>1. CASE parent[j] = j
    BY <1>4, <2>1
  <2>2. CASE parent[j] # j
    <3>1. f[j] = f[parent[j]] /\ parent[j] \in S
      BY <1>4, <1>5, <2>2
    <3>2. rank[j] < rank[parent[j]]
      BY <2>2 DEF Forest
    <3>3. rank[j] \in Nat /\ rank[parent[j]] \in Nat /\ rank[f[j]] \in Nat
      BY <1>2, <1>3
    <3> QED
      BY <3>1, <3>2, <3>3
  <2> QED
    BY <2>1, <2>2
<1>6. Ids(n) \subseteq S
  <2> HIDE DEF S
  <2> QED
    BY <1>5, UpTheParents
<1>7. f[i] \in Ids(n) /\ parent[f[i]] = f[i] /\ (f[i] # i => rank[i] < rank[f[i]])
  BY <1>2, <1>6
<1>8. f[f[i]] = f[i]
  BY <1>4, <1>7
<1> QED
  BY <1>1, <1>3, <1>4, <1>7, <1>8

\* The ids on a path have the root it leads to.
LEMMA Paths ==
  ASSUME NEW n \in Nat, NEW parent, NEW rank, Forest(n, parent, rank), NEW i \in Ids(n)
  PROVE  /\ Path(parent)[i] \subseteq Ids(n)
         /\ \A j \in Path(parent)[i] : Root(parent)[j] = Root(parent)[i]
<1>1. DOMAIN parent = Ids(n) /\ \A j \in Ids(n) : parent[j] \in Ids(n)
  BY DEF Forest
<1> DEFINE base == [j \in Ids(n) |-> {j}]
           step == [j \in Ids(n) |-> [v \in SUBSET Ids(n) |-> {j} \cup v]]
<1>2. /\ base \in [Ids(n) -> SUBSET Ids(n)]
      /\ step \in [Ids(n) -> [SUBSET Ids(n) -> SUBSET Ids(n)]]
  OBVIOUS
<1>3. PICK f \in [Ids(n) -> SUBSET Ids(n)] : Climbs(n, parent, base, step, f)
  <2> HIDE DEF base, step
  <2> QED
    BY <1>2, ClimbExists
<1>4. ASSUME NEW j \in Ids(n)
      PROVE  f[j] = {j} \cup (IF parent[j] = j THEN {} ELSE f[parent[j]])
  <2>1. f[j] = IF parent[j] = j THEN base[j] ELSE step[j][f[parent[j]]]
    BY <1>1, <1>3 DEF Climbs
  <2>2. f[parent[j]] \in SUBSET Ids(n)
    BY <1>1, <1>3
  <2> QED
    BY <2>1, <2>2
<1>5. \E g : IsPath(parent, g)
  <2>1. IsPath(parent, f)
    BY <1>1, <1>3, <1>4 DEF IsPath
  <2> QED
    BY <2>1
<1>6. Path(parent) = CHOOSE g : IsPath(parent, g)
  BY DEF Path, IsPath
<1>7. PICK g : g = Path(parent) /\ IsPath(parent, g)
  BY <1>5, <1>6
<1>8. \A j \in Ids(n) : g[j] = {j} \cup (IF parent[j] = j THEN {} ELSE g[parent[j]])
  BY <1>1, <1>7 DEF IsPath
<1> DEFINE S == {j \in Ids(n) : /\ g[j] \subseteq Ids(n)
                                /\ \A k \in g[j] : Root(parent)[k] = Root(parent)[j]}
<1>9. ASSUME NEW j \in Ids(n), parent[j] = j \/ parent[j] \in S
      PROVE  j \in S
  <2>1. CASE parent[j] = j
    BY <1>8, <2>1
  <2>2. CASE parent[j] # j
    <3>1. g[j] = {j} \cup g[parent[j]] /\ parent[j] \in S
      BY <1>8, <1>9, <2>2
    <3>2. Root(parent)[j] = Root(parent)[parent[j]]
      BY <2>2, Roots
    <3> QED
      BY <3>1, <3>2
  <2> QED
    BY <2>1, <2>2
<1>10. Ids(n) \subseteq S
  <2> HIDE DEF S
  <2> QED
    BY <1>9, UpTheParents
<1> QED
  BY <1>7, <1>10

(***************************************************************************)
(* Finds, links and unions.                                                *)
(***************************************************************************)

\* A find leaves the ranks as they bound the forest, and every root.
LEMMA CompressSound ==
  ASSUME NEW n \in Nat, NEW parent, NEW rank, Forest(n, parent, rank), NEW i \in Ids(n)
  PROVE  /\ Forest(n, Compress(parent, i), rank)
         /\ Root(Compress(parent, i)) = Root(parent)
<1>1. PICK root, new, path : /\ root = Root(parent) /\ new = Compress(parent, i)
                             /\ path = Path(parent)[i]
  OBVIOUS
<1>2. parent \in [Ids(n) -> Ids(n)] /\ rank \in [Ids(n) -> Nat]
  BY DEF Forest
<1>3. new = [j \in Ids(n) |-> IF j \in path THEN root[i] ELSE parent[j]]
  BY <1>1, <1>2 DEF Compress
<1>4. /\ root \in [Ids(n) -> Ids(n)] /\ path \subseteq Ids(n)
      /\ \A j \in path : root[j] = root[i]
  BY <1>1, RootIs, Paths
<1>5. \A j \in Ids(n) : /\ root[j] # j => rank[j] < rank[root[j]]
                        /\ parent[j] = j => root[j] = j
                        /\ parent[j] # j => root[j] = root[parent[j]]
                        /\ root[root[j]] = root[j]
  BY <1>1, Roots
<1>6. Forest(n, new, rank)
  <2>1. new \in [Ids(n) -> Ids(n)]
    BY <1>2, <1>3, <1>4
  <2>2. ASSUME NEW j \in Ids(n), new[j] # j PROVE rank[j] < rank[new[j]]
    <3>1. CASE j \in path
      BY <1>3, <1>4, <1>5, <2>2, <3>1
    <3>2. CASE j \notin path
      BY <1>3, <2>2, <3>2 DEF Forest
    <3> QED
      BY <3>1, <3>2
  <2> QED
    BY <1>2, <2>1, <2>2 DEF Forest
<1>7. IsRoot(new, root)
  <2>1. ASSUME NEW j \in Ids(n)
        PROVE  root[j] = IF new[j] = j THEN j ELSE root[new[j]]
    <3>1. CASE j \in path
      BY <1>3, <1>4, <1>5, <3>1
    <3>2. CASE j \notin path
      BY <1>3, <1>5, <3>2
    <3> QED
      BY <3>1, <3>2
  <2>2. DOMAIN new = Ids(n) /\ root = [j \in Ids(n) |-> root[j]]
    BY <1>3, <1>4
  <2> QED
    BY <2>1, <2>2 DEF IsRoot
<1>8. root = Root(new)
  BY <1>6, <1>7, RootIs
<1> QED
  BY <1>1, <1>6, <1>8

\* The roots once those of i and j are r.
Merged(root, i, j, r) ==
  [k \in DOMAIN root |-> IF root[k] \in {i, j} THEN r ELSE root[k]]

\* A link of two roots makes one of them the root of both trees, and the ranks go on
\* growing along the parents.
LEMMA LinkSound ==
  ASSUME NEW n \in Nat, NEW parent, NEW rank, Forest(n, parent, rank),
         NEW i \in Ids(n), NEW j \in Ids(n), parent[i] = i, parent[j] = j
  PROVE  LET next == Link(parent, rank, i, j)
         IN  /\ Forest(n, next.parent, next.rank)
             /\ \E r \in {i, j} :
                  /\ Root(next.parent) = Merged(Root(parent), i, j, r)
                  /\ \A k \in Ids(n) \ {r} : next.rank[k] = rank[k]
                  /\ i # j /\ next.rank[r] # rank[r] =>
                       next.rank[r] = rank[r] + 1 /\ rank[i] = rank[r] /\ rank[j] = rank[r]
                  /\ i = j => next.rank[r] = rank[r]
<1>1. PICK next, root : next = Link(parent, rank, i, j) /\ root = Root(parent)
  OBVIOUS
<1>2. parent \in [Ids(n) -> Ids(n)] /\ rank \in [Ids(n) -> Nat]
  BY DEF Forest
<1>3. root \in [Ids(n) -> Ids(n)] /\ root[i] = i /\ root[j] = j
  BY <1>1, RootIs, Roots
<1>4. \A k \in Ids(n) : /\ parent[k] = k => root[k] = k
                        /\ parent[k] # k => root[k] = root[parent[k]]
  BY <1>1, Roots
<1>5. CASE i = j
  <2>1. next.parent = parent /\ next.rank = rank
    BY <1>1, <1>5 DEF Link
  <2>2. root = Merged(root, i, j, i)
    BY <1>3, <1>5 DEF Merged
  <2> QED
    BY <1>1, <1>5, <2>1, <2>2
<1>6. ASSUME NEW lower \in Ids(n), NEW r \in Ids(n), lower # r,
             {lower, r} = {i, j}, NEW new, NEW ranks,
             new = [parent EXCEPT ![lower] = r],
             \/ ranks = rank /\ rank[lower] < rank[r]
             \/ ranks = [rank EXCEPT ![r] = @ + 1] /\ rank[lower] = rank[r]
      PROVE  Forest(n, new, ranks) /\ Root(new) = Merged(root, i, j, r)
  <2>1. parent[lower] = lower /\ parent[r] = r /\ root[lower] = lower /\ root[r] = r
    BY <1>3, <1>6
  <2>2. new \in [Ids(n) -> Ids(n)] /\ ranks \in [Ids(n) -> Nat]
    BY <1>2, <1>6
  <2>3. ASSUME NEW k \in Ids(n), new[k] # k PROVE ranks[k] < ranks[new[k]]
    <3>1. CASE k = lower
      BY <1>2, <1>6, <3>1
    <3>2. CASE k # lower
      <4>1. new[k] = parent[k] /\ parent[k] # k /\ k # r
        BY <1>2, <1>6, <2>1, <2>3, <3>2
      <4>2. rank[k] < rank[parent[k]]
        BY <4>1 DEF Forest
      <4> QED
        BY <1>2, <1>6, <4>1, <4>2
    <3> QED
      BY <3>1, <3>2
  <2>4. Forest(n, new, ranks)
    BY <2>2, <2>3 DEF Forest
  <2>5. PICK g : g = Merged(root, i, j, r)
    OBVIOUS
  <2>6. /\ DOMAIN g = Ids(n) /\ g = [k \in Ids(n) |-> g[k]]
        /\ \A k \in Ids(n) : g[k] = IF root[k] \in {lower, r} THEN r ELSE root[k]
    BY <1>3, <1>6, <2>5 DEF Merged
  <2>7. ASSUME NEW k \in Ids(n)
        PROVE  g[k] = IF new[k] = k THEN k ELSE g[new[k]]
    <3>1. CASE k = lower
      BY <1>2, <1>6, <2>1, <2>6, <3>1
    <3>2. CASE k # lower
      <4>1. new[k] = parent[k] /\ parent[k] \in Ids(n)
        BY <1>2, <1>6, <3>2
      <4>2. CASE parent[k] = k
        BY <1>4, <2>6, <3>2, <4>1, <4>2
      <4>3. CASE parent[k] # k
        BY <1>4, <2>6, <4>1, <4>3
      <4> QED
        BY <4>2, <4>3
    <3> QED
      BY <3>1, <3>2
  <2>8. IsRoot(new, g)
    BY <2>2, <2>6, <2>7 DEF IsRoot
  <2>9. g = Root(new)
    BY <2>4, <2>8, RootIs
  <2> QED
    BY <2>4, <2>5, <2>9
<1>7. CASE i # j /\ rank[i] > rank[j]
  <2>1. next.parent = [parent EXCEPT ![j] = i] /\ next.rank = rank
    BY <1>1, <1>7 DEF Link
  <2>2. rank[j] < rank[i] /\ {j, i} = {i, j}
    BY <1>2, <1>7
  <2>3. Forest(n, next.parent, next.rank) /\ Root(next.parent) = Merged(root, i, j, i)
    BY <1>6, <1>7, <2>1, <2>2
  <2> QED
    BY <1>1, <1>7, <2>1, <2>3
<1>8. CASE i # j /\ ~(rank[i] > rank[j])
  <2>1. /\ next.parent = [parent EXCEPT ![i] = j]
        /\ next.rank = IF rank[i] = rank[j] THEN [rank EXCEPT ![j] = @ + 1] ELSE rank
    BY <1>1, <1>8 DEF Link
  <2>2. rank[i] \in Nat /\ rank[j] \in Nat
    BY <1>2
  <2>3. \/ next.rank = rank /\ rank[i] < rank[j]
        \/ next.rank = [rank EXCEPT ![j] = @ + 1] /\ rank[i] = rank[j]
    BY <1>8, <2>1, <2>2
  <2>4. Forest(n, next.parent, next.rank) /\ Root(next.parent) = Merged(root, i, j, j)
    BY <1>6, <1>8, <2>1, <2>3
  <2>5. /\ \A k \in Ids(n) \ {j} : next.rank[k] = rank[k]
        /\ next.rank[j] # rank[j] => next.rank[j] = rank[j] + 1 /\ rank[i] = rank[j]
    BY <1>2, <2>3
  <2> QED
    BY <1>1, <1>8, <2>4, <2>5
<1> QED
  BY <1>5, <1>7, <1>8

(***************************************************************************)
(* The sizes of trees.                                                     *)
(***************************************************************************)

\* Twice as many subsets for one more element.
LEMMA TwicePower ==
  ASSUME NEW n \in Nat
  PROVE  2^(n + 1) = 2^n + 2^n /\ 2^n \in Nat
<1> DEFINE S == SUBSET (1..n)
           with == [X \in S |-> X \cup {n + 1}]
           T == {X \cup {n + 1} : X \in S}
<1>1. IsFiniteSet(1..n) /\ Cardinality(1..n) = n
  BY FS_Interval
<1>2. IsFiniteSet(1..(n + 1)) /\ Cardinality(1..(n + 1)) = n + 1
  BY FS_Interval
<1>3. IsFiniteSet(S) /\ Cardinality(S) = 2^n
  BY <1>1, FS_SUBSET
<1>4. Cardinality(SUBSET (1..(n + 1))) = 2^(n + 1)
  BY <1>2, FS_SUBSET
<1>5. with \in Bijection(S, T)
  <2>1. \A X, Y \in S : X \cup {n + 1} = Y \cup {n + 1} => X = Y
    BY n + 1 \notin 1..n
  <2>2. with \in [S -> T] /\ \A y \in T : \E x \in S : with[x] = y
    OBVIOUS
  <2> QED
    BY <2>1, <2>2, Fun_IsBij
<1>6. IsFiniteSet(T) /\ Cardinality(T) = 2^n
  BY <1>3, <1>5, FS_Bijection DEF ExistsBijection
<1>7. S \cap T = {}
  BY n + 1 \notin 1..n
<1>8. S \cup T = SUBSET (1..(n + 1))
  <2>1. ASSUME NEW X \in SUBSET (1..(n + 1)) PROVE X \in S \cup T
    <3>1. CASE n + 1 \in X
      <4>1. X \ {n + 1} \in S /\ X = (X \ {n + 1}) \cup {n + 1}
        BY <3>1
      <4> QED
        BY <4>1
    <3>2. CASE n + 1 \notin X
      <4>1. \A x \in X : x \in 1..n
        BY <3>2
      <4> QED
        BY <4>1
    <3> QED
      BY <3>1, <3>2
  <2>2. ASSUME NEW X \in S \cup T PROVE X \in SUBSET (1..(n + 1))
    <3>1. \A x \in X : x \in 1..n \/ x = n + 1
      OBVIOUS
    <3> QED
      BY <3>1
  <2> QED
    BY <2>1, <2>2
<1>9. Cardinality(S \cup T) = 2^n + 2^n
  <2>1. Cardinality({}) = 0 /\ Cardinality(S) \in Nat
    BY <1>3, FS_EmptySet, FS_CardinalityType
  <2>2. Cardinality(S \cup T) = Cardinality(S) + Cardinality(T) - Cardinality(S \cap T)
    BY <1>3, <1>6, FS_Union
  <2> HIDE DEF S, T
  <2> QED
    BY <1>3, <1>6, <1>7, <2>1, <2>2
<1> QED
  BY <1>3, <1>4, <1>8, <1>9, FS_CardinalityType

\* The ids whose root is i.
Members(n, parent, i) == {j \in Ids(n) : Root(parent)[j] = i}

\* A root of rank r has at least 2^r ids.
Heavy(n, parent, rank) ==
  \A i \in Ids(n) : parent[i] = i => 2^rank[i] <= Cardinality(Members(n, parent, i))

\* There are finitely many.
LEMMA MembersCount ==
  ASSUME NEW n \in Nat, NEW parent, NEW i
  PROVE  /\ IsFiniteSet(Members(n, parent, i))
         /\ Cardinality(Members(n, parent, i)) \in Nat
<1>1. IsFiniteSet(Ids(n))
  BY FS_Interval DEF Ids
<1>2. Members(n, parent, i) \subseteq Ids(n)
  BY DEF Members
<1> QED
  BY <1>1, <1>2, FS_Subset, FS_CardinalityType

\* Finds do not change who is under whom.
LEMMA CompressHeavy ==
  ASSUME NEW n \in Nat, NEW parent, NEW rank, Forest(n, parent, rank),
         Heavy(n, parent, rank), NEW i \in Ids(n)
  PROVE  Heavy(n, Compress(parent, i), rank)
<1>1. PICK new : new = Compress(parent, i)
  OBVIOUS
<1>2. Forest(n, new, rank) /\ Root(new) = Root(parent)
  BY <1>1, CompressSound
<1>3. \A j \in Ids(n) : new[j] = j => parent[j] = j
  <2>1. \A j \in Ids(n) : new[j] = j => Root(new)[j] = j
    BY <1>2, Roots
  <2>2. \A j \in Ids(n) : Root(parent)[j] = j => parent[j] = j
    BY Roots
  <2> QED
    BY <1>2, <2>1, <2>2
<1>4. \A j : Members(n, new, j) = Members(n, parent, j)
  BY <1>2 DEF Members
<1> QED
  BY <1>1, <1>3, <1>4 DEF Heavy

\* A link of two trees of one rank has enough ids for the next.
LEMMA LinkHeavy ==
  ASSUME NEW n \in Nat, NEW parent, NEW rank, Forest(n, parent, rank),
         Heavy(n, parent, rank),
         NEW i \in Ids(n), NEW j \in Ids(n), parent[i] = i, parent[j] = j
  PROVE  LET next == Link(parent, rank, i, j) IN Heavy(n, next.parent, next.rank)
<1>1. PICK next, root, new, ranks :
        /\ next = Link(parent, rank, i, j) /\ root = Root(parent)
        /\ new = next.parent /\ ranks = next.rank
  OBVIOUS
<1>2. PICK r \in {i, j} :
        /\ Root(new) = Merged(root, i, j, r)
        /\ \A k \in Ids(n) \ {r} : ranks[k] = rank[k]
        /\ i # j /\ ranks[r] # rank[r] =>
             ranks[r] = rank[r] + 1 /\ rank[i] = rank[r] /\ rank[j] = rank[r]
        /\ i = j => ranks[r] = rank[r]
  BY <1>1, LinkSound
<1>3. Forest(n, new, ranks)
  BY <1>1, LinkSound
<1>4. /\ root \in [Ids(n) -> Ids(n)] /\ root[i] = i /\ root[j] = j
      /\ \A k \in Ids(n) : rank[k] \in Nat /\ (root[k] = k => parent[k] = k)
  BY <1>1, RootIs, Roots
<1>5. \A k \in Ids(n) : Root(new)[k] = IF root[k] \in {i, j} THEN r ELSE root[k]
  BY <1>2, <1>4 DEF Merged
<1>6. ASSUME NEW k \in Ids(n), new[k] = k
      PROVE  2^ranks[k] <= Cardinality(Members(n, new, k))
  <2>1. Root(new)[k] = k
    BY <1>3, <1>6, Roots
  <2>2. CASE k \notin {i, j}
    <3>1. root[k] = k /\ parent[k] = k /\ ranks[k] = rank[k]
      BY <1>2, <1>4, <1>5, <2>1, <2>2
    <3>2. Members(n, new, k) = Members(n, parent, k)
      BY <1>1, <1>2, <1>5, <2>2 DEF Members
    <3> QED
      BY <3>1, <3>2 DEF Heavy
  <2>3. CASE k \in {i, j}
    <3>1. k = r
      BY <1>4, <1>5, <2>1, <2>3
    <3>2. Members(n, new, r) = Members(n, parent, i) \cup Members(n, parent, j)
      BY <1>1, <1>2, <1>4, <1>5 DEF Members
    <3>3. /\ 2^rank[i] <= Cardinality(Members(n, parent, i))
          /\ 2^rank[j] <= Cardinality(Members(n, parent, j))
      BY DEF Heavy
    <3>4. CASE i = j
      BY <1>2, <3>1, <3>2, <3>3, <3>4
    <3>5. CASE i # j
      <4>1. Members(n, parent, i) \cap Members(n, parent, j) = {}
        BY <3>5 DEF Members
      <4>2. PICK a, b, c : /\ a = Cardinality(Members(n, parent, i))
                           /\ b = Cardinality(Members(n, parent, j))
                           /\ c = Cardinality(Members(n, new, r))
        OBVIOUS
      <4>3. a \in Nat /\ b \in Nat /\ c = a + b
        <5>1. c = a + b - Cardinality(Members(n, parent, i) \cap Members(n, parent, j))
          BY <3>2, <4>2, MembersCount, FS_Union
        <5>2. a \in Nat /\ b \in Nat
          BY <4>2, MembersCount
        <5>3. Cardinality({}) = 0
          BY FS_EmptySet
        <5>4. Cardinality(Members(n, parent, i) \cap Members(n, parent, j)) = 0
          BY <4>1, <5>3
        <5>5. c = a + b - 0
          BY <5>1, <5>4
        <5> QED
          BY <5>2, <5>5
      <4>4. CASE ranks[r] = rank[r]
        <5>1. 2^rank[r] <= a \/ 2^rank[r] <= b
          BY <3>3, <4>2
        <5>2. 2^rank[r] \in Nat
          BY <1>4, TwicePower
        <5> QED
          BY <3>1, <4>2, <4>3, <4>4, <5>1, <5>2
      <4>5. CASE ranks[r] # rank[r]
        <5>1. ranks[r] = rank[r] + 1 /\ rank[i] = rank[r] /\ rank[j] = rank[r]
          BY <1>2, <3>5, <4>5
        <5>2. 2^ranks[r] = 2^rank[r] + 2^rank[r] /\ 2^rank[r] \in Nat
          BY <1>4, <5>1, TwicePower
        <5>3. 2^rank[r] <= a /\ 2^rank[r] <= b
          BY <3>3, <4>2, <5>1
        <5> QED
          BY <3>1, <4>2, <4>3, <5>2, <5>3
      <4> QED
        BY <4>4, <4>5
    <3> QED
      BY <3>4, <3>5
  <2> QED
    BY <2>2, <2>3
<1> QED
  BY <1>1, <1>6 DEF Heavy

\* union_set: both trees under one of their roots, in a forest as shallow.
LEMMA UnionSetSound ==
  ASSUME NEW n \in Nat, NEW parent, NEW rank, Forest(n, parent, rank),
         Heavy(n, parent, rank), NEW i \in Ids(n), NEW j \in Ids(n)
  PROVE  LET next == UnionSet(parent, rank, i, j)
         IN  /\ Forest(n, next.parent, next.rank)
             /\ Heavy(n, next.parent, next.rank)
             /\ \E r \in {Root(parent)[i], Root(parent)[j]} :
                  Root(next.parent)
                    = Merged(Root(parent), Root(parent)[i], Root(parent)[j], r)
<1>1. PICK root, once, found : /\ root = Root(parent)
                               /\ once = Compress(parent, i)
                               /\ found = Compress(once, j)
  OBVIOUS
<1>2. Forest(n, once, rank) /\ Heavy(n, once, rank) /\ Root(once) = root
  BY <1>1, CompressSound, CompressHeavy
<1>3. Forest(n, found, rank) /\ Heavy(n, found, rank) /\ Root(found) = root
  BY <1>1, <1>2, CompressSound, CompressHeavy
<1>4. /\ root[i] \in Ids(n) /\ found[root[i]] = root[i]
      /\ root[j] \in Ids(n) /\ found[root[j]] = root[j]
  BY <1>3, Roots
<1>5. PICK linked, new, ranks : /\ linked = Link(found, rank, root[i], root[j])
                                /\ new = linked.parent /\ ranks = linked.rank
  OBVIOUS
<1>6. /\ Forest(n, new, ranks) /\ Heavy(n, new, ranks)
      /\ \E r \in {root[i], root[j]} : Root(new) = Merged(root, root[i], root[j], r)
  BY <1>3, <1>4, <1>5, LinkSound, LinkHeavy
<1>7. PICK last : last = Compress(new, i)
  OBVIOUS
<1>8. /\ Forest(n, last, ranks) /\ Heavy(n, last, ranks) /\ Root(last) = Root(new)
  BY <1>6, <1>7, CompressSound, CompressHeavy
<1>9. linked = [parent |-> new, rank |-> ranks]
  BY <1>5 DEF Link
<1>10. UnionSet(parent, rank, i, j) = [parent |-> last, rank |-> ranks]
  <2>1. UnionSet(parent, rank, i, j) = [linked EXCEPT !.parent = Compress(@, i)]
    BY <1>1, <1>3, <1>5 DEF UnionSet
  <2> QED
    BY <1>7, <1>9, <2>1
<1> QED
  BY <1>1, <1>6, <1>8, <1>10

(***************************************************************************)
(* Tables.                                                                 *)
(***************************************************************************)

\* The entries of the tables for n elements: one before there is an element.
Entries(n) == IF n = 0 THEN 1 ELSE n

\* The tables and ids of an object.
Store(parent, rank, id) == [parent |-> parent, rank |-> rank, id |-> id]

\* The ids number the elements, and the tables are a forest of theirs.
Numbers(id, n) ==
  /\ id \in [DOMAIN id -> Ids(n)]
  /\ \A e, f \in DOMAIN id : id[e] = id[f] => e = f
  /\ \A i \in Ids(n) : \E e \in DOMAIN id : id[e] = i

Sound(t) ==
  /\ t = Store(t.parent, t.rank, t.id)
  /\ DOMAIN t.id \subseteq Elem
  /\ \E n \in Nat : /\ Numbers(t.id, n)
                    /\ Forest(Entries(n), t.parent, t.rank)
                    /\ Heavy(Entries(n), t.parent, t.rank)

\* The representatives that the tables give.
Part(t) ==
  [e \in DOMAIN t.id |->
     CHOOSE f \in DOMAIN t.id : t.id[f] = Root(t.parent)[t.id[e]]]

(***************************************************************************)
(* The invariant.                                                          *)
(***************************************************************************)
StoreOf(o) == Store(heap[object[o].parent], heap[object[o].rank], object[o].id)

\* An object has two tables, or none when its value was moved away.
Tabled ==
  /\ object = [o \in DOMAIN object |-> object[o]]
  /\ heap = [b \in DOMAIN heap |-> heap[b]]
  /\ moved \subseteq Live
  /\ \A o \in Live :
       /\ object[o] = Fields(object[o].rank, object[o].parent, object[o].id, object[o].uf)
       /\ \/ object[o].rank \in Buffer /\ object[o].parent \in Buffer
             /\ object[o].rank # object[o].parent
          \/ o \in moved /\ object[o].rank = NoBuffer /\ object[o].parent = NoBuffer

UFInv ==
  /\ Tabled
  /\ PointersOwn
  /\ \A o \in Usable : Sound(StoreOf(o))

(***************************************************************************)
(* Calls.                                                                  *)
(***************************************************************************)
OwnBuffers(o) == IF o \in Live THEN Buffers(o) ELSE {}

\* A call that leaves o with tables at rank and parent, ids id and pointers to
\* those tables, and nothing else changed: new buffers, or the ones o had.
Assigns(o, rank, parent, id) ==
  /\ rank \in Free \cup OwnBuffers(o)
  /\ parent \in Free \cup OwnBuffers(o)
  /\ rank # parent
  /\ heap' = [b \in DOMAIN heap' |-> heap'[b]]
  /\ DOMAIN heap' = (DOMAIN heap \ OwnBuffers(o)) \cup {rank, parent}
  /\ \A b \in DOMAIN heap \ OwnBuffers(o) : heap'[b] = heap[b]
  /\ Assign(o, Fields(rank, parent, id, Pointers(rank, parent)))
  /\ moved' = moved \ {o}

\* The buffers of an object.
LEMMA BuffersOf ==
  ASSUME UFInv, NEW o
  PROVE  /\ o \in Live => Buffers(o) \subseteq Buffer \cap DOMAIN heap
         /\ OwnBuffers(o) \subseteq Buffer \cap DOMAIN heap
         /\ \A p \in Live \ {o} : Buffers(p) \cap OwnBuffers(o) = {}
         /\ o \in Usable =>
              /\ object[o].rank \in Buffer \cap DOMAIN heap
              /\ object[o].parent \in Buffer \cap DOMAIN heap
              /\ object[o].rank # object[o].parent
              /\ Buffers(o) = {object[o].rank, object[o].parent}
              /\ object[o] = Fields(object[o].rank, object[o].parent, object[o].id,
                                    Pointers(object[o].rank, object[o].parent))
<1>1. /\ \A p \in Live : \/ object[p].rank \in Buffer /\ object[p].parent \in Buffer
                            /\ object[p].rank # object[p].parent
                         \/ p \in moved /\ object[p].rank = NoBuffer
                            /\ object[p].parent = NoBuffer
      /\ \A p \in Live : object[p] = Fields(object[p].rank, object[p].parent,
                                            object[p].id, object[p].uf)
  BY DEF UFInv, Tabled
<1>2. /\ \A p \in Usable : object[p].uf = Pointers(object[p].rank, object[p].parent)
      /\ \A p \in Live : Buffers(p) \subseteq DOMAIN heap
      /\ \A p, q \in Live : p # q => Buffers(p) \cap Buffers(q) = {}
  BY DEF UFInv, PointersOwn, Tables
<1>3. \A p \in Live : Buffers(p) \subseteq Buffer \cap DOMAIN heap
  BY <1>1, <1>2 DEF Buffers
<1>4. \A p \in Live \ {o} : Buffers(p) \cap OwnBuffers(o) = {}
  BY <1>2 DEF OwnBuffers
<1>5. ASSUME o \in Usable
      PROVE  /\ object[o].rank \in Buffer /\ object[o].parent \in Buffer
             /\ object[o].rank # object[o].parent
             /\ Buffers(o) = {object[o].rank, object[o].parent}
             /\ Buffers(o) \subseteq DOMAIN heap
  <2>1. o \in Live /\ o \notin moved
    BY <1>5 DEF Usable
  <2>2. /\ object[o].rank \in Buffer /\ object[o].parent \in Buffer
        /\ object[o].rank # object[o].parent
    BY <1>1, <2>1
  <2> QED
    BY <1>2, <2>1, <2>2, NoBufferAssumption DEF Buffers
<1>6. o \in Usable => object[o] = Fields(object[o].rank, object[o].parent, object[o].id,
                                         Pointers(object[o].rank, object[o].parent))
  BY <1>1, <1>2 DEF Usable
<1> QED
  BY <1>3, <1>4, <1>5, <1>6 DEF OwnBuffers

\* Such a call keeps every object's tables its own, and sound if those of o are.
LEMMA Assigned ==
  ASSUME UFInv, NEW o, NEW rank, NEW parent, NEW id, Assigns(o, rank, parent, id),
         Sound(Store(heap'[parent], heap'[rank], id))
  PROVE  /\ UFInv'
         /\ Usable' = Usable \cup {o}
         /\ StoreOf(o)' = Store(heap'[parent], heap'[rank], id)
         /\ \A p \in Usable \ {o} : StoreOf(p)' = StoreOf(p)
<1> DEFINE new == Fields(rank, parent, id, Pointers(rank, parent))
<1>1. /\ Live' = Live \cup {o}
      /\ object' = [p \in Live \cup {o} |-> IF p = o THEN new ELSE object[p]]
      /\ object'[o] = new
      /\ \A p \in Live \ {o} : object'[p] = object[p]
  BY DEF Assigns, Assign, Live
<1>2. /\ new.rank = rank /\ new.parent = parent /\ new.id = id
      /\ new.uf = Pointers(rank, parent)
  BY DEF Fields
<1>3. /\ rank \in Buffer /\ parent \in Buffer /\ rank # parent
      /\ \A p \in Live \ {o} : rank \notin Buffers(p) /\ parent \notin Buffers(p)
      /\ rank # NoBuffer /\ parent # NoBuffer
  <2>1. OwnBuffers(o) \subseteq Buffer
    BY BuffersOf
  <2>2. \A p \in Live \ {o} : Buffers(p) \cap OwnBuffers(o) = {}
    BY BuffersOf
  <2>3. \A p \in Live : Buffers(p) \cap Free = {}
    BY DEF UFInv, PointersOwn, Free
  <2> QED
    BY <2>1, <2>2, <2>3, NoBufferAssumption DEF Assigns, Free
<1>4. Buffers(o)' = {rank, parent}
  BY <1>1, <1>2, <1>3 DEF Buffers
<1>5. \A p \in Live \ {o} : Buffers(p)' = Buffers(p)
  BY <1>1 DEF Buffers
<1>6. moved' = moved \ {o} /\ Usable' = Usable \cup {o}
  BY <1>1 DEF Assigns, Usable
<1>7. \A p \in Live \ {o} : Buffers(p) \subseteq DOMAIN heap \ OwnBuffers(o)
  <2>1. \A p \in Live \ {o} : Buffers(p) \cap OwnBuffers(o) = {}
    BY BuffersOf
  <2>2. \A p \in Live : Buffers(p) \subseteq DOMAIN heap
    BY DEF UFInv, PointersOwn
  <2> QED
    BY <2>1, <2>2
<1>8. \A p \in Live \ {o} : \A b \in Buffers(p) : heap'[b] = heap[b]
  BY <1>7 DEF Assigns
<1>9. StoreOf(o)' = Store(heap'[parent], heap'[rank], id)
  BY <1>1, <1>2 DEF StoreOf
<1>10. \A p \in Usable \ {o} : StoreOf(p)' = StoreOf(p)
  <2>1. TAKE p \in Usable \ {o}
  <2>2. object'[p] = object[p]
    BY <1>1 DEF Usable
  <2>3. object[p].rank \in Buffers(p) /\ object[p].parent \in Buffers(p)
    BY BuffersOf
  <2>4. heap'[object[p].rank] = heap[object[p].rank]
        /\ heap'[object[p].parent] = heap[object[p].parent]
    BY <1>8, <2>3 DEF Usable
  <2> QED
    BY <2>2, <2>4 DEF StoreOf
<1>11. Tabled'
  <2>1. object' = [p \in DOMAIN object' |-> object'[p]]
    BY <1>1
  <2>2. heap' = [b \in DOMAIN heap' |-> heap'[b]]
    BY DEF Assigns
  <2>3. moved' \subseteq Live'
    BY <1>1, <1>6 DEF UFInv, Tabled
  <2>4. /\ object'[o] = Fields(object'[o].rank, object'[o].parent, object'[o].id,
                               object'[o].uf)
        /\ object'[o].rank \in Buffer /\ object'[o].parent \in Buffer
        /\ object'[o].rank # object'[o].parent
    <3> HIDE DEF new
    <3>1. new = Fields(new.rank, new.parent, new.id, new.uf)
      BY <1>2 DEF new
    <3> QED
      BY <1>1, <1>2, <1>3, <3>1
  <2>5. ASSUME NEW p \in Live \ {o}
        PROVE  /\ object'[p] = Fields(object'[p].rank, object'[p].parent,
                                      object'[p].id, object'[p].uf)
               /\ \/ object'[p].rank \in Buffer /\ object'[p].parent \in Buffer
                     /\ object'[p].rank # object'[p].parent
                  \/ p \in moved' /\ object'[p].rank = NoBuffer
                     /\ object'[p].parent = NoBuffer
    <3>1. object'[p] = object[p] /\ (p \in moved => p \in moved')
      BY <1>1, <1>6
    <3>2. /\ object[p] = Fields(object[p].rank, object[p].parent, object[p].id,
                                object[p].uf)
          /\ \/ object[p].rank \in Buffer /\ object[p].parent \in Buffer
                /\ object[p].rank # object[p].parent
             \/ p \in moved /\ object[p].rank = NoBuffer /\ object[p].parent = NoBuffer
      BY DEF UFInv, Tabled
    <3> QED
      BY <3>1, <3>2
  <2> QED
    BY <1>1, <2>1, <2>2, <2>3, <2>4, <2>5 DEF Tabled
<1>12. PointersOwn'
  <2>1. ASSUME NEW p \in Usable' PROVE object'[p].uf = Tables(p)'
    <3>1. CASE p = o
      BY <1>1, <1>2, <3>1 DEF Tables
    <3>2. CASE p # o
      <4>1. p \in Usable /\ object'[p] = object[p]
        BY <1>1, <1>6, <3>2 DEF Usable
      <4>2. object[p].uf = Tables(p)
        BY <4>1 DEF UFInv, PointersOwn
      <4> QED
        BY <4>1, <4>2 DEF Tables
    <3> QED
      BY <3>1, <3>2
  <2>2. DOMAIN heap' = (DOMAIN heap \ OwnBuffers(o)) \cup {rank, parent}
    BY DEF Assigns
  <2>3. ASSUME NEW p \in Live' PROVE Buffers(p)' \subseteq DOMAIN heap'
    BY <1>1, <1>4, <1>5, <1>7, <2>2
  <2>4. ASSUME NEW p \in Live', NEW q \in Live', p # q
        PROVE  Buffers(p)' \cap Buffers(q)' = {}
    <3>1. \A s, t \in Live : s # t => Buffers(s) \cap Buffers(t) = {}
      BY DEF UFInv, PointersOwn
    <3> QED
      BY <1>1, <1>3, <1>4, <1>5, <2>4, <3>1
  <2>5. ASSUME NEW b \in DOMAIN heap' PROVE \E p \in Live' : b \in Buffers(p)'
    <3>1. CASE b \in {rank, parent}
      BY <1>1, <1>4, <3>1
    <3>2. CASE b \in DOMAIN heap \ OwnBuffers(o)
      <4>1. PICK p \in Live : b \in Buffers(p)
        BY <3>2 DEF UFInv, PointersOwn
      <4>2. p # o
        BY <3>2, <4>1 DEF OwnBuffers
      <4> QED
        BY <1>1, <1>5, <4>1, <4>2
    <3> QED
      BY <2>2, <3>1, <3>2
  <2>6. DOMAIN heap' = UNION {Buffers(p)' : p \in Live'}
    BY <2>3, <2>5
  <2> QED
    BY <2>1, <2>3, <2>4, <2>6 DEF PointersOwn
<1>13. \A p \in Usable' : Sound(StoreOf(p)')
  BY <1>6, <1>9, <1>10 DEF UFInv
<1> QED
  BY <1>6, <1>9, <1>10, <1>11, <1>12, <1>13 DEF UFInv

\* A call that moves the value of p to o, which gets its tables, and leaves p
\* with the fields left: the tables o had, if any.
Moves(o, p, left) ==
  /\ p \in Usable
  /\ o # p
  /\ left = Fields(left.rank, left.parent, left.id, left.uf)
  /\ \/ o \in Live /\ left.rank = object[o].rank /\ left.parent = object[o].parent
     \/ o \notin Live /\ left.rank = NoBuffer /\ left.parent = NoBuffer
  /\ object' = [q \in Live \cup {o} |->
       IF q = o THEN Fields(object[p].rank, object[p].parent, object[p].id,
                            Pointers(object[p].rank, object[p].parent))
       ELSE IF q = p THEN left ELSE object[q]]
  /\ moved' = (moved \ {o}) \cup {p}
  /\ UNCHANGED heap

\* Such a call gives every buffer an owner again, and o the store of p.
LEMMA Moved ==
  ASSUME UFInv, NEW o, NEW p, NEW left, Moves(o, p, left)
  PROVE  /\ UFInv'
         /\ Usable' = (Usable \cup {o}) \ {p}
         /\ StoreOf(o)' = StoreOf(p)
         /\ \A q \in Usable \ {o, p} : StoreOf(q)' = StoreOf(q)
<1> DEFINE new == Fields(object[p].rank, object[p].parent, object[p].id,
                         Pointers(object[p].rank, object[p].parent))
<1>1. /\ p \in Live /\ p \notin moved /\ o # p
      /\ Live' = Live \cup {o} /\ heap' = heap
      /\ object' = [q \in DOMAIN object' |-> object'[q]]
      /\ object'[o] = new /\ object'[p] = left
      /\ \A q \in Live \ {o, p} : object'[q] = object[q]
  BY DEF Moves, Live, Usable
<1>2. /\ new.rank = object[p].rank /\ new.parent = object[p].parent
      /\ new.id = object[p].id /\ new.uf = Pointers(new.rank, new.parent)
      /\ new = Fields(new.rank, new.parent, new.id, new.uf)
  BY DEF Fields
<1> HIDE DEF new
<1>3. /\ object[p].rank \in Buffer /\ object[p].parent \in Buffer
      /\ object[p].rank # object[p].parent
      /\ Buffers(p) = {object[p].rank, object[p].parent}
  BY BuffersOf DEF Moves
<1>4. Buffers(o)' = Buffers(p)
  BY <1>1, <1>2 DEF Buffers
<1>5. Buffers(p)' = OwnBuffers(o)
  BY <1>1 DEF Moves, Buffers, OwnBuffers
<1>6. \A q \in Live \ {o, p} : Buffers(q)' = Buffers(q)
  BY <1>1 DEF Buffers
<1>7. moved' = (moved \ {o}) \cup {p} /\ Usable' = (Usable \cup {o}) \ {p}
  BY <1>1 DEF Moves, Usable
<1>8. StoreOf(o)' = StoreOf(p)
  BY <1>1, <1>2 DEF StoreOf
<1>9. \A q \in Usable \ {o, p} : StoreOf(q)' = StoreOf(q)
  BY <1>1 DEF StoreOf, Usable
<1>10. Tabled'
  <2>1. heap' = [b \in DOMAIN heap' |-> heap'[b]]
    BY <1>1 DEF UFInv, Tabled
  <2>2. moved' \subseteq Live'
    BY <1>1, <1>7 DEF UFInv, Tabled
  <2>3. /\ left = Fields(left.rank, left.parent, left.id, left.uf)
        /\ \/ left.rank \in Buffer /\ left.parent \in Buffer /\ left.rank # left.parent
           \/ p \in moved' /\ left.rank = NoBuffer /\ left.parent = NoBuffer
    BY <1>7 DEF Moves, UFInv, Tabled
  <2>4. ASSUME NEW q \in Live \ {o, p}
        PROVE  /\ object'[q] = Fields(object'[q].rank, object'[q].parent,
                                      object'[q].id, object'[q].uf)
               /\ \/ object'[q].rank \in Buffer /\ object'[q].parent \in Buffer
                     /\ object'[q].rank # object'[q].parent
                  \/ q \in moved' /\ object'[q].rank = NoBuffer
                     /\ object'[q].parent = NoBuffer
    <3>1. object'[q] = object[q] /\ (q \in moved => q \in moved')
      BY <1>1, <1>7
    <3>2. /\ object[q] = Fields(object[q].rank, object[q].parent, object[q].id,
                                object[q].uf)
          /\ \/ object[q].rank \in Buffer /\ object[q].parent \in Buffer
                /\ object[q].rank # object[q].parent
             \/ q \in moved /\ object[q].rank = NoBuffer /\ object[q].parent = NoBuffer
      BY DEF UFInv, Tabled
    <3> QED
      BY <3>1, <3>2
  <2> QED
    BY <1>1, <1>2, <1>3, <2>1, <2>2, <2>3, <2>4 DEF Tabled
<1>11. PointersOwn'
  <2>1. ASSUME NEW q \in Usable' PROVE object'[q].uf = Tables(q)'
    <3>1. CASE q = o
      BY <1>1, <1>2, <3>1 DEF Tables
    <3>2. CASE q # o
      <4>1. q \in Usable /\ object'[q] = object[q]
        BY <1>1, <1>7, <3>2 DEF Usable
      <4>2. object[q].uf = Tables(q)
        BY <4>1 DEF UFInv, PointersOwn
      <4> QED
        BY <4>1, <4>2 DEF Tables
    <3> QED
      BY <3>1, <3>2
  <2>2. /\ \A q \in Live : Buffers(q) \subseteq DOMAIN heap
        /\ \A q, s \in Live : q # s => Buffers(q) \cap Buffers(s) = {}
        /\ DOMAIN heap = UNION {Buffers(q) : q \in Live}
    BY DEF UFInv, PointersOwn
  <2>3. \A q \in Live' : Buffers(q)' \subseteq DOMAIN heap'
    BY <1>1, <1>4, <1>5, <1>6, <2>2 DEF OwnBuffers
  <2>4. \A q, s \in Live' : q # s => Buffers(q)' \cap Buffers(s)' = {}
    BY <1>1, <1>4, <1>5, <1>6, <2>2 DEF OwnBuffers
  <2>5. ASSUME NEW b \in DOMAIN heap' PROVE \E q \in Live' : b \in Buffers(q)'
    <3>1. PICK q \in Live : b \in Buffers(q)
      BY <1>1, <2>2
    <3> QED
      BY <1>1, <1>4, <1>5, <1>6, <3>1 DEF OwnBuffers
  <2>6. DOMAIN heap' = UNION {Buffers(q)' : q \in Live'}
    BY <2>3, <2>5
  <2> QED
    BY <2>1, <2>3, <2>4, <2>6 DEF PointersOwn
<1>12. \A q \in Usable' : Sound(StoreOf(q)')
  <2>1. \A q \in Usable : Sound(StoreOf(q))
    BY DEF UFInv
  <2>2. p \in Usable
    BY DEF Moves
  <2> QED
    BY <1>7, <1>8, <1>9, <2>1, <2>2
<1> QED
  BY <1>7, <1>8, <1>9, <1>10, <1>11, <1>12 DEF UFInv

\* A destroyed object frees its buffers and no other.
LEMMA Destroyed ==
  ASSUME UFInv, NEW o, Destroy(o)
  PROVE  /\ UFInv'
         /\ Usable' = Usable \ {o}
         /\ \A p \in Usable \ {o} : StoreOf(p)' = StoreOf(p)
<1>1. /\ o \in Live /\ Live' = Live \ {o} /\ moved' = moved \ {o}
      /\ object' = [p \in DOMAIN object' |-> object'[p]]
      /\ \A p \in Live \ {o} : object'[p] = object[p]
  BY DEF Destroy, Live
<1>2. /\ DOMAIN heap' = DOMAIN heap \ Buffers(o)
      /\ heap' = [b \in DOMAIN heap' |-> heap'[b]]
      /\ \A b \in DOMAIN heap \ Buffers(o) : heap'[b] = heap[b]
  BY DEF Destroy, Written
<1>3. Usable' = Usable \ {o}
  BY <1>1 DEF Usable
<1>4. \A p \in Live \ {o} : Buffers(p)' = Buffers(p)
  BY <1>1 DEF Buffers
<1>5. /\ \A p \in Live : Buffers(p) \subseteq DOMAIN heap
      /\ \A p, q \in Live : p # q => Buffers(p) \cap Buffers(q) = {}
      /\ DOMAIN heap = UNION {Buffers(p) : p \in Live}
  BY DEF UFInv, PointersOwn
<1>6. \A p \in Usable \ {o} : StoreOf(p)' = StoreOf(p)
  <2>1. TAKE p \in Usable \ {o}
  <2>2. object[p].rank \in Buffers(p) /\ object[p].parent \in Buffers(p)
    BY BuffersOf
  <2>3. p \in Live \ {o}
    BY DEF Usable
  <2> QED
    BY <1>1, <1>2, <1>5, <2>2, <2>3 DEF StoreOf
<1>7. Tabled'
  <2>1. moved' \subseteq Live'
    BY <1>1 DEF UFInv, Tabled
  <2>2. ASSUME NEW p \in Live'
        PROVE  /\ object'[p] = Fields(object'[p].rank, object'[p].parent,
                                      object'[p].id, object'[p].uf)
               /\ \/ object'[p].rank \in Buffer /\ object'[p].parent \in Buffer
                     /\ object'[p].rank # object'[p].parent
                  \/ p \in moved' /\ object'[p].rank = NoBuffer
                     /\ object'[p].parent = NoBuffer
    <3>1. p \in Live /\ object'[p] = object[p] /\ (p \in moved => p \in moved')
      BY <1>1
    <3>2. /\ object[p] = Fields(object[p].rank, object[p].parent, object[p].id,
                                object[p].uf)
          /\ \/ object[p].rank \in Buffer /\ object[p].parent \in Buffer
                /\ object[p].rank # object[p].parent
             \/ p \in moved /\ object[p].rank = NoBuffer /\ object[p].parent = NoBuffer
      BY <3>1 DEF UFInv, Tabled
    <3> QED
      BY <3>1, <3>2
  <2> QED
    BY <1>1, <1>2, <2>1, <2>2 DEF Tabled
<1>8. PointersOwn'
  <2>1. ASSUME NEW p \in Usable' PROVE object'[p].uf = Tables(p)'
    <3>1. p \in Usable /\ object'[p] = object[p]
      BY <1>1, <1>3 DEF Usable
    <3>2. object[p].uf = Tables(p)
      BY <3>1 DEF UFInv, PointersOwn
    <3> QED
      BY <3>1, <3>2 DEF Tables
  <2>2. \A p \in Live' : Buffers(p)' \subseteq DOMAIN heap'
    BY <1>1, <1>2, <1>4, <1>5
  <2>3. \A p, q \in Live' : p # q => Buffers(p)' \cap Buffers(q)' = {}
    BY <1>1, <1>4, <1>5
  <2>4. ASSUME NEW b \in DOMAIN heap' PROVE \E p \in Live' : b \in Buffers(p)'
    BY <1>1, <1>2, <1>4, <1>5
  <2>5. DOMAIN heap' = UNION {Buffers(p)' : p \in Live'}
    BY <2>2, <2>4
  <2> QED
    BY <2>1, <2>2, <2>3, <2>5 DEF PointersOwn
<1>9. \A p \in Usable' : Sound(StoreOf(p)')
  BY <1>3, <1>6 DEF UFInv
<1> QED
  BY <1>3, <1>6, <1>7, <1>8, <1>9 DEF UFInv

(***************************************************************************)
(* What the calls do to one object's tables.                               *)
(***************************************************************************)

\* A root of rank 0 is heavy enough: it is under itself.
LEMMA LoneRoot ==
  ASSUME NEW n \in Nat, NEW parent, NEW rank, Forest(n, parent, rank),
         NEW i \in Ids(n), parent[i] = i, rank[i] = 0
  PROVE  2^rank[i] <= Cardinality(Members(n, parent, i))
<1>1. 2^0 = 1
  <2>1. Cardinality(SUBSET {}) = 2^Cardinality({})
    BY FS_EmptySet, FS_SUBSET
  <2>2. SUBSET {} = {{}}
    OBVIOUS
  <2> QED
    BY <2>1, <2>2, FS_EmptySet, FS_Singleton
<1>2. i \in Members(n, parent, i)
  BY Roots DEF Members
<1>3. PICK c \in Nat : c = Cardinality(Members(n, parent, i))
  BY MembersCount
<1>4. c # 0
  BY <1>2, <1>3, MembersCount, FS_EmptySet
<1> QED
  BY <1>1, <1>3, <1>4

\* There are as many ids as elements.
LEMMA IdsCount ==
  ASSUME NEW n \in Nat, NEW id, Numbers(id, n)
  PROVE  IsFiniteSet(DOMAIN id) /\ Cardinality(DOMAIN id) = n
<1>1. IsFiniteSet(Ids(n)) /\ Cardinality(Ids(n)) = n
  BY FS_Interval DEF Ids
<1>2. id \in Bijection(DOMAIN id, Ids(n))
  BY Fun_IsBij DEF Numbers
<1>3. ExistsBijection(Ids(n), DOMAIN id)
  BY <1>2, Fun_ExistsBijSymmetric DEF ExistsBijection
<1> QED
  BY <1>1, <1>3, FS_Bijection

\* The representatives are a function on the elements.
LEMMA PartFunction ==
  ASSUME NEW t
  PROVE  Part(t) = [e \in DOMAIN t.id |-> Part(t)[e]]
<1> DEFINE rep(e) == CHOOSE f \in DOMAIN t.id : t.id[f] = Root(t.parent)[t.id[e]]
<1>1. Part(t) = [e \in DOMAIN t.id |-> rep(e)]
  BY DEF Part
<1> HIDE DEF rep
<1> QED
  BY <1>1

\* An element's id has an entry, and its representative the id of its root.
LEMMA PartIs ==
  ASSUME NEW n \in Nat, NEW t, Numbers(t.id, n), Forest(Entries(n), t.parent, t.rank),
         NEW e \in DOMAIN t.id
  PROVE  /\ n # 0 /\ Entries(n) = n
         /\ t.id[e] \in Ids(n)
         /\ Root(t.parent)[t.id[e]] \in Ids(n)
         /\ Part(t)[e] \in DOMAIN t.id
         /\ t.id[Part(t)[e]] = Root(t.parent)[t.id[e]]
         /\ \A f \in DOMAIN t.id :
              t.id[f] = Root(t.parent)[t.id[e]] => f = Part(t)[e]
<1>1. t.id[e] \in Ids(n)
  BY DEF Numbers
<1>2. n # 0 /\ Entries(n) = n
  BY <1>1 DEF Ids, Entries
<1>3. PICK root : root = Root(t.parent)
  OBVIOUS
<1>4. root[t.id[e]] \in Ids(n)
  BY <1>1, <1>2, <1>3, Roots
<1>5. PICK f \in DOMAIN t.id : t.id[f] = root[t.id[e]]
  BY <1>4 DEF Numbers
<1>6. Part(t)[e] = CHOOSE g \in DOMAIN t.id : t.id[g] = root[t.id[e]]
  BY <1>3 DEF Part
<1>7. Part(t)[e] \in DOMAIN t.id /\ t.id[Part(t)[e]] = root[t.id[e]]
  BY <1>5, <1>6
<1>8. \A g \in DOMAIN t.id : t.id[g] = root[t.id[e]] => g = Part(t)[e]
  BY <1>7 DEF Numbers
<1> QED
  BY <1>1, <1>2, <1>3, <1>4, <1>7, <1>8

\* The table in which every id is a root.
Singles(n) == [i \in Ids(n) |-> i]

\* Tables as make_set leaves them are sound, and each element is alone.
LEMMA FreshSound ==
  ASSUME NEW n \in Nat, NEW id, Numbers(id, n), DOMAIN id \subseteq Elem,
         NEW t, t = Store(Singles(Entries(n)), Zeros(Entries(n)), id)
  PROVE  Sound(t) /\ Part(t) = [e \in DOMAIN id |-> e]
<1>1. t.parent = Singles(Entries(n)) /\ t.rank = Zeros(Entries(n)) /\ t.id = id
  BY DEF Store
<1>2. PICK m \in Nat : m = Entries(n)
  BY DEF Entries
<1>3. PICK parent, rank : parent = Singles(m) /\ rank = Zeros(m)
  OBVIOUS
<1>4. /\ parent \in [Ids(m) -> Ids(m)] /\ rank \in [Ids(m) -> Nat]
      /\ \A i \in Ids(m) : parent[i] = i /\ rank[i] = 0
  BY <1>3 DEF Singles, Zeros, Ids
<1>5. Forest(m, parent, rank)
  BY <1>4 DEF Forest
<1>6. Heavy(m, parent, rank)
  BY <1>4, <1>5, LoneRoot DEF Heavy
<1>7. Sound(t)
  BY <1>1, <1>2, <1>3, <1>5, <1>6 DEF Sound, Store
<1>8. ASSUME NEW e \in DOMAIN id PROVE Part(t)[e] = e
  <2>1. m = n /\ id[e] \in Ids(n)
    BY <1>1, <1>2, <1>3, <1>5, PartIs
  <2>2. Root(parent)[id[e]] = id[e]
    BY <1>4, <1>5, <2>1, Roots
  <2> QED
    BY <1>1, <1>2, <1>3, <1>5, <2>2, PartIs
<1>9. Part(t) = [e \in DOMAIN t.id |-> Part(t)[e]]
  BY PartFunction
<1> QED
  BY <1>1, <1>7, <1>8, <1>9

\* find_set changes no representative.
LEMMA FindSound ==
  ASSUME NEW t, Sound(t), NEW e \in DOMAIN t.id,
         NEW s, s = Store(Compress(t.parent, t.id[e]), t.rank, t.id)
  PROVE  Sound(s) /\ Part(s) = Part(t)
<1>1. s.parent = Compress(t.parent, t.id[e]) /\ s.rank = t.rank /\ s.id = t.id
  BY DEF Store
<1>2. PICK n \in Nat : /\ Numbers(t.id, n)
                       /\ Forest(Entries(n), t.parent, t.rank)
                       /\ Heavy(Entries(n), t.parent, t.rank)
  BY DEF Sound
<1>3. Entries(n) = n /\ t.id[e] \in Ids(n)
  BY <1>2, PartIs
<1>4. /\ Forest(n, s.parent, s.rank) /\ Root(s.parent) = Root(t.parent)
      /\ Heavy(n, s.parent, s.rank)
  BY <1>1, <1>2, <1>3, CompressSound, CompressHeavy
<1>5. Sound(s)
  BY <1>1, <1>2, <1>3, <1>4 DEF Sound, Store
<1>6. Part(s) = Part(t)
  BY <1>1, <1>4 DEF Part
<1> QED
  BY <1>5, <1>6

\* One of two representatives stands for both classes.
United(part, new, a, b) ==
  \E r \in {part[a], part[b]} :
    new = [k \in DOMAIN part |-> IF part[k] \in {part[a], part[b]} THEN r ELSE part[k]]

\* union_set lets one of the two representatives stand for both classes.
LEMMA UnionSound ==
  ASSUME NEW t, Sound(t), NEW a \in DOMAIN t.id, NEW b \in DOMAIN t.id,
         NEW next, next = UnionSet(t.parent, t.rank, t.id[a], t.id[b]),
         NEW s, s = Store(next.parent, next.rank, t.id)
  PROVE  Sound(s) /\ United(Part(t), Part(s), a, b)
<1>1. s.parent = next.parent /\ s.rank = next.rank /\ s.id = t.id
  BY DEF Store
<1>2. PICK n \in Nat : /\ Numbers(t.id, n)
                       /\ Forest(Entries(n), t.parent, t.rank)
                       /\ Heavy(Entries(n), t.parent, t.rank)
  BY DEF Sound
<1>3. PICK root, part : root = Root(t.parent) /\ part = Part(t)
  OBVIOUS
<1>4. Entries(n) = n /\ t.id[a] \in Ids(n) /\ t.id[b] \in Ids(n)
  BY <1>2, PartIs
<1>5. /\ Forest(n, s.parent, s.rank) /\ Heavy(n, s.parent, s.rank)
      /\ \E r \in {root[t.id[a]], root[t.id[b]]} :
           Root(s.parent) = Merged(root, root[t.id[a]], root[t.id[b]], r)
  BY <1>1, <1>2, <1>3, <1>4, UnionSetSound
<1>6. Sound(s)
  BY <1>1, <1>2, <1>4, <1>5 DEF Sound, Store
<1>7. \A k \in DOMAIN t.id :
        /\ t.id[k] \in Ids(n) /\ part[k] \in DOMAIN t.id
        /\ t.id[part[k]] = root[t.id[k]]
  BY <1>2, <1>3, PartIs
<1>8. PICK r \in {part[a], part[b]} :
        Root(s.parent) = Merged(root, root[t.id[a]], root[t.id[b]], t.id[r])
  BY <1>5, <1>7
<1>9. root \in [Ids(n) -> Ids(n)]
  BY <1>2, <1>3, <1>4, RootIs
<1>10. ASSUME NEW k \in DOMAIN t.id
       PROVE  Part(s)[k] = IF part[k] \in {part[a], part[b]} THEN r ELSE part[k]
  <2>1. Root(s.parent)[t.id[k]] = IF root[t.id[k]] \in {root[t.id[a]], root[t.id[b]]}
                                  THEN t.id[r] ELSE root[t.id[k]]
    BY <1>7, <1>8, <1>9 DEF Merged
  <2>2. root[t.id[k]] \in {root[t.id[a]], root[t.id[b]]}
          <=> part[k] \in {part[a], part[b]}
    <3>1. \A x, y \in DOMAIN t.id : t.id[x] = t.id[y] => x = y
      BY <1>2 DEF Numbers
    <3> QED
      BY <1>7, <3>1
  <2>3. PICK q : q = IF part[k] \in {part[a], part[b]} THEN r ELSE part[k]
    OBVIOUS
  <2>4. q \in DOMAIN t.id /\ t.id[q] = Root(s.parent)[t.id[k]]
    <3>1. part[a] \in DOMAIN t.id /\ part[b] \in DOMAIN t.id
      BY <1>7
    <3>2. CASE part[k] \in {part[a], part[b]}
      <4>1. q = r /\ Root(s.parent)[t.id[k]] = t.id[r]
        BY <2>1, <2>2, <2>3, <3>2
      <4> QED
        BY <3>1, <4>1
    <3>3. CASE part[k] \notin {part[a], part[b]}
      <4>1. q = part[k] /\ Root(s.parent)[t.id[k]] = root[t.id[k]]
        BY <2>1, <2>2, <2>3, <3>3
      <4> QED
        BY <1>7, <4>1
    <3> QED
      BY <3>2, <3>3
  <2>5. \A f \in DOMAIN t.id : t.id[f] = Root(s.parent)[t.id[k]] => f = Part(s)[k]
    <3>1. Numbers(s.id, n) /\ Forest(Entries(n), s.parent, s.rank) /\ k \in DOMAIN s.id
      BY <1>1, <1>2, <1>4, <1>5
    <3>2. \A f \in DOMAIN s.id : s.id[f] = Root(s.parent)[s.id[k]] => f = Part(s)[k]
      BY <3>1, PartIs
    <3> QED
      BY <1>1, <3>2
  <2>6. q = Part(s)[k]
    BY <2>4, <2>5
  <2> QED
    BY <2>3, <2>6
<1>11. Part(s) = [k \in DOMAIN s.id |-> Part(s)[k]]
  BY PartFunction
<1>12. DOMAIN part = DOMAIN t.id
  BY <1>3, PartFunction
<1>13. Part(s) = [k \in DOMAIN part |->
                    IF part[k] \in {part[a], part[b]} THEN r ELSE part[k]]
  BY <1>1, <1>10, <1>11, <1>12
<1>14. United(part, Part(s), a, b)
  BY <1>13 DEF United
<1> QED
  BY <1>3, <1>6, <1>14

\* The ids once e has the next one, and the tables of n ids and of the next one.
WithNext(id, n, e) == [f \in DOMAIN id \cup {e} |-> IF f = e THEN n ELSE id[f]]

ParentsWith(parent, n) == [i \in Ids(n + 1) |-> IF i = n THEN n ELSE parent[i]]

RanksWith(rank, n) == [i \in Ids(n + 1) |-> IF i = n THEN 0 ELSE rank[i]]

\* A new element is a class of its own in tables of one more entry.
LEMMA AddSound ==
  ASSUME NEW t, Sound(t), NEW e \in Elem, e \notin DOMAIN t.id,
         NEW n \in Nat, Numbers(t.id, n), Forest(Entries(n), t.parent, t.rank),
         Heavy(Entries(n), t.parent, t.rank),
         NEW s, s = Store(ParentsWith(t.parent, n), RanksWith(t.rank, n),
                          WithNext(t.id, n, e))
  PROVE  /\ Sound(s)
         /\ Part(s) = [k \in DOMAIN t.id \cup {e} |->
                         IF k \in DOMAIN t.id THEN Part(t)[k] ELSE e]
<1>1. PICK parent, rank, id, m : /\ parent = ParentsWith(t.parent, n)
                                 /\ rank = RanksWith(t.rank, n)
                                 /\ id = WithNext(t.id, n, e)
                                 /\ m = n + 1
  OBVIOUS
<1>2. s.parent = parent /\ s.rank = rank /\ s.id = id
  BY <1>1 DEF Store
<1>3. /\ m \in Nat /\ Entries(m) = m /\ n \in Ids(m)
      /\ \A i \in Ids(m) : i = n \/ (i \in Ids(n) /\ Entries(n) = n)
      /\ \A i \in Ids(n) : i \in Ids(m) /\ i # n /\ i \in Ids(Entries(n))
      /\ Entries(n) \in Nat
  <2>1. m \in Nat /\ m # 0 /\ m = n + 1
    BY <1>1
  <2>2. Entries(m) = m /\ Entries(n) \in Nat /\ (n # 0 => Entries(n) = n)
    BY <2>1 DEF Entries
  <2>3. n \in Ids(m) /\ \A i \in Ids(n) : i \in Ids(m) /\ i # n
    BY <2>1 DEF Ids
  <2>4. (\E i \in Ids(n) : TRUE) => n # 0
    BY DEF Ids
  <2>5. \A i \in Ids(m) : i = n \/ i \in Ids(n)
    BY <2>1 DEF Ids
  <2>6. ASSUME NEW i \in Ids(n) PROVE Entries(n) = n /\ i \in Ids(Entries(n))
    <3>1. Entries(n) = n
      BY <2>2, <2>4
    <3> QED
      BY <3>1
  <2>7. \A i \in Ids(m) : i = n \/ (i \in Ids(n) /\ Entries(n) = n)
    BY <2>5, <2>6
  <2> QED
    BY <2>1, <2>2, <2>3, <2>6, <2>7
<1>4. /\ t.parent \in [Ids(Entries(n)) -> Ids(Entries(n))]
      /\ t.rank \in [Ids(Entries(n)) -> Nat]
      /\ \A i \in Ids(Entries(n)) : t.parent[i] # i => t.rank[i] < t.rank[t.parent[i]]
  BY DEF Forest
<1>5. /\ parent = [i \in Ids(m) |-> IF i = n THEN n ELSE t.parent[i]]
      /\ rank = [i \in Ids(m) |-> IF i = n THEN 0 ELSE t.rank[i]]
      /\ id = [f \in DOMAIN t.id \cup {e} |-> IF f = e THEN n ELSE t.id[f]]
  BY <1>1 DEF ParentsWith, RanksWith, WithNext
<1>6. \A i \in Ids(n) : /\ t.parent[i] \in Ids(n) /\ parent[i] = t.parent[i]
                        /\ t.rank[i] \in Nat /\ rank[i] = t.rank[i]
  BY <1>3, <1>4, <1>5
<1>7. Forest(m, parent, rank)
  <2>1. parent \in [Ids(m) -> Ids(m)]
    BY <1>3, <1>5, <1>6
  <2>2. rank \in [Ids(m) -> Nat]
    BY <1>3, <1>5, <1>6
  <2>3. ASSUME NEW i \in Ids(m), parent[i] # i PROVE rank[i] < rank[parent[i]]
    <3>1. i # n
      BY <1>3, <1>5, <2>3
    <3>2. i \in Ids(n) /\ i \in Ids(Entries(n))
      BY <1>3, <3>1
    <3> QED
      BY <1>4, <1>6, <2>3, <3>2
  <2> QED
    BY <2>1, <2>2, <2>3 DEF Forest
<1>8. PICK root, new : root = Root(t.parent) /\ new = Root(parent)
  OBVIOUS
<1>9. /\ \A i \in Ids(n) : /\ root[i] \in Ids(n)
                           /\ t.parent[i] = i => root[i] = i
                           /\ t.parent[i] # i => root[i] = root[t.parent[i]]
      /\ new \in [Ids(m) -> Ids(m)]
      /\ \A g : IsRoot(parent, g) => g = new
  <2>1. /\ new \in [Ids(m) -> Ids(m)]
        /\ \A g : IsRoot(parent, g) => g = new
    BY <1>3, <1>7, <1>8, RootIs
  <2>2. ASSUME NEW i \in Ids(n)
        PROVE  /\ root[i] \in Ids(n)
               /\ t.parent[i] = i => root[i] = i
               /\ t.parent[i] # i => root[i] = root[t.parent[i]]
    BY <1>3, <1>8, Roots
  <2> QED
    BY <2>1, <2>2
<1>10. new = [i \in Ids(m) |-> IF i = n THEN n ELSE root[i]]
  <2>1. PICK g : g = [i \in Ids(m) |-> IF i = n THEN n ELSE root[i]]
    OBVIOUS
  <2>2. DOMAIN parent = Ids(m) /\ g = [i \in Ids(m) |-> g[i]] /\ n \in Ids(m)
    BY <1>3, <1>5, <2>1
  <2>3. ASSUME NEW i \in Ids(m)
        PROVE  g[i] = IF parent[i] = i THEN i ELSE g[parent[i]]
    <3>1. CASE i = n
      BY <1>3, <1>5, <2>1, <3>1
    <3>2. CASE i # n
      <4>1. i \in Ids(n)
        BY <1>3, <3>2
      <4>2. /\ parent[i] = t.parent[i] /\ t.parent[i] \in Ids(n)
            /\ g[i] = root[i] /\ g[t.parent[i]] = root[t.parent[i]]
        BY <1>3, <1>6, <2>1, <4>1
      <4> QED
        BY <1>9, <4>1, <4>2
    <3> QED
      BY <3>1, <3>2
  <2>4. IsRoot(parent, g)
    BY <2>2, <2>3 DEF IsRoot
  <2> QED
    BY <1>9, <2>1, <2>4
<1>11. Heavy(m, parent, rank)
  <2>1. ASSUME NEW i \in Ids(m), parent[i] = i
        PROVE  2^rank[i] <= Cardinality(Members(m, parent, i))
    <3>1. CASE i = n
      <4>1. rank[i] = 0
        BY <1>3, <1>5, <3>1
      <4> QED
        BY <1>3, <1>7, <2>1, <4>1, LoneRoot
    <3>2. CASE i # n
      <4>1. i \in Ids(n) /\ i \in Ids(Entries(n)) /\ Entries(n) = n
        BY <1>3, <3>2
      <4>2. \A j : j \in Members(m, parent, i) <=> j \in Members(n, t.parent, i)
        <5>1. \A j : j \in Members(m, parent, i) <=> j \in Ids(m) /\ new[j] = i
          BY <1>8 DEF Members
        <5>2. \A j : j \in Members(n, t.parent, i) <=> j \in Ids(n) /\ root[j] = i
          BY <1>8 DEF Members
        <5>3. \A j \in Ids(m) : new[j] = IF j = n THEN n ELSE root[j]
          BY <1>10
        <5> QED
          BY <1>3, <3>2, <5>1, <5>2, <5>3
      <4>3. Members(m, parent, i) = Members(n, t.parent, i)
        BY <4>2
      <4>4. t.parent[i] = i /\ rank[i] = t.rank[i]
        BY <1>6, <2>1, <4>1
      <4>5. 2^t.rank[i] <= Cardinality(Members(n, t.parent, i))
        BY <4>1, <4>4 DEF Heavy
      <4> QED
        BY <4>3, <4>4, <4>5
    <3> QED
      BY <3>1, <3>2
  <2> QED
    BY <2>1 DEF Heavy
<1>12. Numbers(id, m)
  <2>1. /\ t.id \in [DOMAIN t.id -> Ids(n)]
        /\ \A f, g \in DOMAIN t.id : t.id[f] = t.id[g] => f = g
        /\ \A i \in Ids(n) : \E f \in DOMAIN t.id : t.id[f] = i
    BY DEF Numbers
  <2>2. \A f \in DOMAIN t.id : id[f] = t.id[f] /\ id[f] \in Ids(n) /\ f # e
    BY <1>5, <2>1
  <2>3. DOMAIN id = DOMAIN t.id \cup {e} /\ id[e] = n
    BY <1>5
  <2>4. id \in [DOMAIN id -> Ids(m)]
    BY <1>3, <1>5, <2>2, <2>3
  <2>5. \A f, g \in DOMAIN id : id[f] = id[g] => f = g
    BY <1>3, <2>1, <2>2, <2>3
  <2>6. \A i \in Ids(m) : \E f \in DOMAIN id : id[f] = i
    BY <1>3, <2>1, <2>2, <2>3
  <2> QED
    BY <2>4, <2>5, <2>6 DEF Numbers
<1>13. DOMAIN id = DOMAIN t.id \cup {e} /\ DOMAIN id \subseteq Elem
  BY <1>5 DEF Sound
<1>14. Sound(s)
  <2>1. s = Store(s.parent, s.rank, s.id)
    BY <1>1, <1>2
  <2> QED
    BY <1>2, <1>3, <1>7, <1>11, <1>12, <1>13, <2>1 DEF Sound
<1>15. ASSUME NEW k \in DOMAIN t.id PROVE Part(s)[k] = Part(t)[k]
  <2>1. /\ Entries(n) = n /\ t.id[k] \in Ids(n) /\ Part(t)[k] \in DOMAIN t.id
        /\ t.id[Part(t)[k]] = root[t.id[k]]
    BY <1>8, PartIs
  <2>2. id[k] = t.id[k] /\ id[Part(t)[k]] = root[t.id[k]] /\ new[id[k]] = root[t.id[k]]
    BY <1>3, <1>5, <1>10, <2>1
  <2>3. \A f \in DOMAIN s.id : s.id[f] = Root(s.parent)[s.id[k]] => f = Part(s)[k]
    <3>1. Numbers(s.id, m) /\ Forest(Entries(m), s.parent, s.rank) /\ k \in DOMAIN s.id
      BY <1>2, <1>3, <1>7, <1>12, <1>13
    <3> QED
      BY <1>3, <3>1, PartIs
  <2> QED
    BY <1>2, <1>8, <1>13, <2>1, <2>2, <2>3
<1>16. Part(s)[e] = e
  <2>1. id[e] = n /\ new[n] = n /\ e \in DOMAIN id
    BY <1>3, <1>5, <1>10
  <2>2. \A f \in DOMAIN s.id : s.id[f] = Root(s.parent)[s.id[e]] => f = Part(s)[e]
    <3>1. Numbers(s.id, m) /\ Forest(Entries(m), s.parent, s.rank) /\ e \in DOMAIN s.id
      BY <1>2, <1>3, <1>7, <1>12, <1>13
    <3> QED
      BY <1>3, <3>1, PartIs
  <2> QED
    BY <1>2, <1>8, <2>1, <2>2
<1>17. Part(s) = [k \in DOMAIN s.id |-> Part(s)[k]]
  BY PartFunction
<1>18. Part(s) = [k \in DOMAIN t.id \cup {e} |->
                    IF k \in DOMAIN t.id THEN Part(t)[k] ELSE e]
  BY <1>2, <1>13, <1>15, <1>16, <1>17
<1> QED
  BY <1>14, <1>18

\* Once there are elements, there is a root for every representative.
LEMMA RootsCount ==
  ASSUME NEW t, Sound(t), DOMAIN t.id # {}
  PROVE  Cardinality({i \in DOMAIN t.rank : t.parent[i] = i})
           = Cardinality({Part(t)[e] : e \in DOMAIN t.id})
<1>1. PICK n \in Nat : Numbers(t.id, n) /\ Forest(Entries(n), t.parent, t.rank)
  BY DEF Sound
<1>2. Entries(n) = n
  BY <1>1, PartIs
<1>3. DOMAIN t.rank = Ids(n)
  BY <1>1, <1>2 DEF Forest
<1>4. PICK root, part : root = Root(t.parent) /\ part = Part(t)
  OBVIOUS
<1> DEFINE S == {part[e] : e \in DOMAIN t.id}
           T == {i \in Ids(n) : t.parent[i] = i}
           g == [f \in S |-> t.id[f]]
<1>5. \A e \in DOMAIN t.id : /\ t.id[e] \in Ids(n) /\ root[t.id[e]] \in Ids(n)
                             /\ part[e] \in DOMAIN t.id
                             /\ t.id[part[e]] = root[t.id[e]]
                             /\ \A f \in DOMAIN t.id :
                                  t.id[f] = root[t.id[e]] => f = part[e]
  BY <1>1, <1>4, PartIs
<1>6. \A i \in Ids(n) : /\ t.parent[root[i]] = root[i]
                        /\ t.parent[i] = i => root[i] = i
  BY <1>1, <1>2, <1>4, Roots
<1>7. S \subseteq DOMAIN t.id
  BY <1>5
<1>8. g \in [S -> T]
  <2>1. ASSUME NEW f \in S PROVE t.id[f] \in T
    BY <1>5, <1>6
  <2> QED
    BY <2>1
<1>9. \A e, f \in S : g[e] = g[f] => e = f
  BY <1>1, <1>7 DEF Numbers
<1>10. \A i \in T : \E f \in S : g[f] = i
  <2>1. TAKE i \in T
  <2>2. PICK f \in DOMAIN t.id : t.id[f] = i
    BY <1>1 DEF Numbers
  <2>3. root[i] = i
    BY <1>6
  <2>4. f = part[f]
    BY <1>5, <2>2, <2>3
  <2>5. f \in S
    BY <2>4
  <2> QED
    BY <2>2, <2>5
<1>11. g \in Bijection(S, T)
  <2> HIDE DEF S, T, g
  <2> QED
    BY <1>8, <1>9, <1>10, Fun_IsBij
<1>12. IsFiniteSet(T)
  <2>1. IsFiniteSet(Ids(n))
    BY FS_Interval DEF Ids
  <2>2. T \in SUBSET Ids(n)
    OBVIOUS
  <2> QED
    BY <2>1, <2>2, FS_Subset
<1>13. Cardinality(S) = Cardinality(T)
  <2>1. ExistsBijection(T, S)
    BY <1>11, Fun_ExistsBijSymmetric DEF ExistsBijection
  <2> QED
    BY <1>12, <2>1, FS_Bijection
<1> QED
  BY <1>3, <1>4, <1>13

(***************************************************************************)
(* What the calls do to the partitions.                                    *)
(***************************************************************************)
Parts == [o \in Usable |-> Part(StoreOf(o))]

\* at() gives the representatives of the object's own tables.
LEMMA PartitionsAre == UFInv => Partitions = Parts
<1> SUFFICES ASSUME UFInv PROVE Partitions = Parts
  OBVIOUS
<1>1. ASSUME NEW o \in Usable PROVE [e \in Elems(o) |-> At(o, e)] = Part(StoreOf(o))
  <2>1. PICK id, parent : id = object[o].id /\ parent = heap[object[o].parent]
    OBVIOUS
  <2>2. object[o].uf.parent = object[o].parent
    <3>1. object[o].uf = Pointers(object[o].rank, object[o].parent)
      BY DEF UFInv, PointersOwn, Tables
    <3> QED
      BY <3>1 DEF Pointers
  <2>3. StoreOf(o).id = id /\ StoreOf(o).parent = parent
    BY <2>1 DEF StoreOf, Store
  <2>4. Elems(o) = DOMAIN id
    BY <2>1 DEF Elems
  <2>5. ASSUME NEW e \in DOMAIN id
        PROVE  At(o, e) = CHOOSE f \in DOMAIN id : id[f] = Root(parent)[id[e]]
    BY <2>1, <2>2, <2>4 DEF At
  <2>6. Part(StoreOf(o))
          = [e \in DOMAIN id |-> CHOOSE f \in DOMAIN id : id[f] = Root(parent)[id[e]]]
    BY <2>3 DEF Part
  <2> DEFINE rep(e) == CHOOSE f \in DOMAIN id : id[f] = Root(parent)[id[e]]
  <2>7. /\ \A e \in DOMAIN id : At(o, e) = rep(e)
        /\ Part(StoreOf(o)) = [e \in DOMAIN id |-> rep(e)]
    BY <2>5, <2>6
  <2> HIDE DEF rep
  <2> QED
    BY <2>4, <2>7
<1> QED
  BY <1>1 DEF Partitions, Parts

\* And so they are after every step that keeps the invariant.
LEMMA PartitionsAreNext == UFInv' => Partitions' = Parts'
<1>1. UFInv => Partitions = Parts
  BY PartitionsAre
<1>2. (UFInv => Partitions = Parts)'
  BY <1>1, PTL
<1> QED
  BY <1>2

\* A call that writes the tables of o gives it the partition in them.
LEMMA SetsPartition ==
  ASSUME UFInv, NEW o, NEW rank, NEW parent, NEW id, Assigns(o, rank, parent, id),
         NEW t, t = Store(heap'[parent], heap'[rank], id), Sound(t)
  PROVE  UFInv' /\ Abstract!Set(o, Part(t))
<1>1. /\ UFInv'
      /\ Usable' = Usable \cup {o}
      /\ StoreOf(o)' = t
      /\ \A p \in Usable \ {o} : StoreOf(p)' = StoreOf(p)
  BY Assigned
<1>2. Partitions = Parts /\ Partitions' = Parts'
  BY <1>1, PartitionsAre, PartitionsAreNext
<1>3. DOMAIN Partitions = Usable /\ \A p \in Usable : Partitions[p] = Part(StoreOf(p))
  BY <1>2 DEF Parts
<1>4. Parts' = [p \in Usable' |-> Part(StoreOf(p)')]
  BY DEF Parts
<1>5. Parts' = [p \in Usable \cup {o} |-> IF p = o THEN Part(t) ELSE Partitions[p]]
  BY <1>1, <1>3, <1>4
<1> QED
  BY <1>1, <1>2, <1>3, <1>5 DEF Abstract!Set

\* A call that writes the two tables of o where they are.
LEMMA InPlace ==
  ASSUME UFInv, NEW o \in Usable, NEW id,
         heap' = [b \in DOMAIN heap |-> heap'[b]],
         \A b \in DOMAIN heap \ Buffers(o) : heap'[b] = heap[b],
         Assign(o, [object[o] EXCEPT !.id = id]),
         moved' = moved
  PROVE  Assigns(o, object[o].rank, object[o].parent, id)
<1>1. o \in Live /\ o \notin moved /\ OwnBuffers(o) = Buffers(o)
  BY DEF Usable, OwnBuffers
<1>2. PICK rank, parent : rank = object[o].rank /\ parent = object[o].parent
  OBVIOUS
<1>3. /\ Buffers(o) = {rank, parent} /\ rank # parent
      /\ rank \in DOMAIN heap /\ parent \in DOMAIN heap
      /\ object[o] = Fields(rank, parent, object[o].id, Pointers(rank, parent))
  BY <1>2, BuffersOf
<1>4. [object[o] EXCEPT !.id = id] = Fields(rank, parent, id, Pointers(rank, parent))
  BY <1>3 DEF Fields
<1>5. /\ heap' = [b \in DOMAIN heap' |-> heap'[b]]
      /\ DOMAIN heap' = (DOMAIN heap \ OwnBuffers(o)) \cup {rank, parent}
  BY <1>1, <1>3
<1> QED
  BY <1>1, <1>2, <1>3, <1>4, <1>5 DEF Assigns

\* Leaving the fields of o as they are is assigning them.
LEMMA SameFields ==
  ASSUME UFInv, NEW o \in Usable, object' = object
  PROVE  Assign(o, [object[o] EXCEPT !.id = object[o].id])
<1>1. PICK rank, parent, id : /\ rank = object[o].rank /\ parent = object[o].parent
                              /\ id = object[o].id
  OBVIOUS
<1>2. object[o] = Fields(rank, parent, id, Pointers(rank, parent)) /\ o \in Live
  BY <1>1, BuffersOf DEF Usable
<1>3. [object[o] EXCEPT !.id = id] = object[o]
  BY <1>2 DEF Fields
<1>4. object = [p \in Live |-> object[p]]
  BY DEF UFInv, Tabled, Live
<1> QED
  BY <1>1, <1>2, <1>3, <1>4 DEF Assign

\* The tables of an object in use, by name.
LEMMA TablesOf ==
  ASSUME UFInv, NEW o \in Usable
  PROVE  /\ o \in Live /\ object[o].uf.parent = object[o].parent
         /\ object[o].uf.rank = object[o].rank
         /\ object[o].rank # object[o].parent
         /\ object[o].rank \in DOMAIN heap /\ object[o].parent \in DOMAIN heap
         /\ Buffers(o) = {object[o].rank, object[o].parent}
         /\ heap = [b \in DOMAIN heap |-> heap[b]]
         /\ StoreOf(o).parent = heap[object[o].parent]
         /\ StoreOf(o).rank = heap[object[o].rank]
         /\ StoreOf(o).id = object[o].id
         /\ Sound(StoreOf(o))
         /\ o \in DOMAIN Partitions /\ Partitions[o] = Part(StoreOf(o))
<1>1. object[o].uf = Pointers(object[o].rank, object[o].parent)
  BY DEF UFInv, PointersOwn, Tables
<1>2. /\ object[o].rank \in DOMAIN heap /\ object[o].parent \in DOMAIN heap
      /\ object[o].rank # object[o].parent
      /\ Buffers(o) = {object[o].rank, object[o].parent}
  BY BuffersOf
<1>3. heap = [b \in DOMAIN heap |-> heap[b]] /\ Sound(StoreOf(o))
  BY DEF UFInv, Tabled
<1>4. /\ StoreOf(o).parent = heap[object[o].parent]
      /\ StoreOf(o).rank = heap[object[o].rank]
      /\ StoreOf(o).id = object[o].id
  BY DEF StoreOf, Store
<1>5. o \in DOMAIN Partitions /\ Partitions[o] = Part(StoreOf(o))
  BY PartitionsAre DEF Parts
<1> QED
  BY <1>1, <1>2, <1>3, <1>4, <1>5 DEF Pointers, Usable

(***************************************************************************)
(* One lemma per call: the invariant, and the abstract call it makes.      *)
(***************************************************************************)

\* A new object has buffers of its own.
LEMMA NewTables ==
  ASSUME UFInv, NEW o, o \notin Live, NEW rank \in Free, NEW parent \in Free,
         rank # parent, NEW new,
         heap' = Written([b \in {rank, parent} |-> new[b]], {}),
         NEW id, Assign(o, Fields(rank, parent, id, Pointers(rank, parent))),
         moved' = moved
  PROVE  /\ Assigns(o, rank, parent, id)
         /\ heap'[rank] = new[rank] /\ heap'[parent] = new[parent]
<1>1. OwnBuffers(o) = {} /\ moved' = moved \ {o}
  BY DEF OwnBuffers, UFInv, Tabled
<1>2. /\ heap' = [b \in DOMAIN heap' |-> heap'[b]]
      /\ DOMAIN heap' = DOMAIN heap \cup {rank, parent}
      /\ \A b \in DOMAIN heap : heap'[b] = heap[b]
      /\ heap'[rank] = new[rank] /\ heap'[parent] = new[parent]
  BY DEF Written, Free
<1> QED
  BY <1>1, <1>2 DEF Assigns

\* UnionFind() makes an empty partition.
LEMMA ConstructStep ==
  ASSUME UFInv, NEW o \in Object, Construct(o)
  PROVE  UFInv' /\ Abstract!Next
<1>1. PICK rank \in Free, parent \in Free :
        /\ rank # parent
        /\ heap' = Written([b \in {rank, parent} |-> Zeros(1)], {})
        /\ Assign(o, Fields(rank, parent, [e \in {} |-> 0], Pointers(rank, parent)))
  BY DEF Construct
<1>2. PICK id, new : id = [e \in {} |-> 0] /\ new = [b \in {rank, parent} |-> Zeros(1)]
  OBVIOUS
<1>3. o \notin Live /\ moved' = moved
  BY DEF Construct
<1>4. heap' = Written([b \in {rank, parent} |-> new[b]], {})
  BY <1>1, <1>2
<1>5. /\ Assigns(o, rank, parent, id)
      /\ heap'[rank] = Zeros(1) /\ heap'[parent] = Zeros(1)
  BY <1>1, <1>2, <1>3, <1>4, NewTables
<1>6. Numbers(id, 0) /\ DOMAIN id = {} /\ Entries(0) = 1
  BY <1>2 DEF Numbers, Ids, Entries
<1>7. Zeros(1) = Singles(1)
  BY DEF Zeros, Singles, Ids
<1>8. PICK t : t = Store(heap'[parent], heap'[rank], id)
  OBVIOUS
<1>9. t = Store(Singles(Entries(0)), Zeros(Entries(0)), id)
  BY <1>5, <1>6, <1>7, <1>8
<1>10. Sound(t) /\ Part(t) = [e \in DOMAIN id |-> e]
  BY <1>6, <1>9, FreshSound
<1>11. UFInv' /\ Abstract!Set(o, Part(t))
  BY <1>5, <1>8, <1>10, SetsPartition
<1>12. o \in Object \ DOMAIN Partitions
  BY <1>3 DEF Partitions, Usable
<1>13. {} \in SUBSET Elem /\ Abstract!Set(o, [e \in {} |-> e])
  BY <1>6, <1>10, <1>11
<1>14. Abstract!Construct
  BY <1>12, <1>13 DEF Abstract!Construct
<1> QED
  BY <1>11, <1>14 DEF Abstract!Next

\* The ids of a list without repetitions number its elements.
LEMMA ListedNumbers ==
  ASSUME NEW list \in Lists
  PROVE  /\ Len(list) \in Nat /\ Len(list) # 0
         /\ Numbers(Listed(list), Len(list))
         /\ DOMAIN Listed(list) \subseteq Elem
<1>1. list \in Seq(Elem) /\ list # <<>> /\ IsInjective(list)
  BY ListsAssumption
<1>2. PICK n \in Nat : n = Len(list)
  BY <1>1
<1>3. /\ DOMAIN list = 1..n /\ n # 0
      /\ \A i \in 1..n : list[i] \in Elem
      /\ \A i, j \in 1..n : list[i] = list[j] => i = j
  BY <1>1, <1>2 DEF IsInjective
<1>4. PICK id : id = Listed(list)
  OBVIOUS
<1>5. DOMAIN id = Range(list) /\ id = [e \in DOMAIN id |-> id[e]]
  BY <1>4 DEF Listed
<1>6. \A e : e \in DOMAIN id <=> \E i \in 1..n : list[i] = e
  BY <1>3, <1>5 DEF Range
<1>7. ASSUME NEW i \in 1..n PROVE list[i] \in DOMAIN id /\ id[list[i]] = i - 1
  <2>1. list[i] \in DOMAIN id
    BY <1>6
  <2>2. id[list[i]] = (CHOOSE j \in DOMAIN list : list[j] = list[i]) - 1
    BY <1>4, <1>5, <2>1 DEF Listed
  <2>3. PICK j : j = CHOOSE k \in DOMAIN list : list[k] = list[i]
    OBVIOUS
  <2>4. j \in DOMAIN list /\ list[j] = list[i]
    BY <1>3, <2>3
  <2>5. j = i
    BY <1>3, <2>4
  <2> QED
    BY <2>1, <2>2, <2>3, <2>5
<1>8. \A e \in DOMAIN id : \E i \in 1..n : e = list[i] /\ id[e] = i - 1
  BY <1>6, <1>7
<1>9. id \in [DOMAIN id -> Ids(n)]
  <2>1. \A e \in DOMAIN id : id[e] \in Ids(n)
    BY <1>8 DEF Ids
  <2> QED
    BY <1>5, <2>1
<1>10. \A e, f \in DOMAIN id : id[e] = id[f] => e = f
  <2>1. TAKE e \in DOMAIN id, f \in DOMAIN id
  <2>2. PICK i \in 1..n : e = list[i] /\ id[e] = i - 1
    BY <1>8
  <2>3. PICK j \in 1..n : f = list[j] /\ id[f] = j - 1
    BY <1>8
  <2> QED
    BY <2>2, <2>3
<1>11. \A k \in Ids(n) : \E e \in DOMAIN id : id[e] = k
  <2>1. TAKE k \in Ids(n)
  <2>2. k + 1 \in 1..n /\ (k + 1) - 1 = k
    BY DEF Ids
  <2>3. list[k + 1] \in DOMAIN id /\ id[list[k + 1]] = k
    BY <1>7, <2>2
  <2> QED
    BY <2>3
<1>12. DOMAIN id \subseteq Elem
  BY <1>3, <1>8
<1> QED
  BY <1>2, <1>3, <1>4, <1>9, <1>10, <1>11, <1>12 DEF Numbers

\* UnionFind({...}) makes every element of the list a class of its own.
LEMMA ConstructOfStep ==
  ASSUME UFInv, NEW o \in Object, NEW list \in Lists, ConstructOf(o, list)
  PROVE  UFInv' /\ Abstract!Next
<1>1. PICK id, n : id = Listed(list) /\ n = Len(list)
  OBVIOUS
<1>2. n \in Nat /\ n # 0 /\ Numbers(id, n) /\ DOMAIN id \subseteq Elem /\ Entries(n) = n
  BY <1>1, ListedNumbers DEF Entries
<1>3. PICK rank \in Free, parent \in Free :
        /\ rank # parent
        /\ heap' = Written([b \in {rank, parent} |->
                              IF b = rank THEN Zeros(n)
                              ELSE [i \in 0..(n - 1) |-> i]], {})
        /\ Assign(o, Fields(rank, parent, id, Pointers(rank, parent)))
  BY <1>1 DEF ConstructOf
<1>4. PICK new : new = [b \in {rank, parent} |-> IF b = rank THEN Zeros(n) ELSE Singles(n)]
  OBVIOUS
<1>5. heap' = Written([b \in {rank, parent} |-> new[b]], {})
  BY <1>3, <1>4 DEF Singles, Ids
<1>6. o \notin Live /\ moved' = moved
  BY DEF ConstructOf
<1>7. Assigns(o, rank, parent, id) /\ heap'[rank] = new[rank] /\ heap'[parent] = new[parent]
  <2>1. rank # parent /\ Assign(o, Fields(rank, parent, id, Pointers(rank, parent)))
    BY <1>3
  <2> QED
    BY <1>5, <1>6, <2>1, NewTables
<1>8. PICK t : t = Store(heap'[parent], heap'[rank], id)
  OBVIOUS
<1>9. t = Store(Singles(Entries(n)), Zeros(Entries(n)), id)
  BY <1>2, <1>3, <1>4, <1>7, <1>8
<1>10. Sound(t) /\ Part(t) = [e \in DOMAIN id |-> e]
  BY <1>2, <1>9, FreshSound
<1>11. UFInv' /\ Abstract!Set(o, Part(t))
  BY <1>7, <1>8, <1>10, SetsPartition
<1>12. o \in Object \ DOMAIN Partitions
  BY <1>6 DEF Partitions, Usable
<1>13. DOMAIN id \in SUBSET Elem /\ Abstract!Set(o, [e \in DOMAIN id |-> e])
  BY <1>2, <1>10, <1>11
<1>14. Abstract!Construct
  BY <1>12, <1>13 DEF Abstract!Construct
<1> QED
  BY <1>11, <1>14 DEF Abstract!Next

\* Finding changes no object's partition.
LEMMA FindStep ==
  ASSUME UFInv, NEW o \in Object, NEW e \in Elem, Find(o, e)
  PROVE  UFInv' /\ UNCHANGED Partitions
<1>1. /\ o \in Usable /\ e \in DOMAIN object[o].id
      /\ heap' = [heap EXCEPT ![object[o].uf.parent] = Compress(@, object[o].id[e])]
      /\ object' = object /\ moved' = moved
  BY DEF Find
<1>2. PICK rank, parent, id, s : /\ rank = object[o].rank /\ parent = object[o].parent
                                 /\ id = object[o].id /\ s = StoreOf(o)
  OBVIOUS
<1>3. /\ rank # parent /\ rank \in DOMAIN heap /\ parent \in DOMAIN heap
      /\ object[o].uf.parent = parent
      /\ Buffers(o) = {rank, parent} /\ heap = [b \in DOMAIN heap |-> heap[b]]
      /\ s.parent = heap[parent] /\ s.rank = heap[rank] /\ s.id = id
      /\ Sound(s) /\ o \in DOMAIN Partitions /\ Partitions[o] = Part(s)
  BY <1>1, <1>2, TablesOf
<1>4. /\ heap' = [b \in DOMAIN heap |-> heap'[b]]
      /\ \A b \in DOMAIN heap \ Buffers(o) : heap'[b] = heap[b]
      /\ heap'[rank] = heap[rank] /\ heap'[parent] = Compress(heap[parent], id[e])
  BY <1>1, <1>2, <1>3
<1>5. Assigns(o, rank, parent, id)
  BY <1>1, <1>2, <1>4, SameFields, InPlace
<1>6. PICK t : t = Store(heap'[parent], heap'[rank], id)
  OBVIOUS
<1>7. Sound(t) /\ Part(t) = Part(s)
  <2>1. t = Store(Compress(s.parent, s.id[e]), s.rank, s.id)
    BY <1>3, <1>4, <1>6
  <2> QED
    BY <1>1, <1>2, <1>3, <2>1, FindSound
<1>8. UFInv' /\ Abstract!Set(o, Part(t))
  BY <1>5, <1>6, <1>7, SetsPartition
<1>9. Partitions = [p \in DOMAIN Partitions |-> Partitions[p]]
  BY PartitionsAre DEF Parts
<1>10. Partitions' = Partitions
  BY <1>3, <1>7, <1>8, <1>9 DEF Abstract!Set
<1> QED
  BY <1>8, <1>10

\* union_sets merges two classes and changes no other.
LEMMA UnionSetsStep ==
  ASSUME UFInv, NEW o \in Object, NEW a \in Elem, NEW b \in Elem, UnionSets(o, a, b)
  PROVE  UFInv' /\ Abstract!Next
<1>1. /\ o \in Usable /\ a \in DOMAIN object[o].id /\ b \in DOMAIN object[o].id
      /\ object' = object /\ moved' = moved
  BY DEF UnionSets
<1>2. PICK rank, parent, id, s, next :
        /\ rank = object[o].rank /\ parent = object[o].parent
        /\ id = object[o].id /\ s = StoreOf(o)
        /\ next = UnionSet(heap[parent], heap[rank], id[a], id[b])
  OBVIOUS
<1>3. /\ rank # parent /\ rank \in DOMAIN heap /\ parent \in DOMAIN heap
      /\ object[o].uf.parent = parent /\ object[o].uf.rank = rank
      /\ Buffers(o) = {rank, parent} /\ heap = [c \in DOMAIN heap |-> heap[c]]
      /\ s.parent = heap[parent] /\ s.rank = heap[rank] /\ s.id = id
      /\ Sound(s) /\ o \in DOMAIN Partitions /\ Partitions[o] = Part(s)
  BY <1>1, <1>2, TablesOf
<1>4. heap' = [heap EXCEPT ![parent] = next.parent, ![rank] = next.rank]
  BY <1>2, <1>3 DEF UnionSets
<1>5. /\ heap' = [c \in DOMAIN heap |-> heap'[c]]
      /\ \A c \in DOMAIN heap \ Buffers(o) : heap'[c] = heap[c]
      /\ heap'[rank] = next.rank /\ heap'[parent] = next.parent
  BY <1>3, <1>4
<1>6. Assigns(o, rank, parent, id)
  BY <1>1, <1>2, <1>5, SameFields, InPlace
<1>7. PICK t : t = Store(heap'[parent], heap'[rank], id)
  OBVIOUS
<1>8. PICK part : part = Part(s)
  OBVIOUS
<1>9. Sound(t) /\ United(part, Part(t), a, b)
  <2>1. /\ t = Store(next.parent, next.rank, s.id)
        /\ next = UnionSet(s.parent, s.rank, s.id[a], s.id[b])
        /\ a \in DOMAIN s.id /\ b \in DOMAIN s.id /\ Sound(s)
    BY <1>1, <1>2, <1>3, <1>5, <1>7
  <2> QED
    BY <1>8, <2>1, UnionSound
<1>10. UFInv' /\ Abstract!Set(o, Part(t))
  BY <1>6, <1>7, <1>9, SetsPartition
<1>11. Partitions[o] = part /\ DOMAIN part = DOMAIN id
  <2>1. part = [k \in DOMAIN s.id |-> part[k]]
    BY <1>8, PartFunction
  <2> QED
    BY <1>3, <1>8, <2>1
<1>12. Abstract!Merge(o, a, b)
  <2>1. PICK r \in {part[a], part[b]} :
          Part(t) = [k \in DOMAIN part |->
                       IF part[k] \in {part[a], part[b]} THEN r ELSE part[k]]
    BY <1>9 DEF United
  <2>2. Abstract!Set(o, [k \in DOMAIN Partitions[o] |->
                           IF Partitions[o][k] \in {Partitions[o][a], Partitions[o][b]}
                           THEN r ELSE Partitions[o][k]])
    BY <1>10, <1>11, <2>1
  <2> QED
    BY <1>11, <2>1, <2>2 DEF Abstract!Merge
<1>13. Abstract!Union
  BY <1>1, <1>2, <1>3, <1>11, <1>12 DEF Abstract!Union
<1> QED
  BY <1>10, <1>13 DEF Abstract!Next

\* disconnect_all_sets makes every element a class of its own again.
LEMMA DisconnectStep ==
  ASSUME UFInv, NEW o \in Object, DisconnectAllSets(o)
  PROVE  UFInv' /\ Abstract!Next
<1>1. o \in Usable /\ object' = object /\ moved' = moved
  BY DEF DisconnectAllSets
<1>2. PICK rank, parent, id, s, ids :
        /\ rank = object[o].rank /\ parent = object[o].parent
        /\ id = object[o].id /\ s = StoreOf(o)
        /\ ids = {id[e] : e \in DOMAIN id}
  OBVIOUS
<1>3. /\ rank # parent /\ rank \in DOMAIN heap /\ parent \in DOMAIN heap
      /\ object[o].uf.parent = parent /\ object[o].uf.rank = rank
      /\ Buffers(o) = {rank, parent} /\ heap = [c \in DOMAIN heap |-> heap[c]]
      /\ s.parent = heap[parent] /\ s.rank = heap[rank] /\ s.id = id
      /\ Sound(s) /\ o \in DOMAIN Partitions /\ Partitions[o] = Part(s)
  BY <1>1, <1>2, TablesOf
<1>4. PICK parents, ranks :
        /\ parents = [i \in DOMAIN s.parent |-> IF i \in ids THEN i ELSE s.parent[i]]
        /\ ranks = [i \in DOMAIN s.rank |-> IF i \in ids THEN 0 ELSE s.rank[i]]
  OBVIOUS
<1>5. heap' = [heap EXCEPT ![parent] = parents, ![rank] = ranks]
  <2>1. heap' = [heap EXCEPT
                   ![parent] = [i \in DOMAIN heap[parent] |->
                                  IF i \in ids THEN i ELSE heap[parent][i]],
                   ![rank]   = [i \in DOMAIN heap[rank] |->
                                  IF i \in ids THEN 0 ELSE heap[rank][i]]]
    BY <1>2, <1>3 DEF DisconnectAllSets
  <2>2. /\ parents = [i \in DOMAIN heap[parent] |->
                        IF i \in ids THEN i ELSE heap[parent][i]]
        /\ ranks = [i \in DOMAIN heap[rank] |-> IF i \in ids THEN 0 ELSE heap[rank][i]]
    BY <1>3, <1>4
  <2> QED
    BY <2>1, <2>2
<1>6. /\ heap' = [c \in DOMAIN heap |-> heap'[c]]
      /\ \A c \in DOMAIN heap \ Buffers(o) : heap'[c] = heap[c]
      /\ heap'[rank] = ranks /\ heap'[parent] = parents
  BY <1>3, <1>5
<1>7. Assigns(o, rank, parent, id)
  BY <1>1, <1>2, <1>6, SameFields, InPlace
<1>8. PICK t : t = Store(heap'[parent], heap'[rank], id)
  OBVIOUS
<1>9. Sound(t) /\ Part(t) = [e \in DOMAIN id |-> e]
  <2>1. PICK n \in Nat : /\ Numbers(s.id, n)
                         /\ Forest(Entries(n), s.parent, s.rank)
    BY <1>3 DEF Sound
  <2>2. /\ s.parent \in [Ids(Entries(n)) -> Ids(Entries(n))]
        /\ s.rank \in [Ids(Entries(n)) -> Nat]
    BY <2>1 DEF Forest
  <2>3. /\ id \in [DOMAIN id -> Ids(n)]
        /\ \A i \in Ids(n) : \E e \in DOMAIN id : id[e] = i
    BY <1>3, <2>1 DEF Numbers
  <2>4. ids = Ids(n)
    BY <1>2, <2>3
  <2>5. CASE n = 0
    <3>1. ids = {} /\ DOMAIN id = {}
      <4>1. Ids(n) = {}
        BY <2>5 DEF Ids
      <4> QED
        BY <2>3, <2>4, <4>1
    <3>2. parents = s.parent /\ ranks = s.rank
      BY <1>4, <2>2, <3>1
    <3>3. t = s
      <4>1. s = Store(s.parent, s.rank, s.id)
        BY <1>3 DEF Sound
      <4> QED
        BY <1>3, <1>6, <1>8, <3>2, <4>1
    <3>4. Part(t) = [e \in DOMAIN t.id |-> Part(t)[e]]
      BY PartFunction
    <3> QED
      BY <1>3, <3>1, <3>3, <3>4
  <2>6. CASE n # 0
    <3>1. Entries(n) = n
      BY <2>6 DEF Entries
    <3>2. parents = Singles(n)
      BY <1>4, <2>2, <2>4, <3>1 DEF Singles
    <3>3. ranks = Zeros(n)
      BY <1>4, <2>2, <2>4, <3>1 DEF Zeros, Ids
    <3>4. t = Store(Singles(Entries(n)), Zeros(Entries(n)), id)
      BY <1>6, <1>8, <3>1, <3>2, <3>3
    <3>5. DOMAIN id \subseteq Elem /\ Numbers(id, n)
      BY <1>3, <2>1 DEF Sound
    <3> QED
      BY <3>4, <3>5, FreshSound
  <2> QED
    BY <2>5, <2>6
<1>10. UFInv' /\ Abstract!Set(o, Part(t))
  BY <1>7, <1>8, <1>9, SetsPartition
<1>11. DOMAIN Partitions[o] = DOMAIN id
  <2>1. Part(s) = [k \in DOMAIN s.id |-> Part(s)[k]]
    BY PartFunction
  <2> QED
    BY <1>3, <2>1
<1>12. Abstract!Set(o, [k \in DOMAIN Partitions[o] |-> k])
  BY <1>9, <1>10, <1>11
<1>13. Abstract!Separate
  BY <1>3, <1>12 DEF Abstract!Separate
<1> QED
  BY <1>10, <1>13 DEF Abstract!Next

\* A new element is added the same way in place and in grown tables.
LEMMA Adds ==
  ASSUME UFInv, NEW o \in Usable, NEW e \in Elem, e \notin DOMAIN object[o].id,
         NEW n \in Nat, Numbers(object[o].id, n),
         NEW rank, NEW parent, Assigns(o, rank, parent, Numbered(o, e)),
         heap'[parent] = ParentsWith(heap[object[o].parent], n),
         heap'[rank] = RanksWith(heap[object[o].rank], n)
  PROVE  UFInv' /\ Abstract!Next
<1>1. PICK id, s : id = object[o].id /\ s = StoreOf(o)
  OBVIOUS
<1>2. /\ s.parent = heap[object[o].parent] /\ s.rank = heap[object[o].rank]
      /\ s.id = id /\ Sound(s) /\ o \in DOMAIN Partitions /\ Partitions[o] = Part(s)
  BY <1>1, TablesOf
<1>3. Numbers(id, n) /\ Cardinality(DOMAIN id) = n
  BY <1>1, IdsCount
<1>4. Numbered(o, e) = WithNext(id, n, e)
  BY <1>1, <1>3 DEF Numbered, WithNext
<1>5. /\ Forest(Entries(n), s.parent, s.rank)
      /\ Heavy(Entries(n), s.parent, s.rank)
  <2>1. PICK m \in Nat : /\ Numbers(s.id, m)
                         /\ Forest(Entries(m), s.parent, s.rank)
                         /\ Heavy(Entries(m), s.parent, s.rank)
    BY <1>2 DEF Sound
  <2>2. m = n
    BY <1>2, <1>3, <2>1, IdsCount
  <2> QED
    BY <2>1, <2>2
<1>6. PICK t : t = Store(heap'[parent], heap'[rank], Numbered(o, e))
  OBVIOUS
<1>7. t = Store(ParentsWith(s.parent, n), RanksWith(s.rank, n), WithNext(s.id, n, e))
  BY <1>2, <1>4, <1>6
<1>8. /\ Sound(t)
      /\ Part(t) = [k \in DOMAIN s.id \cup {e} |->
                      IF k \in DOMAIN s.id THEN Part(s)[k] ELSE e]
  BY <1>1, <1>2, <1>3, <1>5, <1>7, AddSound
<1>9. UFInv' /\ Abstract!Set(o, Part(t))
  BY <1>6, <1>8, SetsPartition
<1>10. DOMAIN Part(s) = DOMAIN s.id
  BY PartFunction
<1>11. Part(t) = Abstract!Touch(Partitions[o], e)
  BY <1>2, <1>8, <1>10 DEF Abstract!Touch
<1>12. Abstract!Add
  BY <1>2, <1>9, <1>11 DEF Abstract!Add
<1> QED
  BY <1>9, <1>12 DEF Abstract!Next

\* The first element takes the entry that the tables already have.
LEMMA AddInPlaceStep ==
  ASSUME UFInv, NEW o \in Object, NEW e \in Elem, AddInPlace(o, e)
  PROVE  UFInv' /\ Abstract!Next
<1>1. /\ o \in Usable /\ e \notin DOMAIN object[o].id /\ moved' = moved
      /\ Assign(o, [object[o] EXCEPT !.id = Numbered(o, e)])
      /\ HasRoom(o)
  BY DEF AddInPlace
<1>2. PICK rank, parent, id, s : /\ rank = object[o].rank /\ parent = object[o].parent
                                 /\ id = object[o].id /\ s = StoreOf(o)
  OBVIOUS
<1>3. /\ rank # parent /\ rank \in DOMAIN heap /\ parent \in DOMAIN heap
      /\ object[o].uf.parent = parent /\ object[o].uf.rank = rank
      /\ Buffers(o) = {rank, parent} /\ heap = [c \in DOMAIN heap |-> heap[c]]
      /\ s.parent = heap[parent] /\ s.rank = heap[rank] /\ s.id = id /\ Sound(s)
  BY <1>1, <1>2, TablesOf
<1>4. PICK n \in Nat : Numbers(s.id, n) /\ Forest(Entries(n), s.parent, s.rank)
  BY <1>3 DEF Sound
<1>5. Cardinality(DOMAIN id) = n
  BY <1>3, <1>4, IdsCount
<1>6. /\ s.parent \in [Ids(Entries(n)) -> Ids(Entries(n))]
      /\ s.rank \in [Ids(Entries(n)) -> Nat]
  BY <1>4 DEF Forest
<1>7. n = 0 /\ Entries(n) = 1
  <2>1. Entries(n) \in Nat /\ (n # 0 => Entries(n) = n) /\ (n = 0 => Entries(n) = 1)
    BY DEF Entries
  <2>2. Cardinality(Ids(Entries(n))) = Entries(n)
    BY <2>1, FS_Interval DEF Ids
  <2>3. DOMAIN heap[rank] = Ids(Entries(n))
    BY <1>3, <1>6
  <2>4. n + 1 <= Entries(n)
    BY <1>1, <1>2, <1>5, <2>2, <2>3 DEF HasRoom
  <2> QED
    BY <2>1, <2>4
<1>8. Ids(1) = {0}
  BY DEF Ids
<1>9. heap' = [c \in DOMAIN heap |->
                 IF c = parent THEN [heap[c] EXCEPT ![0] = 0]
                 ELSE IF c = rank THEN [heap[c] EXCEPT ![0] = 0] ELSE heap[c]]
  BY <1>2, <1>3, <1>5, <1>7 DEF AddInPlace, MakeSet
<1>10. /\ heap' = [c \in DOMAIN heap |-> heap'[c]]
       /\ \A c \in DOMAIN heap \ Buffers(o) : heap'[c] = heap[c]
       /\ heap'[parent] = [s.parent EXCEPT ![0] = 0]
       /\ heap'[rank] = [s.rank EXCEPT ![0] = 0]
  BY <1>3, <1>9
<1>11. DOMAIN s.parent = {0} /\ DOMAIN s.rank = {0}
  BY <1>6, <1>7, <1>8
<1>12. /\ [s.parent EXCEPT ![0] = 0] = [i \in {0} |-> 0]
       /\ [s.rank EXCEPT ![0] = 0] = [i \in {0} |-> 0]
  BY <1>11
<1>13. heap'[parent] = ParentsWith(heap[parent], n) /\ heap'[rank] = RanksWith(heap[rank], n)
  <2>1. Ids(n + 1) = {0}
    BY <1>7, <1>8
  <2>2. ParentsWith(heap[parent], n) = [i \in {0} |-> 0]
    BY <1>7, <2>1 DEF ParentsWith
  <2>3. RanksWith(heap[rank], n) = [i \in {0} |-> 0]
    BY <1>7, <2>1 DEF RanksWith
  <2> QED
    BY <1>10, <1>12, <2>2, <2>3
<1>14. Assigns(o, rank, parent, Numbered(o, e))
  BY <1>1, <1>2, <1>10, InPlace
<1>15. Numbers(object[o].id, n)
  BY <1>2, <1>3, <1>4
<1> QED
  BY <1>1, <1>2, <1>13, <1>14, <1>15, Adds

\* Every other element grows both tables, and the pointers follow them.
LEMMA AddGrowingStep ==
  ASSUME UFInv, NEW o \in Object, NEW e \in Elem, AddGrowing(o, e)
  PROVE  UFInv' /\ Abstract!Next
<1>1. /\ o \in Usable /\ e \notin DOMAIN object[o].id /\ moved' = moved
      /\ ~HasRoom(o)
  BY DEF AddGrowing
<1>2. PICK oldRank, oldParent, id, s :
        /\ oldRank = object[o].rank /\ oldParent = object[o].parent
        /\ id = object[o].id /\ s = StoreOf(o)
  OBVIOUS
<1>3. /\ oldRank # oldParent /\ oldRank \in DOMAIN heap /\ oldParent \in DOMAIN heap
      /\ o \in Live /\ object[o].uf = Pointers(oldRank, oldParent)
      /\ Buffers(o) = {oldRank, oldParent}
      /\ s.parent = heap[oldParent] /\ s.rank = heap[oldRank] /\ s.id = id /\ Sound(s)
  <2>1. object[o].uf = Pointers(oldRank, oldParent)
    BY <1>1, <1>2 DEF UFInv, PointersOwn, Tables
  <2> QED
    BY <1>1, <1>2, <2>1, TablesOf
<1>4. PICK n \in Nat : Numbers(s.id, n) /\ Forest(Entries(n), s.parent, s.rank)
  BY <1>3 DEF Sound
<1>5. Cardinality(DOMAIN id) = n
  BY <1>3, <1>4, IdsCount
<1>6. /\ s.parent \in [Ids(Entries(n)) -> Ids(Entries(n))]
      /\ s.rank \in [Ids(Entries(n)) -> Nat]
  BY <1>4 DEF Forest
<1>7. n # 0 /\ Entries(n) = n
  <2>1. Entries(n) \in Nat /\ (n # 0 => Entries(n) = n) /\ (n = 0 => Entries(n) = 1)
    BY DEF Entries
  <2>2. Cardinality(Ids(Entries(n))) = Entries(n)
    BY <2>1, FS_Interval DEF Ids
  <2>3. DOMAIN heap[oldRank] = Ids(Entries(n))
    BY <1>3, <1>6
  <2>4. ~ n + 1 <= Entries(n)
    BY <1>1, <1>2, <1>5, <2>2, <2>3 DEF HasRoom
  <2> QED
    BY <2>1, <2>4
<1>8. PICK parent \in Free \cup {oldParent} :
      \E rank \in ((Free \cup {oldParent}) \ {parent}) \cup {oldRank} :
        LET grown == Written([b \in {rank, parent} |->
                                Longer(heap[IF b = parent THEN oldParent
                                                          ELSE oldRank])],
                             Buffers(o))
            uf    == Refreshed(o, rank, parent)
        IN  /\ heap' = MakeSet(grown, uf, n)
            /\ Assign(o, Fields(rank, parent, Numbered(o, e), uf))
  BY <1>2, <1>5 DEF AddGrowing
<1>9. PICK rank \in ((Free \cup {oldParent}) \ {parent}) \cup {oldRank} :
        LET grown == Written([b \in {rank, parent} |->
                                Longer(heap[IF b = parent THEN oldParent
                                                          ELSE oldRank])],
                             Buffers(o))
            uf    == Refreshed(o, rank, parent)
        IN  /\ heap' = MakeSet(grown, uf, n)
            /\ Assign(o, Fields(rank, parent, Numbered(o, e), uf))
  BY <1>8
<1>10. rank # parent
  BY <1>3, <1>8, <1>9 DEF Free
<1>11. Refreshed(o, rank, parent) = Pointers(rank, parent)
  BY <1>2, <1>3 DEF Refreshed
<1>12. PICK longer, grown :
         /\ longer = [b \in {rank, parent} |->
                        Longer(heap[IF b = parent THEN oldParent ELSE oldRank])]
         /\ grown = Written(longer, Buffers(o))
  OBVIOUS
<1>13. /\ heap' = MakeSet(grown, Pointers(rank, parent), n)
       /\ Assign(o, Fields(rank, parent, Numbered(o, e), Pointers(rank, parent)))
  BY <1>9, <1>11, <1>12
<1>14. /\ longer[parent] = Longer(s.parent) /\ longer[rank] = Longer(s.rank)
       /\ DOMAIN longer = {rank, parent}
  BY <1>3, <1>10, <1>12
<1>15. /\ DOMAIN grown = (DOMAIN heap \ Buffers(o)) \cup {rank, parent}
       /\ \A b \in DOMAIN heap \ Buffers(o) :
            b # rank /\ b # parent => grown[b] = heap[b]
       /\ grown[rank] = longer[rank] /\ grown[parent] = longer[parent]
  BY <1>12, <1>14 DEF Written
<1>16. heap' = [b \in DOMAIN grown |->
                  IF b = parent THEN [grown[b] EXCEPT ![n] = n]
                  ELSE IF b = rank THEN [grown[b] EXCEPT ![n] = 0] ELSE grown[b]]
  BY <1>13 DEF MakeSet, Pointers
<1>17. rank \in Free \cup Buffers(o) /\ parent \in Free \cup Buffers(o)
  BY <1>3, <1>8, <1>9
<1>18. /\ heap' = [b \in DOMAIN heap' |-> heap'[b]]
       /\ DOMAIN heap' = (DOMAIN heap \ Buffers(o)) \cup {rank, parent}
       /\ \A b \in DOMAIN heap \ Buffers(o) : heap'[b] = heap[b]
       /\ heap'[parent] = [Longer(s.parent) EXCEPT ![n] = n]
       /\ heap'[rank] = [Longer(s.rank) EXCEPT ![n] = 0]
  <2>1. \A b \in DOMAIN heap \ Buffers(o) : b # rank /\ b # parent
    BY <1>17 DEF Free
  <2> QED
    BY <1>10, <1>14, <1>15, <1>16, <2>1
<1>19. OwnBuffers(o) = Buffers(o) /\ moved' = moved \ {o}
  BY <1>1, <1>3 DEF OwnBuffers, Usable
<1>20. Assigns(o, rank, parent, Numbered(o, e))
  BY <1>10, <1>13, <1>17, <1>18, <1>19 DEF Assigns
<1>21. /\ heap'[parent] = ParentsWith(s.parent, n)
       /\ heap'[rank] = RanksWith(s.rank, n)
  <2>1. Cardinality(Ids(n)) = n /\ Ids(n) \cup {n} = Ids(n + 1) /\ n \notin Ids(n)
    <3>1. Cardinality(Ids(n)) = n
      BY FS_Interval DEF Ids
    <3>2. Ids(n) \cup {n} = Ids(n + 1) /\ n \notin Ids(n)
      BY DEF Ids
    <3> QED
      BY <3>1, <3>2
  <2>2. DOMAIN s.parent = Ids(n) /\ DOMAIN s.rank = Ids(n)
    BY <1>6, <1>7
  <2>3. Longer(s.parent) = [i \in Ids(n + 1) |-> IF i \in Ids(n) THEN s.parent[i] ELSE 0]
    BY <2>1, <2>2 DEF Longer
  <2>4. Longer(s.rank) = [i \in Ids(n + 1) |-> IF i \in Ids(n) THEN s.rank[i] ELSE 0]
    BY <2>1, <2>2 DEF Longer
  <2>5. \A i \in Ids(n + 1) : i \in Ids(n) <=> i # n
    BY <2>1
  <2>6. n \in Ids(n + 1)
    BY <2>1
  <2>7. [Longer(s.parent) EXCEPT ![n] = n]
          = [i \in Ids(n + 1) |-> IF i = n THEN n ELSE s.parent[i]]
    BY <2>3, <2>5, <2>6
  <2>8. [Longer(s.rank) EXCEPT ![n] = 0]
          = [i \in Ids(n + 1) |-> IF i = n THEN 0 ELSE s.rank[i]]
    BY <2>4, <2>5, <2>6
  <2> QED
    BY <1>18, <2>7, <2>8 DEF ParentsWith, RanksWith
<1>22. Numbers(object[o].id, n)
  BY <1>2, <1>3, <1>4
<1> QED
  BY <1>1, <1>2, <1>3, <1>20, <1>21, <1>22, Adds

\* A copy has the partition of its source, in tables of its own.
LEMMA CopyFromStep ==
  ASSUME UFInv, NEW o \in Object, NEW p \in Object, CopyFrom(o, p)
  PROVE  UFInv' /\ Abstract!Next
<1>1. PICK own : own = IF o \in Live THEN object[o] ELSE Fields(NoBuffer, NoBuffer, {}, {})
  OBVIOUS
<1>2. p \in Usable /\ o # p /\ moved' = moved \ {o}
  BY DEF CopyFrom
<1>3. PICK rank \in Free \cup ({own.rank} \ {NoBuffer}),
           parent \in Free \cup ({own.parent} \ {NoBuffer}) :
        /\ rank # parent
        /\ heap' = Written([b \in {rank, parent} |->
                              heap[IF b = rank THEN object[p].rank
                                               ELSE object[p].parent]],
                           IF o \in Live THEN Buffers(o) ELSE {})
        /\ Assign(o, Fields(rank, parent, object[p].id, CopyPointers(p, rank, parent)))
  BY <1>1 DEF CopyFrom
<1>4. /\ {own.rank} \ {NoBuffer} \subseteq OwnBuffers(o)
      /\ {own.parent} \ {NoBuffer} \subseteq OwnBuffers(o)
  <2>1. CASE o \in Live
    BY <1>1, <2>1 DEF OwnBuffers, Buffers
  <2>2. CASE o \notin Live
    <3>1. own.rank = NoBuffer /\ own.parent = NoBuffer
      BY <1>1, <2>2 DEF Fields
    <3> QED
      BY <3>1
  <2> QED
    BY <2>1, <2>2
<1>5. rank \in Free \cup OwnBuffers(o) /\ parent \in Free \cup OwnBuffers(o)
  BY <1>3, <1>4
<1>6. PICK id, s : id = object[p].id /\ s = StoreOf(p)
  OBVIOUS
<1>7. PICK new : new = [b \in {rank, parent} |->
                          heap[IF b = rank THEN object[p].rank ELSE object[p].parent]]
  OBVIOUS
<1>8. heap' = Written(new, OwnBuffers(o))
  BY <1>3, <1>7 DEF OwnBuffers
<1>9. /\ DOMAIN new = {rank, parent} /\ new[rank] = heap[object[p].rank]
      /\ new[parent] = heap[object[p].parent]
  BY <1>3, <1>7
<1>10. /\ heap' = [b \in DOMAIN heap' |-> heap'[b]]
       /\ DOMAIN heap' = (DOMAIN heap \ OwnBuffers(o)) \cup {rank, parent}
       /\ \A b \in DOMAIN heap \ OwnBuffers(o) :
            b # rank /\ b # parent => heap'[b] = heap[b]
       /\ heap'[rank] = new[rank] /\ heap'[parent] = new[parent]
  BY <1>8, <1>9 DEF Written
<1>11. \A b \in DOMAIN heap \ OwnBuffers(o) : b # rank /\ b # parent
  BY <1>5 DEF Free
<1>12. Assigns(o, rank, parent, id)
  <2>1. Assign(o, Fields(rank, parent, id, Pointers(rank, parent))) /\ rank # parent
    BY <1>3, <1>6 DEF CopyPointers
  <2> QED
    BY <1>2, <1>5, <1>10, <1>11, <2>1 DEF Assigns
<1>13. PICK t : t = Store(heap'[parent], heap'[rank], id)
  OBVIOUS
<1>14. t = s
  BY <1>6, <1>9, <1>10, <1>13 DEF StoreOf
<1>15. Sound(s) /\ p \in DOMAIN Partitions /\ Partitions[p] = Part(s)
  BY <1>2, <1>6, TablesOf
<1>16. UFInv' /\ Abstract!Set(o, Part(t))
  BY <1>12, <1>13, <1>14, <1>15, SetsPartition
<1>17. Abstract!Copy
  BY <1>14, <1>15, <1>16 DEF Abstract!Copy
<1> QED
  BY <1>16, <1>17 DEF Abstract!Next

\* A moved value leaves p without a partition until p is assigned to.
LEMMA MovesPartition ==
  ASSUME UFInv, NEW o \in Object, NEW p \in Object, NEW left, Moves(o, p, left)
  PROVE  UFInv' /\ Abstract!Next
<1>1. /\ UFInv' /\ Usable' = (Usable \cup {o}) \ {p} /\ StoreOf(o)' = StoreOf(p)
      /\ \A q \in Usable \ {o, p} : StoreOf(q)' = StoreOf(q)
      /\ p \in Usable /\ o # p
  BY Moved DEF Moves
<1>2. Partitions = Parts /\ Partitions' = Parts'
  BY <1>1, PartitionsAre, PartitionsAreNext
<1>3. DOMAIN Partitions = Usable /\ \A q \in Usable : Partitions[q] = Part(StoreOf(q))
  BY <1>2 DEF Parts
<1>4. Parts' = [q \in Usable' |-> Part(StoreOf(q)')]
  BY DEF Parts
<1>5. Partitions' = [q \in (DOMAIN Partitions \cup {o}) \ {p} |->
                       IF q = o THEN Partitions[p] ELSE Partitions[q]]
  BY <1>1, <1>2, <1>3, <1>4
<1>6. Abstract!Move
  BY <1>1, <1>3, <1>5 DEF Abstract!Move
<1> QED
  BY <1>1, <1>6 DEF Abstract!Next

\* A move into a new object.
LEMMA MoveConstructStep ==
  ASSUME UFInv, NEW o \in Object, NEW p \in Object, MoveConstruct(o, p)
  PROVE  UFInv' /\ Abstract!Next
<1>1. o \notin Live /\ p \in Usable /\ heap' = heap /\ moved' = moved \cup {p}
  BY DEF MoveConstruct
<1>2. o # p /\ o \notin moved
  BY <1>1 DEF Usable, UFInv, Tabled
<1>3. PICK rank, parent, id : /\ rank = object[p].rank /\ parent = object[p].parent
                              /\ id = object[p].id
  OBVIOUS
<1>4. object[p] = Fields(rank, parent, id, Pointers(rank, parent))
  BY <1>1, <1>3, BuffersOf
<1>5. [object[p] EXCEPT !.uf = Pointers(object[p].rank, object[p].parent)]
        = Fields(rank, parent, id, Pointers(rank, parent))
  BY <1>3, <1>4 DEF Fields
<1>6. PICK left : left = Fields(NoBuffer, NoBuffer, [e \in {} |-> 0], object[p].uf)
  OBVIOUS
<1>7. /\ left = Fields(left.rank, left.parent, left.id, left.uf)
      /\ left.rank = NoBuffer /\ left.parent = NoBuffer
  BY <1>6 DEF Fields
<1>8. object' = [q \in Live \cup {o} |->
                   IF q = o THEN Fields(rank, parent, id, Pointers(rank, parent))
                   ELSE IF q = p THEN left ELSE object[q]]
  BY <1>5, <1>6 DEF MoveConstruct
<1>9. moved' = (moved \ {o}) \cup {p}
  BY <1>1, <1>2
<1>10. Moves(o, p, left)
  BY <1>1, <1>2, <1>3, <1>7, <1>8, <1>9 DEF Moves
<1> QED
  BY <1>10, MovesPartition

\* A move that exchanges the tables of two objects.
LEMMA MoveAssignStep ==
  ASSUME UFInv, NEW o \in Object, NEW p \in Object, MoveAssign(o, p)
  PROVE  UFInv' /\ Abstract!Next
<1>1. /\ o \in Live /\ p \in Usable /\ o # p /\ heap' = heap
      /\ moved' = (moved \ {o}) \cup {p}
  BY DEF MoveAssign
<1>2. PICK rank, parent, id : /\ rank = object[p].rank /\ parent = object[p].parent
                              /\ id = object[p].id
  OBVIOUS
<1>3. object[p] = Fields(rank, parent, id, Pointers(rank, parent)) /\ p \in Live
  BY <1>1, <1>2, BuffersOf DEF Usable
<1>4. PICK new : new = [object[p] EXCEPT !.uf = Pointers(object[p].rank, object[p].parent)]
  OBVIOUS
<1>5. new = Fields(rank, parent, id, Pointers(rank, parent))
  BY <1>2, <1>3, <1>4 DEF Fields
<1>6. PICK left : left = [object[o] EXCEPT !.uf = object[p].uf]
  OBVIOUS
<1>7. /\ left = Fields(left.rank, left.parent, left.id, left.uf)
      /\ left.rank = object[o].rank /\ left.parent = object[o].parent
  <2>1. object[o] = Fields(object[o].rank, object[o].parent, object[o].id, object[o].uf)
    BY <1>1 DEF UFInv, Tabled
  <2>2. left = Fields(object[o].rank, object[o].parent, object[o].id, object[p].uf)
    BY <1>6, <2>1 DEF Fields
  <2> QED
    BY <2>2 DEF Fields
<1>8. object' = [object EXCEPT ![o] = new, ![p] = left]
  BY <1>4, <1>6 DEF MoveAssign
<1>9. object' = [q \in Live \cup {o} |->
                   IF q = o THEN Fields(rank, parent, id, Pointers(rank, parent))
                   ELSE IF q = p THEN left ELSE object[q]]
  <2>1. object = [q \in Live |-> object[q]] /\ Live \cup {o} = Live
    BY <1>1 DEF UFInv, Tabled, Live
  <2>2. object' = [q \in Live |-> IF q = o THEN new ELSE IF q = p THEN left ELSE object[q]]
    BY <1>1, <1>3, <1>8, <2>1
  <2> QED
    BY <1>5, <2>1, <2>2
<1>10. Moves(o, p, left)
  BY <1>1, <1>2, <1>7, <1>9 DEF Moves
<1> QED
  BY <1>10, MovesPartition

\* Destroying an object whose value was moved away drops no partition.
LEMMA DestroyStep ==
  ASSUME UFInv, NEW o \in Object, Destroy(o)
  PROVE  UFInv' /\ (Abstract!Next \/ UNCHANGED Partitions)
<1>1. /\ UFInv' /\ Usable' = Usable \ {o}
      /\ \A p \in Usable \ {o} : StoreOf(p)' = StoreOf(p)
  BY Destroyed
<1>2. Partitions = Parts /\ Partitions' = Parts'
  BY <1>1, PartitionsAre, PartitionsAreNext
<1>3. DOMAIN Partitions = Usable /\ \A q \in Usable : Partitions[q] = Part(StoreOf(q))
  BY <1>2 DEF Parts
<1>4. Parts' = [q \in Usable' |-> Part(StoreOf(q)')]
  BY DEF Parts
<1>5. Partitions' = [q \in DOMAIN Partitions \ {o} |-> Partitions[q]]
  BY <1>1, <1>2, <1>3, <1>4
<1>6. CASE o \in Usable
  <2>1. Abstract!Destroy
    BY <1>3, <1>5, <1>6 DEF Abstract!Destroy, Abstract!Drop
  <2> QED
    BY <1>1, <2>1 DEF Abstract!Next
<1>7. CASE o \notin Usable
  <2>1. Partitions = [q \in DOMAIN Partitions |-> Partitions[q]]
    BY <1>2 DEF Parts
  <2>2. DOMAIN Partitions \ {o} = DOMAIN Partitions
    BY <1>3, <1>7
  <2> QED
    BY <1>1, <1>5, <2>1, <2>2
<1> QED
  BY <1>6, <1>7

(***************************************************************************)
(* The theorems.                                                           *)
(***************************************************************************)

\* Before any object there is nothing to be unsound.
LEMMA InitIsSound == Init => UFInv /\ Abstract!Init
<1> SUFFICES ASSUME Init PROVE UFInv /\ Abstract!Init
  OBVIOUS
<1>1. /\ object = [o \in {} |-> o] /\ moved = {} /\ heap = [b \in {} |-> b]
      /\ Live = {} /\ Usable = {} /\ DOMAIN heap = {}
  BY DEF Init, Live, Usable
<1>2. Tabled
  BY <1>1 DEF Tabled
<1>3. PointersOwn
  BY <1>1 DEF PointersOwn
<1>4. UFInv
  BY <1>1, <1>2, <1>3 DEF UFInv
<1>5. Partitions = [o \in {} |-> Abstract!EmptyPartition]
  BY <1>1 DEF Partitions
<1> QED
  BY <1>4, <1>5 DEF Abstract!Init

\* Every step of Next keeps the invariant and is a step of PartitionStore, or
\* changes no partition.
LEMMA NextIsSound ==
  UFInv /\ [Next]_vars => UFInv' /\ [Abstract!Next]_Partitions
<1> SUFFICES ASSUME UFInv, [Next]_vars
             PROVE  UFInv' /\ (Abstract!Next \/ UNCHANGED Partitions)
  OBVIOUS
<1>1. ASSUME NEW o \in Object, Construct(o)
      PROVE  UFInv' /\ (Abstract!Next \/ UNCHANGED Partitions)
  BY <1>1, ConstructStep
<1>2. ASSUME NEW o \in Object, DisconnectAllSets(o)
      PROVE  UFInv' /\ (Abstract!Next \/ UNCHANGED Partitions)
  BY <1>2, DisconnectStep
<1>3. ASSUME NEW o \in Object, Destroy(o)
      PROVE  UFInv' /\ (Abstract!Next \/ UNCHANGED Partitions)
  BY <1>3, DestroyStep
<1>4. ASSUME NEW o \in Object, NEW list \in Lists, ConstructOf(o, list)
      PROVE  UFInv' /\ (Abstract!Next \/ UNCHANGED Partitions)
  BY <1>4, ConstructOfStep
<1>5. ASSUME NEW o \in Object, NEW e \in Elem, Find(o, e)
      PROVE  UFInv' /\ (Abstract!Next \/ UNCHANGED Partitions)
  BY <1>5, FindStep
<1>6. ASSUME NEW o \in Object, NEW e \in Elem, AddInPlace(o, e)
      PROVE  UFInv' /\ (Abstract!Next \/ UNCHANGED Partitions)
  BY <1>6, AddInPlaceStep
<1>7. ASSUME NEW o \in Object, NEW e \in Elem, AddGrowing(o, e)
      PROVE  UFInv' /\ (Abstract!Next \/ UNCHANGED Partitions)
  BY <1>7, AddGrowingStep
<1>8. ASSUME NEW o \in Object, NEW a \in Elem, NEW b \in Elem, UnionSets(o, a, b)
      PROVE  UFInv' /\ (Abstract!Next \/ UNCHANGED Partitions)
  BY <1>8, UnionSetsStep
<1>9. ASSUME NEW o \in Object, NEW p \in Object, CopyFrom(o, p)
      PROVE  UFInv' /\ (Abstract!Next \/ UNCHANGED Partitions)
  BY <1>9, CopyFromStep
<1>10. ASSUME NEW o \in Object, NEW p \in Object, MoveConstruct(o, p)
       PROVE  UFInv' /\ (Abstract!Next \/ UNCHANGED Partitions)
  BY <1>10, MoveConstructStep
<1>11. ASSUME NEW o \in Object, NEW p \in Object, MoveAssign(o, p)
       PROVE  UFInv' /\ (Abstract!Next \/ UNCHANGED Partitions)
  BY <1>11, MoveAssignStep
<1>12. CASE UNCHANGED vars
  <2>1. object' = object /\ moved' = moved /\ heap' = heap
    BY <1>12 DEF vars
  <2>2. Usable' = Usable /\ Live' = Live
    BY <2>1 DEF Usable, Live
  <2>3. Tabled'
    BY <2>1, <2>2 DEF UFInv, Tabled
  <2>4. PointersOwn'
    <3>1. /\ \A o : Buffers(o)' = Buffers(o)
          /\ \A o : Tables(o)' = Tables(o)
      BY <2>1 DEF Buffers, Tables
    <3> QED
      BY <2>1, <2>2, <3>1 DEF UFInv, PointersOwn
  <2>5. \A o : StoreOf(o)' = StoreOf(o)
    BY <2>1 DEF StoreOf
  <2>6. UFInv'
    BY <2>2, <2>3, <2>4, <2>5 DEF UFInv
  <2>7. Partitions = Parts /\ Partitions' = Parts'
    BY <2>6, PartitionsAre, PartitionsAreNext
  <2>8. Parts' = Parts
    BY <2>2, <2>5 DEF Parts
  <2> QED
    BY <2>6, <2>7, <2>8
<1> QED
  BY <1>1, <1>2, <1>3, <1>4, <1>5, <1>6, <1>7, <1>8, <1>9, <1>10, <1>11, <1>12 DEF Next

\* The forests of every object in use are sound and its own, after any calls.
THEOREM Invariance == Spec => []UFInv
<1>1. Init => UFInv
  BY InitIsSound
<1>2. UFInv /\ [Next]_vars => UFInv'
  BY NextIsSound
<1> QED
  BY <1>1, <1>2, PTL DEF Spec

\* No disjoint_sets points at a table that is freed or of another object.
THEOREM AlwaysPointersOwn == Spec => []PointersOwn
<1>1. UFInv => PointersOwn
  BY DEF UFInv
<1> QED
  BY <1>1, Invariance, PTL

\* Ranks bound the height of every forest by the logarithm of its size.
THEOREM AlwaysShallow == Spec => []ShallowForest
<1>1. UFInv => ShallowForest
  <2> SUFFICES ASSUME UFInv, NEW o \in Usable
               PROVE  LET parent == heap[object[o].parent]
                          rank   == heap[object[o].rank]
                      IN  \A i \in DOMAIN parent :
                            /\ parent[i] # i => rank[i] < rank[parent[i]]
                            /\ parent[i] = i =>
                                 2^rank[i] <= Cardinality({j \in DOMAIN parent :
                                                             Root(parent)[j] = i})
    BY DEF ShallowForest
  <2>1. PICK parent, rank : parent = heap[object[o].parent] /\ rank = heap[object[o].rank]
    OBVIOUS
  <2>2. PICK n \in Nat : Forest(Entries(n), parent, rank) /\ Heavy(Entries(n), parent, rank)
    BY <2>1, TablesOf DEF Sound
  <2>3. DOMAIN parent = Ids(Entries(n))
    BY <2>2 DEF Forest
  <2>4. \A i \in DOMAIN parent : parent[i] # i => rank[i] < rank[parent[i]]
    BY <2>2, <2>3 DEF Forest
  <2>5. ASSUME NEW i \in DOMAIN parent, parent[i] = i
        PROVE  2^rank[i] <= Cardinality({j \in DOMAIN parent : Root(parent)[j] = i})
    <3>1. 2^rank[i] <= Cardinality(Members(Entries(n), parent, i))
      BY <2>2, <2>3, <2>5 DEF Heavy
    <3>2. Members(Entries(n), parent, i) = {j \in DOMAIN parent : Root(parent)[j] = i}
      BY <2>3 DEF Members
    <3> QED
      BY <3>1, <3>2
  <2> QED
    BY <2>1, <2>4, <2>5
<1> QED
  BY <1>1, Invariance, PTL

\* count_sets is the number of the representatives, for every object in use.
THEOREM AlwaysCountsSets == Spec => []CountSetsExact
<1>1. UFInv => CountSetsExact
  <2> SUFFICES ASSUME UFInv, NEW o \in Usable
               PROVE  CountSets(o) = Cardinality({At(o, e) : e \in Elems(o)})
    BY DEF CountSetsExact
  <2>1. PICK t : t = StoreOf(o)
    OBVIOUS
  <2>2. /\ t.parent = heap[object[o].parent] /\ t.rank = heap[object[o].rank]
        /\ t.id = object[o].id /\ Sound(t) /\ Partitions[o] = Part(t)
    BY <2>1, TablesOf
  <2>3. Elems(o) = DOMAIN t.id
    BY <2>2 DEF Elems
  <2>4. \A e \in Elems(o) : At(o, e) = Part(t)[e]
    <3>1. Partitions[o] = [e \in Elems(o) |-> At(o, e)]
      BY DEF Partitions
    <3> QED
      BY <2>2, <3>1
  <2>5. CASE Elems(o) = {}
    <3>1. {At(o, e) : e \in Elems(o)} = {} /\ CountSets(o) = 0
      BY <2>5 DEF CountSets
    <3> QED
      BY <3>1, FS_EmptySet
  <2>6. CASE Elems(o) # {}
    <3>1. CountSets(o) = Cardinality({i \in DOMAIN t.rank : t.parent[i] = i})
      BY <2>2, <2>6 DEF CountSets
    <3>2. {At(o, e) : e \in Elems(o)} = {Part(t)[e] : e \in DOMAIN t.id}
      BY <2>3, <2>4
    <3> QED
      BY <2>2, <2>3, <2>6, <3>1, <3>2, RootsCount
  <2> QED
    BY <2>5, <2>6
<1> QED
  BY <1>1, Invariance, PTL

\* The objects are independent partitions with stable representatives.
THEOREM BehavesLikePartitions == Spec => IndependentPartitions
<1>1. Init => Abstract!Init
  BY InitIsSound
<1>2. UFInv /\ [Next]_vars => [Abstract!Next]_Partitions
  BY NextIsSound
<1> QED
  BY <1>1, <1>2, Invariance, PTL DEF Spec, IndependentPartitions, Abstract!Spec
=============================================================================
