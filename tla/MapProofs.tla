------------------------------ MODULE MapProofs ------------------------------
(***************************************************************************)
(* MapImpl keeps its inductive invariant.  First facts on connectivity,    *)
(* ranks and partitions: connectivity being defined by saturated sets,     *)
(* none of them needs an induction.  Then one lemma per helper of          *)
(* MapImpl.cc, each saying that the helper leaves a consistent map         *)
(* consistent, the mutations, rebuild, and the theorems on MapImpl.        *)
(*                                                                         *)
(* Then what a mutation leaves for callers to see: the costs and the doors *)
(* that each helper writes, put together for the four kinds of mutation,   *)
(* and the colours that a mutation takes, each of which some cell wears.   *)
(* With the former the views of a program implement the pictures of        *)
(* Worlds: a batch, taken one mutation at a time, amounts to the last call *)
(* for each cell, and no other view sees it.                               *)
(***************************************************************************)
EXTENDS Views, FiniteSetTheorems, WellFoundedInduction, SequenceTheorems, TLAPS

(***************************************************************************)
(* Connectivity.                                                           *)
(***************************************************************************)

\* Classes(V, E)[x], without its LET.
LEMMA ClassDef ==
  ASSUME NEW V, NEW E, NEW x \in V
  PROVE  Classes(V, E)[x] =
           {y \in V : \A S \in SUBSET V : IsSaturated(S, E) /\ x \in S => y \in S}
BY DEF Classes, Saturated

\* A class has its own vertex and is a set of vertices.
LEMMA ClassReflexive ==
  ASSUME NEW V, NEW E, NEW x \in V
  PROVE  x \in Classes(V, E)[x] /\ Classes(V, E)[x] \subseteq V
BY ClassDef

\* A saturated set that has a vertex has the class of the vertex.
LEMMA ClassInside ==
  ASSUME NEW V, NEW E, NEW x \in V, NEW S \in SUBSET V, IsSaturated(S, E), x \in S
  PROVE  Classes(V, E)[x] \subseteq S
BY ClassDef

\* What no edge leaves, no edge enters.
LEMMA ComplementSaturated ==
  ASSUME NEW V, NEW E \in SUBSET (V \X V), NEW S \in SUBSET V, IsSaturated(S, E)
  PROVE  IsSaturated(V \ S, E)
BY DEF IsSaturated

\* A class is itself saturated.
LEMMA ClassSaturated ==
  ASSUME NEW V, NEW E \in SUBSET (V \X V), NEW x \in V
  PROVE  IsSaturated(Classes(V, E)[x], E)
<1> DEFINE C == Classes(V, E)[x]
<1> SUFFICES ASSUME NEW e \in E PROVE e[1] \in C <=> e[2] \in C
  BY DEF IsSaturated
<1>1. e[1] \in V /\ e[2] \in V
  OBVIOUS
<1>2. \A S \in SUBSET V : IsSaturated(S, E) => (e[1] \in S <=> e[2] \in S)
  BY DEF IsSaturated
<1> QED
  BY <1>1, <1>2, ClassDef

\* Being connected is symmetric: a set that separated them the other way round
\* would have a saturated complement.
LEMMA ClassSymmetric ==
  ASSUME NEW V, NEW E \in SUBSET (V \X V), NEW x \in V,
         NEW y \in Classes(V, E)[x]
  PROVE  x \in Classes(V, E)[y]
<1>1. y \in V
  BY ClassReflexive
<1>2. ASSUME NEW S \in SUBSET V, IsSaturated(S, E), y \in S PROVE x \in S
  <2>1. SUFFICES ASSUME x \notin S PROVE FALSE
    OBVIOUS
  <2>2. IsSaturated(V \ S, E)
    BY <1>2, ComplementSaturated
  <2>3. Classes(V, E)[x] \subseteq V \ S
    BY <2>1, <2>2, ClassInside
  <2> QED
    BY <2>3, <1>2
<1> QED
  BY <1>1, <1>2, ClassDef

\* Connected vertices have one class.
LEMMA ClassEqual ==
  ASSUME NEW V, NEW E \in SUBSET (V \X V), NEW x \in V,
         NEW y \in Classes(V, E)[x]
  PROVE  Classes(V, E)[y] = Classes(V, E)[x]
<1>1. y \in V /\ x \in Classes(V, E)[y]
  BY ClassReflexive, ClassSymmetric
<1>2. Classes(V, E)[y] \subseteq Classes(V, E)[x]
  BY <1>1, ClassSaturated, ClassInside, ClassReflexive
<1>3. Classes(V, E)[x] \subseteq Classes(V, E)[y]
  BY <1>1, ClassSaturated, ClassInside, ClassReflexive
<1> QED
  BY <1>2, <1>3

\* Labels name the classes.
LEMMA LabelsAreClasses ==
  ASSUME NEW V, NEW E \in SUBSET (V \X V), NEW label, Labels(V, E, label),
         NEW a \in V, NEW b \in V
  PROVE  label[a] = label[b] <=> b \in Classes(V, E)[a]
<1>1. ASSUME label[a] = label[b] PROVE b \in Classes(V, E)[a]
  <2>1. Classes(V, E)[a] \in Saturated(V, E)
    BY ClassSaturated, ClassReflexive DEF Saturated
  <2> QED
    BY <1>1, <2>1, ClassReflexive DEF Labels
<1>2. ASSUME b \in Classes(V, E)[a] PROVE label[a] = label[b]
  <2> DEFINE S == {v \in V : label[v] = label[a]}
  <2>1. IsSaturated(S, E)
    BY DEF Labels, IsSaturated
  <2> QED
    BY <1>2, <2>1, ClassInside
<1> QED
  BY <1>1, <1>2

\* All the edges are within a part of the vertices.
IsPart(V, W, E) == W \subseteq V /\ E \subseteq W \X W

\* A vertex without edges is the only one of its class, and the classes of the
\* others are those of the graph without it.
LEMMA ClassesOfPart ==
  ASSUME NEW V, NEW W, NEW E, IsPart(V, W, E), NEW x \in V
  PROVE  /\ x \in W => Classes(V, E)[x] = Classes(W, E)[x]
         /\ x \notin W => Classes(V, E)[x] = {x}
<1> SUFFICES ASSUME W \in SUBSET V, E \in SUBSET (W \X W)
             PROVE  /\ x \in W => Classes(V, E)[x] = Classes(W, E)[x]
                    /\ x \notin W => Classes(V, E)[x] = {x}
  BY DEF IsPart
<1>1. CASE x \notin W
  <2>1. IsSaturated({x}, E)
    BY <1>1 DEF IsSaturated
  <2> QED
    BY <1>1, <2>1, ClassInside, ClassReflexive
<1>2. CASE x \in W
  <2>1. \A S \in SUBSET W : S \in SUBSET V
    OBVIOUS
  <2>2. Classes(V, E)[x] \subseteq Classes(W, E)[x]
    <3>1. IsSaturated(Classes(W, E)[x], E)
      BY <1>2, ClassSaturated
    <3>2. Classes(W, E)[x] \in SUBSET V /\ x \in Classes(W, E)[x]
      BY <1>2, ClassReflexive
    <3> QED
      BY <3>1, <3>2, ClassInside
  <2>3. Classes(W, E)[x] \subseteq Classes(V, E)[x]
    <3> DEFINE S == Classes(V, E)[x] \cap W
    <3>1. IsSaturated(Classes(V, E)[x], E)
      <4>1. E \in SUBSET (V \X V)
        OBVIOUS
      <4> QED
        BY <4>1, ClassSaturated
    <3>2. IsSaturated(S, E)
      BY <3>1 DEF IsSaturated
    <3>3. x \in S /\ S \in SUBSET W
      BY <1>2, ClassReflexive
    <3> QED
      BY <1>2, <3>2, <3>3, ClassInside
  <2> QED
    BY <1>2, <2>2, <2>3
<1> QED
  BY <1>1, <1>2

(***************************************************************************)
(* Labels of a graph that changes.                                         *)
(***************************************************************************)

\* A labelling compares as the classes of the part do.
LEMMA LabelsOfPart ==
  ASSUME NEW V, NEW W, NEW E, IsPart(V, W, E), NEW label,
         Labels(V, E, label), NEW a \in V, NEW b \in V
  PROVE  label[a] = label[b] <=> a = b \/ (a \in W /\ b \in Classes(W, E)[a])
<1>1. E \in SUBSET (V \X V)
  BY DEF IsPart
<1>2. label[a] = label[b] <=> b \in Classes(V, E)[a]
  BY <1>1, LabelsAreClasses
<1>3. a \in Classes(V, E)[a]
  BY ClassReflexive
<1>4. /\ a \in W => Classes(V, E)[a] = Classes(W, E)[a]
      /\ a \notin W => Classes(V, E)[a] = {a}
  BY ClassesOfPart
<1> QED
  BY <1>2, <1>3, <1>4

\* Only the names of the edges changed, or their directions.
LEMMA LabelsOtherEdges ==
  ASSUME NEW V, NEW E \in SUBSET (V \X V), NEW F \in SUBSET (V \X V), NEW label,
         Labels(V, E, label),
         \A e \in E : e \in F \/ <<e[2], e[1]>> \in F,
         \A f \in F : f \in E \/ <<f[2], f[1]>> \in E
  PROVE  Labels(V, F, label)
<1>1. ASSUME NEW f \in F PROVE label[f[1]] = label[f[2]]
  BY DEF Labels
<1>2. ASSUME NEW S \in SUBSET V, IsSaturated(S, F) PROVE IsSaturated(S, E)
  <2> SUFFICES ASSUME NEW e \in E PROVE e[1] \in S <=> e[2] \in S
    BY DEF IsSaturated
  <2> QED
    BY <1>2 DEF IsSaturated
<1> QED
  BY <1>1, <1>2 DEF Labels, Saturated

\* A vertex that no edge touches can be taken away.
LEMMA LabelsWithout ==
  ASSUME NEW V, NEW E, NEW c, NEW label, NEW less, Labels(V, E, label),
         \A e \in E : e[1] # c /\ e[2] # c /\ e[1] \in V /\ e[2] \in V,
         \A v \in V \ {c} : less[v] = label[v]
  PROVE  Labels(V \ {c}, E, less)
<1>1. \A e \in E : less[e[1]] = less[e[2]]
  BY DEF Labels
<1>2. \A S \in SUBSET (V \ {c}) : S \in SUBSET V
  OBVIOUS
<1> QED
  BY <1>1, <1>2 DEF Labels, Saturated

\* A vertex alone, with a label that no other vertex has, can be added.
LEMMA LabelsAlone ==
  ASSUME NEW V, NEW E \in SUBSET (V \X V), NEW c, c \notin V, NEW label, NEW more,
         Labels(V, E, label),
         \A v \in V : more[v] = label[v] /\ more[c] # label[v]
  PROVE  Labels(V \cup {c}, E, more)
<1>1. \A e \in E : more[e[1]] = more[e[2]]
  BY DEF Labels
<1>2. ASSUME NEW S \in SUBSET (V \cup {c}), IsSaturated(S, E),
             NEW a \in V \cup {c}, NEW b \in V \cup {c},
             more[a] = more[b], a \in S
      PROVE  b \in S
  <2>1. S \cap V \in Saturated(V, E)
    <3> SUFFICES ASSUME NEW e \in E PROVE e[1] \in S \cap V <=> e[2] \in S \cap V
      BY DEF Saturated, IsSaturated
    <3> QED
      BY <1>2 DEF IsSaturated
  <2>2. CASE a = c
    BY <1>2, <2>2
  <2>3. CASE a # c
    <3>1. b # c /\ a \in V /\ b \in V /\ label[a] = label[b]
      BY <1>2, <2>3
    <3> QED
      BY <1>2, <2>1, <3>1 DEF Labels
  <2> QED
    BY <2>2, <2>3
<1> QED
  BY <1>1, <1>2 DEF Labels, Saturated

\* A vertex joined to one vertex, with the label of that one, can be added.
LEMMA LabelsJoined ==
  ASSUME NEW V, NEW E \in SUBSET (V \X V), NEW c, c \notin V, NEW n \in V,
         NEW label, NEW more, Labels(V, E, label),
         \A v \in V : more[v] = label[v],
         more[c] = label[n]
  PROVE  Labels(V \cup {c}, E \cup {<<c, n>>}, more)
<1> DEFINE F == E \cup {<<c, n>>}
<1>1. \A e \in F : more[e[1]] = more[e[2]]
  BY DEF Labels
<1>2. ASSUME NEW S \in SUBSET (V \cup {c}), IsSaturated(S, F),
             NEW a \in V \cup {c}, NEW b \in V \cup {c},
             more[a] = more[b], a \in S
      PROVE  b \in S
  <2>1. S \cap V \in Saturated(V, E)
    <3> SUFFICES ASSUME NEW e \in E PROVE e[1] \in S \cap V <=> e[2] \in S \cap V
      BY DEF Saturated, IsSaturated
    <3> QED
      BY <1>2 DEF IsSaturated
  <2>2. c \in S <=> n \in S
    <3>1. <<c, n>> \in F
      OBVIOUS
    <3>2. <<c, n>>[1] = c /\ <<c, n>>[2] = n
      OBVIOUS
    <3> QED
      BY <1>2, <3>1, <3>2 DEF IsSaturated
  <2> DEFINE in(v) == IF v = c THEN n ELSE v
  <2>3. in(a) \in S \cap V /\ in(b) \in V /\ label[in(a)] = label[in(b)]
    BY <1>2, <2>2
  <2>4. in(b) \in S
    BY <2>1, <2>3 DEF Labels
  <2> QED
    BY <2>2, <2>4
<1> QED
  BY <1>1, <1>2 DEF Labels, Saturated

\* Labels that agree exactly on the vertices of a class name the classes.
LEMMA ClassLabels ==
  ASSUME NEW V, NEW E \in SUBSET (V \X V), NEW label,
         \A a, b \in V : label[a] = label[b] <=> b \in Classes(V, E)[a]
  PROVE  Labels(V, E, label)
<1>1. ASSUME NEW e \in E PROVE label[e[1]] = label[e[2]]
  <2>1. e[1] \in V /\ e[2] \in V
    OBVIOUS
  <2>2. e[2] \in Classes(V, E)[e[1]]
    BY <2>1, ClassSaturated, ClassReflexive DEF IsSaturated
  <2> QED
    BY <2>1, <2>2
<1>2. ASSUME NEW S \in SUBSET V, IsSaturated(S, E), NEW a \in V, NEW b \in V,
             label[a] = label[b], a \in S
      PROVE  b \in S
  BY <1>2, ClassInside
<1> QED
  BY <1>1, <1>2 DEF Labels, Saturated

\* The vertex c is taken away: room is the rest of its class, R its edges.
Cut(V, T, E, c, label, room, R) ==
  /\ T \in SUBSET V /\ E \in SUBSET (T \X T) /\ c \in T
  /\ Labels(V, E, label)
  /\ room = {v \in T \ {c} : label[v] = label[c]}
  /\ R = {e \in E : e[1] \in room /\ e[2] \in room}

\* near has the ends in room of the edges at c.
HasEnds(near, E, c, room) ==
  \A e \in E : /\ e[1] = c /\ e[2] \in room => e[2] \in near
               /\ e[2] = c /\ e[1] \in room => e[1] \in near

\* room falls into pieces, each with a former neighbour of c.
LEMMA CutReached ==
  ASSUME NEW V, NEW T, NEW E, NEW c, NEW label, NEW room, NEW R,
         Cut(V, T, E, c, label, room, R),
         NEW near, HasEnds(near, E, c, room), NEW v \in room
  PROVE  \E s \in near \cap room : v \in Classes(room, R)[s]
<1> USE DEF Cut, HasEnds
<1> DEFINE W == Classes(room, R)[v]
<1> SUFFICES ASSUME \A s \in near \cap room : v \notin Classes(room, R)[s]
             PROVE  FALSE
  OBVIOUS
<1>1. R \in SUBSET (room \X room)
  OBVIOUS
<1>2. v \in W /\ W \subseteq room /\ IsSaturated(W, R)
  BY <1>1, ClassReflexive, ClassSaturated
<1>3. \A s \in W : s \notin near
  BY <1>1, <1>2, ClassSymmetric
<1> HIDE DEF W
<1>4. \A e \in E : label[e[1]] = label[e[2]] /\ e[1] \in T /\ e[2] \in T
  BY DEF Labels
<1>5. IsSaturated(W, E)
  <2> SUFFICES ASSUME NEW e \in E PROVE e[1] \in W <=> e[2] \in W
    BY DEF IsSaturated
  <2>1. ASSUME e[1] \in W PROVE e[2] \in W
    <3>1. e[2] # c
      BY <1>2, <1>3, <2>1
    <3>2. e[2] \in room /\ e[1] \in room
      BY <1>2, <1>4, <2>1, <3>1
    <3> QED
      BY <1>2, <2>1, <3>2 DEF IsSaturated
  <2>2. ASSUME e[2] \in W PROVE e[1] \in W
    <3>1. e[1] # c
      BY <1>2, <1>3, <2>2
    <3>2. e[2] \in room /\ e[1] \in room
      BY <1>2, <1>4, <2>2, <3>1
    <3> QED
      BY <1>2, <2>2, <3>2 DEF IsSaturated
  <2> QED
    BY <2>1, <2>2
<1>6. c \in W
  <2>1. W \in Saturated(V, E)
    BY <1>2, <1>5 DEF Saturated
  <2>2. v \in V /\ c \in V /\ label[v] = label[c]
    OBVIOUS
  <2> QED
    BY <1>2, <2>1, <2>2 DEF Labels
<1> QED
  BY <1>2, <1>6

\* The pieces of room have new labels, one for each piece and none of them a
\* former one; the other vertices keep theirs.
Relabelled(U, room, R, label, new) ==
  /\ \A v \in U : v \notin room => new[v] = label[v]
  /\ \A v, w \in U : v \in room /\ w \notin room => new[v] # label[w]
  /\ \A v, w \in room : new[v] = new[w] <=> w \in Classes(room, R)[v]

\* Labelling the pieces anew, and apart from the other labels, labels the graph
\* without c.
LEMMA CutLabels ==
  ASSUME NEW V, NEW T, NEW E, NEW c, NEW label, NEW room, NEW R,
         Cut(V, T, E, c, label, room, R),
         NEW U, U = V \ {c}, NEW F, F = {e \in E : e[1] # c /\ e[2] # c},
         NEW new, Relabelled(U, room, R, label, new)
  PROVE  Labels(U, F, new)
<1> USE DEF Cut, Relabelled
<1>1. R \in SUBSET (room \X room) /\ room \subseteq U
  OBVIOUS
<1>2. \A e \in E : label[e[1]] = label[e[2]] /\ e[1] \in T /\ e[2] \in T
  BY DEF Labels
<1>3. \A e \in F : e[1] \in room <=> e[2] \in room
  BY <1>2
<1>4. ASSUME NEW e \in F PROVE new[e[1]] = new[e[2]]
  <2>1. CASE e[1] \in room
    <3>1. e \in R /\ e[1] \in room /\ e[2] \in room
      BY <1>3, <2>1
    <3>2. e[2] \in Classes(room, R)[e[1]]
      BY <1>1, <3>1, ClassSaturated, ClassReflexive DEF IsSaturated
    <3> QED
      BY <3>1, <3>2
  <2>2. CASE e[1] \notin room
    BY <1>2, <1>3, <2>2
  <2> QED
    BY <2>1, <2>2
<1>5. ASSUME NEW S \in SUBSET U, IsSaturated(S, F), NEW a \in U, NEW b \in U,
             new[a] = new[b], a \in S
      PROVE  b \in S
  <2>1. CASE a \in room /\ b \in room
    <3>1. IsSaturated(S \cap room, R)
      BY <1>3, <1>5 DEF IsSaturated
    <3>2. b \in Classes(room, R)[a]
      BY <1>5, <2>1
    <3> QED
      BY <1>1, <1>5, <2>1, <3>1, <3>2, ClassInside
  <2>2. CASE a \notin room /\ b \notin room
    <3> DEFINE W == S \ room
    <3>1. IsSaturated(W, E)
      <4> SUFFICES ASSUME NEW e \in E PROVE e[1] \in W <=> e[2] \in W
        BY DEF IsSaturated
      <4>1. CASE e \in F
        BY <1>3, <1>5, <4>1 DEF IsSaturated
      <4>2. CASE e[1] = c \/ e[2] = c
        BY <1>2, <4>2
      <4> QED
        BY <4>1, <4>2
    <3>2. W \in Saturated(V, E) /\ a \in W
      BY <1>5, <2>2, <3>1 DEF Saturated
    <3>3. label[a] = label[b] /\ a \in V /\ b \in V
      BY <1>5, <2>2
    <3> QED
      BY <3>2, <3>3 DEF Labels
  <2>3. CASE a \in room <=> b \notin room
    BY <1>5, <2>3
  <2> QED
    BY <2>1, <2>2, <2>3
<1> QED
  BY <1>4, <1>5 DEF Labels, Saturated

(***************************************************************************)
(* Ranks.                                                                  *)
(***************************************************************************)

\* A nonempty set of naturals has a least member.
LEMMA LeastExists ==
  ASSUME NEW S \in SUBSET Nat, S # {}
  PROVE  Least(S) \in S /\ \A y \in S : Least(S) <= y
<1> DEFINE R == OpToRel(<, Nat)
<1>1. \E x \in S : \A y \in S : <<y, x>> \notin R
  BY NatLessThanWellFounded, WFMin
<1>2. \A x, y \in Nat : <<y, x>> \notin R => x <= y
  BY DEF OpToRel
<1>3. \E x \in S : \A y \in S : x <= y
  BY <1>1, <1>2
<1> QED
  BY <1>3 DEF Least

\* The rank of a member is less than the number of members.
LEMMA RankBound ==
  ASSUME NEW S \in SUBSET Nat, IsFiniteSet(S), NEW x \in S
  PROVE  Rank(S, x) \in Nat /\ Rank(S, x) < Cardinality(S)
<1> DEFINE R == {y \in S : y < x}
<1>1. R \subseteq S /\ R # S
  OBVIOUS
<1>2. IsFiniteSet(R) /\ Cardinality(R) <= Cardinality(S)
      /\ (Cardinality(R) = Cardinality(S) => R = S)
  BY <1>1, FS_Subset
<1>3. Cardinality(R) \in Nat /\ Cardinality(S) \in Nat
  BY <1>2, FS_CardinalityType
<1> QED
  BY <1>1, <1>2, <1>3 DEF Rank

\* Different members have different ranks.
LEMMA RankInjective ==
  ASSUME NEW S \in SUBSET Nat, IsFiniteSet(S), NEW x \in S, NEW y \in S,
         Rank(S, x) = Rank(S, y)
  PROVE  x = y
<1>1. ASSUME NEW u \in S, NEW v \in S, u < v PROVE Rank(S, u) # Rank(S, v)
  <2> DEFINE R == {z \in S : z < u}
             T == {z \in S : z < v}
  <2>1. R \subseteq T /\ R # T
    <3>1. u \in T /\ u \notin R
      BY <1>1
    <3>2. \A z \in S : z \in Nat /\ u \in Nat /\ v \in Nat
      OBVIOUS
    <3>3. \A z \in S : z < u => z < v
      BY <1>1, <3>2
    <3> QED
      BY <3>1, <3>3
  <2>2. IsFiniteSet(T)
    BY FS_Subset
  <2>3. Cardinality(R) = Cardinality(T) => R = T
    BY <2>1, <2>2, FS_Subset
  <2> QED
    BY <2>1, <2>3 DEF Rank
<1> QED
  BY <1>1

(***************************************************************************)
(* Partitions.                                                             *)
(***************************************************************************)

\* Touch adds a class of one colour, or nothing.
LEMMA TouchPartition ==
  ASSUME NEW uf, IsPartition(uf), NEW k
  PROVE  /\ IsPartition(Touch(uf, k))
         /\ DOMAIN Touch(uf, k) = DOMAIN uf \cup {k}
         /\ \A j \in DOMAIN uf : Touch(uf, k)[j] = uf[j]
         /\ k \notin DOMAIN uf => Touch(uf, k)[k] = k
BY DEF IsPartition, Touch

\* Unite: what is linked has one representative, what had one representative
\* keeps having one, and nothing else is merged -- a set of representatives that
\* no link leaves still tells its colours from the others.
LEMMA UnitePartition ==
  ASSUME NEW uf, IsPartition(uf), NEW links \in SUBSET ((DOMAIN uf) \X (DOMAIN uf))
  PROVE  LET u == Unite(uf, links)
         IN  /\ IsPartition(u)
             /\ DOMAIN u = DOMAIN uf
             /\ \A k \in DOMAIN uf : u[uf[k]] = u[k]
             /\ \A e \in links : u[e[1]] = u[e[2]]
             /\ \A S \in SUBSET Representatives(uf) :
                  (\A e \in links : uf[e[1]] \in S <=> uf[e[2]] \in S) =>
                    \A j, k \in DOMAIN uf :
                      u[j] = u[k] /\ uf[j] \in S => uf[k] \in S
<1> DEFINE u == Unite(uf, links)
           joined == {<<uf[e[1]], uf[e[2]]>> : e \in links}
           ends == {e[1] : e \in joined} \cup {e[2] : e \in joined}
           class == Classes(ends, joined)
           merged == [r \in ends |-> Representative(class[r])]
<1>0. \A e \in links : e[1] \in DOMAIN uf /\ e[2] \in DOMAIN uf
  OBVIOUS
<1> USE DEF IsPartition
<1>1. u = [k \in DOMAIN uf |-> IF uf[k] \in ends THEN merged[uf[k]] ELSE uf[k]]
  BY DEF Unite
<1>2. joined \in SUBSET (ends \X ends)
  OBVIOUS
<1>3. ends \subseteq Representatives(uf)
  <2>1. \A e \in links : uf[e[1]] \in Representatives(uf)
                         /\ uf[e[2]] \in Representatives(uf)
    BY <1>0 DEF Representatives
  <2> QED
    BY <2>1
<1>4. \A r \in Representatives(uf) : r \in DOMAIN uf /\ uf[r] = r
  BY DEF Representatives
<1>5. \A r \in ends : merged[r] \in class[r] /\ merged[r] \in ends
  <2>1. \A r \in ends : r \in class[r] /\ class[r] \subseteq ends
    BY ClassReflexive
  <2>2. \A r \in ends : Representative(class[r]) \in class[r]
    BY <2>1 DEF Representative
  <2> HIDE DEF ends, class
  <2> QED
    BY <2>1, <2>2
<1>6. \A r \in ends : \A s \in class[r] : class[s] = class[r] /\ s \in ends
  BY <1>2, ClassEqual, ClassReflexive
<1> HIDE DEF u, joined, ends, class, merged
<1>7. \A k \in DOMAIN uf : u[k] \in DOMAIN uf /\ uf[u[k]] = u[k]
  BY <1>1, <1>3, <1>4, <1>5
<1>8. \A k \in DOMAIN uf : u[uf[k]] = u[k]
  BY <1>1
<1>9. \A k \in DOMAIN uf : u[u[k]] = u[k]
  <2> SUFFICES ASSUME NEW k \in DOMAIN uf PROVE u[u[k]] = u[k]
    OBVIOUS
  <2>1. CASE uf[k] \in ends
    <3>1. u[k] = merged[uf[k]] /\ u[k] \in class[uf[k]] /\ u[k] \in ends
      BY <1>1, <1>5, <2>1
    <3>2. class[u[k]] = class[uf[k]]
      BY <1>6, <2>1, <3>1
    <3>3. merged[u[k]] = merged[uf[k]]
      BY <2>1, <3>1, <3>2 DEF merged
    <3> QED
      BY <1>1, <1>7, <3>1, <3>3
  <2>2. CASE uf[k] \notin ends
    BY <1>1, <2>2
  <2> QED
    BY <2>1, <2>2
<1>10. \A e \in links : u[e[1]] = u[e[2]]
  <2> SUFFICES ASSUME NEW e \in links PROVE u[e[1]] = u[e[2]]
    OBVIOUS
  <2> DEFINE a == uf[e[1]]
             b == uf[e[2]]
  <2>1. <<a, b>> \in joined
    BY DEF joined
  <2>2. a \in ends /\ b \in ends
    BY <2>1, <1>2
  <2>3. b \in class[a]
    <3>1. IsSaturated(class[a], joined)
      BY <1>2, <2>2, ClassSaturated DEF class
    <3>2. a \in class[a]
      BY <2>2, ClassReflexive DEF class
    <3>3. <<a, b>>[1] = a /\ <<a, b>>[2] = b
      OBVIOUS
    <3> QED
      BY <2>1, <3>1, <3>2, <3>3 DEF IsSaturated
  <2>4. merged[a] = merged[b]
    <3>1. class[a] = class[b]
      BY <1>6, <2>2, <2>3
    <3> HIDE DEF a, b
    <3> QED
      BY <2>2, <3>1 DEF merged
  <2>5. e[1] \in DOMAIN uf /\ e[2] \in DOMAIN uf
    BY <1>0
  <2> QED
    BY <1>1, <2>2, <2>4, <2>5
<1>11. ASSUME NEW S \in SUBSET Representatives(uf),
              \A e \in links : uf[e[1]] \in S <=> uf[e[2]] \in S,
              NEW j \in DOMAIN uf, NEW k \in DOMAIN uf,
              u[j] = u[k], uf[j] \in S
       PROVE  uf[k] \in S
  <2>1. CASE uf[j] \notin ends
    BY <1>1, <1>5, <1>11, <2>1
  <2>2. CASE uf[j] \in ends /\ uf[k] \notin ends
    BY <1>1, <1>5, <1>11, <2>2
  <2>3. CASE uf[j] \in ends /\ uf[k] \in ends
    <3> DEFINE T == S \cap ends
    <3>1. IsSaturated(T, joined)
      BY <1>2, <1>11 DEF IsSaturated, joined
    <3>2. IsSaturated(ends \ T, joined)
      BY <1>2, <3>1, ComplementSaturated
    <3>3. u[j] \in class[uf[j]] /\ u[j] \in class[uf[k]]
      BY <1>1, <1>5, <1>11, <2>3
    <3>4. u[j] \in T
      BY <1>11, <2>3, <3>1, <3>3, ClassInside DEF class
    <3>5. uf[k] \notin T => u[j] \in ends \ T
      BY <2>3, <3>2, <3>3, ClassInside DEF class
    <3> QED
      BY <3>4, <3>5
  <2> QED
    BY <2>1, <2>2, <2>3
<1>12. u \in [DOMAIN uf -> DOMAIN uf]
  BY <1>1, <1>7
<1> QED
  BY <1>7, <1>8, <1>9, <1>10, <1>11, <1>12 DEF u

\* Of that, what is said of the type.
LEMMA UniteType ==
  ASSUME NEW uf, IsPartition(uf), NEW links \in SUBSET ((DOMAIN uf) \X (DOMAIN uf))
  PROVE  IsPartition(Unite(uf, links)) /\ DOMAIN Unite(uf, links) = DOMAIN uf
BY UnitePartition

\* Vertices are coloured, and a partition of the colours labels them.
Colored(V, uf, color, label) ==
  \A v \in V : color[v] \in DOMAIN uf /\ label[v] = uf[color[v]]

\* The links name the classes that the edges L join, by any colours of them.
LinksFollow(uf, links, L, label) ==
  /\ \A l \in L : \E e \in links : uf[e[1]] = label[l[1]] /\ uf[e[2]] = label[l[2]]
  /\ \A e \in links : \E l \in L : uf[e[1]] = label[l[1]] /\ uf[e[2]] = label[l[2]]

\* Uniting the classes that new edges join labels the graph with these edges.
LEMMA UniteLabels ==
  ASSUME NEW V, NEW E \in SUBSET (V \X V), NEW L \in SUBSET (V \X V),
         NEW uf, IsPartition(uf), NEW links \in SUBSET ((DOMAIN uf) \X (DOMAIN uf)),
         NEW color, NEW before, NEW after,
         Colored(V, uf, color, before),
         Colored(V, Unite(uf, links), color, after),
         Labels(V, E, before),
         LinksFollow(uf, links, L, before)
  PROVE  Labels(V, E \cup L, after)
<1> USE DEF Colored, LinksFollow
<1> DEFINE u == Unite(uf, links)
<1>1. /\ \A k \in DOMAIN uf : u[uf[k]] = u[k]
      /\ \A e \in links : u[e[1]] = u[e[2]]
      /\ \A S \in SUBSET Representatives(uf) :
           (\A e \in links : uf[e[1]] \in S <=> uf[e[2]] \in S) =>
             \A j, k \in DOMAIN uf : u[j] = u[k] /\ uf[j] \in S => uf[k] \in S
  BY UnitePartition
<1> HIDE DEF u
<1>a. \A v \in V : after[v] = u[color[v]]
  BY DEF u
<1>2. \A e \in E \cup L : e[1] \in V /\ e[2] \in V
  OBVIOUS
<1>3. \A e \in links : e[1] \in DOMAIN uf /\ e[2] \in DOMAIN uf
  OBVIOUS
<1>4. ASSUME NEW e \in E \cup L PROVE after[e[1]] = after[e[2]]
  <2>1. CASE e \in E
    <3>1. before[e[1]] = before[e[2]]
      BY <2>1 DEF Labels
    <3>2. uf[color[e[1]]] = uf[color[e[2]]]
      BY <1>2, <3>1
    <3> QED
      BY <1>1, <1>2, <1>a, <3>2
  <2>2. CASE e \in L
    <3>1. PICK l \in links : /\ uf[l[1]] = uf[color[e[1]]]
                             /\ uf[l[2]] = uf[color[e[2]]]
      BY <1>2, <2>2
    <3> QED
      BY <1>1, <1>2, <1>3, <1>a, <3>1
  <2> QED
    BY <2>1, <2>2
<1>5. ASSUME NEW W \in SUBSET V, IsSaturated(W, E \cup L),
             NEW a \in V, NEW b \in V, after[a] = after[b], a \in W
      PROVE  b \in W
  <2> DEFINE S == {before[v] : v \in W}
  <2>1. \A x, y \in V : before[x] = before[y] /\ x \in W => y \in W
    <3>1. W \in Saturated(V, E)
      BY <1>5 DEF Saturated, IsSaturated
    <3> QED
      BY <3>1 DEF Labels
  <2>2. \A v \in V : before[v] \in S <=> v \in W
    BY <2>1
  <2>3. S \in SUBSET Representatives(uf)
    <3>1. \A v \in W : before[v] \in Representatives(uf)
      BY DEF Representatives
    <3> QED
      BY <3>1
  <2>4. ASSUME NEW e \in links PROVE uf[e[1]] \in S <=> uf[e[2]] \in S
    <3>1. PICK l \in L : uf[e[1]] = before[l[1]] /\ uf[e[2]] = before[l[2]]
      BY <1>2
    <3>2. l[1] \in W <=> l[2] \in W
      BY <1>5 DEF IsSaturated
    <3> HIDE DEF S
    <3> QED
      BY <1>2, <2>2, <3>1, <3>2
  <2>5. u[color[a]] = u[color[b]] /\ uf[color[a]] \in S
    BY <1>5, <1>a, <2>2
  <2>6. uf[color[b]] \in S
    BY <1>1, <2>3, <2>4, <2>5
  <2> QED
    BY <2>2, <2>6
<1> QED
  BY <1>4, <1>5 DEF Labels, Saturated

\* The edges from c to the vertices near it.
Star(c, near) == {<<c, n>> : n \in near}

\* The links from the colour k to the colours of the vertices in near.
LinksTo(k, color, near) == {<<k, color[n]>> : n \in near}

\* A new vertex takes the colour of one of its neighbours, or a colour of its
\* own, and its colour is united with those of its neighbours.
LEMMA UniteNewVertex ==
  ASSUME NEW V, NEW E \in SUBSET (V \X V), NEW c, c \notin V,
         NEW near \in SUBSET V, NEW links, NEW k,
         NEW uf, IsPartition(uf),
         NEW color, NEW color2, \A v \in V : color2[v] = color[v], color2[c] = k,
         NEW before, Colored(V, uf, color, before),
         NEW after, Colored(V \cup {c}, Unite(Touch(uf, k), links), color2, after),
         Labels(V, E, before),
         k \notin DOMAIN uf \/ \E n \in near : k = color[n],
         links = LinksTo(k, color, near)
  PROVE  Labels(V \cup {c}, E \cup Star(c, near), after)
<1> USE DEF Star, LinksTo
<1>0. \A v \in V : color[v] \in DOMAIN uf /\ before[v] = uf[color[v]]
  BY DEF Colored
<1>1. PICK t : /\ t = Touch(uf, k)
               /\ IsPartition(t)
               /\ DOMAIN t = (DOMAIN uf) \cup {k}
               /\ \A j \in DOMAIN uf : t[j] = uf[j]
               /\ k \notin DOMAIN uf => t[k] = k
  BY TouchPartition
<1> DEFINE U == V \cup {c}
           L == {<<c, n>> : n \in near}
           touched == [v \in U |-> t[color2[v]]]
<1>2. \A j \in DOMAIN uf : uf[j] \in DOMAIN uf
  BY DEF IsPartition
<1>3. Colored(U, Unite(t, links), color2, after)
  BY <1>1
<1>4. \A v \in V : touched[v] = before[v]
  BY <1>0, <1>1
<1>5. L \in SUBSET (U \X U)
  OBVIOUS
<1>6. links \in SUBSET ((DOMAIN t) \X (DOMAIN t))
  BY <1>0, <1>1
<1>7. Colored(U, t, color2, touched)
  BY <1>0, <1>1 DEF Colored
<1>8. LinksFollow(t, links, L, touched)
  <2> DEFINE P(n) == <<c, n>>
             Q(n) == <<k, color[n]>>
  <2>1. ASSUME NEW n \in near
        PROVE  /\ P(n) \in L /\ Q(n) \in links
               /\ t[Q(n)[1]] = touched[P(n)[1]]
               /\ t[Q(n)[2]] = touched[P(n)[2]]
    BY <1>0, <1>1
  <2>2. (\A l \in L : \E n \in near : l = P(n))
        /\ (\A e \in links : \E n \in near : e = Q(n))
    OBVIOUS
  <2> HIDE DEF P, Q, L, touched
  <2> QED
    BY <2>1, <2>2 DEF LinksFollow
<1>9. ASSUME NEW G \in SUBSET (U \X U), Labels(U, G, touched)
      PROVE  Labels(U, G \cup L, after)
  <2> HIDE DEF L, U, touched
  <2> QED
    BY <1>1, <1>3, <1>5, <1>6, <1>7, <1>8, <1>9, UniteLabels
<1>10. CASE k \notin DOMAIN uf
  <2>1. \A v \in V : touched[v] = before[v] /\ touched[c] # before[v]
    BY <1>0, <1>1, <1>2, <1>4, <1>10
  <2>2. Labels(U, E, touched)
    <3> HIDE DEF touched
    <3> QED
      BY <2>1, LabelsAlone
  <2>3. E \in SUBSET (U \X U)
    OBVIOUS
  <2> QED
    BY <1>9, <2>2, <2>3
<1>11. CASE k \in DOMAIN uf
  <2>1. PICK n \in near : k = color[n]
    BY <1>11
  <2> DEFINE F == E \cup {<<c, n>>}
  <2>2. touched[c] = before[n]
    BY <1>0, <1>1, <1>11, <2>1
  <2>3. Labels(U, F, touched)
    <3> HIDE DEF touched
    <3> QED
      BY <1>4, <2>2, LabelsJoined
  <2>4. F \in SUBSET (U \X U)
    OBVIOUS
  <2>5. F \cup L = E \cup L
    OBVIOUS
  <2>6. Labels(U, F \cup L, after)
    <3> HIDE DEF F, L, U, touched
    <3> QED
      BY <1>9, <2>3, <2>4
  <2> QED
    BY <2>5, <2>6
<1> QED
  BY <1>10, <1>11

\* A partition that is coarser than another stays so when it is united along
\* the same links, and maybe more.
LEMMA UniteCoarser ==
  ASSUME NEW uf, IsPartition(uf), NEW vf, IsPartition(vf), DOMAIN vf = DOMAIN uf,
         \A k \in DOMAIN uf : vf[uf[k]] = vf[k],
         NEW more \in SUBSET ((DOMAIN uf) \X (DOMAIN uf)), NEW links \in SUBSET more
  PROVE  \A k \in DOMAIN uf : Unite(vf, more)[Unite(uf, links)[k]] = Unite(vf, more)[k]
<1> SUFFICES ASSUME NEW k \in DOMAIN uf
             PROVE  Unite(vf, more)[Unite(uf, links)[k]] = Unite(vf, more)[k]
  OBVIOUS
<1>1. PICK u : /\ u = Unite(uf, links)
               /\ IsPartition(u)
               /\ DOMAIN u = DOMAIN uf
               /\ \A S \in SUBSET Representatives(uf) :
                    (\A e \in links : uf[e[1]] \in S <=> uf[e[2]] \in S) =>
                      \A i, j \in DOMAIN uf :
                        u[i] = u[j] /\ uf[i] \in S => uf[j] \in S
  BY UnitePartition
<1>2. PICK v : /\ v = Unite(vf, more)
               /\ \A j \in DOMAIN uf : v[vf[j]] = v[j]
               /\ \A e \in more : v[e[1]] = v[e[2]]
  BY UnitePartition
<1>3. \A j \in DOMAIN uf : uf[j] \in DOMAIN uf /\ v[uf[j]] = v[j]
  BY <1>2 DEF IsPartition
<1>4. u[k] \in DOMAIN uf /\ u[u[k]] = u[k]
  BY <1>1 DEF IsPartition
<1> DEFINE S == {r \in Representatives(uf) : v[r] = v[k]}
<1>5. \A j \in DOMAIN uf : uf[j] \in S <=> v[j] = v[k]
  BY <1>3 DEF Representatives
<1>6. \A e \in links : uf[e[1]] \in S <=> uf[e[2]] \in S
  <2> SUFFICES ASSUME NEW e \in links PROVE uf[e[1]] \in S <=> uf[e[2]] \in S
    OBVIOUS
  <2>1. e[1] \in DOMAIN uf /\ e[2] \in DOMAIN uf
    OBVIOUS
  <2> HIDE DEF S
  <2> QED
    BY <1>2, <1>5, <2>1
<1>7. S \in SUBSET Representatives(uf)
  OBVIOUS
<1> HIDE DEF S
<1>8. uf[u[k]] \in S
  BY <1>1, <1>4, <1>5, <1>6, <1>7
<1> QED
  BY <1>1, <1>2, <1>4, <1>5, <1>8

(***************************************************************************)
(* The kinds of cells.                                                     *)
(***************************************************************************)

\* The colour of a wall is no door's and no component's.
LEMMA ColorRange ==
  ASSUME NEW m, WellFormed(m)
  PROVE  /\ COLOR_IMPASSABLE \in Int /\ COLOR_IMPASSABLE < -1
         /\ COLOR_LOWEST_VALID = COLOR_IMPASSABLE + 1
         /\ COLOR_IMPASSABLE \notin DOMAIN m.static_component
         /\ DOMAIN m.static_component \subseteq Int
         /\ \A c \in NotWalls(m) : c \in Cell /\ m.color[c] \in DOMAIN m.static_component
<1>1. COLOR_IMPASSABLE \in Int /\ COLOR_IMPASSABLE < -1
      /\ COLOR_LOWEST_VALID = COLOR_IMPASSABLE + 1
  BY ColorAssumption DEF COLOR_LOWEST_VALID, COLOR_IMPASSABLE, COLOR_UNKNOWN
<1>2. COLOR_IMPASSABLE \notin DOMAIN m.static_component
  BY <1>1 DEF WellFormed
<1>3. DOMAIN m.static_component \subseteq Int
  BY <1>1 DEF WellFormed
<1>4. \A c \in NotWalls(m) : c \in Cell /\ m.color[c] \in DOMAIN m.static_component
  BY DEF WellFormed, NotWalls
<1> QED
  BY <1>1, <1>2, <1>3, <1>4

\* The passable cells are the transparent ones and the open doors.
LEMMA CellKinds ==
  ASSUME NEW m, WellFormed(m), DoorsMatch(m)
  PROVE  /\ PassableCells(m) \subseteq NotWalls(m)
         /\ TransparentCells(m) = PassableCells(m) \ DOMAIN m.doors
         /\ PassableCells(m) =
              TransparentCells(m) \cup {d \in DOMAIN m.doors : m.doors[d].open}
         /\ DOMAIN m.doors \subseteq NotWalls(m)
         /\ \A c \in Cell : IsTransparent(m, c) <=> c \in TransparentCells(m)
         /\ \A c \in Cell : IsPassable(m, c) <=> c \in PassableCells(m)
<1>1. \A c \in Cell : IsTransparent(m, c) <=> IsPassable(m, c) /\ ~IsDoor(m, c)
  BY DEF IsTransparent, IsPassable
<1>2. \A c \in Cell : IsDoor(m, c) => m.color[c] # COLOR_IMPASSABLE
  BY DEF IsDoor
<1>3. DOMAIN m.doors \subseteq Cell
  BY DEF WellFormed
<1> QED
  BY <1>1, <1>2, <1>3 DEF DoorsMatch, PassableCells, TransparentCells, NotWalls

\* Edges run both ways and join different cells.
LEMMA EdgeFacts ==
  ASSUME NEW G \in SUBSET Cell
  PROVE  /\ EdgesIn(G) \in SUBSET (G \X G)
         /\ \A a, b \in Cell : b \in Nbrs[a] => a \in Nbrs[b] /\ a # b
         /\ \A a, b : <<a, b>> \in EdgesIn(G) <=> a \in G /\ b \in G /\ b \in Nbrs[a]
         /\ \A a \in Cell : Nbrs[a] \subseteq Cell
<1>1. \A a \in Cell : Nbrs[a] \subseteq Cell
  BY AdjacentAssumption DEF Nbrs
<1>2. \A a, b \in Cell : b \in Nbrs[a] => a \in Nbrs[b] /\ a # b
  BY AdjacentAssumption
<1>3. Edges \in SUBSET (Cell \X Cell)
  BY DEF Edges
<1>4. \A a, b : <<a, b>> \in Edges <=> a \in Cell /\ b \in Cell /\ b \in Nbrs[a]
  BY DEF Edges
<1>5. EdgesIn(G) \in SUBSET (G \X G)
  BY <1>3 DEF EdgesIn
<1> HIDE DEF Edges
<1>6. \A a, b : <<a, b>> \in EdgesIn(G) <=> a \in G /\ b \in G /\ b \in Nbrs[a]
  BY <1>4 DEF EdgesIn
<1> QED
  BY <1>1, <1>2, <1>5, <1>6

\* They join vertices of any set that holds G.
LEMMA EdgesInside ==
  ASSUME NEW V \in SUBSET Cell, NEW G \in SUBSET V
  PROVE  EdgesIn(G) \in SUBSET (V \X V)
<1>1. G \in SUBSET Cell
  OBVIOUS
<1>2. EdgesIn(G) \in SUBSET (G \X G)
  BY <1>1, EdgeFacts
<1> QED
  BY <1>2

(***************************************************************************)
(* regenerate_dynamic_component.                                           *)
(***************************************************************************)

\* The sets of cells are read from the costs and colours alone.
LEMMA SameCells ==
  ASSUME NEW m, NEW n, n.cost = m.cost, n.color = m.color
  PROVE  /\ NotWalls(n) = NotWalls(m)
         /\ PassableCells(n) = PassableCells(m)
         /\ TransparentCells(n) = TransparentCells(m)
         /\ n.doors = m.doors => (DoorsMatch(n) <=> DoorsMatch(m))
         /\ n.static_component = m.static_component =>
              (StaticLabels(n) <=> StaticLabels(m))
<1>1. \A c : /\ IsPassable(n, c) <=> IsPassable(m, c)
             /\ IsDoor(n, c) <=> IsDoor(m, c)
             /\ IsTransparent(n, c) <=> IsTransparent(m, c)
  BY DEF IsPassable, IsDoor, IsTransparent
<1>2. /\ NotWalls(n) = NotWalls(m)
      /\ PassableCells(n) = PassableCells(m)
      /\ TransparentCells(n) = TransparentCells(m)
  BY <1>1 DEF NotWalls, PassableCells, TransparentCells
<1>3. n.doors = m.doors => (DoorsMatch(n) <=> DoorsMatch(m))
  BY <1>1 DEF DoorsMatch
<1>4. n.static_component = m.static_component =>
        (StaticLabels(n) <=> StaticLabels(m))
  BY <1>2 DEF StaticLabels
<1> QED
  BY <1>2, <1>3, <1>4

\* The fields of the recomputed map.
LEMMA RegenerateFields ==
  ASSUME NEW m, WellFormed(m)
  PROVE  LET n == RegenerateDynamic(m)
         IN  /\ n.cost = m.cost /\ n.color = m.color /\ n.doors = m.doors
             /\ n.static_component = m.static_component
             /\ n.next_component_color = m.next_component_color
             /\ n.next_door_color = m.next_door_color
             /\ n.dynamic_component =
                  Unite(m.static_component, ColorsOf(m, OpenDoorEdges(m)))
             /\ WellFormed(n)
<1> DEFINE u == Unite(m.static_component, ColorsOf(m, OpenDoorEdges(m)))
           n == [m EXCEPT !.dynamic_component = u]
<1>1. RegenerateDynamic(m) = n
  BY DEF RegenerateDynamic
<1> HIDE DEF u
<1>2. m = [cost |-> m.cost, color |-> m.color, doors |-> m.doors,
           static_component |-> m.static_component,
           dynamic_component |-> m.dynamic_component,
           next_component_color |-> m.next_component_color,
           next_door_color |-> m.next_door_color]
  BY DEF WellFormed
<1>3. n = [cost |-> m.cost, color |-> m.color, doors |-> m.doors,
           static_component |-> m.static_component,
           dynamic_component |-> u,
           next_component_color |-> m.next_component_color,
           next_door_color |-> m.next_door_color]
  BY <1>2
<1> HIDE DEF n
<1>4. /\ n.cost = m.cost /\ n.color = m.color /\ n.doors = m.doors
      /\ n.static_component = m.static_component
      /\ n.next_component_color = m.next_component_color
      /\ n.next_door_color = m.next_door_color
      /\ n.dynamic_component = u
  BY <1>3
<1>5. WellFormed(n)
  BY <1>3, <1>4 DEF WellFormed
<1> QED
  BY <1>1, <1>4, <1>5 DEF u

\* Joining the static components at the open doors gives the dynamic ones.
LEMMA RegenerateGood ==
  ASSUME NEW m, WellFormed(m), DoorsMatch(m), StaticLabels(m)
  PROVE  Consistent(RegenerateDynamic(m))
<1> DEFINE V == NotWalls(m)
           T == TransparentCells(m)
           P == PassableCells(m)
           L == OpenDoorEdges(m)
           links == ColorsOf(m, L)
           uf == m.static_component
           color == m.color
           before == [c \in V |-> uf[color[c]]]
<1>1. PICK n : /\ n = RegenerateDynamic(m)
               /\ n.cost = m.cost /\ n.color = m.color /\ n.doors = m.doors
               /\ n.static_component = m.static_component
               /\ n.dynamic_component = Unite(uf, links)
               /\ WellFormed(n)
  BY RegenerateFields
<1> DEFINE after == [c \in V |-> n.dynamic_component[color[c]]]
<1>2. /\ P \subseteq V /\ T = P \ DOMAIN m.doors
      /\ P = T \cup {d \in DOMAIN m.doors : m.doors[d].open}
      /\ \A c \in Cell : IsPassable(m, c) <=> c \in P
  BY CellKinds
<1>3. V \subseteq Cell /\ \A c \in V : color[c] \in DOMAIN uf
  BY ColorRange
<1>4. \A e : e \in L <=> /\ e \in P \X (DOMAIN m.doors)
                         /\ m.doors[e[2]].open /\ e[1] \in Nbrs[e[2]]
  <2>1. P \subseteq Cell
    BY <1>2, <1>3
  <2> QED
    BY <1>2, <2>1 DEF OpenDoorEdges
<1> HIDE DEF V, T, P, L
<1>5. L \in SUBSET (V \X V)
  BY <1>2, <1>4
<1>6. links \in SUBSET ((DOMAIN uf) \X (DOMAIN uf))
  BY <1>3, <1>5 DEF ColorsOf
<1>7. IsPartition(uf)
  BY DEF WellFormed
<1>8. Colored(V, uf, color, before) /\ Colored(V, Unite(uf, links), color, after)
  <2>1. DOMAIN Unite(uf, links) = DOMAIN uf
    BY <1>6, <1>7, UnitePartition
  <2> QED
    BY <1>1, <1>3, <2>1 DEF Colored
<1>9. EdgesIn(T) \in SUBSET (V \X V) /\ EdgesIn(P) \in SUBSET (V \X V)
  <2>1. T \subseteq V /\ P \subseteq V /\ T \subseteq Cell /\ P \subseteq Cell
    BY <1>2, <1>3
  <2> QED
    BY <2>1, EdgeFacts
<1>10. Labels(V, EdgesIn(T), before)
  BY DEF StaticLabels, V, T
<1>11. LinksFollow(uf, links, L, before)
  <2> DEFINE Q(l) == <<color[l[1]], color[l[2]]>>
  <2>1. links = {Q(l) : l \in L}
    BY DEF ColorsOf
  <2>2. \A l \in L : /\ uf[Q(l)[1]] = before[l[1]]
                     /\ uf[Q(l)[2]] = before[l[2]]
    BY <1>5
  <2> HIDE DEF before, links, Q
  <2> QED
    BY <2>1, <2>2 DEF LinksFollow
<1>12. Labels(V, EdgesIn(T) \cup L, after)
  <2> HIDE DEF links, uf, color, before, after
  <2> QED
    BY <1>5, <1>6, <1>7, <1>8, <1>9, <1>10, <1>11, UniteLabels
<1>13. Labels(V, EdgesIn(P), after)
  <2>1. P \subseteq Cell /\ T \subseteq Cell
    BY <1>2, <1>3
  <2>2. \A a, b \in Cell : b \in Nbrs[a] => a \in Nbrs[b]
    BY EdgeFacts, <2>1
  <2>3. /\ \A a, b : <<a, b>> \in EdgesIn(P) <=> a \in P /\ b \in P /\ b \in Nbrs[a]
        /\ \A a, b : <<a, b>> \in EdgesIn(T) <=> a \in T /\ b \in T /\ b \in Nbrs[a]
    BY <2>1, EdgeFacts
  <2> DEFINE F == EdgesIn(T) \cup L
  <2>4. F \in SUBSET (V \X V)
    BY <1>5, <1>9
  <2>5. \A e \in F : e \in EdgesIn(P)
    <3> SUFFICES ASSUME NEW a, NEW b, <<a, b>> \in F PROVE <<a, b>> \in EdgesIn(P)
      BY <2>4
    <3>1. CASE <<a, b>> \in EdgesIn(T)
      BY <1>2, <2>3, <3>1
    <3>2. CASE <<a, b>> \in L
      BY <1>2, <1>4, <2>1, <2>2, <2>3, <3>2
    <3> QED
      BY <3>1, <3>2
  <2>6. \A f \in EdgesIn(P) : f \in F \/ <<f[2], f[1]>> \in F
    <3> SUFFICES ASSUME NEW a, NEW b, <<a, b>> \in EdgesIn(P)
                 PROVE  <<a, b>> \in F \/ <<b, a>> \in F
      BY <1>9
    <3>1. a \in P /\ b \in P /\ b \in Nbrs[a] /\ a \in Nbrs[b]
      BY <2>1, <2>2, <2>3
    <3>2. CASE a \in T /\ b \in T
      BY <2>3, <3>1, <3>2
    <3>3. CASE a \notin T
      <4>1. <<b, a>> \in L
        BY <1>2, <1>4, <3>1, <3>3
      <4> QED
        BY <4>1
    <3>4. CASE b \notin T
      <4>1. <<a, b>> \in L
        BY <1>2, <1>4, <3>1, <3>4
      <4> QED
        BY <4>1
    <3> QED
      BY <3>2, <3>3, <3>4
  <2> HIDE DEF F
  <2>7. Labels(V, F, after)
    BY <1>12 DEF F
  <2> HIDE DEF after
  <2> QED
    BY <1>9, <2>4, <2>5, <2>6, <2>7, LabelsOtherEdges
<1>14. Coarsens(n)
  BY <1>1, <1>6, <1>7, UnitePartition DEF Coarsens
<1>15. NotWalls(n) = V /\ PassableCells(n) = P /\ DoorsMatch(n) /\ StaticLabels(n)
  BY <1>1, SameCells DEF V, P
<1>16. DynamicLabels(n)
  BY <1>1, <1>13, <1>15 DEF DynamicLabels
<1> QED
  BY <1>1, <1>14, <1>15, <1>16 DEF Consistent

(***************************************************************************)
(* wall_to_transparent.                                                    *)
(***************************************************************************)

\* Adding the edges between a cell and its neighbours in G adds it to G.
LEMMA StarEdges ==
  ASSUME NEW V \in SUBSET Cell, NEW G \in SUBSET V, NEW c \in V, c \notin G,
         NEW label,
         Labels(V, EdgesIn(G) \cup Star(c, Nbrs[c] \cap G), label)
  PROVE  Labels(V, EdgesIn(G \cup {c}), label)
<1> DEFINE H == G \cup {c}
           star == Star(c, Nbrs[c] \cap G)
           F == EdgesIn(G) \cup star
<1>1. H \in SUBSET Cell /\ H \subseteq V
  OBVIOUS
<1>2. /\ \A a, b \in Cell : b \in Nbrs[a] => a \in Nbrs[b] /\ a # b
      /\ EdgesIn(G) \in SUBSET (G \X G) /\ EdgesIn(H) \in SUBSET (H \X H)
      /\ \A a, b : <<a, b>> \in EdgesIn(G) <=> a \in G /\ b \in G /\ b \in Nbrs[a]
      /\ \A a, b : <<a, b>> \in EdgesIn(H) <=> a \in H /\ b \in H /\ b \in Nbrs[a]
  <2> HIDE DEF H
  <2> QED
    BY <1>1, EdgeFacts
<1>3. F \in SUBSET (V \X V) /\ EdgesIn(H) \in SUBSET (V \X V)
  <2>1. EdgesIn(G) \in SUBSET (V \X V)
    BY EdgesInside
  <2>2. EdgesIn(H) \in SUBSET (V \X V)
    <3> HIDE DEF H
    <3> QED
      BY <1>1, EdgesInside
  <2>3. star \in SUBSET (V \X V)
    BY DEF Star
  <2> HIDE DEF star
  <2> QED
    BY <2>1, <2>2, <2>3
<1>4. \A a, b : <<a, b>> \in star <=> a = c /\ b \in Nbrs[c] \cap G
  BY DEF Star
<1>5. \A e \in F : e \in EdgesIn(H)
  <2>1. \A a, b : <<a, b>> \in F => <<a, b>> \in EdgesIn(H)
    <3> HIDE DEF star
    <3> QED
      BY <1>2, <1>4
  <2> HIDE DEF F, H
  <2> QED
    BY <1>3, <2>1
<1>6. \A f \in EdgesIn(H) : f \in F \/ <<f[2], f[1]>> \in F
  <2>1. \A a, b : <<a, b>> \in EdgesIn(H) => <<a, b>> \in F \/ <<b, a>> \in F
    <3> HIDE DEF star
    <3> QED
      BY <1>1, <1>2, <1>4
  <2> HIDE DEF F, H
  <2> QED
    BY <1>3, <2>1
<1> HIDE DEF H, F
<1>7. Labels(V, F, label)
  BY DEF F
<1>8. Labels(V, EdgesIn(H), label)
  BY <1>3, <1>5, <1>6, <1>7, LabelsOtherEdges
<1> QED
  BY <1>8 DEF H

\* The labels are the representatives of the colours.
Labelled(V, uf, color, label) == \A v \in V : label[v] = uf[color[v]]

\* Only the colour of c changed, and is now k.
Recolored(V, c, k, color, color2) ==
  color2[c] = k /\ \A v \in V : color2[v] = color[v]

\* k is a new colour, or the colour of a cell near c.
NewOrNear(uf, k, color, near) == k \notin DOMAIN uf \/ \E n \in near : k = color[n]

\* The wall c becomes a cell of G: it takes the colour k, new or that of a
\* neighbour in G, and k is united with the colours of its neighbours in G.
Joins(V, G, c, uf, color, before, k, U, H, near, u, color2, after) ==
  /\ V \in SUBSET Cell /\ G \in SUBSET V /\ c \in Cell \ V
  /\ IsPartition(uf)
  /\ Colored(V, uf, color, before)
  /\ Labels(V, EdgesIn(G), before)
  /\ U = V \cup {c} /\ H = G \cup {c} /\ near = Nbrs[c] \cap G
  /\ NewOrNear(uf, k, color, near)
  /\ u = Unite(Touch(uf, k), LinksTo(k, color, near))
  /\ Recolored(V, c, k, color, color2)
  /\ Labelled(U, u, color2, after)

\* u is a partition of the colours of uf and of k.
Adds(u, uf, k) == IsPartition(u) /\ DOMAIN u = DOMAIN uf \cup {k}

\* The areas of G and c are labelled.
LEMMA JoinCell ==
  ASSUME NEW V, NEW G, NEW c, NEW uf, NEW color, NEW before, NEW k,
         NEW U, NEW H, NEW near, NEW u, NEW color2, NEW after,
         Joins(V, G, c, uf, color, before, k, U, H, near, u, color2, after)
  PROVE  Adds(u, uf, k) /\ Labels(U, EdgesIn(H), after)
<1> USE DEF Joins, Adds
<1> DEFINE links == LinksTo(k, color, near)
<1>1. PICK t : /\ t = Touch(uf, k)
               /\ IsPartition(t)
               /\ DOMAIN t = DOMAIN uf \cup {k}
  BY TouchPartition
<1>2. links \in SUBSET ((DOMAIN t) \X (DOMAIN t))
  BY <1>1 DEF LinksTo, Colored
<1>3. IsPartition(u) /\ DOMAIN u = DOMAIN uf \cup {k}
  <2>1. IsPartition(t)
    BY <1>1
  <2>2. IsPartition(Unite(t, links)) /\ DOMAIN Unite(t, links) = DOMAIN t
    <3> HIDE DEF links
    <3> QED
      BY <1>2, <2>1, UniteType
  <2> QED
    BY <1>1, <2>2
<1>4. Colored(U, u, color2, after)
  BY <1>3 DEF Colored, Labelled, Recolored
<1>5. EdgesIn(G) \in SUBSET (V \X V) /\ near \in SUBSET V
  BY EdgesInside
<1>6. Labels(U, EdgesIn(G) \cup Star(c, near), after)
  <2>1. k \notin DOMAIN uf \/ \E n \in near : k = color[n]
    BY DEF NewOrNear
  <2>2. links = LinksTo(k, color, near)
    OBVIOUS
  <2>3. Colored(V \cup {c}, Unite(Touch(uf, k), links), color2, after)
    BY <1>4
  <2>4. color2[c] = k /\ \A v \in V : color2[v] = color[v]
    BY DEF Recolored
  <2> HIDE DEF links
  <2> QED
    BY <1>5, <2>1, <2>2, <2>3, <2>4, UniteNewVertex
<1>7. Labels(U, EdgesIn(G \cup {c}), after)
  <2>1. U \in SUBSET Cell /\ G \in SUBSET U /\ c \in U /\ c \notin G
    OBVIOUS
  <2>2. Labels(U, EdgesIn(G) \cup Star(c, Nbrs[c] \cap G), after)
    BY <1>6
  <2> QED
    BY <2>1, <2>2, StarEdges
<1> QED
  BY <1>3, <1>7

\* What wall_to_transparent, with the cost set after it, does to each field; k is
\* the colour the cell takes.
BecomesClear(m, cell, cost, k, n) ==
  /\ n = [WallToTransparent(m, cell) EXCEPT !.cost[cell] = cost]
  /\ n.cost = [m.cost EXCEPT ![cell] = cost]
  /\ n.color = [m.color EXCEPT ![cell] = k]
  /\ n.doors = m.doors
  /\ n.next_door_color = m.next_door_color
  /\ n.static_component =
       Unite(Touch(m.static_component, k),
             LinksTo(k, m.color, Nbrs[cell] \cap TransparentCells(m)))
  /\ n.dynamic_component =
       Unite(Touch(m.dynamic_component, k),
             LinksTo(k, m.color, Nbrs[cell] \cap PassableCells(m)))
  /\ n = [cost |-> n.cost, color |-> n.color, doors |-> n.doors,
          static_component |-> n.static_component,
          dynamic_component |-> n.dynamic_component,
          next_component_color |-> n.next_component_color,
          next_door_color |-> n.next_door_color]
  /\ \/ /\ k = m.next_component_color
        /\ n.next_component_color = m.next_component_color + 1
     \/ /\ \E x \in Nbrs[cell] \cap TransparentCells(m) : k = m.color[x]
        /\ n.next_component_color = m.next_component_color

\* The colour a former wall takes: a new one, or that of a transparent neighbour.
LEMMA WallToTransparentFields ==
  ASSUME NEW m, Consistent(m), NEW cell \in Cell, cell \notin NotWalls(m),
         NEW cost \in Costs, cost # PATH_COST_INFINITE
  PROVE  \E k, n : k \in Int /\ BecomesClear(m, cell, cost, k, n)
<1> DEFINE seed == Adjacent[cell]
           transparent == {i \in DOMAIN seed : IsTransparent(m, seed[i])}
           alone == transparent = {}
           k == IF alone THEN m.next_component_color
                         ELSE m.color[seed[Least(transparent)]]
           room == {<<k, m.color[seed[i]]>> : i \in transparent}
           beside == {<<k, m.color[x]>> : x \in {x \in Nbrs[cell] : IsPassable(m, x)}}
           near == Nbrs[cell] \cap TransparentCells(m)
           s == Unite(Touch(m.static_component, k), room)
           d == Unite(Touch(m.dynamic_component, k), room \cup beside)
           next == IF alone THEN k + 1 ELSE m.next_component_color
           n == [cost |-> [m.cost EXCEPT ![cell] = cost],
                 color |-> [m.color EXCEPT ![cell] = k],
                 doors |-> m.doors,
                 static_component |-> s,
                 dynamic_component |-> d,
                 next_component_color |-> next,
                 next_door_color |-> m.next_door_color]
<1>1. WellFormed(m) /\ DoorsMatch(m)
  BY DEF Consistent
<1>2. seed \in Seq(Cell) /\ Nbrs[cell] = {seed[i] : i \in DOMAIN seed}
  BY AdjacentAssumption DEF Nbrs
<1>3. Nbrs[cell] \subseteq Cell
  BY <1>2
<1>4. /\ \A x \in Cell : IsTransparent(m, x) <=> x \in TransparentCells(m)
      /\ \A x \in Cell : IsPassable(m, x) <=> x \in PassableCells(m)
      /\ TransparentCells(m) \subseteq PassableCells(m)
      /\ PassableCells(m) \subseteq NotWalls(m)
  BY <1>1, CellKinds
<1>5. near = {seed[i] : i \in transparent}
  BY <1>2, <1>3, <1>4
<1>6. transparent \subseteq Nat
  BY <1>2
<1>7. ~alone => seed[Least(transparent)] \in near
  <2>1. ~alone => Least(transparent) \in transparent
    BY <1>6, LeastExists
  <2> HIDE DEF transparent, near
  <2> QED
    BY <1>5, <2>1
<1>8. room = LinksTo(k, m.color, near)
  <2> DEFINE Q(x) == <<k, m.color[x]>>
  <2>1. room = {Q(seed[i]) : i \in transparent}
    OBVIOUS
  <2>2. LinksTo(k, m.color, near) = {Q(x) : x \in near}
    BY DEF LinksTo
  <2> HIDE DEF room, near, transparent, Q
  <2> QED
    BY <1>5, <2>1, <2>2
<1>9. room \cup beside = LinksTo(k, m.color, Nbrs[cell] \cap PassableCells(m))
  <2> DEFINE Q(x) == <<k, m.color[x]>>
             wide == Nbrs[cell] \cap PassableCells(m)
  <2>1. room = {Q(x) : x \in near}
    BY <1>8 DEF LinksTo
  <2>2. beside = {Q(x) : x \in wide}
    BY <1>3, <1>4
  <2>3. near \subseteq wide
    BY <1>4
  <2>4. LinksTo(k, m.color, wide) = {Q(x) : x \in wide}
    BY DEF LinksTo
  <2> HIDE DEF room, beside, near, wide, Q
  <2>5. room \cup beside = LinksTo(k, m.color, wide)
    BY <2>1, <2>2, <2>3, <2>4
  <2> QED
    BY <2>5 DEF wide
<1>10. WallToTransparent(m, cell) =
         [m EXCEPT !.color[cell] = k, !.static_component = s,
                   !.dynamic_component = d, !.next_component_color = next]
  BY DEF WallToTransparent
<1>11. k \in Int
  <2>1. m.next_component_color \in Int
    BY <1>1 DEF WellFormed
  <2>2. \A x \in near : m.color[x] \in Int
    <3>1. near \subseteq NotWalls(m)
      BY <1>4
    <3> HIDE DEF near
    <3> QED
      BY <1>1, <3>1, ColorRange
  <2> HIDE DEF near, transparent
  <2> QED
    BY <1>7, <2>1, <2>2
<1> HIDE DEF k, s, d, next, room, beside, near
<1>12. [WallToTransparent(m, cell) EXCEPT !.cost[cell] = cost] = n
  <2>1. m = [cost |-> m.cost, color |-> m.color, doors |-> m.doors,
             static_component |-> m.static_component,
             dynamic_component |-> m.dynamic_component,
             next_component_color |-> m.next_component_color,
             next_door_color |-> m.next_door_color]
    BY <1>1 DEF WellFormed
  <2>2. PICK w : w = WallToTransparent(m, cell)
    OBVIOUS
  <2> DEFINE paid == [m.cost EXCEPT ![cell] = cost]
             colored == [m.color EXCEPT ![cell] = k]
  <2>3. n = [cost |-> paid, color |-> colored, doors |-> m.doors,
             static_component |-> s, dynamic_component |-> d,
             next_component_color |-> next, next_door_color |-> m.next_door_color]
    OBVIOUS
  <2>4. WallToTransparent(m, cell) =
          [m EXCEPT !.color = colored, !.static_component = s,
                    !.dynamic_component = d, !.next_component_color = next]
    BY <1>10
  <2> HIDE DEF n, colored
  <2>5. w = [cost |-> m.cost, color |-> colored, doors |-> m.doors,
             static_component |-> s, dynamic_component |-> d,
             next_component_color |-> next, next_door_color |-> m.next_door_color]
    BY <2>1, <2>2, <2>4
  <2>6. [w EXCEPT !.cost[cell] = cost] = [w EXCEPT !.cost = paid]
    BY <2>5
  <2> HIDE DEF paid
  <2>7. [w EXCEPT !.cost = paid] = n
    BY <2>3, <2>5
  <2> QED
    BY <2>2, <2>6, <2>7
<1>13. \/ k = m.next_component_color /\ next = m.next_component_color + 1
       \/ /\ \E x \in near : k = m.color[x]
          /\ next = m.next_component_color
  <2> HIDE DEF transparent
  <2> QED
    BY <1>7 DEF k, next
<1>14. BecomesClear(m, cell, cost, k, n)
  BY <1>8, <1>9, <1>12, <1>13 DEF BecomesClear, s, d, near
<1> QED
  BY <1>11, <1>14

\* A wall that becomes transparent joins the areas around it.
LEMMA WallToTransparentGood ==
  ASSUME NEW m, Consistent(m), NEW cell \in Cell, cell \notin NotWalls(m),
         NEW cost \in Costs, cost # PATH_COST_INFINITE
  PROVE  LET n == [WallToTransparent(m, cell) EXCEPT !.cost[cell] = cost]
         IN  /\ Consistent(n)
             /\ n.next_component_color <= m.next_component_color + 1
<1> DEFINE V == NotWalls(m)
           T == TransparentCells(m)
           P == PassableCells(m)
           U == V \cup {cell}
<1>1. WellFormed(m) /\ DoorsMatch(m) /\ StaticLabels(m) /\ Coarsens(m)
      /\ DynamicLabels(m)
  BY DEF Consistent
<1>a. PICK k, n : k \in Int /\ BecomesClear(m, cell, cost, k, n)
  BY WallToTransparentFields
<1>b. k \in Int
  BY <1>a
<1>2. /\ n = [WallToTransparent(m, cell) EXCEPT !.cost[cell] = cost]
      /\ n.cost = [m.cost EXCEPT ![cell] = cost]
      /\ n.color = [m.color EXCEPT ![cell] = k]
      /\ n.doors = m.doors
      /\ n.next_door_color = m.next_door_color
      /\ n.static_component =
           Unite(Touch(m.static_component, k), LinksTo(k, m.color, Nbrs[cell] \cap T))
      /\ n.dynamic_component =
           Unite(Touch(m.dynamic_component, k), LinksTo(k, m.color, Nbrs[cell] \cap P))
      /\ n = [cost |-> n.cost, color |-> n.color, doors |-> n.doors,
              static_component |-> n.static_component,
              dynamic_component |-> n.dynamic_component,
              next_component_color |-> n.next_component_color,
              next_door_color |-> n.next_door_color]
      /\ \/ /\ k = m.next_component_color
            /\ n.next_component_color = m.next_component_color + 1
         \/ /\ \E x \in Nbrs[cell] \cap T : k = m.color[x]
            /\ n.next_component_color = m.next_component_color
  BY <1>a DEF BecomesClear
<1>3. /\ P \subseteq V /\ T \subseteq P /\ V \subseteq Cell
      /\ \A c \in Cell : IsTransparent(m, c) <=> c \in T
      /\ \A c \in Cell : IsPassable(m, c) <=> c \in P
      /\ DOMAIN m.doors \subseteq V
  BY <1>1, CellKinds DEF NotWalls
<1>4. \A c \in V : m.color[c] \in DOMAIN m.static_component
  BY <1>1, ColorRange
<1>5. /\ IsPartition(m.static_component) /\ IsPartition(m.dynamic_component)
      /\ DOMAIN m.dynamic_component = DOMAIN m.static_component
      /\ m.next_component_color \in Nat
      /\ m.next_component_color \notin DOMAIN m.static_component
  BY <1>1 DEF WellFormed, Coarsens
<1>6. cell \notin V /\ cell \notin DOMAIN m.doors
  BY <1>3
<1> HIDE DEF V, T, P
<1>7. k \notin DOMAIN m.static_component \/ \E x \in Nbrs[cell] \cap T : k = m.color[x]
  BY <1>2, <1>5
<1>8. n.color[cell] = k /\ \A v \in V : n.color[v] = m.color[v]
  BY <1>1, <1>2, <1>3, <1>6 DEF WellFormed
<1>9. /\ IsPartition(n.static_component)
      /\ DOMAIN n.static_component = DOMAIN m.static_component \cup {k}
      /\ Labels(U, EdgesIn(T \cup {cell}),
                [v \in U |-> n.static_component[n.color[v]]])
  <2> DEFINE uf == m.static_component
             u == n.static_component
             color == m.color
             color2 == n.color
             before == [v \in V |-> uf[color[v]]]
             after == [v \in U |-> u[color2[v]]]
             near == Nbrs[cell] \cap T
             H == T \cup {cell}
  <2>1. V \in SUBSET Cell /\ T \in SUBSET V
    BY <1>3
  <2>2. IsPartition(uf) /\ Colored(V, uf, color, before)
    BY <1>4, <1>5 DEF Colored
  <2>3. Labels(V, EdgesIn(T), before)
    BY <1>1 DEF StaticLabels, V, T
  <2>4. NewOrNear(uf, k, color, near)
    BY <1>3, <1>5, <1>7 DEF NewOrNear
  <2>5. u = Unite(Touch(uf, k), LinksTo(k, color, near))
    BY <1>2
  <2>6. Recolored(V, cell, k, color, color2)
    BY <1>8 DEF Recolored
  <2>7. Labelled(U, u, color2, after)
    BY DEF Labelled
  <2>8. U = V \cup {cell} /\ H = T \cup {cell} /\ near = Nbrs[cell] \cap T
    OBVIOUS
  <2> HIDE DEF U, H, near, uf, u, color, color2, before, after
  <2>9. Adds(u, uf, k) /\ Labels(U, EdgesIn(H), after)
    <3>1. Joins(V, T, cell, uf, color, before, k, U, H, near, u, color2, after)
      BY <1>6, <2>1, <2>2, <2>3, <2>4, <2>5, <2>6, <2>7, <2>8 DEF Joins
    <3> QED
      BY <3>1, JoinCell
  <2> QED
    BY <2>9 DEF Adds, H, uf, u, color2, after
<1>10. /\ IsPartition(n.dynamic_component)
      /\ DOMAIN n.dynamic_component = DOMAIN m.dynamic_component \cup {k}
      /\ Labels(U, EdgesIn(P \cup {cell}),
                [v \in U |-> n.dynamic_component[n.color[v]]])
  <2> DEFINE uf == m.dynamic_component
             u == n.dynamic_component
             color == m.color
             color2 == n.color
             before == [v \in V |-> uf[color[v]]]
             after == [v \in U |-> u[color2[v]]]
             near == Nbrs[cell] \cap P
             H == P \cup {cell}
  <2>1. V \in SUBSET Cell /\ P \in SUBSET V
    BY <1>3
  <2>2. IsPartition(uf) /\ Colored(V, uf, color, before)
    BY <1>4, <1>5 DEF Colored
  <2>3. Labels(V, EdgesIn(P), before)
    BY <1>1 DEF DynamicLabels, V, P
  <2>4. NewOrNear(uf, k, color, near)
    BY <1>3, <1>5, <1>7 DEF NewOrNear
  <2>5. u = Unite(Touch(uf, k), LinksTo(k, color, near))
    BY <1>2
  <2>6. Recolored(V, cell, k, color, color2)
    BY <1>8 DEF Recolored
  <2>7. Labelled(U, u, color2, after)
    BY DEF Labelled
  <2>8. U = V \cup {cell} /\ H = P \cup {cell} /\ near = Nbrs[cell] \cap P
    OBVIOUS
  <2> HIDE DEF U, H, near, uf, u, color, color2, before, after
  <2>9. Adds(u, uf, k) /\ Labels(U, EdgesIn(H), after)
    <3>1. Joins(V, P, cell, uf, color, before, k, U, H, near, u, color2, after)
      BY <1>6, <2>1, <2>2, <2>3, <2>4, <2>5, <2>6, <2>7, <2>8 DEF Joins
    <3> QED
      BY <3>1, JoinCell
  <2> QED
    BY <2>9 DEF Adds, H, uf, u, color2, after
<1>11. k >= COLOR_LOWEST_VALID => k >= 0
  <2>1. \A x \in Cell : x \in T => ~IsDoor(m, x) /\ m.color[x] # COLOR_IMPASSABLE
    BY <1>1, <1>3, ColorRange DEF IsTransparent, NotWalls, V
  <2>2. \A x \in Nbrs[cell] : x \in Cell
    BY EdgeFacts
  <2>3. COLOR_IMPASSABLE \in Int /\ COLOR_LOWEST_VALID = COLOR_IMPASSABLE + 1
    BY <1>1, ColorRange
  <2> QED
    BY <1>b, <1>2, <1>5, <2>1, <2>2, <2>3 DEF IsDoor, IsDoorColor
<1>12. k \in (m.next_door_color + 1)..(n.next_component_color - 1)
  <2>1. \A x \in Nbrs[cell] \cap T : m.color[x] \in DOMAIN m.static_component
    BY <1>3, <1>4
  <2> QED
    BY <1>b, <1>1, <1>2, <2>1, ColorRange DEF WellFormed
<1>13. n.next_component_color \in Nat
       /\ n.next_component_color <= m.next_component_color + 1
       /\ m.next_component_color <= n.next_component_color
  BY <1>2, <1>5
<1>14. WellFormed(n)
  <2>1. n.cost \in [Cell -> Costs]
    BY <1>1, <1>2 DEF WellFormed
  <2>2. n.color \in [Cell -> DOMAIN n.static_component \cup {COLOR_IMPASSABLE}]
    BY <1>1, <1>2, <1>9 DEF WellFormed
  <2>3. DOMAIN n.static_component
          \subseteq (n.next_door_color + 1)..(n.next_component_color - 1)
    BY <1>1, <1>2, <1>9, <1>12, <1>13, ColorRange DEF WellFormed
  <2> QED
    BY <1>1, <1>2, <1>9, <1>13, <2>1, <2>2, <2>3 DEF WellFormed
<1>15. \A c \in Cell : c # cell => /\ n.cost[c] = m.cost[c]
                                   /\ n.color[c] = m.color[c]
  BY <1>1, <1>2 DEF WellFormed
<1>16. n.cost[cell] = cost
  BY <1>1, <1>2 DEF WellFormed
<1>17. k # COLOR_IMPASSABLE
  BY <1>b, <1>1, <1>12, ColorRange DEF WellFormed
<1>18. DoorsMatch(n)
  <2> SUFFICES ASSUME NEW c \in Cell
               PROVE  /\ IsDoor(n, c) <=> c \in DOMAIN n.doors
                      /\ c \in DOMAIN n.doors => (IsPassable(n, c) <=> n.doors[c].open)
                      /\ c \notin DOMAIN n.doors =>
                           (IsPassable(n, c) <=> n.color[c] # COLOR_IMPASSABLE)
    BY DEF DoorsMatch
  <2>1. CASE c = cell
    <3>1. ~IsDoor(n, cell)
      <4>1. COLOR_LOWEST_VALID \in Int
        BY <1>1, ColorRange
      <4> QED
        BY <1>b, <1>8, <1>11, <4>1 DEF IsDoor, IsDoorColor
    <3> QED
      BY <1>2, <1>6, <1>8, <1>16, <1>17, <2>1, <3>1 DEF IsPassable
  <2>2. CASE c # cell
    <3>1. /\ IsDoor(n, c) <=> IsDoor(m, c)
          /\ IsPassable(n, c) <=> IsPassable(m, c)
      BY <1>15, <2>2 DEF IsDoor, IsPassable
    <3> QED
      BY <1>1, <1>2, <1>15, <2>2, <3>1 DEF DoorsMatch
  <2> QED
    BY <2>1, <2>2
<1>19. NotWalls(n) = U
  BY <1>8, <1>15, <1>17 DEF NotWalls, V
<1>20. TransparentCells(n) = T \cup {cell} /\ PassableCells(n) = P \cup {cell}
  <2>1. PassableCells(n) = P \cup {cell}
    BY <1>15, <1>16 DEF PassableCells, IsPassable, P
  <2>2. TransparentCells(n) = PassableCells(n) \ DOMAIN n.doors
    BY <1>14, <1>18, CellKinds
  <2>3. T = P \ DOMAIN m.doors
    BY <1>1, CellKinds DEF T, P
  <2> QED
    BY <1>2, <1>6, <2>1, <2>2, <2>3
<1>21. StaticLabels(n) /\ DynamicLabels(n)
  BY <1>9, <1>10, <1>19, <1>20 DEF StaticLabels, DynamicLabels
<1>22. Coarsens(n)
  <2>1. PICK t : /\ t = Touch(m.static_component, k)
                 /\ IsPartition(t)
                 /\ DOMAIN t = DOMAIN m.static_component \cup {k}
                 /\ \A j \in DOMAIN m.static_component : t[j] = m.static_component[j]
                 /\ k \notin DOMAIN m.static_component => t[k] = k
    BY <1>5, TouchPartition
  <2>2. PICK v : /\ v = Touch(m.dynamic_component, k)
                 /\ IsPartition(v)
                 /\ DOMAIN v = DOMAIN m.dynamic_component \cup {k}
                 /\ \A j \in DOMAIN m.dynamic_component : v[j] = m.dynamic_component[j]
                 /\ k \notin DOMAIN m.dynamic_component => v[k] = k
    BY <1>5, TouchPartition
  <2>3. DOMAIN v = DOMAIN t
    BY <1>5, <2>1, <2>2
  <2>4. \A j \in DOMAIN t : v[t[j]] = v[j]
    <3>1. \A j \in DOMAIN m.static_component :
            m.dynamic_component[m.static_component[j]] = m.dynamic_component[j]
      BY <1>1 DEF Coarsens
    <3>2. \A j \in DOMAIN m.static_component :
            m.static_component[j] \in DOMAIN m.static_component
      BY <1>5 DEF IsPartition
    <3> QED
      BY <1>5, <2>1, <2>2, <3>1, <3>2
  <2> DEFINE few == LinksTo(k, m.color, Nbrs[cell] \cap T)
             more == LinksTo(k, m.color, Nbrs[cell] \cap P)
  <2>5. few \in SUBSET more
    BY <1>3 DEF LinksTo
  <2>6. more \in SUBSET ((DOMAIN t) \X (DOMAIN t))
    BY <1>3, <1>4, <2>1 DEF LinksTo
  <2>7. IsPartition(t) /\ IsPartition(v)
    BY <2>1, <2>2
  <2>8. \A j \in DOMAIN t : Unite(v, more)[Unite(t, few)[j]] = Unite(v, more)[j]
    <3> HIDE DEF few, more
    <3> QED
      BY <2>3, <2>4, <2>5, <2>6, <2>7, UniteCoarser
  <2>9. n.static_component = Unite(t, few) /\ n.dynamic_component = Unite(v, more)
    BY <1>2, <2>1, <2>2
  <2>10. DOMAIN t = DOMAIN n.static_component
    BY <1>9, <2>1
  <2> HIDE DEF few, more
  <2> QED
    BY <1>5, <1>9, <1>10, <2>8, <2>9, <2>10 DEF Coarsens
<1>23. Consistent(n)
  BY <1>14, <1>18, <1>21, <1>22 DEF Consistent
<1> QED
  BY <1>2, <1>13, <1>23

(***************************************************************************)
(* A door that opens, closes or changes its cost.                          *)
(***************************************************************************)

\* Only the door's record, the cost of its cell and dynamic_component changed.
DoorChanges(m, cell, cost, door, n) ==
  /\ cell \in DOMAIN m.doors /\ door \in Door
  /\ cost \in Costs /\ (cost # PATH_COST_INFINITE <=> door.open)
  /\ n.cost = [m.cost EXCEPT ![cell] = cost]
  /\ n.doors = [m.doors EXCEPT ![cell] = door]
  /\ n.color = m.color
  /\ n.static_component = m.static_component
  /\ n.next_component_color = m.next_component_color
  /\ n.next_door_color = m.next_door_color
  /\ n = [cost |-> n.cost, color |-> n.color, doors |-> n.doors,
          static_component |-> n.static_component,
          dynamic_component |-> n.dynamic_component,
          next_component_color |-> n.next_component_color,
          next_door_color |-> n.next_door_color]

\* The map is as before but for the passability of the door's cell.
LEMMA DoorChangeCells ==
  ASSUME NEW m, WellFormed(m), DoorsMatch(m), StaticLabels(m),
         NEW cell, NEW cost, NEW door, NEW n, DoorChanges(m, cell, cost, door, n)
  PROVE  /\ WellFormed(n) /\ DoorsMatch(n) /\ StaticLabels(n)
         /\ NotWalls(n) = NotWalls(m)
         /\ PassableCells(n) = IF door.open THEN PassableCells(m) \cup {cell}
                                            ELSE PassableCells(m) \ {cell}
<1> USE DEF DoorChanges
<1>1. cell \in Cell
  BY DEF WellFormed
<1>2. \A c \in Cell : n.cost[c] = IF c = cell THEN cost ELSE m.cost[c]
  BY DEF WellFormed
<1>3. DOMAIN n.doors = DOMAIN m.doors
      /\ \A d \in DOMAIN m.doors : n.doors[d] = IF d = cell THEN door ELSE m.doors[d]
  BY DEF WellFormed
<1>4. WellFormed(n)
  <2>1. n.cost \in [Cell -> Costs]
    BY <1>1 DEF WellFormed
  <2>2. n.doors \in [DOMAIN n.doors -> Door]
    BY <1>3 DEF WellFormed
  <2> QED
    BY <1>3, <2>1, <2>2 DEF WellFormed
<1>5. \A c \in Cell : IsDoor(n, c) <=> IsDoor(m, c)
  BY DEF IsDoor
<1>6. \A c \in Cell : IsPassable(n, c) <=> IF c = cell THEN door.open ELSE IsPassable(m, c)
  BY <1>2 DEF IsPassable
<1>7. DoorsMatch(n)
  BY <1>1, <1>3, <1>5, <1>6 DEF DoorsMatch
<1>8. NotWalls(n) = NotWalls(m)
  BY DEF NotWalls
<1>9. PassableCells(n) = IF door.open THEN PassableCells(m) \cup {cell}
                                      ELSE PassableCells(m) \ {cell}
  BY <1>1, <1>6 DEF PassableCells
<1>10. TransparentCells(n) = TransparentCells(m)
  <2>1. TransparentCells(n) = PassableCells(n) \ DOMAIN n.doors
    BY <1>4, <1>7, CellKinds
  <2>2. TransparentCells(m) = PassableCells(m) \ DOMAIN m.doors
    BY CellKinds
  <2> QED
    BY <1>3, <1>9, <2>1, <2>2
<1>11. StaticLabels(n)
  BY <1>8, <1>10 DEF StaticLabels
<1> QED
  BY <1>4, <1>7, <1>8, <1>9, <1>11

\* A door that only changes its cost changes no component.
LEMMA DoorPriced ==
  ASSUME NEW m, Consistent(m),
         NEW cell, NEW cost, NEW door, NEW n, DoorChanges(m, cell, cost, door, n),
         door.open <=> m.doors[cell].open,
         n.dynamic_component = m.dynamic_component
  PROVE  Consistent(n)
<1>1. WellFormed(m) /\ DoorsMatch(m) /\ StaticLabels(m) /\ Coarsens(m)
      /\ DynamicLabels(m)
  BY DEF Consistent
<1>2. /\ WellFormed(n) /\ DoorsMatch(n) /\ StaticLabels(n)
      /\ NotWalls(n) = NotWalls(m)
      /\ PassableCells(n) = IF door.open THEN PassableCells(m) \cup {cell}
                                         ELSE PassableCells(m) \ {cell}
  BY <1>1, DoorChangeCells
<1>3. cell \in PassableCells(m) <=> door.open
  BY <1>1 DEF DoorChanges, WellFormed, DoorsMatch, PassableCells
<1>4. PassableCells(n) = PassableCells(m)
  BY <1>2, <1>3
<1>5. n.color = m.color /\ n.static_component = m.static_component
  BY DEF DoorChanges
<1>6. DynamicLabels(n) /\ Coarsens(n)
  BY <1>1, <1>2, <1>4, <1>5 DEF DynamicLabels, Coarsens
<1> QED
  BY <1>2, <1>6 DEF Consistent

\* The pairs that closed_door_to_open_door unites.
DoorLinks(m, cell) ==
  {<<m.static_component[m.color[x]], m.static_component[m.color[cell]]>> :
     x \in Nbrs[cell] \cap PassableCells(m)}

\* A door that opens joins the areas around it; that its neighbours' static
\* representatives are linked, not their colours, does not matter because the
\* dynamic components are unions of static ones.
LEMMA DoorOpens ==
  ASSUME NEW m, Consistent(m),
         NEW cell, NEW cost, NEW door, NEW n, DoorChanges(m, cell, cost, door, n),
         door.open, ~m.doors[cell].open,
         n.dynamic_component = Unite(m.dynamic_component, DoorLinks(m, cell))
  PROVE  Consistent(n)
<1> DEFINE V == NotWalls(m)
           P == PassableCells(m)
           near == Nbrs[cell] \cap P
           uf == m.dynamic_component
           sf == m.static_component
           color == m.color
           links == DoorLinks(m, cell)
           u == n.dynamic_component
           before == [v \in V |-> uf[color[v]]]
           after == [v \in V |-> u[color[v]]]
           L == {<<x, cell>> : x \in near}
<1>1. WellFormed(m) /\ DoorsMatch(m) /\ StaticLabels(m) /\ Coarsens(m)
      /\ DynamicLabels(m)
  BY DEF Consistent
<1>2. /\ WellFormed(n) /\ DoorsMatch(n) /\ StaticLabels(n)
      /\ NotWalls(n) = V /\ PassableCells(n) = P \cup {cell}
  BY <1>1, DoorChangeCells
<1>3. n.color = color /\ n.static_component = sf /\ cell \in DOMAIN m.doors
  BY DEF DoorChanges
<1>4. cell \in V /\ P \subseteq V /\ cell \notin P /\ V \subseteq Cell
  <2>1. cell \in V /\ P \subseteq V
    BY <1>1, <1>3, CellKinds
  <2>2. cell \notin P
    BY <1>1, <1>3 DEF DoorsMatch, PassableCells
  <2> QED
    BY <2>1, <2>2 DEF NotWalls
<1>5. /\ IsPartition(uf) /\ IsPartition(sf) /\ DOMAIN uf = DOMAIN sf
      /\ \A k \in DOMAIN sf : sf[k] \in DOMAIN sf /\ uf[sf[k]] = uf[k]
  BY <1>1 DEF WellFormed, Coarsens, IsPartition
<1>6. \A v \in V : color[v] \in DOMAIN sf
  BY <1>1, ColorRange
<1>7. Labels(V, EdgesIn(P), before)
  BY <1>1 DEF DynamicLabels
<1>8. EdgesIn(P) \in SUBSET (V \X V)
  <2> HIDE DEF V, P
  <2> QED
    BY <1>4, EdgesInside
<1> HIDE DEF V, P
<1>9. L \in SUBSET (V \X V)
  BY <1>4
<1>10. links = {<<sf[color[x]], sf[color[cell]]>> : x \in near}
  BY DEF DoorLinks, P
<1>11. links \in SUBSET ((DOMAIN uf) \X (DOMAIN uf))
  <2>1. \A x \in near : sf[color[x]] \in DOMAIN uf /\ sf[color[cell]] \in DOMAIN uf
    BY <1>4, <1>5, <1>6
  <2> HIDE DEF links
  <2> QED
    BY <1>10, <2>1
<1>12. u = Unite(uf, links)
  OBVIOUS
<1>13. /\ IsPartition(u) /\ DOMAIN u = DOMAIN uf
       /\ \A k \in DOMAIN uf : u[uf[k]] = u[k]
  <2> HIDE DEF u, uf, links
  <2> QED
    BY <1>5, <1>11, <1>12, UnitePartition
<1>14. Colored(V, uf, color, before) /\ Colored(V, Unite(uf, links), color, after)
  <2>1. Colored(V, u, color, after)
    BY <1>5, <1>6, <1>13 DEF Colored
  <2> QED
    BY <1>5, <1>6, <1>12, <2>1 DEF Colored
<1>15. LinksFollow(uf, links, L, before)
  <2> DEFINE Q(x) == <<sf[color[x]], sf[color[cell]]>>
             R(x) == <<x, cell>>
  <2>1. ASSUME NEW x \in near
        PROVE  /\ uf[Q(x)[1]] = before[R(x)[1]]
               /\ uf[Q(x)[2]] = before[R(x)[2]]
    BY <1>4, <1>5, <1>6
  <2>2. links = {Q(x) : x \in near} /\ L = {R(x) : x \in near}
    BY <1>10
  <2> HIDE DEF before, links, L, Q, R, near, uf
  <2> QED
    BY <2>1, <2>2 DEF LinksFollow
<1>16. Labels(V, EdgesIn(P) \cup L, after)
  <2> HIDE DEF links, uf, color, before, after, L
  <2> QED
    BY <1>5, <1>7, <1>8, <1>9, <1>11, <1>14, <1>15, UniteLabels
<1>17. Labels(V, EdgesIn(P) \cup Star(cell, near), after)
  <2> DEFINE E == EdgesIn(P) \cup L
             F == EdgesIn(P) \cup Star(cell, near)
  <2>1. \A a, b : /\ <<a, b>> \in L <=> b = cell /\ a \in near
                  /\ <<a, b>> \in Star(cell, near) <=> a = cell /\ b \in near
    BY DEF Star
  <2>2. Star(cell, near) \in SUBSET (V \X V)
    BY <1>4 DEF Star
  <2>3. E \in SUBSET (V \X V) /\ F \in SUBSET (V \X V)
    BY <1>8, <1>9, <2>2
  <2>4. (\A a, b : <<a, b>> \in E => <<a, b>> \in F \/ <<b, a>> \in F)
        /\ (\A a, b : <<a, b>> \in F => <<a, b>> \in E \/ <<b, a>> \in E)
    <3> HIDE DEF L
    <3> QED
      BY <2>1
  <2>5. Labels(V, E, after)
    BY <1>16
  <2> HIDE DEF E, F, after
  <2>6. (\A e \in E : e \in F \/ <<e[2], e[1]>> \in F)
        /\ (\A f \in F : f \in E \/ <<f[2], f[1]>> \in E)
    BY <2>3, <2>4
  <2>7. Labels(V, F, after)
    BY <2>3, <2>5, <2>6, LabelsOtherEdges
  <2> QED
    BY <2>7 DEF F
<1>18. Labels(V, EdgesIn(P \cup {cell}), after)
  <2>1. V \in SUBSET Cell /\ P \in SUBSET V /\ cell \in V /\ cell \notin P
    BY <1>4
  <2>2. Labels(V, EdgesIn(P) \cup Star(cell, Nbrs[cell] \cap P), after)
    BY <1>17
  <2> HIDE DEF after
  <2> QED
    BY <2>1, <2>2, StarEdges
<1>19. DynamicLabels(n)
  BY <1>2, <1>3, <1>18 DEF DynamicLabels
<1>20. Coarsens(n)
  <2>1. \A k \in DOMAIN sf : u[sf[k]] = u[k]
    BY <1>5, <1>13
  <2> QED
    BY <1>3, <1>5, <1>13, <2>1 DEF Coarsens
<1> QED
  BY <1>2, <1>19, <1>20 DEF Consistent

\* What closed_door_to_open_door does once it has found the links.
OpenAlong(n, links, cell) ==
  [n EXCEPT !.dynamic_component = Unite(n.dynamic_component, links),
            !.doors = [n.doors EXCEPT ![cell].open = TRUE]]

\* closed_door_to_open_door finds the same neighbours whatever the cost of the
\* door's own cell.
LEMMA LinksOfDoor ==
  ASSUME NEW m, NEW n, NEW cell \in Cell,
         n.color = m.color, n.static_component = m.static_component,
         \A c \in Cell \ {cell} : n.cost[c] = m.cost[c]
  PROVE  ClosedDoorToOpenDoor(n, cell) = OpenAlong(n, DoorLinks(m, cell), cell)
<1> DEFINE Q(x) == <<m.static_component[m.color[x]], m.static_component[m.color[cell]]>>
           found == {x \in Nbrs[cell] : IsPassable(n, x)}
           near == Nbrs[cell] \cap PassableCells(m)
           links == {<<n.static_component[n.color[x]], n.static_component[n.color[cell]]>> :
                       x \in found}
<1>1. \A x \in Nbrs[cell] : x \in Cell /\ x # cell
  BY EdgeFacts
<1>2. found = near
  BY <1>1 DEF IsPassable, PassableCells
<1>3. links = {Q(x) : x \in found}
  OBVIOUS
<1>4. DoorLinks(m, cell) = {Q(x) : x \in near}
  BY DEF DoorLinks
<1>5. ClosedDoorToOpenDoor(n, cell) = OpenAlong(n, links, cell)
  BY DEF ClosedDoorToOpenDoor, OpenAlong
<1> HIDE DEF found, near, links, Q
<1>6. links = DoorLinks(m, cell)
  BY <1>2, <1>3, <1>4
<1> QED
  BY <1>5, <1>6

\* update_door.
LEMMA UpdateDoorGood ==
  ASSUME NEW m, Consistent(m), NEW cell \in DOMAIN m.doors, NEW open \in BOOLEAN,
         NEW cost \in Costs, cost # PATH_COST_INFINITE
  PROVE  /\ Consistent(UpdateDoor(m, cell, open, cost))
         /\ UpdateDoor(m, cell, open, cost).next_component_color = m.next_component_color
<1> DEFINE old == m.doors[cell]
           price == IF open THEN cost ELSE PATH_COST_INFINITE
           door == [open |-> open, cost_open |-> cost, cost_closed |-> old.cost_closed]
           target(d) ==
             [cost |-> [m.cost EXCEPT ![cell] = price], color |-> m.color,
              doors |-> [m.doors EXCEPT ![cell] = door],
              static_component |-> m.static_component,
              dynamic_component |-> d,
              next_component_color |-> m.next_component_color,
              next_door_color |-> m.next_door_color]
           priced == [m EXCEPT !.doors[cell].cost_open = cost,
                               !.cost[cell] = IF open THEN cost
                                              ELSE PATH_COST_INFINITE]
           moved == [priced EXCEPT !.doors[cell].open = open]
           linked == Unite(m.dynamic_component, DoorLinks(m, cell))
<1>1. WellFormed(m) /\ DoorsMatch(m) /\ StaticLabels(m)
  BY DEF Consistent
<1>2. /\ m = [cost |-> m.cost, color |-> m.color, doors |-> m.doors,
              static_component |-> m.static_component,
              dynamic_component |-> m.dynamic_component,
              next_component_color |-> m.next_component_color,
              next_door_color |-> m.next_door_color]
      /\ cell \in Cell
      /\ old = [open |-> old.open, cost_open |-> old.cost_open,
                cost_closed |-> old.cost_closed]
      /\ old \in Door
  BY <1>1 DEF WellFormed, Door
<1> DEFINE mid == [open |-> old.open, cost_open |-> cost,
                   cost_closed |-> old.cost_closed]
           mids == [m.doors EXCEPT ![cell] = mid]
           doors == [m.doors EXCEPT ![cell] = door]
           paid == [m.cost EXCEPT ![cell] = price]
<1>a. m.doors = [d \in DOMAIN m.doors |-> m.doors[d]]
  BY <1>1 DEF WellFormed
<1>b. [m.doors EXCEPT ![cell].cost_open = cost] = mids
  <2>1. [old EXCEPT !.cost_open = cost] = mid
    BY <1>2
  <2>2. [m.doors EXCEPT ![cell].cost_open = cost] =
          [m.doors EXCEPT ![cell] = [old EXCEPT !.cost_open = cost]]
    OBVIOUS
  <2> QED
    BY <2>1, <2>2
<1>c. [mids EXCEPT ![cell].open = open] = doors
  <2>1. mids[cell] = mid
    BY <1>a
  <2>2. [mid EXCEPT !.open = open] = door
    OBVIOUS
  <2>3. [mids EXCEPT ![cell].open = open] = [mids EXCEPT ![cell] = door]
    BY <2>1, <2>2
  <2> HIDE DEF mid, door
  <2> QED
    BY <1>a, <2>3
<1>d. door.open = open
  OBVIOUS
<1>e. [doors EXCEPT ![cell].open = open] = doors
  <2>1. doors[cell] = door
    BY <1>a
  <2>2. [door EXCEPT !.open = open] = door
    OBVIOUS
  <2>3. [doors EXCEPT ![cell].open = open] = [doors EXCEPT ![cell] = door]
    BY <2>1, <2>2
  <2> HIDE DEF door
  <2> QED
    BY <1>a, <2>3
<1>f. [paid EXCEPT ![cell] = price] = paid
  OBVIOUS
<1>3. priced = [cost |-> paid, color |-> m.color, doors |-> mids,
                static_component |-> m.static_component,
                dynamic_component |-> m.dynamic_component,
                next_component_color |-> m.next_component_color,
                next_door_color |-> m.next_door_color]
  <2>1. priced = [m EXCEPT !.doors = [m.doors EXCEPT ![cell].cost_open = cost],
                           !.cost = paid]
    OBVIOUS
  <2> HIDE DEF priced, mids, paid
  <2> QED
    BY <1>2, <1>b, <2>1
<1>4. moved = target(m.dynamic_component)
  <2>1. moved = [priced EXCEPT !.doors = [priced.doors EXCEPT ![cell].open = open]]
    OBVIOUS
  <2>2. target(m.dynamic_component) =
          [cost |-> paid, color |-> m.color, doors |-> doors,
           static_component |-> m.static_component,
           dynamic_component |-> m.dynamic_component,
           next_component_color |-> m.next_component_color,
           next_door_color |-> m.next_door_color]
    OBVIOUS
  <2> HIDE DEF priced, moved, target, mids, doors, paid
  <2>3. priced.doors = mids
    BY <1>3
  <2>4. moved = [priced EXCEPT !.doors = doors]
    BY <1>c, <2>1, <2>3
  <2> QED
    BY <1>3, <2>2, <2>4
<1>5. door \in Door /\ price \in Costs
      /\ (price # PATH_COST_INFINITE <=> open)
  BY <1>2, CostAssumption DEF Door
<1>6. \A d : DoorChanges(m, cell, price, door, target(d))
  BY <1>5 DEF DoorChanges
<1>7. \A d : target(d).next_component_color = m.next_component_color
             /\ target(d).dynamic_component = d
  OBVIOUS
<1>8. \A d : target(d).doors = doors /\ target(d).cost = paid
  OBVIOUS
<1>9. CASE old.open = open
  <2>1. UpdateDoor(m, cell, open, cost) = target(m.dynamic_component)
    <3>1. mids = doors
      BY <1>9
    <3>2. UpdateDoor(m, cell, open, cost) = priced
      BY <1>9 DEF UpdateDoor
    <3> HIDE DEF mids, doors, priced
    <3> QED
      BY <1>3, <3>1, <3>2 DEF doors
  <2>2. PICK n : n = target(m.dynamic_component)
    OBVIOUS
  <2>3. DoorChanges(m, cell, price, door, n)
        /\ n.dynamic_component = m.dynamic_component
    BY <1>6, <2>2
  <2> HIDE DEF target, door, price
  <2>4. Consistent(n)
    BY <1>d, <1>9, <2>3, DoorPriced
  <2> QED
    BY <1>7, <2>1, <2>2, <2>4
<1>10. CASE old.open # open /\ open
  <2>1. UpdateDoor(m, cell, open, cost) = ClosedDoorToOpenDoor(moved, cell)
    BY <1>10 DEF UpdateDoor
  <2>2. PICK w : w = target(m.dynamic_component)
    OBVIOUS
  <2>3. /\ w.color = m.color /\ w.static_component = m.static_component
        /\ w.dynamic_component = m.dynamic_component
        /\ \A c \in Cell \ {cell} : w.cost[c] = m.cost[c]
    BY <1>1, <2>2 DEF WellFormed
  <2>4. ClosedDoorToOpenDoor(w, cell) = OpenAlong(w, DoorLinks(m, cell), cell)
    <3> HIDE DEF target
    <3> QED
      BY <1>2, <2>3, LinksOfDoor
  <2>5. OpenAlong(w, DoorLinks(m, cell), cell) = target(linked)
    <3>1. w.doors = doors
      BY <1>8, <2>2
    <3>2. [w.doors EXCEPT ![cell].open = TRUE] = w.doors
      BY <1>e, <1>10, <3>1
    <3>3. OpenAlong(w, DoorLinks(m, cell), cell) =
            [w EXCEPT !.dynamic_component = linked, !.doors = w.doors]
      BY <2>3, <3>2 DEF OpenAlong
    <3> HIDE DEF linked, price, door
    <3> QED
      BY <2>2, <3>3
  <2>6. PICK n : n = target(linked)
    OBVIOUS
  <2>7. DoorChanges(m, cell, price, door, n) /\ n.dynamic_component = linked
    BY <1>6, <2>6
  <2> HIDE DEF target, door, price
  <2>8. Consistent(n)
    BY <1>d, <1>10, <2>7, DoorOpens DEF linked
  <2> QED
    BY <1>4, <1>7, <2>1, <2>2, <2>4, <2>5, <2>6, <2>8
<1>11. CASE old.open # open /\ ~open
  <2>1. UpdateDoor(m, cell, open, cost) = OpenDoorToClosedDoor(moved, cell)
    BY <1>11 DEF UpdateDoor
  <2>2. PICK n : n = target(m.dynamic_component)
    OBVIOUS
  <2>3. OpenDoorToClosedDoor(n, cell) = RegenerateDynamic(n)
    <3>1. [n.doors EXCEPT ![cell].open = FALSE] = n.doors
      <4>1. n.doors = doors
        BY <1>8, <2>2
      <4> QED
        BY <1>e, <1>11, <4>1
    <3>2. [n.cost EXCEPT ![cell] = PATH_COST_INFINITE] = n.cost
      <4>1. n.cost = paid /\ price = PATH_COST_INFINITE
        BY <1>8, <1>11, <2>2
      <4> HIDE DEF paid, price
      <4> QED
        BY <1>f, <4>1
    <3>3. OpenDoorToClosedDoor(n, cell) =
            RegenerateDynamic(
              [n EXCEPT !.doors = [n.doors EXCEPT ![cell].open = FALSE],
                        !.cost = [n.cost EXCEPT ![cell] = PATH_COST_INFINITE]])
      BY DEF OpenDoorToClosedDoor
    <3> HIDE DEF door, price
    <3>4. [n EXCEPT !.doors = n.doors, !.cost = n.cost] = n
      BY <2>2
    <3> QED
      BY <3>1, <3>2, <3>3, <3>4
  <2>4. DoorChanges(m, cell, price, door, n)
    BY <1>6, <2>2
  <2> HIDE DEF target, door, price, moved
  <2>5. WellFormed(n) /\ DoorsMatch(n) /\ StaticLabels(n)
    BY <1>1, <2>4, DoorChangeCells
  <2>6. Consistent(RegenerateDynamic(n))
        /\ RegenerateDynamic(n).next_component_color = n.next_component_color
    BY <2>5, RegenerateGood, RegenerateFields
  <2> QED
    BY <1>4, <1>7, <2>1, <2>2, <2>3, <2>6
<1> QED
  BY <1>9, <1>10, <1>11

(***************************************************************************)
(* wall_to_closed_door and closed_door_to_wall.                            *)
(***************************************************************************)

\* A wall that becomes a closed door is alone in a new component.
LEMMA WallToClosedDoorGood ==
  ASSUME NEW m, Consistent(m), NEW cell \in Cell, cell \notin NotWalls(m),
         m.next_door_color >= COLOR_LOWEST_VALID, NEW a \in Costs, NEW b \in Costs
  PROVE  LET n == WallToClosedDoor(m, cell, a, b)
         IN  /\ Consistent(n)
             /\ n.next_component_color = m.next_component_color
             /\ DOMAIN n.doors = DOMAIN m.doors \cup {cell}
             /\ ~n.doors[cell].open
<1> DEFINE V == NotWalls(m)
           T == TransparentCells(m)
           P == PassableCells(m)
           U == V \cup {cell}
           k == m.next_door_color
           door == [open |-> FALSE, cost_open |-> a, cost_closed |-> b]
           paid == [m.cost EXCEPT ![cell] = PATH_COST_INFINITE]
           colored == [m.color EXCEPT ![cell] = k]
           doors == [d \in DOMAIN m.doors \cup {cell} |->
                       IF d = cell THEN door ELSE m.doors[d]]
           s == Touch(m.static_component, k)
           u == Touch(m.dynamic_component, k)
           target == [cost |-> paid, color |-> colored, doors |-> doors,
                      static_component |-> s, dynamic_component |-> u,
                      next_component_color |-> m.next_component_color,
                      next_door_color |-> k - 1]
<1>1. WellFormed(m) /\ DoorsMatch(m) /\ StaticLabels(m) /\ Coarsens(m)
      /\ DynamicLabels(m)
  BY DEF Consistent
<1>2. WallToClosedDoor(m, cell, a, b) = target
  <2>1. m = [cost |-> m.cost, color |-> m.color, doors |-> m.doors,
             static_component |-> m.static_component,
             dynamic_component |-> m.dynamic_component,
             next_component_color |-> m.next_component_color,
             next_door_color |-> m.next_door_color]
    BY <1>1 DEF WellFormed
  <2>2. WallToClosedDoor(m, cell, a, b) =
          [m EXCEPT !.cost = paid, !.dynamic_component = u, !.static_component = s,
                    !.color = colored, !.next_door_color = k - 1, !.doors = doors]
    BY DEF WallToClosedDoor
  <2> HIDE DEF paid, u, s, colored, doors
  <2> QED
    BY <2>1, <2>2
<1>3. PICK n : n = target
  OBVIOUS
<1>4. /\ n.cost = paid /\ n.color = colored /\ n.doors = doors
      /\ n.static_component = s /\ n.dynamic_component = u
      /\ n.next_component_color = m.next_component_color
      /\ n.next_door_color = k - 1
      /\ n = [cost |-> n.cost, color |-> n.color, doors |-> n.doors,
              static_component |-> n.static_component,
              dynamic_component |-> n.dynamic_component,
              next_component_color |-> n.next_component_color,
              next_door_color |-> n.next_door_color]
  <2> HIDE DEF paid, u, s, colored, doors
  <2> QED
    BY <1>3
<1> HIDE DEF target
<1>5. /\ P \subseteq V /\ T \subseteq P /\ V \subseteq Cell
      /\ DOMAIN m.doors \subseteq V
      /\ T = P \ DOMAIN m.doors
  BY <1>1, CellKinds DEF NotWalls
<1>6. /\ COLOR_IMPASSABLE \in Int /\ COLOR_LOWEST_VALID = COLOR_IMPASSABLE + 1
      /\ k \in Int /\ k >= COLOR_LOWEST_VALID /\ k <= -1
      /\ m.next_component_color \in Nat
      /\ k \notin DOMAIN m.static_component
  BY <1>1, ColorRange DEF WellFormed
<1>7. /\ IsPartition(s) /\ DOMAIN s = DOMAIN m.static_component \cup {k}
      /\ \A j \in DOMAIN m.static_component : s[j] = m.static_component[j]
      /\ s[k] = k
  <2>1. IsPartition(m.static_component)
    BY <1>1 DEF WellFormed
  <2> HIDE DEF k
  <2> QED
    BY <1>6, <2>1, TouchPartition
<1>8. /\ IsPartition(u) /\ DOMAIN u = DOMAIN m.static_component \cup {k}
      /\ \A j \in DOMAIN m.static_component : u[j] = m.dynamic_component[j]
      /\ u[k] = k
  <2>1. IsPartition(m.dynamic_component)
        /\ DOMAIN m.dynamic_component = DOMAIN m.static_component
    BY <1>1 DEF Coarsens
  <2> HIDE DEF k
  <2> QED
    BY <1>6, <2>1, TouchPartition
<1>9. \A c \in Cell : /\ n.color[c] = IF c = cell THEN k ELSE m.color[c]
                      /\ n.cost[c] = IF c = cell THEN PATH_COST_INFINITE ELSE m.cost[c]
  BY <1>1, <1>4 DEF WellFormed
<1>10. DOMAIN n.doors = DOMAIN m.doors \cup {cell}
       /\ \A d \in DOMAIN n.doors :
            n.doors[d] = IF d = cell THEN door ELSE m.doors[d]
  BY <1>4
<1>11. door \in Door
  BY DEF Door
<1> HIDE DEF k, door, paid, colored, doors, s, u, V, T, P
<1>12. WellFormed(n)
  <2>1. n.cost \in [Cell -> Costs]
    BY <1>1, <1>4, CostAssumption DEF WellFormed, paid
  <2>2. n.color \in [Cell -> DOMAIN n.static_component \cup {COLOR_IMPASSABLE}]
    BY <1>1, <1>4, <1>7 DEF WellFormed, colored
  <2>3. n.doors \in [DOMAIN n.doors -> Door]
    BY <1>1, <1>4, <1>10, <1>11 DEF WellFormed, doors
  <2>4. DOMAIN n.static_component
          \subseteq (n.next_door_color + 1)..(n.next_component_color - 1)
    <3>1. DOMAIN m.static_component \subseteq (k + 1)..(m.next_component_color - 1)
      BY <1>1 DEF WellFormed, k
    <3> QED
      BY <1>4, <1>6, <1>7, <3>1
  <2>5. n.next_door_color \in COLOR_IMPASSABLE..-1
    BY <1>4, <1>6
  <2> QED
    BY <1>1, <1>4, <1>7, <1>10, <2>1, <2>2, <2>3, <2>4, <2>5 DEF WellFormed
<1>13. DoorsMatch(n)
  <2> SUFFICES ASSUME NEW c \in Cell
               PROVE  /\ IsDoor(n, c) <=> c \in DOMAIN n.doors
                      /\ c \in DOMAIN n.doors => (IsPassable(n, c) <=> n.doors[c].open)
                      /\ c \notin DOMAIN n.doors =>
                           (IsPassable(n, c) <=> n.color[c] # COLOR_IMPASSABLE)
    BY DEF DoorsMatch
  <2>1. CASE c = cell
    <3>1. IsDoor(n, cell)
      BY <1>6, <1>9 DEF IsDoor, IsDoorColor
    <3>2. ~IsPassable(n, cell) /\ ~door.open
      BY <1>9 DEF IsPassable, door
    <3> QED
      BY <1>10, <2>1, <3>1, <3>2
  <2>2. CASE c # cell
    <3>1. /\ IsDoor(n, c) <=> IsDoor(m, c)
          /\ IsPassable(n, c) <=> IsPassable(m, c)
      BY <1>9, <2>2 DEF IsDoor, IsPassable
    <3> QED
      BY <1>1, <1>9, <1>10, <2>2, <3>1 DEF DoorsMatch
  <2> QED
    BY <2>1, <2>2
<1>14. NotWalls(n) = U
  BY <1>5, <1>6, <1>9 DEF NotWalls, V
<1>15. PassableCells(n) = P /\ TransparentCells(n) = T
  <2>1. cell \notin P
    BY <1>5 DEF V
  <2>2. PassableCells(n) = P
    BY <1>9, <2>1 DEF PassableCells, IsPassable, P
  <2>3. TransparentCells(n) = PassableCells(n) \ DOMAIN n.doors
    BY <1>12, <1>13, CellKinds
  <2> QED
    BY <1>5, <1>10, <2>1, <2>2, <2>3
<1>16. \A v \in V : m.color[v] \in DOMAIN m.static_component
  BY <1>1, ColorRange DEF V
<1>17. EdgesIn(T) \in SUBSET (V \X V) /\ EdgesIn(P) \in SUBSET (V \X V)
  BY <1>5, EdgesInside
<1>18. cell \notin V
  BY DEF V
<1>19. StaticLabels(n)
  <2> DEFINE label == [v \in V |-> m.static_component[m.color[v]]]
             more == [v \in U |-> n.static_component[n.color[v]]]
  <2>1. Labels(V, EdgesIn(T), label)
    BY <1>1 DEF StaticLabels, V, T
  <2>2. \A v \in V : more[v] = label[v] /\ more[cell] # label[v]
    <3>1. \A j \in DOMAIN m.static_component :
            m.static_component[j] \in DOMAIN m.static_component
      BY <1>1 DEF WellFormed, IsPartition
    <3> QED
      BY <1>4, <1>5, <1>6, <1>7, <1>9, <1>16, <1>18, <3>1
  <2>3. Labels(U, EdgesIn(T), more)
    <3> HIDE DEF label, more
    <3> QED
      BY <1>17, <1>18, <2>1, <2>2, LabelsAlone
  <2> QED
    BY <1>14, <1>15, <2>3 DEF StaticLabels
<1>20. DynamicLabels(n)
  <2> DEFINE label == [v \in V |-> m.dynamic_component[m.color[v]]]
             more == [v \in U |-> n.dynamic_component[n.color[v]]]
  <2>1. Labels(V, EdgesIn(P), label)
    BY <1>1 DEF DynamicLabels, V, P
  <2>2. \A v \in V : more[v] = label[v] /\ more[cell] # label[v]
    <3>1. \A j \in DOMAIN m.static_component :
            m.dynamic_component[j] \in DOMAIN m.static_component
      BY <1>1 DEF Coarsens, IsPartition
    <3> QED
      BY <1>4, <1>5, <1>6, <1>8, <1>9, <1>16, <1>18, <3>1
  <2>3. Labels(U, EdgesIn(P), more)
    <3> HIDE DEF label, more
    <3> QED
      BY <1>17, <1>18, <2>1, <2>2, LabelsAlone
  <2> QED
    BY <1>14, <1>15, <2>3 DEF DynamicLabels
<1>21. Coarsens(n)
  <2>1. \A j \in DOMAIN s : u[s[j]] = u[j]
    <3>1. \A j \in DOMAIN m.static_component :
            /\ m.static_component[j] \in DOMAIN m.static_component
            /\ m.dynamic_component[m.static_component[j]] = m.dynamic_component[j]
      BY <1>1 DEF WellFormed, IsPartition, Coarsens
    <3> QED
      BY <1>7, <1>8, <3>1
  <2> QED
    BY <1>4, <1>7, <1>8, <2>1 DEF Coarsens
<1>22. Consistent(n)
  BY <1>12, <1>13, <1>19, <1>20, <1>21 DEF Consistent
<1>23. cell \in DOMAIN n.doors /\ ~n.doors[cell].open
  BY <1>10 DEF door
<1> QED
  BY <1>2, <1>3, <1>4, <1>10, <1>22, <1>23

\* A closed door that becomes a wall leaves the others as they were.
LEMMA ClosedDoorToWallGood ==
  ASSUME NEW m, Consistent(m), NEW cell \in DOMAIN m.doors, ~m.doors[cell].open
  PROVE  LET n == ClosedDoorToWall(m, cell, PATH_COST_INFINITE)
         IN  /\ Consistent(n)
             /\ n.next_component_color = m.next_component_color
             /\ cell \in Cell /\ cell \notin NotWalls(n)
<1> DEFINE V == NotWalls(m)
           T == TransparentCells(m)
           P == PassableCells(m)
           U == V \ {cell}
           paid == [m.cost EXCEPT ![cell] = PATH_COST_INFINITE]
           colored == [m.color EXCEPT ![cell] = COLOR_IMPASSABLE]
           doors == [d \in DOMAIN m.doors \ {cell} |-> m.doors[d]]
           target == [cost |-> paid, color |-> colored, doors |-> doors,
                      static_component |-> m.static_component,
                      dynamic_component |-> m.dynamic_component,
                      next_component_color |-> m.next_component_color,
                      next_door_color |-> m.next_door_color]
<1>1. WellFormed(m) /\ DoorsMatch(m) /\ StaticLabels(m) /\ Coarsens(m)
      /\ DynamicLabels(m)
  BY DEF Consistent
<1>2. ClosedDoorToWall(m, cell, PATH_COST_INFINITE) = target
  <2>1. m = [cost |-> m.cost, color |-> m.color, doors |-> m.doors,
             static_component |-> m.static_component,
             dynamic_component |-> m.dynamic_component,
             next_component_color |-> m.next_component_color,
             next_door_color |-> m.next_door_color]
    BY <1>1 DEF WellFormed
  <2>2. ClosedDoorToWall(m, cell, PATH_COST_INFINITE) =
          [m EXCEPT !.color = colored, !.doors = doors, !.cost = paid]
    BY DEF ClosedDoorToWall
  <2> HIDE DEF paid, colored, doors
  <2> QED
    BY <2>1, <2>2
<1>3. PICK n : n = target
  OBVIOUS
<1>4. /\ n.cost = paid /\ n.color = colored /\ n.doors = doors
      /\ n.static_component = m.static_component
      /\ n.dynamic_component = m.dynamic_component
      /\ n.next_component_color = m.next_component_color
      /\ n.next_door_color = m.next_door_color
      /\ n = [cost |-> n.cost, color |-> n.color, doors |-> n.doors,
              static_component |-> n.static_component,
              dynamic_component |-> n.dynamic_component,
              next_component_color |-> n.next_component_color,
              next_door_color |-> n.next_door_color]
  <2> HIDE DEF paid, colored, doors
  <2> QED
    BY <1>3
<1> HIDE DEF target
<1>5. /\ P \subseteq V /\ T \subseteq P /\ V \subseteq Cell
      /\ T = P \ DOMAIN m.doors /\ cell \in V
  BY <1>1, CellKinds DEF NotWalls
<1>6. \A c \in Cell :
        /\ n.color[c] = IF c = cell THEN COLOR_IMPASSABLE ELSE m.color[c]
        /\ n.cost[c] = IF c = cell THEN PATH_COST_INFINITE ELSE m.cost[c]
  BY <1>1, <1>4 DEF WellFormed
<1>7. DOMAIN n.doors = DOMAIN m.doors \ {cell}
      /\ \A d \in DOMAIN n.doors : n.doors[d] = m.doors[d]
  BY <1>4
<1>8. cell \notin P
  BY <1>1 DEF DoorsMatch, PassableCells
<1> HIDE DEF paid, colored, doors, V, T, P
<1>9. WellFormed(n)
  <2>1. n.cost \in [Cell -> Costs]
    BY <1>1, <1>4, CostAssumption DEF WellFormed, paid
  <2>2. n.color \in [Cell -> DOMAIN n.static_component \cup {COLOR_IMPASSABLE}]
    BY <1>1, <1>4 DEF WellFormed, colored
  <2>3. n.doors \in [DOMAIN n.doors -> Door]
    BY <1>1, <1>4, <1>7 DEF WellFormed, doors
  <2> QED
    BY <1>1, <1>4, <1>7, <2>1, <2>2, <2>3 DEF WellFormed
<1>10. DoorsMatch(n)
  <2> SUFFICES ASSUME NEW c \in Cell
               PROVE  /\ IsDoor(n, c) <=> c \in DOMAIN n.doors
                      /\ c \in DOMAIN n.doors => (IsPassable(n, c) <=> n.doors[c].open)
                      /\ c \notin DOMAIN n.doors =>
                           (IsPassable(n, c) <=> n.color[c] # COLOR_IMPASSABLE)
    BY DEF DoorsMatch
  <2>1. CASE c = cell
    BY <1>6, <1>7, <2>1 DEF IsDoor, IsPassable
  <2>2. CASE c # cell
    <3>1. /\ IsDoor(n, c) <=> IsDoor(m, c)
          /\ IsPassable(n, c) <=> IsPassable(m, c)
      BY <1>6, <2>2 DEF IsDoor, IsPassable
    <3> QED
      BY <1>1, <1>6, <1>7, <2>2, <3>1 DEF DoorsMatch
  <2> QED
    BY <2>1, <2>2
<1>11. NotWalls(n) = U
  BY <1>5, <1>6 DEF NotWalls, V
<1>12. PassableCells(n) = P /\ TransparentCells(n) = T
  <2>1. PassableCells(n) = P
    BY <1>6, <1>8 DEF PassableCells, IsPassable, P
  <2>2. TransparentCells(n) = PassableCells(n) \ DOMAIN n.doors
    BY <1>9, <1>10, CellKinds
  <2> QED
    BY <1>5, <1>7, <1>8, <2>1, <2>2
<1>13. /\ \A e \in EdgesIn(P) : e[1] # cell /\ e[2] # cell /\ e[1] \in V /\ e[2] \in V
       /\ \A e \in EdgesIn(T) : e[1] # cell /\ e[2] # cell /\ e[1] \in V /\ e[2] \in V
  <2>1. P \in SUBSET Cell /\ T \in SUBSET Cell
    BY <1>5
  <2>2. EdgesIn(P) \in SUBSET (P \X P) /\ EdgesIn(T) \in SUBSET (T \X T)
    BY <2>1, EdgeFacts
  <2> QED
    BY <1>5, <1>8, <2>2
<1>14. \A c \in U : n.color[c] = m.color[c]
  BY <1>5, <1>6
<1>15. StaticLabels(n)
  <2> DEFINE label == [v \in V |-> m.static_component[m.color[v]]]
             less == [v \in U |-> n.static_component[n.color[v]]]
  <2>1. Labels(V, EdgesIn(T), label)
    BY <1>1 DEF StaticLabels, V, T
  <2>2. \A v \in V \ {cell} : less[v] = label[v]
    BY <1>4, <1>14
  <2>3. Labels(U, EdgesIn(T), less)
    <3> HIDE DEF label, less
    <3> QED
      BY <1>13, <2>1, <2>2, LabelsWithout
  <2> QED
    BY <1>11, <1>12, <2>3 DEF StaticLabels
<1>16. DynamicLabels(n)
  <2> DEFINE label == [v \in V |-> m.dynamic_component[m.color[v]]]
             less == [v \in U |-> n.dynamic_component[n.color[v]]]
  <2>1. Labels(V, EdgesIn(P), label)
    BY <1>1 DEF DynamicLabels, V, P
  <2>2. \A v \in V \ {cell} : less[v] = label[v]
    BY <1>4, <1>14
  <2>3. Labels(U, EdgesIn(P), less)
    <3> HIDE DEF label, less
    <3> QED
      BY <1>13, <2>1, <2>2, LabelsWithout
  <2> QED
    BY <1>11, <1>12, <2>3 DEF DynamicLabels
<1>17. Coarsens(n)
  BY <1>1, <1>4 DEF Coarsens
<1>18. Consistent(n)
  BY <1>9, <1>10, <1>15, <1>16, <1>17 DEF Consistent
<1> QED
  BY <1>2, <1>3, <1>4, <1>5, <1>11, <1>18

(***************************************************************************)
(* transparent_to_wall.                                                    *)
(***************************************************************************)

\* Every cell of the room that some neighbour's fill reaches is in exactly one
\* of the fills that are started.
LEMMA FilledOnce ==
  ASSUME NEW room \in SUBSET Cell, NEW seed \in Seq(Cell), NEW v \in room,
         \E i \in DOMAIN seed : seed[i] \in room /\ v \in Areas(room)[seed[i]]
  PROVE  \E i \in FillStarts(room, seed) :
           {j \in FillStarts(room, seed) : v \in Areas(room)[seed[j]]} = {i}
<1> DEFINE area == Areas(room)
           starts == FillStarts(room, seed)
           hits == {i \in DOMAIN seed : seed[i] \in room /\ v \in area[seed[i]]}
<1>1. EdgesIn(room) \in SUBSET (room \X room)
  BY EdgeFacts
<1>2. \A x \in room : x \in area[x] /\ \A y \in area[x] : area[y] = area[x]
  BY <1>1, ClassEqual, ClassReflexive DEF Areas
<1>3. \A i : i \in starts <=>
        /\ i \in DOMAIN seed /\ seed[i] \in room
        /\ \A j \in DOMAIN seed : j < i /\ seed[j] \in room => seed[i] \notin area[seed[j]]
  BY DEF FillStarts
<1>4. hits \in SUBSET Nat /\ hits # {}
  OBVIOUS
<1>5. PICK i \in hits : \A j \in hits : i <= j
  BY <1>4, LeastExists
<1> HIDE DEF area, starts
<1>6. i \in starts
  <2> SUFFICES ASSUME NEW j \in DOMAIN seed, j < i, seed[j] \in room,
                      seed[i] \in area[seed[j]]
               PROVE  FALSE
    BY <1>3, <1>5
  <2>1. area[seed[i]] = area[seed[j]]
    BY <1>2
  <2>2. j \in hits
    BY <1>5, <2>1
  <2> QED
    BY <1>4, <1>5, <2>2
<1>7. ASSUME NEW j \in starts, v \in area[seed[j]] PROVE j = i
  <2>1. seed[i] \in room /\ seed[j] \in room
    BY <1>3, <1>5
  <2>2. area[seed[i]] = area[v] /\ area[seed[j]] = area[v]
    BY <1>2, <1>5, <1>7, <2>1
  <2>3. seed[i] \in area[seed[j]] /\ seed[j] \in area[seed[i]]
    BY <1>2, <2>1, <2>2
  <2>4. i \in Nat /\ j \in Nat
    BY <1>3, <1>6
  <2> QED
    BY <1>3, <1>6, <2>1, <2>3, <2>4
<1>8. {j \in starts : v \in area[seed[j]]} = {i}
  BY <1>5, <1>6, <1>7
<1> QED
  BY <1>6, <1>8 DEF starts, area

\* The starts are finitely many, at most one per neighbour.
LEMMA StartsFinite ==
  ASSUME NEW room, NEW seed \in Seq(Cell)
  PROVE  /\ FillStarts(room, seed) \in SUBSET Nat
         /\ IsFiniteSet(FillStarts(room, seed))
         /\ Cardinality(FillStarts(room, seed)) \in 0..Len(seed)
<1>1. FillStarts(room, seed) \subseteq 1..Len(seed)
  BY DEF FillStarts
<1>2. IsFiniteSet(1..Len(seed)) /\ Cardinality(1..Len(seed)) = Len(seed)
  <2>1. PICK l \in Nat : l = Len(seed)
    OBVIOUS
  <2>2. IsFiniteSet(1..l) /\ Cardinality(1..l) = IF 1 > l THEN 0 ELSE l - 1 + 1
    BY FS_Interval
  <2> QED
    BY <2>1, <2>2
<1>3. IsFiniteSet(FillStarts(room, seed))
      /\ Cardinality(FillStarts(room, seed)) <= Cardinality(1..Len(seed))
  BY <1>1, <1>2, FS_Subset
<1>4. Cardinality(FillStarts(room, seed)) \in Nat
  BY <1>3, FS_CardinalityType
<1> QED
  BY <1>1, <1>2, <1>3, <1>4

\* The place whose fill gave v its colour.
Spot(room, seed, v) ==
  Least({j \in FillStarts(room, seed) : v \in Areas(room)[seed[j]]})

\* Two cells of the room are filled from one place iff they are still connected.
LEMMA SpotExact ==
  ASSUME NEW room \in SUBSET Cell, NEW seed \in Seq(Cell),
         \A v \in room : \E i \in DOMAIN seed :
           seed[i] \in room /\ v \in Areas(room)[seed[i]]
  PROVE  /\ \A v \in room : Spot(room, seed, v) \in FillStarts(room, seed)
         /\ \A v, w \in room :
              Spot(room, seed, v) = Spot(room, seed, w) <=> w \in Areas(room)[v]
         /\ \A v \in room :
              {j \in FillStarts(room, seed) : v \in Areas(room)[seed[j]]} # {}
<1> DEFINE area == Areas(room)
           starts == FillStarts(room, seed)
           filled(v) == {j \in starts : v \in area[seed[j]]}
<1>1. EdgesIn(room) \in SUBSET (room \X room)
  BY EdgeFacts
<1>2. \A x \in room : x \in area[x] /\ area[x] \subseteq room
                      /\ \A y \in area[x] : area[y] = area[x]
  BY <1>1, ClassEqual, ClassReflexive DEF Areas
<1>3. \A i \in starts : seed[i] \in room
  BY DEF FillStarts
<1>4. starts \in SUBSET Nat
  BY StartsFinite
<1>5. ASSUME NEW v \in room
      PROVE  /\ Spot(room, seed, v) \in starts
             /\ filled(v) = {Spot(room, seed, v)}
  <2>1. PICK i \in starts : filled(v) = {i}
    BY FilledOnce
  <2>2. Least({i}) = i
    <3>1. {i} \in SUBSET Nat /\ {i} # {}
      BY <1>4
    <3>2. Least({i}) \in {i}
      BY <3>1, LeastExists
    <3> QED
      BY <3>2
  <2>3. Spot(room, seed, v) = Least(filled(v))
    BY DEF Spot
  <2> HIDE DEF filled
  <2> QED
    BY <2>1, <2>2, <2>3
<1>6. ASSUME NEW v \in room, NEW w \in room
      PROVE  Spot(room, seed, v) = Spot(room, seed, w) <=> w \in area[v]
  <2> DEFINE i == Spot(room, seed, v)
             j == Spot(room, seed, w)
  <2>1. /\ i \in starts /\ v \in area[seed[i]]
        /\ j \in starts /\ w \in area[seed[j]]
        /\ \A l \in starts : w \in area[seed[l]] => l = j
    BY <1>5
  <2>2. area[v] = area[seed[i]] /\ area[w] = area[seed[j]]
    <3> HIDE DEF i, j, area, starts
    <3> QED
      BY <1>2, <1>3, <2>1
  <2>3. i = j => w \in area[v]
    BY <2>1, <2>2
  <2>4. w \in area[v] => i = j
    BY <2>1, <2>2
  <2> QED
    BY <2>3, <2>4
<1>7. \A v \in room : filled(v) # {}
  BY <1>5
<1> QED
  BY <1>5, <1>6, <1>7

\* The cells of the room that cell was in.
OldRoom(m, cell) ==
  {c \in TransparentCells(m) \ {cell} :
     m.static_component[m.color[c]] = m.static_component[m.color[cell]]}

\* The colour of the fill that started at the place i.
FillColor(m, starts, i) == m.next_component_color + Rank(starts, i)

\* The map transparent_to_wall leaves before it recomputes dynamic_component.
WalledOff(m, cell, room, starts, n) ==
  /\ n.cost = [m.cost EXCEPT ![cell] = PATH_COST_INFINITE]
  /\ n.color = [c \in Cell |->
                  IF {i \in starts : c \in Areas(room)[Adjacent[cell][i]]} = {}
                  THEN [m.color EXCEPT ![cell] = COLOR_IMPASSABLE][c]
                  ELSE FillColor(m, starts, Spot(room, Adjacent[cell], c))]
  /\ n.doors = m.doors
  /\ n.static_component =
       [k \in DOMAIN m.static_component \cup {FillColor(m, starts, i) : i \in starts} |->
          IF k \in DOMAIN m.static_component THEN m.static_component[k] ELSE k]
  /\ n.next_component_color = m.next_component_color + Cardinality(starts)
  /\ n.next_door_color = m.next_door_color
  /\ n = [cost |-> n.cost, color |-> n.color, doors |-> n.doors,
          static_component |-> n.static_component,
          dynamic_component |-> n.dynamic_component,
          next_component_color |-> n.next_component_color,
          next_door_color |-> n.next_door_color]

LEMMA TransparentToWallFields ==
  ASSUME NEW m, WellFormed(m), DoorsMatch(m), NEW cell \in Cell
  PROVE  \E n : /\ TransparentToWall(m, cell) = RegenerateDynamic(n)
                /\ WalledOff(m, cell, OldRoom(m, cell),
                             FillStarts(OldRoom(m, cell), Adjacent[cell]), n)
<1> DEFINE paid == [m.cost EXCEPT ![cell] = PATH_COST_INFINITE]
           painted == [m.color EXCEPT ![cell] = COLOR_IMPASSABLE]
           walled == [m EXCEPT !.cost[cell] = PATH_COST_INFINITE,
                               !.color[cell] = COLOR_IMPASSABLE]
           old == m.static_component[m.color[cell]]
           room == {c \in Cell : /\ IsTransparent(walled, c)
                                 /\ m.static_component[walled.color[c]] = old}
           area == Areas(room)
           seed == Adjacent[cell]
           starts == FillStarts(room, seed)
           fresh(i) == m.next_component_color + Rank(starts, i)
           filled(c) == {i \in starts : c \in area[seed[i]]}
           added == {fresh(i) : i \in starts}
           colored == [c \in Cell |-> IF filled(c) = {} THEN painted[c]
                                      ELSE fresh(Least(filled(c)))]
           touched == [k \in DOMAIN m.static_component \cup added |->
                         IF k \in DOMAIN m.static_component
                         THEN m.static_component[k] ELSE k]
           next == m.next_component_color + Cardinality(starts)
           n == [cost |-> paid, color |-> colored, doors |-> m.doors,
                 static_component |-> touched,
                 dynamic_component |-> m.dynamic_component,
                 next_component_color |-> next,
                 next_door_color |-> m.next_door_color]
<1>1. m = [cost |-> m.cost, color |-> m.color, doors |-> m.doors,
           static_component |-> m.static_component,
           dynamic_component |-> m.dynamic_component,
           next_component_color |-> m.next_component_color,
           next_door_color |-> m.next_door_color]
  BY DEF WellFormed
<1>2. walled = [cost |-> paid, color |-> painted, doors |-> m.doors,
                static_component |-> m.static_component,
                dynamic_component |-> m.dynamic_component,
                next_component_color |-> m.next_component_color,
                next_door_color |-> m.next_door_color]
  <2>1. walled = [m EXCEPT !.cost = paid, !.color = painted]
    OBVIOUS
  <2> HIDE DEF walled, paid, painted
  <2> QED
    BY <1>1, <2>1
<1>3. walled.cost = paid /\ walled.color = painted
      /\ walled.static_component = m.static_component
      /\ walled.next_component_color = m.next_component_color
  <2> HIDE DEF walled, paid, painted
  <2> QED
    BY <1>2
<1> HIDE DEF walled
<1>4. TransparentToWall(m, cell) =
        RegenerateDynamic([walled EXCEPT
           !.color = [c \in Cell |-> IF filled(c) = {} THEN walled.color[c]
                                     ELSE fresh(Least(filled(c)))],
           !.static_component =
              [k \in DOMAIN walled.static_component \cup added |->
                 IF k \in DOMAIN walled.static_component
                 THEN walled.static_component[k] ELSE k],
           !.next_component_color = walled.next_component_color + Cardinality(starts)])
  BY DEF TransparentToWall, walled
<1>5. TransparentToWall(m, cell) = RegenerateDynamic(n)
  <2>1. TransparentToWall(m, cell) =
          RegenerateDynamic([walled EXCEPT
             !.color = colored, !.static_component = touched,
             !.next_component_color = next])
    <3> HIDE DEF room, starts, filled, fresh, added, paid, painted
    <3> QED
      BY <1>3, <1>4
  <2>2. [walled EXCEPT
           !.color = colored, !.static_component = touched,
           !.next_component_color = next] = n
    <3>1. n = [cost |-> paid, color |-> colored, doors |-> m.doors,
               static_component |-> touched,
               dynamic_component |-> m.dynamic_component,
               next_component_color |-> next, next_door_color |-> m.next_door_color]
      OBVIOUS
    <3> HIDE DEF n, colored, touched, starts, paid, painted, next, old, room, area,
                 seed, fresh, filled, added
    <3>2. PICK w : w = walled
      OBVIOUS
    <3>3. w = [cost |-> paid, color |-> painted, doors |-> m.doors,
               static_component |-> m.static_component,
               dynamic_component |-> m.dynamic_component,
               next_component_color |-> m.next_component_color,
               next_door_color |-> m.next_door_color]
      BY <1>2, <3>2
    <3>4. PICK x : x = [w EXCEPT !.color = colored]
      OBVIOUS
    <3>5. x = [cost |-> paid, color |-> colored, doors |-> m.doors,
               static_component |-> m.static_component,
               dynamic_component |-> m.dynamic_component,
               next_component_color |-> m.next_component_color,
               next_door_color |-> m.next_door_color]
      BY <3>3, <3>4
    <3>6. PICK y : y = [x EXCEPT !.static_component = touched]
      OBVIOUS
    <3>7. y = [cost |-> paid, color |-> colored, doors |-> m.doors,
               static_component |-> touched,
               dynamic_component |-> m.dynamic_component,
               next_component_color |-> m.next_component_color,
               next_door_color |-> m.next_door_color]
      BY <3>5, <3>6
    <3>8. [y EXCEPT !.next_component_color = next] = n
      BY <3>1, <3>7
    <3>9. [w EXCEPT !.color = colored, !.static_component = touched,
                    !.next_component_color = next] =
            [y EXCEPT !.next_component_color = next]
      BY <3>4, <3>6
    <3> QED
      BY <3>2, <3>8, <3>9
  <2> QED
    BY <2>1, <2>2
<1>6. room = OldRoom(m, cell)
  <2>1. \A c \in Cell : IsTransparent(walled, c) <=> c # cell /\ IsTransparent(m, c)
    <3> SUFFICES ASSUME NEW c \in Cell
                 PROVE  IsTransparent(walled, c) <=> c # cell /\ IsTransparent(m, c)
      OBVIOUS
    <3>1. walled.cost[c] = IF c = cell THEN PATH_COST_INFINITE ELSE m.cost[c]
      BY <1>3 DEF WellFormed
    <3>2. walled.color[c] = IF c = cell THEN COLOR_IMPASSABLE ELSE m.color[c]
      BY <1>3 DEF WellFormed
    <3> QED
      BY <3>1, <3>2 DEF IsTransparent, IsDoor
  <2>2. \A c \in Cell \ {cell} : walled.color[c] = m.color[c]
    BY <1>3 DEF WellFormed
  <2>3. TransparentCells(m) = {c \in Cell : IsTransparent(m, c)}
    BY DEF TransparentCells
  <2> QED
    BY <2>1, <2>2, <2>3 DEF OldRoom
<1>7. WalledOff(m, cell, room, starts, n)
  <2>1. \A i : fresh(i) = FillColor(m, starts, i)
    BY DEF FillColor
  <2>2. \A c : Least(filled(c)) = Spot(room, seed, c)
    BY DEF Spot
  <2>3. colored = [c \in Cell |->
                     IF {i \in starts : c \in Areas(room)[Adjacent[cell][i]]} = {}
                     THEN painted[c]
                     ELSE FillColor(m, starts, Spot(room, Adjacent[cell], c))]
    <3> DEFINE hit(c) == {i \in starts : c \in Areas(room)[Adjacent[cell][i]]}
    <3>1. \A c : filled(c) = hit(c)
      OBVIOUS
    <3> HIDE DEF filled, hit, fresh, room, starts, painted
    <3>2. colored = [c \in Cell |-> IF hit(c) = {} THEN painted[c]
                                    ELSE FillColor(m, starts, Spot(room, seed, c))]
      BY <2>1, <2>2, <3>1
    <3> QED
      BY <3>2 DEF hit
  <2>4. added = {FillColor(m, starts, i) : i \in starts}
    <3> HIDE DEF fresh, starts
    <3> QED
      BY <2>1
  <2>5. /\ n.cost = paid /\ n.color = colored /\ n.doors = m.doors
        /\ n.static_component = touched
        /\ n.dynamic_component = m.dynamic_component
        /\ n.next_component_color = next
        /\ n.next_door_color = m.next_door_color
    <3> HIDE DEF paid, colored, touched, starts, next
    <3> QED
      OBVIOUS
  <2>6. n = [cost |-> n.cost, color |-> n.color, doors |-> n.doors,
             static_component |-> n.static_component,
             dynamic_component |-> n.dynamic_component,
             next_component_color |-> n.next_component_color,
             next_door_color |-> n.next_door_color]
    <3> HIDE DEF paid, colored, touched, starts, next
    <3> QED
      OBVIOUS
  <2>7. touched = [k \in DOMAIN m.static_component
                           \cup {FillColor(m, starts, i) : i \in starts} |->
                     IF k \in DOMAIN m.static_component
                     THEN m.static_component[k] ELSE k]
    <3> HIDE DEF added, starts
    <3> QED
      BY <2>4
  <2> HIDE DEF n, colored, touched, starts, room
  <2> QED
    BY <2>3, <2>5, <2>6, <2>7 DEF WalledOff
<1> HIDE DEF n, room
<1> QED
  BY <1>5, <1>6, <1>7

\* The fills around a new wall reach every cell of the room it cut, so that each
\* piece of the room gets one colour, and a colour of its own.
LEMMA TransparentToWallGood ==
  ASSUME NEW m, Consistent(m), NEW cell \in TransparentCells(m)
  PROVE  LET n == TransparentToWall(m, cell)
         IN  /\ Consistent(n)
             /\ n.next_component_color <= m.next_component_color + Len(Adjacent[cell])
             /\ n.next_door_color = m.next_door_color
             /\ n.cost = [m.cost EXCEPT ![cell] = PATH_COST_INFINITE]
             /\ cell \notin NotWalls(n)
<1> DEFINE V == NotWalls(m)
           T == TransparentCells(m)
           P == PassableCells(m)
           U == V \ {cell}
           sf == m.static_component
           label == [v \in V |-> sf[m.color[v]]]
           room == OldRoom(m, cell)
           R == EdgesIn(room)
           seed == Adjacent[cell]
           starts == FillStarts(room, seed)
           spot(v) == Spot(room, seed, v)
           fresh(i) == FillColor(m, starts, i)
           filled(v) == {i \in starts : v \in Areas(room)[seed[i]]}
           next == m.next_component_color
<1>1. WellFormed(m) /\ DoorsMatch(m) /\ StaticLabels(m)
  BY DEF Consistent
<1>2. /\ P \subseteq V /\ T = P \ DOMAIN m.doors /\ V \subseteq Cell
      /\ DOMAIN m.doors \subseteq V
  BY <1>1, CellKinds DEF NotWalls
<1>3. cell \in T /\ cell \in Cell
  BY <1>2
<1>4. PICK n : TransparentToWall(m, cell) = RegenerateDynamic(n)
               /\ WalledOff(m, cell, room, starts, n)
  BY <1>1, <1>3, TransparentToWallFields
<1>5. /\ seed \in Seq(Cell) /\ Nbrs[cell] = {seed[i] : i \in DOMAIN seed}
      /\ Len(seed) \in Nat
  BY <1>3, AdjacentAssumption DEF Nbrs
<1>6. room = {v \in T \ {cell} : label[v] = label[cell]}
  BY <1>2 DEF OldRoom
<1>7. room \subseteq T /\ cell \notin room /\ room \subseteq U /\ room \subseteq Cell
  BY <1>2, <1>6
<1>8. \A v \in V : m.color[v] \in DOMAIN sf /\ sf[m.color[v]] \in DOMAIN sf
  BY <1>1, ColorRange DEF WellFormed, IsPartition
<1>9. Labels(V, EdgesIn(T), label)
  BY <1>1 DEF StaticLabels
<1>10. /\ COLOR_IMPASSABLE \in Int /\ COLOR_IMPASSABLE < -1
       /\ COLOR_LOWEST_VALID = COLOR_IMPASSABLE + 1
       /\ COLOR_IMPASSABLE \notin DOMAIN sf
       /\ next \in Nat /\ m.next_door_color \in COLOR_IMPASSABLE..-1
       /\ DOMAIN sf \subseteq (m.next_door_color + 1)..(next - 1)
       /\ IsPartition(sf)
  BY <1>1, ColorRange DEF WellFormed
<1>11. /\ starts \in SUBSET Nat /\ IsFiniteSet(starts)
       /\ Cardinality(starts) \in 0..Len(seed)
  BY <1>5, StartsFinite
<1>12. /\ \A i \in starts : fresh(i) \in next..(next + Cardinality(starts) - 1)
       /\ \A i, j \in starts : fresh(i) = fresh(j) <=> i = j
  <2>1. ASSUME NEW i \in starts
        PROVE  Rank(starts, i) \in Nat /\ Rank(starts, i) < Cardinality(starts)
    <3> HIDE DEF starts
    <3> QED
      BY <1>11, RankBound
  <2>2. ASSUME NEW i \in starts, NEW j \in starts
        PROVE  Rank(starts, i) = Rank(starts, j) <=> i = j
    <3> HIDE DEF starts
    <3> QED
      BY <1>11, RankInjective
  <2> HIDE DEF starts, next
  <2>3. \A i : fresh(i) = next + Rank(starts, i)
    BY DEF FillColor, next
  <2>4. Cardinality(starts) \in Int
    BY <1>11
  <2> HIDE DEF fresh
  <2> QED
    BY <1>10, <2>1, <2>2, <2>3, <2>4
<1>13. \A i \in starts : fresh(i) \notin DOMAIN sf
  <2> HIDE DEF starts, next, fresh, sf
  <2> QED
    BY <1>10, <1>11, <1>12
<1>14. T \in SUBSET V /\ EdgesIn(T) \in SUBSET (T \X T)
       /\ \A a, b : <<a, b>> \in EdgesIn(T) => a \in T /\ b \in T /\ b \in Nbrs[a]
  <2>1. T \in SUBSET Cell /\ T \in SUBSET V
    BY <1>2
  <2> HIDE DEF T
  <2> QED
    BY <2>1, EdgeFacts
<1>15. R = {e \in EdgesIn(T) : e[1] \in room /\ e[2] \in room}
  BY <1>7 DEF EdgesIn
<1>16. \A v \in room : \E i \in DOMAIN seed :
         seed[i] \in room /\ v \in Areas(room)[seed[i]]
  <2> SUFFICES ASSUME NEW v \in room
               PROVE  \E i \in DOMAIN seed :
                        seed[i] \in room /\ v \in Areas(room)[seed[i]]
    OBVIOUS
  <2> DEFINE E == EdgesIn(T)
             near == Nbrs[cell]
  <2>1. \A e \in E : /\ e[1] = cell /\ e[2] \in room => e[2] \in near
                     /\ e[2] = cell /\ e[1] \in room => e[1] \in near
    <3>1. \A a, b : <<a, b>> \in E =>
            a \in T /\ b \in T /\ b \in Nbrs[a] /\ a \in Nbrs[b]
      <4>1. \A a, b \in Cell : b \in Nbrs[a] => a \in Nbrs[b]
        BY AdjacentAssumption
      <4>2. T \subseteq Cell
        BY <1>2
      <4> QED
        BY <1>14, <4>1, <4>2
    <3> HIDE DEF E, room, T
    <3>2. \A e \in E : e = <<e[1], e[2]>>
      BY <1>14 DEF E
    <3> QED
      BY <3>1, <3>2
  <2>2. R = {e \in E : e[1] \in room /\ e[2] \in room}
    BY <1>15
  <2>a. Cut(V, T, E, cell, label, room, R)
    <3> HIDE DEF T, V, label, room, R
    <3> QED
      BY <1>3, <1>6, <1>9, <1>14, <2>2 DEF Cut
  <2>b. HasEnds(near, E, cell, room)
    <3> HIDE DEF E, room, near
    <3> QED
      BY <2>1 DEF HasEnds
  <2> HIDE DEF T, V, E, label, room, R, near
  <2>3. \E s \in near \cap room : v \in Classes(room, R)[s]
    BY <2>a, <2>b, CutReached
  <2> QED
    BY <1>5, <2>3 DEF near, Areas, R
<1>17. /\ \A v \in room : spot(v) \in starts
       /\ \A v, w \in room : spot(v) = spot(w) <=> w \in Areas(room)[v]
       /\ \A v \in room : filled(v) # {}
  <2> HIDE DEF room, seed
  <2> QED
    BY <1>5, <1>7, <1>16, SpotExact
<1>18. \A v : v \notin room => filled(v) = {}
  <2>1. \A i \in starts : seed[i] \in room
    BY DEF FillStarts
  <2>2. \A x \in room : Areas(room)[x] \subseteq room
    BY ClassReflexive DEF Areas
  <2> HIDE DEF room, seed, starts
  <2> QED
    BY <2>1, <2>2
<1>19. \A c \in Cell :
         n.color[c] = IF c \in room THEN fresh(spot(c))
                      ELSE IF c = cell THEN COLOR_IMPASSABLE ELSE m.color[c]
  <2>1. n.color = [c \in Cell |-> IF filled(c) = {}
                                  THEN [m.color EXCEPT ![cell] = COLOR_IMPASSABLE][c]
                                  ELSE fresh(spot(c))]
    BY <1>4 DEF WalledOff
  <2>2. \A c \in Cell : [m.color EXCEPT ![cell] = COLOR_IMPASSABLE][c] =
                          IF c = cell THEN COLOR_IMPASSABLE ELSE m.color[c]
    BY <1>1 DEF WellFormed
  <2> HIDE DEF room, filled, fresh, spot
  <2> QED
    BY <1>17, <1>18, <2>1, <2>2
<1>20. \A c \in Cell : n.cost[c] = IF c = cell THEN PATH_COST_INFINITE ELSE m.cost[c]
  BY <1>1, <1>4 DEF WalledOff, WellFormed
<1>21. /\ n.doors = m.doors /\ n.next_door_color = m.next_door_color
       /\ n.next_component_color = next + Cardinality(starts)
       /\ n.cost = [m.cost EXCEPT ![cell] = PATH_COST_INFINITE]
       /\ DOMAIN n.static_component = DOMAIN sf \cup {fresh(i) : i \in starts}
       /\ \A k \in DOMAIN sf : n.static_component[k] = sf[k]
       /\ \A i \in starts : n.static_component[fresh(i)] = fresh(i)
  <2>1. n.static_component =
          [k \in DOMAIN sf \cup {fresh(i) : i \in starts} |->
             IF k \in DOMAIN sf THEN sf[k] ELSE k]
    BY <1>4 DEF WalledOff
  <2>2. /\ n.doors = m.doors /\ n.next_door_color = m.next_door_color
        /\ n.next_component_color = next + Cardinality(starts)
        /\ n.cost = [m.cost EXCEPT ![cell] = PATH_COST_INFINITE]
    BY <1>4 DEF WalledOff
  <2> HIDE DEF sf, starts, fresh
  <2> QED
    BY <1>13, <2>1, <2>2
<1> HIDE DEF V, T, P, label, room, R, seed, starts, spot, fresh, filled, next, sf
<1>22. IsPartition(n.static_component)
  <2>1. n.static_component \in [DOMAIN n.static_component -> DOMAIN n.static_component]
    BY <1>4, <1>10, <1>21 DEF WalledOff, IsPartition, sf
  <2>2. \A k \in DOMAIN n.static_component :
          n.static_component[n.static_component[k]] = n.static_component[k]
    BY <1>10, <1>21 DEF IsPartition
  <2> QED
    BY <2>1, <2>2 DEF IsPartition
<1>23. WellFormed(n)
  <2>1. n = [cost |-> n.cost, color |-> n.color, doors |-> n.doors,
             static_component |-> n.static_component,
             dynamic_component |-> n.dynamic_component,
             next_component_color |-> n.next_component_color,
             next_door_color |-> n.next_door_color]
    BY <1>4 DEF WalledOff
  <2>2. n.cost \in [Cell -> Costs]
    BY <1>1, <1>21, CostAssumption DEF WellFormed
  <2>3. n.color \in [Cell -> DOMAIN n.static_component \cup {COLOR_IMPASSABLE}]
    <3>1. \A c \in Cell : n.color[c] \in DOMAIN n.static_component \cup {COLOR_IMPASSABLE}
      <4>1. \A c \in Cell : m.color[c] \in DOMAIN sf \cup {COLOR_IMPASSABLE}
        BY <1>1 DEF WellFormed, sf
      <4> QED
        BY <1>17, <1>19, <1>21, <4>1
    <3>2. n.color = [c \in Cell |-> n.color[c]]
      BY <1>4 DEF WalledOff
    <3> QED
      BY <3>1, <3>2
  <2>4. DOMAIN n.static_component
          \subseteq (n.next_door_color + 1)..(n.next_component_color - 1)
    BY <1>10, <1>11, <1>12, <1>21
  <2>5. n.next_component_color \in Nat
    BY <1>10, <1>11, <1>21
  <2> QED
    BY <1>1, <1>21, <1>22, <2>1, <2>2, <2>3, <2>4, <2>5 DEF WellFormed
<1>24. ASSUME NEW c \in Cell
       PROVE  /\ IsPassable(n, c) <=> c # cell /\ IsPassable(m, c)
              /\ IsDoor(n, c) <=> IsDoor(m, c)
              /\ n.color[c] = COLOR_IMPASSABLE <=> c = cell \/ m.color[c] = COLOR_IMPASSABLE
  <2>1. IsPassable(n, c) <=> c # cell /\ IsPassable(m, c)
    BY <1>20 DEF IsPassable
  <2>2. CASE c \in room
    <3>1. n.color[c] >= 0 /\ n.color[c] \in Int /\ c \in T
      <4>1. c \in T
        BY <1>7, <2>2
      <4>2. n.color[c] = fresh(spot(c)) /\ spot(c) \in starts
        BY <1>17, <1>19, <2>2
      <4>3. n.color[c] \in next..(next + Cardinality(starts) - 1)
        BY <1>12, <4>2
      <4>4. next \in Nat /\ Cardinality(starts) \in Int
        BY <1>10, <1>11
      <4> QED
        BY <4>1, <4>3, <4>4
    <3>2. ~IsDoor(n, c)
      BY <1>10, <3>1 DEF IsDoor, IsDoorColor
    <3>3. ~IsDoor(m, c)
      BY <3>1 DEF T, TransparentCells, IsTransparent
    <3>4. m.color[c] # COLOR_IMPASSABLE /\ n.color[c] # COLOR_IMPASSABLE /\ c # cell
      BY <1>2, <1>7, <1>10, <2>2, <3>1 DEF V, NotWalls
    <3> QED
      BY <2>1, <3>2, <3>3, <3>4
  <2>3. CASE c = cell
    <3>1. ~IsDoor(n, c) /\ n.color[c] = COLOR_IMPASSABLE
      BY <1>7, <1>19, <2>3 DEF IsDoor
    <3>2. ~IsDoor(m, c)
      BY <1>3, <2>3 DEF T, TransparentCells, IsTransparent
    <3> QED
      BY <2>1, <2>3, <3>1, <3>2
  <2>4. CASE c \notin room /\ c # cell
    <3>1. n.color[c] = m.color[c]
      BY <1>19, <2>4
    <3> QED
      BY <2>1, <2>4, <3>1 DEF IsDoor
  <2> QED
    BY <2>2, <2>3, <2>4
<1>25. DoorsMatch(n)
  <2>1. cell \notin DOMAIN m.doors
    BY <1>2, <1>3
  <2> QED
    BY <1>1, <1>21, <1>24, <2>1 DEF DoorsMatch
<1>26. NotWalls(n) = U
  BY <1>24 DEF NotWalls, V
<1>27. TransparentCells(n) = T \ {cell}
  BY <1>24 DEF TransparentCells, IsTransparent, IsPassable, T
<1>28. StaticLabels(n)
  <2> DEFINE new == [v \in U |-> n.static_component[n.color[v]]]
             E == EdgesIn(T)
             F == {e \in E : e[1] # cell /\ e[2] # cell}
  <2>1. \A v \in V \ {cell} : v \notin room => new[v] = label[v]
    BY <1>2, <1>8, <1>19, <1>21 DEF label
  <2>2. \A v \in room : new[v] = fresh(spot(v))
    <3> SUFFICES ASSUME NEW v \in room PROVE new[v] = fresh(spot(v))
      OBVIOUS
    <3>1. v \in U /\ v \in Cell
      BY <1>7
    <3> QED
      BY <1>17, <1>19, <1>21, <3>1
  <2>3. \A v, w \in V \ {cell} : v \in room /\ w \notin room => new[v] # label[w]
    <3> SUFFICES ASSUME NEW v \in room, NEW w \in V PROVE new[v] # label[w]
      OBVIOUS
    <3>1. label[w] \in DOMAIN sf
      BY <1>8 DEF label
    <3> HIDE DEF new
    <3> QED
      BY <1>13, <1>17, <2>2, <3>1
  <2>4. \A v, w \in room : new[v] = new[w] <=> w \in Classes(room, R)[v]
    <3>1. Areas(room) = Classes(room, R)
      BY DEF Areas, R
    <3> HIDE DEF new
    <3> QED
      BY <1>12, <1>17, <2>2, <3>1
  <2>5. R = {e \in E : e[1] \in room /\ e[2] \in room}
    BY <1>15
  <2>a. Cut(V, T, E, cell, label, room, R)
    BY <1>3, <1>6, <1>9, <1>14, <2>5 DEF Cut
  <2>b. Relabelled(U, room, R, label, new)
    <3> HIDE DEF new
    <3> QED
      BY <2>1, <2>3, <2>4 DEF Relabelled
  <2>6. U = V \ {cell} /\ F = {e \in E : e[1] # cell /\ e[2] # cell}
    OBVIOUS
  <2>7. F = EdgesIn(T \ {cell})
    BY DEF EdgesIn
  <2>8. Labels(U, F, new)
    <3> HIDE DEF new, E, F, U
    <3> QED
      BY <2>6, <2>a, <2>b, CutLabels
  <2> HIDE DEF F, E
  <2> QED
    BY <1>26, <1>27, <2>7, <2>8 DEF StaticLabels
<1>29. Consistent(RegenerateDynamic(n))
  BY <1>23, <1>25, <1>28, RegenerateGood
<1>30. PICK r : /\ r = RegenerateDynamic(n)
                /\ r.cost = n.cost /\ r.color = n.color /\ r.doors = n.doors
                /\ r.next_component_color = n.next_component_color
                /\ r.next_door_color = n.next_door_color
  BY <1>23, RegenerateFields
<1>31. NotWalls(r) = U
  BY <1>26, <1>30, SameCells
<1>32. r.next_component_color <= m.next_component_color + Len(Adjacent[cell])
  BY <1>5, <1>10, <1>11, <1>21, <1>30 DEF next, seed
<1> QED
  BY <1>4, <1>21, <1>29, <1>30, <1>31, <1>32

(***************************************************************************)
(* create_door, remove_door and set_cost.                                  *)
(***************************************************************************)

\* A map is determined by its fields.
HasFields(m) ==
  m = [cost |-> m.cost, color |-> m.color, doors |-> m.doors,
       static_component |-> m.static_component,
       dynamic_component |-> m.dynamic_component,
       next_component_color |-> m.next_component_color,
       next_door_color |-> m.next_door_color]

\* Writing the doors and the costs.
LEMMA WriteDoorsAndCosts ==
  ASSUME NEW m, HasFields(m), NEW doors, NEW cost
  PROVE  [m EXCEPT !.doors = doors, !.cost = cost]
           = [cost |-> cost, color |-> m.color, doors |-> doors,
              static_component |-> m.static_component,
              dynamic_component |-> m.dynamic_component,
              next_component_color |-> m.next_component_color,
              next_door_color |-> m.next_door_color]
<1>1. PICK x : x = [m EXCEPT !.doors = doors]
  OBVIOUS
<1>2. x = [cost |-> m.cost, color |-> m.color, doors |-> doors,
           static_component |-> m.static_component,
           dynamic_component |-> m.dynamic_component,
           next_component_color |-> m.next_component_color,
           next_door_color |-> m.next_door_color]
  BY <1>1 DEF HasFields
<1>3. [x EXCEPT !.cost = cost]
        = [cost |-> cost, color |-> m.color, doors |-> doors,
           static_component |-> m.static_component,
           dynamic_component |-> m.dynamic_component,
           next_component_color |-> m.next_component_color,
           next_door_color |-> m.next_door_color]
  BY <1>2
<1> QED
  BY <1>1, <1>3

\* Writing dynamic_component and the doors.
LEMMA WriteDynamicAndDoors ==
  ASSUME NEW m, HasFields(m), NEW u, NEW doors
  PROVE  [m EXCEPT !.dynamic_component = u, !.doors = doors]
           = [cost |-> m.cost, color |-> m.color, doors |-> doors,
              static_component |-> m.static_component,
              dynamic_component |-> u,
              next_component_color |-> m.next_component_color,
              next_door_color |-> m.next_door_color]
<1>1. PICK x : x = [m EXCEPT !.dynamic_component = u]
  OBVIOUS
<1>2. x = [cost |-> m.cost, color |-> m.color, doors |-> m.doors,
           static_component |-> m.static_component,
           dynamic_component |-> u,
           next_component_color |-> m.next_component_color,
           next_door_color |-> m.next_door_color]
  BY <1>1 DEF HasFields
<1>3. [x EXCEPT !.doors = doors]
        = [cost |-> m.cost, color |-> m.color, doors |-> doors,
           static_component |-> m.static_component,
           dynamic_component |-> u,
           next_component_color |-> m.next_component_color,
           next_door_color |-> m.next_door_color]
  BY <1>2
<1> QED
  BY <1>1, <1>3

\* The map n is m with the door recorded in cell.
Recorded(m, cell, price, door, n) ==
  /\ HasFields(n)
  /\ n.cost = [m.cost EXCEPT ![cell] = price]
  /\ n.doors = [m.doors EXCEPT ![cell] = door]
  /\ n.color = m.color
  /\ n.static_component = m.static_component
  /\ n.dynamic_component = m.dynamic_component
  /\ n.next_component_color = m.next_component_color
  /\ n.next_door_color = m.next_door_color

\* The cost of a new door's cell, and the new door.
NewPrice(open, cost) == IF open THEN cost ELSE PATH_COST_INFINITE

NewDoor(open, cost) ==
  [open |-> open, cost_open |-> cost, cost_closed |-> PATH_COST_INFINITE]

\* The last writes of create_door.
LEMMA RecordDoorFields ==
  ASSUME NEW m, HasFields(m), NEW cell, NEW open, NEW cost
  PROVE  Recorded(m, cell, NewPrice(open, cost), NewDoor(open, cost),
                  RecordDoor(m, cell, open, cost))
<1> DEFINE paid == [m.cost EXCEPT ![cell] = NewPrice(open, cost)]
           doors == [m.doors EXCEPT ![cell] = NewDoor(open, cost)]
<1>1. RecordDoor(m, cell, open, cost) = [m EXCEPT !.doors = doors, !.cost = paid]
  BY DEF RecordDoor, NewPrice, NewDoor
<1> HIDE DEF doors, paid
<1>2. RecordDoor(m, cell, open, cost)
        = [cost |-> paid, color |-> m.color, doors |-> doors,
           static_component |-> m.static_component,
           dynamic_component |-> m.dynamic_component,
           next_component_color |-> m.next_component_color,
           next_door_color |-> m.next_door_color]
  BY <1>1, WriteDoorsAndCosts
<1>3. PICK r : r = RecordDoor(m, cell, open, cost)
  OBVIOUS
<1>4. /\ HasFields(r) /\ r.cost = paid /\ r.color = m.color /\ r.doors = doors
      /\ r.static_component = m.static_component
      /\ r.dynamic_component = m.dynamic_component
      /\ r.next_component_color = m.next_component_color
      /\ r.next_door_color = m.next_door_color
  BY <1>2, <1>3 DEF HasFields
<1> QED
  BY <1>3, <1>4 DEF Recorded, doors, paid

\* The map o is m with the door of cell open and dynamic_component united.
Opened(m, links, cell, o) ==
  /\ HasFields(o)
  /\ o.cost = m.cost
  /\ o.doors = [m.doors EXCEPT ![cell].open = TRUE]
  /\ o.color = m.color
  /\ o.static_component = m.static_component
  /\ o.dynamic_component = Unite(m.dynamic_component, links)
  /\ o.next_component_color = m.next_component_color
  /\ o.next_door_color = m.next_door_color

\* The fields after closed_door_to_open_door.
LEMMA OpenAlongFields ==
  ASSUME NEW m, HasFields(m), NEW links, NEW cell
  PROVE  Opened(m, links, cell, OpenAlong(m, links, cell))
<1> DEFINE doors == [m.doors EXCEPT ![cell].open = TRUE]
           u == Unite(m.dynamic_component, links)
<1>1. OpenAlong(m, links, cell) = [m EXCEPT !.dynamic_component = u, !.doors = doors]
  BY DEF OpenAlong
<1> HIDE DEF doors, u
<1>2. OpenAlong(m, links, cell)
        = [cost |-> m.cost, color |-> m.color, doors |-> doors,
           static_component |-> m.static_component,
           dynamic_component |-> u,
           next_component_color |-> m.next_component_color,
           next_door_color |-> m.next_door_color]
  BY <1>1, WriteDynamicAndDoors
<1>3. PICK r : r = OpenAlong(m, links, cell)
  OBVIOUS
<1>4. /\ HasFields(r) /\ r.cost = m.cost /\ r.color = m.color /\ r.doors = doors
      /\ r.static_component = m.static_component
      /\ r.dynamic_component = u
      /\ r.next_component_color = m.next_component_color
      /\ r.next_door_color = m.next_door_color
  BY <1>2, <1>3 DEF HasFields
<1> QED
  BY <1>3, <1>4 DEF Opened, doors, u

\* Walling off a cell that is not a door.
LEMMA AsWallGood ==
  ASSUME NEW m, Consistent(m), NEW cell \in Cell, ~IsDoor(m, cell)
  PROVE  LET n == AsWall(m, cell)
         IN  /\ Consistent(n)
             /\ cell \notin NotWalls(n)
             /\ n.next_component_color <= m.next_component_color + Len(Adjacent[cell])
             /\ n.next_door_color = m.next_door_color
<1>1. WellFormed(m) /\ DoorsMatch(m)
  BY DEF Consistent
<1>2. CASE IsPassable(m, cell)
  <2>1. cell \in TransparentCells(m)
    BY <1>2 DEF TransparentCells, IsTransparent, IsPassable
  <2> QED
    BY <1>2, <2>1, TransparentToWallGood DEF AsWall
<1>3. CASE ~IsPassable(m, cell)
  <2>1. cell \notin NotWalls(m)
    BY <1>1, <1>3 DEF DoorsMatch, NotWalls
  <2>2. Len(Adjacent[cell]) \in Nat /\ m.next_component_color \in Nat
    BY <1>1, AdjacentAssumption DEF WellFormed
  <2> QED
    BY <1>3, <2>1, <2>2 DEF AsWall
<1> QED
  BY <1>2, <1>3

\* create_door.
LEMMA CreateDoorGood ==
  ASSUME NEW m, Consistent(m), NEW cell \in Cell, ~IsDoor(m, cell),
         m.next_door_color >= COLOR_LOWEST_VALID,
         NEW open \in BOOLEAN, NEW cost \in Costs, cost # PATH_COST_INFINITE
  PROVE  LET n == CreateDoor(m, cell, open, cost)
         IN  /\ Consistent(n)
             /\ n.next_component_color <= m.next_component_color + Len(Adjacent[cell])
<1>1. PICK w : /\ w = AsWall(m, cell)
               /\ Consistent(w)
               /\ cell \notin NotWalls(w)
               /\ w.next_component_color <= m.next_component_color + Len(Adjacent[cell])
               /\ w.next_door_color = m.next_door_color
  BY AsWallGood
<1>2. PICK c : /\ c = WallToClosedDoor(w, cell, PATH_COST_INFINITE, cost)
               /\ Consistent(c)
               /\ c.next_component_color = w.next_component_color
               /\ DOMAIN c.doors = DOMAIN w.doors \cup {cell}
               /\ ~c.doors[cell].open
  <2>1. w.next_door_color >= COLOR_LOWEST_VALID
    BY <1>1
  <2>2. PATH_COST_INFINITE \in Costs
    BY CostAssumption
  <2> QED
    BY <1>1, <2>1, <2>2, WallToClosedDoorGood
<1>3. /\ WellFormed(c) /\ cell \in DOMAIN c.doors
      /\ HasFields(c)
      /\ c.doors \in [DOMAIN c.doors -> Door]
  BY <1>2 DEF Consistent, WellFormed, HasFields
<1>4. PICK price, door : /\ price = NewPrice(open, cost) /\ door = NewDoor(open, cost)
                         /\ door \in Door /\ price \in Costs
                         /\ (price # PATH_COST_INFINITE <=> open) /\ door.open = open
  <2>1. NewDoor(open, cost) \in Door /\ NewDoor(open, cost).open = open
    BY CostAssumption DEF Door, NewDoor
  <2>2. /\ NewPrice(open, cost) \in Costs
        /\ NewPrice(open, cost) # PATH_COST_INFINITE <=> open
    BY CostAssumption DEF NewPrice
  <2> QED
    BY <2>1, <2>2
<1>5. CASE open
  <2>1. PICK o : o = OpenAlong(c, DoorLinks(c, cell), cell)
                 /\ Opened(c, DoorLinks(c, cell), cell, o)
    BY <1>3, OpenAlongFields
  <2>2. ClosedDoorToOpenDoor(c, cell) = o
    BY <2>1, LinksOfDoor
  <2>3. CreateDoor(m, cell, open, cost) = RecordDoor(o, cell, open, cost)
    BY <1>1, <1>2, <1>5, <2>2 DEF CreateDoor
  <2>4. PICK n : n = RecordDoor(o, cell, open, cost)
                 /\ Recorded(o, cell, price, door, n)
    BY <1>4, <2>1, RecordDoorFields DEF Opened
  <2>5. n.doors = [c.doors EXCEPT ![cell] = door]
    <3>1. n.doors = [o.doors EXCEPT ![cell] = door]
      BY <2>4 DEF Recorded
    <3>2. PICK x : o.doors = [c.doors EXCEPT ![cell] = x]
      BY <2>1 DEF Opened
    <3> QED
      BY <1>3, <3>1, <3>2
  <2>6. DoorChanges(c, cell, price, door, n)
    BY <1>3, <1>4, <2>1, <2>4, <2>5 DEF DoorChanges, HasFields, Opened, Recorded
  <2>7. n.dynamic_component = Unite(c.dynamic_component, DoorLinks(c, cell))
        /\ n.next_component_color = c.next_component_color
    BY <2>1, <2>4 DEF Opened, Recorded
  <2>8. Consistent(n)
    BY <1>2, <1>4, <1>5, <2>6, <2>7, DoorOpens
  <2> QED
    BY <1>1, <1>2, <2>3, <2>4, <2>7, <2>8
<1>6. CASE ~open
  <2>1. CreateDoor(m, cell, open, cost) = RecordDoor(c, cell, open, cost)
    BY <1>1, <1>2, <1>6 DEF CreateDoor
  <2>2. PICK n : n = RecordDoor(c, cell, open, cost)
                 /\ Recorded(c, cell, price, door, n)
    BY <1>3, <1>4, RecordDoorFields
  <2>3. DoorChanges(c, cell, price, door, n)
        /\ n.dynamic_component = c.dynamic_component
        /\ n.next_component_color = c.next_component_color
    BY <1>3, <1>4, <2>2 DEF DoorChanges, HasFields, Recorded
  <2>4. Consistent(n)
    BY <1>2, <1>4, <1>6, <2>3, DoorPriced
  <2> QED
    BY <1>1, <1>2, <2>1, <2>2, <2>3, <2>4
<1> QED
  BY <1>5, <1>6

\* Opening or closing a door.
LEMMA SetOpen ==
  ASSUME NEW old \in Door, NEW open
  PROVE  [old EXCEPT !.open = open]
           = [open |-> open, cost_open |-> old.cost_open,
              cost_closed |-> old.cost_closed]
<1>1. old = [open |-> old.open, cost_open |-> old.cost_open,
             cost_closed |-> old.cost_closed]
  BY DEF Door
<1> QED
  BY <1>1

\* open_door_to_closed_door, for a door that stays a door.
LEMMA OpenDoorToClosedDoorGood ==
  ASSUME NEW m, Consistent(m), NEW cell \in DOMAIN m.doors
  PROVE  LET n == OpenDoorToClosedDoor(m, cell)
         IN  /\ Consistent(n)
             /\ n.next_component_color = m.next_component_color
             /\ cell \in DOMAIN n.doors /\ ~n.doors[cell].open
<1>1. WellFormed(m) /\ DoorsMatch(m) /\ StaticLabels(m) /\ HasFields(m)
  BY DEF Consistent, WellFormed, HasFields
<1>2. PICK old : old = m.doors[cell] /\ old \in Door
  BY <1>1 DEF WellFormed
<1> DEFINE shut == [open |-> FALSE, cost_open |-> old.cost_open,
                    cost_closed |-> old.cost_closed]
<1>a. [old EXCEPT !.open = FALSE] = shut
  BY <1>2, SetOpen
<1>b. shut \in Door /\ ~shut.open
  BY <1>2 DEF Door
<1>3. PICK door : /\ door = [old EXCEPT !.open = FALSE]
                  /\ door \in Door /\ ~door.open
  <2> HIDE DEF shut
  <2> QED
    BY <1>a, <1>b
<1> DEFINE paid == [m.cost EXCEPT ![cell] = PATH_COST_INFINITE]
           doors == [m.doors EXCEPT ![cell] = door]
<1>4. [m.doors EXCEPT ![cell].open = FALSE] = doors
  <2>1. [old EXCEPT !.open = FALSE] = door
    BY <1>3
  <2>2. [m.doors EXCEPT ![cell].open = FALSE] =
          [m.doors EXCEPT ![cell] = [old EXCEPT !.open = FALSE]]
    BY <1>2
  <2> QED
    BY <2>1, <2>2
<1>5. PICK r : /\ OpenDoorToClosedDoor(m, cell) = RegenerateDynamic(r)
               /\ r = [cost |-> paid, color |-> m.color, doors |-> doors,
                       static_component |-> m.static_component,
                       dynamic_component |-> m.dynamic_component,
                       next_component_color |-> m.next_component_color,
                       next_door_color |-> m.next_door_color]
  <2>1. OpenDoorToClosedDoor(m, cell) =
          RegenerateDynamic([m EXCEPT !.doors = [m.doors EXCEPT ![cell].open = FALSE],
                                      !.cost = paid])
    BY DEF OpenDoorToClosedDoor
  <2> HIDE DEF doors, paid
  <2>2. OpenDoorToClosedDoor(m, cell) =
          RegenerateDynamic([m EXCEPT !.doors = doors, !.cost = paid])
    BY <1>4, <2>1
  <2> QED
    BY <1>1, <2>2, WriteDoorsAndCosts
<1>6. DoorChanges(m, cell, PATH_COST_INFINITE, door, r)
  BY <1>3, <1>5, CostAssumption DEF DoorChanges
<1>7. r.next_component_color = m.next_component_color
      /\ DOMAIN r.doors = DOMAIN m.doors /\ ~r.doors[cell].open
  BY <1>1, <1>3, <1>5 DEF WellFormed
<1>8. WellFormed(r) /\ DoorsMatch(r) /\ StaticLabels(r)
  BY <1>1, <1>3, <1>6, DoorChangeCells
<1>9. Consistent(RegenerateDynamic(r))
      /\ RegenerateDynamic(r).next_component_color = r.next_component_color
      /\ RegenerateDynamic(r).doors = r.doors
  BY <1>8, RegenerateGood, RegenerateFields
<1> QED
  BY <1>5, <1>7, <1>9

\* The wall that a closed door becomes, whatever the cost it is given.
LEMMA WallAnyCost ==
  ASSUME NEW m, Consistent(m), NEW cell \in DOMAIN m.doors, NEW cost \in Costs
  PROVE  LET x == ClosedDoorToWall(m, cell, cost)
         IN  /\ HasFields(x)
             /\ x.cost \in [Cell -> Costs]
             /\ ClosedDoorToWall(m, cell, PATH_COST_INFINITE) =
                  [x EXCEPT !.cost[cell] = PATH_COST_INFINITE]
<1> DEFINE color == [m.color EXCEPT ![cell] = COLOR_IMPASSABLE]
           doors == [d \in DOMAIN m.doors \ {cell} |-> m.doors[d]]
           paid(k) == [m.cost EXCEPT ![cell] = k]
           result(k) == [cost |-> paid(k), color |-> color, doors |-> doors,
                         static_component |-> m.static_component,
                         dynamic_component |-> m.dynamic_component,
                         next_component_color |-> m.next_component_color,
                         next_door_color |-> m.next_door_color]
<1>1. HasFields(m) /\ m.cost \in [Cell -> Costs]
  BY DEF Consistent, WellFormed, HasFields
<1>2. \A k : ClosedDoorToWall(m, cell, k) = result(k)
  <2> SUFFICES ASSUME NEW k PROVE ClosedDoorToWall(m, cell, k) = result(k)
    OBVIOUS
  <2>1. PICK p : p = paid(k)
    OBVIOUS
  <2>2. ClosedDoorToWall(m, cell, k) =
          [m EXCEPT !.color = color, !.doors = doors, !.cost = p]
    BY <2>1 DEF ClosedDoorToWall
  <2> HIDE DEF color, doors, paid
  <2>3. PICK a : a = [m EXCEPT !.color = color]
    OBVIOUS
  <2>4. a = [cost |-> m.cost, color |-> color, doors |-> m.doors,
             static_component |-> m.static_component,
             dynamic_component |-> m.dynamic_component,
             next_component_color |-> m.next_component_color,
             next_door_color |-> m.next_door_color]
    BY <1>1, <2>3 DEF HasFields
  <2>5. HasFields(a) /\ a.color = color /\ a.doors = m.doors
        /\ a.static_component = m.static_component
        /\ a.dynamic_component = m.dynamic_component
        /\ a.next_component_color = m.next_component_color
        /\ a.next_door_color = m.next_door_color
    BY <2>4 DEF HasFields
  <2>a. [a EXCEPT !.doors = doors, !.cost = p] =
          [cost |-> p, color |-> a.color, doors |-> doors,
           static_component |-> a.static_component,
           dynamic_component |-> a.dynamic_component,
           next_component_color |-> a.next_component_color,
           next_door_color |-> a.next_door_color]
    <3>1. HasFields(a)
      BY <2>5
    <3> QED
      BY <3>1, WriteDoorsAndCosts
  <2>6. [a EXCEPT !.doors = doors, !.cost = p] = result(k)
    BY <2>1, <2>5, <2>a
  <2> QED
    BY <2>2, <2>3, <2>6
<1>3. PICK x : x = ClosedDoorToWall(m, cell, cost) /\ x = result(cost)
  BY <1>2
<1> HIDE DEF color, doors
<1>4. paid(cost) \in [Cell -> Costs]
      /\ [paid(cost) EXCEPT ![cell] = PATH_COST_INFINITE] = paid(PATH_COST_INFINITE)
  BY <1>1
<1> HIDE DEF paid
<1>5. HasFields(x) /\ x.cost = paid(cost)
  <2>1. x = result(cost)
    BY <1>3
  <2> QED
    BY <2>1 DEF HasFields
<1>6. [x EXCEPT !.cost[cell] = PATH_COST_INFINITE] = result(PATH_COST_INFINITE)
  <2>1. PICK p : p = paid(PATH_COST_INFINITE)
    OBVIOUS
  <2>2. [x EXCEPT !.cost[cell] = PATH_COST_INFINITE] = [x EXCEPT !.cost = p]
    BY <1>4, <1>5, <2>1
  <2>3. x = result(cost)
    BY <1>3
  <2>4. [x EXCEPT !.cost = p] = result(PATH_COST_INFINITE)
    BY <2>1, <2>3
  <2> QED
    BY <2>2, <2>4
<1> QED
  BY <1>2, <1>3, <1>4, <1>5, <1>6

\* wall_to_transparent does not read the cost of the cell, which is set again
\* after it.
LEMMA WallCostUnread ==
  ASSUME NEW m, NEW cell \in Cell, NEW x, HasFields(x),
         NEW w, w = [x EXCEPT !.cost[cell] = PATH_COST_INFINITE],
         x.cost \in [Cell -> Costs], NEW cost
  PROVE  [WallToTransparent(x, cell) EXCEPT !.cost[cell] = cost] =
           [WallToTransparent(w, cell) EXCEPT !.cost[cell] = cost]
<1> DEFINE seed == Adjacent[cell]
           cheap == [x.cost EXCEPT ![cell] = PATH_COST_INFINITE]
           near(q) == {i \in DOMAIN seed : IsTransparent(q, seed[i])}
           color(q) == IF near(q) = {} THEN q.next_component_color
                       ELSE q.color[seed[Least(near(q))]]
           room(q) == {<<color(q), q.color[seed[i]]>> : i \in near(q)}
           beside(q) == {<<color(q), q.color[n]>> :
                           n \in {n \in Nbrs[cell] : IsPassable(q, n)}}
           paint(q) == [q.color EXCEPT ![cell] = color(q)]
           static(q) == Unite(Touch(q.static_component, color(q)), room(q))
           dynamic(q) == Unite(Touch(q.dynamic_component, color(q)),
                               room(q) \cup beside(q))
           next(q) == IF near(q) = {} THEN color(q) + 1 ELSE q.next_component_color
           result(q, p) ==
             [cost |-> p, color |-> paint(q), doors |-> q.doors,
              static_component |-> static(q), dynamic_component |-> dynamic(q),
              next_component_color |-> next(q), next_door_color |-> q.next_door_color]
<1>1. w = [cost |-> cheap, color |-> x.color, doors |-> x.doors,
           static_component |-> x.static_component,
           dynamic_component |-> x.dynamic_component,
           next_component_color |-> x.next_component_color,
           next_door_color |-> x.next_door_color]
  <2>1. w = [x EXCEPT !.cost = cheap]
    OBVIOUS
  <2> HIDE DEF cheap
  <2> QED
    BY <2>1 DEF HasFields
<1>2. /\ w.cost = cheap /\ w.color = x.color /\ w.doors = x.doors
      /\ w.static_component = x.static_component
      /\ w.dynamic_component = x.dynamic_component
      /\ w.next_component_color = x.next_component_color
      /\ w.next_door_color = x.next_door_color
      /\ HasFields(w)
  <2> HIDE DEF cheap
  <2> QED
    BY <1>1 DEF HasFields
<1>3. \A n \in Nbrs[cell] : w.cost[n] = x.cost[n]
  <2>1. \A n \in Nbrs[cell] : n \in Cell /\ n # cell
    BY EdgeFacts, AdjacentAssumption
  <2> QED
    BY <1>2, <2>1
<1>4. \A n \in Nbrs[cell] : /\ IsPassable(w, n) <=> IsPassable(x, n)
                            /\ IsTransparent(w, n) <=> IsTransparent(x, n)
  BY <1>2, <1>3 DEF IsPassable, IsTransparent, IsDoor
<1>5. near(w) = near(x)
  <2>1. \A i \in DOMAIN seed : seed[i] \in Nbrs[cell]
    BY DEF Nbrs
  <2> QED
    BY <1>4, <2>1
<1>6. color(w) = color(x)
  <2> HIDE DEF near
  <2> QED
    BY <1>2, <1>5
<1>7. room(w) = room(x) /\ beside(w) = beside(x) /\ next(w) = next(x)
  <2> HIDE DEF near, color
  <2> QED
    BY <1>2, <1>4, <1>5, <1>6
<1>8. paint(w) = paint(x) /\ static(w) = static(x) /\ dynamic(w) = dynamic(x)
  <2> HIDE DEF room, beside, color
  <2> QED
    BY <1>2, <1>6, <1>7
<1>9. ASSUME NEW q, HasFields(q)
      PROVE  [WallToTransparent(q, cell) EXCEPT !.cost[cell] = cost]
               = result(q, [q.cost EXCEPT ![cell] = cost])
  <2>1. WallToTransparent(q, cell) =
          [q EXCEPT !.color = paint(q), !.static_component = static(q),
                    !.dynamic_component = dynamic(q),
                    !.next_component_color = next(q)]
    BY DEF WallToTransparent
  <2> HIDE DEF paint, static, dynamic, next
  <2>2. PICK a : a = [q EXCEPT !.color = paint(q)]
    OBVIOUS
  <2>3. a = [cost |-> q.cost, color |-> paint(q), doors |-> q.doors,
             static_component |-> q.static_component,
             dynamic_component |-> q.dynamic_component,
             next_component_color |-> q.next_component_color,
             next_door_color |-> q.next_door_color]
    BY <1>9, <2>2 DEF HasFields
  <2>4. PICK b : b = [a EXCEPT !.static_component = static(q)]
    OBVIOUS
  <2>5. b = [cost |-> q.cost, color |-> paint(q), doors |-> q.doors,
             static_component |-> static(q),
             dynamic_component |-> q.dynamic_component,
             next_component_color |-> q.next_component_color,
             next_door_color |-> q.next_door_color]
    BY <2>3, <2>4
  <2>6. PICK c : c = [b EXCEPT !.dynamic_component = dynamic(q)]
    OBVIOUS
  <2>7. c = [cost |-> q.cost, color |-> paint(q), doors |-> q.doors,
             static_component |-> static(q), dynamic_component |-> dynamic(q),
             next_component_color |-> q.next_component_color,
             next_door_color |-> q.next_door_color]
    BY <2>5, <2>6
  <2>8. PICK d : d = [c EXCEPT !.next_component_color = next(q)]
    OBVIOUS
  <2>9. d = result(q, q.cost)
    BY <2>7, <2>8
  <2>10. WallToTransparent(q, cell) = d
    BY <2>1, <2>2, <2>4, <2>6, <2>8
  <2>11. PICK p : p = [q.cost EXCEPT ![cell] = cost]
    OBVIOUS
  <2>12. d.cost = q.cost
    BY <2>9
  <2>13. [d EXCEPT !.cost[cell] = cost] = [d EXCEPT !.cost = p]
    BY <2>11, <2>12
  <2>14. [d EXCEPT !.cost = p] = result(q, p)
    BY <2>9
  <2> QED
    BY <2>10, <2>11, <2>13, <2>14
<1>10. [w.cost EXCEPT ![cell] = cost] = [x.cost EXCEPT ![cell] = cost]
  BY <1>2
<1> HIDE DEF paint, static, dynamic, next
<1>11. PICK p : /\ p = [x.cost EXCEPT ![cell] = cost]
                /\ p = [w.cost EXCEPT ![cell] = cost]
  BY <1>10
<1>12. result(w, p) = result(x, p)
  BY <1>2, <1>7, <1>8
<1> HIDE DEF result
<1>13. [WallToTransparent(w, cell) EXCEPT !.cost[cell] = cost]
         = result(w, [w.cost EXCEPT ![cell] = cost])
  BY <1>2, <1>9
<1>14. [WallToTransparent(x, cell) EXCEPT !.cost[cell] = cost]
         = result(x, [x.cost EXCEPT ![cell] = cost])
  BY <1>9
<1> QED
  BY <1>11, <1>12, <1>13, <1>14

\* remove_door.
LEMMA RemoveDoorGood ==
  ASSUME NEW m, Consistent(m), NEW cell \in DOMAIN m.doors, NEW cost \in Costs
  PROVE  LET n == RemoveDoor(m, cell, cost)
         IN  /\ Consistent(n)
             /\ n.next_component_color <= m.next_component_color + 1
<1>1. PICK c : /\ c = IF m.doors[cell].open THEN OpenDoorToClosedDoor(m, cell) ELSE m
               /\ Consistent(c)
               /\ c.next_component_color = m.next_component_color
               /\ cell \in DOMAIN c.doors /\ ~c.doors[cell].open
  BY OpenDoorToClosedDoorGood
<1>2. PICK w : /\ w = ClosedDoorToWall(c, cell, PATH_COST_INFINITE)
               /\ Consistent(w)
               /\ w.next_component_color = c.next_component_color
               /\ cell \in Cell /\ cell \notin NotWalls(w)
  BY <1>1, ClosedDoorToWallGood
<1>3. m.next_component_color \in Nat
  BY DEF Consistent, WellFormed
<1>4. PICK k : k = IF m.doors[cell].open THEN cost ELSE PATH_COST_INFINITE
  OBVIOUS
<1>5. PICK x : x = ClosedDoorToWall(c, cell, k)
  OBVIOUS
<1>6. CASE cost = PATH_COST_INFINITE
  <2>1. k = PATH_COST_INFINITE
    BY <1>4, <1>6
  <2>2. RemoveDoor(m, cell, cost) = w
    BY <1>1, <1>2, <1>4, <1>6, <2>1 DEF RemoveDoor
  <2> QED
    BY <1>1, <1>2, <1>3, <2>2
<1>7. CASE cost # PATH_COST_INFINITE
  <2>1. PICK n : n = [WallToTransparent(w, cell) EXCEPT !.cost[cell] = cost]
    OBVIOUS
  <2>2. Consistent(n) /\ n.next_component_color <= w.next_component_color + 1
    BY <1>2, <1>7, <2>1, WallToTransparentGood
  <2>3. RemoveDoor(m, cell, cost) = [WallToTransparent(x, cell) EXCEPT !.cost[cell] = cost]
    BY <1>1, <1>4, <1>5, <1>7 DEF RemoveDoor
  <2>4. /\ HasFields(x) /\ x.cost \in [Cell -> Costs]
        /\ w = [x EXCEPT !.cost[cell] = PATH_COST_INFINITE]
    <3>1. k \in Costs
      BY <1>4, CostAssumption
    <3> QED
      BY <1>1, <1>2, <1>5, <3>1, WallAnyCost
  <2>5. [WallToTransparent(x, cell) EXCEPT !.cost[cell] = cost] = n
    BY <1>2, <2>1, <2>4, WallCostUnread
  <2> QED
    BY <1>1, <1>2, <2>2, <2>3, <2>5
<1> QED
  BY <1>6, <1>7

\* A cost that changes and leaves the cell passable, or leaves it a wall.
LEMMA RepriceGood ==
  ASSUME NEW m, Consistent(m), NEW cell \in Cell, NEW cost \in Costs,
         cost # PATH_COST_INFINITE <=> IsPassable(m, cell)
  PROVE  LET n == [m EXCEPT !.cost[cell] = cost]
         IN  /\ Consistent(n)
             /\ n.next_component_color = m.next_component_color
<1> DEFINE paid == [m.cost EXCEPT ![cell] = cost]
<1>1. WellFormed(m) /\ DoorsMatch(m) /\ StaticLabels(m) /\ Coarsens(m)
      /\ DynamicLabels(m)
  BY DEF Consistent
<1>2. paid \in [Cell -> Costs]
  BY <1>1 DEF WellFormed
<1>3. PICK n : /\ n = [m EXCEPT !.cost[cell] = cost]
               /\ n = [cost |-> paid, color |-> m.color, doors |-> m.doors,
                       static_component |-> m.static_component,
                       dynamic_component |-> m.dynamic_component,
                       next_component_color |-> m.next_component_color,
                       next_door_color |-> m.next_door_color]
  <2>1. [m EXCEPT !.cost[cell] = cost] = [m EXCEPT !.cost = paid]
    OBVIOUS
  <2> HIDE DEF paid
  <2>2. [m EXCEPT !.cost = paid]
          = [cost |-> paid, color |-> m.color, doors |-> m.doors,
             static_component |-> m.static_component,
             dynamic_component |-> m.dynamic_component,
             next_component_color |-> m.next_component_color,
             next_door_color |-> m.next_door_color]
    BY <1>1 DEF WellFormed
  <2> QED
    BY <2>1, <2>2
<1>4. \A c \in Cell : IsPassable(n, c) <=> IsPassable(m, c)
  BY <1>1, <1>3 DEF IsPassable, WellFormed
<1> HIDE DEF paid
<1>a. n = [cost |-> paid, color |-> m.color, doors |-> m.doors,
           static_component |-> m.static_component,
           dynamic_component |-> m.dynamic_component,
           next_component_color |-> m.next_component_color,
           next_door_color |-> m.next_door_color]
  BY <1>3
<1>5. /\ n.cost = paid /\ n.color = m.color /\ n.doors = m.doors
      /\ n.static_component = m.static_component
      /\ n.dynamic_component = m.dynamic_component
      /\ n.next_component_color = m.next_component_color
      /\ n.next_door_color = m.next_door_color
      /\ HasFields(n)
  BY <1>a DEF HasFields
<1>6. \A c \in Cell : /\ IsDoor(n, c) <=> IsDoor(m, c)
                      /\ IsTransparent(n, c) <=> IsTransparent(m, c)
  BY <1>4, <1>5 DEF IsDoor, IsTransparent, IsPassable
<1>7. /\ NotWalls(n) = NotWalls(m)
      /\ PassableCells(n) = PassableCells(m)
      /\ TransparentCells(n) = TransparentCells(m)
  BY <1>4, <1>5, <1>6 DEF NotWalls, PassableCells, TransparentCells
<1>8. WellFormed(n)
  BY <1>1, <1>2, <1>5 DEF WellFormed, HasFields
<1>9. DoorsMatch(n)
  BY <1>1, <1>4, <1>5, <1>6 DEF DoorsMatch
<1>10. StaticLabels(n) /\ Coarsens(n) /\ DynamicLabels(n)
  BY <1>1, <1>5, <1>7 DEF StaticLabels, Coarsens, DynamicLabels
<1> QED
  BY <1>3, <1>5, <1>8, <1>9, <1>10 DEF Consistent

\* set_cost.
LEMMA SetCostGood ==
  ASSUME NEW m, Consistent(m), NEW cell \in Cell, ~IsDoor(m, cell), NEW cost \in Costs
  PROVE  LET n == SetCost(m, cell, cost)
         IN  /\ Consistent(n)
             /\ \/ n.next_component_color <= m.next_component_color + Len(Adjacent[cell])
                \/ n.next_component_color <= m.next_component_color + 1
<1>1. /\ WellFormed(m) /\ DoorsMatch(m)
      /\ m.next_component_color \in Nat /\ Len(Adjacent[cell]) \in Nat
  BY AdjacentAssumption DEF Consistent, WellFormed
<1>2. CASE ~IsPassable(m, cell) /\ cost # PATH_COST_INFINITE
  <2>1. cell \notin NotWalls(m)
    BY <1>1, <1>2 DEF DoorsMatch, NotWalls
  <2>2. SetCost(m, cell, cost) = [WallToTransparent(m, cell) EXCEPT !.cost[cell] = cost]
    BY <1>2 DEF SetCost, IsPassable
  <2> QED
    BY <1>2, <2>1, <2>2, WallToTransparentGood
<1>3. CASE IsPassable(m, cell) /\ cost = PATH_COST_INFINITE
  <2>1. cell \in TransparentCells(m)
    BY <1>3 DEF TransparentCells, IsTransparent, IsPassable
  <2>2. PICK w : /\ w = TransparentToWall(m, cell)
                 /\ Consistent(w)
                 /\ w.next_component_color <= m.next_component_color + Len(Adjacent[cell])
                 /\ w.cost = [m.cost EXCEPT ![cell] = PATH_COST_INFINITE]
    BY <2>1, TransparentToWallGood
  <2>3. ~IsPassable(w, cell)
    BY <1>1, <2>2 DEF IsPassable, WellFormed
  <2>4. SetCost(m, cell, cost) = [w EXCEPT !.cost[cell] = cost]
    BY <1>3, <2>2 DEF SetCost, IsPassable
  <2> QED
    BY <1>3, <2>2, <2>3, <2>4, RepriceGood
<1>4. CASE cost # PATH_COST_INFINITE <=> IsPassable(m, cell)
  <2>1. SetCost(m, cell, cost) = [m EXCEPT !.cost[cell] = cost]
    BY <1>4 DEF SetCost, IsPassable
  <2> QED
    BY <1>1, <1>4, <2>1, RepriceGood
<1> QED
  BY <1>2, <1>3, <1>4

(***************************************************************************)
(* update.                                                                 *)
(***************************************************************************)

\* One mutation, of any kind, in any state.
LEMMA MutateGood ==
  ASSUME NEW m, Consistent(m), NEW mutation \in Mutation,
         m.next_door_color >= COLOR_LOWEST_VALID
  PROVE  LET n == Mutate(m, mutation)
         IN  /\ Consistent(n)
             /\ \/ n.next_component_color <=
                     m.next_component_color + Len(Adjacent[mutation.cell])
                \/ n.next_component_color <= m.next_component_color + 1
<1> DEFINE cell == mutation.cell
<1>1. /\ cell \in Cell /\ mutation.cost \in Costs
      /\ mutation.open \in BOOLEAN /\ mutation.door \in BOOLEAN
      /\ mutation.door => mutation.cost # PATH_COST_INFINITE
  BY DEF Mutation
<1>2. /\ WellFormed(m) /\ DoorsMatch(m)
      /\ m.next_component_color \in Nat /\ Len(Adjacent[cell]) \in Nat
  BY <1>1, AdjacentAssumption DEF Consistent, WellFormed
<1>3. IsDoor(m, cell) <=> cell \in DOMAIN m.doors
  BY <1>1, <1>2 DEF DoorsMatch
<1>4. CASE IsDoor(m, cell) /\ mutation.door
  <2>1. Mutate(m, mutation) = UpdateDoor(m, cell, mutation.open, mutation.cost)
    BY <1>4 DEF Mutate
  <2> QED
    BY <1>1, <1>2, <1>3, <1>4, <2>1, UpdateDoorGood
<1>5. CASE IsDoor(m, cell) /\ ~mutation.door
  <2>1. Mutate(m, mutation) = RemoveDoor(m, cell, mutation.cost)
    BY <1>5 DEF Mutate
  <2> QED
    BY <1>1, <1>3, <1>5, <2>1, RemoveDoorGood
<1>6. CASE ~IsDoor(m, cell) /\ mutation.door
  <2>1. Mutate(m, mutation) = CreateDoor(m, cell, mutation.open, mutation.cost)
    BY <1>6 DEF Mutate
  <2> QED
    BY <1>1, <1>6, <2>1, CreateDoorGood
<1>7. CASE ~IsDoor(m, cell) /\ ~mutation.door
  <2>1. Mutate(m, mutation) = SetCost(m, cell, mutation.cost)
    BY <1>7 DEF Mutate
  <2> QED
    BY <1>1, <1>7, <2>1, SetCostGood
<1> QED
  BY <1>1, <1>4, <1>5, <1>6, <1>7

(***************************************************************************)
(* rebuild.                                                                *)
(***************************************************************************)

\* What rebuild counts on, and reads: the costs and the doors, a door being
\* passable iff it is open.
ReadyToRebuild(m) ==
  /\ HasFields(m)
  /\ m.cost \in [Cell -> Costs]
  /\ DOMAIN m.doors \subseteq Cell
  /\ m.doors \in [DOMAIN m.doors -> Door]
  /\ \A d \in DOMAIN m.doors : IsPassable(m, d) <=> m.doors[d].open

\* The colours suffice for a map all of one kind of cell.
EnoughColors ==
  /\ Cardinality(Cell) <= MaxColor
  /\ Cardinality(Cell) <= -1 - COLOR_IMPASSABLE

\* The transparent cells, the first cell of each area of them, and the colour
\* that each cell of them takes.
ClearCells(m) == {c \in Cell \ DOMAIN m.doors : IsPassable(m, c)}

Firsts(G) == {c \in G : \A d \in Areas(G)[c] : c <= d}

RoomColor(G, c) == Rank(Firsts(G), Least(Areas(G)[c]))

\* Two cells take one colour iff they are in one area, and as many colours are
\* taken as there are areas.
LEMMA RoomColors ==
  ASSUME NEW G \in SUBSET Cell
  PROVE  /\ Cardinality(Firsts(G)) \in Nat
         /\ Cardinality(Firsts(G)) <= Cardinality(Cell)
         /\ \A c \in G : RoomColor(G, c) \in 0..(Cardinality(Firsts(G)) - 1)
         /\ \A a, b \in G : RoomColor(G, a) = RoomColor(G, b) <=> b \in Areas(G)[a]
<1> DEFINE area == Areas(G)
           F == Firsts(G)
           E == EdgesIn(G)
<1>1. E \in SUBSET (G \X G) /\ area = Classes(G, E)
  BY EdgeFacts DEF Areas
<1>2. G \subseteq Nat /\ F \subseteq G /\ IsFiniteSet(F) /\ IsFiniteSet(Cell)
      /\ F \subseteq Cell
  BY CellAssumption, FS_Subset DEF Firsts
<1>3. /\ Cardinality(F) \in Nat
      /\ Cardinality(F) <= Cardinality(Cell)
  BY <1>2, FS_CardinalityType, FS_Subset
<1>4. \A a, b \in G : b \in area[a] => area[b] = area[a]
  <2> HIDE DEF area, E
  <2> QED
    BY <1>1, ClassEqual
<1>5. \A a \in G : a \in area[a] /\ area[a] \subseteq G
  <2> HIDE DEF area, E
  <2> QED
    BY <1>1, ClassReflexive
<1> HIDE DEF area, E
<1>6. \A a \in G : Least(area[a]) \in area[a] /\ \A y \in area[a] : Least(area[a]) <= y
  BY <1>2, <1>5, LeastExists
<1>7. \A a \in G : Least(area[a]) \in F
  BY <1>4, <1>5, <1>6 DEF Firsts, area
<1>8. \A c \in G : RoomColor(G, c) \in 0..(Cardinality(F) - 1)
  <2> SUFFICES ASSUME NEW c \in G PROVE RoomColor(G, c) \in 0..(Cardinality(F) - 1)
    OBVIOUS
  <2>1. Least(area[c]) \in F /\ F \in SUBSET Nat
    BY <1>2, <1>7
  <2>2. RoomColor(G, c) = Rank(F, Least(area[c]))
    BY DEF RoomColor, area
  <2> HIDE DEF F
  <2>3. \A x \in F : Rank(F, x) \in Nat /\ Rank(F, x) < Cardinality(F)
    BY <1>2, <2>1, RankBound
  <2>4. RoomColor(G, c) \in Nat /\ RoomColor(G, c) < Cardinality(F)
    BY <2>1, <2>2, <2>3
  <2> QED
    BY <1>3, <2>4
<1>9. ASSUME NEW a \in G, NEW b \in G
      PROVE  RoomColor(G, a) = RoomColor(G, b) <=> b \in area[a]
  <2>1. Least(area[a]) \in F /\ Least(area[b]) \in F /\ F \in SUBSET Nat
    BY <1>2, <1>7
  <2>2. RoomColor(G, a) = Rank(F, Least(area[a]))
        /\ RoomColor(G, b) = Rank(F, Least(area[b]))
    BY DEF RoomColor, area
  <2> HIDE DEF F
  <2>3. CASE RoomColor(G, a) = RoomColor(G, b)
    <3>1. \A x, y \in F : Rank(F, x) = Rank(F, y) => x = y
      BY <1>2, <2>1, RankInjective
    <3>a. Least(area[a]) = Least(area[b])
      BY <2>1, <2>2, <2>3, <3>1
    <3>2. PICK x \in G : x \in area[a] /\ x \in area[b]
      BY <1>5, <1>6, <3>a
    <3> QED
      BY <1>4, <1>5, <2>3, <3>2
  <2>4. CASE b \in area[a]
    BY <1>4, <2>2, <2>4
  <2> QED
    BY <2>3, <2>4
<1> QED
  BY <1>3, <1>8, <1>9 DEF area

\* The colours that rebuild gives.
RebuiltColor(m) ==
  [c \in Cell |-> IF c \in DOMAIN m.doors THEN -1 - Rank(DOMAIN m.doors, c)
                  ELSE IF c \in ClearCells(m) THEN RoomColor(ClearCells(m), c)
                  ELSE COLOR_IMPASSABLE]

\* The map rebuild leaves before it computes dynamic_component.
Renumbered(m, n) ==
  /\ HasFields(n)
  /\ n.cost = m.cost
  /\ n.color = RebuiltColor(m)
  /\ n.doors = m.doors
  /\ n.static_component =
       [k \in {RebuiltColor(m)[c] : c \in ClearCells(m) \cup DOMAIN m.doors} |-> k]
  /\ n.next_component_color = Cardinality(Firsts(ClearCells(m)))
  /\ n.next_door_color = -1 - Cardinality(DOMAIN m.doors)

LEMMA RebuildFields ==
  ASSUME NEW m, HasFields(m)
  PROVE  \E n : Rebuild(m) = RegenerateDynamic(n) /\ Renumbered(m, n)
<1> DEFINE color == RebuiltColor(m)
           uf == [k \in {color[c] : c \in ClearCells(m) \cup DOMAIN m.doors} |-> k]
           count == Cardinality(Firsts(ClearCells(m)))
           next == -1 - Cardinality(DOMAIN m.doors)
<1>1. Rebuild(m) = RegenerateDynamic([m EXCEPT !.color = color,
                                               !.static_component = uf,
                                               !.next_component_color = count,
                                               !.next_door_color = next])
  BY DEF Rebuild, RebuiltColor, ClearCells, Firsts, RoomColor
<1> HIDE DEF color, uf, count, next
<1>2. PICK x : x = [m EXCEPT !.color = color]
  OBVIOUS
<1>3. x = [cost |-> m.cost, color |-> color, doors |-> m.doors,
           static_component |-> m.static_component,
           dynamic_component |-> m.dynamic_component,
           next_component_color |-> m.next_component_color,
           next_door_color |-> m.next_door_color]
  BY <1>2 DEF HasFields
<1>4. PICK y : y = [x EXCEPT !.static_component = uf]
  OBVIOUS
<1>5. y = [cost |-> m.cost, color |-> color, doors |-> m.doors,
           static_component |-> uf,
           dynamic_component |-> m.dynamic_component,
           next_component_color |-> m.next_component_color,
           next_door_color |-> m.next_door_color]
  BY <1>3, <1>4
<1>6. PICK z : z = [y EXCEPT !.next_component_color = count]
  OBVIOUS
<1>7. z = [cost |-> m.cost, color |-> color, doors |-> m.doors,
           static_component |-> uf,
           dynamic_component |-> m.dynamic_component,
           next_component_color |-> count,
           next_door_color |-> m.next_door_color]
  BY <1>5, <1>6
<1>8. PICK n : n = [z EXCEPT !.next_door_color = next]
  OBVIOUS
<1>9. n = [cost |-> m.cost, color |-> color, doors |-> m.doors,
           static_component |-> uf,
           dynamic_component |-> m.dynamic_component,
           next_component_color |-> count,
           next_door_color |-> next]
  BY <1>7, <1>8
<1>10. /\ n.cost = m.cost /\ n.color = color /\ n.doors = m.doors
       /\ n.static_component = uf
       /\ n.next_component_color = count
       /\ n.next_door_color = next
       /\ HasFields(n)
  BY <1>9 DEF HasFields
<1>11. Rebuild(m) = RegenerateDynamic(n)
  BY <1>1, <1>2, <1>4, <1>6, <1>8
<1> QED
  BY <1>10, <1>11 DEF Renumbered, color, uf, count, next

\* The colours tell the walls, the doors and the rooms from each other.
LEMMA RebuiltColors ==
  ASSUME NEW m, ReadyToRebuild(m), EnoughColors,
         NEW n, Renumbered(m, n)
  PROVE  /\ Cardinality(DOMAIN m.doors) \in Nat
         /\ Cardinality(DOMAIN m.doors) <= -1 - COLOR_IMPASSABLE
         /\ Cardinality(Firsts(ClearCells(m))) \in 0..MaxColor
         /\ \A c \in DOMAIN m.doors :
              n.color[c] \in (-Cardinality(DOMAIN m.doors))..-1
         /\ \A c \in ClearCells(m) :
              n.color[c] \in 0..(Cardinality(Firsts(ClearCells(m))) - 1)
         /\ \A c \in Cell : c \notin DOMAIN m.doors /\ c \notin ClearCells(m) =>
              n.color[c] = COLOR_IMPASSABLE
         /\ \A a, b \in DOMAIN m.doors : n.color[a] = n.color[b] => a = b
         /\ \A a, b \in ClearCells(m) :
              n.color[a] = n.color[b] <=> b \in Areas(ClearCells(m))[a]
<1> DEFINE D == DOMAIN m.doors
           G == ClearCells(m)
<1>1. D \subseteq Cell /\ G \subseteq Cell /\ G \cap D = {}
  BY DEF ReadyToRebuild, ClearCells
<1>2. Cell \subseteq Nat /\ IsFiniteSet(Cell) /\ IsFiniteSet(D)
  BY <1>1, CellAssumption, FS_Subset
<1>3. Cardinality(D) \in Nat /\ Cardinality(D) <= Cardinality(Cell)
      /\ Cardinality(Cell) \in Nat
  BY <1>1, <1>2, FS_CardinalityType, FS_Subset
<1>4. COLOR_IMPASSABLE \in Int /\ MaxColor \in Nat
  BY ColorAssumption DEF COLOR_IMPASSABLE, COLOR_UNKNOWN
<1>5. /\ \A c \in D : n.color[c] = -1 - Rank(D, c)
      /\ \A c \in G : n.color[c] = RoomColor(G, c)
      /\ \A c \in Cell : c \notin D /\ c \notin G => n.color[c] = COLOR_IMPASSABLE
  BY <1>1 DEF Renumbered, RebuiltColor
<1> HIDE DEF D, G
<1>6. /\ Cardinality(Firsts(G)) \in Nat
      /\ Cardinality(Firsts(G)) <= Cardinality(Cell)
      /\ \A c \in G : RoomColor(G, c) \in 0..(Cardinality(Firsts(G)) - 1)
      /\ \A a, b \in G : RoomColor(G, a) = RoomColor(G, b) <=> b \in Areas(G)[a]
  BY <1>1, RoomColors
<1>7. \A c \in D : Rank(D, c) \in Nat /\ Rank(D, c) < Cardinality(D)
  BY <1>1, <1>2, RankBound
<1>8. \A a, b \in D : Rank(D, a) = Rank(D, b) => a = b
  BY <1>1, <1>2, RankInjective
<1>9. \A c \in D : n.color[c] \in (-Cardinality(D))..-1
  BY <1>3, <1>5, <1>7
<1>10. \A a, b \in D : n.color[a] = n.color[b] => a = b
  <2> SUFFICES ASSUME NEW a \in D, NEW b \in D, n.color[a] = n.color[b]
               PROVE  a = b
    OBVIOUS
  <2>1. Rank(D, a) = Rank(D, b)
    BY <1>5, <1>7
  <2> QED
    BY <1>8, <2>1
<1>11. \A a, b \in G : n.color[a] = n.color[b] <=> b \in Areas(G)[a]
  BY <1>5, <1>6
<1>12. Cardinality(D) <= -1 - COLOR_IMPASSABLE /\ Cardinality(Firsts(G)) \in 0..MaxColor
  BY <1>3, <1>4, <1>6 DEF EnoughColors
<1> QED
  BY <1>3, <1>5, <1>6, <1>9, <1>10, <1>11, <1>12 DEF D, G

\* rebuild leaves a consistent map of the same costs and doors, in which the cells
\* of a room have one colour, its static component.
LEMMA RebuildGood ==
  ASSUME NEW m, ReadyToRebuild(m), EnoughColors
  PROVE  /\ Consistent(Rebuild(m))
         /\ Rebuild(m).next_component_color <= MaxColor
         /\ Rebuild(m).cost = m.cost /\ Rebuild(m).doors = m.doors
         /\ \A c \in NotWalls(Rebuild(m)) :
              Rebuild(m).static_component[Rebuild(m).color[c]] = Rebuild(m).color[c]
<1> DEFINE D == DOMAIN m.doors
           G == ClearCells(m)
           area == Areas(G)
           doors == Cardinality(D)
           rooms == Cardinality(Firsts(G))
<1>1. PICK n : Rebuild(m) = RegenerateDynamic(n) /\ Renumbered(m, n)
  BY RebuildFields DEF ReadyToRebuild
<1>2. /\ doors \in Nat /\ doors <= -1 - COLOR_IMPASSABLE
      /\ rooms \in 0..MaxColor
      /\ \A c \in D : n.color[c] \in (-doors)..-1
      /\ \A c \in G : n.color[c] \in 0..(rooms - 1)
      /\ \A c \in Cell : c \notin D /\ c \notin G => n.color[c] = COLOR_IMPASSABLE
      /\ \A a, b \in D : n.color[a] = n.color[b] => a = b
      /\ \A a, b \in G : n.color[a] = n.color[b] <=> b \in area[a]
  BY <1>1, RebuiltColors
<1>3. /\ n.cost = m.cost /\ n.doors = m.doors /\ HasFields(n)
      /\ n.static_component = [k \in {n.color[c] : c \in G \cup D} |-> k]
      /\ n.next_component_color = rooms
      /\ n.next_door_color = -1 - doors
      /\ DOMAIN n.color = Cell
  BY <1>1 DEF Renumbered, RebuiltColor
<1>4. /\ D \subseteq Cell /\ G \subseteq Cell /\ G \cap D = {}
      /\ m.cost \in [Cell -> Costs] /\ m.doors \in [D -> Door]
      /\ \A d \in D : IsPassable(m, d) <=> m.doors[d].open
      /\ \A c \in Cell : c \in G <=> c \notin D /\ IsPassable(m, c)
  BY DEF ReadyToRebuild, ClearCells
<1>5. /\ COLOR_IMPASSABLE \in Int /\ COLOR_IMPASSABLE < -1
      /\ COLOR_LOWEST_VALID = COLOR_IMPASSABLE + 1
      /\ MaxColor \in Nat
  BY ColorAssumption DEF COLOR_LOWEST_VALID, COLOR_IMPASSABLE, COLOR_UNKNOWN
<1> HIDE DEF D, G, area, doors, rooms
<1>6. \A c \in Cell : IsPassable(n, c) <=> IsPassable(m, c)
  BY <1>3 DEF IsPassable
<1>7. \A c \in Cell : IsDoor(n, c) <=> c \in D
  BY <1>2, <1>4, <1>5 DEF IsDoor, IsDoorColor
<1>8. NotWalls(n) = G \cup D /\ TransparentCells(n) = G
  <2>1. \A c \in Cell : n.color[c] # COLOR_IMPASSABLE <=> c \in G \cup D
    BY <1>2, <1>4, <1>5
  <2>2. \A c \in Cell : IsTransparent(n, c) <=> c \in G
    BY <1>4, <1>6, <1>7 DEF IsTransparent, IsPassable
  <2> QED
    BY <1>4, <2>1, <2>2 DEF NotWalls, TransparentCells
<1>9. DoorsMatch(n)
  <2>1. D = DOMAIN n.doors /\ n.doors = m.doors
    BY <1>3 DEF D
  <2>2. \A c \in Cell : n.color[c] # COLOR_IMPASSABLE <=> c \in G \cup D
    BY <1>4, <1>8 DEF NotWalls
  <2> QED
    BY <1>4, <1>6, <1>7, <2>1, <2>2 DEF DoorsMatch
<1>10. WellFormed(n)
  <2>1. \A c \in G \cup D : n.color[c] \in (n.next_door_color + 1)..(n.next_component_color - 1)
    BY <1>2, <1>3, <1>5
  <2>2. n.next_component_color \in Nat /\ n.next_door_color \in COLOR_IMPASSABLE..-1
    BY <1>2, <1>3, <1>5
  <2>3. DOMAIN n.static_component = {n.color[c] : c \in G \cup D}
        /\ IsPartition(n.static_component)
    BY <1>3 DEF IsPartition
  <2>4. n.color \in [Cell -> DOMAIN n.static_component \cup {COLOR_IMPASSABLE}]
    <3>1. \A c \in Cell : n.color[c] \in DOMAIN n.static_component \cup {COLOR_IMPASSABLE}
      BY <1>2, <2>3
    <3>2. n.color = [c \in Cell |-> n.color[c]]
      BY <1>1 DEF Renumbered, RebuiltColor
    <3> QED
      BY <3>1, <3>2
  <2>5. DOMAIN n.doors \subseteq Cell /\ n.doors \in [DOMAIN n.doors -> Door]
    BY <1>3, <1>4 DEF D
  <2>6. DOMAIN n.static_component \subseteq (n.next_door_color + 1)..(n.next_component_color - 1)
    BY <2>1, <2>3
  <2>7. n.cost \in [Cell -> Costs]
    BY <1>3, <1>4
  <2> QED
    BY <1>3, <2>2, <2>3, <2>4, <2>5, <2>6, <2>7 DEF WellFormed, HasFields
<1>11. StaticLabels(n)
  <2> DEFINE V == G \cup D
             E == EdgesIn(G)
             label == [c \in V |-> n.static_component[n.color[c]]]
  <2>1. E \in SUBSET (G \X G) /\ E \in SUBSET (V \X V) /\ G \in SUBSET V
    BY <1>4, EdgeFacts
  <2>2. area = Classes(G, E)
    BY DEF area, Areas
  <2>3. \A a \in V : Classes(V, E)[a] = IF a \in G THEN area[a] ELSE {a}
    <3> HIDE DEF V, E, label
    <3> SUFFICES ASSUME NEW a \in V
                 PROVE  Classes(V, E)[a] = IF a \in G THEN area[a] ELSE {a}
      OBVIOUS
    <3>1. IsPart(V, G, E)
      BY <2>1 DEF IsPart
    <3> QED
      BY <2>2, <3>1, ClassesOfPart
  <2>4. \A a \in V : label[a] = n.color[a]
    BY <1>3
  <2>5. \A a \in G : area[a] \subseteq G
    <3> HIDE DEF E
    <3> QED
      BY <2>2, ClassReflexive
  <2> HIDE DEF E, label
  <2>6. ASSUME NEW a \in V, NEW b \in V
        PROVE  label[a] = label[b] <=> b \in Classes(V, E)[a]
    <3>1. CASE a \in G /\ b \in G
      BY <1>2, <2>3, <2>4, <3>1
    <3>2. CASE a \in G /\ b \in D
      <4>1. n.color[a] # n.color[b]
        BY <1>2, <3>2
      <4>2. b \notin area[a]
        BY <1>4, <2>5, <3>2
      <4> QED
        BY <2>3, <2>4, <3>2, <4>1, <4>2
    <3>3. CASE a \in D /\ b \in G
      <4>1. n.color[a] # n.color[b]
        BY <1>2, <3>3
      <4>2. a \notin G /\ a # b
        BY <1>4, <3>3
      <4> QED
        BY <2>3, <2>4, <4>1, <4>2
    <3>4. CASE a \in D /\ b \in D
      <4>1. a \notin G
        BY <1>4, <3>4
      <4>2. n.color[a] = n.color[b] <=> a = b
        BY <1>2, <3>4
      <4> QED
        BY <2>3, <2>4, <4>1, <4>2
    <3> QED
      BY <3>1, <3>2, <3>3, <3>4
  <2> HIDE DEF V
  <2>7. Labels(V, E, label)
    BY <2>1, <2>6, ClassLabels
  <2> QED
    BY <1>8, <2>7 DEF StaticLabels, V, E, label
<1>12. Consistent(Rebuild(m))
  BY <1>1, <1>9, <1>10, <1>11, RegenerateGood
<1>13. PICK r : /\ r = Rebuild(m)
                /\ r.cost = n.cost /\ r.color = n.color /\ r.doors = n.doors
                /\ r.static_component = n.static_component
                /\ r.next_component_color = rooms
  BY <1>1, <1>3, <1>10, RegenerateFields
<1>14. \A c \in NotWalls(r) : r.static_component[r.color[c]] = r.color[c]
  <2>1. NotWalls(r) = G \cup D
    BY <1>8, <1>13 DEF NotWalls
  <2> QED
    BY <1>3, <1>13, <2>1
<1> QED
  BY <1>2, <1>3, <1>5, <1>12, <1>13, <1>14

(***************************************************************************)
(* The theorems.  They hold for the builders whose closed doors cannot be   *)
(* walked through, and for maps that have enough colours.                  *)
(***************************************************************************)

ClosedDoorsBlock == ClosedCosts = {PATH_COST_INFINITE}

\* A consistent map can be rebuilt.
LEMMA ConsistentIsReady ==
  ASSUME NEW m, Consistent(m)
  PROVE  ReadyToRebuild(m)
BY DEF Consistent, WellFormed, DoorsMatch, ReadyToRebuild, HasFields

\* So can what a builder made.
LEMMA BuiltIsReady ==
  ASSUME ClosedDoorsBlock,
         NEW places \in SUBSET Cell,
         NEW terrain \in [Cell \ places -> Costs],
         NEW doors \in [places -> BuiltDoor]
  PROVE  ReadyToRebuild(Built(terrain, doors))
<1> DEFINE paid == [c \in Cell |-> IF c \in DOMAIN doors THEN CostOf(doors[c])
                                                         ELSE terrain[c]]
<1>1. DOMAIN doors = places
  OBVIOUS
<1>2. \A d \in places : /\ doors[d] \in Door
                        /\ CostOf(doors[d]) \in Costs
                        /\ CostOf(doors[d]) # PATH_COST_INFINITE <=> doors[d].open
  <2> SUFFICES ASSUME NEW d \in places
               PROVE  /\ doors[d] \in Door
                      /\ CostOf(doors[d]) \in Costs
                      /\ CostOf(doors[d]) # PATH_COST_INFINITE <=> doors[d].open
    OBVIOUS
  <2>1. doors[d] \in BuiltDoor
    OBVIOUS
  <2>2. PATH_COST_INFINITE \in Costs
    BY CostAssumption
  <2> QED
    BY <2>1, <2>2 DEF BuiltDoor, Door, CostOf, ClosedDoorsBlock
<1>3. paid \in [Cell -> Costs]
  BY <1>1, <1>2
<1>4. PICK m : /\ m = Built(terrain, doors)
               /\ HasFields(m)
               /\ m.cost = paid
               /\ m.doors = doors
  <2> DEFINE unknown == [c \in Cell |-> COLOR_UNKNOWN]
  <2>1. Built(terrain, doors) =
          [cost |-> paid, color |-> unknown, doors |-> doors,
           static_component |-> EmptyPartition,
           dynamic_component |-> EmptyPartition,
           next_component_color |-> 0, next_door_color |-> -1]
    BY DEF Built
  <2> HIDE DEF paid, unknown
  <2>2. PICK m : m = Built(terrain, doors)
    OBVIOUS
  <2>3. HasFields(m) /\ m.cost = paid /\ m.doors = doors
    BY <2>1, <2>2 DEF HasFields
  <2> QED
    BY <2>2, <2>3
<1>5. \A d \in DOMAIN m.doors : IsPassable(m, d) <=> m.doors[d].open
  BY <1>1, <1>2, <1>4 DEF IsPassable
<1> HIDE DEF paid
<1>6. /\ DOMAIN m.doors \subseteq Cell
      /\ m.doors \in [DOMAIN m.doors -> Door]
      /\ m.cost \in [Cell -> Costs]
  BY <1>1, <1>2, <1>3, <1>4
<1> QED
  BY <1>4, <1>5, <1>6 DEF ReadyToRebuild

\* The constructor establishes the invariant.
LEMMA InitEstablishes ==
  ASSUME EnoughColors, ClosedDoorsBlock, Init
  PROVE  IInv
<1>1. PICK places \in SUBSET Cell :
        \E terrain \in [Cell \ places -> Costs], doors \in [places -> BuiltDoor] :
          map = Rebuild(Built(terrain, doors))
  BY DEF Init
<1>2. PICK terrain \in [Cell \ places -> Costs], doors \in [places -> BuiltDoor] :
        map = Rebuild(Built(terrain, doors))
  BY <1>1
<1> QED
  BY <1>2, BuiltIsReady, RebuildGood DEF IInv

\* Every call of update keeps it.
LEMMA NextPreserves ==
  ASSUME EnoughColors, IInv, [Next]_map
  PROVE  IInv'
<1>1. Consistent(map) /\ map.next_component_color <= MaxColor
  BY DEF IInv
<1>2. ASSUME NEW mutation \in Mutation, ColorsLeft(mutation.cell)
      PROVE  /\ Consistent(Mutate(map, mutation))
             /\ Mutate(map, mutation).next_component_color <= MaxColor
  <2>1. /\ map.next_component_color \in Nat
        /\ Len(Adjacent[mutation.cell]) \in Nat
        /\ MaxColor \in Nat
    BY <1>1, AdjacentAssumption, ColorAssumption DEF Consistent, WellFormed, Mutation
  <2>2. /\ map.next_component_color + Len(Adjacent[mutation.cell]) < MaxColor
        /\ map.next_door_color >= COLOR_LOWEST_VALID
    BY <1>2 DEF ColorsLeft
  <2>3. PICK n : /\ n = Mutate(map, mutation)
                 /\ Consistent(n)
                 /\ \/ n.next_component_color <=
                         map.next_component_color + Len(Adjacent[mutation.cell])
                    \/ n.next_component_color <= map.next_component_color + 1
    BY <1>1, <2>2, MutateGood
  <2>4. n.next_component_color \in Nat
    BY <2>3 DEF Consistent, WellFormed
  <2> QED
    BY <2>1, <2>2, <2>3, <2>4
<1>3. ASSUME NEW mutation \in Mutation, UpdateIncremental(mutation)
      PROVE  IInv'
  BY <1>2, <1>3 DEF UpdateIncremental, IInv
<1>4. ASSUME NEW mutation \in Mutation, UpdateAndRebuild(mutation)
      PROVE  IInv'
  BY <1>2, <1>4, ConsistentIsReady, RebuildGood DEF UpdateAndRebuild, IInv
<1>5. CASE UpdateEmpty
  BY <1>1, <1>5, ConsistentIsReady, RebuildGood DEF UpdateEmpty, IInv
<1>6. CASE UNCHANGED map
  BY <1>1, <1>6 DEF IInv
<1> QED
  BY <1>3, <1>4, <1>5, <1>6 DEF Next

\* After the constructor and any sequence of updates, incremental or not, the
\* colours, the doors' map, the costs and both union-finds are consistent.
THEOREM Invariance ==
  ASSUME EnoughColors, ClosedDoorsBlock
  PROVE  Spec => []IInv
<1>1. Init => IInv
  BY InitEstablishes
<1>2. IInv /\ [Next]_map => IInv'
  BY NextPreserves
<1> QED
  BY <1>1, <1>2, PTL DEF Spec

\* The fields of the map stay in their ranges, no colour leaves its type's, and
\* the two union-finds stay partitions of the same colours.
THEOREM TypeCorrect ==
  ASSUME EnoughColors, ClosedDoorsBlock
  PROVE  Spec => []TypeOK
<1>1. IInv => TypeOK
  BY DEF IInv, Consistent, Coarsens, TypeOK
<1> QED
  BY <1>1, Invariance, PTL

\* The assertions of is_passable and of the mutations hold: the doors by colour
\* are the registered doors, and a door is passable iff it is open.
THEOREM DoorsAlwaysAgree ==
  ASSUME EnoughColors, ClosedDoorsBlock
  PROVE  Spec => []DoorsAgree
<1>1. IInv => DoorsAgree
  BY DEF IInv, Consistent, DoorsAgree
<1> QED
  BY <1>1, Invariance, PTL

\* Two cells have one label iff they are one cell or in one area of G.
ComparesAs(V, G, label) ==
  \A a, b \in V : label[a] = label[b] <=> a = b \/ (a \in G /\ b \in Areas(G)[a])

\* A labelling of the cells that are not walls by the areas of some of them
\* compares as the areas do.
LEMMA AreaLabels ==
  ASSUME NEW V \in SUBSET Cell, NEW G \in SUBSET V, NEW label,
         Labels(V, EdgesIn(G), label)
  PROVE  ComparesAs(V, G, label)
<1> DEFINE E == EdgesIn(G)
<1>1. E \in SUBSET (G \X G)
  BY EdgeFacts
<1>2. Labels(V, E, label) /\ Areas(G) = Classes(G, E)
  BY DEF Areas
<1> HIDE DEF E
<1>3. IsPart(V, G, E)
  BY <1>1 DEF IsPart
<1>4. ASSUME NEW a \in V, NEW b \in V
      PROVE  label[a] = label[b] <=> a = b \/ (a \in G /\ b \in Areas(G)[a])
  BY <1>2, <1>3, LabelsOfPart
<1> QED
  BY <1>4 DEF ComparesAs

\* The static components of a consistent map compare as the areas of its
\* transparent cells do, the dynamic ones as those of its passable cells.
LEMMA ComponentsCompare ==
  ASSUME NEW m, Consistent(m), NEW a \in NotWalls(m), NEW b \in NotWalls(m)
  PROVE  /\ m.static_component[m.color[a]] = m.static_component[m.color[b]] <=>
              a = b \/ ( /\ a \in TransparentCells(m)
                         /\ b \in Areas(TransparentCells(m))[a])
         /\ m.dynamic_component[m.color[a]] = m.dynamic_component[m.color[b]] <=>
              a = b \/ ( /\ a \in PassableCells(m)
                         /\ b \in Areas(PassableCells(m))[a])
<1> DEFINE V == NotWalls(m)
           T == TransparentCells(m)
           P == PassableCells(m)
           static == [c \in V |-> m.static_component[m.color[c]]]
           dynamic == [c \in V |-> m.dynamic_component[m.color[c]]]
<1>1. /\ WellFormed(m) /\ DoorsMatch(m)
      /\ Labels(V, EdgesIn(T), static) /\ Labels(V, EdgesIn(P), dynamic)
  BY DEF Consistent, StaticLabels, DynamicLabels
<1>2. V \in SUBSET Cell /\ T \in SUBSET V /\ P \in SUBSET V
  BY <1>1, CellKinds, ColorRange
<1>3. \A c \in V : /\ static[c] = m.static_component[m.color[c]]
                   /\ dynamic[c] = m.dynamic_component[m.color[c]]
  OBVIOUS
<1>4. a \in V /\ b \in V
  OBVIOUS
<1> HIDE DEF V, T, P, static, dynamic
<1>5. static[a] = static[b] <=> a = b \/ (a \in T /\ b \in Areas(T)[a])
  <2>1. Labels(V, EdgesIn(T), static)
    BY <1>1
  <2>2. V \in SUBSET Cell /\ T \in SUBSET V
    BY <1>2
  <2>3. ComparesAs(V, T, static)
    BY <2>1, <2>2, AreaLabels
  <2> QED
    BY <1>4, <2>3 DEF ComparesAs
<1>6. dynamic[a] = dynamic[b] <=> a = b \/ (a \in P /\ b \in Areas(P)[a])
  <2>1. Labels(V, EdgesIn(P), dynamic)
    BY <1>1
  <2>2. V \in SUBSET Cell /\ P \in SUBSET V
    BY <1>2
  <2>3. ComparesAs(V, P, dynamic)
    BY <2>1, <2>2, AreaLabels
  <2> QED
    BY <1>4, <2>3 DEF ComparesAs
<1> QED
  BY <1>3, <1>4, <1>5, <1>6 DEF T, P

\* Two cells share a static component exactly when transparent cells connect
\* them.
THEOREM StaticAlwaysExact ==
  ASSUME EnoughColors, ClosedDoorsBlock
  PROVE  Spec => []StaticExact
<1>1. IInv => StaticExact
  <2> SUFFICES ASSUME IInv PROVE StaticExact
    OBVIOUS
  <2>1. Consistent(map) /\ WellFormed(map) /\ DoorsMatch(map)
    BY DEF IInv, Consistent
  <2>2. \A a \in NotWalls(map) : IsTransparent(map, a) <=> a \in TransparentCells(map)
    BY <2>1, CellKinds, ColorRange
  <2> QED
    BY <2>1, <2>2, ComponentsCompare DEF StaticExact
<1> QED
  BY <1>1, Invariance, PTL

\* path_exists on a consistent map.
LEMMA PathExistsCompares ==
  ASSUME NEW m, Consistent(m), NEW a \in Cell, NEW b \in Cell
  PROVE  PathExists(m, a, b) <=> IsPassable(m, a) /\ b \in Areas(PassableCells(m))[a]
<1> DEFINE P == PassableCells(m)
<1>1. WellFormed(m) /\ DoorsMatch(m)
  BY DEF Consistent
<1>2. P \subseteq NotWalls(m) /\ \A c \in Cell : IsPassable(m, c) <=> c \in P
  BY <1>1, CellKinds
<1> HIDE DEF P
<1>3. \A c \in P : c \in Areas(P)[c] /\ Areas(P)[c] \subseteq P
  BY ClassReflexive DEF Areas
<1>4. CASE a \in P /\ b \in P
  <2>1. m.dynamic_component[m.color[a]] = m.dynamic_component[m.color[b]]
          <=> a = b \/ (a \in P /\ b \in Areas(P)[a])
    BY <1>2, <1>4, ComponentsCompare DEF P
  <2> QED
    BY <1>2, <1>3, <1>4, <2>1 DEF PathExists, P
<1>5. CASE ~(a \in P /\ b \in P)
  BY <1>2, <1>3, <1>5 DEF PathExists, P
<1> QED
  BY <1>4, <1>5

\* path_exists is exact: true for two cells iff passable cells connect them.
THEOREM PathExistsAlwaysExact ==
  ASSUME EnoughColors, ClosedDoorsBlock
  PROVE  Spec => []PathExistsExact
<1>1. IInv => PathExistsExact
  BY PathExistsCompares DEF IInv, PathExistsExact
<1> QED
  BY <1>1, Invariance, PTL

\* Two consistent maps with the same costs and doors have the same kinds of cells.
LEMMA SameKinds ==
  ASSUME NEW m, Consistent(m), NEW n, Consistent(n),
         n.cost = m.cost, n.doors = m.doors
  PROVE  /\ NotWalls(n) = NotWalls(m)
         /\ PassableCells(n) = PassableCells(m)
         /\ TransparentCells(n) = TransparentCells(m)
         /\ \A c \in Cell : IsDoor(n, c) <=> IsDoor(m, c)
<1>1. WellFormed(m) /\ DoorsMatch(m) /\ WellFormed(n) /\ DoorsMatch(n)
  BY DEF Consistent
<1>2. \A c \in Cell : IsPassable(n, c) <=> IsPassable(m, c)
  BY DEF IsPassable
<1>3. \A c \in Cell : IsDoor(n, c) <=> IsDoor(m, c)
  BY <1>1 DEF DoorsMatch
<1>4. PassableCells(n) = PassableCells(m)
  BY <1>2 DEF PassableCells
<1>5. TransparentCells(n) = TransparentCells(m)
  BY <1>1, <1>4, CellKinds
<1>6. \A c \in Cell : c \in NotWalls(n) <=> c \in NotWalls(m)
  <2> SUFFICES ASSUME NEW c \in Cell PROVE c \in NotWalls(n) <=> c \in NotWalls(m)
    OBVIOUS
  <2>1. CASE c \in DOMAIN m.doors
    BY <1>1, <2>1, CellKinds
  <2>2. CASE c \notin DOMAIN m.doors
    BY <1>1, <1>2, <2>2 DEF DoorsMatch, NotWalls
  <2> QED
    BY <2>1, <2>2
<1>7. NotWalls(n) \subseteq Cell /\ NotWalls(m) \subseteq Cell
  BY DEF NotWalls
<1> QED
  BY <1>3, <1>4, <1>5, <1>6, <1>7

\* The oracle of the tests agrees after any history: the incremental map differs
\* from one rebuilt from scratch in the names of its colours only.
THEOREM AlwaysAgreesWithRebuild ==
  ASSUME EnoughColors, ClosedDoorsBlock
  PROVE  Spec => []AgreesWithRebuild
<1>1. IInv => AgreesWithRebuild
  <2> SUFFICES ASSUME IInv PROVE AgreesWithRebuild
    OBVIOUS
  <2>1. Consistent(map)
    BY DEF IInv
  <2>2. PICK simple : /\ simple = Rebuild(map)
                      /\ Consistent(simple)
                      /\ simple.cost = map.cost /\ simple.doors = map.doors
                      /\ \A c \in NotWalls(simple) :
                           simple.static_component[simple.color[c]] = simple.color[c]
    BY <2>1, ConsistentIsReady, RebuildGood
  <2>3. /\ NotWalls(simple) = NotWalls(map)
        /\ PassableCells(simple) = PassableCells(map)
        /\ TransparentCells(simple) = TransparentCells(map)
        /\ \A c \in Cell : IsDoor(simple, c) <=> IsDoor(map, c)
    BY <2>1, <2>2, SameKinds
  <2>4. ASSUME NEW a \in NotWalls(map), NEW b \in NotWalls(map)
        PROVE  /\ map.static_component[map.color[a]] = map.static_component[map.color[b]]
                  <=> simple.static_component[simple.color[a]]
                        = simple.static_component[simple.color[b]]
               /\ map.dynamic_component[map.color[a]] = map.dynamic_component[map.color[b]]
                  <=> simple.dynamic_component[simple.color[a]]
                        = simple.dynamic_component[simple.color[b]]
    BY <2>1, <2>2, <2>3, ComponentsCompare
  <2>5. ASSUME NEW a \in NotWalls(map), NEW b \in NotWalls(map),
               map.color[a] = map.color[b]
        PROVE  simple.color[a] = simple.color[b]
    BY <2>2, <2>3, <2>4, <2>5
  <2>6. NotWalls(map) = {c \in Cell : simple.color[c] # COLOR_IMPASSABLE}
    BY <2>3 DEF NotWalls
  <2>7. NotWalls(map) \subseteq Cell
    BY DEF NotWalls
  <2>8. ASSUME NEW component \in {"static_component", "dynamic_component"},
               NEW a \in NotWalls(map), NEW b \in NotWalls(map)
        PROVE  map[component][map.color[a]] = map[component][map.color[b]] <=>
                 simple[component][simple.color[a]] = simple[component][simple.color[b]]
    <3>1. CASE component = "static_component"
      BY <2>4, <3>1
    <3>2. CASE component = "dynamic_component"
      BY <2>4, <3>2
    <3> QED
      BY <3>1, <3>2
  <2> QED
    BY <2>2, <2>3, <2>5, <2>6, <2>7, <2>8 DEF AgreesWithRebuild
<1> QED
  BY <1>1, Invariance, PTL

(***************************************************************************)
(* The costs and the doors that a helper leaves.                           *)
(***************************************************************************)

\* The doors with one more or one changed, and with one less.
With(doors, cell, door) ==
  [d \in DOMAIN doors \cup {cell} |-> IF d = cell THEN door ELSE doors[d]]

Without(doors, cell) == [d \in DOMAIN doors \ {cell} |-> doors[d]]

SetOpenAt(doors, cell, open) == [doors EXCEPT ![cell].open = open]

Paid(m, cell, cost) == [m.cost EXCEPT ![cell] = cost]

\* A consistent map's costs and doors.
LEMMA ShownFields ==
  ASSUME NEW m, Consistent(m)
  PROVE  /\ HasFields(m)
         /\ WellFormed(m)
         /\ DoorsMatch(m)
         /\ m.cost \in [Cell -> Costs]
         /\ DOMAIN m.doors \subseteq Cell
         /\ m.doors \in [DOMAIN m.doors -> Door]
BY DEF Consistent, WellFormed, HasFields

SetPrice(m, cell, cost) == [m EXCEPT !.cost[cell] = cost]

\* Writing a cost, and writing it again.
LEMMA WriteCost ==
  ASSUME NEW m, HasFields(m), NEW cell, NEW cost
  PROVE  LET n == SetPrice(m, cell, cost)
         IN  HasFields(n) /\ n.cost = Paid(m, cell, cost) /\ n.doors = m.doors
<1>1. PICK paid : paid = Paid(m, cell, cost)
  OBVIOUS
<1>2. PICK n : n = SetPrice(m, cell, cost) /\ n = [m EXCEPT !.cost = paid]
  BY <1>1 DEF Paid, SetPrice
<1>3. n = [cost |-> paid, color |-> m.color, doors |-> m.doors,
           static_component |-> m.static_component,
           dynamic_component |-> m.dynamic_component,
           next_component_color |-> m.next_component_color,
           next_door_color |-> m.next_door_color]
  BY <1>2 DEF HasFields
<1>4. HasFields(n) /\ n.cost = paid /\ n.doors = m.doors
  BY <1>3 DEF HasFields
<1> QED
  BY <1>1, <1>2, <1>4

\* Of two costs written to a cell the second stays.
LEMMA PaidTwice ==
  ASSUME NEW cost \in [Cell -> Costs], NEW cell, NEW a, NEW b
  PROVE  [[cost EXCEPT ![cell] = a] EXCEPT ![cell] = b] = [cost EXCEPT ![cell] = b]
OBVIOUS

\* Recomputing dynamic_component.
LEMMA RegenerateShows ==
  ASSUME NEW m, HasFields(m)
  PROVE  LET n == RegenerateDynamic(m)
         IN  HasFields(n) /\ n.cost = m.cost /\ n.doors = m.doors
<1>1. PICK u : RegenerateDynamic(m) = [m EXCEPT !.dynamic_component = u]
  BY DEF RegenerateDynamic
<1>2. PICK n : n = [m EXCEPT !.dynamic_component = u]
  OBVIOUS
<1>3. n = [cost |-> m.cost, color |-> m.color, doors |-> m.doors,
           static_component |-> m.static_component,
           dynamic_component |-> u,
           next_component_color |-> m.next_component_color,
           next_door_color |-> m.next_door_color]
  BY <1>2 DEF HasFields
<1>4. HasFields(n) /\ n.cost = m.cost /\ n.doors = m.doors
  BY <1>3 DEF HasFields
<1> QED
  BY <1>1, <1>2, <1>4

\* A wall costs an infinite price; the doors stay.
LEMMA TransparentToWallShows ==
  ASSUME NEW m, Consistent(m), NEW cell \in Cell
  PROVE  LET n == TransparentToWall(m, cell)
         IN  /\ HasFields(n)
             /\ n.cost = Paid(m, cell, PATH_COST_INFINITE)
             /\ n.doors = m.doors
<1>1. PICK w : /\ TransparentToWall(m, cell) = RegenerateDynamic(w)
               /\ WalledOff(m, cell, OldRoom(m, cell),
                            FillStarts(OldRoom(m, cell), Adjacent[cell]), w)
  BY ShownFields, TransparentToWallFields
<1>2. /\ HasFields(w) /\ w.cost = Paid(m, cell, PATH_COST_INFINITE)
      /\ w.doors = m.doors
  BY <1>1 DEF WalledOff, HasFields, Paid
<1> QED
  BY <1>1, <1>2, RegenerateShows

\* A closed door is a new entry among the doors.
LEMMA WallToClosedDoorShows ==
  ASSUME NEW m, HasFields(m), NEW cell, NEW a, NEW b
  PROVE  LET n == WallToClosedDoor(m, cell, a, b)
         IN  /\ HasFields(n)
             /\ n.cost = Paid(m, cell, PATH_COST_INFINITE)
             /\ n.doors = With(m.doors, cell, [open |-> FALSE, cost_open |-> a,
                                               cost_closed |-> b])
<1>1. PICK paid, doors, s, u, color, next :
        /\ paid = Paid(m, cell, PATH_COST_INFINITE)
        /\ doors = With(m.doors, cell, [open |-> FALSE, cost_open |-> a,
                                        cost_closed |-> b])
        /\ WallToClosedDoor(m, cell, a, b) =
             [m EXCEPT !.cost = paid, !.dynamic_component = u, !.static_component = s,
                       !.color = color, !.next_door_color = next, !.doors = doors]
  BY DEF WallToClosedDoor, Paid, With
<1>2. PICK n : /\ n = WallToClosedDoor(m, cell, a, b)
               /\ n = [cost |-> paid, color |-> color, doors |-> doors,
                       static_component |-> s, dynamic_component |-> u,
                       next_component_color |-> m.next_component_color,
                       next_door_color |-> next]
  BY <1>1 DEF HasFields
<1>3. HasFields(n) /\ n.cost = paid /\ n.doors = doors
  BY <1>2 DEF HasFields
<1> QED
  BY <1>1, <1>2, <1>3

\* A door that becomes a wall leaves the doors.
LEMMA ClosedDoorToWallShows ==
  ASSUME NEW m, HasFields(m), NEW cell, NEW cost
  PROVE  LET n == ClosedDoorToWall(m, cell, cost)
         IN  /\ HasFields(n)
             /\ n.cost = Paid(m, cell, cost)
             /\ n.doors = Without(m.doors, cell)
<1> DEFINE paid == Paid(m, cell, cost)
           doors == Without(m.doors, cell)
           color == [m.color EXCEPT ![cell] = COLOR_IMPASSABLE]
<1>1. ClosedDoorToWall(m, cell, cost) =
        [m EXCEPT !.color = color, !.doors = doors, !.cost = paid]
  BY DEF ClosedDoorToWall, Paid, Without
<1> HIDE DEF paid, doors, color
<1>2. PICK n : /\ n = ClosedDoorToWall(m, cell, cost)
               /\ n = [cost |-> paid, color |-> color, doors |-> doors,
                       static_component |-> m.static_component,
                       dynamic_component |-> m.dynamic_component,
                       next_component_color |-> m.next_component_color,
                       next_door_color |-> m.next_door_color]
  BY <1>1 DEF HasFields
<1>3. HasFields(n) /\ n.cost = paid /\ n.doors = doors
  BY <1>2 DEF HasFields
<1> QED
  BY <1>2, <1>3 DEF paid, doors

\* Closing a door changes its entry and its price.
LEMMA OpenDoorToClosedDoorShows ==
  ASSUME NEW m, HasFields(m), NEW cell
  PROVE  LET n == OpenDoorToClosedDoor(m, cell)
         IN  /\ HasFields(n)
             /\ n.cost = Paid(m, cell, PATH_COST_INFINITE)
             /\ n.doors = SetOpenAt(m.doors, cell, FALSE)
<1> DEFINE paid == Paid(m, cell, PATH_COST_INFINITE)
           doors == SetOpenAt(m.doors, cell, FALSE)
<1>1. OpenDoorToClosedDoor(m, cell) =
        RegenerateDynamic([m EXCEPT !.doors = doors, !.cost = paid])
  BY DEF OpenDoorToClosedDoor, Paid, SetOpenAt
<1> HIDE DEF paid, doors
<1>2. PICK r : /\ r = [m EXCEPT !.doors = doors, !.cost = paid]
               /\ HasFields(r) /\ r.cost = paid /\ r.doors = doors
  <2>1. PICK r : /\ r = [m EXCEPT !.doors = doors, !.cost = paid]
                 /\ r = [cost |-> paid, color |-> m.color, doors |-> doors,
                         static_component |-> m.static_component,
                         dynamic_component |-> m.dynamic_component,
                         next_component_color |-> m.next_component_color,
                         next_door_color |-> m.next_door_color]
    BY WriteDoorsAndCosts
  <2>2. HasFields(r) /\ r.cost = paid /\ r.doors = doors
    BY <2>1 DEF HasFields
  <2> QED
    BY <2>1, <2>2
<1> QED
  BY <1>1, <1>2, RegenerateShows DEF paid, doors

(***************************************************************************)
(* The doors' map.                                                         *)
(***************************************************************************)

\* Opening or closing a door that has been written.
LEMMA WithOpen ==
  ASSUME NEW doors, NEW cell, NEW was, NEW open, NEW cost
  PROVE  SetOpenAt(With(doors, cell, NewDoor(was, cost)), cell, open)
           = With(doors, cell, NewDoor(open, cost))
<1>1. PICK f : f = With(doors, cell, NewDoor(was, cost))
  OBVIOUS
<1>2. cell \in DOMAIN f /\ f[cell] = NewDoor(was, cost)
  BY <1>1 DEF With
<1>3. [NewDoor(was, cost) EXCEPT !.open = open] = NewDoor(open, cost)
  BY DEF NewDoor
<1>4. SetOpenAt(f, cell, open) = [f EXCEPT ![cell] = NewDoor(open, cost)]
  BY <1>2, <1>3 DEF SetOpenAt
<1>5. [f EXCEPT ![cell] = NewDoor(open, cost)] = With(doors, cell, NewDoor(open, cost))
  BY <1>1 DEF With
<1> QED
  BY <1>1, <1>4, <1>5

\* Changing the price of a door.
LEMMA WithPrice ==
  ASSUME NEW doors, doors \in [DOMAIN doors -> Door], NEW cell \in DOMAIN doors,
         NEW cost
  PROVE  [doors EXCEPT ![cell].cost_open = cost]
           = With(doors, cell, [open |-> doors[cell].open, cost_open |-> cost,
                                cost_closed |-> doors[cell].cost_closed])
<1> DEFINE old == doors[cell]
           new == [open |-> old.open, cost_open |-> cost,
                   cost_closed |-> old.cost_closed]
<1>1. old \in Door
  OBVIOUS
<1>2. old = [open |-> old.open, cost_open |-> old.cost_open,
             cost_closed |-> old.cost_closed]
  BY <1>1 DEF Door
<1>3. [old EXCEPT !.cost_open = cost] = new
  BY <1>2
<1>4. [doors EXCEPT ![cell].cost_open = cost] = [doors EXCEPT ![cell] = new]
  BY <1>3
<1> HIDE DEF new
<1>5. [doors EXCEPT ![cell] = new] = With(doors, cell, new)
  BY DEF With
<1> QED
  BY <1>4, <1>5 DEF new

(***************************************************************************)
(* The four mutations.                                                     *)
(***************************************************************************)

\* set_cost writes its cost to its cell, whatever it fills.
LEMMA SetCostShows ==
  ASSUME NEW m, Consistent(m), NEW cell \in Cell, ~IsDoor(m, cell), NEW cost \in Costs
  PROVE  LET n == SetCost(m, cell, cost)
         IN  n.cost = Paid(m, cell, cost) /\ n.doors = m.doors
<1>1. /\ HasFields(m) /\ DoorsMatch(m)
      /\ m.cost \in [Cell -> Costs]
  BY ShownFields
<1>2. CASE ~IsPassable(m, cell) /\ cost # PATH_COST_INFINITE
  <2>1. cell \notin NotWalls(m)
    BY <1>1, <1>2 DEF DoorsMatch, NotWalls
  <2>2. SetCost(m, cell, cost) = [WallToTransparent(m, cell) EXCEPT !.cost[cell] = cost]
    BY <1>2 DEF SetCost, IsPassable
  <2>3. PICK k, n : BecomesClear(m, cell, cost, k, n)
    BY <1>2, <2>1, WallToTransparentFields
  <2> QED
    BY <2>2, <2>3 DEF BecomesClear, Paid
<1>3. CASE IsPassable(m, cell) /\ cost = PATH_COST_INFINITE
  <2>1. PICK w : /\ w = TransparentToWall(m, cell)
                 /\ HasFields(w)
                 /\ w.cost = Paid(m, cell, PATH_COST_INFINITE)
                 /\ w.doors = m.doors
    BY TransparentToWallShows
  <2>2. PICK n : n = SetCost(m, cell, cost) /\ n = SetPrice(w, cell, cost)
    BY <1>3, <2>1 DEF SetCost, SetPrice, IsPassable
  <2>3. Paid(w, cell, cost) = Paid(m, cell, cost)
    BY <1>1, <1>3, <2>1, PaidTwice DEF Paid
  <2>4. n.cost = Paid(w, cell, cost) /\ n.doors = w.doors
    BY <2>1, <2>2, WriteCost
  <2> QED
    BY <2>1, <2>2, <2>3, <2>4
<1>4. CASE cost # PATH_COST_INFINITE <=> IsPassable(m, cell)
  <2>1. PICK n : n = SetCost(m, cell, cost) /\ n = SetPrice(m, cell, cost)
    BY <1>4 DEF SetCost, SetPrice, IsPassable
  <2>2. n.cost = Paid(m, cell, cost) /\ n.doors = m.doors
    BY <1>1, <2>1, WriteCost
  <2> QED
    BY <2>1, <2>2
<1> QED
  BY <1>2, <1>3, <1>4

\* remove_door leaves the cost it is given and no door.
LEMMA RemoveDoorShows ==
  ASSUME NEW m, Consistent(m), NEW cell \in DOMAIN m.doors, NEW cost \in Costs
  PROVE  LET n == RemoveDoor(m, cell, cost)
         IN  n.cost = Paid(m, cell, cost) /\ n.doors = Without(m.doors, cell)
<1>1. /\ HasFields(m) /\ m.cost \in [Cell -> Costs] /\ PATH_COST_INFINITE \in Costs
      /\ cell \in Cell /\ m.doors \in [DOMAIN m.doors -> Door]
  BY ShownFields, CostAssumption
<1>2. PICK c : /\ c = IF m.doors[cell].open THEN OpenDoorToClosedDoor(m, cell) ELSE m
               /\ Consistent(c)
               /\ cell \in DOMAIN c.doors /\ ~c.doors[cell].open
  BY OpenDoorToClosedDoorGood
<1>3. /\ HasFields(c)
      /\ \A k \in Costs : Paid(c, cell, k) = Paid(m, cell, k)
      /\ Without(c.doors, cell) = Without(m.doors, cell)
  <2>1. CASE m.doors[cell].open
    <3>1. /\ HasFields(c) /\ c.cost = Paid(m, cell, PATH_COST_INFINITE)
          /\ c.doors = SetOpenAt(m.doors, cell, FALSE)
      BY <1>1, <1>2, <2>1, OpenDoorToClosedDoorShows
    <3>2. PICK x : c.doors = [m.doors EXCEPT ![cell] = x]
      BY <3>1 DEF SetOpenAt
    <3>3. Without(c.doors, cell) = Without(m.doors, cell)
      BY <1>1, <3>2 DEF Without
    <3> QED
      BY <1>1, <3>1, <3>3, PaidTwice DEF Paid
  <2>2. CASE ~m.doors[cell].open
    BY <1>1, <1>2, <2>2
  <2> QED
    BY <2>1, <2>2
<1>4. PICK k : /\ k = IF m.doors[cell].open THEN cost ELSE PATH_COST_INFINITE
               /\ k \in Costs
  BY <1>1
<1>5. PICK x : x = ClosedDoorToWall(c, cell, k)
  OBVIOUS
<1>6. CASE cost = PATH_COST_INFINITE
  <2>1. k = cost
    BY <1>4, <1>6
  <2>2. RemoveDoor(m, cell, cost) = x
    BY <1>2, <1>4, <1>5, <1>6 DEF RemoveDoor
  <2> QED
    BY <1>3, <1>4, <1>5, <2>1, <2>2, ClosedDoorToWallShows
<1>7. CASE cost # PATH_COST_INFINITE
  <2>1. RemoveDoor(m, cell, cost) = [WallToTransparent(x, cell) EXCEPT !.cost[cell] = cost]
    BY <1>2, <1>4, <1>5, <1>7 DEF RemoveDoor
  <2>2. PICK w : /\ w = ClosedDoorToWall(c, cell, PATH_COST_INFINITE)
                 /\ Consistent(w)
                 /\ cell \notin NotWalls(w)
    BY <1>2, ClosedDoorToWallGood
  <2>3. /\ HasFields(x) /\ x.cost \in [Cell -> Costs]
        /\ w = [x EXCEPT !.cost[cell] = PATH_COST_INFINITE]
    BY <1>2, <1>4, <1>5, <2>2, WallAnyCost
  <2>4. PICK v : /\ v = [WallToTransparent(w, cell) EXCEPT !.cost[cell] = cost]
                 /\ RemoveDoor(m, cell, cost) = v
    <3>1. PICK v : v = [WallToTransparent(w, cell) EXCEPT !.cost[cell] = cost]
      OBVIOUS
    <3>2. [WallToTransparent(x, cell) EXCEPT !.cost[cell] = cost] = v
      BY <1>1, <2>3, <3>1, WallCostUnread
    <3> QED
      BY <2>1, <3>1, <3>2
  <2>5. PICK j, n : BecomesClear(w, cell, cost, j, n)
    BY <1>1, <1>7, <2>2, WallToTransparentFields
  <2>6. w.cost = Paid(m, cell, PATH_COST_INFINITE) /\ w.doors = Without(m.doors, cell)
    BY <1>1, <1>3, <2>2, ClosedDoorToWallShows
  <2>7. Paid(w, cell, cost) = Paid(m, cell, cost)
    BY <1>1, <2>6, PaidTwice DEF Paid
  <2>8. RemoveDoor(m, cell, cost).cost = Paid(w, cell, cost)
        /\ RemoveDoor(m, cell, cost).doors = w.doors
    BY <2>4, <2>5 DEF BecomesClear, Paid
  <2> QED
    BY <2>6, <2>7, <2>8
<1> QED
  BY <1>6, <1>7

\* create_door leaves a new door and its cost.
LEMMA CreateDoorShows ==
  ASSUME NEW m, Consistent(m), NEW cell \in Cell, ~IsDoor(m, cell),
         NEW open \in BOOLEAN, NEW cost
  PROVE  LET n == CreateDoor(m, cell, open, cost)
         IN  /\ n.cost = Paid(m, cell, NewPrice(open, cost))
             /\ n.doors = With(m.doors, cell, NewDoor(open, cost))
<1>1. HasFields(m) /\ m.cost \in [Cell -> Costs]
  BY ShownFields
<1>2. PICK w : /\ w = AsWall(m, cell)
               /\ HasFields(w) /\ w.doors = m.doors
               /\ \A k : Paid(w, cell, k) = Paid(m, cell, k)
  <2>1. CASE IsPassable(m, cell)
    <3>1. PICK w : /\ w = TransparentToWall(m, cell)
                   /\ HasFields(w) /\ w.doors = m.doors
                   /\ w.cost = Paid(m, cell, PATH_COST_INFINITE)
      BY TransparentToWallShows
    <3>2. \A k : Paid(w, cell, k) = Paid(m, cell, k)
      BY <1>1, <3>1, PaidTwice DEF Paid
    <3> QED
      BY <2>1, <3>1, <3>2 DEF AsWall
  <2>2. CASE ~IsPassable(m, cell)
    BY <1>1, <2>2 DEF AsWall
  <2> QED
    BY <2>1, <2>2
<1>3. PICK door : door = [open |-> FALSE, cost_open |-> PATH_COST_INFINITE,
                          cost_closed |-> cost]
  OBVIOUS
<1>4. PICK c : /\ c = WallToClosedDoor(w, cell, PATH_COST_INFINITE, cost)
               /\ HasFields(c)
               /\ c.cost = Paid(m, cell, PATH_COST_INFINITE)
               /\ c.doors = With(m.doors, cell, door)
  BY <1>2, <1>3, WallToClosedDoorShows
<1>5. PICK o : /\ o = IF open THEN ClosedDoorToOpenDoor(c, cell) ELSE c
               /\ HasFields(o) /\ o.cost = c.cost
               /\ \E x : o.doors = With(m.doors, cell, x)
  <2>1. CASE open
    <3>1. PICK links : ClosedDoorToOpenDoor(c, cell) = OpenAlong(c, links, cell)
      BY DEF ClosedDoorToOpenDoor, OpenAlong
    <3>2. PICK o : o = OpenAlong(c, links, cell) /\ Opened(c, links, cell, o)
      BY <1>4, OpenAlongFields
    <3>3. PICK x : o.doors = [c.doors EXCEPT ![cell] = x]
      BY <3>2 DEF Opened
    <3>4. o.doors = With(m.doors, cell, x)
      BY <1>4, <3>3 DEF With
    <3> QED
      BY <2>1, <3>1, <3>2, <3>4 DEF Opened
  <2>2. CASE ~open
    BY <1>4, <2>2
  <2> QED
    BY <2>1, <2>2
<1>6. PICK n : /\ n = RecordDoor(o, cell, open, cost)
               /\ Recorded(o, cell, NewPrice(open, cost), NewDoor(open, cost), n)
  BY <1>5, RecordDoorFields
<1>7. CreateDoor(m, cell, open, cost) = n
  BY <1>2, <1>4, <1>5, <1>6 DEF CreateDoor
<1>8. n.cost = Paid(m, cell, NewPrice(open, cost))
  BY <1>1, <1>4, <1>5, <1>6, PaidTwice DEF Recorded, Paid
<1>9. n.doors = With(m.doors, cell, NewDoor(open, cost))
  <2>1. PICK x : o.doors = With(m.doors, cell, x)
    BY <1>5
  <2>2. n.doors = [With(m.doors, cell, x) EXCEPT ![cell] = NewDoor(open, cost)]
    BY <1>6, <2>1 DEF Recorded
  <2> QED
    BY <2>2 DEF With
<1> QED
  BY <1>7, <1>8, <1>9

\* update_door opens or closes the door that is there.
LEMMA UpdateDoorShows ==
  ASSUME NEW m, Consistent(m), NEW cell \in DOMAIN m.doors,
         m.doors[cell].cost_closed = PATH_COST_INFINITE,
         NEW open \in BOOLEAN, NEW cost
  PROVE  LET n == UpdateDoor(m, cell, open, cost)
         IN  /\ n.cost = Paid(m, cell, NewPrice(open, cost))
             /\ n.doors = With(m.doors, cell, NewDoor(open, cost))
<1>1. /\ HasFields(m) /\ m.cost \in [Cell -> Costs]
      /\ m.doors \in [DOMAIN m.doors -> Door]
  BY ShownFields
<1>2. PICK was : /\ was = m.doors[cell].open
                 /\ was \in BOOLEAN
  BY <1>1 DEF Door
<1> DEFINE paid == Paid(m, cell, NewPrice(open, cost))
           mid == With(m.doors, cell, NewDoor(was, cost))
           goal == With(m.doors, cell, NewDoor(open, cost))
<1>3. [m.doors EXCEPT ![cell].cost_open = cost] = mid
  BY <1>1, <1>2, WithPrice DEF NewDoor
<1>4. SetOpenAt(mid, cell, open) = goal
  BY WithOpen
<1>a. SetOpenAt(goal, cell, open) = goal
  BY WithOpen
<1>5. PICK p : /\ p = [m EXCEPT !.doors[cell].cost_open = cost,
                                !.cost[cell] = IF open THEN cost
                                               ELSE PATH_COST_INFINITE]
               /\ HasFields(p) /\ p.cost = paid /\ p.doors = mid
  <2>1. PICK p : p = [m EXCEPT !.doors[cell].cost_open = cost,
                               !.cost[cell] = IF open THEN cost
                                              ELSE PATH_COST_INFINITE]
    OBVIOUS
  <2> DEFINE doors == [m.doors EXCEPT ![cell].cost_open = cost]
  <2>2. p = [m EXCEPT !.doors = doors, !.cost = paid]
    BY <2>1 DEF Paid, NewPrice
  <2> HIDE DEF doors, paid
  <2>3. p = [cost |-> paid, color |-> m.color, doors |-> doors,
             static_component |-> m.static_component,
             dynamic_component |-> m.dynamic_component,
             next_component_color |-> m.next_component_color,
             next_door_color |-> m.next_door_color]
    BY <1>1, <2>2, WriteDoorsAndCosts
  <2>4. HasFields(p) /\ p.cost = paid /\ p.doors = doors
    BY <2>3 DEF HasFields
  <2> QED
    BY <1>3, <2>1, <2>4 DEF doors
<1>6. PICK q : /\ q = [p EXCEPT !.doors[cell].open = open]
               /\ HasFields(q) /\ q.cost = paid /\ q.doors = goal
  <2> HIDE DEF paid, mid, goal
  <2>1. PICK q : q = [p EXCEPT !.doors[cell].open = open]
    OBVIOUS
  <2> DEFINE doors == [p.doors EXCEPT ![cell].open = open]
  <2>2. q = [p EXCEPT !.doors = doors]
    BY <2>1
  <2> HIDE DEF doors
  <2>3. q = [cost |-> p.cost, color |-> p.color, doors |-> doors,
             static_component |-> p.static_component,
             dynamic_component |-> p.dynamic_component,
             next_component_color |-> p.next_component_color,
             next_door_color |-> p.next_door_color]
    BY <1>5, <2>2 DEF HasFields
  <2>4. HasFields(q) /\ q.cost = p.cost /\ q.doors = doors
    BY <2>3 DEF HasFields
  <2> QED
    BY <1>4, <1>5, <2>1, <2>4 DEF doors, SetOpenAt
<1>7. CASE was = open
  <2>1. UpdateDoor(m, cell, open, cost) = p
    BY <1>2, <1>5, <1>7 DEF UpdateDoor
  <2> QED
    BY <1>5, <1>7, <2>1
<1>8. CASE was # open /\ open
  <2>1. UpdateDoor(m, cell, open, cost) = ClosedDoorToOpenDoor(q, cell)
    BY <1>2, <1>5, <1>6, <1>8 DEF UpdateDoor
  <2>2. PICK links : ClosedDoorToOpenDoor(q, cell) = OpenAlong(q, links, cell)
    BY DEF ClosedDoorToOpenDoor, OpenAlong
  <2>3. PICK o : o = OpenAlong(q, links, cell) /\ Opened(q, links, cell, o)
    BY <1>6, OpenAlongFields
  <2>4. o.doors = SetOpenAt(goal, cell, TRUE) /\ o.cost = paid
    <3> HIDE DEF paid, mid, goal
    <3> QED
      BY <1>6, <2>3 DEF Opened, SetOpenAt
  <2>5. o.doors = goal
    BY <1>8, <1>a, <2>4
  <2> QED
    BY <2>1, <2>2, <2>3, <2>4, <2>5
<1>9. CASE was # open /\ ~open
  <2>1. UpdateDoor(m, cell, open, cost) = OpenDoorToClosedDoor(q, cell)
    BY <1>2, <1>5, <1>6, <1>9 DEF UpdateDoor
  <2>2. PICK o : /\ o = OpenDoorToClosedDoor(q, cell)
                 /\ o.cost = Paid(q, cell, PATH_COST_INFINITE)
                 /\ o.doors = SetOpenAt(goal, cell, FALSE)
    <3> HIDE DEF paid, mid, goal
    <3> QED
      BY <1>6, OpenDoorToClosedDoorShows
  <2>3. o.doors = goal
    BY <1>9, <1>a, <2>2
  <2>4. o.cost = paid
    BY <1>1, <1>6, <1>9, <2>2, PaidTwice DEF Paid, NewPrice
  <2> QED
    BY <2>1, <2>2, <2>3, <2>4
<1> QED
  BY <1>2, <1>7, <1>8, <1>9

\* Doors cost what a mutation makes them cost to walk through when closed.
Blocked(m) == \A d \in DOMAIN m.doors : m.doors[d].cost_closed = PATH_COST_INFINITE

\* One mutation, of any kind, in any state.
LEMMA MutateShows ==
  ASSUME NEW m, Consistent(m), Blocked(m), NEW mutation \in Mutation
  PROVE  LET n == Mutate(m, mutation)
         IN  /\ n.cost = Paid(m, mutation.cell, Asked(mutation).cost)
             /\ n.doors = IF mutation.door
                          THEN With(m.doors, mutation.cell,
                                    NewDoor(mutation.open, mutation.cost))
                          ELSE Without(m.doors, mutation.cell)
<1> DEFINE cell == mutation.cell
<1>1. /\ cell \in Cell /\ mutation.cost \in Costs
      /\ mutation.open \in BOOLEAN /\ mutation.door \in BOOLEAN
      /\ ~mutation.door => ~mutation.open
  BY DEF Mutation
<1>2. /\ DoorsMatch(m) /\ m.doors \in [DOMAIN m.doors -> Door]
  BY ShownFields
<1>3. IsDoor(m, cell) <=> cell \in DOMAIN m.doors
  BY <1>1, <1>2 DEF DoorsMatch
<1>4. Asked(mutation).cost = IF mutation.door THEN NewPrice(mutation.open, mutation.cost)
                             ELSE mutation.cost
  BY <1>1 DEF Asked, NewPrice
<1>5. CASE IsDoor(m, cell) /\ mutation.door
  <2>1. Mutate(m, mutation) = UpdateDoor(m, cell, mutation.open, mutation.cost)
    BY <1>5 DEF Mutate
  <2>2. m.doors[cell].cost_closed = PATH_COST_INFINITE
    BY <1>3, <1>5 DEF Blocked
  <2> QED
    BY <1>1, <1>3, <1>4, <1>5, <2>1, <2>2, UpdateDoorShows
<1>6. CASE IsDoor(m, cell) /\ ~mutation.door
  <2>1. Mutate(m, mutation) = RemoveDoor(m, cell, mutation.cost)
    BY <1>6 DEF Mutate
  <2> QED
    BY <1>1, <1>3, <1>4, <1>6, <2>1, RemoveDoorShows
<1>7. CASE ~IsDoor(m, cell) /\ mutation.door
  <2>1. Mutate(m, mutation) = CreateDoor(m, cell, mutation.open, mutation.cost)
    BY <1>7 DEF Mutate
  <2> QED
    BY <1>1, <1>4, <1>7, <2>1, CreateDoorShows
<1>8. CASE ~IsDoor(m, cell) /\ ~mutation.door
  <2>1. Mutate(m, mutation) = SetCost(m, cell, mutation.cost)
    BY <1>8 DEF Mutate
  <2>2. Without(m.doors, cell) = m.doors
    BY <1>2, <1>3, <1>8 DEF Without
  <2> QED
    BY <1>1, <1>4, <1>8, <2>1, <2>2, SetCostShows
<1> QED
  BY <1>1, <1>5, <1>6, <1>7, <1>8

(***************************************************************************)
(* What callers see.                                                       *)
(***************************************************************************)

\* What a cell shows, by the costs and the doors alone.
ShownAt(cost, doors, c) ==
  [cost |-> cost[c], door |-> {doors[d] : d \in DOMAIN doors \cap {c}}]

\* A cell's door has been written, or removed, and the others are as they were.
LEMMA ShownWith ==
  ASSUME NEW m, m.cost \in [Cell -> Costs], NEW cell \in Cell,
         NEW price, NEW door, NEW c \in Cell
  PROVE  ShownAt(Paid(m, cell, price), With(m.doors, cell, door), c)
           = IF c = cell THEN [cost |-> price, door |-> {door}]
             ELSE ShownAt(m.cost, m.doors, c)
<1>1. PICK f : f = With(m.doors, cell, door)
  OBVIOUS
<1>2. /\ DOMAIN f = DOMAIN m.doors \cup {cell}
      /\ f[cell] = door
      /\ \A d \in DOMAIN m.doors : d # cell => f[d] = m.doors[d]
  BY <1>1 DEF With
<1>3. {f[d] : d \in DOMAIN f \cap {c}}
        = IF c = cell THEN {door} ELSE {m.doors[d] : d \in DOMAIN m.doors \cap {c}}
  <2>1. CASE c = cell
    BY <1>2, <2>1
  <2>2. CASE c # cell
    <3>1. DOMAIN f \cap {c} = DOMAIN m.doors \cap {c}
      BY <1>2, <2>2
    <3>2. \A d \in DOMAIN m.doors \cap {c} : f[d] = m.doors[d]
      BY <1>2, <2>2
    <3> QED
      BY <2>2, <3>1, <3>2
  <2> QED
    BY <2>1, <2>2
<1> QED
  BY <1>1, <1>3 DEF ShownAt, Paid

\* What is shown of a cell whose door is gone, and of the others.
LEMMA ShownWithout ==
  ASSUME NEW m, m.cost \in [Cell -> Costs], NEW cell \in Cell,
         NEW price, NEW c \in Cell
  PROVE  ShownAt(Paid(m, cell, price), Without(m.doors, cell), c)
           = IF c = cell THEN [cost |-> price, door |-> {}]
             ELSE ShownAt(m.cost, m.doors, c)
<1>1. PICK f : f = Without(m.doors, cell)
  OBVIOUS
<1>2. /\ DOMAIN f = DOMAIN m.doors \ {cell}
      /\ \A d \in DOMAIN f : f[d] = m.doors[d]
  BY <1>1 DEF Without
<1>3. {f[d] : d \in DOMAIN f \cap {c}}
        = IF c = cell THEN {} ELSE {m.doors[d] : d \in DOMAIN m.doors \cap {c}}
  <2>1. CASE c = cell
    BY <1>2, <2>1
  <2>2. CASE c # cell
    <3>1. DOMAIN f \cap {c} = DOMAIN m.doors \cap {c}
      BY <1>2, <2>2
    <3> QED
      BY <1>2, <2>2, <3>1
  <2> QED
    BY <2>1, <2>2
<1> QED
  BY <1>1, <1>3 DEF ShownAt, Paid

\* A mutation shows what it asks for, in its cell and nowhere else, and leaves the
\* closed doors blocked.
LEMMA MutateShown ==
  ASSUME NEW m, Consistent(m), Blocked(m), NEW mutation \in Mutation
  PROVE  /\ Shown(Mutate(m, mutation))
              = [Shown(m) EXCEPT ![mutation.cell] = Asked(mutation)]
         /\ Blocked(Mutate(m, mutation))
<1> DEFINE cell == mutation.cell
           door == NewDoor(mutation.open, mutation.cost)
           asked == Asked(mutation)
<1>1. PICK n : /\ n = Mutate(m, mutation)
               /\ n.cost = Paid(m, cell, asked.cost)
               /\ n.doors = IF mutation.door THEN With(m.doors, cell, door)
                            ELSE Without(m.doors, cell)
  BY MutateShows
<1>2. /\ m.cost \in [Cell -> Costs] /\ cell \in Cell /\ mutation.door \in BOOLEAN
  BY ShownFields DEF Mutation
<1>3. asked = [cost |-> asked.cost, door |-> IF mutation.door THEN {door} ELSE {}]
  BY DEF Asked, NewDoor
<1>4. \A c \in Cell : ShownAt(n.cost, n.doors, c)
                        = IF c = cell THEN asked ELSE ShownAt(m.cost, m.doors, c)
  <2> HIDE DEF asked, door, cell
  <2>1. CASE mutation.door
    <3>1. asked = [cost |-> asked.cost, door |-> {door}]
      BY <1>3, <2>1
    <3>2. n.doors = With(m.doors, cell, door)
      BY <1>1, <2>1
    <3>3. PICK price : price = asked.cost
      OBVIOUS
    <3>4. \A c \in Cell : ShownAt(Paid(m, cell, price), With(m.doors, cell, door), c)
                            = IF c = cell THEN [cost |-> price, door |-> {door}]
                              ELSE ShownAt(m.cost, m.doors, c)
      BY <1>2, ShownWith
    <3> QED
      BY <1>1, <3>1, <3>2, <3>3, <3>4
  <2>2. CASE ~mutation.door
    BY <1>1, <1>2, <1>3, <2>2, ShownWithout
  <2> QED
    BY <1>2, <2>1, <2>2
<1>5. \A k : Shown(k) = [c \in Cell |-> ShownAt(k.cost, k.doors, c)]
  BY DEF Shown, ShownAt
<1>6. Shown(n) = [Shown(m) EXCEPT ![cell] = asked]
  <2> HIDE DEF asked, cell
  <2> QED
    BY <1>2, <1>4, <1>5
<1>7. Blocked(n)
  <2>1. door.cost_closed = PATH_COST_INFINITE
    BY DEF NewDoor
  <2>2. CASE mutation.door
    BY <1>1, <2>1, <2>2 DEF Blocked, With
  <2>3. CASE ~mutation.door
    BY <1>1, <2>3 DEF Blocked, Without
  <2> QED
    BY <1>2, <2>2, <2>3
<1> QED
  BY <1>1, <1>6, <1>7

\* What the constructor makes of a builder.
LEMMA BuiltShows ==
  ASSUME EnoughColors, ClosedDoorsBlock,
         NEW places \in SUBSET Cell,
         NEW terrain \in [Cell \ places -> Costs],
         NEW doors \in [places -> BuiltDoor]
  PROVE  LET m == Rebuild(Built(terrain, doors))
         IN  /\ Consistent(m)
             /\ m.next_component_color <= MaxColor
             /\ Blocked(m)
             /\ m.cost = [c \in Cell |-> IF c \in places THEN CostOf(doors[c])
                                         ELSE terrain[c]]
             /\ m.doors = doors
<1>1. PICK b : b = Built(terrain, doors) /\ ReadyToRebuild(b)
  BY BuiltIsReady
<1>2. PICK m : /\ m = Rebuild(b)
               /\ Consistent(m)
               /\ m.next_component_color <= MaxColor
               /\ m.cost = b.cost /\ m.doors = b.doors
  BY <1>1, RebuildGood
<1>3. /\ b.cost = [c \in Cell |-> IF c \in places THEN CostOf(doors[c])
                                  ELSE terrain[c]]
      /\ b.doors = doors
  BY <1>1 DEF Built
<1>4. Blocked(m)
  BY <1>2, <1>3 DEF Blocked, BuiltDoor, ClosedDoorsBlock
<1> QED
  BY <1>1, <1>2, <1>3, <1>4

(***************************************************************************)
(* The theorem.                                                            *)
(***************************************************************************)

\* After any history of a map whose builder blocks its closed doors, each helper
\* that update strings together for a mutation writes what the others leave
\* out: the cell shows all that was asked for, and no other cell changes.
THEOREM MutationsAlwaysShow ==
  ASSUME EnoughColors, ClosedDoorsBlock
  PROVE  Spec => []MutationsShow
<1>1. ASSUME Init PROVE Blocked(map)
  <2>1. PICK places \in SUBSET Cell :
          \E terrain \in [Cell \ places -> Costs], doors \in [places -> BuiltDoor] :
            map = Rebuild(Built(terrain, doors))
    BY <1>1 DEF Init
  <2>2. PICK terrain \in [Cell \ places -> Costs], doors \in [places -> BuiltDoor] :
          map = Rebuild(Built(terrain, doors))
    BY <2>1
  <2> QED
    BY <2>2, BuiltShows
<1>2. IInv /\ Blocked(map) /\ [Next]_map => Blocked(map)'
  <2> SUFFICES ASSUME IInv, Blocked(map), [Next]_map
               PROVE  Blocked(map')
    BY DEF Blocked
  <2>1. Consistent(map)
    BY DEF IInv
  <2>2. ASSUME NEW mutation \in Mutation, ColorsLeft(mutation.cell)
        PROVE  Consistent(Mutate(map, mutation)) /\ Blocked(Mutate(map, mutation))
    BY <2>1, <2>2, MutateGood, MutateShown DEF ColorsLeft
  <2>3. ASSUME NEW m, Consistent(m), Blocked(m)
        PROVE  Blocked(Rebuild(m))
    BY <2>3, ConsistentIsReady, RebuildGood DEF Blocked
  <2>4. ASSUME NEW mutation \in Mutation, UpdateIncremental(mutation)
        PROVE  Blocked(map')
    BY <2>2, <2>4 DEF UpdateIncremental
  <2>5. ASSUME NEW mutation \in Mutation, UpdateAndRebuild(mutation)
        PROVE  Blocked(map')
    BY <2>2, <2>3, <2>5 DEF UpdateAndRebuild
  <2>6. CASE UpdateEmpty
    BY <2>1, <2>3, <2>6 DEF UpdateEmpty
  <2>7. CASE UNCHANGED map
    BY <2>7
  <2> QED
    BY <2>4, <2>5, <2>6, <2>7 DEF Next
<1>3. IInv /\ Blocked(map) => MutationsShow
  BY MutateShown DEF IInv, MutationsShow
<1>4. Spec => []IInv
  BY Invariance
<1> QED
  BY <1>1, <1>2, <1>3, <1>4, PTL DEF Spec

(***************************************************************************)
(* The colours that are taken are used.                                    *)
(***************************************************************************)

\* The ranks of a finite set leave no gap.
LEMMA RankOnto ==
  ASSUME NEW S \in SUBSET Nat, IsFiniteSet(S), NEW k \in 0..(Cardinality(S) - 1)
  PROVE  \E x \in S : Rank(S, x) = k
<1>1. PICK n \in Nat : n = Cardinality(S)
  BY FS_CardinalityType
<1>2. IsFiniteSet(0..(n - 1)) /\ Cardinality(0..(n - 1)) = n
  <2>1. IsFiniteSet(0..(n - 1))
        /\ Cardinality(0..(n - 1)) = IF 0 > n - 1 THEN 0 ELSE (n - 1) - 0 + 1
    BY FS_Interval
  <2> QED
    BY <2>1
<1>3. PICK f : f = [x \in S |-> Rank(S, x)]
  OBVIOUS
<1>4. f \in Injection(S, 0..(n - 1))
  <2>1. \A x \in S : Rank(S, x) \in 0..(n - 1)
    BY <1>1, RankBound
  <2>2. \A x, y \in S : Rank(S, x) = Rank(S, y) => x = y
    BY RankInjective
  <2>3. f \in [S -> 0..(n - 1)]
    BY <1>3, <2>1
  <2>4. \A x, y \in S : f[x] = f[y] => x = y
    BY <1>3, <2>2
  <2> QED
    BY <2>3, <2>4 DEF Injection, IsInjective
<1>5. f \in Surjection(S, 0..(n - 1))
  BY <1>1, <1>2, <1>4, FS_Injection
<1>6. \E x \in S : f[x] = k
  BY <1>1, <1>5 DEF Surjection
<1> QED
  BY <1>3, <1>6

\* The component colours of n from first on are colours of cells of C.
Worn(n, first, C) ==
  \A k \in first..(n.next_component_color - 1) : \E c \in C : n.color[c] = k

\* No colour was taken.
LEMMA NoneTaken ==
  ASSUME NEW n, NEW first \in Nat, n.next_component_color <= first,
         n.next_component_color \in Nat, NEW C
  PROVE  Worn(n, first, C)
BY DEF Worn

\* Recomputing dynamic_component recolours nothing.
LEMMA RegenerateColors ==
  ASSUME NEW m, HasFields(m)
  PROVE  LET n == RegenerateDynamic(m)
         IN  n.color = m.color /\ n.next_component_color = m.next_component_color
<1>1. PICK u : RegenerateDynamic(m) = [m EXCEPT !.dynamic_component = u]
  BY DEF RegenerateDynamic
<1>2. PICK n : n = [m EXCEPT !.dynamic_component = u]
  OBVIOUS
<1>3. n = [cost |-> m.cost, color |-> m.color, doors |-> m.doors,
           static_component |-> m.static_component,
           dynamic_component |-> u,
           next_component_color |-> m.next_component_color,
           next_door_color |-> m.next_door_color]
  BY <1>2 DEF HasFields
<1> QED
  BY <1>1, <1>2, <1>3

\* Nor does setting a price.
LEMMA PriceColors ==
  ASSUME NEW m, HasFields(m), NEW cell, NEW cost
  PROVE  LET n == SetPrice(m, cell, cost)
         IN  n.color = m.color /\ n.next_component_color = m.next_component_color
<1>1. PICK paid : paid = [m.cost EXCEPT ![cell] = cost]
  OBVIOUS
<1>2. PICK n : n = SetPrice(m, cell, cost) /\ n = [m EXCEPT !.cost = paid]
  BY <1>1 DEF SetPrice
<1>3. n = [cost |-> paid, color |-> m.color, doors |-> m.doors,
           static_component |-> m.static_component,
           dynamic_component |-> m.dynamic_component,
           next_component_color |-> m.next_component_color,
           next_door_color |-> m.next_door_color]
  BY <1>2 DEF HasFields
<1> QED
  BY <1>2, <1>3

\* Every fill that transparent_to_wall starts colours at least the neighbour it
\* starts from, which no earlier fill had reached.
LEMMA TransparentToWallWears ==
  ASSUME NEW m, Consistent(m), NEW cell \in TransparentCells(m)
  PROVE  LET n == TransparentToWall(m, cell)
         IN  HasFields(n) /\ Worn(n, m.next_component_color, Cell \ {cell})
<1> DEFINE room == OldRoom(m, cell)
           seed == Adjacent[cell]
           starts == FillStarts(room, seed)
           hits(c) == {i \in starts : c \in Areas(room)[seed[i]]}
<1>1. WellFormed(m) /\ DoorsMatch(m) /\ cell \in Cell /\ HasFields(m)
      /\ m.next_component_color \in Nat
  BY DEF Consistent, TransparentCells, WellFormed, HasFields
<1>2. PICK w : /\ TransparentToWall(m, cell) = RegenerateDynamic(w)
               /\ WalledOff(m, cell, room, starts, w)
  BY <1>1, TransparentToWallFields
<1>3. HasFields(w)
  BY <1>2 DEF WalledOff, HasFields
<1>4. seed \in Seq(Cell)
  BY <1>1, AdjacentAssumption
<1>5. room \in SUBSET Cell /\ cell \notin room
  BY DEF OldRoom, TransparentCells
<1>6. starts \in SUBSET Nat /\ IsFiniteSet(starts) /\ Cardinality(starts) \in Nat
  BY <1>4, StartsFinite
<1>7. w.next_component_color = m.next_component_color + Cardinality(starts)
  BY <1>2 DEF WalledOff
<1>8. \A c \in Cell : hits(c) # {} =>
        w.color[c] = FillColor(m, starts, Spot(room, seed, c))
  BY <1>2 DEF WalledOff
<1>9. \A i \in starts : i \in DOMAIN seed /\ seed[i] \in room
  BY DEF FillStarts
<1> HIDE DEF room, starts, hits, seed
<1>10. ASSUME NEW i \in starts
       PROVE  /\ seed[i] \in Cell \ {cell}
              /\ w.color[seed[i]] = FillColor(m, starts, i)
  <2>1. seed[i] \in room /\ seed[i] \in Cell \ {cell} /\ i \in DOMAIN seed
    BY <1>5, <1>9
  <2>2. seed[i] \in Areas(room)[seed[i]]
    <3>1. EdgesIn(room) \in SUBSET (room \X room)
      BY <1>5, EdgeFacts
    <3> QED
      BY <2>1, <3>1, ClassReflexive DEF Areas
  <2>3. PICK j \in starts : hits(seed[i]) = {j}
    <3>1. \E j \in DOMAIN seed : seed[j] \in room /\ seed[i] \in Areas(room)[seed[j]]
      BY <2>1, <2>2
    <3> QED
      BY <1>4, <1>5, <2>1, <3>1, FilledOnce DEF hits, starts
  <2>4. i \in hits(seed[i])
    BY <2>2 DEF hits
  <2>5. hits(seed[i]) = {i}
    BY <2>3, <2>4
  <2>6. Spot(room, seed, seed[i]) = Least({i})
    BY <2>5 DEF Spot, hits, starts
  <2>7. Least({i}) = i
    <3>1. {i} \in SUBSET Nat /\ {i} # {}
      BY <1>6
    <3>2. Least({i}) \in {i}
      BY <3>1, LeastExists
    <3> QED
      BY <3>2
  <2> QED
    BY <1>8, <2>1, <2>5, <2>6, <2>7
<1>11. Worn(w, m.next_component_color, Cell \ {cell})
  <2> SUFFICES ASSUME NEW k \in m.next_component_color..(w.next_component_color - 1)
               PROVE  \E c \in Cell \ {cell} : w.color[c] = k
    BY DEF Worn
  <2>1. k - m.next_component_color \in 0..(Cardinality(starts) - 1)
    BY <1>1, <1>6, <1>7
  <2>2. PICK i \in starts : Rank(starts, i) = k - m.next_component_color
    BY <1>6, <2>1, RankOnto
  <2>3. FillColor(m, starts, i) = k
    BY <1>1, <2>2 DEF FillColor
  <2> QED
    BY <1>10, <2>3
<1>12. HasFields(RegenerateDynamic(w)) /\ RegenerateDynamic(w).color = w.color
       /\ RegenerateDynamic(w).next_component_color = w.next_component_color
  BY <1>3, RegenerateColors, RegenerateShows
<1> QED
  BY <1>2, <1>11, <1>12 DEF Worn

\* A wall that becomes transparent takes a new colour only to wear it.
LEMMA WallToTransparentWears ==
  ASSUME NEW m, Consistent(m), NEW cell \in Cell, cell \notin NotWalls(m),
         NEW cost \in Costs, cost # PATH_COST_INFINITE
  PROVE  Worn([WallToTransparent(m, cell) EXCEPT !.cost[cell] = cost],
              m.next_component_color, Cell)
<1>1. PICK k, n : k \in Int /\ BecomesClear(m, cell, cost, k, n)
  BY WallToTransparentFields
<1>2. /\ m.color \in [Cell -> DOMAIN m.static_component \cup {COLOR_IMPASSABLE}]
      /\ m.next_component_color \in Nat
  BY DEF Consistent, WellFormed
<1>3. n = [WallToTransparent(m, cell) EXCEPT !.cost[cell] = cost]
      /\ n.color[cell] = k
  BY <1>1, <1>2 DEF BecomesClear
<1>4. \/ k = m.next_component_color /\ n.next_component_color = k + 1
      \/ n.next_component_color = m.next_component_color
  BY <1>1 DEF BecomesClear
<1>5. Worn(n, m.next_component_color, Cell)
  BY <1>2, <1>3, <1>4 DEF Worn
<1> QED
  BY <1>3, <1>5

\* A new door takes a door's colour, in its own cell.
LEMMA WallToClosedDoorColors ==
  ASSUME NEW m, HasFields(m), NEW cell, NEW a, NEW b
  PROVE  LET n == WallToClosedDoor(m, cell, a, b)
         IN  /\ n.color = [m.color EXCEPT ![cell] = m.next_door_color]
             /\ n.next_component_color = m.next_component_color
<1> DEFINE k == m.next_door_color
           paid == [m.cost EXCEPT ![cell] = PATH_COST_INFINITE]
           color == [m.color EXCEPT ![cell] = k]
           s == Touch(m.static_component, k)
           u == Touch(m.dynamic_component, k)
           door == [open |-> FALSE, cost_open |-> a, cost_closed |-> b]
           doors == [d \in DOMAIN m.doors \cup {cell} |->
                       IF d = cell THEN door ELSE m.doors[d]]
<1>1. WallToClosedDoor(m, cell, a, b) =
        [m EXCEPT !.cost = paid, !.dynamic_component = u, !.static_component = s,
                  !.color = color, !.next_door_color = k - 1, !.doors = doors]
  BY DEF WallToClosedDoor
<1> HIDE DEF paid, color, s, u, door, doors
<1>2. PICK n : /\ n = WallToClosedDoor(m, cell, a, b)
               /\ n = [cost |-> paid, color |-> color, doors |-> doors,
                       static_component |-> s, dynamic_component |-> u,
                       next_component_color |-> m.next_component_color,
                       next_door_color |-> k - 1]
  BY <1>1 DEF HasFields
<1> QED
  BY <1>2 DEF color

\* create_door colours its own cell after the fills, which it is not in.
LEMMA CreateDoorWears ==
  ASSUME NEW m, Consistent(m), NEW cell \in Cell, ~IsDoor(m, cell),
         NEW open \in BOOLEAN, NEW cost
  PROVE  Worn(CreateDoor(m, cell, open, cost), m.next_component_color, Cell)
<1>1. m.next_component_color \in Nat
  BY DEF Consistent, WellFormed
<1>2. PICK w : /\ w = AsWall(m, cell)
               /\ Consistent(w)
               /\ Worn(w, m.next_component_color, Cell \ {cell})
  <2>1. CASE IsPassable(m, cell)
    <3>1. cell \in TransparentCells(m)
      BY <2>1 DEF TransparentCells, IsTransparent, IsPassable
    <3> QED
      BY <2>1, <3>1, AsWallGood, TransparentToWallWears DEF AsWall
  <2>2. CASE ~IsPassable(m, cell)
    BY <1>1, <2>2, NoneTaken DEF AsWall
  <2> QED
    BY <2>1, <2>2
<1>3. HasFields(w) /\ DOMAIN w.color = Cell
  BY <1>2 DEF Consistent, WellFormed, HasFields
<1>4. PICK c : /\ c = WallToClosedDoor(w, cell, PATH_COST_INFINITE, cost)
               /\ c.color = [w.color EXCEPT ![cell] = w.next_door_color]
               /\ c.next_component_color = w.next_component_color
  BY <1>3, WallToClosedDoorColors
<1>5. HasFields(c)
  BY <1>3, <1>4, WallToClosedDoorShows
<1>6. PICK o : /\ o = IF open THEN ClosedDoorToOpenDoor(c, cell) ELSE c
               /\ HasFields(o) /\ o.color = c.color
               /\ o.next_component_color = c.next_component_color
  <2>1. CASE open
    <3>1. PICK links : ClosedDoorToOpenDoor(c, cell) = OpenAlong(c, links, cell)
      BY DEF ClosedDoorToOpenDoor, OpenAlong
    <3>2. PICK o : o = OpenAlong(c, links, cell) /\ Opened(c, links, cell, o)
      BY <1>5, OpenAlongFields
    <3> QED
      BY <2>1, <3>1, <3>2 DEF Opened
  <2>2. CASE ~open
    BY <1>5, <2>2
  <2> QED
    BY <2>1, <2>2
<1>7. PICK n : /\ n = RecordDoor(o, cell, open, cost)
               /\ Recorded(o, cell, NewPrice(open, cost), NewDoor(open, cost), n)
  <2>1. HasFields(o)
    BY <1>6
  <2>2. Recorded(o, cell, NewPrice(open, cost), NewDoor(open, cost),
                 RecordDoor(o, cell, open, cost))
    BY <2>1, RecordDoorFields
  <2> QED
    BY <2>2
<1>8. /\ n.color = o.color
      /\ n.next_component_color = o.next_component_color
  BY <1>7 DEF Recorded
<1>9. CreateDoor(m, cell, open, cost) = n
  BY <1>2, <1>4, <1>6, <1>7 DEF CreateDoor
<1>10. \A x \in Cell \ {cell} : n.color[x] = w.color[x]
  BY <1>3, <1>4, <1>6, <1>8
<1>11. n.next_component_color = w.next_component_color
  BY <1>4, <1>6, <1>8
<1>12. ASSUME NEW k \in m.next_component_color..(n.next_component_color - 1)
       PROVE  \E x \in Cell : n.color[x] = k
  <2>1. k \in m.next_component_color..(w.next_component_color - 1)
    BY <1>11
  <2>2. PICK x \in Cell \ {cell} : w.color[x] = k
    BY <1>2, <2>1 DEF Worn
  <2> QED
    BY <1>10, <2>2
<1>13. Worn(n, m.next_component_color, Cell)
  BY <1>12 DEF Worn
<1> QED
  BY <1>9, <1>13

\* remove_door takes a colour only for its own cell.
LEMMA RemoveDoorWears ==
  ASSUME NEW m, Consistent(m), NEW cell \in DOMAIN m.doors, NEW cost \in Costs
  PROVE  Worn(RemoveDoor(m, cell, cost), m.next_component_color, Cell)
<1>1. PICK c : /\ c = IF m.doors[cell].open THEN OpenDoorToClosedDoor(m, cell) ELSE m
               /\ Consistent(c)
               /\ c.next_component_color = m.next_component_color
               /\ cell \in DOMAIN c.doors /\ ~c.doors[cell].open
  BY OpenDoorToClosedDoorGood
<1>2. PICK w : /\ w = ClosedDoorToWall(c, cell, PATH_COST_INFINITE)
               /\ Consistent(w)
               /\ w.next_component_color = m.next_component_color
               /\ cell \in Cell /\ cell \notin NotWalls(w)
  BY <1>1, ClosedDoorToWallGood
<1>3. m.next_component_color \in Nat
  BY DEF Consistent, WellFormed
<1>4. PICK k : k = IF m.doors[cell].open THEN cost ELSE PATH_COST_INFINITE
  OBVIOUS
<1>5. PICK x : x = ClosedDoorToWall(c, cell, k)
  OBVIOUS
<1>6. CASE cost = PATH_COST_INFINITE
  <2>1. RemoveDoor(m, cell, cost) = w
    BY <1>1, <1>2, <1>6 DEF RemoveDoor
  <2> QED
    BY <1>2, <1>3, <2>1, NoneTaken
<1>7. CASE cost # PATH_COST_INFINITE
  <2>1. PICK n : n = [WallToTransparent(w, cell) EXCEPT !.cost[cell] = cost]
    OBVIOUS
  <2>2. Worn(n, m.next_component_color, Cell)
    BY <1>2, <1>7, <2>1, WallToTransparentWears
  <2>3. RemoveDoor(m, cell, cost) = [WallToTransparent(x, cell) EXCEPT !.cost[cell] = cost]
    BY <1>1, <1>4, <1>5, <1>7 DEF RemoveDoor
  <2>4. /\ HasFields(x) /\ x.cost \in [Cell -> Costs]
        /\ w = [x EXCEPT !.cost[cell] = PATH_COST_INFINITE]
    <3>1. k \in Costs
      BY <1>4, CostAssumption
    <3> QED
      BY <1>1, <1>2, <1>5, <3>1, WallAnyCost
  <2>5. [WallToTransparent(x, cell) EXCEPT !.cost[cell] = cost] = n
    BY <1>2, <2>1, <2>4, WallCostUnread
  <2> QED
    BY <2>2, <2>3, <2>5
<1> QED
  BY <1>6, <1>7

\* set_cost takes colours for its own cell, or for the pieces of its room.
LEMMA SetCostWears ==
  ASSUME NEW m, Consistent(m), NEW cell \in Cell, ~IsDoor(m, cell), NEW cost \in Costs
  PROVE  Worn(SetCost(m, cell, cost), m.next_component_color, Cell)
<1>1. DoorsMatch(m) /\ m.next_component_color \in Nat /\ HasFields(m)
  BY DEF Consistent, WellFormed, HasFields
<1>2. CASE ~IsPassable(m, cell) /\ cost # PATH_COST_INFINITE
  <2>1. cell \notin NotWalls(m)
    BY <1>1, <1>2 DEF DoorsMatch, NotWalls
  <2>2. SetCost(m, cell, cost) = [WallToTransparent(m, cell) EXCEPT !.cost[cell] = cost]
    BY <1>2 DEF SetCost, IsPassable
  <2> QED
    BY <1>2, <2>1, <2>2, WallToTransparentWears
<1>3. CASE IsPassable(m, cell) /\ cost = PATH_COST_INFINITE
  <2>1. cell \in TransparentCells(m)
    BY <1>3 DEF TransparentCells, IsTransparent, IsPassable
  <2>2. PICK w : /\ w = TransparentToWall(m, cell)
                 /\ HasFields(w)
                 /\ Worn(w, m.next_component_color, Cell \ {cell})
    BY <2>1, TransparentToWallWears
  <2>3. PICK n : /\ n = SetPrice(w, cell, cost)
                 /\ n.color = w.color
                 /\ n.next_component_color = w.next_component_color
    BY <2>2, PriceColors
  <2>4. SetCost(m, cell, cost) = n
    BY <1>3, <2>2, <2>3 DEF SetCost, IsPassable, SetPrice
  <2> QED
    BY <2>2, <2>3, <2>4 DEF Worn
<1>4. CASE cost # PATH_COST_INFINITE <=> IsPassable(m, cell)
  <2>1. PICK n : /\ n = SetPrice(m, cell, cost)
                 /\ n.next_component_color = m.next_component_color
    BY <1>1, PriceColors
  <2>2. SetCost(m, cell, cost) = n
    BY <1>4, <2>1 DEF SetCost, IsPassable, SetPrice
  <2> QED
    BY <1>1, <2>1, <2>2, NoneTaken
<1> QED
  BY <1>2, <1>3, <1>4

\* One mutation, of any kind, in any state.
LEMMA MutateWears ==
  ASSUME NEW m, Consistent(m), NEW mutation \in Mutation
  PROVE  Worn(Mutate(m, mutation), m.next_component_color, Cell)
<1> DEFINE cell == mutation.cell
<1>1. /\ cell \in Cell /\ mutation.cost \in Costs
      /\ mutation.open \in BOOLEAN /\ mutation.door \in BOOLEAN
      /\ mutation.door => mutation.cost # PATH_COST_INFINITE
  BY DEF Mutation
<1>2. DoorsMatch(m) /\ m.next_component_color \in Nat
  BY DEF Consistent, WellFormed
<1>3. IsDoor(m, cell) <=> cell \in DOMAIN m.doors
  BY <1>1, <1>2 DEF DoorsMatch
<1>4. CASE IsDoor(m, cell) /\ mutation.door
  <2>1. Mutate(m, mutation) = UpdateDoor(m, cell, mutation.open, mutation.cost)
    BY <1>4 DEF Mutate
  <2>2. Mutate(m, mutation).next_component_color = m.next_component_color
    BY <1>1, <1>3, <1>4, <2>1, UpdateDoorGood
  <2> QED
    BY <1>2, <2>2, NoneTaken
<1>5. CASE IsDoor(m, cell) /\ ~mutation.door
  <2>1. Mutate(m, mutation) = RemoveDoor(m, cell, mutation.cost)
    BY <1>5 DEF Mutate
  <2> QED
    BY <1>1, <1>3, <1>5, <2>1, RemoveDoorWears
<1>6. CASE ~IsDoor(m, cell) /\ mutation.door
  <2>1. Mutate(m, mutation) = CreateDoor(m, cell, mutation.open, mutation.cost)
    BY <1>6 DEF Mutate
  <2> QED
    BY <1>1, <1>6, <2>1, CreateDoorWears
<1>7. CASE ~IsDoor(m, cell) /\ ~mutation.door
  <2>1. Mutate(m, mutation) = SetCost(m, cell, mutation.cost)
    BY <1>7 DEF Mutate
  <2> QED
    BY <1>1, <1>7, <2>1, SetCostWears
<1> QED
  BY <1>1, <1>4, <1>5, <1>6, <1>7

\* rebuild gives each of its colours to the first cell of an area.
LEMMA RebuildWears ==
  ASSUME NEW m, ReadyToRebuild(m)
  PROVE  Worn(Rebuild(m), 0, Cell)
<1> DEFINE G == ClearCells(m)
           F == Firsts(G)
<1>1. PICK n : Rebuild(m) = RegenerateDynamic(n) /\ Renumbered(m, n)
  BY RebuildFields DEF ReadyToRebuild
<1>2. /\ n.next_component_color = Cardinality(F)
      /\ \A c \in G : n.color[c] = RoomColor(G, c)
  BY <1>1 DEF Renumbered, RebuiltColor, ClearCells
<1>3. G \in SUBSET Cell /\ G \in SUBSET Nat /\ F \in SUBSET G /\ F \in SUBSET Nat
      /\ IsFiniteSet(F)
  BY CellAssumption, FS_Subset DEF Firsts, ClearCells
<1>4. ASSUME NEW c \in F PROVE c \in Cell /\ n.color[c] = Rank(F, c)
  <2>1. EdgesIn(G) \in SUBSET (G \X G)
    BY <1>3, EdgeFacts
  <2>2. c \in Areas(G)[c] /\ Areas(G)[c] \in SUBSET G
    BY <1>3, <2>1, ClassReflexive DEF Areas
  <2>3. \A d \in Areas(G)[c] : c <= d
    BY DEF Firsts
  <2>4. Least(Areas(G)[c]) = c
    <3>1. Areas(G)[c] \in SUBSET Nat /\ Areas(G)[c] # {}
      BY <1>3, <2>2
    <3>2. Least(Areas(G)[c]) \in Areas(G)[c]
          /\ \A y \in Areas(G)[c] : Least(Areas(G)[c]) <= y
      BY <3>1, LeastExists
    <3> QED
      BY <2>2, <2>3, <3>1, <3>2
  <2> QED
    BY <1>2, <1>3, <2>4 DEF RoomColor
<1> HIDE DEF F, G
<1>5. Worn(n, 0, Cell)
  <2> SUFFICES ASSUME NEW k \in 0..(Cardinality(F) - 1)
               PROVE  \E c \in Cell : n.color[c] = k
    BY <1>2 DEF Worn
  <2>1. PICK c \in F : Rank(F, c) = k
    BY <1>3, RankOnto
  <2> QED
    BY <1>4, <2>1
<1> QED
  BY <1>1, <1>5, RegenerateColors DEF Renumbered, Worn

\* Each component colour that a call of update takes, however it mutates or
\* rebuilds the map, is afterwards the colour of some cell.
THEOREM NeverColorWasted ==
  ASSUME EnoughColors, ClosedDoorsBlock
  PROVE  Spec => NoColorWasted
<1> DEFINE Used == \A k \in map.next_component_color..(map'.next_component_color - 1) :
                     \E c \in Cell : map'.color[c] = k
<1>1. IInv /\ [Next]_map => [Used]_map
  <2> SUFFICES ASSUME IInv, Next PROVE Used
    OBVIOUS
  <2>1. Consistent(map) /\ map.next_component_color \in Nat
    BY DEF IInv, Consistent, WellFormed
  <2>2. ASSUME NEW m, Consistent(m), map' = Rebuild(m) PROVE Used
    <3>1. Worn(map', 0, Cell) /\ Consistent(map')
      BY <2>2, ConsistentIsReady, RebuildWears, RebuildGood
    <3>2. map'.next_component_color \in Nat
      BY <3>1 DEF Consistent, WellFormed
    <3> QED
      BY <2>1, <3>1, <3>2 DEF Worn
  <2>3. ASSUME NEW mutation \in Mutation, UpdateIncremental(mutation)
        PROVE  Used
    BY <2>1, <2>3, MutateWears DEF UpdateIncremental, Worn
  <2>4. ASSUME NEW mutation \in Mutation, UpdateAndRebuild(mutation)
        PROVE  Used
    <3>1. Consistent(Mutate(map, mutation))
      BY <2>1, <2>4, MutateGood DEF UpdateAndRebuild, ColorsLeft
    <3> QED
      BY <2>2, <2>4, <3>1 DEF UpdateAndRebuild
  <2>5. CASE UpdateEmpty
    BY <2>1, <2>2, <2>5 DEF UpdateEmpty
  <2> QED
    BY <2>3, <2>4, <2>5 DEF Next
<1>2. Spec => []IInv
  BY Invariance
<1> QED
  BY <1>1, <1>2, PTL DEF Spec, NoColorWasted

(***************************************************************************)
(* A batch, one mutation at a time.                                        *)
(***************************************************************************)

\* The greatest of some integers.
LEMMA GreatestIs ==
  ASSUME NEW S \in SUBSET Int, NEW x \in S, \A y \in S : x >= y
  PROVE  Promise!Max(S) = x
<1>1. PICK z : /\ z = Promise!Max(S)
               /\ z \in S /\ \A y \in S : z >= y
  BY DEF Promise!Max
<1> QED
  BY <1>1

\* Some of the first numbers have a greatest.
LEMMA GreatestExists ==
  ASSUME NEW k \in Nat, NEW S \in SUBSET (1..k), S # {}
  PROVE  Promise!Max(S) \in S
<1> DEFINE U == {k - i : i \in S}
<1>a. \A i \in S : i \in Int /\ i <= k /\ k - i \in Nat
  OBVIOUS
<1>1. U \subseteq Nat /\ U # {}
  BY <1>a
<1>2. PICK u \in U : \A v \in U : u <= v
  <2> HIDE DEF U
  <2> QED
    BY <1>1, LeastExists
<1>3. PICK x \in S : u = k - x
  BY <1>2
<1>4. \A y \in S : x >= y
  <2> SUFFICES ASSUME NEW y \in S PROVE x >= y
    OBVIOUS
  <2>1. k - x <= k - y
    BY <1>2, <1>3
  <2> QED
    BY <1>a, <2>1
<1> QED
  BY <1>4, GreatestIs

\* Of no calls, a picture is left.
LEMMA AfterNone ==
  ASSUME NEW p, p = [c \in Cell |-> p[c]], NEW b
  PROVE  Promise!After(p, SubSeq(b, 1, 0)) = p
<1>1. SubSeq(b, 1, 0) = << >>
  BY SubSeqEmpty
<1>2. \A c \in Cell : {i \in DOMAIN << >> : << >>[i].cell = c} = {}
  OBVIOUS
<1> QED
  BY <1>1, <1>2 DEF Promise!After

Changed(picture, x) == [picture EXCEPT ![x.cell] = x.content]

\* One more call changes its cell.
LEMMA AfterOneMore ==
  ASSUME NEW p, NEW S, NEW b \in Seq(S), NEW n \in Nat, n < Len(b)
  PROVE  Promise!After(p, SubSeq(b, 1, n + 1))
           = Changed(Promise!After(p, SubSeq(b, 1, n)), b[n + 1])
<1> DEFINE calls(k, c) == {i \in 1..k : b[i].cell = c}
           after(k) == [c \in Cell |-> IF calls(k, c) = {} THEN p[c]
                                       ELSE b[Promise!Max(calls(k, c))].content]
<1>1. \A k \in Nat : k <= Len(b) => Promise!After(p, SubSeq(b, 1, k)) = after(k)
  <2> SUFFICES ASSUME NEW k \in Nat, k <= Len(b)
               PROVE  Promise!After(p, SubSeq(b, 1, k)) = after(k)
    OBVIOUS
  <2>1. PICK s : s = SubSeq(b, 1, k)
    OBVIOUS
  <2>2. /\ DOMAIN s = 1..k
        /\ \A i \in 1..k : s[i] = b[i]
    <3>1. \A i \in 1..k : b[i] \in S
      BY LenProperties
    <3>2. /\ s \in Seq(S) /\ Len(s) = k
          /\ \A i \in 1..k : s[i] = b[i]
      BY <2>1, <3>1, SubSeqProperties
    <3> QED
      BY <3>2, LenProperties
  <2>3. \A c \in Cell : {i \in DOMAIN s : s[i].cell = c} = calls(k, c)
    BY <2>2
  <2>4. \A c \in Cell : calls(k, c) # {} =>
          /\ Promise!Max(calls(k, c)) \in 1..k
          /\ s[Promise!Max(calls(k, c))] = b[Promise!Max(calls(k, c))]
    <3> SUFFICES ASSUME NEW c \in Cell, calls(k, c) # {}
                 PROVE  Promise!Max(calls(k, c)) \in 1..k
      BY <2>2
    <3>1. PICK T : T = calls(k, c) /\ T \in SUBSET (1..k) /\ T # {}
      OBVIOUS
    <3>2. Promise!Max(T) \in T
      BY <3>1, GreatestExists
    <3> QED
      BY <3>1, <3>2
  <2> QED
    BY <2>1, <2>3, <2>4 DEF Promise!After
<1>2. /\ Promise!After(p, SubSeq(b, 1, n)) = after(n)
      /\ Promise!After(p, SubSeq(b, 1, n + 1)) = after(n + 1)
  <2>1. Len(b) \in Nat
    BY LenProperties
  <2> HIDE DEF after
  <2> QED
    BY <1>1, <2>1
<1>3. ASSUME NEW c \in Cell
      PROVE  after(n + 1)[c] = IF c = b[n + 1].cell THEN b[n + 1].content ELSE after(n)[c]
  <2>1. CASE c = b[n + 1].cell
    <3>1. PICK T : T = calls(n + 1, c)
      OBVIOUS
    <3>2. T \in SUBSET Int /\ n + 1 \in T /\ \A y \in T : n + 1 >= y
      BY <2>1, <3>1
    <3>3. Promise!Max(T) = n + 1
      BY <3>2, GreatestIs
    <3> QED
      BY <2>1, <3>1, <3>2, <3>3
  <2>2. CASE c # b[n + 1].cell
    <3>1. calls(n + 1, c) = calls(n, c)
      BY <2>2
    <3> QED
      BY <2>2, <3>1
  <2> QED
    BY <2>1, <2>2
<1>4. /\ after(n) = [c \in Cell |-> after(n)[c]]
      /\ after(n + 1) = [c \in Cell |-> after(n + 1)[c]]
  OBVIOUS
<1> HIDE DEF after
<1>5. after(n + 1) = Changed(after(n), b[n + 1])
  BY <1>3, <1>4 DEF Changed
<1> QED
  BY <1>2, <1>5

(***************************************************************************)
(* The invariant of the views.                                             *)
(***************************************************************************)

\* What a view may share.
Sound(m) == Consistent(m) /\ m.next_component_color <= MaxColor /\ Blocked(m)

\* A call that runs: on a view that is kept, and in the middle of its batch.
CallRuns ==
  /\ call = [running |-> TRUE, of |-> call.of, batch |-> call.batch,
             incremental |-> call.incremental, done |-> call.done]
  /\ call.of \in DOMAIN view
  /\ call.batch \in Batch
  /\ call.done \in 0..Len(call.batch)
  /\ Sound(map)

ViewsInv ==
  /\ \A v \in DOMAIN view : Sound(view[v])
  /\ call = NoCall \/ CallRuns
  /\ PrefixShown

\* A call asks for changes, one per mutation.
Requests == {[cell |-> m.cell, content |-> Asked(m)] : m \in Mutation}

\* A batch asks for one change per mutation, in order.
LEMMA AskedBySeq ==
  ASSUME NEW batch \in Batch
  PROVE  /\ batch \in Seq(Mutation) /\ Len(batch) \in Nat
         /\ AskedBy(batch) \in Seq(Requests)
         /\ Len(AskedBy(batch)) = Len(batch)
         /\ \A i \in 1..Len(batch) : /\ batch[i] \in Mutation
                                     /\ AskedBy(batch)[i].cell = batch[i].cell
                                     /\ AskedBy(batch)[i].content = Asked(batch[i])
<1>1. batch \in Seq(Mutation)
  BY BatchAssumption
<1>2. /\ Len(batch) \in Nat /\ DOMAIN batch = 1..Len(batch)
      /\ \A i \in 1..Len(batch) : batch[i] \in Mutation
  BY <1>1, LenProperties
<1>3. AskedBy(batch) = [i \in 1..Len(batch) |->
                          [cell |-> batch[i].cell, content |-> Asked(batch[i])]]
  BY <1>2 DEF AskedBy
<1>4. AskedBy(batch) \in [1..Len(batch) -> Requests]
  BY <1>2, <1>3 DEF Requests
<1>5. AskedBy(batch) \in Seq(Requests) /\ Len(AskedBy(batch)) = Len(batch)
  <2>1. AskedBy(batch) \in Seq(Requests)
    BY <1>2, <1>4, SeqDef
  <2>2. DOMAIN AskedBy(batch) = 1..Len(AskedBy(batch)) /\ Len(AskedBy(batch)) \in Nat
    BY <2>1, LenProperties
  <2>3. DOMAIN AskedBy(batch) = 1..Len(batch)
    BY <1>3
  <2>4. \A i \in Int : 1 <= i /\ i <= Len(AskedBy(batch)) <=> 1 <= i /\ i <= Len(batch)
    BY <1>2, <2>2, <2>3
  <2>5. Len(AskedBy(batch)) = Len(batch)
    <3>1. PICK a \in Nat, b \in Nat : a = Len(AskedBy(batch)) /\ b = Len(batch)
      BY <1>2, <2>2
    <3>2. /\ 1 <= a /\ a <= a <=> 1 <= a /\ a <= b
          /\ 1 <= b /\ b <= a <=> 1 <= b /\ b <= b
      BY <2>4, <3>1
    <3> QED
      BY <3>1, <3>2
  <2> QED
    BY <2>1, <2>5
<1> QED
  BY <1>1, <1>2, <1>3, <1>5

\* A sound map stays sound through a mutation and through a rebuild.
LEMMA MutateSound ==
  ASSUME NEW m, Sound(m), NEW mutation \in Mutation,
         m.next_component_color + Len(Adjacent[mutation.cell]) < MaxColor,
         m.next_door_color >= COLOR_LOWEST_VALID
  PROVE  /\ Sound(Mutate(m, mutation))
         /\ Shown(Mutate(m, mutation))
              = [Shown(m) EXCEPT ![mutation.cell] = Asked(mutation)]
<1>1. Consistent(m) /\ Blocked(m)
  BY DEF Sound
<1>2. /\ m.next_component_color \in Nat
      /\ Len(Adjacent[mutation.cell]) \in Nat
      /\ MaxColor \in Nat
  BY <1>1, AdjacentAssumption, ColorAssumption DEF Consistent, WellFormed, Mutation
<1>3. PICK n : /\ n = Mutate(m, mutation)
               /\ Consistent(n)
               /\ \/ n.next_component_color <=
                       m.next_component_color + Len(Adjacent[mutation.cell])
                  \/ n.next_component_color <= m.next_component_color + 1
  BY <1>1, MutateGood
<1>4. n.next_component_color \in Nat
  BY <1>3 DEF Consistent, WellFormed
<1>5. n.next_component_color <= MaxColor
  BY <1>2, <1>3, <1>4
<1>6. /\ Blocked(n)
      /\ Shown(n) = [Shown(m) EXCEPT ![mutation.cell] = Asked(mutation)]
  BY <1>1, <1>3, MutateShown
<1> QED
  BY <1>3, <1>5, <1>6 DEF Sound

\* A rebuild shows what the map showed.
LEMMA RebuildSound ==
  ASSUME EnoughColors, NEW m, Sound(m)
  PROVE  Sound(Rebuild(m)) /\ Shown(Rebuild(m)) = Shown(m)
<1>1. /\ Consistent(Rebuild(m)) /\ Rebuild(m).next_component_color <= MaxColor
      /\ Rebuild(m).cost = m.cost /\ Rebuild(m).doors = m.doors
  BY ConsistentIsReady, RebuildGood DEF Sound
<1> QED
  BY <1>1 DEF Sound, Blocked, Shown

\* A turn of the loop of update.
LEMMA ApplyOneShows ==
  ASSUME ViewsInv, ApplyOne
  PROVE  /\ CallRuns'
         /\ view' = view
         /\ PrefixShown'
         /\ call'.of = call.of /\ call'.batch = call.batch /\ call'.running
<1>1. /\ CallRuns /\ PrefixShown /\ call.running
      /\ call.done < Len(call.batch)
  BY DEF ViewsInv, ApplyOne, NoCall
<1>2. PICK n, batch, picture, mutation, b :
        /\ n = call.done /\ batch = call.batch
        /\ picture = Shown(view[call.of])
        /\ mutation = batch[n + 1]
        /\ b = AskedBy(batch)
  OBVIOUS
<1>3. /\ batch \in Batch /\ n \in Nat /\ n < Len(batch) /\ Sound(map)
      /\ Len(batch) \in Nat
  BY <1>1, <1>2, AskedBySeq DEF CallRuns
<1>4. /\ b \in Seq(Requests) /\ Len(b) = Len(batch) /\ n < Len(b)
      /\ mutation \in Mutation
      /\ b[n + 1].cell = mutation.cell /\ b[n + 1].content = Asked(mutation)
  BY <1>2, <1>3, AskedBySeq
<1>5. /\ Sound(map')
      /\ Shown(map') = [Shown(map) EXCEPT ![mutation.cell] = Asked(mutation)]
  BY <1>2, <1>3, <1>4, MutateSound DEF ApplyOne, UpdateIncremental, ColorsLeft
<1>6. Shown(map) = Promise!After(picture, SubSeq(b, 1, n))
  BY <1>1, <1>2 DEF PrefixShown
<1>7. Promise!After(picture, SubSeq(b, 1, n + 1))
        = Changed(Promise!After(picture, SubSeq(b, 1, n)), b[n + 1])
  BY <1>3, <1>4, AfterOneMore
<1>8. Shown(map') = Promise!After(picture, SubSeq(b, 1, n + 1))
  BY <1>4, <1>5, <1>6, <1>7 DEF Changed
<1>9. /\ view' = view
      /\ call' = [running |-> TRUE, of |-> call.of, batch |-> call.batch,
                  incremental |-> call.incremental, done |-> n + 1]
  <2>1. call' = [call EXCEPT !.done = n + 1]
    BY <1>2 DEF ApplyOne
  <2>2. call = [running |-> TRUE, of |-> call.of, batch |-> call.batch,
                incremental |-> call.incremental, done |-> call.done]
    BY <1>1 DEF CallRuns
  <2> QED
    BY <2>1, <2>2 DEF ApplyOne
<1>10. /\ call'.running /\ call'.of = call.of /\ call'.batch = call.batch
       /\ call'.done = n + 1 /\ call'.incremental = call.incremental
  BY <1>9
<1>11. CallRuns'
  BY <1>1, <1>2, <1>3, <1>5, <1>9, <1>10 DEF CallRuns
<1>12. PrefixShown'
  BY <1>2, <1>8, <1>9, <1>10 DEF PrefixShown
<1> QED
  BY <1>9, <1>10, <1>11, <1>12

(***************************************************************************)
(* Every step keeps the invariant, and is a step of Worlds or none at all. *)
(***************************************************************************)

\* What Worlds sees.
World == [v \in DOMAIN view |-> Shown(view[v])]

Showing(v, picture) ==
  [u \in DOMAIN World \cup {v} |-> IF u = v THEN picture ELSE World[u]]

Request == [picture |-> Shown(view[call.of]), batch |-> AskedBy(call.batch)]

\* The other views, and the call, as they were.
Assigned(v, m) ==
  /\ DOMAIN view' = DOMAIN view \cup {v}
  /\ view'[v] = m
  /\ \A u \in DOMAIN view \ {v} : view'[u] = view[u]

\* A variable that a view is assigned to shows its map, the others what they did.
LEMMA AssignKeeps ==
  ASSUME NEW v, NEW m, Assign(v, m)
  PROVE  /\ Assigned(v, m)
         /\ World' = Showing(v, Shown(m))
<1>1. Assigned(v, m)
  BY DEF Assign, Assigned
<1>2. /\ DOMAIN World = DOMAIN view /\ DOMAIN World' = DOMAIN view'
      /\ \A u \in DOMAIN view : World[u] = Shown(view[u])
      /\ \A u \in DOMAIN view' : World'[u] = Shown(view'[u])
      /\ World' = [u \in DOMAIN World' |-> World'[u]]
  BY DEF World
<1> QED
  BY <1>1, <1>2 DEF Assigned, Showing

\* What runs while a view is assigned to that the call is not of.
LEMMA OthersRun ==
  ASSUME ViewsInv, UNCHANGED <<map, call>>,
         call.running => /\ call.of \in DOMAIN view'
                         /\ view'[call.of] = view[call.of]
  PROVE  /\ call' = NoCall \/ CallRuns'
         /\ PrefixShown'
         /\ call.running => Request' = Request
BY DEF ViewsInv, CallRuns, PrefixShown, Request, NoCall

\* No view, no call.
LEMMA ViewsInitSound ==
  ASSUME ViewsInit
  PROVE  ViewsInv
BY DEF ViewsInit, ViewsInv, NoCall, PrefixShown

\* A view of a new map shows what the builder made.
LEMMA ConstructSound ==
  ASSUME EnoughColors, ClosedDoorsBlock, ViewsInv, NEW v \in View \ DOMAIN view,
         Construct(v)
  PROVE  /\ ViewsInv'
         /\ call.running => Request' = Request
         /\ \E picture \in [Cell -> Contents] : World' = Showing(v, picture)
<1>1. PICK places \in SUBSET Cell :
        \E terrain \in [Cell \ places -> Costs], doors \in [places -> BuiltDoor] :
          Assign(v, Rebuild(Built(terrain, doors)))
  BY DEF Construct
<1>2. PICK terrain \in [Cell \ places -> Costs], doors \in [places -> BuiltDoor] :
        Assign(v, Rebuild(Built(terrain, doors)))
  BY <1>1
<1>3. PICK m : /\ m = Rebuild(Built(terrain, doors))
               /\ Sound(m)
               /\ m.cost = [c \in Cell |-> IF c \in places THEN CostOf(doors[c])
                                           ELSE terrain[c]]
               /\ m.doors = doors
  BY BuiltShows DEF Sound
<1>4. /\ Assigned(v, m)
      /\ World' = Showing(v, Shown(m))
  <2>1. Assign(v, m)
    BY <1>2, <1>3
  <2> QED
    BY <2>1, AssignKeeps
<1>5. \A c \in Cell : Shown(m)[c] \in Contents
  <2> SUFFICES ASSUME NEW c \in Cell PROVE Shown(m)[c] \in Contents
    OBVIOUS
  <2>1. Shown(m)[c] = [cost |-> m.cost[c],
                       door |-> {m.doors[d] : d \in DOMAIN m.doors \cap {c}}]
    BY DEF Shown
  <2>2. DOMAIN m.doors = places
    BY <1>3
  <2>3. CASE c \in places
    <3>1. /\ {m.doors[d] : d \in DOMAIN m.doors \cap {c}} = {doors[c]}
          /\ m.cost[c] = CostOf(doors[c])
          /\ doors[c] \in BuiltDoor
      BY <1>3, <2>2, <2>3
    <3> QED
      BY <2>1, <3>1 DEF Contents
  <2>4. CASE c \notin places
    <3>1. /\ {m.doors[d] : d \in DOMAIN m.doors \cap {c}} = {}
          /\ m.cost[c] \in Costs
      BY <1>3, <2>2, <2>4
    <3> QED
      BY <2>1, <3>1 DEF Contents
  <2> QED
    BY <2>3, <2>4
<1>6. Shown(m) \in [Cell -> Contents]
  BY <1>5 DEF Shown
<1>7. \A u \in DOMAIN view' : Sound(view'[u])
  BY <1>3, <1>4 DEF Assigned, ViewsInv
<1>8. /\ call' = NoCall \/ CallRuns'
      /\ PrefixShown'
      /\ call.running => Request' = Request
  <2>1. UNCHANGED <<map, call>>
    BY DEF Construct
  <2>2. call.running => /\ call.of \in DOMAIN view'
                        /\ view'[call.of] = view[call.of]
    BY <1>4 DEF Assigned, ViewsInv, CallRuns, NoCall
  <2> QED
    BY <2>1, <2>2, OthersRun
<1> QED
  BY <1>4, <1>6, <1>7, <1>8 DEF ViewsInv

\* A copy shows what its original does.
LEMMA CopySound ==
  ASSUME ViewsInv, NEW v \in View, NEW u \in DOMAIN view, Copy(v, u)
  PROVE  /\ ViewsInv'
         /\ call.running => Request' = Request
         /\ World' = Showing(v, World[u])
<1>1. PICK m : m = view[u] /\ Assign(v, m) /\ Sound(m) /\ Shown(m) = World[u]
  BY DEF Copy, ViewsInv, World
<1>2. Assigned(v, m) /\ World' = Showing(v, Shown(m))
  BY <1>1, AssignKeeps
<1>3. \A x \in DOMAIN view' : Sound(view'[x])
  BY <1>1, <1>2 DEF Assigned, ViewsInv
<1>4. /\ call' = NoCall \/ CallRuns'
      /\ PrefixShown'
      /\ call.running => Request' = Request
  <2>1. UNCHANGED <<map, call>> /\ (call.running => v # call.of)
    BY DEF Copy, Free
  <2>2. call.running => /\ call.of \in DOMAIN view'
                        /\ view'[call.of] = view[call.of]
    BY <1>2, <2>1 DEF Assigned, ViewsInv, CallRuns, NoCall
  <2> QED
    BY <2>1, <2>2, OthersRun
<1> QED
  BY <1>1, <1>2, <1>3, <1>4 DEF ViewsInv

\* A view that goes takes no other with it.
LEMMA DropSound ==
  ASSUME ViewsInv, NEW v \in DOMAIN view, Drop(v)
  PROVE  /\ ViewsInv'
         /\ call.running => Request' = Request
         /\ World' = [u \in DOMAIN World \ {v} |-> World[u]]
<1>1. /\ DOMAIN view' = DOMAIN view \ {v}
      /\ \A u \in DOMAIN view' : view'[u] = view[u]
  BY DEF Drop
<1>2. World' = [u \in DOMAIN World \ {v} |-> World[u]]
  BY <1>1 DEF World
<1>3. \A x \in DOMAIN view' : Sound(view'[x])
  BY <1>1 DEF ViewsInv
<1>4. /\ call' = NoCall \/ CallRuns'
      /\ PrefixShown'
      /\ call.running => Request' = Request
  <2>1. UNCHANGED <<map, call>> /\ (call.running => v # call.of)
    BY DEF Drop, Free
  <2>2. call.running => /\ call.of \in DOMAIN view'
                        /\ view'[call.of] = view[call.of]
    BY <1>1, <2>1 DEF ViewsInv, CallRuns, NoCall
  <2> QED
    BY <2>1, <2>2, OthersRun
<1> QED
  BY <1>2, <1>3, <1>4 DEF ViewsInv

\* A call starts from what its view shows, with no change made.
LEMMA BeginApplySound ==
  ASSUME ViewsInv, NEW v \in DOMAIN view, NEW batch \in Batch,
         NEW incremental \in BOOLEAN, BeginApply(v, batch, incremental)
  PROVE  /\ ViewsInv'
         /\ ~call.running /\ call'.running
         /\ Request' = [picture |-> World[v], batch |-> AskedBy(batch)]
         /\ World' = World
<1>1. /\ ~call.running /\ map' = view[v] /\ view' = view
      /\ call' = [running |-> TRUE, of |-> v, batch |-> batch,
                  incremental |-> incremental, done |-> 0]
  BY DEF BeginApply, Call
<1>2. /\ call'.running /\ call'.of = v /\ call'.batch = batch
      /\ call'.incremental = incremental /\ call'.done = 0
  BY <1>1
<1>3. CallRuns'
  <2>1. Len(batch) \in Nat
    BY AskedBySeq
  <2> QED
    BY <1>1, <1>2, <2>1 DEF CallRuns, ViewsInv
<1>4. PrefixShown'
  <2>1. PICK p : p = Shown(view[v])
    OBVIOUS
  <2>2. p = [c \in Cell |-> p[c]]
    BY <2>1 DEF Shown
  <2>3. Promise!After(p, SubSeq(AskedBy(batch), 1, 0)) = p
    BY <2>2, AfterNone
  <2> QED
    BY <1>1, <1>2, <2>1, <2>3 DEF PrefixShown
<1>5. Request' = [picture |-> World[v], batch |-> AskedBy(batch)] /\ World' = World
  BY <1>1, <1>2 DEF Request, World
<1> QED
  BY <1>1, <1>2, <1>3, <1>4, <1>5 DEF ViewsInv

\* A call ends with every change made, rebuilt or not.
LEMMA EndApplySound ==
  ASSUME EnoughColors, ViewsInv, NEW v \in View, EndApply(v)
  PROVE  /\ ViewsInv'
         /\ call.running /\ ~call'.running
         /\ World' = Showing(v, Promise!After(Request.picture, Request.batch))
<1>1. /\ call.running /\ CallRuns /\ PrefixShown
      /\ call.done = Len(call.batch)
      /\ call' = NoCall
  BY DEF EndApply, ViewsInv, NoCall
<1>2. PICK m : /\ m = (IF call.incremental THEN map ELSE Rebuild(map))
               /\ Assign(v, m) /\ Sound(m) /\ Shown(m) = Shown(map)
  BY <1>1, RebuildSound DEF EndApply, CallRuns
<1>3. Assigned(v, m) /\ World' = Showing(v, Shown(m))
  BY <1>2, AssignKeeps
<1>4. PICK b : b = AskedBy(call.batch)
  OBVIOUS
<1>5. SubSeq(b, 1, Len(call.batch)) = b
  <2>1. b \in Seq(Requests) /\ Len(b) = Len(call.batch)
    BY <1>1, <1>4, AskedBySeq DEF CallRuns
  <2> QED
    BY <2>1
<1>6. Shown(m) = Promise!After(Request.picture, Request.batch)
  <2>1. Request.picture = Shown(view[call.of]) /\ Request.batch = b
    BY <1>4 DEF Request
  <2> QED
    BY <1>1, <1>2, <1>4, <1>5, <2>1 DEF PrefixShown
<1>7. ViewsInv'
  <2>1. \A x \in DOMAIN view' : Sound(view'[x])
    BY <1>2, <1>3 DEF Assigned, ViewsInv
  <2> QED
    BY <1>1, <2>1 DEF ViewsInv, PrefixShown, NoCall
<1> QED
  BY <1>1, <1>3, <1>6, <1>7 DEF NoCall

\* One step, in both specifications.
LEMMA ViewsStep ==
  ASSUME EnoughColors, ClosedDoorsBlock, ViewsInv, [ViewsNext]_vars
  PROVE  ViewsInv' /\ [Promise!Next]_(Promise!vars)
<1> DEFINE asked == IF call.running
                    THEN {[picture |-> Shown(view[call.of]), batch |-> AskedBy(call.batch)]}
                    ELSE {}
<1>1. asked = IF call.running THEN {Request} ELSE {}
  BY DEF Request
<1>2. asked' = IF call'.running THEN {Request'} ELSE {}
  BY DEF Request
<1>3. ASSUME NEW v \in View \ DOMAIN view, Construct(v)
      PROVE  ViewsInv' /\ Promise!Construct
  <2>1. PICK picture \in [Cell -> Contents] : World' = Showing(v, picture)
    BY <1>3, ConstructSound
  <2>2. call' = call /\ ViewsInv' /\ (call.running => Request' = Request)
    BY <1>3, ConstructSound DEF Construct
  <2>3. asked' = asked
    <3> HIDE DEF asked
    <3> QED
      BY <1>1, <1>2, <2>2
  <2>4. v \in View \ DOMAIN World
    BY DEF World
  <2> QED
    BY <2>1, <2>2, <2>3, <2>4 DEF Promise!Construct, Promise!Show, Showing, World
<1>4. ASSUME NEW v \in View, NEW u \in DOMAIN view, Copy(v, u)
      PROVE  ViewsInv' /\ Promise!Copy
  <2>1. World' = Showing(v, World[u]) /\ u \in DOMAIN World
    BY <1>4, CopySound DEF World
  <2>2. call' = call /\ ViewsInv' /\ (call.running => Request' = Request)
    BY <1>4, CopySound DEF Copy
  <2>3. asked' = asked
    <3> HIDE DEF asked
    <3> QED
      BY <1>1, <1>2, <2>2
  <2> QED
    BY <2>1, <2>2, <2>3 DEF Promise!Copy, Promise!Show, Showing, World
<1>5. ASSUME NEW v \in DOMAIN view, Drop(v)
      PROVE  ViewsInv' /\ Promise!Drop
  <2>1. World' = [u \in DOMAIN World \ {v} |-> World[u]] /\ v \in DOMAIN World
    BY <1>5, DropSound DEF World
  <2>2. call' = call /\ ViewsInv' /\ (call.running => Request' = Request)
    BY <1>5, DropSound DEF Drop
  <2>3. asked' = asked
    <3> HIDE DEF asked
    <3> QED
      BY <1>1, <1>2, <2>2
  <2> QED
    BY <2>1, <2>2, <2>3 DEF Promise!Drop, World
<1>6. ASSUME NEW v \in DOMAIN view, NEW batch \in Batch,
             NEW incremental \in BOOLEAN, BeginApply(v, batch, incremental)
      PROVE  ViewsInv' /\ Promise!Ask
  <2>1. /\ ViewsInv' /\ World' = World /\ v \in DOMAIN World
        /\ ~call.running /\ call'.running
        /\ Request' = [picture |-> World[v], batch |-> AskedBy(batch)]
    BY <1>6, BeginApplySound DEF World
  <2>2. asked = {} /\ asked' = {[picture |-> World[v], batch |-> AskedBy(batch)]}
    <3> HIDE DEF asked
    <3> QED
      BY <1>1, <1>2, <2>1
  <2> QED
    BY <2>1, <2>2 DEF Promise!Ask, World
<1>7. ASSUME ApplyOne
      PROVE  ViewsInv' /\ UNCHANGED Promise!vars
  <2>1. /\ CallRuns' /\ PrefixShown' /\ view' = view
        /\ call'.of = call.of /\ call'.batch = call.batch /\ call'.running
    BY <1>7, ApplyOneShows
  <2>2. call.running
    BY <1>7 DEF ApplyOne
  <2>3. ViewsInv'
    BY <2>1 DEF ViewsInv
  <2> QED
    BY <2>1, <2>2, <2>3 DEF Promise!vars
<1>8. ASSUME NEW v \in View, EndApply(v)
      PROVE  ViewsInv' /\ Promise!Answer
  <2>1. /\ ViewsInv' /\ call.running /\ ~call'.running
        /\ World' = Showing(v, Promise!After(Request.picture, Request.batch))
    BY <1>8, EndApplySound
  <2>2. asked = {Request} /\ asked' = {}
    <3> HIDE DEF asked
    <3> QED
      BY <1>1, <1>2, <2>1
  <2> QED
    BY <2>1, <2>2 DEF Promise!Answer, Promise!Show, Showing, World
<1>9. CASE UNCHANGED vars
  <2>1. view' = view /\ call' = call /\ map' = map
    BY <1>9 DEF vars
  <2> QED
    BY <2>1 DEF ViewsInv, CallRuns, PrefixShown, Promise!vars
<1> QED
  BY <1>3, <1>4, <1>5, <1>6, <1>7, <1>8, <1>9 DEF ViewsNext, Promise!Next

(***************************************************************************)
(* The theorems.                                                           *)
(***************************************************************************)

\* Each map that a view shares is consistent, whatever threads do with other
\* views, and so is the copy a call of apply works on, which shows its batch up to
\* where the call is.
THEOREM ViewsInvariance ==
  ASSUME EnoughColors, ClosedDoorsBlock
  PROVE  ViewsSpec => []ViewsInv
<1>1. ViewsInit => ViewsInv
  BY ViewsInitSound
<1>2. ViewsInv /\ [ViewsNext]_vars => ViewsInv'
  BY ViewsStep
<1> QED
  BY <1>1, <1>2, PTL DEF ViewsSpec

\* In the middle of a batch, what has been made shows the last call for each cell
\* so far.
THEOREM PrefixAlwaysShown ==
  ASSUME EnoughColors, ClosedDoorsBlock
  PROVE  ViewsSpec => []PrefixShown
<1>1. ViewsInv => PrefixShown
  BY DEF ViewsInv
<1> QED
  BY <1>1, ViewsInvariance, PTL

\* MapView and apply keep the promise of Worlds: a view is an unchanging picture,
\* and a batch makes a new one by the last call for each cell.
THEOREM ViewsAlwaysShowWorlds ==
  ASSUME EnoughColors, ClosedDoorsBlock
  PROVE  ViewsSpec => ViewsShowWorlds
<1>1. ViewsInit => Promise!Init
  <2> SUFFICES ASSUME ViewsInit PROVE Promise!Init
    OBVIOUS
  <2>1. DOMAIN view = {} /\ ~call.running
    BY DEF ViewsInit, NoCall
  <2> QED
    BY <2>1 DEF Promise!Init
<1>2. ViewsInv /\ [ViewsNext]_vars => [Promise!Next]_(Promise!vars)
  BY ViewsStep
<1> QED
  BY <1>1, <1>2, ViewsInvariance, PTL DEF ViewsSpec, ViewsShowWorlds, Promise!Spec

\* What a view answers depends only on the picture it shows: not on how its map
\* came to be, nor on the colours that its history left.
THEOREM ViewsAlwaysAnswer ==
  ASSUME EnoughColors, ClosedDoorsBlock
  PROVE  ViewsSpec => []ViewsAnswer
<1>1. ViewsInv => ViewsAnswer
  <2> SUFFICES ASSUME ViewsInv, NEW v \in DOMAIN view
               PROVE  LET shown    == Shown(view[v])
                          passable == {c \in Cell : shown[c].cost # PATH_COST_INFINITE}
                          area     == Areas(passable)
                      IN  Queries(v) = [is_passable |-> passable,
                                        is_door     |-> {c \in Cell : shown[c].door # {}},
                                        path_exists |-> UNION {{a} \X area[a] : a \in passable}]
    BY DEF ViewsAnswer
  <2>1. PICK m, shown : /\ m = view[v] /\ shown = Shown(m)
                        /\ Consistent(m) /\ DoorsMatch(m)
    BY DEF ViewsInv, Sound, Consistent
  <2>2. \A c \in Cell : /\ shown[c].cost = m.cost[c]
                        /\ shown[c].door # {} <=> c \in DOMAIN m.doors
    BY <2>1 DEF Shown
  <2> DEFINE passable == {c \in Cell : shown[c].cost # PATH_COST_INFINITE}
             area == Areas(passable)
             doors == {c \in Cell : shown[c].door # {}}
  <2>3. passable = PassableCells(m) /\ \A c \in Cell : IsPassable(m, c) <=> c \in passable
    BY <2>2 DEF PassableCells, IsPassable
  <2>4. {c \in Cell : IsPassable(m, c)} = passable
    BY <2>3
  <2>5. {c \in Cell : IsDoor(m, c)} = doors
    BY <2>1, <2>2 DEF DoorsMatch
  <2>6. {e \in Cell \X Cell : PathExists(m, e[1], e[2])}
          = UNION {{a} \X area[a] : a \in passable}
    <3>1. passable \in SUBSET Cell
      OBVIOUS
    <3> HIDE DEF passable
    <3>2. \A a \in passable : area[a] \subseteq passable
      BY ClassReflexive DEF Areas
    <3>3. \A a, b \in Cell : PathExists(m, a, b) <=> a \in passable /\ b \in area[a]
      BY <2>1, <2>3, PathExistsCompares
    <3> HIDE DEF area
    <3> QED
      BY <3>1, <3>2, <3>3
  <2>7. Queries(v) = [is_passable |-> passable,
                      is_door     |-> doors,
                      path_exists |-> UNION {{a} \X area[a] : a \in passable}]
    <3> HIDE DEF passable, doors, area
    <3> QED
      BY <2>1, <2>4, <2>5, <2>6 DEF Queries
  <2> QED
    BY <2>1, <2>7
<1> QED
  BY <1>1, ViewsInvariance, PTL
=============================================================================
