---------------------------- MODULE Connectivity ----------------------------
(***************************************************************************)
(* Connectivity in an undirected graph, stated without recursion: two      *)
(* vertices are linked when no saturated set -- a set that no edge         *)
(* leaves -- separates them.  The maps of suncatcher use it three times:   *)
(* for the areas a flood fill colours, for the classes a union-find        *)
(* merges, and for what "there is a path" means.                           *)
(*                                                                         *)
(* An edge is a pair of vertices; its direction does not matter.           *)
(***************************************************************************)
EXTENDS Integers, FiniteSets

\* S is not left by any edge of E.
IsSaturated(S, E) == \A e \in E : e[1] \in S <=> e[2] \in S

Saturated(V, E) == {S \in SUBSET V : IsSaturated(S, E)}

\* For each vertex of V, the vertices that the edges E connect to it.
Classes(V, E) ==
  LET saturated == Saturated(V, E)
  IN  [x \in V |-> {y \in V : \A S \in saturated : x \in S => y \in S}]

\* The function label names the classes: the ends of an edge have one label, and
\* no saturated set separates two vertices of one label.
Labels(V, E, label) ==
  /\ \A e \in E : label[e[1]] = label[e[2]]
  /\ \A S \in Saturated(V, E) :
       \A a, b \in V : label[a] = label[b] /\ a \in S => b \in S

\* The number of members of S below x: the position at which a loop over S in
\* increasing order meets x, counted from 0.
Rank(S, x) == Cardinality({y \in S : y < x})

\* The least member of a nonempty set of naturals.
Least(S) == CHOOSE x \in S : \A y \in S : x <= y
=============================================================================
