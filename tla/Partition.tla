------------------------------ MODULE Partition ------------------------------
(***************************************************************************)
(* What util::UnionFind<int_least32_t> promises to MapImpl: a partition of *)
(* the colours it has seen, each class with one representative.  A         *)
(* partition is a function from the colours to their representatives, so   *)
(* static_component.at(k) is static_component[k].                          *)
(*                                                                         *)
(* Which member represents a class depends, in the code, on ranks and on   *)
(* the order of the calls; MapImpl only compares representatives, and here *)
(* the choice is an arbitrary but fixed one.                               *)
(***************************************************************************)
EXTENDS Connectivity

\* UnionFind(): no elements.
EmptyPartition == [k \in {} |-> k]

IsPartition(uf) ==
  /\ uf \in [DOMAIN uf -> DOMAIN uf]
  /\ \A k \in DOMAIN uf : uf[uf[k]] = uf[k]

Representatives(uf) == {uf[k] : k \in DOMAIN uf}

\* operator[]: finds k, or adds it as a class of its own.
Touch(uf, k) ==
  [j \in DOMAIN uf \cup {k} |-> IF j \in DOMAIN uf THEN uf[j] ELSE k]

\* The member that stands for a class.
Representative(S) == CHOOSE s \in S : TRUE

\* union_sets(a, b) for every pair <<a, b>> of links, in any order.
Unite(uf, links) ==
  LET joined == {<<uf[e[1]], uf[e[2]]>> : e \in links}
      ends   == {e[1] : e \in joined} \cup {e[2] : e \in joined}
      class  == Classes(ends, joined)
      merged == [r \in ends |-> Representative(class[r])]
  IN  [k \in DOMAIN uf |-> IF uf[k] \in ends THEN merged[uf[k]] ELSE uf[k]]
=============================================================================
