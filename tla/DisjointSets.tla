---------------------------- MODULE DisjointSets ----------------------------
(***************************************************************************)
(* boost::disjoint_sets, the forest behind util::UnionFind, over a table   *)
(* of parents and a table of ranks.  It is not part of suncatcher.         *)
(***************************************************************************)
EXTENDS Integers, FiniteSets

\* The ids find_set visits from i on.
Path(parent) ==
  LET path[i \in DOMAIN parent] ==
        {i} \cup (IF parent[i] = i THEN {} ELSE path[parent[i]])
  IN  path

Root(parent) ==
  LET root[i \in DOMAIN parent] ==
        IF parent[i] = i THEN i ELSE root[parent[i]]
  IN  root

\* find_set(i): every id it visits is left pointing at the root.
Compress(parent, i) ==
  [j \in DOMAIN parent |->
     IF j \in Path(parent)[i] THEN Root(parent)[i] ELSE parent[j]]

\* link_sets, on two roots: the one of lower rank points at the other.
Link(parent, rank, i, j) ==
  IF i = j THEN [parent |-> parent, rank |-> rank]
  ELSE IF rank[i] > rank[j]
    THEN [parent |-> [parent EXCEPT ![j] = i], rank |-> rank]
    ELSE [parent |-> [parent EXCEPT ![i] = j],
          rank   |-> IF rank[i] = rank[j] THEN [rank EXCEPT ![j] = @ + 1]
                                          ELSE rank]

\* union_set(i, j), then find_set(i).
UnionSet(parent, rank, i, j) ==
  LET found  == Compress(Compress(parent, i), j)
      linked == Link(found, rank, Root(found)[i], Root(found)[j])
  IN  [linked EXCEPT !.parent = Compress(@, i)]
=============================================================================
