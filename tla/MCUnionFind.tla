----------------------------- MODULE MCUnionFind -----------------------------
(***************************************************************************)
(* UnionFind on a few objects, made empty or of one or two elements.       *)
(***************************************************************************)
EXTENDS UnionFind, TLC

MCLists == {l \in UNION {[1..n -> Elem] : n \in 1..2} : IsInjective(l)}

\* Names of objects, elements and buffers are interchangeable.
Symmetry == Permutations(Object) \cup Permutations(Elem) \cup Permutations(Buffer)
=============================================================================
