----------------------------- MODULE MCDelegates -----------------------------
(***************************************************************************)
(* Two graphs, two domains and three iterators, of which the range-for     *)
(* uses one domain and two iterators; no more objects than there are       *)
(* addresses.                                                              *)
(***************************************************************************)
EXTENDS Delegates, FiniteSets, TLC

MCIteratorClass ==
  [i \in Iterator |-> IF i \in {First, Last} THEN DomainIterator
                      ELSE [DomainIterator EXCEPT !.traversal = incrementable]]

\* The graphs, and the states, are interchangeable.
Symmetry == Permutations(Graph) \cup Permutations(State)

\* States that differ only in where their objects are have the same future.
UpToAddresses ==
  <<[h \in Living |-> {<<heap[a], a \in grids>> : a \in holds[h] \cap DOMAIN heap}],
    {<<h, k>> \in Living \X Living : holds[h] = holds[k]},
    Cardinality(DOMAIN heap), Cardinality(grids), loop>>
=============================================================================
