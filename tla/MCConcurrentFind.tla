-------------------------- MODULE MCConcurrentFind --------------------------
(***************************************************************************)
(* ConcurrentFind from every forest that unions of N elements leave.       *)
(***************************************************************************)
EXTENDS ConcurrentFind, FiniteSets

CONSTANT N

Sets == INSTANCE DisjointSets

MCId == 0..(N - 1)

Apart == [parent |-> [i \in MCId |-> i], rank |-> [i \in MCId |-> 0]]

\* The tables after at most n unions.
After[n \in 0..N] ==
  IF n = 0 THEN {Apart}
  ELSE After[n - 1] \cup
         {Sets!UnionSet(s.parent, s.rank, e[1], e[2]) :
            s \in After[n - 1], e \in MCId \X MCId}

MCForest ==
  {[parent |-> s.parent, rank |-> s.rank, root |-> Sets!Root(s.parent)] : s \in After[N - 1]}
=============================================================================
