------------------------------- MODULE MCViews -------------------------------
(***************************************************************************)
(* Views of a row of Length cells, and batches of up to two mutations.     *)
(***************************************************************************)
EXTENDS Views

CONSTANT Length

MCCell == 0..(Length - 1)

MCAdjacent ==
  [c \in MCCell |-> (IF c > 0 THEN <<c - 1>> ELSE <<>>) \o
                    (IF c < Length - 1 THEN <<c + 1>> ELSE <<>>)]

Infinite == {PATH_COST_INFINITE}

Five == -5

\* The row looks the same from both ends: batches begin in cell 0.
MCBatch ==
  LET first == {m \in Mutation : m.cell = 0}
  IN  {<<>>} \cup {<<m>> : m \in first} \cup (first \X Mutation)
=============================================================================
