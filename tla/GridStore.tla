------------------------------ MODULE GridStore ------------------------------
(***************************************************************************)
(* What apply relies on in the grids of a map: a copy has the contents of  *)
(* its original, a write changes one grid only, and only a grid that is    *)
(* still in the hands of the thread that makes it.                         *)
(***************************************************************************)
CONSTANTS
  Thread,
  Shared,   \* the owner of a grid that any thread may read
  Grid,
  Index,    \* the chunks of a grid
  Inner,    \* the cells of a chunk
  Value

VARIABLES
  owner,     \* the thread that makes each grid, or Shared
  contents   \* contents[g][i][x], for each grid g in use

vars == <<owner, contents>>

InUse == DOMAIN contents

Init ==
  /\ owner = [g \in {} |-> Shared]
  /\ contents = [g \in {} |-> [i \in Index |-> {}]]

\* Grid g comes into use in the hands of t.
Make(t, g, value) ==
  /\ g \notin InUse
  /\ owner' = [h \in InUse \cup {g} |-> IF h = g THEN t ELSE owner[h]]
  /\ contents' = [h \in InUse \cup {g} |-> IF h = g THEN value ELSE contents[h]]

Create(t, g) == \E v \in Value : Make(t, g, [i \in Index |-> [x \in Inner |-> v]])

Copy(t, g, h) == h \in InUse /\ owner[h] = Shared /\ Make(t, g, contents[h])

Write(t, g, i, data) ==
  /\ g \in InUse
  /\ owner[g] = t
  /\ contents' = [contents EXCEPT ![g][i] = data]
  /\ UNCHANGED owner

WriteCell(t, g, i) ==
  \E x \in Inner, v \in Value :
    g \in InUse /\ Write(t, g, i, [contents[g][i] EXCEPT ![x] = v])

FillChunk(t, g, i) == \E v \in Value : Write(t, g, i, [x \in Inner |-> v])

Share(t, g) ==
  /\ g \in InUse
  /\ owner[g] = t
  /\ owner' = [owner EXCEPT ![g] = Shared]
  /\ UNCHANGED contents

Destroy(g) ==
  /\ g \in InUse
  /\ owner[g] = Shared
  /\ owner' = [h \in InUse \ {g} |-> owner[h]]
  /\ contents' = [h \in InUse \ {g} |-> contents[h]]

Next ==
  \E g \in Grid :
    \/ Destroy(g)
    \/ \E t \in Thread :
         \/ Create(t, g) \/ Share(t, g)
         \/ \E h \in Grid : Copy(t, g, h)
         \/ \E i \in Index : WriteCell(t, g, i) \/ FillChunk(t, g, i)

Spec == Init /\ [][Next]_vars
=============================================================================
