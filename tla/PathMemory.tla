----------------------------- MODULE PathMemory -----------------------------
(***************************************************************************)
(* What a search relies on in a PatherState: for each cell whether it is   *)
(* expanded, its distance and its predecessor, all of it forgotten at      *)
(* clear.  The predecessor of a cell is meaningful once the cell has been  *)
(* written since then, and it is the search's own once it was set.         *)
(***************************************************************************)
EXTENDS Integers

CONSTANTS Cell, Distance, INFINITY

VARIABLES expanded, distance, previous

vars == <<expanded, distance, previous>>

Cleared ==
  /\ expanded = [c \in Cell |-> FALSE]
  /\ distance = [c \in Cell |-> INFINITY]
  /\ previous = [c \in {} |-> c]

\* The predecessors once c has been written, that of c being p if it had none.
Noted(c, p) ==
  [d \in DOMAIN previous \cup {c} |-> IF d \in DOMAIN previous THEN previous[d] ELSE p]

SetExpanded(c, value) ==
  /\ expanded' = [expanded EXCEPT ![c] = value]
  /\ \E p \in Cell : previous' = Noted(c, p)
  /\ UNCHANGED distance

SetDistance(c, value) ==
  /\ distance' = [distance EXCEPT ![c] = value]
  /\ \E p \in Cell : previous' = Noted(c, p)
  /\ UNCHANGED expanded

SetPrevious(c, value) ==
  /\ previous' = [d \in DOMAIN previous \cup {c} |-> IF d = c THEN value ELSE previous[d]]
  /\ UNCHANGED <<expanded, distance>>

Clear == Cleared'

Next ==
  \/ Clear
  \/ \E c \in Cell :
       \/ \E value \in BOOLEAN : SetExpanded(c, value)
       \/ \E value \in Distance : SetDistance(c, value)
       \/ \E value \in Cell : SetPrevious(c, value)

Spec == Cleared /\ [][Next]_vars
=============================================================================
