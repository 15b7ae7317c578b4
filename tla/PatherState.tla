---------------------------- MODULE PatherState -----------------------------
(***************************************************************************)
(* EuclideanPatherState: the memory of a search, which is cleared without  *)
(* touching the cells, by a version that says in which search a cell was   *)
(* last written.  The version is a byte, and wraps.                        *)
(***************************************************************************)
EXTENDS Integers

CONSTANTS
  Cell,
  Distance,      \* the values of distances
  INFINITY,
  MAX_VERSION    \* 2^8 - 1 in the code

ASSUME DistanceAssumption == INFINITY \in Distance
ASSUME VersionAssumption == MAX_VERSION \in Nat \ {0}

VARIABLES version, expanded, distance, previous, current

vars == <<version, expanded, distance, previous, current>>

\* Coord(), the predecessor of every cell at first, is a cell of every map.
Init ==
  /\ version = [c \in Cell |-> 0]
  /\ expanded = [c \in Cell |-> FALSE]
  /\ distance = [c \in Cell |-> INFINITY]
  /\ \E origin \in Cell : previous = [c \in Cell |-> origin]
  /\ current = 1

\* Cell c has not been written since the last clear.
Stale(c) == version[c] < current \/ (version[c] = MAX_VERSION /\ current = 0)

GetExpanded(c) == IF Stale(c) THEN FALSE ELSE expanded[c]
GetDistance(c) == IF Stale(c) THEN INFINITY ELSE distance[c]

\* (A mutation of SetExpanded: the other fields keep an older search's values.)
SetExpandedOnly(c, value) ==
  /\ expanded' = [expanded EXCEPT ![c] = value]
  /\ version' = [version EXCEPT ![c] = current]
  /\ UNCHANGED <<distance, previous, current>>

SetExpanded(c, value) ==
  /\ expanded' = [expanded EXCEPT ![c] = value]
  /\ distance' = [distance EXCEPT ![c] = IF Stale(c) THEN INFINITY ELSE @]
  /\ version' = [version EXCEPT ![c] = IF Stale(c) THEN current ELSE @]
  /\ UNCHANGED <<previous, current>>

SetDistance(c, value) ==
  /\ distance' = [distance EXCEPT ![c] = value]
  /\ expanded' = [expanded EXCEPT ![c] = IF Stale(c) THEN FALSE ELSE @]
  /\ version' = [version EXCEPT ![c] = IF Stale(c) THEN current ELSE @]
  /\ UNCHANGED <<previous, current>>

SetPrevious(c, value) ==
  /\ previous' = [previous EXCEPT ![c] = value]
  /\ expanded' = [expanded EXCEPT ![c] = IF Stale(c) THEN FALSE ELSE @]
  /\ distance' = [distance EXCEPT ![c] = IF Stale(c) THEN INFINITY ELSE @]
  /\ version' = [version EXCEPT ![c] = IF Stale(c) THEN current ELSE @]
  /\ UNCHANGED current

NextVersion == (current + 1) % (MAX_VERSION + 1)

ClearByVersion ==
  /\ NextVersion # 0
  /\ current' = NextVersion
  /\ UNCHANGED <<version, expanded, distance, previous>>

\* (A mutation of ClearAtWrap: the cells keep their versions.)
ClearAtWrapOnly ==
  /\ NextVersion = 0
  /\ current' = 1
  /\ UNCHANGED <<version, expanded, distance, previous>>

\* The version has wrapped: the cells are cleared, but for the predecessors.
ClearAtWrap ==
  /\ NextVersion = 0
  /\ current' = 1
  /\ version' = [c \in Cell |-> 0]
  /\ expanded' = [c \in Cell |-> FALSE]
  /\ distance' = [c \in Cell |-> INFINITY]
  /\ UNCHANGED previous

Next ==
  \/ ClearByVersion \/ ClearAtWrap
  \/ \E c \in Cell :
       \/ \E value \in BOOLEAN : SetExpanded(c, value)
       \/ \E value \in Distance : SetDistance(c, value)
       \/ \E value \in Cell : SetPrevious(c, value)

Spec == Init /\ [][Next]_vars

-----------------------------------------------------------------------------
(***************************************************************************)
(* Properties.                                                             *)
(***************************************************************************)

\* The inductive invariant: no cell is of a version that is yet to come, for
\* its values would come back when that version does.
VersionsPast ==
  /\ current \in 1..MAX_VERSION
  /\ version \in [Cell -> 0..MAX_VERSION]
  /\ \A c \in Cell : version[c] <= current
  /\ expanded \in [Cell -> BOOLEAN]
  /\ distance \in [Cell -> Distance]
  /\ previous \in [Cell -> Cell]

Memory == INSTANCE PathMemory WITH
  expanded <- [c \in Cell |-> GetExpanded(c)],
  distance <- [c \in Cell |-> GetDistance(c)],
  previous <- [c \in {d \in Cell : ~Stale(d)} |-> previous[c]]

\* To its callers, clear forgets everything, however often it was called.
ClearForgets == Memory!Spec
=============================================================================
