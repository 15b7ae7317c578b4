-------------------------- MODULE PatherStateProofs --------------------------
(***************************************************************************)
(* PatherState implements PathMemory for every set of cells and every      *)
(* width of the version.                                                   *)
(***************************************************************************)
EXTENDS PatherState, TLAPS

LEMMA InitInvariant == Init => VersionsPast
  BY DistanceAssumption, VersionAssumption DEF Init, VersionsPast

\* A write makes a cell of the current version.
LEMMA WriteKeepsVersions ==
  ASSUME VersionsPast, NEW c \in Cell, UNCHANGED current,
         version' = [version EXCEPT ![c] = IF Stale(c) THEN current ELSE @]
  PROVE  /\ version' \in [Cell -> 0..MAX_VERSION]
         /\ \A d \in Cell : version'[d] <= current'
<1>1. IF Stale(c) THEN version'[c] = current ELSE version'[c] = version[c]
  BY DEF VersionsPast
<1>2. \A d \in Cell : d # c => version'[d] = version[d]
  BY DEF VersionsPast
<1>3. current \in 0..MAX_VERSION /\ version[c] \in 0..MAX_VERSION /\ version[c] <= current
  BY VersionAssumption DEF VersionsPast
<1>4. version' \in [Cell -> 0..MAX_VERSION]
  BY <1>3 DEF VersionsPast
<1>5. \A d \in Cell : version'[d] <= current
  BY <1>1, <1>2, <1>3, VersionAssumption DEF VersionsPast
<1> QED
  BY <1>4, <1>5

\* No write and no clear makes a cell of a version yet to come.
LEMMA StepInvariant == VersionsPast /\ [Next]_vars => VersionsPast'
<1> SUFFICES ASSUME VersionsPast, [Next]_vars PROVE VersionsPast'
  OBVIOUS
<1>1. CASE ClearByVersion
  BY <1>1, VersionAssumption DEF ClearByVersion, NextVersion, VersionsPast
<1>2. CASE ClearAtWrap
  BY <1>2, VersionAssumption, DistanceAssumption DEF ClearAtWrap, NextVersion, VersionsPast
<1>3. ASSUME NEW c \in Cell, NEW value \in BOOLEAN, SetExpanded(c, value) PROVE VersionsPast'
  <2>1. expanded' \in [Cell -> BOOLEAN] /\ distance' \in [Cell -> Distance]
    BY <1>3, DistanceAssumption DEF SetExpanded, VersionsPast
  <2> QED
    BY <1>3, <2>1, WriteKeepsVersions DEF SetExpanded, VersionsPast
<1>4. ASSUME NEW c \in Cell, NEW value \in Distance, SetDistance(c, value) PROVE VersionsPast'
  <2>1. expanded' \in [Cell -> BOOLEAN] /\ distance' \in [Cell -> Distance]
    BY <1>4 DEF SetDistance, VersionsPast
  <2> QED
    BY <1>4, <2>1, WriteKeepsVersions DEF SetDistance, VersionsPast
<1>5. ASSUME NEW c \in Cell, NEW value \in Cell, SetPrevious(c, value) PROVE VersionsPast'
  <2>1. expanded' \in [Cell -> BOOLEAN] /\ distance' \in [Cell -> Distance]
    BY <1>5, DistanceAssumption DEF SetPrevious, VersionsPast
  <2> QED
    BY <1>5, <2>1, WriteKeepsVersions DEF SetPrevious, VersionsPast
<1>6. CASE UNCHANGED vars
  BY <1>6 DEF vars, VersionsPast
<1> QED
  BY <1>1, <1>2, <1>3, <1>4, <1>5, <1>6 DEF Next

\* The inductive invariant holds, whatever the width of the version: clear
\* leaves no cell of a version yet to come (EuclideanPatherState::clear).
THEOREM Invariance == Spec => []VersionsPast
<1> QED
  BY InitInvariant, StepInvariant, PTL DEF Spec

\* Under the invariant a cell is stale when its version is below the current.
LEMMA StaleIsOlder ==
  ASSUME VersionsPast, NEW c \in Cell
  PROVE  Stale(c) <=> version[c] < current
BY VersionAssumption DEF VersionsPast, Stale

\* A cell that is written is no longer stale; no other cell is affected.
LEMMA WriteFreshens ==
  ASSUME VersionsPast, VersionsPast', NEW c \in Cell, UNCHANGED current,
         version' = [version EXCEPT ![c] = IF Stale(c) THEN current ELSE @]
  PROVE  \A d \in Cell : Stale(d)' <=> Stale(d) /\ d # c
<1> TAKE d \in Cell
<1>1. Stale(d) <=> version[d] < current
  BY StaleIsOlder
<1>2. Stale(d)' <=> (version[d] < current)'
  BY VersionAssumption DEF VersionsPast, Stale
<1>3. CASE d = c
  BY <1>1, <1>2, <1>3, VersionAssumption DEF VersionsPast
<1>4. CASE d # c
  BY <1>1, <1>2, <1>4 DEF VersionsPast
<1> QED
  BY <1>3, <1>4

\* The functions the memory is mapped to.
Expanded == [c \in Cell |-> GetExpanded(c)]
Distances == [c \in Cell |-> GetDistance(c)]
Previous == [c \in {d \in Cell : ~Stale(d)} |-> previous[c]]

\* A write of one of the fields is the write of the abstract memory, be the
\* cell of this search or of an earlier one.
LEMMA SetExpandedRefines ==
  ASSUME VersionsPast, VersionsPast', NEW c \in Cell, NEW value \in BOOLEAN, SetExpanded(c, value)
  PROVE  Memory!SetExpanded(c, value)
<1>1. \A d \in Cell : Stale(d)' <=> Stale(d) /\ d # c
  BY WriteFreshens DEF SetExpanded
<1>2. Expanded' = [Expanded EXCEPT ![c] = value]
  <2>1. \A d \in Cell : GetExpanded(d)' = IF d = c THEN value ELSE GetExpanded(d)
    BY <1>1 DEF SetExpanded, GetExpanded, VersionsPast
  <2> QED
    BY <2>1 DEF Expanded
<1>3. Distances' = Distances
  <2>1. \A d \in Cell : GetDistance(d)' = GetDistance(d)
    BY <1>1 DEF SetExpanded, GetDistance, VersionsPast
  <2> QED
    BY <2>1 DEF Distances
<1>4. Previous' = [d \in DOMAIN Previous \cup {c} |->
                     IF d \in DOMAIN Previous THEN Previous[d] ELSE previous[c]]
  BY <1>1 DEF Previous, SetExpanded, VersionsPast
<1>5. previous[c] \in Cell
  BY DEF VersionsPast
<1> QED
  BY <1>2, <1>3, <1>4, <1>5
  DEF Expanded, Distances, Previous, Memory!SetExpanded, Memory!Noted

LEMMA SetDistanceRefines ==
  ASSUME VersionsPast, VersionsPast', NEW c \in Cell, NEW value \in Distance, SetDistance(c, value)
  PROVE  Memory!SetDistance(c, value)
<1>1. \A d \in Cell : Stale(d)' <=> Stale(d) /\ d # c
  BY WriteFreshens DEF SetDistance
<1>2. Expanded' = Expanded
  <2>1. \A d \in Cell : GetExpanded(d)' = GetExpanded(d)
    BY <1>1 DEF SetDistance, GetExpanded, VersionsPast
  <2> QED
    BY <2>1 DEF Expanded
<1>3. Distances' = [Distances EXCEPT ![c] = value]
  <2>1. \A d \in Cell : GetDistance(d)' = IF d = c THEN value ELSE GetDistance(d)
    BY <1>1 DEF SetDistance, GetDistance, VersionsPast
  <2> QED
    BY <2>1 DEF Distances
<1>4. Previous' = [d \in DOMAIN Previous \cup {c} |->
                     IF d \in DOMAIN Previous THEN Previous[d] ELSE previous[c]]
  BY <1>1 DEF Previous, SetDistance, VersionsPast
<1>5. previous[c] \in Cell
  BY DEF VersionsPast
<1> QED
  BY <1>2, <1>3, <1>4, <1>5
  DEF Expanded, Distances, Previous, Memory!SetDistance, Memory!Noted

LEMMA SetPreviousRefines ==
  ASSUME VersionsPast, VersionsPast', NEW c \in Cell, NEW value \in Cell, SetPrevious(c, value)
  PROVE  Memory!SetPrevious(c, value)
<1>1. \A d \in Cell : Stale(d)' <=> Stale(d) /\ d # c
  BY WriteFreshens DEF SetPrevious
<1>2. Expanded' = Expanded
  <2>1. \A d \in Cell : GetExpanded(d)' = GetExpanded(d)
    BY <1>1 DEF SetPrevious, GetExpanded, VersionsPast
  <2> QED
    BY <2>1 DEF Expanded
<1>3. Distances' = Distances
  <2>1. \A d \in Cell : GetDistance(d)' = GetDistance(d)
    BY <1>1 DEF SetPrevious, GetDistance, VersionsPast
  <2> QED
    BY <2>1 DEF Distances
<1>4. Previous' = [d \in DOMAIN Previous \cup {c} |->
                     IF d = c THEN value ELSE Previous[d]]
  BY <1>1 DEF Previous, SetPrevious, VersionsPast
<1>5. previous[c] \in Cell
  BY DEF VersionsPast
<1> QED
  BY <1>2, <1>3, <1>4, <1>5
  DEF Expanded, Distances, Previous, Memory!SetPrevious, Memory!Noted

\* Once the version has moved, or been reset with the cells, each is stale.
LEMMA ClearRefines ==
  ASSUME VersionsPast, VersionsPast', ClearByVersion \/ ClearAtWrap
  PROVE  Memory!Clear
<1>1. \A d \in Cell : Stale(d)'
  <2>1. CASE ClearByVersion
    <3>1. current' = current + 1
      BY <2>1, VersionAssumption DEF ClearByVersion, NextVersion, VersionsPast
    <3> QED
      BY <2>1, <3>1, VersionAssumption DEF ClearByVersion, Stale, VersionsPast
  <2>2. CASE ClearAtWrap
    BY <2>2 DEF ClearAtWrap, Stale
  <2> QED
    BY <2>1, <2>2
<1>2. Expanded' = [c \in Cell |-> FALSE]
  BY <1>1 DEF Expanded, GetExpanded
<1>3. Distances' = [c \in Cell |-> INFINITY]
  BY <1>1 DEF Distances, GetDistance
<1>4. Previous' = [c \in {} |-> c]
  BY <1>1 DEF Previous
<1> QED
  BY <1>2, <1>3, <1>4 DEF Expanded, Distances, Previous, Memory!Clear, Memory!Cleared

\* EuclideanPatherState is the memory a search expects: whatever the width of
\* the version and however often it wraps, clear forgets everything.
THEOREM ClearAlwaysForgets == Spec => ClearForgets
<1>1. Init => Memory!Cleared
  <2> SUFFICES ASSUME Init PROVE Memory!Cleared
    OBVIOUS
  <2>1. \A c \in Cell : Stale(c)
    <3> TAKE c \in Cell
    <3>1. version[c] = 0 /\ current = 1
      BY DEF Init
    <3>2. version[c] < current
      BY <3>1
    <3> QED
      BY <3>2 DEF Stale
  <2> QED
    BY <2>1 DEF Memory!Cleared, GetExpanded, GetDistance
<1>2. VersionsPast /\ VersionsPast' /\ [Next]_vars => [Memory!Next]_Memory!vars
  <2> SUFFICES ASSUME VersionsPast, VersionsPast', [Next]_vars PROVE [Memory!Next]_Memory!vars
    OBVIOUS
  <2>1. CASE ClearByVersion \/ ClearAtWrap
    BY <2>1, ClearRefines DEF Memory!Next
  <2>2. ASSUME NEW c \in Cell, NEW value \in BOOLEAN, SetExpanded(c, value)
        PROVE  Memory!Next
    BY <2>2, SetExpandedRefines DEF Memory!Next
  <2>3. ASSUME NEW c \in Cell, NEW value \in Distance, SetDistance(c, value)
        PROVE  Memory!Next
    BY <2>3, SetDistanceRefines DEF Memory!Next
  <2>4. ASSUME NEW c \in Cell, NEW value \in Cell, SetPrevious(c, value)
        PROVE  Memory!Next
    BY <2>4, SetPreviousRefines DEF Memory!Next
  <2>5. CASE UNCHANGED vars
    BY <2>5 DEF vars, Memory!vars, GetExpanded, GetDistance, Stale
  <2> QED
    BY <2>1, <2>2, <2>3, <2>4, <2>5 DEF Next
<1> QED
  BY <1>1, <1>2, Invariance, PTL DEF Spec, ClearForgets, Memory!Spec
=============================================================================
