-------------------------------- MODULE Worlds --------------------------------
(***************************************************************************)
(* What MapView.hh and MapMutator.hh promise a program that holds views:   *)
(* a view is an unchanging picture of a world, and applying a batch of     *)
(* changes to it gives a new picture in which each cell is what the last   *)
(* of the changes for it says, whatever the others were, in whatever order *)
(* they came, and whether or not the apply was incremental.                *)
(***************************************************************************)
EXTENDS Integers, FiniteSetsExt

CONSTANTS
  View,      \* the variables of the program that can hold a view
  Cell,
  Content,   \* what a cell can be
  Batch      \* the batches: sequences of changes, each a cell and its content

VARIABLES
  world,   \* world[v]: the picture that view v shows, if it shows one
  asked    \* the picture and the batch given to the apply that runs, if any

vars == <<world, asked>>

After(picture, batch) ==
  [c \in Cell |->
     LET calls == {i \in DOMAIN batch : batch[i].cell = c}
     IN  IF calls = {} THEN picture[c] ELSE batch[Max(calls)].content]

Init ==
  /\ world = [v \in {} |-> [c \in Cell |-> CHOOSE x \in Content : TRUE]]
  /\ asked = {}

Show(v, picture) ==
  world' = [u \in DOMAIN world \cup {v} |-> IF u = v THEN picture ELSE world[u]]

Construct ==
  /\ \E v \in View \ DOMAIN world, picture \in [Cell -> Content] : Show(v, picture)
  /\ UNCHANGED asked

Copy ==
  /\ \E v \in View, u \in DOMAIN world : Show(v, world[u])
  /\ UNCHANGED asked

Drop ==
  /\ \E v \in DOMAIN world : world' = [u \in DOMAIN world \ {v} |-> world[u]]
  /\ UNCHANGED asked

Ask ==
  /\ asked = {}
  /\ \E v \in DOMAIN world, batch \in Batch :
       asked' = {[picture |-> world[v], batch |-> batch]}
  /\ UNCHANGED world

Answer ==
  /\ \E v \in View, request \in asked : Show(v, After(request.picture, request.batch))
  /\ asked' = {}

Next == Construct \/ Copy \/ Drop \/ Ask \/ Answer

Spec == Init /\ [][Next]_vars
=============================================================================
