-------------------------------- MODULE Views --------------------------------
(***************************************************************************)
(* pathfinder::MapView: what a program does with the views it holds.  A    *)
(* view shares an immutable MapImpl; apply copies it, makes the batch's    *)
(* changes to the copy one after the other, while other threads copy and   *)
(* drop other views, and gives the copy to a new view.                     *)
(*                                                                         *)
(* The variable map of MapImpl.tla is the copy that apply works on, next   *)
(* in the code.                                                            *)
(***************************************************************************)
EXTENDS MapImpl

CONSTANTS
  View,    \* the variables of the program that can hold a view
  Batch    \* the MapMutators given to apply: sequences of mutations

ASSUME BatchAssumption == Batch \subseteq Seq(Mutation)

VARIABLES
  view,   \* view[v]: the map that view v shares, if it has one
  call    \* the call of apply that runs: its view and arguments, and how many
          \* mutations it has made; or NoCall

vars == <<map, view, call>>

NoCall == [running |-> FALSE]

Call(v, batch, incremental) ==
  [running |-> TRUE, of |-> v, batch |-> batch, incremental |-> incremental,
   done |-> 0]

\* Stands for next while no call runs.
NoMap == Rebuild(Built([c \in Cell |-> PATH_COST_INFINITE], [d \in {} |-> 0]))

ViewsInit ==
  /\ map = NoMap
  /\ view = [v \in {} |-> NoMap]
  /\ call = NoCall

\* No other thread assigns to a view that apply is called on.
Free(v) == call.running => v # call.of

Assign(v, m) ==
  view' = [u \in DOMAIN view \cup {v} |-> IF u = v THEN m ELSE view[u]]

\* MapView(MapBuilder&&).
Construct(v) ==
  /\ \E places \in SUBSET Cell :
       \E terrain \in [Cell \ places -> Costs], doors \in [places -> BuiltDoor] :
         Assign(v, Rebuild(Built(terrain, doors)))
  /\ UNCHANGED <<map, call>>

Copy(v, u) ==
  /\ Free(v)
  /\ Assign(v, view[u])
  /\ UNCHANGED <<map, call>>

Drop(v) ==
  /\ Free(v)
  /\ view' = [u \in DOMAIN view \ {v} |-> view[u]]
  /\ UNCHANGED <<map, call>>

\* make_shared<MapImpl>(*map).
BeginApply(v, batch, incremental) ==
  /\ ~call.running
  /\ map' = view[v]
  /\ call' = Call(v, batch, incremental)
  /\ UNCHANGED view

\* (A mutation of ApplyOne: the shared map is changed, not a copy of it.)
ApplyOneInPlace ==
  /\ call.running
  /\ call.done < Len(call.batch)
  /\ UpdateIncremental(call.batch[call.done + 1])
  /\ view' = [view EXCEPT ![call.of] = map']
  /\ call' = [call EXCEPT !.done = @ + 1]

\* (A mutation of ApplyOne: each change is made to the view's own map.)
ApplyOneAlone ==
  /\ call.running
  /\ call.done < Len(call.batch)
  /\ ColorsLeft(call.batch[call.done + 1].cell)
  /\ map' = Mutate(view[call.of], call.batch[call.done + 1])
  /\ call' = [call EXCEPT !.done = @ + 1]
  /\ UNCHANGED view

\* One turn of the loop of update.
ApplyOne ==
  /\ call.running
  /\ call.done < Len(call.batch)
  /\ UpdateIncremental(call.batch[call.done + 1])
  /\ call' = [call EXCEPT !.done = @ + 1]
  /\ UNCHANGED view

\* The rest of update, and the new view.
EndApply(v) ==
  /\ call.running
  /\ call.done = Len(call.batch)
  /\ Assign(v, IF call.incremental THEN map ELSE Rebuild(map))
  /\ map' = NoMap
  /\ call' = NoCall

\* What a view answers: everything but get_adjacent and the costs of moves, which
\* the costs and the graph decide alone.
Queries(v) ==
  [is_passable |-> {c \in Cell : IsPassable(view[v], c)},
   is_door     |-> {c \in Cell : IsDoor(view[v], c)},
   path_exists |-> {e \in Cell \X Cell : PathExists(view[v], e[1], e[2])}]

ViewsNext ==
  \/ \E v \in View \ DOMAIN view : Construct(v)
  \/ \E v \in View, u \in DOMAIN view : Copy(v, u)
  \/ \E v \in DOMAIN view : Drop(v)
  \/ \E v \in DOMAIN view, batch \in Batch, incremental \in BOOLEAN :
       BeginApply(v, batch, incremental)
  \/ ApplyOne
  \/ \E v \in View : EndApply(v)

ViewsSpec == ViewsInit /\ [][ViewsNext]_vars

-----------------------------------------------------------------------------
(***************************************************************************)
(* Properties.                                                             *)
(***************************************************************************)
\* What a builder or a mutation can make of a cell.
Contents ==
  {[cost |-> cost, door |-> {}] : cost \in Costs}
    \cup {[cost |-> CostOf(door), door |-> {door}] : door \in BuiltDoor}
    \cup {Asked(mutation) : mutation \in Mutation}

AskedBy(batch) ==
  [i \in DOMAIN batch |-> [cell |-> batch[i].cell, content |-> Asked(batch[i])]]

Promise ==
  INSTANCE Worlds WITH
    world   <- [v \in DOMAIN view |-> Shown(view[v])],
    asked   <- IF call.running
               THEN {[picture |-> Shown(view[call.of]), batch |-> AskedBy(call.batch)]}
               ELSE {},
    Content <- Contents,
    Batch   <- {AskedBy(batch) : batch \in Batch}

\* A view shows for ever what it was made to show, whatever is applied to it and
\* whatever becomes of other views; and a batch leaves each cell what the last
\* call for it asked, incrementally or not.
ViewsShowWorlds == Promise!Spec

\* What a call has made so far shows the calls of its batch so far: the one that
\* EndApply publishes shows them all.
PrefixShown ==
  call.running =>
    Shown(map) = Promise!After(Shown(view[call.of]),
                               SubSeq(AskedBy(call.batch), 1, call.done))

\* A view's answers depend only on the world it shows, neither on how its map came
\* to be nor on the other views: cells are passable by their costs, doors where
\* get_doors has them, and path_exists is reachability through passable cells.
ViewsAnswer ==
  \A v \in DOMAIN view :
    LET shown    == Shown(view[v])
        passable == {c \in Cell : shown[c].cost # PATH_COST_INFINITE}
        area     == Areas(passable)
    IN  Queries(v) = [is_passable |-> passable,
                      is_door     |-> {c \in Cell : shown[c].door # {}},
                      path_exists |-> UNION {{a} \X area[a] : a \in passable}]
=============================================================================
