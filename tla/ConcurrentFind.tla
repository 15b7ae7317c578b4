--------------------------- MODULE ConcurrentFind ---------------------------
(***************************************************************************)
(* Threads that share one immutable map.  MapView is documented as thread  *)
(* safe for its being immutable, with a doubt: the const at() of a         *)
(* UnionFind compresses paths, so path_exists writes.  Here every access   *)
(* to the table of parents is a step of its own, and a thread may also     *)
(* copy the table, as apply does to make the next map.                     *)
(*                                                                         *)
(* Reads and writes of one entry are taken to be atomic.                   *)
(***************************************************************************)
EXTENDS Integers

CONSTANTS
  Thread,
  Id,       \* the ids of the elements
  Forest    \* the tables the map may have: parents and ranks, and the roots

\* top gives the roots of a forest whose ranks are height.
RootsOf(height, top) ==
  \A i \in Id : top[top[i]] = top[i] /\ (i # top[i] => height[i] < height[top[i]])

\* The parent p of id i is a step up to its root.
Leads(i, p, height, top) ==
  /\ top[p] = top[i]
  /\ i = top[i] <=> p = i
  /\ p # i => height[i] < height[p]

\* From every id the parents lead, by growing ranks, to its root.
LeadsTo(table, height, top) ==
  /\ table \in [Id -> Id]
  /\ \A i \in Id : Leads(i, table[i], height, top)

ASSUME ForestAssumption ==
  \A f \in Forest : /\ f.root \in [Id -> Id]
                    /\ f.rank \in [Id -> Nat]
                    /\ RootsOf(f.rank, f.root)
                    /\ LeadsTo(f.parent, f.rank, f.root)

VARIABLES
  parent, rank,   \* the shared tables
  root,      \* the root of each id when the threads start (never read)
  pc,        \* what each thread does next
  find,      \* the id asked for and the variables of find_set, in each thread
  copy       \* the part of the table each thread has copied

vars == <<parent, rank, root, pc, find, copy>>

\* A thread outside any call.
Idle == [asked |-> 0, v |-> 0, old |-> 0, ancestor |-> 0]

Nothing == [i \in {} |-> i]

Init ==
  /\ \E f \in Forest : parent = f.parent /\ rank = f.rank /\ root = f.root
  /\ pc = [t \in Thread |-> "idle"]
  /\ find = [t \in Thread |-> Idle]
  /\ copy = [t \in Thread |-> Nothing]

Goto(t, label) == pc' = [pc EXCEPT ![t] = label]

\* find_set(i) begins: the parent of i is read.
Ask(t, i) ==
  /\ pc[t] = "idle"
  /\ find' = [find EXCEPT
                ![t] = [asked |-> i, v |-> i, old |-> i, ancestor |-> parent[i]]]
  /\ Goto(t, "climb")
  /\ UNCHANGED <<parent, rank, root, copy>>

\* The first loop: up to an id that is its own parent.
Climb(t) ==
  /\ pc[t] = "climb"
  /\ find[t].ancestor # find[t].v
  /\ find' = [find EXCEPT ![t].v = find[t].ancestor,
                          ![t].ancestor = parent[find[t].ancestor]]
  /\ UNCHANGED <<parent, rank, root, pc, copy>>

\* (A mutation of Restart: the first loop may end below the root.)
RestartEarly(t) ==
  /\ pc[t] = "climb"
  /\ find' = [find EXCEPT ![t].v = parent[find[t].old]]
  /\ Goto(t, "compress")
  /\ UNCHANGED <<parent, rank, root, copy>>

\* The second pass starts again at the id asked for.
Restart(t) ==
  /\ pc[t] = "climb"
  /\ find[t].ancestor = find[t].v
  /\ find' = [find EXCEPT ![t].v = parent[find[t].old]]
  /\ Goto(t, "compress")
  /\ UNCHANGED <<parent, rank, root, copy>>

\* (A mutation of Compress: the id next on the path is pointed back.)
CompressBackwards(t) ==
  /\ pc[t] = "compress"
  /\ find[t].ancestor # find[t].v
  /\ parent' = [parent EXCEPT ![find[t].v] = find[t].old]
  /\ find' = [find EXCEPT ![t].old = find[t].v]
  /\ Goto(t, "advance")
  /\ UNCHANGED <<rank, root, copy>>

\* (A mutation of Compress: the loop does not move on.)
CompressStuck(t) ==
  /\ pc[t] = "compress"
  /\ find[t].ancestor # find[t].v
  /\ parent' = [parent EXCEPT ![find[t].old] = find[t].ancestor]
  /\ UNCHANGED <<rank, root, pc, find, copy>>

\* The second loop: an id of the path is pointed at the root ...
Compress(t) ==
  /\ pc[t] = "compress"
  /\ find[t].ancestor # find[t].v
  /\ parent' = [parent EXCEPT ![find[t].old] = find[t].ancestor]
  /\ find' = [find EXCEPT ![t].old = find[t].v]
  /\ Goto(t, "advance")
  /\ UNCHANGED <<rank, root, copy>>

\* ... and the next id of the path is read.
Advance(t) ==
  /\ pc[t] = "advance"
  /\ find' = [find EXCEPT ![t].v = parent[find[t].old]]
  /\ Goto(t, "compress")
  /\ UNCHANGED <<parent, rank, root, copy>>

\* find_set returns ancestor.
Return(t) ==
  /\ pc[t] = "compress"
  /\ find[t].ancestor = find[t].v
  /\ Goto(t, "returned")
  /\ UNCHANGED <<parent, rank, root, find, copy>>

\* UnionFind(const UnionFind&) copies the table, entry by entry ...
BeginCopy(t) ==
  /\ pc[t] = "idle"
  /\ Goto(t, "copy")
  /\ UNCHANGED <<parent, rank, root, find, copy>>

\* (A mutation of CopyEntry: the table of ranks is copied in place of the other.)
CopyEntryOfRank(t, i) ==
  /\ pc[t] = "copy"
  /\ i \notin DOMAIN copy[t]
  /\ copy' = [copy EXCEPT ![t] = [j \in DOMAIN @ \cup {i} |->
                                    IF j = i THEN rank[i] ELSE @[j]]]
  /\ UNCHANGED <<parent, rank, root, pc, find>>

CopyEntry(t, i) ==
  /\ pc[t] = "copy"
  /\ i \notin DOMAIN copy[t]
  /\ copy' = [copy EXCEPT ![t] = [j \in DOMAIN @ \cup {i} |->
                                    IF j = i THEN parent[i] ELSE @[j]]]
  /\ UNCHANGED <<parent, rank, root, pc, find>>

\* ... and then has a table of its own.
EndCopy(t) ==
  /\ pc[t] = "copy"
  /\ DOMAIN copy[t] = Id
  /\ Goto(t, "copied")
  /\ UNCHANGED <<parent, rank, root, find, copy>>

\* The caller has what it wants, and may call again.
Resume(t) ==
  /\ pc[t] \in {"returned", "copied"}
  /\ Goto(t, "idle")
  /\ find' = [find EXCEPT ![t] = Idle]
  /\ copy' = [copy EXCEPT ![t] = Nothing]
  /\ UNCHANGED <<parent, rank, root>>

\* The steps of a thread that is inside a call.
Inside(t) ==
  \/ Climb(t) \/ Restart(t) \/ Compress(t) \/ Advance(t) \/ Return(t)
  \/ Resume(t)
  \/ \E i \in Id : CopyEntry(t, i)
  \/ EndCopy(t)

Next ==
  \E t \in Thread : BeginCopy(t) \/ (\E i \in Id : Ask(t, i)) \/ Inside(t)

\* A thread that is inside a call is scheduled again and again.
Spec == Init /\ [][Next]_vars /\ \A t \in Thread : WF_vars(Inside(t))

-----------------------------------------------------------------------------
(***************************************************************************)
(* Properties.                                                             *)
(***************************************************************************)
TypeOK ==
  /\ parent \in [Id -> Id]
  /\ rank \in [Id -> Nat]
  /\ root \in [Id -> Id]
  /\ pc \in [Thread -> {"idle", "climb", "compress", "advance", "returned",
                        "copy", "copied"}]
  /\ find = [t \in Thread |-> find[t]]
  /\ copy = [t \in Thread |-> copy[t]]
  /\ \A t \in Thread :
       IF pc[t] \in {"idle", "copy", "copied"} THEN find[t] = Idle
       ELSE find[t] \in [asked : Id, v : Id, old : Id, ancestor : Id]
  /\ \A t \in Thread : copy[t] \in [DOMAIN copy[t] -> Id] /\ DOMAIN copy[t] \subseteq Id

\* However the compressions of several threads mix, the table leads to the same
\* roots: no answer given before or later is affected.
RootsStand == LeadsTo(parent, rank, root)

\* What at() returns to a thread is the representative.
FindsRoot ==
  \A t \in Thread :
    pc[t] = "returned" => find[t].ancestor = root[find[t].asked]

\* A table copied while others compress it, a mix of entries of several moments,
\* leads to the same roots too.
CopyLeadsToRoots ==
  \A t \in Thread : pc[t] = "copied" => LeadsTo(copy[t], rank, root)

\* In a find every id at hand is under the root of the one asked for, and
\* ancestor is that root from the end of the first loop on.
FindOnPath(t) ==
  LET f == find[t]
      r == root[f.asked]
  IN  /\ pc[t] \in {"climb", "compress", "advance", "returned"} =>
           root[f.v] = r /\ root[f.old] = r
      /\ pc[t] = "climb" =>
           root[f.ancestor] = r /\ (f.ancestor = f.v => f.v = r)
      /\ pc[t] \in {"compress", "advance", "returned"} => f.ancestor = r

CopyOnPath(t) ==
  /\ \A i \in DOMAIN copy[t] : Leads(i, copy[t][i], rank, root)
  /\ pc[t] = "copied" => DOMAIN copy[t] = Id

\* The inductive invariant: each thread is on a path to the right root.
IInv ==
  /\ TypeOK
  /\ RootsOf(rank, root)
  /\ RootsStand
  /\ \A t \in Thread : FindOnPath(t) /\ CopyOnPath(t)

\* A thread's find and copy end, whatever the other threads write meanwhile.
CallsReturn == \A t \in Thread : pc[t] # "idle" ~> pc[t] = "idle"
=============================================================================
