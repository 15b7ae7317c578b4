------------------------ MODULE ConcurrentFindProofs ------------------------
(***************************************************************************)
(* Any number of threads may compress the paths of one union-find of any   *)
(* size at once: proofs of the safety properties of ConcurrentFind.        *)
(***************************************************************************)
EXTENDS ConcurrentFind, TLAPS

Doing == {"climb", "compress", "advance", "returned"}

\* Only the locals of thread t, which is at label, and its place change.
LEMMA FindStep ==
  ASSUME IInv, NEW t \in Thread,
         NEW f \in [asked : Id, v : Id, old : Id, ancestor : Id],
         NEW label \in Doing,
         find' = [find EXCEPT ![t] = f], pc' = [pc EXCEPT ![t] = label],
         UNCHANGED <<rank, root, copy>>, RootsStand',
         root[f.v] = root[f.asked] /\ root[f.old] = root[f.asked],
         label = "climb" => /\ root[f.ancestor] = root[f.asked]
                            /\ f.ancestor = f.v => f.v = root[f.asked],
         label # "climb" => f.ancestor = root[f.asked]
  PROVE  IInv'
<1>1. TypeOK'
  BY DEF IInv, TypeOK, RootsStand, LeadsTo, Doing
<1>2. RootsOf(rank, root)'
  BY DEF IInv
<1>3. ASSUME NEW s \in Thread
      PROVE  FindOnPath(s)' /\ CopyOnPath(s)'
  <2>1. FindOnPath(s) /\ CopyOnPath(s)
    BY DEF IInv
  <2>2. CASE s = t
    BY <2>1, <2>2 DEF IInv, TypeOK, FindOnPath, CopyOnPath, Doing
  <2>3. CASE s # t
    BY <2>1, <2>3 DEF IInv, TypeOK, FindOnPath, CopyOnPath
  <2> QED
    BY <2>2, <2>3
<1> QED
  BY <1>1, <1>2, <1>3 DEF IInv

\* Thread t is outside a find before and after; its copy is p.
LEMMA CopyStep ==
  ASSUME IInv, NEW t \in Thread, NEW label \in {"idle", "copy", "copied"}, NEW p,
         pc' = [pc EXCEPT ![t] = label], copy' = [copy EXCEPT ![t] = p],
         find' = [find EXCEPT ![t] = Idle], UNCHANGED <<parent, rank, root>>,
         p \in [DOMAIN p -> Id] /\ DOMAIN p \subseteq Id,
         \A i \in DOMAIN p : Leads(i, p[i], rank, root),
         label = "copied" => DOMAIN p = Id
  PROVE  IInv'
<1>1. TypeOK'
  BY DEF IInv, TypeOK
<1>2. RootsOf(rank, root)' /\ RootsStand'
  BY DEF IInv, RootsStand
<1>3. ASSUME NEW s \in Thread
      PROVE  FindOnPath(s)' /\ CopyOnPath(s)'
  <2>1. FindOnPath(s) /\ CopyOnPath(s)
    BY DEF IInv
  <2>2. CASE s = t
    BY <2>1, <2>2 DEF IInv, TypeOK, FindOnPath, CopyOnPath
  <2>3. CASE s # t
    BY <2>1, <2>3 DEF IInv, TypeOK, FindOnPath, CopyOnPath
  <2> QED
    BY <2>2, <2>3
<1> QED
  BY <1>1, <1>2, <1>3 DEF IInv

LEMMA InitEstablishes == Init => IInv
<1> SUFFICES ASSUME Init PROVE IInv
  OBVIOUS
<1>1. PICK f \in Forest : parent = f.parent /\ rank = f.rank /\ root = f.root
  BY DEF Init
<1>2. RootsOf(rank, root) /\ LeadsTo(parent, rank, root)
      /\ root \in [Id -> Id] /\ rank \in [Id -> Nat]
  BY <1>1, ForestAssumption
<1>3. TypeOK
  BY <1>2 DEF Init, TypeOK, LeadsTo, Nothing
<1>4. \A t \in Thread : FindOnPath(t) /\ CopyOnPath(t)
  BY DEF Init, FindOnPath, CopyOnPath, Nothing
<1> QED
  BY <1>2, <1>3, <1>4 DEF IInv, RootsStand

\* The locals of a thread in a find.
LEMMA FindFacts ==
  ASSUME IInv, NEW t \in Thread, pc[t] \in Doing
  PROVE  /\ find[t] \in [asked : Id, v : Id, old : Id, ancestor : Id]
         /\ find[t].asked \in Id /\ find[t].v \in Id /\ find[t].old \in Id
         /\ find[t].ancestor \in Id
         /\ root[find[t].v] = root[find[t].asked]
         /\ root[find[t].old] = root[find[t].asked]
         /\ pc[t] = "climb" =>
              /\ root[find[t].ancestor] = root[find[t].asked]
              /\ find[t].ancestor = find[t].v => find[t].v = root[find[t].asked]
         /\ pc[t] # "climb" => find[t].ancestor = root[find[t].asked]
<1>1. find[t] \in [asked : Id, v : Id, old : Id, ancestor : Id]
  BY DEF IInv, TypeOK, Doing
<1>2. FindOnPath(t)
  BY DEF IInv
<1> QED
  BY <1>1, <1>2 DEF FindOnPath, Doing

\* The locals after one turn of the first loop.
LEMMA ClimbedLocals ==
  ASSUME NEW f \in [asked : Id, v : Id, old : Id, ancestor : Id],
         NEW a \in Id, NEW b \in Id
  PROVE  /\ [f EXCEPT !.v = a, !.ancestor = b] =
              [asked |-> f.asked, v |-> a, old |-> f.old, ancestor |-> b]
         /\ [f EXCEPT !.v = a, !.ancestor = b]
              \in [asked : Id, v : Id, old : Id, ancestor : Id]
<1>1. PICK g : g = [f EXCEPT !.v = a]
  OBVIOUS
<1>2. g = [asked |-> f.asked, v |-> a, old |-> f.old, ancestor |-> f.ancestor]
  BY <1>1
<1>3. [f EXCEPT !.v = a, !.ancestor = b] = [g EXCEPT !.ancestor = b]
  BY <1>1
<1>4. [g EXCEPT !.ancestor = b] =
        [asked |-> f.asked, v |-> a, old |-> f.old, ancestor |-> b]
  BY <1>2
<1> QED
  BY <1>3, <1>4

\* The table's entries, one by one.
LEMMA TableFacts ==
  ASSUME IInv, NEW i \in Id
  PROVE  /\ parent[i] \in Id /\ root[i] \in Id
         /\ root[parent[i]] = root[i] /\ root[root[i]] = root[i]
         /\ i = root[i] <=> parent[i] = i
BY DEF IInv, TypeOK, RootsOf, RootsStand, LeadsTo, Leads

LEMMA NextPreserves == IInv /\ [Next]_vars => IInv'
<1> SUFFICES ASSUME IInv, [Next]_vars PROVE IInv'
  OBVIOUS
<1>0. /\ pc \in [Thread -> {"idle", "climb", "compress", "advance", "returned",
                            "copy", "copied"}]
      /\ find = [t \in Thread |-> find[t]]
      /\ copy = [t \in Thread |-> copy[t]]
  BY DEF IInv, TypeOK
<1>1. ASSUME NEW t \in Thread, NEW i \in Id, Ask(t, i)
      PROVE  IInv'
  <2> DEFINE f == [asked |-> i, v |-> i, old |-> i, ancestor |-> parent[i]]
  <2>1. f \in [asked : Id, v : Id, old : Id, ancestor : Id]
    BY TableFacts
  <2>2. root[parent[i]] = root[i] /\ (parent[i] = i => i = root[i])
    BY TableFacts
  <2>3. RootsStand'
    BY <1>1 DEF Ask, IInv, RootsStand
  <2> QED
    BY <1>1, <2>1, <2>2, <2>3, FindStep DEF Ask, Goto, Doing
<1>2. ASSUME NEW t \in Thread, Climb(t)
      PROVE  IInv'
  <2> DEFINE f == [find[t] EXCEPT !.v = find[t].ancestor,
                                  !.ancestor = parent[find[t].ancestor]]
  <2>1. pc[t] \in Doing /\ pc[t] = "climb"
    BY <1>2 DEF Climb, Doing
  <2>0. /\ find[t] \in [asked : Id, v : Id, old : Id, ancestor : Id]
        /\ find[t].ancestor \in Id
    BY <2>1, FindFacts
  <2>a. parent[find[t].ancestor] \in Id
    BY <2>0, TableFacts
  <2>2. /\ f = [asked |-> find[t].asked, v |-> find[t].ancestor,
                old |-> find[t].old, ancestor |-> parent[find[t].ancestor]]
        /\ f \in [asked : Id, v : Id, old : Id, ancestor : Id]
    BY <2>0, <2>a, ClimbedLocals
  <2>3. /\ root[f.v] = root[f.asked] /\ root[f.old] = root[f.asked]
        /\ root[f.ancestor] = root[f.asked]
        /\ f.ancestor = f.v => f.v = root[f.asked]
    BY <2>1, <2>2, FindFacts, TableFacts
  <2>4. RootsStand'
    BY <1>2 DEF Climb, IInv, RootsStand
  <2>5. find' = [find EXCEPT ![t] = f]
    BY <1>2, <2>1 DEF Climb
  <2>6. pc' = [pc EXCEPT ![t] = "climb"]
    BY <1>0, <1>2 DEF Climb
  <2> HIDE DEF f
  <2> QED
    BY <1>2, <2>2, <2>3, <2>4, <2>5, <2>6, FindStep DEF Climb, Doing
<1>3. ASSUME NEW t \in Thread, Restart(t) \/ Advance(t)
      PROVE  IInv'
  <2> DEFINE f == [find[t] EXCEPT !.v = parent[find[t].old]]
  <2>1. pc[t] \in Doing /\ (pc[t] = "climb" => find[t].ancestor = find[t].v)
    BY <1>3 DEF Restart, Advance, Doing
  <2>2. /\ f = [asked |-> find[t].asked, v |-> parent[find[t].old],
                old |-> find[t].old, ancestor |-> find[t].ancestor]
        /\ f \in [asked : Id, v : Id, old : Id, ancestor : Id]
    BY <2>1, FindFacts, TableFacts
  <2>3. /\ root[f.v] = root[f.asked] /\ root[f.old] = root[f.asked]
        /\ f.ancestor = root[f.asked]
    BY <2>1, <2>2, FindFacts, TableFacts
  <2>4. RootsStand'
    BY <1>3 DEF Restart, Advance, IInv, RootsStand
  <2>5. find' = [find EXCEPT ![t] = f]
    BY <1>3 DEF Restart, Advance
  <2>6. pc' = [pc EXCEPT ![t] = "compress"]
    BY <1>3 DEF Restart, Advance, Goto
  <2> HIDE DEF f
  <2> QED
    BY <1>3, <2>2, <2>3, <2>4, <2>5, <2>6, FindStep DEF Restart, Advance, Doing
<1>4. ASSUME NEW t \in Thread, Compress(t)
      PROVE  IInv'
  <2> DEFINE f == [find[t] EXCEPT !.old = find[t].v]
             o == find[t].old
             a == find[t].ancestor
  <2>1. pc[t] \in Doing /\ pc[t] = "compress"
    BY <1>4 DEF Compress, Doing
  <2>2. /\ f = [asked |-> find[t].asked, v |-> find[t].v,
                old |-> find[t].v, ancestor |-> find[t].ancestor]
        /\ f \in [asked : Id, v : Id, old : Id, ancestor : Id]
    BY <2>1, FindFacts
  <2>3. /\ root[f.v] = root[f.asked] /\ root[f.old] = root[f.asked]
        /\ f.ancestor = root[f.asked]
    BY <2>1, <2>2, FindFacts
  <2>4. RootsStand'
    <3>1. o \in Id /\ a \in Id /\ a = root[o]
      BY <2>1, FindFacts
    <3>2. Leads(o, a, rank, root)
      BY <3>1 DEF IInv, RootsOf, Leads
    <3>3. parent' = [parent EXCEPT ![o] = a] /\ UNCHANGED <<rank, root>>
      BY <1>4 DEF Compress
    <3>4. LeadsTo(parent, rank, root)
      BY DEF IInv, RootsStand
    <3> HIDE DEF o, a
    <3>5. LeadsTo(parent', rank, root)
      BY <3>1, <3>2, <3>3, <3>4 DEF LeadsTo
    <3> QED
      BY <3>3, <3>5 DEF RootsStand
  <2>5. find' = [find EXCEPT ![t] = f]
    BY <1>4 DEF Compress
  <2>6. pc' = [pc EXCEPT ![t] = "advance"]
    BY <1>4 DEF Compress, Goto
  <2> HIDE DEF f
  <2> QED
    BY <1>4, <2>2, <2>3, <2>4, <2>5, <2>6, FindStep DEF Compress, Doing
<1>5. ASSUME NEW t \in Thread, Return(t)
      PROVE  IInv'
  <2>1. pc[t] \in Doing /\ pc[t] = "compress"
    BY <1>5 DEF Return, Doing
  <2>2. find' = [find EXCEPT ![t] = find[t]]
    BY <1>0, <1>5 DEF Return
  <2>3. RootsStand'
    BY <1>5 DEF Return, IInv, RootsStand
  <2> QED
    BY <1>5, <2>1, <2>2, <2>3, FindFacts, FindStep DEF Return, Goto, Doing
<1>6. ASSUME NEW t \in Thread, BeginCopy(t)
      PROVE  IInv'
  <2>1. find' = [find EXCEPT ![t] = Idle] /\ copy' = [copy EXCEPT ![t] = copy[t]]
    BY <1>0, <1>6 DEF BeginCopy, IInv, TypeOK
  <2>2. /\ copy[t] \in [DOMAIN copy[t] -> Id] /\ DOMAIN copy[t] \subseteq Id
        /\ \A i \in DOMAIN copy[t] : Leads(i, copy[t][i], rank, root)
    BY DEF IInv, TypeOK, CopyOnPath
  <2> QED
    BY <1>6, <2>1, <2>2, CopyStep DEF BeginCopy, Goto
<1>7. ASSUME NEW t \in Thread, NEW i \in Id, CopyEntry(t, i)
      PROVE  IInv'
  <2> DEFINE p == [j \in DOMAIN copy[t] \cup {i} |->
                     IF j = i THEN parent[i] ELSE copy[t][j]]
  <2>0. find[t] = Idle /\ pc[t] = "copy"
    BY <1>7 DEF CopyEntry, IInv, TypeOK
  <2>1. find' = [find EXCEPT ![t] = Idle] /\ pc' = [pc EXCEPT ![t] = "copy"]
    BY <1>0, <1>7, <2>0 DEF CopyEntry
  <2>2. copy' = [copy EXCEPT ![t] = p]
    BY <1>7 DEF CopyEntry
  <2>3. /\ copy[t] \in [DOMAIN copy[t] -> Id] /\ DOMAIN copy[t] \subseteq Id
        /\ \A j \in DOMAIN copy[t] : Leads(j, copy[t][j], rank, root)
        /\ Leads(i, parent[i], rank, root) /\ parent[i] \in Id
    BY DEF IInv, TypeOK, CopyOnPath, RootsStand, LeadsTo
  <2>4. p \in [DOMAIN p -> Id] /\ DOMAIN p \subseteq Id
    BY <2>3
  <2>5. \A j \in DOMAIN p : Leads(j, p[j], rank, root)
    BY <2>3
  <2> HIDE DEF p
  <2> QED
    BY <1>7, <2>1, <2>2, <2>4, <2>5, CopyStep DEF CopyEntry
<1>8. ASSUME NEW t \in Thread, EndCopy(t)
      PROVE  IInv'
  <2>1. find' = [find EXCEPT ![t] = Idle] /\ copy' = [copy EXCEPT ![t] = copy[t]]
    BY <1>0, <1>8 DEF EndCopy, IInv, TypeOK
  <2>2. /\ copy[t] \in [DOMAIN copy[t] -> Id] /\ DOMAIN copy[t] \subseteq Id
        /\ \A i \in DOMAIN copy[t] : Leads(i, copy[t][i], rank, root)
    BY DEF IInv, TypeOK, CopyOnPath
  <2> QED
    BY <1>8, <2>1, <2>2, CopyStep DEF EndCopy, Goto
<1>9. ASSUME NEW t \in Thread, Resume(t)
      PROVE  IInv'
  <2>1. Nothing \in [DOMAIN Nothing -> Id] /\ DOMAIN Nothing = {}
    BY DEF Nothing
  <2> QED
    BY <1>9, <2>1, CopyStep DEF Resume, Goto
<1>10. CASE UNCHANGED vars
  <2>1. TypeOK' /\ RootsOf(rank, root)' /\ RootsStand'
    BY <1>10 DEF IInv, TypeOK, RootsStand, vars
  <2>2. \A t \in Thread : FindOnPath(t)' /\ CopyOnPath(t)'
    BY <1>10 DEF IInv, FindOnPath, CopyOnPath, vars
  <2> QED
    BY <2>1, <2>2 DEF IInv
<1> QED
  BY <1>1, <1>2, <1>3, <1>4, <1>5, <1>6, <1>7, <1>8, <1>9, <1>10 DEF Next, Inside

\* The inductive invariant holds for any threads and any forest.
THEOREM Invariance == Spec => []IInv
BY InitEstablishes, NextPreserves, PTL DEF Spec

\* No mix of compressions changes where the table leads: MapView's reads do not
\* disturb one another.
THEOREM RootsAlwaysStand == Spec => []RootsStand
<1>1. IInv => RootsStand
  BY DEF IInv
<1> QED
  BY <1>1, Invariance, PTL

\* at() always returns the representative.
THEOREM AlwaysFindsRoot == Spec => []FindsRoot
<1>1. IInv => FindsRoot
  BY DEF IInv, FindsRoot, FindOnPath
<1> QED
  BY <1>1, Invariance, PTL

\* A union-find copied while it is being compressed has the same representatives.
THEOREM CopyAlwaysLeadsToRoots == Spec => []CopyLeadsToRoots
<1>1. IInv => CopyLeadsToRoots
  BY DEF IInv, CopyLeadsToRoots, CopyOnPath, TypeOK, LeadsTo
<1> QED
  BY <1>1, Invariance, PTL
=============================================================================
