------------------------------ MODULE UnionFind ------------------------------
(***************************************************************************)
(* util::UnionFind: boost's forest of parents with ranks, in two vectors   *)
(* that grow with the elements, and the disjoint_sets object that keeps    *)
(* raw pointers into them.                                                 *)
(*                                                                         *)
(* A vector's memory is a buffer; heap is the memory that is allocated.    *)
(* Growing may move a vector to another buffer or leave it in place, as    *)
(* its capacity decides.                                                   *)
(***************************************************************************)
EXTENDS DisjointSets, Sequences, Functions

CONSTANTS
  Object,    \* the variables of type UnionFind
  Elem,      \* the elements
  Lists,     \* the initializer lists: non-empty, without repetitions
  Buffer,    \* the addresses of buffers
  NoBuffer   \* the address of an empty vector

ASSUME NoBufferAssumption == NoBuffer \notin Buffer

ASSUME ListsAssumption ==
  \A list \in Lists : list \in Seq(Elem) /\ list # <<>> /\ IsInjective(list)

VARIABLES
  object,    \* object[o]: the fields of each constructed object o
  moved,     \* the objects whose value was moved away
  heap       \* heap[b]: the contents of each allocated buffer b

vars == <<object, moved, heap>>

Live   == DOMAIN object
Usable == Live \ moved
Free   == Buffer \ DOMAIN heap

-----------------------------------------------------------------------------
(***************************************************************************)
(* Objects.  id is handle_to_id, whose inverse is id_to_handle; uf holds   *)
(* the pointers of the disjoint_sets.                                      *)
(***************************************************************************)
Fields(rank, parent, id, uf) ==
  [rank |-> rank, parent |-> parent, id |-> id, uf |-> uf]

Pointers(rank, parent) == [rank |-> rank, parent |-> parent]

Buffers(o) == {object[o].rank, object[o].parent} \ {NoBuffer}

\* The heap after the buffers of dead are freed and those of new are written.
Written(new, dead) ==
  [b \in (DOMAIN heap \ dead) \cup DOMAIN new |->
     IF b \in DOMAIN new THEN new[b] ELSE heap[b]]

Assign(o, fields) ==
  object' = [p \in Live \cup {o} |-> IF p = o THEN fields ELSE object[p]]

Zeros(n) == [i \in 0..(n - 1) |-> 0]

-----------------------------------------------------------------------------
(***************************************************************************)
(* Actions.                                                                *)
(***************************************************************************)
Init ==
  /\ object = [o \in {} |-> o]
  /\ moved = {}
  /\ heap = [b \in {} |-> b]

\* UnionFind(): two vectors of one zero.
Construct(o) ==
  /\ o \notin Live
  /\ \E rank, parent \in Free :
       /\ rank # parent
       /\ heap' = Written([b \in {rank, parent} |-> Zeros(1)], {})
       /\ Assign(o, Fields(rank, parent, [e \in {} |-> 0], Pointers(rank, parent)))
  /\ UNCHANGED moved

\* The ids of an initializer list, in its order.
Listed(list) == [e \in Range(list) |-> (CHOOSE i \in DOMAIN list : list[i] = e) - 1]

\* UnionFind({...}), of elements that differ: vectors as long as the list, and
\* make_set of every id.
ConstructOf(o, list) ==
  /\ o \notin Live
  /\ \E rank, parent \in Free :
       /\ rank # parent
       /\ heap' = Written([b \in {rank, parent} |->
                            IF b = rank THEN Zeros(Len(list))
                            ELSE [i \in 0..(Len(list) - 1) |-> i]], {})
       /\ Assign(o, Fields(rank, parent, Listed(list), Pointers(rank, parent)))
  /\ UNCHANGED moved

\* operator[] of an element that is known, or at: find_set.
Find(o, e) ==
  /\ o \in Usable
  /\ e \in DOMAIN object[o].id
  /\ LET parent == object[o].uf.parent
     IN  heap' = [heap EXCEPT ![parent] = Compress(@, object[o].id[e])]
  /\ UNCHANGED <<object, moved>>

\* (A mutation of Refreshed: only a move of the parents is noticed.)
RefreshedForParent(o, rank, parent) ==
  IF parent # object[o].parent THEN Pointers(rank, parent) ELSE object[o].uf

\* The pointers after grow left the vectors at rank and parent.
Refreshed(o, rank, parent) ==
  IF parent # object[o].parent \/ rank # object[o].rank
  THEN Pointers(rank, parent)
  ELSE object[o].uf

\* (A mutation of MakeSet: the entries stay as the vectors were grown.)
MakeSetNot(mem, uf, i) == mem

\* make_set(i), written through the pointers.
MakeSet(mem, uf, i) ==
  [b \in DOMAIN mem |-> IF b = uf.parent THEN [mem[b] EXCEPT ![i] = i]
                        ELSE IF b = uf.rank THEN [mem[b] EXCEPT ![i] = 0]
                        ELSE mem[b]]

\* The tables have an entry for one more element: they start with one.
HasRoom(o) ==
  Cardinality(DOMAIN object[o].id) + 1 <= Cardinality(DOMAIN heap[object[o].rank])

\* The ids once e has the next one.
Numbered(o, e) ==
  [f \in DOMAIN object[o].id \cup {e} |->
     IF f = e THEN Cardinality(DOMAIN object[o].id) ELSE object[o].id[f]]

\* A table with one more zero.
Longer(table) ==
  [i \in DOMAIN table \cup {Cardinality(DOMAIN table)} |->
     IF i \in DOMAIN table THEN table[i] ELSE 0]

\* operator[] of a new element, when the tables have room for it.
AddInPlace(o, e) ==
  /\ o \in Usable
  /\ e \notin DOMAIN object[o].id
  /\ HasRoom(o)
  /\ heap' = MakeSet(heap, object[o].uf, Cardinality(DOMAIN object[o].id))
  /\ Assign(o, [object[o] EXCEPT !.id = Numbered(o, e)])
  /\ UNCHANGED moved

\* operator[] of a new element, when the tables must grow by one entry: parent
\* first, then rank, each to another buffer or in place.
AddGrowing(o, e) ==
  LET old == object[o]
  IN  /\ o \in Usable
      /\ e \notin DOMAIN old.id
      /\ ~HasRoom(o)
      /\ \E parent \in Free \cup {old.parent} :
         \E rank \in ((Free \cup {old.parent}) \ {parent}) \cup {old.rank} :
           LET grown == Written([b \in {rank, parent} |->
                                   Longer(heap[IF b = parent THEN old.parent
                                                             ELSE old.rank])],
                                Buffers(o))
               uf    == Refreshed(o, rank, parent)
           IN  /\ heap' = MakeSet(grown, uf, Cardinality(DOMAIN old.id))
               /\ Assign(o, Fields(rank, parent, Numbered(o, e), uf))
      /\ UNCHANGED moved

UnionSets(o, a, b) ==
  /\ o \in Usable
  /\ {a, b} \subseteq DOMAIN object[o].id
  /\ LET uf   == object[o].uf
         next == UnionSet(heap[uf.parent], heap[uf.rank],
                          object[o].id[a], object[o].id[b])
     IN  heap' = [heap EXCEPT ![uf.parent] = next.parent, ![uf.rank] = next.rank]
  /\ UNCHANGED <<object, moved>>

\* (A mutation of DisconnectAllSets: the parents are reset, and not the ranks.)
DisconnectAllSetsKeepingRanks(o) ==
  /\ o \in Usable
  /\ LET uf  == object[o].uf
         ids == {object[o].id[e] : e \in DOMAIN object[o].id}
     IN  heap' = [heap EXCEPT
                    ![uf.parent] = [i \in DOMAIN @ |-> IF i \in ids THEN i ELSE @[i]]]
  /\ UNCHANGED <<object, moved>>

\* disconnect_all_sets: make_set of every id.
DisconnectAllSets(o) ==
  /\ o \in Usable
  /\ LET uf  == object[o].uf
         ids == {object[o].id[e] : e \in DOMAIN object[o].id}
     IN  heap' = [heap EXCEPT
                    ![uf.parent] = [i \in DOMAIN @ |-> IF i \in ids THEN i ELSE @[i]],
                    ![uf.rank]   = [i \in DOMAIN @ |-> IF i \in ids THEN 0 ELSE @[i]]]
  /\ UNCHANGED <<object, moved>>

\* The pointers of a copy of p whose vectors are at rank and parent.
CopyPointers(p, rank, parent) == Pointers(rank, parent)

\* UnionFind(const UnionFind&), into o, and o = p: the vectors are copied, an
\* assigned vector being reused if its capacity allows.
CopyFrom(o, p) ==
  LET own == IF o \in Live THEN object[o] ELSE Fields(NoBuffer, NoBuffer, {}, {})
  IN  /\ p \in Usable
      /\ o # p
      /\ \E rank \in Free \cup ({own.rank} \ {NoBuffer}),
            parent \in Free \cup ({own.parent} \ {NoBuffer}) :
           /\ rank # parent
           /\ heap' = Written([b \in {rank, parent} |->
                               heap[IF b = rank THEN object[p].rank
                                                ELSE object[p].parent]],
                            IF o \in Live THEN Buffers(o) ELSE {})
           /\ Assign(o, Fields(rank, parent, object[p].id,
                               CopyPointers(p, rank, parent)))
      /\ moved' = moved \ {o}

\* UnionFind(UnionFind&&), into o: p is left with empty vectors.
MoveConstruct(o, p) ==
  /\ o \notin Live
  /\ p \in Usable
  /\ object' = [q \in Live \cup {o} |->
       IF q = o
       THEN [object[p] EXCEPT !.uf = Pointers(object[p].rank, object[p].parent)]
       ELSE IF q = p
       THEN Fields(NoBuffer, NoBuffer, [e \in {} |-> 0], object[p].uf)
       ELSE object[q]]
  /\ moved' = moved \cup {p}
  /\ UNCHANGED heap

\* o = std::move(p): the tables are exchanged, and the pointers of o refreshed;
\* those of p still point at its former tables, now those of o.
MoveAssign(o, p) ==
  /\ o \in Live
  /\ p \in Usable
  /\ o # p
  /\ object' = [object EXCEPT
       ![o] = [object[p] EXCEPT !.uf = Pointers(object[p].rank, object[p].parent)],
       ![p] = [object[o] EXCEPT !.uf = object[p].uf]]
  /\ moved' = (moved \ {o}) \cup {p}
  /\ UNCHANGED heap

\* ~UnionFind().
Destroy(o) ==
  /\ o \in Live
  /\ heap' = Written([b \in {} |-> 0], Buffers(o))
  /\ object' = [p \in Live \ {o} |-> object[p]]
  /\ moved' = moved \ {o}

Next ==
  \E o \in Object :
    \/ Construct(o) \/ DisconnectAllSets(o) \/ Destroy(o)
    \/ \E list \in Lists : ConstructOf(o, list)
    \/ \E e \in Elem : Find(o, e) \/ AddInPlace(o, e) \/ AddGrowing(o, e)
    \/ \E a, b \in Elem : UnionSets(o, a, b)
    \/ \E p \in Object : CopyFrom(o, p) \/ MoveConstruct(o, p) \/ MoveAssign(o, p)

Spec == Init /\ [][Next]_vars

-----------------------------------------------------------------------------
(***************************************************************************)
(* Properties.                                                             *)
(***************************************************************************)
Tables(o) == Pointers(object[o].rank, object[o].parent)

Elems(o) == DOMAIN object[o].id

\* The disjoint_sets of an object point at that object's tables, which are its
\* own and are never freed under it; a growth that moves a table, a copy and a
\* move must all refresh them.
PointersOwn ==
  /\ \A o \in Usable : object[o].uf = Tables(o)
  /\ \A o \in Live : Buffers(o) \subseteq DOMAIN heap
  /\ \A o, p \in Live : o # p => Buffers(o) \cap Buffers(p) = {}
  /\ DOMAIN heap = UNION {Buffers(o) : o \in Live}

\* Ranks grow along the parents and a root of rank r has at least 2^r members,
\* so a find visits at most log2(n) + 1 ids: compression and the linking by rank
\* keep it so in every order of calls.
ShallowForest ==
  \A o \in Usable :
    LET parent == heap[object[o].parent]
        rank   == heap[object[o].rank]
    IN  \A i \in DOMAIN parent :
          /\ parent[i] # i => rank[i] < rank[parent[i]]
          /\ parent[i] = i =>
               2^rank[i] <= Cardinality({j \in DOMAIN parent :
                                           Root(parent)[j] = i})

\* (A mutation of CountSets: an object without elements is not told apart.)
CountRoots(o) ==
  Cardinality({i \in DOMAIN heap[object[o].rank] : heap[object[o].parent][i] = i})

\* count_sets counts the roots of the whole table, once there are elements.
CountSets(o) ==
  IF Elems(o) = {} THEN 0
  ELSE Cardinality({i \in DOMAIN heap[object[o].rank] :
                      heap[object[o].parent][i] = i})

\* id_to_handle.at(find_set(handle_to_id.at(e))).
At(o, e) ==
  LET root == Root(heap[object[o].uf.parent])[object[o].id[e]]
  IN  CHOOSE f \in Elems(o) : object[o].id[f] = root

\* The representatives that at() returns, for each object.
Partitions == [o \in Usable |-> [e \in Elems(o) |-> At(o, e)]]

\* count_sets is the number of representatives: the entry that an empty object
\* already has in its tables is never counted twice.
CountSetsExact ==
  \A o \in Usable :
    CountSets(o) = Cardinality({At(o, e) : e \in Elems(o)})

\* Every object is a partition of its own, with stable representatives.
Abstract == INSTANCE PartitionStore WITH part <- Partitions

IndependentPartitions == Abstract!Spec
=============================================================================
