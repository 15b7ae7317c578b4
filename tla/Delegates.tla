------------------------------ MODULE Delegates ------------------------------
(***************************************************************************)
(* The polymorphic build: GraphDelegate, GraphDomain, any_iterator and     *)
(* PatherStateDelegate each hold a pointer to an object of a class known   *)
(* to the program only by its interface, and own it.  The first two and    *)
(* the iterators copy by cloning; the last can only be moved.              *)
(*                                                                         *)
(* A range-for over graph.domain(), as in rebuild, runs among the other    *)
(* operations, which stand for its body and for what other objects do.     *)
(***************************************************************************)
EXTENDS Integers, Sequences

CONSTANTS
  Graph,      \* the GraphDelegates of the program
  Domain,     \* its GraphDomains
  Iterator,   \* its any_iterators
  State,      \* its PatherStateDelegates
  IteratorClass,      \* the instance of any_iterator that each iterator is
  Range, First, Last, \* the temporaries of the range-for
  Address,    \* where objects, and what they own, can be allocated
  Size,       \* the numbers of cells of graphs
  Content     \* what set_cost, set_color and the setters of a state can write

Handle == Graph \cup Domain \cup Iterator \cup State

\* The instances of any_iterator that can wrap a CoordRange::const_iterator, which
\* is single-pass: the traversal, and whether the reference is to const.
single_pass  == 2
incrementable == 1
IteratorClasses == [traversal : {incrementable, single_pass}, const : BOOLEAN]

DomainIterator == [traversal |-> single_pass, const |-> TRUE]

\* The instances that a CoordRange::const_iterator fits in: its traversal converts
\* to theirs, and it gives its cells as const.  (What the metafunction says of
\* references that are not to const is of no matter: wrapping would not compile.)
is_iterator_type_erasure_compatible(class) ==
  class.const /\ class.traversal <= single_pass

\* What the objects of each class keep.
PolymorphicEuclideanGraph          == [size : Size, content : Content]
PolymorphicEuclideanGraphDomain    == [size : Size]
PolymorphicEuclideanStateInterface == [content : Content]
any_iterator_wrapper               == [pos : Nat, size : Size]

ASSUME HandleAssumption ==
  /\ IteratorClass \in [Iterator -> IteratorClasses]
  /\ Range \in Domain
  /\ {First, Last} \subseteq Iterator
  /\ First # Last
  /\ IteratorClass[First] = DomainIterator
  /\ IteratorClass[Last] = DomainIterator

\* A variable is of one type.
ASSUME KindAssumption ==
  /\ Graph \cap (Domain \cup Iterator \cup State) = {}
  /\ Domain \cap (Iterator \cup State) = {}
  /\ Iterator \cap State = {}

ASSUME SizeAssumption == Size \subseteq Nat

VARIABLES
  holds,   \* of each living handle, the address it holds; {} for a null pointer
  heap,    \* the objects allocated
  grids,   \* of the states allocated, the vectors that their grids keep, by the
           \* addresses of the states: they may be there when the state is not
  loop     \* how far the range-for is: what it has visited, of how many cells

vars == <<holds, heap, grids, loop>>

Living == DOMAIN holds

\* The object that the calls of a handle are forwarded to.
Object(h) == heap[CHOOSE a \in holds[h] : TRUE]

Null(h) == holds[h] = {}

ClassOf(h) ==
  IF h \in Iterator THEN IteratorClass[h]
  ELSE [traversal |-> IF h \in Graph THEN -1 ELSE IF h \in Domain THEN -2 ELSE -3,
        const |-> FALSE]

ValuesOf(h) ==
  CASE h \in Graph    -> PolymorphicEuclideanGraph
    [] h \in Domain   -> PolymorphicEuclideanGraphDomain
    [] h \in State    -> PolymorphicEuclideanStateInterface
    [] h \in Iterator -> any_iterator_wrapper

NoLoop == [at |-> "outside", visited |-> <<>>, size |-> 0]

Init ==
  /\ holds = [h \in {} |-> {}]
  /\ heap  = [a \in {} |-> {}]
  /\ grids = {}
  /\ loop  = NoLoop

\* The temporaries of the range-for have no names.
Free(h) == loop.at # "outside" => h \notin {Range, First, Last}

-----------------------------------------------------------------------------
(***************************************************************************)
(* Pointers.                                                               *)
(***************************************************************************)
Allocated == DOMAIN heap \cup grids

\* A new object for h, constructed or assigned to; what h held is deleted once it
\* holds the new one.  States are not assigned to like this.
Hold(h, class, value) ==
  LET old == IF h \in Living THEN holds[h] ELSE {}
  IN  \E new \in Address \ Allocated :
        /\ \A a \in Address \ Allocated : new <= a
        /\ holds' = [k \in Living \cup {h} |-> IF k = h THEN {new} ELSE holds[k]]
        /\ heap'  = [a \in (DOMAIN heap \ old) \cup {new} |->
                       IF a = new THEN [class |-> class, value |-> value] ELSE heap[a]]
        /\ grids' = IF h \in State THEN grids \cup {new} ELSE grids

\* (A mutation of HoldClone: the pointer is copied.)
HoldCloneShared(h, k) ==
  /\ holds' = [x \in Living \cup {h} |-> IF x = h THEN holds[k] ELSE holds[x]]
  /\ UNCHANGED <<heap, grids>>

\* clone() and lazy_clone() make another object of the class of the one held.
HoldClone(h, k) == Hold(h, Object(k).class, Object(k).value)

HoldNothing(h) ==
  LET old == IF h \in Living THEN holds[h] ELSE {}
  IN  /\ holds' = [k \in Living \cup {h} |-> IF k = h THEN {} ELSE holds[k]]
      /\ heap' = [a \in DOMAIN heap \ old |-> heap[a]]
      /\ UNCHANGED grids

Change(h, value) ==
  /\ heap' = [a \in DOMAIN heap |->
                IF a \in holds[h] THEN [heap[a] EXCEPT !.value = value] ELSE heap[a]]
  /\ UNCHANGED <<holds, grids>>

\* The deletion of objects that handles own.  An interface with a virtual destructor
\* takes what the object owns along; that of the states has none, and the
\* language leaves open what then becomes of the vectors: a compiler that
\* destroys what it sees, an interface, leaves them where they are.
Delete(old) ==
  /\ heap' = [a \in DOMAIN heap \ old |-> heap[a]]
  /\ grids' \in {grids, grids \ old}

Destroy(gone) ==
  /\ holds' = [h \in Living \ gone |-> holds[h]]
  /\ Delete(UNION {holds[h] : h \in gone})

-----------------------------------------------------------------------------
(***************************************************************************)
(* GraphDelegate, over a PolymorphicEuclideanGraph.                        *)
(***************************************************************************)
\* GraphDelegate(std::unique_ptr<GraphInterface>).
MakeGraph(g) ==
  /\ g \notin Living
  /\ \E graph \in PolymorphicEuclideanGraph : Hold(g, ClassOf(g), graph)
  /\ UNCHANGED loop

\* The copy constructor, and lazy_clone; moves are copies, for want of a move
\* constructor.  A default GraphDelegate is assigned to before anything else.
CopyGraph(g, h) ==
  /\ g \notin Living
  /\ HoldClone(g, h)
  /\ UNCHANGED loop

\* operator=, of a delegate to itself too.
AssignGraph(g, h) ==
  /\ g \in Living
  /\ HoldClone(g, h)
  /\ UNCHANGED loop

\* set_cost, set_color, fill_color.
WriteGraph(g) ==
  /\ \E c \in Content : Change(g, [Object(g).value EXCEPT !.content = c])
  /\ UNCHANGED loop

-----------------------------------------------------------------------------
(***************************************************************************)
(* GraphDomain, over a PolymorphicEuclideanGraphDomain: it knows the size  *)
(* of the graph, and nothing more of it.                                   *)
(***************************************************************************)
\* A new object, of the size alone.
HoldDomain(d, g) == Hold(d, ClassOf(d), [size |-> Object(g).value.size])

\* domain().
TakeDomain(d, g) ==
  /\ d \notin Living
  /\ HoldDomain(d, g)
  /\ UNCHANGED loop

\* The copy constructor.
CopyDomain(d, e) ==
  /\ d \notin Living
  /\ HoldClone(d, e)
  /\ UNCHANGED loop

AssignDomain(d, e) ==
  /\ d \in Living
  /\ HoldClone(d, e)
  /\ UNCHANGED loop

-----------------------------------------------------------------------------
(***************************************************************************)
(* any_iterator, over a CoordRange::const_iterator.                        *)
(***************************************************************************)
\* An any_iterator made of a const_iterator of the domain, at its pos-th cell.
Wrap(i, d, pos) ==
  Hold(i, ClassOf(i), [pos |-> pos, size |-> Object(d).value.size])

\* any_iterator().
MakeNullIterator(i) ==
  /\ i \notin Living
  /\ HoldNothing(i)
  /\ UNCHANGED loop

\* begin() and end(), to construct an iterator or, by a temporary that is swapped
\* with it, to assign to one.
TakeIterator(i, d) ==
  /\ IteratorClass[i] = DomainIterator
  /\ \E pos \in {0, Object(d).value.size} : Wrap(i, d, pos)
  /\ UNCHANGED loop

\* operator= of a const_iterator, which is wrapped in any class it fits in.
AssignWrapped(i, d) ==
  /\ i \in Living
  /\ is_iterator_type_erasure_compatible(IteratorClass[i])
  /\ \E pos \in {0, Object(d).value.size} : Wrap(i, d, pos)
  /\ UNCHANGED loop

HoldIterator(i, j) == IF Null(j) THEN HoldNothing(i) ELSE HoldClone(i, j)

\* The copy constructor.
CopyIterator(i, j) ==
  /\ i \notin Living
  /\ IteratorClass[i] = IteratorClass[j]
  /\ HoldIterator(i, j)
  /\ UNCHANGED loop

\* (A mutation of AssignIterator: the old object is not handed to the temporary.)
AssignIteratorLeaking(i, j) ==
  /\ i \in Living
  /\ IteratorClass[i] = IteratorClass[j]
  /\ ~Null(j)
  /\ \E new \in Address \ Allocated :
       /\ holds' = [holds EXCEPT ![i] = {new}]
       /\ heap'  = [a \in DOMAIN heap \cup {new} |->
                      IF a = new THEN Object(j) ELSE heap[a]]
  /\ UNCHANGED <<grids, loop>>

\* operator=: a copy is swapped in, and takes what i held with it.
AssignIterator(i, j) ==
  /\ i \in Living
  /\ i # j
  /\ IteratorClass[i] = IteratorClass[j]
  /\ HoldIterator(i, j)
  /\ UNCHANGED loop

\* The conversions: to a weaker traversal, or to a reference to const.
Converts(from, to) ==
  \/ to.const = from.const /\ to.traversal <= from.traversal
  \/ to.const /\ to.traversal = from.traversal

\* make_incrementable_version and the clones to const: the same const_iterator in
\* an object of the new class.
HoldVersion(i, j) == Hold(i, ClassOf(i), Object(j).value)

ConvertIterator(i, j) ==
  /\ i \notin Living
  /\ IteratorClass[i] # IteratorClass[j]
  /\ Converts(IteratorClass[j], IteratorClass[i])
  /\ IF Null(j) THEN HoldNothing(i) ELSE HoldVersion(i, j)
  /\ UNCHANGED loop

\* operator++, before the end.
IncrementIterator(i) ==
  /\ ~Null(i)
  /\ Object(i).value.pos < Object(i).value.size
  /\ Change(i, [Object(i).value EXCEPT !.pos = @ + 1])

\* (A mutation of Equal: only the pointers are compared.)
EqualPointers(i, j) == holds[i] = holds[j]

\* The objects' own equal, which casts the second to the class of the first.
EqualWrapped(i, j) == Object(i).value = Object(j).value

\* operator==.
Equal(i, j) == holds[i] = holds[j] \/ (~Null(i) /\ ~Null(j) /\ EqualWrapped(i, j))

-----------------------------------------------------------------------------
(***************************************************************************)
(* PatherStateDelegate, over a PolymorphicEuclideanStateInterface.         *)
(***************************************************************************)
\* PatherStateDelegate(std::unique_ptr<PatherStateInterface>).
MakeState(s) ==
  /\ s \notin Living
  /\ \E state \in PolymorphicEuclideanStateInterface : Hold(s, ClassOf(s), state)
  /\ UNCHANGED loop

\* The implicit move constructor.
MoveState(s, t) ==
  /\ s \notin Living
  /\ holds' = [h \in Living \cup {s} |->
                 IF h = s THEN holds[t] ELSE IF h = t THEN {} ELSE holds[h]]
  /\ UNCHANGED <<heap, grids, loop>>

\* The implicit move assignment, which deletes what s held; that of a state to
\* itself changes nothing.
AssignState(s, t) ==
  /\ s \in Living
  /\ s # t
  /\ holds' = [holds EXCEPT ![s] = holds[t], ![t] = {}]
  /\ Delete(holds[s])
  /\ UNCHANGED loop

\* set_expanded, set_previous, set_distance, clear.
WriteState(s) ==
  /\ ~Null(s)
  /\ \E state \in PolymorphicEuclideanStateInterface : Change(s, state)
  /\ UNCHANGED loop

-----------------------------------------------------------------------------
(***************************************************************************)
(* for (const Coord& c : graph.domain()).                                  *)
(***************************************************************************)
At(place) == loop' = [loop EXCEPT !.at = place]

LoopRange(g) ==
  /\ loop.at = "outside"
  /\ Living \cap {Range, First, Last} = {}
  /\ HoldDomain(Range, g)
  /\ loop' = [at |-> "begin", visited |-> <<>>, size |-> Object(g).value.size]

LoopBegin == loop.at = "begin" /\ Wrap(First, Range, 0) /\ At("end")

LoopEnd ==
  loop.at = "end" /\ Wrap(Last, Range, Object(Range).value.size) /\ At("test")

\* The body has its cell by reference, in the object of the iterator.
LoopTurn ==
  /\ loop.at = "test"
  /\ ~Equal(First, Last)
  /\ loop' = [loop EXCEPT !.at = "body",
                          !.visited = Append(@, Object(First).value.pos)]
  /\ UNCHANGED <<holds, heap, grids>>

LoopIncrement == loop.at = "body" /\ IncrementIterator(First) /\ At("test")

LoopExit ==
  /\ loop.at = "test"
  /\ Equal(First, Last)
  /\ Destroy({Range, First, Last})
  /\ loop' = NoLoop

\* The end of a scope.
Drop(h) ==
  /\ Destroy({h})
  /\ UNCHANGED loop

GraphNext ==
  \/ \E g \in Graph : MakeGraph(g)
  \/ \E g \in Graph, h \in Graph \cap Living : CopyGraph(g, h) \/ AssignGraph(g, h)
  \/ \E g \in Graph \cap Living : WriteGraph(g) \/ LoopRange(g)

DomainNext ==
  \E d \in {e \in Domain : Free(e)} :
    \/ \E g \in Graph \cap Living : TakeDomain(d, g)
    \/ \E e \in {x \in Domain \cap Living : Free(x)} :
         CopyDomain(d, e) \/ AssignDomain(d, e)

IteratorNext ==
  \E i \in {k \in Iterator : Free(k)} :
    \/ MakeNullIterator(i)
    \/ \E d \in {e \in Domain \cap Living : Free(e)} :
         TakeIterator(i, d) \/ AssignWrapped(i, d)
    \/ \E j \in {k \in Iterator \cap Living : Free(k)} :
         CopyIterator(i, j) \/ AssignIterator(i, j) \/ ConvertIterator(i, j)
    \/ i \in Living /\ IncrementIterator(i) /\ UNCHANGED loop

StateNext ==
  \/ \E s \in State : MakeState(s)
  \/ \E s \in State, t \in State \cap Living : MoveState(s, t) \/ AssignState(s, t)
  \/ \E s \in State \cap Living : WriteState(s)

LoopNext == LoopBegin \/ LoopEnd \/ LoopTurn \/ LoopIncrement \/ LoopExit

Next ==
  \/ GraphNext \/ DomainNext \/ IteratorNext \/ StateNext \/ LoopNext
  \/ \E h \in {k \in Living : Free(k)} : Drop(h)

Spec == Init /\ [][Next]_vars

-----------------------------------------------------------------------------
(***************************************************************************)
(* Properties.                                                             *)
(***************************************************************************)
\* Each object is held by one handle, which is of its class and finds there what it
\* expects, so that nothing dangles or is deleted twice, and equal and distance_to
\* may cast what another iterator of the class holds to their own.  A state has
\* its grids as long as it lives.  No object is left behind; what can be is the
\* grids of a state, once it is deleted through its interface.
OwnedOnce ==
  /\ \A a \in DOMAIN heap :
       \E h \in Living : /\ holds[h] = {a}
                         /\ ClassOf(h) = heap[a].class
                         /\ heap[a].value \in ValuesOf(h)
                         /\ a \in grids <=> h \in State
                         /\ \A k \in Living \ {h} : a \notin holds[k]
  /\ UNION {holds[h] : h \in Living} \subseteq DOMAIN heap

\* Behind their pointers, the handles are variables that share nothing.
Promise ==
  INSTANCE Values WITH
    value <- [h \in Living |-> {heap[a].value : a \in holds[h]}]

IndependentValues == Promise!Spec

\* The range-for visits each cell of the graph it began with once, in order,
\* whatever its body does to that graph, to other graphs and to other iterators.
LoopVisitsDomain ==
  loop.at = "test" =>
    /\ loop.visited = [n \in 1..Len(loop.visited) |-> n - 1]
    /\ Equal(First, Last) <=> Len(loop.visited) = loop.size
=============================================================================
