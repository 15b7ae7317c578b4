--------------------------- MODULE DelegatesProofs ---------------------------
(***************************************************************************)
(* The handles of the polymorphic build own their objects, each its own:   *)
(* seen from outside they are the plain variables of Values, and the       *)
(* range-for counts through the cells of the graph it began with.          *)
(***************************************************************************)
EXTENDS Delegates, TLAPS

-----------------------------------------------------------------------------
(***************************************************************************)
(* The invariant.                                                          *)
(***************************************************************************)
\* What a handle holds: nothing, or one object of its class.
HoldsNothing(h) == h \in Iterator \cup State /\ holds[h] = {}

HoldsOne(h) ==
  \E a \in DOMAIN heap : \E v \in ValuesOf(h) :
    holds[h] = {a} /\ heap[a] = [class |-> ClassOf(h), value |-> v]

Held ==
  /\ holds = [h \in DOMAIN holds |-> holds[h]]
  /\ heap = [a \in DOMAIN heap |-> heap[a]]
  /\ Living \subseteq Handle
  /\ \A h \in Living : HoldsNothing(h) \/ HoldsOne(h)

\* No object has two owners.
Apart == \A h, k \in Living : h # k => holds[h] \cap holds[k] = {}

\* No object is left behind.
Reached == \A a \in DOMAIN heap : \E h \in Living : a \in holds[h]

\* The states that live have their grids, and nothing else has: grids at another
\* address are of a state that was deleted.
Furnished == \A h \in Living : \A a \in holds[h] : a \in grids <=> h \in State

Owned == Held /\ Apart /\ Reached /\ Furnished

\* The values behind the pointers, as Values sees them.
Shown == [h \in Living |-> {heap[a].value : a \in holds[h]}]

Cells(n) == [k \in 1..n |-> k - 1]

IteratorAt(n) == {[pos |-> n, size |-> loop.size]}

\* What the temporaries hold at each place of the loop: while the first iterator is
\* not at the end, it is where the number of cells visited says.
Looping ==
  /\ loop = [at |-> loop.at, visited |-> loop.visited, size |-> loop.size]
  /\ loop.at \in {"outside", "begin", "end", "test", "body"}
  /\ loop.at # "outside" =>
       /\ loop.size \in Nat
       /\ Range \in Living
       /\ Shown[Range] = {[size |-> loop.size]}
       /\ \E n \in 0..loop.size : loop.visited = Cells(n)
  /\ loop.at = "begin" => {First, Last} \cap Living = {}
  /\ loop.at \in {"begin", "end"} => loop.visited = <<>>
  /\ loop.at = "end" =>
       /\ First \in Living /\ Last \notin Living
       /\ Shown[First] = IteratorAt(0)
  /\ loop.at \in {"test", "body"} =>
       /\ {First, Last} \subseteq Living
       /\ Shown[Last] = IteratorAt(loop.size)
  /\ loop.at = "test" => Shown[First] = IteratorAt(Len(loop.visited))
  /\ loop.at = "body" => /\ loop.visited # <<>>
                         /\ Shown[First] = IteratorAt(Len(loop.visited) - 1)

DInv == Owned /\ Looping

-----------------------------------------------------------------------------
(***************************************************************************)
(* Handles and what they hold.                                             *)
(***************************************************************************)
\* The object of a handle that is not null, and what it shows.
LEMMA HoldersObject ==
  ASSUME Held, NEW h \in Living, ~Null(h)
  PROVE  /\ HoldsOne(h)
         /\ Object(h) = [class |-> ClassOf(h), value |-> Object(h).value]
         /\ Object(h).class = ClassOf(h)
         /\ Object(h).value \in ValuesOf(h)
         /\ Shown[h] = {Object(h).value}
<1>1. HoldsOne(h)
  BY DEF Held, HoldsNothing, Null
<1>2. PICK a \in DOMAIN heap, v \in ValuesOf(h) :
        holds[h] = {a} /\ heap[a] = [class |-> ClassOf(h), value |-> v]
  BY <1>1 DEF HoldsOne
<1>3. Object(h) = heap[a]
  BY <1>2 DEF Object
<1>4. Shown[h] = {heap[b].value : b \in holds[h]}
  BY DEF Shown
<1>5. Shown[h] = {heap[a].value}
  BY <1>2, <1>4
<1> QED
  BY <1>1, <1>2, <1>3, <1>5

\* A null handle shows nothing.
LEMMA NullShowsNothing ==
  ASSUME NEW h \in Living
  PROVE  Null(h) <=> Shown[h] = {}
BY DEF Shown, Null

\* Graphs and domains are never null.
LEMMA NeverNull ==
  ASSUME Held, NEW h \in Living, h \in Graph \cup Domain
  PROVE  ~Null(h)
<1>1. h \notin Iterator \cup State
  BY KindAssumption
<1> QED
  BY <1>1 DEF Held, HoldsNothing, HoldsOne, Null

\* What each kind of handle keeps.
LEMMA KindsValues ==
  /\ \A h \in Graph    : ValuesOf(h) = PolymorphicEuclideanGraph
  /\ \A h \in Domain   : ValuesOf(h) = PolymorphicEuclideanGraphDomain
  /\ \A h \in State    : ValuesOf(h) = PolymorphicEuclideanStateInterface
  /\ \A h \in Iterator : ValuesOf(h) = any_iterator_wrapper
BY KindAssumption DEF ValuesOf

\* Handles of one kind are of one class, but for the iterators.
LEMMA KindsClass ==
  /\ \A h \in Graph, k \in Graph   : ClassOf(h) = ClassOf(k)
  /\ \A h \in Domain, k \in Domain : ClassOf(h) = ClassOf(k)
  /\ \A h \in State, k \in State   : ClassOf(h) = ClassOf(k)
  /\ \A h \in Iterator             : ClassOf(h) = IteratorClass[h]
<1>1. \A h \in Graph : h \notin Iterator
  BY KindAssumption
<1>2. \A h \in Domain : h \notin Iterator /\ h \notin Graph
  BY KindAssumption
<1>3. \A h \in State : h \notin Iterator /\ h \notin Graph /\ h \notin Domain
  BY KindAssumption
<1> QED
  BY <1>1, <1>2, <1>3 DEF ClassOf

\* The fields of what is shown.
LEMMA GraphShows ==
  ASSUME Held, NEW g \in Graph \cap Living
  PROVE  /\ ~Null(g)
         /\ Object(g).value \in PolymorphicEuclideanGraph
         /\ Object(g).value.size \in Size
         /\ Object(g).value = [size |-> Object(g).value.size,
                               content |-> Object(g).value.content]
         /\ Object(g).class = ClassOf(g)
         /\ Shown[g] = {Object(g).value}
<1>1. ~Null(g)
  BY NeverNull
<1>2. /\ Object(g).value \in PolymorphicEuclideanGraph
      /\ Object(g).class = ClassOf(g)
      /\ Shown[g] = {Object(g).value}
  BY <1>1, HoldersObject, KindsValues
<1> QED
  BY <1>1, <1>2 DEF PolymorphicEuclideanGraph

LEMMA DomainShows ==
  ASSUME Held, NEW d \in Domain \cap Living
  PROVE  /\ ~Null(d)
         /\ Object(d).value \in PolymorphicEuclideanGraphDomain
         /\ Object(d).value.size \in Size
         /\ Object(d).class = ClassOf(d)
         /\ Shown[d] = {Object(d).value}
         /\ Shown[d] = {[size |-> Object(d).value.size]}
<1>1. ~Null(d)
  BY NeverNull
<1>2. /\ Object(d).value \in PolymorphicEuclideanGraphDomain
      /\ Object(d).class = ClassOf(d)
      /\ Shown[d] = {Object(d).value}
  BY <1>1, HoldersObject, KindsValues
<1>3. Object(d).value = [size |-> Object(d).value.size]
  BY <1>2 DEF PolymorphicEuclideanGraphDomain
<1> QED
  BY <1>1, <1>2, <1>3 DEF PolymorphicEuclideanGraphDomain

LEMMA IteratorShows ==
  ASSUME Held, NEW i \in Iterator \cap Living, ~Null(i)
  PROVE  /\ Object(i).value \in any_iterator_wrapper
         /\ Object(i).value.pos \in Nat
         /\ Object(i).value.size \in Size
         /\ Object(i).value = [pos |-> Object(i).value.pos,
                               size |-> Object(i).value.size]
         /\ Object(i).class = IteratorClass[i]
         /\ Shown[i] = {Object(i).value}
<1>1. /\ Object(i).value \in any_iterator_wrapper
      /\ Object(i).class = IteratorClass[i]
      /\ Shown[i] = {Object(i).value}
  BY HoldersObject, KindsValues, KindsClass
<1> QED
  BY <1>1 DEF any_iterator_wrapper

\* The kind of a handle does not change: to hold an object of it is enough.
LEMMA HoldsOneNext ==
  ASSUME NEW h, NEW a \in DOMAIN heap', NEW v \in ValuesOf(h),
         holds'[h] = {a}, heap'[a] = [class |-> ClassOf(h), value |-> v]
  PROVE  HoldsOne(h)'
BY DEF HoldsOne, ClassOf, ValuesOf

-----------------------------------------------------------------------------
(***************************************************************************)
(* What the operations on pointers do to the values behind them.           *)
(***************************************************************************)
\* The shown values with those of one handle put in.
Given(h, v) == [k \in Living \cup {h} |-> IF k = h THEN v ELSE Shown[k]]

\* A new object of the handle's class is its value from then on.
LEMMA HoldGives ==
  ASSUME Owned, NEW h \in Handle, NEW v \in ValuesOf(h), Hold(h, ClassOf(h), v)
  PROVE  /\ Owned'
         /\ Living' = Living \cup {h}
         /\ Shown' = Given(h, {v})
<1> DEFINE old == IF h \in Living THEN holds[h] ELSE {}
           class == ClassOf(h)
<1>1. PICK new \in Address \ Allocated :
        /\ holds' = [k \in Living \cup {h} |-> IF k = h THEN {new} ELSE holds[k]]
        /\ heap'  = [a \in (DOMAIN heap \ old) \cup {new} |->
                       IF a = new THEN [class |-> class, value |-> v] ELSE heap[a]]
        /\ grids' = IF h \in State THEN grids \cup {new} ELSE grids
  BY DEF Hold
<1>0. new \notin DOMAIN heap /\ new \notin grids
  BY <1>1 DEF Allocated
<1>2. class = ClassOf(h)
  OBVIOUS
<1> HIDE DEF class
<1>3. Living' = Living \cup {h} /\ holds'[h] = {new} /\ heap'[new] = [class |-> class, value |-> v]
  BY <1>1 DEF Living
<1>4. \A k \in Living : k # h => holds'[k] = holds[k]
  BY <1>1
<1>5. \A k \in Living : k # h => holds[k] \cap old = {}
  BY DEF Owned, Apart
<1>6. ASSUME NEW k \in Living, k # h, NEW a \in holds[k]
      PROVE  a \in DOMAIN heap' /\ heap'[a] = heap[a] /\ a # new
  <2>1. a \in DOMAIN heap
    BY <1>6 DEF Owned, Held, HoldsNothing, HoldsOne
  <2>2. a \notin old /\ a # new
    BY <1>0, <1>5, <1>6, <2>1
  <2> QED
    BY <1>1, <2>1, <2>2
<1>7. Held'
  <2>1. holds' = [k \in DOMAIN holds' |-> holds'[k]] /\ heap' = [a \in DOMAIN heap' |-> heap'[a]]
    BY <1>1
  <2>2. Living' \subseteq Handle
    BY <1>3 DEF Owned, Held
  <2>3. HoldsOne(h)'
    <3>1. new \in DOMAIN heap'
      BY <1>1
    <3> QED
      BY <1>2, <1>3, <3>1, HoldsOneNext
  <2>4. ASSUME NEW k \in Living, k # h
        PROVE  HoldsNothing(k)' \/ HoldsOne(k)'
    <3>0. k \in Handle /\ (HoldsNothing(k) \/ HoldsOne(k))
      BY <2>4 DEF Owned, Held
    <3>1. CASE HoldsNothing(k)
      BY <3>1, <1>4, <2>4 DEF HoldsNothing
    <3>2. CASE HoldsOne(k)
      <4>1. PICK a \in DOMAIN heap, w \in ValuesOf(k) :
              holds[k] = {a} /\ heap[a] = [class |-> ClassOf(k), value |-> w]
        BY <3>2 DEF HoldsOne
      <4>2. a \in DOMAIN heap' /\ heap'[a] = heap[a] /\ holds'[k] = {a}
        BY <4>1, <1>4, <1>6, <2>4
      <4> QED
        BY <4>1, <4>2, HoldsOneNext
    <3> QED
      BY <3>0, <3>1, <3>2
  <2> QED
    BY <1>3, <2>1, <2>2, <2>3, <2>4 DEF Held
<1>8. Apart'
  <2>1. \A k \in Living : k # h => new \notin holds'[k]
    BY <1>4, <1>6
  <2>2. \A k, l \in Living : k # h /\ l # h /\ k # l => holds'[k] \cap holds'[l] = {}
    BY <1>4 DEF Owned, Apart
  <2> QED
    BY <1>3, <2>1, <2>2 DEF Apart
<1>9. Reached'
  <2>1. SUFFICES ASSUME NEW a \in DOMAIN heap' PROVE \E k \in Living' : a \in holds'[k]
    BY DEF Reached
  <2>2. CASE a = new
    BY <2>2, <1>3
  <2>3. CASE a # new
    <3>1. a \in DOMAIN heap /\ a \notin old
      BY <2>3, <1>1
    <3>2. PICK k \in Living : a \in holds[k]
      BY <3>1 DEF Owned, Reached
    <3>3. k # h
      BY <3>1, <3>2
    <3> QED
      BY <3>2, <3>3, <1>3, <1>4
  <2> QED
    BY <2>2, <2>3
<1>10. Shown' = Given(h, {v})
  <2>1. Shown' = [k \in Living' |-> {heap'[a].value : a \in holds'[k]}]
    BY DEF Shown
  <2>2. {heap'[a].value : a \in holds'[h]} = {v}
    BY <1>3
  <2>3. ASSUME NEW k \in Living, k # h
        PROVE  {heap'[a].value : a \in holds'[k]} = Shown[k]
    <3>1. Shown[k] = {heap[a].value : a \in holds[k]}
      BY DEF Shown
    <3> QED
      BY <3>1, <2>3, <1>4, <1>6
  <2> QED
    BY <1>3, <2>1, <2>2, <2>3 DEF Given
<1>11. Furnished'
  <2>1. \A a \in holds'[h] : a \in grids' <=> h \in State
    BY <1>0, <1>1, <1>3
  <2>2. ASSUME NEW k \in Living, k # h, NEW a \in holds'[k]
        PROVE  a \in grids' <=> k \in State
    <3>1. a \in holds[k] /\ a # new
      BY <2>2, <1>4, <1>6
    <3> QED
      BY <3>1, <1>1 DEF Owned, Furnished
  <2> QED
    BY <1>3, <2>1, <2>2 DEF Furnished
<1> QED
  BY <1>3, <1>7, <1>8, <1>9, <1>10, <1>11 DEF Owned

\* A handle made null leaves its old object to be deleted.
LEMMA HoldNothingGives ==
  ASSUME Owned, NEW h \in Iterator, HoldNothing(h)
  PROVE  /\ Owned'
         /\ Living' = Living \cup {h}
         /\ Shown' = Given(h, {})
<1> DEFINE old == IF h \in Living THEN holds[h] ELSE {}
<1>1. /\ holds' = [k \in Living \cup {h} |-> IF k = h THEN {} ELSE holds[k]]
      /\ heap' = [a \in DOMAIN heap \ old |-> heap[a]]
      /\ grids' = grids
  BY DEF HoldNothing
<1>2. Living' = Living \cup {h} /\ holds'[h] = {}
  BY <1>1 DEF Living
<1>3. \A k \in Living : k # h => holds'[k] = holds[k]
  BY <1>1
<1>4. ASSUME NEW k \in Living, k # h, NEW a \in holds[k]
      PROVE  a \in DOMAIN heap' /\ heap'[a] = heap[a]
  <2>1. a \in DOMAIN heap
    BY <1>4 DEF Owned, Held, HoldsNothing, HoldsOne
  <2>2. a \notin old
    BY <1>4 DEF Owned, Apart
  <2> QED
    BY <1>1, <2>1, <2>2
<1>5. Held'
  <2>1. holds' = [k \in DOMAIN holds' |-> holds'[k]] /\ heap' = [a \in DOMAIN heap' |-> heap'[a]]
    BY <1>1
  <2>2. Living' \subseteq Handle
    BY <1>2 DEF Owned, Held, Handle
  <2>3. HoldsNothing(h)'
    BY <1>2 DEF HoldsNothing
  <2>4. ASSUME NEW k \in Living, k # h
        PROVE  HoldsNothing(k)' \/ HoldsOne(k)'
    <3>1. HoldsNothing(k) \/ HoldsOne(k)
      BY DEF Owned, Held
    <3>2. CASE HoldsNothing(k)
      BY <3>2, <1>3, <2>4 DEF HoldsNothing
    <3>3. CASE HoldsOne(k)
      <4>1. PICK a \in DOMAIN heap, w \in ValuesOf(k) :
              holds[k] = {a} /\ heap[a] = [class |-> ClassOf(k), value |-> w]
        BY <3>3 DEF HoldsOne
      <4>2. a \in DOMAIN heap' /\ heap'[a] = heap[a] /\ holds'[k] = {a}
        BY <4>1, <1>3, <1>4, <2>4
      <4> QED
        BY <4>1, <4>2, HoldsOneNext
    <3> QED
      BY <3>1, <3>2, <3>3
  <2> QED
    BY <1>2, <2>1, <2>2, <2>3, <2>4 DEF Held
<1>6. Apart'
  BY <1>2, <1>3 DEF Owned, Apart
<1>7. Reached'
  <2>1. SUFFICES ASSUME NEW a \in DOMAIN heap' PROVE \E k \in Living' : a \in holds'[k]
    BY DEF Reached
  <2>2. a \in DOMAIN heap /\ a \notin old
    BY <1>1
  <2>3. PICK k \in Living : a \in holds[k]
    BY <2>2 DEF Owned, Reached
  <2>4. k # h
    BY <2>2, <2>3
  <2> QED
    BY <2>3, <2>4, <1>2, <1>3
<1>8. Shown' = Given(h, {})
  <2>1. Shown' = [k \in Living' |-> {heap'[a].value : a \in holds'[k]}]
    BY DEF Shown
  <2>2. {heap'[a].value : a \in holds'[h]} = {}
    BY <1>2
  <2>3. ASSUME NEW k \in Living, k # h
        PROVE  {heap'[a].value : a \in holds'[k]} = Shown[k]
    <3>1. Shown[k] = {heap[a].value : a \in holds[k]}
      BY DEF Shown
    <3> QED
      BY <3>1, <2>3, <1>3, <1>4
  <2> QED
    BY <1>2, <2>1, <2>2, <2>3 DEF Given
<1>9. Furnished'
  BY <1>1, <1>2, <1>3 DEF Owned, Furnished
<1> QED
  BY <1>2, <1>5, <1>6, <1>7, <1>8, <1>9 DEF Owned

\* A write through a handle changes its own value alone.
LEMMA ChangeGives ==
  ASSUME Owned, NEW h \in Living, ~Null(h), NEW v \in ValuesOf(h), Change(h, v)
  PROVE  /\ Owned'
         /\ Living' = Living
         /\ Shown' = Given(h, {v})
<1>1. PICK o \in DOMAIN heap, old \in ValuesOf(h) :
        holds[h] = {o} /\ heap[o] = [class |-> ClassOf(h), value |-> old]
  BY HoldersObject DEF HoldsOne, Owned
<1>2. /\ heap' = [a \in DOMAIN heap |->
                    IF a = o THEN [class |-> ClassOf(h), value |-> v] ELSE heap[a]]
      /\ holds' = holds /\ grids' = grids
  <2>1. [heap[o] EXCEPT !.value = v] = [class |-> ClassOf(h), value |-> v]
    BY <1>1
  <2> QED
    BY <1>1, <2>1 DEF Change
<1>3. Living' = Living
  BY <1>2 DEF Living
<1>4. \A k \in Living : k # h => o \notin holds[k]
  BY <1>1 DEF Owned, Apart
<1>5. Held'
  <2>1. holds' = [k \in DOMAIN holds' |-> holds'[k]] /\ heap' = [a \in DOMAIN heap' |-> heap'[a]]
    BY <1>2 DEF Owned, Held
  <2>2. HoldsOne(h)'
    BY <1>1, <1>2 DEF HoldsOne, ClassOf, ValuesOf
  <2>3. ASSUME NEW k \in Living, k # h
        PROVE  HoldsNothing(k)' \/ HoldsOne(k)'
    <3>1. HoldsNothing(k) \/ HoldsOne(k)
      BY DEF Owned, Held
    <3>2. CASE HoldsNothing(k)
      BY <3>2, <1>2 DEF HoldsNothing
    <3>3. CASE HoldsOne(k)
      <4>1. PICK a \in DOMAIN heap, w \in ValuesOf(k) :
              holds[k] = {a} /\ heap[a] = [class |-> ClassOf(k), value |-> w]
        BY <3>3 DEF HoldsOne
      <4>2. a \in DOMAIN heap' /\ heap'[a] = heap[a] /\ holds'[k] = {a}
        BY <4>1, <1>2, <1>4, <2>3
      <4> QED
        BY <4>1, <4>2, HoldsOneNext
    <3> QED
      BY <3>1, <3>2, <3>3
  <2> QED
    BY <1>3, <2>1, <2>2, <2>3 DEF Held, Owned
<1>6. Apart' /\ Reached' /\ Furnished'
  BY <1>2, <1>3 DEF Owned, Apart, Reached, Furnished
<1>7. Shown' = Given(h, {v})
  <2>1. Shown' = [k \in Living' |-> {heap'[a].value : a \in holds'[k]}]
    BY DEF Shown
  <2>2. {heap'[a].value : a \in holds'[h]} = {v}
    BY <1>1, <1>2
  <2>3. ASSUME NEW k \in Living, k # h
        PROVE  {heap'[a].value : a \in holds'[k]} = Shown[k]
    <3>1. Shown[k] = {heap[a].value : a \in holds[k]}
      BY DEF Shown
    <3>2. \A a \in holds[k] : heap'[a] = heap[a]
      BY <2>3, <1>2, <1>4 DEF Owned, Held, HoldsNothing, HoldsOne
    <3> QED
      BY <3>1, <3>2, <1>2
  <2> QED
    BY <1>3, <2>1, <2>2, <2>3 DEF Given
<1> QED
  BY <1>3, <1>5, <1>6, <1>7 DEF Owned

\* Handles that end take their objects with them, and no other's.
LEMMA DestroyTakes ==
  ASSUME Owned, NEW gone \in SUBSET Living, Destroy(gone)
  PROVE  /\ Owned'
         /\ Living' = Living \ gone
         /\ Shown' = [h \in Living \ gone |-> Shown[h]]
<1> DEFINE old == UNION {holds[h] : h \in gone}
<1>1. /\ holds' = [h \in Living \ gone |-> holds[h]]
      /\ heap' = [a \in DOMAIN heap \ old |-> heap[a]]
      /\ grids' \in {grids, grids \ old}
  BY DEF Destroy, Delete
<1>2. Living' = Living \ gone /\ \A k \in Living' : holds'[k] = holds[k]
  BY <1>1 DEF Living
<1>3. ASSUME NEW k \in Living \ gone, NEW a \in holds[k]
      PROVE  a \in DOMAIN heap' /\ heap'[a] = heap[a] /\ (a \in grids' <=> a \in grids)
  <2>1. a \in DOMAIN heap
    BY DEF Owned, Held, HoldsNothing, HoldsOne
  <2>2. a \notin old
    BY DEF Owned, Apart
  <2> QED
    BY <1>1, <2>1, <2>2
<1>4. Held'
  <2>1. holds' = [k \in DOMAIN holds' |-> holds'[k]] /\ heap' = [a \in DOMAIN heap' |-> heap'[a]]
    BY <1>1
  <2>2. ASSUME NEW k \in Living \ gone
        PROVE  HoldsNothing(k)' \/ HoldsOne(k)'
    <3>1. HoldsNothing(k) \/ HoldsOne(k)
      BY DEF Owned, Held
    <3>2. CASE HoldsNothing(k)
      BY <3>2, <1>2 DEF HoldsNothing
    <3>3. CASE HoldsOne(k)
      <4>1. PICK a \in DOMAIN heap, w \in ValuesOf(k) :
              holds[k] = {a} /\ heap[a] = [class |-> ClassOf(k), value |-> w]
        BY <3>3 DEF HoldsOne
      <4>2. a \in DOMAIN heap' /\ heap'[a] = heap[a] /\ holds'[k] = {a}
        BY <4>1, <1>2, <1>3
      <4> QED
        BY <4>1, <4>2, HoldsOneNext
    <3> QED
      BY <3>1, <3>2, <3>3
  <2> QED
    BY <1>2, <2>1, <2>2 DEF Held, Owned
<1>5. Apart'
  BY <1>2 DEF Owned, Apart
<1>6. Reached'
  <2>1. SUFFICES ASSUME NEW a \in DOMAIN heap' PROVE \E k \in Living' : a \in holds'[k]
    BY DEF Reached
  <2>2. a \in DOMAIN heap /\ a \notin old
    BY <1>1
  <2>3. PICK k \in Living : a \in holds[k]
    BY <2>2 DEF Owned, Reached
  <2>4. k \notin gone
    BY <2>2, <2>3
  <2> QED
    BY <2>3, <2>4, <1>2
<1>7. Shown' = [h \in Living \ gone |-> Shown[h]]
  <2>1. Shown' = [k \in Living' |-> {heap'[a].value : a \in holds'[k]}]
    BY DEF Shown
  <2>2. ASSUME NEW k \in Living \ gone
        PROVE  {heap'[a].value : a \in holds'[k]} = Shown[k]
    <3>1. Shown[k] = {heap[a].value : a \in holds[k]}
      BY DEF Shown
    <3> QED
      BY <3>1, <1>2, <1>3
  <2> QED
    BY <1>2, <2>1, <2>2
<1>8. Furnished'
  BY <1>2, <1>3 DEF Owned, Furnished
<1> QED
  BY <1>2, <1>4, <1>5, <1>6, <1>7, <1>8 DEF Owned

\* A moved state changes hands; the one it is assigned over goes.
LEMMA MoveGives ==
  ASSUME Owned, NEW s \in State, NEW t \in State \cap Living,
         MoveState(s, t) \/ AssignState(s, t)
  PROVE  /\ Owned'
         /\ Living' = Living \cup {s}
         /\ Shown' = [h \in Living \cup {s} |->
                        IF h = s THEN Shown[t] ELSE IF h = t THEN {} ELSE Shown[h]]
<1> DEFINE old == IF s \in Living THEN holds[s] ELSE {}
<1>1. /\ holds' = [h \in Living \cup {s} |->
                     IF h = s THEN holds[t] ELSE IF h = t THEN {} ELSE holds[h]]
      /\ heap' = [a \in DOMAIN heap \ old |-> heap[a]]
      /\ grids' \in {grids, grids \ old}
      /\ s # t
  <2>1. CASE MoveState(s, t)
    <3>1. old = {} /\ heap' = heap /\ s # t
      BY <2>1 DEF MoveState
    <3> QED
      BY <2>1, <3>1 DEF MoveState, Owned, Held
  <2>2. CASE AssignState(s, t)
    <3>1. s \in Living /\ s # t /\ old = holds[s]
      BY <2>2 DEF AssignState
    <3>2. holds' = [holds EXCEPT ![s] = holds[t], ![t] = {}] /\ Delete(old)
      BY <2>2, <3>1 DEF AssignState
    <3>3. holds' = [h \in Living \cup {s} |->
                      IF h = s THEN holds[t] ELSE IF h = t THEN {} ELSE holds[h]]
      BY <3>1, <3>2 DEF Owned, Held, Living
    <3> QED
      BY <3>1, <3>2, <3>3 DEF Delete
  <2> QED
    BY <2>1, <2>2
<1>2. /\ Living' = Living \cup {s} /\ holds'[s] = holds[t] /\ holds'[t] = {}
      /\ \A k \in Living : k # s /\ k # t => holds'[k] = holds[k]
  BY <1>1 DEF Living
<1>0. ASSUME NEW k \in Living, k # s, NEW a \in holds[k]
      PROVE  a \in DOMAIN heap' /\ heap'[a] = heap[a] /\ (a \in grids' <=> a \in grids)
  <2>1. a \in DOMAIN heap
    BY DEF Owned, Held, HoldsNothing, HoldsOne
  <2>2. a \notin old
    BY <1>0 DEF Owned, Apart
  <2> QED
    BY <1>1, <2>1, <2>2
<1>3. Held'
  <2>1. holds' = [k \in DOMAIN holds' |-> holds'[k]] /\ heap' = [a \in DOMAIN heap' |-> heap'[a]]
    BY <1>1
  <2>2. Living' \subseteq Handle
    BY <1>2 DEF Owned, Held, Handle
  <2>3. ValuesOf(s) = ValuesOf(t) /\ ClassOf(s) = ClassOf(t)
    BY KindsValues, KindsClass
  <2>4. HoldsNothing(s)' \/ HoldsOne(s)'
    <3>1. HoldsNothing(t) \/ HoldsOne(t)
      BY DEF Owned, Held
    <3>2. CASE HoldsNothing(t)
      BY <3>2, <1>2 DEF HoldsNothing
    <3>3. CASE HoldsOne(t)
      <4>1. PICK a \in DOMAIN heap, w \in ValuesOf(t) :
              holds[t] = {a} /\ heap[a] = [class |-> ClassOf(t), value |-> w]
        BY <3>3 DEF HoldsOne
      <4>2. /\ a \in DOMAIN heap' /\ w \in ValuesOf(s) /\ holds'[s] = {a}
            /\ heap'[a] = [class |-> ClassOf(s), value |-> w]
        BY <4>1, <2>3, <1>0, <1>1, <1>2
      <4> QED
        BY <4>2, HoldsOneNext
    <3> QED
      BY <3>1, <3>2, <3>3
  <2>5. HoldsNothing(t)'
    BY <1>2 DEF HoldsNothing
  <2>6. ASSUME NEW k \in Living, k # s, k # t
        PROVE  HoldsNothing(k)' \/ HoldsOne(k)'
    <3>1. HoldsNothing(k) \/ HoldsOne(k)
      BY DEF Owned, Held
    <3>2. CASE HoldsNothing(k)
      BY <3>2, <1>2, <2>6 DEF HoldsNothing
    <3>3. CASE HoldsOne(k)
      <4>1. PICK a \in DOMAIN heap, w \in ValuesOf(k) :
              holds[k] = {a} /\ heap[a] = [class |-> ClassOf(k), value |-> w]
        BY <3>3 DEF HoldsOne
      <4>2. a \in DOMAIN heap' /\ heap'[a] = heap[a] /\ holds'[k] = {a}
        BY <4>1, <1>0, <1>2, <2>6
      <4> QED
        BY <4>1, <4>2, HoldsOneNext
    <3> QED
      BY <3>1, <3>2, <3>3
  <2> QED
    BY <1>2, <2>1, <2>2, <2>4, <2>5, <2>6 DEF Held
<1>4. Apart'
  BY <1>1, <1>2 DEF Owned, Apart
<1>5. Reached'
  <2>1. SUFFICES ASSUME NEW a \in DOMAIN heap' PROVE \E k \in Living' : a \in holds'[k]
    BY DEF Reached
  <2>2. a \in DOMAIN heap /\ a \notin old
    BY <1>1
  <2>3. PICK k \in Living : a \in holds[k]
    BY <2>2 DEF Owned, Reached
  <2>4. k # s
    BY <2>2, <2>3
  <2> QED
    BY <2>3, <2>4, <1>2
<1>6. Shown' = [h \in Living \cup {s} |->
                  IF h = s THEN Shown[t] ELSE IF h = t THEN {} ELSE Shown[h]]
  <2>1. Shown' = [k \in Living' |-> {heap'[a].value : a \in holds'[k]}]
    BY DEF Shown
  <2>2. \A k \in Living : Shown[k] = {heap[a].value : a \in holds[k]}
    BY DEF Shown
  <2>3. /\ {heap'[a].value : a \in holds'[s]} = Shown[t]
        /\ {heap'[a].value : a \in holds'[t]} = {}
    BY <2>2, <1>0, <1>1, <1>2
  <2>4. ASSUME NEW k \in Living, k # s, k # t
        PROVE  {heap'[a].value : a \in holds'[k]} = Shown[k]
    BY <2>2, <2>4, <1>0, <1>2
  <2> QED
    BY <1>1, <1>2, <2>1, <2>3, <2>4
<1>7. Furnished'
  <2>1. \A a \in holds'[s] : a \in grids' <=> s \in State
    BY <1>0, <1>1, <1>2 DEF Owned, Furnished
  <2>2. ASSUME NEW k \in Living, k # s, k # t, NEW a \in holds'[k]
        PROVE  a \in grids' <=> k \in State
    BY <2>2, <1>0, <1>2 DEF Owned, Furnished
  <2> QED
    BY <1>2, <2>1, <2>2 DEF Furnished
<1> QED
  BY <1>2, <1>3, <1>4, <1>5, <1>6, <1>7 DEF Owned

-----------------------------------------------------------------------------
(***************************************************************************)
(* The same steps, as Values tells them.                                   *)
(***************************************************************************)
\* What is shown, behind the refinement mapping.
LEMMA GivenIsGive ==
  ASSUME NEW h, NEW v, Shown' = Given(h, v)
  PROVE  Promise!Give(h, v)
BY DEF Promise!Give, Promise!Living, Shown, Given

\* A value of its own for a new variable or an old one.
LEMMA PromiseMake ==
  /\ \A i \in Iterator : Shown' = Given(i, {}) => Promise!Make
  /\ \A g \in Graph, v \in PolymorphicEuclideanGraph :
       Shown' = Given(g, {v}) => Promise!Make
  /\ \A s \in State, v \in PolymorphicEuclideanStateInterface :
       Shown' = Given(s, {v}) => Promise!Make
<1>1. ASSUME NEW i \in Iterator, Shown' = Given(i, {})
      PROVE  Promise!Make
  <2>1. Promise!Give(i, {})
    BY <1>1, GivenIsGive
  <2> QED
    BY <2>1 DEF Promise!Make
<1>2. ASSUME NEW g \in Graph, NEW v \in PolymorphicEuclideanGraph, Shown' = Given(g, {v})
      PROVE  Promise!Make
  <2>1. PICK n \in Size, c \in Content : v = [size |-> n, content |-> c]
    BY DEF PolymorphicEuclideanGraph
  <2>2. Promise!Give(g, {[size |-> n, content |-> c]})
    BY <1>2, <2>1, GivenIsGive
  <2> QED
    BY <2>2 DEF Promise!Make
<1>3. ASSUME NEW s \in State, NEW v \in PolymorphicEuclideanStateInterface,
             Shown' = Given(s, {v})
      PROVE  Promise!Make
  <2>1. PICK c \in Content : v = [content |-> c]
    BY DEF PolymorphicEuclideanStateInterface
  <2>2. Promise!Give(s, {[content |-> c]})
    BY <1>3, <2>1, GivenIsGive
  <2> QED
    BY <2>2 DEF Promise!Make
<1> QED
  BY <1>1, <1>2, <1>3

\* The value of another variable of the kind.
LEMMA PromiseCopy ==
  ASSUME NEW kind \in {Graph, Domain, Iterator},
         NEW h \in kind, NEW k \in kind \cap Living, Shown' = Given(h, Shown[k])
  PROVE  Promise!Copy
<1>1. PICK v : v = Shown[k]
  OBVIOUS
<1>2. Promise!Give(h, v)
  BY <1>1, GivenIsGive
<1>3. Promise!CopyTo(h, k)
  BY <1>1, <1>2 DEF Promise!CopyTo, Promise!Give, Shown
<1> QED
  BY <1>3 DEF Promise!Copy, Promise!Living

\* The size of a graph.
LEMMA PromiseTakeDomain ==
  ASSUME NEW d \in Domain, NEW g \in Graph \cap Living, NEW v,
         Shown[g] = {v}, Shown' = Given(d, {[size |-> v.size]})
  PROVE  Promise!TakeDomain
<1>1. Promise!Give(d, {[size |-> v.size]})
  BY GivenIsGive
<1> QED
  BY <1>1 DEF Promise!TakeDomain, Promise!Living, Shown

\* The first cell of a domain, or past the last.
LEMMA PromiseTakeIterator ==
  ASSUME NEW i \in Iterator, NEW d \in Domain \cap Living, NEW v, Shown[d] = {v},
         NEW pos \in {0, v.size}, Shown' = Given(i, {[pos |-> pos, size |-> v.size]})
  PROVE  Promise!TakeIterator
<1>1. Promise!Give(i, {[pos |-> pos, size |-> v.size]})
  BY GivenIsGive
<1> QED
  BY <1>1 DEF Promise!TakeIterator, Promise!Living, Shown

\* New content.
LEMMA PromiseWrite ==
  ASSUME NEW h \in (Graph \cup State) \cap Living, NEW v, Shown[h] = {v},
         NEW c \in Content, Shown' = Given(h, {[v EXCEPT !.content = c]})
  PROVE  Promise!Write
<1>1. Promise!Give(h, {[v EXCEPT !.content = c]})
  BY GivenIsGive
<1> QED
  BY <1>1 DEF Promise!Write, Promise!Living, Shown

\* The next cell.
LEMMA PromiseIncrement ==
  ASSUME NEW i \in Iterator \cap Living, NEW v, Shown[i] = {v},
         Shown' = Given(i, {[v EXCEPT !.pos = @ + 1]})
  PROVE  Promise!Increment
<1>1. Promise!Give(i, {[v EXCEPT !.pos = @ + 1]})
  BY GivenIsGive
<1> QED
  BY <1>1 DEF Promise!Increment, Promise!Living, Shown

\* The end of some variables.
LEMMA PromiseDrop ==
  ASSUME NEW gone \in SUBSET Living, Shown' = [h \in Living \ gone |-> Shown[h]]
  PROVE  Promise!Drop
BY DEF Promise!Drop, Promise!Living, Shown

\* A state that changes hands.
LEMMA PromiseMove ==
  ASSUME NEW s \in State, NEW t \in State \cap Living,
         Shown' = [h \in Living \cup {s} |->
                     IF h = s THEN Shown[t] ELSE IF h = t THEN {} ELSE Shown[h]]
  PROVE  Promise!Move
BY DEF Promise!Move, Promise!Living, Shown

-----------------------------------------------------------------------------
(***************************************************************************)
(* The range-for among the other steps.                                    *)
(***************************************************************************)
Temporaries == {Range, First, Last}

\* Steps that leave the temporaries alone leave the loop where it is.
LEMMA LoopingKept ==
  ASSUME Looping, loop' = loop,
         loop.at # "outside" =>
           \A h \in Temporaries : /\ h \in Living' <=> h \in Living
                                  /\ h \in Living => Shown'[h] = Shown[h]
  PROVE  Looping'
BY DEF Looping, Temporaries, IteratorAt, Cells

\* So do writes to a handle that is not one of them while the loop runs.
LEMMA LoopingPast ==
  ASSUME Looping, loop' = loop, NEW h, NEW v,
         loop.at # "outside" => h \notin Temporaries,
         Living' = Living \cup {h}, Shown' = Given(h, v)
  PROVE  Looping'
<1>1. \A k \in Living : k # h => k \in Living' /\ Shown'[k] = Shown[k]
  BY DEF Given
<1>2. \A k : k # h /\ k \in Living' => k \in Living
  OBVIOUS
<1> QED
  BY <1>1, <1>2, LoopingKept DEF Temporaries

\* Graphs and states are not temporaries.
LEMMA NotTemporary == \A h \in Graph \cup State : h \notin Temporaries
BY HandleAssumption, KindAssumption DEF Temporaries

\* The temporaries are three.
LEMMA ThreeTemporaries ==
  /\ Range \in Domain /\ First \in Iterator /\ Last \in Iterator
  /\ Range # First /\ Range # Last /\ First # Last
  /\ {Range, First, Last} \subseteq Handle
BY HandleAssumption, KindAssumption DEF Handle

-----------------------------------------------------------------------------
(***************************************************************************)
(* The steps outside the range-for.                                        *)
(***************************************************************************)
\* A new object for a handle that the range-for does not use.
LEMMA HoldStep ==
  ASSUME DInv, NEW h \in Handle, NEW v \in ValuesOf(h), Hold(h, ClassOf(h), v),
         Free(h), loop' = loop
  PROVE  DInv' /\ Shown' = Given(h, {v})
<1>1. Owned' /\ Living' = Living \cup {h} /\ Shown' = Given(h, {v})
  BY HoldGives DEF DInv
<1>2. Looping'
  BY <1>1, LoopingPast DEF DInv, Free, Temporaries
<1> QED
  BY <1>1, <1>2 DEF DInv

\* A clone of what another handle of the class holds.
LEMMA CloneStep ==
  ASSUME DInv, NEW h \in Handle, NEW k \in Living, ~Null(k),
         ValuesOf(h) = ValuesOf(k), ClassOf(h) = ClassOf(k),
         HoldClone(h, k), Free(h), loop' = loop
  PROVE  DInv' /\ Shown' = Given(h, Shown[k])
<1>1. PICK v : v = Object(k).value
  OBVIOUS
<1>2. Object(k).class = ClassOf(h) /\ v \in ValuesOf(h) /\ Shown[k] = {v}
  BY <1>1, HoldersObject DEF DInv, Owned
<1>3. Hold(h, ClassOf(h), v)
  BY <1>1, <1>2 DEF HoldClone
<1> QED
  BY <1>2, <1>3, HoldStep

\* A write through a handle that the range-for does not use.
LEMMA ChangeStep ==
  ASSUME DInv, NEW h \in Living, ~Null(h), NEW v \in ValuesOf(h), Change(h, v),
         Free(h), loop' = loop
  PROVE  DInv' /\ Shown' = Given(h, {v})
<1>1. Owned' /\ Living' = Living \cup {h} /\ Shown' = Given(h, {v})
  BY ChangeGives DEF DInv
<1>2. Looping'
  BY <1>1, LoopingPast DEF DInv, Free, Temporaries
<1> QED
  BY <1>1, <1>2 DEF DInv

\* The graph delegate.
LEMMA GraphStep ==
  ASSUME DInv, NEW g \in Graph
  PROVE  /\ MakeGraph(g) => DInv' /\ Promise!Make
         /\ \A h \in Graph \cap Living : CopyGraph(g, h) \/ AssignGraph(g, h)
                                           => DInv' /\ Promise!Copy
         /\ g \in Living /\ WriteGraph(g) => DInv' /\ Promise!Write
<1>1. g \in Handle /\ Free(g) /\ ValuesOf(g) = PolymorphicEuclideanGraph
  BY NotTemporary, KindsValues DEF Handle, Free, Temporaries
<1>2. ASSUME MakeGraph(g) PROVE DInv' /\ Promise!Make
  <2>1. PICK v \in PolymorphicEuclideanGraph : Hold(g, ClassOf(g), v) /\ loop' = loop
    BY <1>2 DEF MakeGraph
  <2>2. DInv' /\ Shown' = Given(g, {v})
    BY <1>1, <2>1, HoldStep
  <2> QED
    BY <2>2, PromiseMake
<1>3. ASSUME NEW h \in Graph \cap Living, CopyGraph(g, h) \/ AssignGraph(g, h)
      PROVE  DInv' /\ Promise!Copy
  <2>1. HoldClone(g, h) /\ loop' = loop
    BY <1>3 DEF CopyGraph, AssignGraph
  <2>2. ~Null(h) /\ ValuesOf(g) = ValuesOf(h) /\ ClassOf(g) = ClassOf(h)
    BY GraphShows, KindsValues, KindsClass DEF DInv, Owned
  <2>3. DInv' /\ Shown' = Given(g, Shown[h])
    BY <1>1, <2>1, <2>2, CloneStep
  <2> QED
    BY <2>3, PromiseCopy
<1>4. ASSUME g \in Living, WriteGraph(g) PROVE DInv' /\ Promise!Write
  <2>1. PICK c \in Content : Change(g, [Object(g).value EXCEPT !.content = c])
    BY <1>4 DEF WriteGraph
  <2>2. PICK v : v = Object(g).value
    OBVIOUS
  <2>3. ~Null(g) /\ v \in PolymorphicEuclideanGraph /\ Shown[g] = {v}
    BY <1>4, <2>2, GraphShows DEF DInv, Owned
  <2>4. [v EXCEPT !.content = c] \in PolymorphicEuclideanGraph
    BY <2>3 DEF PolymorphicEuclideanGraph
  <2>5. loop' = loop
    BY <1>4 DEF WriteGraph
  <2>6. DInv' /\ Shown' = Given(g, {[v EXCEPT !.content = c]})
    BY <1>1, <1>4, <2>1, <2>2, <2>3, <2>4, <2>5, ChangeStep
  <2> QED
    BY <1>4, <2>3, <2>6, PromiseWrite
<1> QED
  BY <1>2, <1>3, <1>4

\* What holds the domain of a graph afterwards knows its size.
LEMMA DomainOfGraph ==
  ASSUME Held, NEW d \in Domain, NEW g \in Graph \cap Living, HoldDomain(d, g)
  PROVE  \E v : /\ v = Object(g).value
                /\ Shown[g] = {v}
                /\ v.size \in Size
                /\ [size |-> v.size] \in ValuesOf(d)
                /\ Hold(d, ClassOf(d), [size |-> v.size])
<1>1. PICK v : v = Object(g).value
  OBVIOUS
<1>2. Shown[g] = {v} /\ v.size \in Size
  BY <1>1, GraphShows
<1>3. [size |-> v.size] \in ValuesOf(d)
  BY <1>2, KindsValues DEF PolymorphicEuclideanGraphDomain
<1> QED
  BY <1>1, <1>2, <1>3 DEF HoldDomain

\* Its domain.
LEMMA DomainStep ==
  ASSUME DInv, NEW d \in Domain, Free(d)
  PROVE  /\ \A g \in Graph \cap Living : TakeDomain(d, g) => DInv' /\ Promise!TakeDomain
         /\ \A e \in Domain \cap Living : CopyDomain(d, e) \/ AssignDomain(d, e)
                                            => DInv' /\ Promise!Copy
<1>1. d \in Handle /\ ValuesOf(d) = PolymorphicEuclideanGraphDomain
  BY KindsValues DEF Handle
<1>2. ASSUME NEW g \in Graph \cap Living, TakeDomain(d, g)
      PROVE  DInv' /\ Promise!TakeDomain
  <2>1. PICK v : /\ Shown[g] = {v}
                 /\ [size |-> v.size] \in ValuesOf(d)
                 /\ Hold(d, ClassOf(d), [size |-> v.size])
    BY <1>2, DomainOfGraph DEF TakeDomain, DInv, Owned
  <2>2. loop' = loop
    BY <1>2 DEF TakeDomain
  <2>3. DInv' /\ Shown' = Given(d, {[size |-> v.size]})
    BY <1>1, <2>1, <2>2, HoldStep
  <2> QED
    BY <2>1, <2>3, PromiseTakeDomain
<1>3. ASSUME NEW e \in Domain \cap Living, CopyDomain(d, e) \/ AssignDomain(d, e)
      PROVE  DInv' /\ Promise!Copy
  <2>1. HoldClone(d, e) /\ loop' = loop
    BY <1>3 DEF CopyDomain, AssignDomain
  <2>2. ~Null(e) /\ ValuesOf(d) = ValuesOf(e) /\ ClassOf(d) = ClassOf(e)
    BY DomainShows, KindsValues, KindsClass DEF DInv, Owned
  <2>3. DInv' /\ Shown' = Given(d, Shown[e])
    BY <1>1, <2>1, <2>2, CloneStep
  <2> QED
    BY <2>3, PromiseCopy
<1> QED
  BY <1>2, <1>3

\* An iterator wrapped around a const_iterator of a domain.
LEMMA WrapOfDomain ==
  ASSUME Held, NEW i \in Iterator, NEW d \in Domain \cap Living
  PROVE  LET v == Object(d).value
         IN  /\ Shown[d] = {v}
             /\ v.size \in Size
             /\ \A pos \in {0, v.size} : Wrap(i, d, pos) =>
                  LET wrapped == [pos |-> pos, size |-> v.size]
                  IN  wrapped \in ValuesOf(i) /\ Hold(i, ClassOf(i), wrapped)
<1> DEFINE v == Object(d).value
<1>1. Shown[d] = {v} /\ v.size \in Size
  BY DomainShows
<1>2. ASSUME NEW pos \in {0, v.size}
      PROVE  [pos |-> pos, size |-> v.size] \in ValuesOf(i)
  <2>1. pos \in Nat
    BY <1>1, SizeAssumption
  <2> QED
    BY <1>1, <2>1, KindsValues DEF any_iterator_wrapper
<1> QED
  BY <1>1, <1>2 DEF Wrap

\* An iterator made null, outside the range-for.
LEMMA HoldNothingStep ==
  ASSUME DInv, NEW i \in Iterator, HoldNothing(i), Free(i), loop' = loop
  PROVE  DInv' /\ Shown' = Given(i, {})
<1>1. Owned' /\ Living' = Living \cup {i} /\ Shown' = Given(i, {})
  BY HoldNothingGives DEF DInv
<1>2. Looping'
  BY <1>1, LoopingPast DEF DInv, Free, Temporaries
<1> QED
  BY <1>1, <1>2 DEF DInv

\* The same const_iterator, or none, in an object of the iterator's own class.
LEMMA VersionStep ==
  ASSUME DInv, NEW i \in Iterator, NEW j \in Iterator \cap Living, Free(i),
         loop' = loop, IF Null(j) THEN HoldNothing(i) ELSE HoldVersion(i, j)
  PROVE  DInv' /\ Promise!Copy
<1>1. CASE Null(j)
  <2>1. DInv' /\ Shown' = Given(i, {}) /\ Shown[j] = {}
    BY <1>1, HoldNothingStep, NullShowsNothing
  <2> QED
    BY <2>1, PromiseCopy
<1>2. CASE ~Null(j)
  <2>1. PICK v : v = Object(j).value
    OBVIOUS
  <2>2. v \in ValuesOf(i) /\ Shown[j] = {v}
    BY <1>2, <2>1, IteratorShows, KindsValues DEF DInv, Owned
  <2>3. Hold(i, ClassOf(i), v)
    BY <1>2, <2>1 DEF HoldVersion
  <2>4. DInv' /\ Shown' = Given(i, Shown[j])
    BY <2>2, <2>3, HoldStep DEF Handle
  <2> QED
    BY <2>4, PromiseCopy
<1> QED
  BY <1>1, <1>2

\* The iterators.
LEMMA IteratorStep ==
  ASSUME DInv, NEW i \in Iterator, Free(i)
  PROVE  /\ MakeNullIterator(i) => DInv' /\ Promise!Make
         /\ \A d \in Domain \cap Living :
              TakeIterator(i, d) \/ AssignWrapped(i, d) => DInv' /\ Promise!TakeIterator
         /\ \A j \in Iterator \cap Living :
              CopyIterator(i, j) \/ AssignIterator(i, j) \/ ConvertIterator(i, j)
                => DInv' /\ Promise!Copy
         /\ i \in Living /\ IncrementIterator(i) /\ UNCHANGED loop
              => DInv' /\ Promise!Increment
<1>1. ASSUME MakeNullIterator(i) PROVE DInv' /\ Promise!Make
  <2>1. DInv' /\ Shown' = Given(i, {})
    BY <1>1, HoldNothingStep DEF MakeNullIterator
  <2> QED
    BY <2>1, PromiseMake
<1>2. ASSUME NEW d \in Domain \cap Living, TakeIterator(i, d) \/ AssignWrapped(i, d)
      PROVE  DInv' /\ Promise!TakeIterator
  <2>1. PICK v : v = Object(d).value
    OBVIOUS
  <2>2. PICK pos \in {0, v.size} : Wrap(i, d, pos) /\ loop' = loop
    BY <1>2, <2>1 DEF TakeIterator, AssignWrapped
  <2>3. /\ Shown[d] = {v}
        /\ [pos |-> pos, size |-> v.size] \in ValuesOf(i)
        /\ Hold(i, ClassOf(i), [pos |-> pos, size |-> v.size])
    BY <2>1, <2>2, WrapOfDomain DEF DInv, Owned
  <2>4. DInv' /\ Shown' = Given(i, {[pos |-> pos, size |-> v.size]})
    BY <2>2, <2>3, HoldStep DEF Handle
  <2> QED
    BY <2>3, <2>4, PromiseTakeIterator
<1>3. ASSUME NEW j \in Iterator \cap Living, CopyIterator(i, j) \/ AssignIterator(i, j)
      PROVE  DInv' /\ Promise!Copy
  <2>1. IteratorClass[i] = IteratorClass[j] /\ HoldIterator(i, j) /\ loop' = loop
    BY <1>3 DEF CopyIterator, AssignIterator
  <2>2. ~Null(j) => Object(j).class = ClassOf(i)
    BY <2>1, IteratorShows, KindsClass DEF DInv, Owned
  <2>3. IF Null(j) THEN HoldNothing(i) ELSE HoldVersion(i, j)
    BY <2>1, <2>2 DEF HoldIterator, HoldClone, HoldVersion
  <2> QED
    BY <2>1, <2>3, VersionStep
<1>4. ASSUME NEW j \in Iterator \cap Living, ConvertIterator(i, j)
      PROVE  DInv' /\ Promise!Copy
  BY <1>4, VersionStep DEF ConvertIterator
<1>5. ASSUME i \in Living, IncrementIterator(i), UNCHANGED loop
      PROVE  DInv' /\ Promise!Increment
  <2>1. PICK v : v = Object(i).value
    OBVIOUS
  <2>2. ~Null(i) /\ Change(i, [v EXCEPT !.pos = @ + 1])
    BY <1>5, <2>1 DEF IncrementIterator
  <2>3. v \in any_iterator_wrapper /\ Shown[i] = {v}
    BY <1>5, <2>1, <2>2, IteratorShows DEF DInv, Owned
  <2>4. [v EXCEPT !.pos = @ + 1] \in ValuesOf(i)
    <3>1. [v EXCEPT !.pos = @ + 1] = [pos |-> v.pos + 1, size |-> v.size]
      BY <2>3 DEF any_iterator_wrapper
    <3>2. [v EXCEPT !.pos = @ + 1] \in any_iterator_wrapper
      BY <2>3, <3>1 DEF any_iterator_wrapper
    <3> QED
      BY <3>2, KindsValues
  <2>5. DInv' /\ Shown' = Given(i, {[v EXCEPT !.pos = @ + 1]})
    BY <1>5, <2>2, <2>4, ChangeStep
  <2> QED
    BY <1>5, <2>3, <2>5, PromiseIncrement
<1> QED
  BY <1>1, <1>2, <1>3, <1>4, <1>5

\* The state delegate.
LEMMA StateStep ==
  ASSUME DInv, NEW s \in State
  PROVE  /\ MakeState(s) => DInv' /\ Promise!Make
         /\ \A t \in State \cap Living : MoveState(s, t) \/ AssignState(s, t)
                                           => DInv' /\ Promise!Move
         /\ s \in Living /\ WriteState(s) => DInv' /\ Promise!Write
<1>1. /\ s \in Handle /\ Free(s)
      /\ ValuesOf(s) = PolymorphicEuclideanStateInterface
  BY NotTemporary, KindsValues DEF Handle, Free, Temporaries
<1>2. ASSUME MakeState(s) PROVE DInv' /\ Promise!Make
  <2>1. PICK v \in PolymorphicEuclideanStateInterface :
          Hold(s, ClassOf(s), v) /\ loop' = loop
    BY <1>2 DEF MakeState
  <2>2. DInv' /\ Shown' = Given(s, {v})
    BY <1>1, <2>1, HoldStep
  <2> QED
    BY <2>2, PromiseMake
<1>3. ASSUME NEW t \in State \cap Living, MoveState(s, t) \/ AssignState(s, t)
      PROVE  DInv' /\ Promise!Move
  <2>1. /\ Owned'
        /\ Living' = Living \cup {s}
        /\ Shown' = [h \in Living \cup {s} |->
                       IF h = s THEN Shown[t] ELSE IF h = t THEN {} ELSE Shown[h]]
    BY <1>3, MoveGives DEF DInv
  <2>2. s \notin Temporaries /\ t \notin Temporaries
    BY NotTemporary
  <2>3. Looping'
    <3>1. loop' = loop
      BY <1>3 DEF MoveState, AssignState
    <3> QED
      BY <2>1, <2>2, <3>1, LoopingKept DEF DInv
  <2> QED
    BY <2>1, <2>3, PromiseMove DEF DInv
<1>4. ASSUME s \in Living, WriteState(s) PROVE DInv' /\ Promise!Write
  <2>1. PICK w \in PolymorphicEuclideanStateInterface :
          ~Null(s) /\ Change(s, w) /\ loop' = loop
    BY <1>4 DEF WriteState
  <2>2. DInv' /\ Shown' = Given(s, {w})
    BY <1>1, <1>4, <2>1, ChangeStep
  <2>3. PICK v : v = Object(s).value
    OBVIOUS
  <2>4. v \in PolymorphicEuclideanStateInterface /\ Shown[s] = {v}
    BY <1>1, <1>4, <2>1, <2>3, HoldersObject DEF DInv, Owned
  <2>5. PICK c \in Content : w = [v EXCEPT !.content = c]
    BY <2>1, <2>4 DEF PolymorphicEuclideanStateInterface
  <2> QED
    BY <1>4, <2>2, <2>4, <2>5, PromiseWrite
<1> QED
  BY <1>2, <1>3, <1>4

\* The end of a scope.
LEMMA DropStep ==
  ASSUME DInv, NEW h \in Living, Free(h), Drop(h)
  PROVE  DInv' /\ Promise!Drop
<1>1. {h} \in SUBSET Living /\ Destroy({h}) /\ loop' = loop
  BY DEF Drop
<1>2. Owned' /\ Living' = Living \ {h} /\ Shown' = [k \in Living \ {h} |-> Shown[k]]
  BY <1>1, DestroyTakes DEF DInv
<1>3. Looping'
  BY <1>1, <1>2, LoopingKept DEF DInv, Free, Temporaries
<1> QED
  BY <1>1, <1>2, <1>3, PromiseDrop DEF DInv

-----------------------------------------------------------------------------
(***************************************************************************)
(* The range-for.                                                          *)
(***************************************************************************)
\* One more cell.
LEMMA NextCell ==
  ASSUME NEW n \in Nat
  PROVE  /\ Len(Cells(n)) = n
         /\ Append(Cells(n), n) = Cells(n + 1)
         /\ Cells(0) = <<>>
<1>1. Cells(n) \in Seq(Int) /\ Len(Cells(n)) = n
  BY DEF Cells
<1>2. DOMAIN Append(Cells(n), n) = 1..(n + 1) /\ DOMAIN Cells(n + 1) = 1..(n + 1)
  BY <1>1 DEF Cells
<1>3. \A k \in 1..(n + 1) : Append(Cells(n), n)[k] = Cells(n + 1)[k]
  BY <1>1 DEF Cells
<1>4. Append(Cells(n), n) = Cells(n + 1)
  BY <1>1, <1>2, <1>3 DEF Cells
<1>5. Cells(0) = <<>>
  BY DEF Cells
<1> QED
  BY <1>1, <1>4, <1>5

\* The cells visited are as many as the loop has counted.
LEMMA VisitedCells ==
  ASSUME Looping, loop.at # "outside"
  PROVE  /\ loop.size \in Nat
         /\ Len(loop.visited) \in 0..loop.size
         /\ loop.visited = Cells(Len(loop.visited))
<1>1. PICK n \in 0..loop.size : loop.visited = Cells(n)
  BY DEF Looping
<1>2. loop.size \in Nat /\ n \in Nat
  BY <1>1 DEF Looping
<1>3. Len(Cells(n)) = n
  BY <1>2, NextCell
<1> QED
  BY <1>1, <1>2, <1>3

\* The temporary's own object, and its value.
LEMMA TemporaryHolds ==
  ASSUME Held, NEW i \in Iterator \cap Living, NEW v, Shown[i] = {v}
  PROVE  ~Null(i) /\ Object(i).value = v
<1>1. ~Null(i)
  BY NullShowsNothing
<1>2. Shown[i] = {Object(i).value}
  BY <1>1, IteratorShows
<1> QED
  BY <1>1, <1>2

\* The loop is at its end when the iterators are equal, which no other object can
\* make them.
LEMMA EqualAtEnd ==
  ASSUME DInv, loop.at = "test"
  PROVE  Equal(First, Last) <=> Len(loop.visited) = loop.size
<1>1. /\ First \in Iterator \cap Living /\ Last \in Iterator \cap Living
      /\ Shown[First] = IteratorAt(Len(loop.visited))
      /\ Shown[Last] = IteratorAt(loop.size)
  BY ThreeTemporaries DEF DInv, Looping
<1>2. /\ ~Null(First) /\ Object(First).value = [pos |-> Len(loop.visited), size |-> loop.size]
      /\ ~Null(Last) /\ Object(Last).value = [pos |-> loop.size, size |-> loop.size]
  <2>1. Held
    BY DEF DInv, Owned
  <2>2. PICK first, last : /\ first = [pos |-> Len(loop.visited), size |-> loop.size]
                          /\ last = [pos |-> loop.size, size |-> loop.size]
    OBVIOUS
  <2>3. Shown[First] = {first} /\ Shown[Last] = {last}
    BY <1>1, <2>2 DEF IteratorAt
  <2>4. ~Null(First) /\ Object(First).value = first
    BY <1>1, <2>1, <2>3, TemporaryHolds
  <2>5. ~Null(Last) /\ Object(Last).value = last
    BY <1>1, <2>1, <2>3, TemporaryHolds
  <2> QED
    BY <2>2, <2>4, <2>5
<1>3. holds[First] # holds[Last]
  BY <1>1, <1>2, ThreeTemporaries DEF DInv, Owned, Apart, Null
<1>4. EqualWrapped(First, Last) <=> Len(loop.visited) = loop.size
  BY <1>2 DEF EqualWrapped
<1> QED
  BY <1>2, <1>3, <1>4 DEF Equal

\* What a new object for one handle leaves of the others.
LEMMA GivenOthers ==
  ASSUME NEW h, NEW v, Living' = Living \cup {h}, Shown' = Given(h, v)
  PROVE  /\ h \in Living' /\ Shown'[h] = v
         /\ \A k : k # h => (k \in Living' <=> k \in Living)
         /\ \A k \in Living : k # h => Shown'[k] = Shown[k]
BY DEF Given

\* The domain is taken of the graph, once.
LEMMA LoopRangeStep ==
  ASSUME DInv, NEW g \in Graph \cap Living, LoopRange(g)
  PROVE  DInv' /\ Promise!TakeDomain
<1>1. PICK v : /\ v = Object(g).value
               /\ Shown[g] = {v}
               /\ v.size \in Size
               /\ [size |-> v.size] \in ValuesOf(Range)
               /\ Hold(Range, ClassOf(Range), [size |-> v.size])
  BY ThreeTemporaries, DomainOfGraph DEF LoopRange, DInv, Owned
<1>2. /\ Owned' /\ Living' = Living \cup {Range}
      /\ Shown' = Given(Range, {[size |-> v.size]})
  BY <1>1, HoldGives, ThreeTemporaries DEF DInv
<1>3. loop' = [at |-> "begin", visited |-> <<>>, size |-> v.size]
  BY <1>1 DEF LoopRange
<1>4. {First, Last} \cap Living' = {}
  BY <1>2, ThreeTemporaries DEF LoopRange
<1>5. v.size \in Nat /\ <<>> = Cells(0)
  BY <1>1, SizeAssumption, NextCell
<1>6. Range \in Living' /\ Shown'[Range] = {[size |-> v.size]}
  BY <1>2, GivenOthers
<1>7. \E n \in 0..v.size : <<>> = Cells(n)
  BY <1>5
<1>8. Looping'
  BY <1>3, <1>4, <1>5, <1>6, <1>7 DEF Looping
<1> QED
  BY <1>1, <1>2, <1>8, ThreeTemporaries, PromiseTakeDomain DEF DInv

\* begin() and end() of the domain held by the loop.
LEMMA LoopWrap ==
  ASSUME DInv, loop.at # "outside", NEW i \in Iterator, NEW pos,
         pos \in {0, Object(Range).value.size}, Wrap(i, Range, pos)
  PROVE  /\ Owned' /\ Living' = Living \cup {i}
         /\ Shown' = Given(i, IteratorAt(pos))
         /\ Object(Range).value.size = loop.size
         /\ Promise!TakeIterator
<1>1. Range \in Domain \cap Living /\ Shown[Range] = {[size |-> loop.size]}
  BY ThreeTemporaries DEF DInv, Looping
<1>2. PICK v : v = Object(Range).value
  OBVIOUS
<1>3. Shown[Range] = {v} /\ v.size = loop.size
  BY <1>1, <1>2, DomainShows DEF DInv, Owned
<1>4. /\ [pos |-> pos, size |-> v.size] \in ValuesOf(i)
      /\ Hold(i, ClassOf(i), [pos |-> pos, size |-> v.size])
  BY <1>1, <1>2, WrapOfDomain DEF DInv, Owned
<1>5. /\ Owned' /\ Living' = Living \cup {i}
      /\ Shown' = Given(i, {[pos |-> pos, size |-> v.size]})
  BY <1>4, HoldGives DEF DInv, Handle
<1>6. Promise!TakeIterator
  BY <1>1, <1>2, <1>3, <1>5, PromiseTakeIterator
<1> QED
  BY <1>2, <1>3, <1>5, <1>6 DEF IteratorAt

\* begin().
LEMMA LoopBeginStep ==
  ASSUME DInv, LoopBegin
  PROVE  DInv' /\ Promise!TakeIterator
<1>1. /\ loop.at = "begin" /\ Wrap(First, Range, 0)
      /\ loop' = [loop EXCEPT !.at = "end"]
  BY DEF LoopBegin, At
<1>2. /\ Owned' /\ Living' = Living \cup {First}
      /\ Shown' = Given(First, IteratorAt(0))
      /\ Promise!TakeIterator
  BY <1>1, LoopWrap, ThreeTemporaries
<1>3. loop' = [at |-> "end", visited |-> loop.visited, size |-> loop.size]
  BY <1>1 DEF DInv, Looping
<1>4. /\ First \in Living' /\ Shown'[First] = IteratorAt(0)
      /\ Range \in Living' /\ Shown'[Range] = Shown[Range] /\ Last \notin Living'
  BY <1>1, <1>2, ThreeTemporaries, GivenOthers DEF DInv, Looping
<1>5. Looping'
  BY <1>1, <1>3, <1>4 DEF DInv, Looping, IteratorAt, Cells
<1> QED
  BY <1>2, <1>5 DEF DInv

\* end().
LEMMA LoopEndStep ==
  ASSUME DInv, LoopEnd
  PROVE  DInv' /\ Promise!TakeIterator
<1>1. /\ loop.at = "end" /\ Wrap(Last, Range, Object(Range).value.size)
      /\ loop' = [loop EXCEPT !.at = "test"]
  BY DEF LoopEnd, At
<1>2. /\ Owned' /\ Living' = Living \cup {Last}
      /\ Shown' = Given(Last, IteratorAt(loop.size))
      /\ Promise!TakeIterator
  BY <1>1, LoopWrap, ThreeTemporaries
<1>3. loop' = [at |-> "test", visited |-> <<>>, size |-> loop.size] /\ loop.visited = <<>>
  BY <1>1 DEF DInv, Looping
<1>4. /\ Last \in Living' /\ Shown'[Last] = IteratorAt(loop.size)
      /\ Range \in Living' /\ Shown'[Range] = Shown[Range]
      /\ First \in Living' /\ Shown'[First] = IteratorAt(0)
  BY <1>1, <1>2, ThreeTemporaries, GivenOthers DEF DInv, Looping
<1>5. /\ loop'.at = "test" /\ loop'.visited = <<>> /\ loop'.size = loop.size
      /\ Len(loop'.visited) = 0
  BY <1>3
<1>6. /\ Shown'[First] = IteratorAt(Len(loop.visited))'
      /\ Shown'[Last] = IteratorAt(loop.size)'
  BY <1>4, <1>5 DEF IteratorAt
<1>7. /\ loop.size \in Nat /\ Shown[Range] = {[size |-> loop.size]}
      /\ \E n \in 0..loop.size : loop.visited = Cells(n)
  BY <1>1 DEF DInv, Looping
<1>8. \E n \in 0..loop'.size : loop'.visited = Cells(n)
  BY <1>3, <1>5, <1>7
<1>9. Looping'
  BY <1>3, <1>4, <1>5, <1>6, <1>7, <1>8 DEF Looping, Cells
<1> QED
  BY <1>2, <1>9 DEF DInv

\* Steps that neither allocate, delete nor write.
LEMMA OwnedKept ==
  ASSUME Owned, holds' = holds, heap' = heap, grids' = grids
  PROVE  Owned' /\ Living' = Living /\ Shown' = Shown
<1>1. Living' = Living
  BY DEF Living
<1>2. Shown' = Shown
  BY DEF Shown, Living
<1>3. ASSUME NEW h \in Living PROVE HoldsNothing(h)' \/ HoldsOne(h)'
  <2>1. HoldsNothing(h) \/ HoldsOne(h)
    BY DEF Owned, Held
  <2>2. CASE HoldsNothing(h)
    BY <2>2 DEF HoldsNothing
  <2>3. CASE HoldsOne(h)
    <3>1. PICK a \in DOMAIN heap, v \in ValuesOf(h) :
            holds[h] = {a} /\ heap[a] = [class |-> ClassOf(h), value |-> v]
      BY <2>3 DEF HoldsOne
    <3> QED
      BY <3>1, HoldsOneNext
  <2> QED
    BY <2>1, <2>2, <2>3
<1>4. Held'
  BY <1>1, <1>3 DEF Owned, Held
<1>5. Apart' /\ Reached' /\ Furnished'
  BY <1>1 DEF Owned, Apart, Reached, Furnished
<1> QED
  BY <1>1, <1>2, <1>4, <1>5 DEF Owned

\* The body is given the next cell, while there is one.
LEMMA LoopTurnStep ==
  ASSUME DInv, LoopTurn
  PROVE  DInv' /\ Shown' = Shown
<1>1. /\ loop.at = "test" /\ ~Equal(First, Last)
      /\ loop' = [loop EXCEPT !.at = "body",
                              !.visited = Append(@, Object(First).value.pos)]
      /\ holds' = holds /\ heap' = heap /\ grids' = grids
  BY DEF LoopTurn
<1>2. PICK n : n = Len(loop.visited)
  OBVIOUS
<1>3. loop.size \in Nat /\ n \in 0..loop.size /\ n # loop.size /\ loop.visited = Cells(n)
  BY <1>1, <1>2, VisitedCells, EqualAtEnd DEF DInv
<1>4. First \in Iterator \cap Living /\ Shown[First] = IteratorAt(n)
  BY <1>1, <1>2, ThreeTemporaries DEF DInv, Looping
<1>5. Object(First).value.pos = n
  <2>1. Held /\ Shown[First] = {[pos |-> n, size |-> loop.size]}
    BY <1>4 DEF DInv, Owned, IteratorAt
  <2>2. Object(First).value = [pos |-> n, size |-> loop.size]
    BY <1>4, <2>1, TemporaryHolds
  <2> QED
    BY <2>2
<1>6. n \in Nat /\ n + 1 \in 0..loop.size /\ Append(loop.visited, n) = Cells(n + 1)
      /\ Len(Cells(n + 1)) = n + 1
  <2>1. n \in Nat /\ n + 1 \in Nat /\ n + 1 \in 0..loop.size
    BY <1>3
  <2> QED
    BY <1>3, <2>1, NextCell
<1>7. loop' = [at |-> "body", visited |-> Cells(n + 1), size |-> loop.size]
  <2>1. loop = [at |-> loop.at, visited |-> loop.visited, size |-> loop.size]
    BY DEF DInv, Looping
  <2> QED
    BY <1>1, <1>5, <1>6, <2>1
<1>8. Living' = Living /\ Shown' = Shown /\ Owned'
  BY <1>1, OwnedKept DEF DInv
<1>9. Cells(n + 1) # <<>>
  BY <1>6
<1>10. /\ Range \in Living /\ Shown[Range] = {[size |-> loop.size]}
       /\ {First, Last} \subseteq Living /\ Shown[Last] = IteratorAt(loop.size)
  BY <1>1 DEF DInv, Looping
<1>11. /\ loop'.at = "body" /\ loop'.visited = Cells(n + 1) /\ loop'.size = loop.size
       /\ Len(loop'.visited) - 1 = n
  BY <1>6, <1>7
<1>12. \A k : IteratorAt(k)' = IteratorAt(k)
  BY <1>11 DEF IteratorAt
<1>13. Shown'[First] = IteratorAt(Len(loop.visited) - 1)'
  BY <1>4, <1>8, <1>11 DEF IteratorAt
<1>14. \E k \in 0..loop'.size : loop'.visited = Cells(k)
  BY <1>6, <1>11
<1>15. Looping'
  BY <1>3, <1>7, <1>8, <1>9, <1>10, <1>11, <1>13, <1>14 DEF Looping, IteratorAt, Cells
<1> QED
  BY <1>8, <1>15 DEF DInv

\* The iterator moves on past the cell last visited.
LEMMA LoopIncrementStep ==
  ASSUME DInv, LoopIncrement
  PROVE  DInv' /\ Promise!Increment
<1>1. /\ loop.at = "body" /\ IncrementIterator(First)
      /\ loop' = [loop EXCEPT !.at = "test"]
  BY DEF LoopIncrement, At
<1>2. PICK n : n = Len(loop.visited)
  OBVIOUS
<1>3. loop.size \in Nat /\ n \in 0..loop.size /\ loop.visited = Cells(n) /\ n \in Nat
  BY <1>1, <1>2, VisitedCells DEF DInv
<1>4. First \in Iterator \cap Living /\ Shown[First] = {[pos |-> n - 1, size |-> loop.size]}
  BY <1>1, <1>2, ThreeTemporaries DEF DInv, Looping, IteratorAt
<1>5. ~Null(First) /\ Object(First).value = [pos |-> n - 1, size |-> loop.size]
  BY <1>4, TemporaryHolds DEF DInv, Owned
<1>6. PICK v : v = [pos |-> n - 1, size |-> loop.size]
  OBVIOUS
<1>7. [v EXCEPT !.pos = @ + 1] = [pos |-> n, size |-> loop.size]
  BY <1>3, <1>6
<1>8. Change(First, [v EXCEPT !.pos = @ + 1])
  BY <1>1, <1>5, <1>6 DEF IncrementIterator
<1>9. [v EXCEPT !.pos = @ + 1] \in ValuesOf(First)
  <2>1. loop.size \in Size
    BY <1>4, <1>5, IteratorShows DEF DInv, Owned
  <2> QED
    BY <1>3, <1>4, <1>7, <2>1, KindsValues DEF any_iterator_wrapper
<1>10. /\ Owned' /\ Living' = Living
       /\ Shown' = Given(First, {[v EXCEPT !.pos = @ + 1]})
  BY <1>4, <1>5, <1>8, <1>9, ChangeGives DEF DInv
<1>11. Promise!Increment
  BY <1>4, <1>6, <1>10, PromiseIncrement
<1>12. loop' = [at |-> "test", visited |-> loop.visited, size |-> loop.size]
  BY <1>1 DEF DInv, Looping
<1>13. /\ loop'.at = "test" /\ loop'.visited = loop.visited /\ loop'.size = loop.size
       /\ Len(loop'.visited) = n
  BY <1>2, <1>12
<1>14. /\ Range \in Living /\ Shown[Range] = {[size |-> loop.size]}
       /\ {First, Last} \subseteq Living /\ Shown[Last] = IteratorAt(loop.size)
       /\ \E k \in 0..loop.size : loop.visited = Cells(k)
  BY <1>1 DEF DInv, Looping
<1>15. /\ Shown'[First] = {[pos |-> n, size |-> loop.size]}
       /\ Shown'[Range] = Shown[Range] /\ Shown'[Last] = Shown[Last]
  <2>1. PICK w : w = {[pos |-> n, size |-> loop.size]}
    OBVIOUS
  <2>2. Living' = Living \cup {First} /\ Shown' = Given(First, w)
    BY <1>4, <1>7, <1>10, <2>1
  <2> QED
    BY <1>14, <2>1, <2>2, ThreeTemporaries, GivenOthers
<1>16. /\ Shown'[First] = IteratorAt(Len(loop.visited))'
       /\ Shown'[Last] = IteratorAt(loop.size)'
  BY <1>13, <1>14, <1>15 DEF IteratorAt
<1>17. \E k \in 0..loop'.size : loop'.visited = Cells(k)
  BY <1>13, <1>14
<1>18. Looping'
  BY <1>3, <1>10, <1>12, <1>13, <1>14, <1>15, <1>16, <1>17 DEF Looping, Cells
<1> QED
  BY <1>10, <1>11, <1>18 DEF DInv

\* The temporaries end with the loop.
LEMMA LoopExitStep ==
  ASSUME DInv, LoopExit
  PROVE  DInv' /\ Promise!Drop
<1>1. loop.at = "test" /\ Destroy(Temporaries) /\ loop' = NoLoop
  BY DEF LoopExit, Temporaries
<1>2. Temporaries \in SUBSET Living
  BY <1>1 DEF DInv, Looping, Temporaries
<1>3. Owned' /\ Shown' = [h \in Living \ Temporaries |-> Shown[h]]
  BY <1>1, <1>2, DestroyTakes DEF DInv
<1>4. Looping'
  BY <1>1 DEF Looping, NoLoop
<1> QED
  BY <1>2, <1>3, <1>4, PromiseDrop DEF DInv

-----------------------------------------------------------------------------
(***************************************************************************)
(* The theorems.                                                           *)
(***************************************************************************)
\* Nothing lives at first.
LEMMA InitSound == Init => DInv /\ Promise!Init
<1> SUFFICES ASSUME Init PROVE DInv /\ Promise!Init
  OBVIOUS
<1>1. DOMAIN holds = {} /\ DOMAIN heap = {} /\ loop = NoLoop
  BY DEF Init
<1>2. Owned
  BY <1>1 DEF Init, Owned, Held, Apart, Reached, Furnished, Living
<1>3. Looping
  BY <1>1 DEF Looping, NoLoop
<1>4. Promise!Init
  BY <1>1 DEF Promise!Init, Living
<1> QED
  BY <1>2, <1>3, <1>4 DEF DInv

\* Each step is one of Values, and leaves the invariant.
LEMMA StepSound ==
  ASSUME DInv, [Next]_vars
  PROVE  DInv' /\ (Promise!Next \/ Shown' = Shown)
<1>1. CASE GraphNext
  <2>1. CASE \E g \in Graph : MakeGraph(g)
    BY <2>1, GraphStep DEF Promise!Next
  <2>2. CASE \E g \in Graph, h \in Graph \cap Living : CopyGraph(g, h) \/ AssignGraph(g, h)
    BY <2>2, GraphStep DEF Promise!Next
  <2>3. CASE \E g \in Graph \cap Living : WriteGraph(g)
    BY <2>3, GraphStep DEF Promise!Next
  <2>4. CASE \E g \in Graph \cap Living : LoopRange(g)
    BY <2>4, LoopRangeStep DEF Promise!Next
  <2> QED
    BY <1>1, <2>1, <2>2, <2>3, <2>4 DEF GraphNext
<1>2. CASE DomainNext
  <2>1. PICK d \in Domain : Free(d) /\
          \/ \E g \in Graph \cap Living : TakeDomain(d, g)
          \/ \E e \in Domain \cap Living : CopyDomain(d, e) \/ AssignDomain(d, e)
    BY <1>2 DEF DomainNext
  <2> QED
    BY <2>1, DomainStep DEF Promise!Next
<1>3. CASE IteratorNext
  <2>1. PICK i \in Iterator : Free(i) /\
          \/ MakeNullIterator(i)
          \/ \E d \in Domain \cap Living : TakeIterator(i, d) \/ AssignWrapped(i, d)
          \/ \E j \in Iterator \cap Living :
               CopyIterator(i, j) \/ AssignIterator(i, j) \/ ConvertIterator(i, j)
          \/ i \in Living /\ IncrementIterator(i) /\ UNCHANGED loop
    BY <1>3 DEF IteratorNext
  <2> QED
    BY <2>1, IteratorStep DEF Promise!Next
<1>4. CASE StateNext
  <2>1. CASE \E s \in State : MakeState(s)
    BY <2>1, StateStep DEF Promise!Next
  <2>2. CASE \E s \in State, t \in State \cap Living : MoveState(s, t) \/ AssignState(s, t)
    BY <2>2, StateStep DEF Promise!Next
  <2>3. CASE \E s \in State \cap Living : WriteState(s)
    BY <2>3, StateStep DEF Promise!Next
  <2> QED
    BY <1>4, <2>1, <2>2, <2>3 DEF StateNext
<1>5. CASE LoopNext
  BY <1>5, LoopBeginStep, LoopEndStep, LoopTurnStep, LoopIncrementStep, LoopExitStep
  DEF LoopNext, Promise!Next
<1>6. CASE \E h \in {k \in Living : Free(k)} : Drop(h)
  BY <1>6, DropStep DEF Promise!Next
<1>7. CASE UNCHANGED vars
  <2>1. holds' = holds /\ heap' = heap /\ grids' = grids /\ loop' = loop
    BY <1>7 DEF vars
  <2>2. Owned' /\ Living' = Living /\ Shown' = Shown
    BY <2>1, OwnedKept DEF DInv
  <2>3. Looping'
    BY <2>1, <2>2, LoopingKept DEF DInv
  <2> QED
    BY <2>2, <2>3 DEF DInv
<1> QED
  BY <1>1, <1>2, <1>3, <1>4, <1>5, <1>6, <1>7 DEF Next

\* Of each state the program can reach: who owns what, and how far the range-for is.
THEOREM Invariance == Spec => []DInv
<1>1. Init => DInv
  BY InitSound
<1>2. DInv /\ [Next]_vars => DInv'
  BY StepSound
<1> QED
  BY <1>1, <1>2, PTL DEF Spec

\* No object of the polymorphic build is deleted twice, left behind or cast to a
\* class that is not its own, states that end or are assigned over included; of their
\* grids it is said only that they are there as long as the state is.
THEOREM AlwaysOwnedOnce == Spec => []OwnedOnce
<1>1. DInv => OwnedOnce
  <2> SUFFICES ASSUME DInv PROVE OwnedOnce
    OBVIOUS
  <2>1. ASSUME NEW h \in Living, NEW a \in holds[h]
        PROVE  /\ a \in DOMAIN heap /\ holds[h] = {a} /\ ClassOf(h) = heap[a].class
               /\ heap[a].value \in ValuesOf(h) /\ (a \in grids <=> h \in State)
    <3>1. HoldsOne(h)
      BY <2>1 DEF DInv, Owned, Held, HoldsNothing
    <3>2. PICK b \in DOMAIN heap, v \in ValuesOf(h) :
            holds[h] = {b} /\ heap[b] = [class |-> ClassOf(h), value |-> v]
      BY <3>1 DEF HoldsOne
    <3>3. a \in grids <=> h \in State
      BY <2>1 DEF DInv, Owned, Furnished
    <3> QED
      BY <2>1, <3>2, <3>3
  <2>2. ASSUME NEW a \in DOMAIN heap
        PROVE  \E h \in Living : /\ holds[h] = {a}
                                 /\ ClassOf(h) = heap[a].class
                                 /\ heap[a].value \in ValuesOf(h)
                                 /\ a \in grids <=> h \in State
                                 /\ \A k \in Living \ {h} : a \notin holds[k]
    <3>1. PICK h \in Living : a \in holds[h]
      BY DEF DInv, Owned, Reached
    <3>2. \A k \in Living \ {h} : a \notin holds[k]
      BY <3>1 DEF DInv, Owned, Apart
    <3> QED
      BY <2>1, <3>1, <3>2
  <2> QED
    BY <2>1, <2>2 DEF OwnedOnce
<1> QED
  BY <1>1, Invariance, PTL

\* The range-for visits the cells of the graph it began with, each once, whatever
\* else the program does meanwhile.
THEOREM LoopAlwaysVisitsDomain == Spec => []LoopVisitsDomain
<1>1. DInv => LoopVisitsDomain
  <2> SUFFICES ASSUME DInv, loop.at = "test" PROVE LoopVisitsDomain
    BY DEF LoopVisitsDomain
  <2>1. loop.visited = Cells(Len(loop.visited))
    BY VisitedCells DEF DInv
  <2> QED
    BY <2>1, EqualAtEnd DEF LoopVisitsDomain, Cells
<1> QED
  BY <1>1, Invariance, PTL

\* Cloned, assigned, moved and deleted as the code does it, polymorphic objects are
\* plain values in variables of their own.
THEOREM BehavesLikeValues == Spec => IndependentValues
<1>1. Init => Promise!Init
  BY InitSound
<1>2. DInv /\ [Next]_vars
        => [Promise!Next]_[h \in Living |-> {heap[a].value : a \in holds[h]}]
  BY StepSound DEF Shown
<1> QED
  BY <1>1, <1>2, Invariance, PTL DEF Spec, IndependentValues, Promise!Spec
=============================================================================
