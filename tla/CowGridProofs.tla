--------------------------- MODULE CowGridProofs ---------------------------
(***************************************************************************)
(* However the steps of any threads that copy, write, share and drop grids *)
(* interleave, each grid is a grid of its own: proofs of the properties of *)
(* CowGrid.                                                                *)
(***************************************************************************)
EXTENDS CowGrid, FiniteSetTheorems, TLAPS

\* Nothing else points at chunk i of grid g.
Alone(g, i) ==
  \A h \in InUse, j \in Index : chunks[h][j] = chunks[g][i] => h = g /\ j = i

Pointed(b) == \E g \in InUse, i \in Index : chunks[g][i] = b

Assigning(t) == write[t].pc = "assign"

\* The step of its write that a thread is in.
Turn(t) ==
  LET w == write[t]
  IN  \/ w = Idle
      \/ /\ w.pc \in {"write", "detach", "assign"}
         /\ w.grid \in InUse /\ owner[w.grid] = t
         /\ w.index \in Index
         /\ w.change \in Changes
         /\ w.pc = "write" => Alone(w.grid, w.index)
         /\ w.pc = "assign" => /\ w.fresh \in DOMAIN heap
                               /\ ~Pointed(w.fresh)
                               /\ heap[w.fresh] = heap[chunks[w.grid][w.index]]

\* The blocks of two threads are two.
Apart ==
  \A t, u \in Thread :
    Assigning(t) /\ Assigning(u) /\ write[t].fresh = write[u].fresh => t = u

\* What is allocated is what somebody points at.
Counted ==
  \A b : b \in DOMAIN heap <=> Pointed(b) \/ \E t \in Thread :
                                              Assigning(t) /\ write[t].fresh = b

Typed ==
  /\ InUse \subseteq Grid
  /\ owner \in [InUse -> Thread \cup {Shared}]
  /\ chunks \in [InUse -> [Index -> Block]]
  /\ DOMAIN heap \subseteq Block
  /\ heap \in [DOMAIN heap -> [Inner -> Value]]
  /\ write = [t \in Thread |-> write[t]]

IInv ==
  /\ Typed
  /\ Counted
  /\ Apart
  /\ \A t \in Thread : Turn(t)

\* The count of a chunk's pointers is 1 when it is alone.
LEMMA UniqueIsAlone ==
  ASSUME Typed, NEW g \in InUse, NEW i \in Index
  PROVE  Unique(chunks[g][i]) <=> Alone(g, i)
<1> DEFINE P == Pointers(chunks[g][i])
<1>1. IsFiniteSet(P)
  <2>1. P \subseteq Grid \X Index
    BY DEF Pointers, Typed
  <2> QED
    BY <2>1, SizeAssumption, FS_Product, FS_Subset
<1>2. <<g, i>> \in P
  BY DEF Pointers
<1>3. Unique(chunks[g][i]) <=> \E p : P = {p}
  <2> HIDE DEF P
  <2>1. Cardinality(P) = 1 <=> \E p : P = {p}
    BY <1>1, FS_Singleton
  <2> QED
    BY <2>1 DEF Unique, P
<1>4. (\E p : P = {p}) <=> P = {<<g, i>>}
  BY <1>2
<1>5. P = {<<g, i>>} <=> Alone(g, i)
  <2>1. ASSUME P = {<<g, i>>} PROVE Alone(g, i)
    <3> SUFFICES ASSUME NEW h \in InUse, NEW j \in Index, chunks[h][j] = chunks[g][i]
                 PROVE  h = g /\ j = i
      BY DEF Alone
    <3>1. <<h, j>> \in P
      BY DEF Pointers
    <3> QED
      BY <2>1, <3>1
  <2>2. ASSUME Alone(g, i) PROVE P = {<<g, i>>}
    <3>1. \A p \in P : p = <<g, i>>
      BY <2>2 DEF Pointers, Alone
    <3> QED
      BY <1>2, <3>1
  <2> QED
    BY <2>1, <2>2
<1> QED
  BY <1>3, <1>4, <1>5

\* A grid's pointers are allocated.
LEMMA PointersAllocated ==
  ASSUME Typed, Counted, NEW g \in InUse, NEW i \in Index
  PROVE  chunks[g][i] \in DOMAIN heap /\ chunks[g][i] \in Block
BY DEF Typed, Counted, Pointed

(***************************************************************************)
(* The operations.                                                         *)
(***************************************************************************)

\* Grid g comes into use in the hands of thread t, which is idle; its pointers are
\* such that nobody's chunk that was alone is shared.
LEMMA MakeKeeps ==
  ASSUME IInv, NEW t \in Thread, NEW g \in Grid, g \notin InUse, write[t] = Idle,
         UNCHANGED write, NEW pointers \in [Index -> Block], Make(t, g, pointers),
         DOMAIN heap' = DOMAIN heap \cup {pointers[i] : i \in Index},
         heap' \in [DOMAIN heap' -> [Inner -> Value]],
         \A b \in DOMAIN heap : heap'[b] = heap[b],
         \A h \in InUse, j \in Index :
           owner[h] # Shared /\ Alone(h, j) => \A i \in Index : pointers[i] # chunks[h][j],
         \A u \in Thread : Assigning(u) => \A i \in Index : pointers[i] # write[u].fresh
  PROVE  IInv'
<1>1. /\ InUse' = InUse \cup {g}
      /\ chunks'[g] = pointers
      /\ owner'[g] = t
      /\ \A h \in InUse : h # g /\ chunks'[h] = chunks[h] /\ owner'[h] = owner[h]
  BY DEF Make, InUse
<1>2. Typed'
  <2>1. owner' \in [InUse' -> Thread \cup {Shared}]
    BY <1>1 DEF Make, IInv, Typed
  <2>2. chunks' \in [InUse' -> [Index -> Block]]
    BY <1>1 DEF Make, IInv, Typed
  <2> QED
    BY <1>1, <2>1, <2>2 DEF IInv, Typed
<1>3. \A b : Pointed(b)' <=> Pointed(b) \/ \E i \in Index : pointers[i] = b
  BY <1>1 DEF Pointed
<1>4. Counted' /\ Apart'
  BY <1>3 DEF IInv, Counted, Apart, Assigning
<1>5. ASSUME NEW u \in Thread PROVE Turn(u)'
  <2>1. Turn(u) /\ write'[u] = write[u]
    BY DEF IInv
  <2>2. CASE write[u] = Idle
    BY <2>1, <2>2 DEF Turn
  <2>3. CASE write[u] # Idle
    <3> PICK h, j : h = write[u].grid /\ j = write[u].index
      OBVIOUS
    <3>1. /\ write[u].pc \in {"write", "detach", "assign"}
          /\ h \in InUse /\ owner[h] = u /\ j \in Index
          /\ write[u].change \in Changes
      BY <2>1, <2>3 DEF Turn
    <3>2. h \in InUse' /\ owner'[h] = u /\ chunks'[h][j] = chunks[h][j]
      BY <1>1, <3>1
    <3>3. ASSUME write[u].pc = "write" PROVE Alone(h, j)'
      <4>1. Alone(h, j) /\ owner[h] # Shared
        BY <2>1, <2>3, <3>1, <3>3, SharedAssumption DEF Turn
      <4>2. \A i \in Index : pointers[i] # chunks[h][j]
        BY <3>1, <4>1
      <4> QED
        BY <1>1, <3>2, <4>1, <4>2 DEF Alone
    <3>4. ASSUME write[u].pc = "assign"
          PROVE  /\ write[u].fresh \in DOMAIN heap'
                 /\ ~Pointed(write[u].fresh)'
                 /\ heap'[write[u].fresh] = heap'[chunks'[h][j]]
      <4>1. /\ write[u].fresh \in DOMAIN heap /\ ~Pointed(write[u].fresh)
            /\ heap[write[u].fresh] = heap[chunks[h][j]]
        BY <2>1, <2>3, <3>4 DEF Turn
      <4>2. chunks[h][j] \in DOMAIN heap
        BY <3>1, PointersAllocated DEF IInv
      <4> QED
        BY <1>3, <3>2, <3>4, <4>1, <4>2 DEF Assigning
    <3> QED
      BY <2>1, <3>1, <3>2, <3>3, <3>4 DEF Turn
  <2> QED
    BY <2>2, <2>3
<1> QED
  BY <1>2, <1>4, <1>5 DEF IInv

\* What the grids contain after grid g has come into use.
LEMMA MakeShows ==
  ASSUME IInv, NEW t, NEW g, g \notin InUse, NEW pointers, Make(t, g, pointers),
         NEW value,
         \A b \in DOMAIN heap : heap'[b] = heap[b],
         value = [i \in Index |-> heap'[pointers[i]]]
  PROVE  Store!Make(t, g, value)
<1>1. /\ InUse' = InUse \cup {g}
      /\ chunks'[g] = pointers
      /\ \A h \in InUse : h # g /\ chunks'[h] = chunks[h]
  BY DEF Make, InUse
<1>2. DOMAIN Contents = InUse /\ DOMAIN Contents' = InUse'
  BY DEF Contents
<1>3. \A h \in InUse : Contents'[h] = Contents[h]
  <2> SUFFICES ASSUME NEW h \in InUse PROVE Contents'[h] = Contents[h]
    OBVIOUS
  <2>1. \A i \in Index : heap'[chunks'[h][i]] = heap[chunks[h][i]]
    BY <1>1, PointersAllocated DEF IInv
  <2> QED
    BY <1>1, <2>1 DEF Contents
<1>4. Contents'[g] = value
  BY <1>1 DEF Contents
<1>5. Contents' = [h \in InUse \cup {g} |-> IF h = g THEN value ELSE Contents[h]]
  <2>1. \A h \in InUse' : Contents'[h] = IF h = g THEN value ELSE Contents[h]
    BY <1>1, <1>3, <1>4
  <2>2. Contents' = [h \in InUse' |-> Contents'[h]]
    BY DEF Contents
  <2> QED
    BY <1>1, <2>1, <2>2
<1> QED
  BY <1>2, <1>5 DEF Store!Make, Store!InUse, Make

\* A new grid has chunks of its own.
LEMMA CreateKeeps ==
  ASSUME IInv, NEW t \in Thread, NEW g \in Grid, NEW v \in Value, Create(t, g, v)
  PROVE  IInv' /\ Store!Create(t, g)
<1>1. PICK pointers \in [Index -> Free] :
        /\ Make(t, g, pointers)
        /\ heap' = [b \in DOMAIN heap \cup {pointers[i] : i \in Index} |->
                      IF b \in DOMAIN heap THEN heap[b] ELSE [x \in Inner |-> v]]
  BY DEF Create
<1>2. g \notin InUse /\ write[t] = Idle /\ UNCHANGED write
  BY DEF Create
<1>3. /\ pointers \in [Index -> Block]
      /\ \A i \in Index : pointers[i] \notin DOMAIN heap
  BY DEF Free
<1>4. /\ DOMAIN heap' = DOMAIN heap \cup {pointers[i] : i \in Index}
      /\ \A b \in DOMAIN heap : heap'[b] = heap[b]
      /\ \A i \in Index : heap'[pointers[i]] = [x \in Inner |-> v]
  BY <1>1, <1>3
<1>5. heap' \in [DOMAIN heap' -> [Inner -> Value]]
  BY <1>1, <1>4 DEF IInv, Typed
<1>6. \A h \in InUse, j \in Index : \A i \in Index : pointers[i] # chunks[h][j]
  BY <1>3, PointersAllocated DEF IInv
<1>7. \A u \in Thread : Assigning(u) => \A i \in Index : pointers[i] # write[u].fresh
  BY <1>3 DEF IInv, Counted
<1>8. IInv'
  BY <1>1, <1>2, <1>3, <1>4, <1>5, <1>6, <1>7, MakeKeeps
<1>9. Store!Make(t, g, [i \in Index |-> [x \in Inner |-> v]])
  BY <1>1, <1>2, <1>4, MakeShows
<1> QED
  BY <1>8, <1>9 DEF Store!Create

\* A copy shares the chunks of a grid that nobody writes.
LEMMA CopyKeeps ==
  ASSUME IInv, NEW t \in Thread, NEW g \in Grid, NEW h, Copy(t, g, h)
  PROVE  IInv' /\ Store!Copy(t, g, h)
<1>1. /\ g \notin InUse /\ h \in InUse /\ owner[h] = Shared /\ write[t] = Idle
      /\ Make(t, g, chunks[h]) /\ UNCHANGED <<heap, write>>
  BY DEF Copy
<1>2. PICK pointers : pointers = chunks[h]
  OBVIOUS
<1>3. pointers \in [Index -> Block] /\ \A i \in Index : pointers[i] \in DOMAIN heap
  BY <1>1, <1>2, PointersAllocated DEF IInv, Typed
<1>4. DOMAIN heap' = DOMAIN heap \cup {pointers[i] : i \in Index}
  BY <1>1, <1>3
<1>5. heap' \in [DOMAIN heap' -> [Inner -> Value]]
  BY <1>1 DEF IInv, Typed
<1>6. ASSUME NEW k \in InUse, NEW j \in Index, owner[k] # Shared, Alone(k, j),
             NEW i \in Index
      PROVE  pointers[i] # chunks[k][j]
  BY <1>1, <1>2, <1>6 DEF Alone
<1>7. ASSUME NEW u \in Thread, Assigning(u), NEW i \in Index
      PROVE  pointers[i] # write[u].fresh
  <2>1. ~Pointed(write[u].fresh)
    BY <1>7 DEF IInv, Turn, Assigning, Idle
  <2> QED
    BY <1>1, <1>2, <2>1 DEF Pointed
<1>8. IInv'
  BY <1>1, <1>2, <1>3, <1>4, <1>5, <1>6, <1>7, MakeKeeps
<1>9. Store!Make(t, g, Contents[h])
  <2>1. PICK value : value = Contents[h]
    OBVIOUS
  <2>2. value = [i \in Index |-> heap'[pointers[i]]]
    BY <1>1, <1>2, <2>1 DEF Contents
  <2>3. Store!Make(t, g, value)
    BY <1>1, <1>2, <2>2, MakeShows
  <2> QED
    BY <2>1, <2>3
<1>10. h \in Store!InUse
  BY <1>1 DEF Store!InUse, Contents
<1> QED
  BY <1>1, <1>8, <1>9, <1>10 DEF Store!Copy

\* The state of another thread that a step of thread t leaves as it was.
LEMMA OtherTurn ==
  ASSUME NEW u \in Thread, Turn(u), write'[u] = write[u],
         \A h \in InUse, j \in Index : owner[h] = u =>
           /\ h \in InUse' /\ owner'[h] = u /\ chunks'[h][j] = chunks[h][j]
           /\ Alone(h, j) => Alone(h, j)',
         \A h \in InUse, j \in Index : owner[h] = u /\ Assigning(u)
                                     /\ ~Pointed(write[u].fresh)
                                     /\ write[u].fresh \in DOMAIN heap
                                     /\ heap[write[u].fresh] = heap[chunks[h][j]] =>
           /\ write[u].fresh \in DOMAIN heap'
           /\ ~Pointed(write[u].fresh)'
           /\ heap'[write[u].fresh] = heap'[chunks[h][j]]
  PROVE  Turn(u)'
<1>1. CASE write[u] = Idle
  BY <1>1 DEF Turn
<1>2. CASE write[u] # Idle
  <2> PICK h, j : h = write[u].grid /\ j = write[u].index
    OBVIOUS
  <2>1. /\ write[u].pc \in {"write", "detach", "assign"}
        /\ h \in InUse /\ owner[h] = u /\ j \in Index
        /\ write[u].change \in Changes
        /\ write[u].pc = "write" => Alone(h, j)
        /\ write[u].pc = "assign" => /\ write[u].fresh \in DOMAIN heap
                                    /\ ~Pointed(write[u].fresh)
                                    /\ heap[write[u].fresh] = heap[chunks[h][j]]
    BY <1>2 DEF Turn
  <2>2. /\ h \in InUse' /\ owner'[h] = u /\ chunks'[h][j] = chunks[h][j]
        /\ write[u].pc = "write" => Alone(h, j)'
    BY <2>1
  <2>3. write[u].pc = "assign" => /\ write[u].fresh \in DOMAIN heap'
                                  /\ ~Pointed(write[u].fresh)'
                                  /\ heap'[write[u].fresh] = heap'[chunks'[h][j]]
    BY <2>1, <2>2 DEF Assigning
  <2> QED
    BY <2>1, <2>2, <2>3 DEF Turn
<1> QED
  BY <1>1, <1>2

\* What the grids contain stays when their pointers and the chunks these point at do.
LEMMA ContentsStay ==
  ASSUME Typed, Counted, UNCHANGED chunks, \A b \in DOMAIN heap : heap'[b] = heap[b]
  PROVE  Contents' = Contents
<1>1. \A g \in InUse, i \in Index : heap'[chunks[g][i]] = heap[chunks[g][i]]
  BY PointersAllocated
<1> QED
  BY <1>1 DEF Contents, InUse

\* A chunk that is tested unique is alone.
LEMMA TestKeeps ==
  ASSUME IInv, NEW t \in Thread, NEW g, NEW i \in Index, NEW change \in Changes,
         Test(t, g, i, change)
  PROVE  IInv' /\ UNCHANGED Store!vars
<1>1. PICK w : /\ w = [pc |-> IF Unique(chunks[g][i]) THEN "write" ELSE "detach",
                      grid |-> g, index |-> i, change |-> change]
               /\ write' = [write EXCEPT ![t] = w]
               /\ g \in InUse /\ owner[g] = t /\ write[t] = Idle
               /\ UNCHANGED <<owner, chunks, heap>>
  BY DEF Test
<1>2. /\ write'[t] = w /\ w.pc # "assign"
      /\ \A u \in Thread : u # t => write'[u] = write[u]
  BY <1>1 DEF IInv, Typed
<1>3. Typed'
  BY <1>1 DEF IInv, Typed, InUse
<1>4. \A u \in Thread : Assigning(u)' <=> u # t /\ Assigning(u)
  BY <1>1, <1>2 DEF Assigning, Idle
<1>5. \A b : Pointed(b)' <=> Pointed(b)
  BY <1>1 DEF Pointed, InUse
<1>6. Counted' /\ Apart'
  <2>1. ~Assigning(t)
    BY <1>1 DEF Assigning, Idle
  <2>2. Counted'
    BY <1>1, <1>2, <1>4, <1>5, <2>1 DEF IInv, Counted
  <2> QED
    BY <1>2, <1>4, <2>2 DEF IInv, Apart
<1>7. \A h \in InUse, j \in Index : Alone(h, j)' <=> Alone(h, j)
  BY <1>1 DEF Alone, InUse
<1>8. Turn(t)'
  <2>1. w.pc = "write" => Alone(g, i)
    BY <1>1, UniqueIsAlone DEF IInv
  <2>2. /\ w.pc \in {"write", "detach"} /\ w.grid = g /\ w.index = i
        /\ w.change = change
    BY <1>1
  <2>3. w.pc = "write" => Alone(g, i)'
    BY <1>1, <1>7, <2>1
  <2> QED
    BY <1>1, <1>2, <2>2, <2>3 DEF Turn, InUse
<1>9. ASSUME NEW u \in Thread, u # t PROVE Turn(u)'
  BY <1>1, <1>2, <1>5, <1>7, <1>9, OtherTurn DEF IInv, InUse
<1> QED
  BY <1>1, <1>3, <1>6, <1>8, <1>9, ContentsStay DEF IInv, Store!vars

\* The chunk a thread makes is a copy that nobody points at.
LEMMA MakeChunkKeeps ==
  ASSUME IInv, NEW t \in Thread, MakeChunk(t)
  PROVE  IInv' /\ UNCHANGED Store!vars
<1> PICK g, i : g = write[t].grid /\ i = write[t].index
  OBVIOUS
<1> PICK b \in Free :
      /\ heap' = [c \in DOMAIN heap \cup {b} |->
                    IF c = b THEN heap[chunks[g][i]] ELSE heap[c]]
      /\ write' = [write EXCEPT ![t] =
                     [pc |-> "assign", grid |-> g, index |-> i,
                      change |-> write[t].change, fresh |-> b]]
      /\ write[t].pc = "detach"
      /\ UNCHANGED <<owner, chunks>>
  BY DEF MakeChunk
<1> PICK w : w = [pc |-> "assign", grid |-> g, index |-> i,
                  change |-> write[t].change, fresh |-> b]
  OBVIOUS
<1>1. /\ heap' = [c \in DOMAIN heap \cup {b} |->
                    IF c = b THEN heap[chunks[g][i]] ELSE heap[c]]
      /\ w = [pc |-> "assign", grid |-> g, index |-> i,
              change |-> write[t].change, fresh |-> b]
      /\ write' = [write EXCEPT ![t] = w]
      /\ write[t].pc = "detach"
      /\ UNCHANGED <<owner, chunks>>
  OBVIOUS
<1>2. /\ write'[t] = w
      /\ \A u \in Thread : u # t => write'[u] = write[u]
  BY <1>1 DEF IInv, Typed
<1>3. g \in InUse /\ owner[g] = t /\ i \in Index /\ write[t].change \in Changes
  BY <1>1 DEF IInv, Turn, Idle
<1>4. /\ b \notin DOMAIN heap /\ b \in Block
      /\ DOMAIN heap' = DOMAIN heap \cup {b}
      /\ \A c \in DOMAIN heap : heap'[c] = heap[c]
      /\ heap'[b] = heap[chunks[g][i]]
  BY <1>1 DEF Free
<1>5. chunks[g][i] \in DOMAIN heap
  BY <1>3, PointersAllocated DEF IInv
<1>6. Typed'
  <2>1. heap' \in [DOMAIN heap' -> [Inner -> Value]]
    BY <1>1, <1>4, <1>5 DEF IInv, Typed
  <2> QED
    BY <1>1, <1>4, <2>1 DEF IInv, Typed, InUse
<1>7. \A c : Pointed(c)' <=> Pointed(c)
  BY <1>1 DEF Pointed, InUse
<1>8. \A u \in Thread : Assigning(u)' <=> u = t \/ Assigning(u)
  BY <1>1, <1>2 DEF Assigning
<1>9. ~Assigning(t) /\ write'[t].fresh = b
  BY <1>1, <1>2 DEF Assigning
<1>10. Counted'
  BY <1>2, <1>4, <1>7, <1>8, <1>9 DEF IInv, Counted
<1>11. Apart'
  BY <1>2, <1>4, <1>8, <1>9 DEF IInv, Apart, Counted
<1>12. Turn(t)'
  <2>1. ~Pointed(b)
    BY <1>4 DEF IInv, Counted
  <2>2. ~Pointed(b)' /\ b \in DOMAIN heap'
    BY <1>4, <1>7, <2>1
  <2>3. heap'[b] = heap'[chunks'[g][i]]
    BY <1>1, <1>4, <1>5
  <2>4. w.pc = "assign" /\ w.grid = g /\ w.index = i /\ w.fresh = b
        /\ w.change \in Changes
    BY <1>1, <1>3
  <2> QED
    BY <1>1, <1>2, <1>3, <2>2, <2>3, <2>4 DEF Turn, InUse
<1>13. ASSUME NEW u \in Thread, u # t PROVE Turn(u)'
  <2>1. \A h \in InUse, j \in Index : Alone(h, j)' <=> Alone(h, j)
    BY <1>1 DEF Alone, InUse
  <2>2. \A h \in InUse, j \in Index : chunks[h][j] \in DOMAIN heap
    BY PointersAllocated DEF IInv
  <2> QED
    BY <1>1, <1>2, <1>4, <1>7, <1>13, <2>1, <2>2, OtherTurn DEF IInv, InUse
<1> QED
  BY <1>1, <1>4, <1>6, <1>10, <1>11, <1>12, <1>13, ContentsStay DEF IInv, Store!vars

\* The grid turns to the copy, and its old chunk stays if it was shared.
LEMMA AssignChunkKeeps ==
  ASSUME IInv, NEW t \in Thread, AssignChunk(t)
  PROVE  IInv' /\ UNCHANGED Store!vars
<1> PICK g, i, b, old : /\ g = write[t].grid /\ i = write[t].index
                        /\ b = write[t].fresh /\ old = chunks[g][i]
  OBVIOUS
<1>1. PICK w :
        /\ chunks' = [chunks EXCEPT ![g][i] = b]
        /\ heap' = Restrict(heap, DOMAIN heap \ {c \in {old} : Unique(c)})
        /\ w = [pc |-> "write", grid |-> g, index |-> i, change |-> write[t].change]
        /\ write' = [write EXCEPT ![t] = w]
        /\ Assigning(t)
        /\ UNCHANGED owner
  BY DEF AssignChunk, Assigning
<1>2. /\ write'[t] = w
      /\ \A u \in Thread : u # t => write'[u] = write[u]
  BY <1>1 DEF IInv, Typed
<1>3. /\ g \in InUse /\ owner[g] = t /\ i \in Index /\ write[t].change \in Changes
      /\ b \in DOMAIN heap /\ ~Pointed(b) /\ heap[b] = heap[old]
  BY <1>1 DEF IInv, Turn, Idle, Assigning
<1>4. /\ InUse' = InUse
      /\ chunks'[g][i] = b
      /\ \A h \in InUse, j \in Index : h # g \/ j # i => chunks'[h][j] = chunks[h][j]
  BY <1>1, <1>3 DEF IInv, Typed, InUse
<1>5. Unique(old) <=> Alone(g, i)
  BY <1>3, UniqueIsAlone DEF IInv
<1>6. /\ \A c : c \in DOMAIN heap' <=> c \in DOMAIN heap /\ ~(c = old /\ Alone(g, i))
      /\ \A c \in DOMAIN heap' : heap'[c] = heap[c]
      /\ heap' = [c \in DOMAIN heap' |-> heap'[c]]
  BY <1>1, <1>5 DEF Restrict
<1>7. /\ old \in DOMAIN heap
      /\ \A h \in InUse, j \in Index : chunks[h][j] \in DOMAIN heap /\ chunks[h][j] # b
  BY <1>3, PointersAllocated DEF IInv, Pointed
<1>8. /\ old # b
      /\ \A h \in InUse, j \in Index : (h # g \/ j # i) => chunks[h][j] \in DOMAIN heap'
  BY <1>3, <1>6, <1>7 DEF Alone
<1>9. b \in DOMAIN heap'
  BY <1>3, <1>6, <1>8
<1>10. Typed'
  <2>1. heap' \in [DOMAIN heap' -> [Inner -> Value]] /\ DOMAIN heap' \subseteq Block
    BY <1>6 DEF IInv, Typed
  <2>2. b \in Block
    BY <1>3 DEF IInv, Typed
  <2>3. chunks' \in [InUse' -> [Index -> Block]]
    BY <1>1, <1>3, <1>4, <2>2 DEF IInv, Typed
  <2> QED
    BY <1>1, <1>4, <2>1, <2>3 DEF IInv, Typed
<1>11. \A c : Pointed(c)' <=> \/ c = b
                             \/ \E h \in InUse, j \in Index :
                                  (h # g \/ j # i) /\ chunks[h][j] = c
  BY <1>3, <1>4 DEF Pointed
<1>12. \A u \in Thread : Assigning(u)' <=> u # t /\ Assigning(u)
  BY <1>1, <1>2 DEF Assigning
<1>13. \A u \in Thread : u # t /\ Assigning(u) =>
         /\ write[u].fresh \in DOMAIN heap /\ write[u].fresh # b
         /\ ~Pointed(write[u].fresh)
  BY <1>1 DEF IInv, Counted, Apart, Turn, Assigning, Idle
<1>14. Counted'
  <2> SUFFICES ASSUME NEW c
               PROVE  c \in DOMAIN heap' <=> Pointed(c)' \/ \E u \in Thread :
                                                Assigning(u)' /\ write'[u].fresh = c
    BY DEF Counted
  <2>1. ASSUME c \in DOMAIN heap', ~Pointed(c)'
        PROVE  \E u \in Thread : Assigning(u)' /\ write'[u].fresh = c
    <3>1. ~Pointed(c)
      <4> SUFFICES ASSUME Pointed(c) PROVE FALSE
        OBVIOUS
      <4>1. c = old /\ ~Alone(g, i)
        BY <1>6, <1>11, <2>1 DEF Pointed
      <4> QED
        BY <1>11, <2>1, <4>1 DEF Alone
    <3>2. PICK u \in Thread : Assigning(u) /\ write[u].fresh = c
      BY <1>6, <2>1, <3>1 DEF IInv, Counted
    <3>3. u # t
      BY <1>11, <2>1, <3>2
    <3> QED
      BY <1>2, <1>12, <3>2, <3>3
  <2>2. ASSUME Pointed(c)' PROVE c \in DOMAIN heap'
    BY <1>8, <1>9, <1>11, <2>2
  <2>3. ASSUME NEW u \in Thread, Assigning(u)', write'[u].fresh = c
        PROVE  c \in DOMAIN heap'
    <3>1. /\ u # t /\ c \in DOMAIN heap /\ ~Pointed(c)
      BY <1>2, <1>12, <1>13, <2>3
    <3>2. c # old
      BY <1>3, <3>1 DEF Pointed
    <3> QED
      BY <1>6, <3>1, <3>2
  <2> QED
    BY <2>1, <2>2, <2>3
<1>15. Apart'
  BY <1>2, <1>12 DEF IInv, Apart
<1>16. Turn(t)'
  <2>1. Alone(g, i)'
    BY <1>3, <1>4, <1>7 DEF Alone
  <2>2. w.pc = "write" /\ w.grid = g /\ w.index = i /\ w.change \in Changes
    BY <1>1, <1>3
  <2> QED
    BY <1>1, <1>2, <1>3, <1>4, <2>1, <2>2 DEF Turn
<1>17. ASSUME NEW u \in Thread, u # t PROVE Turn(u)'
  <2>1. ASSUME NEW h \in InUse, NEW j \in Index, owner[h] = u
        PROVE  /\ h \in InUse' /\ owner'[h] = u /\ chunks'[h][j] = chunks[h][j]
               /\ Alone(h, j) => Alone(h, j)'
    <3>1. h # g
      BY <1>3, <1>17, <2>1
    <3>2. chunks'[h][j] = chunks[h][j] /\ chunks[h][j] # b
      BY <1>4, <1>7, <3>1
    <3>3. ASSUME Alone(h, j) PROVE Alone(h, j)'
      BY <1>3, <1>4, <3>2, <3>3 DEF Alone
    <3> QED
      BY <1>1, <1>4, <2>1, <3>2, <3>3
  <2>2. ASSUME NEW h \in InUse, NEW j \in Index, owner[h] = u, Assigning(u),
               heap[write[u].fresh] = heap[chunks[h][j]]
        PROVE  /\ write[u].fresh \in DOMAIN heap'
               /\ ~Pointed(write[u].fresh)'
               /\ heap'[write[u].fresh] = heap'[chunks[h][j]]
    <3>1. h # g
      BY <1>3, <1>17, <2>2
    <3>2. PICK c : /\ c = write[u].fresh /\ c \in DOMAIN heap /\ c # b /\ ~Pointed(c)
                   /\ write'[u].fresh = c
      BY <1>2, <1>13, <1>17, <2>2
    <3>3. c # old
      BY <1>3, <3>2 DEF Pointed
    <3>4. c \in DOMAIN heap' /\ chunks[h][j] \in DOMAIN heap'
      BY <1>6, <1>8, <3>1, <3>2, <3>3
    <3>5. ~Pointed(c)'
      BY <1>11, <3>2 DEF Pointed
    <3> QED
      BY <1>6, <2>2, <3>2, <3>4, <3>5
  <2> QED
    BY <1>2, <1>17, <2>1, <2>2, OtherTurn DEF IInv
<1>18. Contents' = Contents
  <2>1. \A h \in InUse, j \in Index : heap'[chunks'[h][j]] = heap[chunks[h][j]]
    BY <1>3, <1>4, <1>6, <1>8, <1>9
  <2> QED
    BY <1>4, <2>1 DEF Contents
<1> QED
  BY <1>1, <1>10, <1>14, <1>15, <1>16, <1>17, <1>18 DEF IInv, Store!vars

\* A grid is shared when its thread writes no chunk.
LEMMA ShareKeeps ==
  ASSUME IInv, NEW t \in Thread, NEW g, Share(t, g)
  PROVE  IInv' /\ Store!Share(t, g)
<1>1. /\ g \in InUse /\ owner[g] = t /\ write[t] = Idle
      /\ owner' = [owner EXCEPT ![g] = Shared]
      /\ UNCHANGED <<chunks, heap, write>>
  BY DEF Share
<1>2. /\ InUse' = InUse
      /\ \A h \in InUse : h # g => owner'[h] = owner[h]
  BY <1>1 DEF IInv, Typed, InUse
<1>3. Typed'
  BY <1>1, <1>2 DEF IInv, Typed
<1>4. /\ \A c : Pointed(c)' <=> Pointed(c)
      /\ \A h \in InUse, j \in Index : Alone(h, j)' <=> Alone(h, j)
  BY <1>1, <1>2 DEF Pointed, Alone
<1>5. Counted' /\ Apart'
  BY <1>1, <1>4 DEF IInv, Counted, Apart, Assigning
<1>6. ASSUME NEW u \in Thread PROVE Turn(u)'
  <2>1. CASE u = t
    BY <1>1, <2>1 DEF Turn
  <2>2. CASE u # t
    <3>1. \A h \in InUse : owner[h] = u => owner'[h] = u
      BY <1>1, <1>2, <2>2
    <3> QED
      BY <1>1, <1>2, <1>4, <3>1, OtherTurn DEF IInv
  <2> QED
    BY <2>1, <2>2
<1>7. g \in Store!InUse /\ Contents' = Contents
  BY <1>1 DEF Store!InUse, Contents, InUse
<1> QED
  BY <1>1, <1>3, <1>5, <1>6, <1>7 DEF IInv, Store!Share

\* With a grid go the chunks that only it points at.
LEMMA DestroyKeeps ==
  ASSUME IInv, NEW g, Destroy(g)
  PROVE  IInv' /\ Store!Destroy(g)
<1> DEFINE gone == {chunks[g][i] : i \in {j \in Index :
                       Pointers(chunks[g][j]) \subseteq {g} \X Index}}
<1>1. /\ g \in InUse /\ owner[g] = Shared
      /\ owner' = [h \in InUse \ {g} |-> owner[h]]
      /\ chunks' = [h \in InUse \ {g} |-> chunks[h]]
      /\ heap' = Restrict(heap, DOMAIN heap \ gone)
      /\ UNCHANGED write
  BY DEF Destroy
<1>2. \A c : c \in gone <=> /\ \E i \in Index : chunks[g][i] = c
                           /\ \A h \in InUse, j \in Index : chunks[h][j] = c => h = g
  <2>1. \A c : Pointers(c) \subseteq {g} \X Index
               <=> \A h \in InUse, j \in Index : chunks[h][j] = c => h = g
    <3> SUFFICES ASSUME NEW c
                 PROVE  Pointers(c) \subseteq {g} \X Index
                          <=> \A h \in InUse, j \in Index : chunks[h][j] = c => h = g
      OBVIOUS
    <3>1. \A h, j : <<h, j>> \in Pointers(c)
                      <=> h \in InUse /\ j \in Index /\ chunks[h][j] = c
      BY DEF Pointers
    <3>2. \A p \in Pointers(c) : p = <<p[1], p[2]>> /\ p[2] \in Index /\ p[1] \in InUse
      BY DEF Pointers
    <3>3. ASSUME Pointers(c) \subseteq {g} \X Index, NEW h \in InUse, NEW j \in Index,
                 chunks[h][j] = c
          PROVE  h = g
      <4>1. <<h, j>> \in {g} \X Index
        BY <3>1, <3>3
      <4> QED
        BY <4>1
    <3>4. ASSUME \A h \in InUse, j \in Index : chunks[h][j] = c => h = g,
                 NEW p \in Pointers(c)
          PROVE  p \in {g} \X Index
      <4>1. PICK h \in InUse, j \in Index : p = <<h, j>>
        BY <3>2
      <4>2. h = g
        BY <3>1, <3>4, <4>1
      <4> QED
        BY <4>1, <4>2
    <3> QED
      BY <3>3, <3>4
  <2>2. \A c : c \in gone <=> \E i \in Index : /\ chunks[g][i] = c
                                            /\ Pointers(chunks[g][i]) \subseteq {g} \X Index
    OBVIOUS
  <2> HIDE DEF gone
  <2> QED
    BY <2>1, <2>2
<1> HIDE DEF gone
<1>3. /\ InUse' = InUse \ {g}
      /\ \A h \in InUse' : h \in InUse /\ chunks'[h] = chunks[h] /\ owner'[h] = owner[h]
  BY <1>1 DEF InUse
<1>4. /\ \A c : c \in DOMAIN heap' <=> c \in DOMAIN heap /\ c \notin gone
      /\ \A c \in DOMAIN heap' : heap'[c] = heap[c]
      /\ heap' = [c \in DOMAIN heap' |-> heap'[c]]
  BY <1>1 DEF Restrict
<1>5. \A h \in InUse', j \in Index : chunks[h][j] \in DOMAIN heap'
  BY <1>2, <1>3, <1>4, PointersAllocated DEF IInv
<1>6. Typed'
  <2>1. owner' \in [InUse' -> Thread \cup {Shared}]
    BY <1>1, <1>3 DEF IInv, Typed
  <2>2. chunks' \in [InUse' -> [Index -> Block]]
    BY <1>1, <1>3 DEF IInv, Typed
  <2>3. heap' \in [DOMAIN heap' -> [Inner -> Value]] /\ DOMAIN heap' \subseteq Block
    BY <1>4 DEF IInv, Typed
  <2> QED
    BY <1>1, <1>3, <2>1, <2>2, <2>3 DEF IInv, Typed
<1>7. \A c : Pointed(c)' <=> \E h \in InUse', j \in Index : chunks[h][j] = c
  BY <1>3 DEF Pointed
<1>8. \A u \in Thread : Assigning(u) =>
        write[u].fresh \in DOMAIN heap /\ ~Pointed(write[u].fresh)
  BY DEF IInv, Counted, Turn, Assigning, Idle
<1>9. Counted'
  <2> SUFFICES ASSUME NEW c
               PROVE  c \in DOMAIN heap' <=> Pointed(c)' \/ \E u \in Thread :
                                                Assigning(u)' /\ write'[u].fresh = c
    BY DEF Counted
  <2>1. ASSUME c \in DOMAIN heap', Pointed(c) PROVE Pointed(c)'
    <3>1. PICK h \in InUse, j \in Index : chunks[h][j] = c
      BY <2>1 DEF Pointed
    <3>2. CASE h = g
      BY <1>2, <1>3, <1>4, <1>7, <2>1, <3>1, <3>2
    <3>3. CASE h # g
      BY <1>3, <1>7, <3>1, <3>3
    <3> QED
      BY <3>2, <3>3
  <2>2. ASSUME c \in DOMAIN heap', ~Pointed(c)
        PROVE  \E u \in Thread : Assigning(u)' /\ write'[u].fresh = c
    BY <1>1, <1>4, <2>2 DEF IInv, Counted, Assigning
  <2>3. ASSUME Pointed(c)' PROVE c \in DOMAIN heap'
    BY <1>5, <1>7, <2>3
  <2>4. ASSUME NEW u \in Thread, Assigning(u)', write'[u].fresh = c
        PROVE  c \in DOMAIN heap'
    <3>1. c \in DOMAIN heap /\ ~Pointed(c)
      BY <1>1, <1>8, <2>4 DEF Assigning
    <3>2. c \notin gone
      BY <1>1, <1>2, <3>1 DEF Pointed
    <3> QED
      BY <1>4, <3>1, <3>2
  <2> QED
    BY <2>1, <2>2, <2>3, <2>4
<1>10. Apart'
  BY <1>1 DEF IInv, Apart, Assigning
<1>11. ASSUME NEW u \in Thread PROVE Turn(u)'
  <2>1. ASSUME NEW h \in InUse, NEW j \in Index, owner[h] = u
        PROVE  /\ h \in InUse' /\ owner'[h] = u /\ chunks'[h][j] = chunks[h][j]
               /\ Alone(h, j) => Alone(h, j)'
    <3>1. h # g
      BY <1>1, <2>1, SharedAssumption
    <3>2. h \in InUse' /\ owner'[h] = u /\ chunks'[h][j] = chunks[h][j]
      BY <1>3, <2>1, <3>1
    <3>3. ASSUME Alone(h, j) PROVE Alone(h, j)'
      BY <1>3, <3>2, <3>3 DEF Alone
    <3> QED
      BY <3>2, <3>3
  <2>2. ASSUME NEW h \in InUse, NEW j \in Index, owner[h] = u, Assigning(u),
               heap[write[u].fresh] = heap[chunks[h][j]]
        PROVE  /\ write[u].fresh \in DOMAIN heap'
               /\ ~Pointed(write[u].fresh)'
               /\ heap'[write[u].fresh] = heap'[chunks[h][j]]
    <3>1. PICK c : /\ c = write[u].fresh /\ c \in DOMAIN heap /\ ~Pointed(c)
                   /\ write'[u].fresh = c
      BY <1>1, <1>8, <2>2
    <3>2. c \notin gone
      BY <1>1, <1>2, <3>1 DEF Pointed
    <3>3. c \in DOMAIN heap' /\ chunks[h][j] \in DOMAIN heap'
      BY <1>4, <1>5, <2>1, <2>2, <3>1, <3>2
    <3>4. ~Pointed(c)'
      BY <1>3, <1>7, <3>1 DEF Pointed
    <3> QED
      BY <1>4, <2>2, <3>1, <3>3, <3>4
  <2> QED
    BY <1>1, <2>1, <2>2, OtherTurn DEF IInv
<1>12. Contents' = [h \in InUse \ {g} |-> Contents[h]]
  <2>1. \A h \in InUse' : Contents'[h] = Contents[h]
    <3> SUFFICES ASSUME NEW h \in InUse' PROVE Contents'[h] = Contents[h]
      OBVIOUS
    <3>1. \A j \in Index : heap'[chunks'[h][j]] = heap[chunks[h][j]]
      BY <1>3, <1>4, <1>5
    <3> QED
      BY <1>3, <3>1 DEF Contents
  <2>2. Contents' = [h \in InUse' |-> Contents'[h]]
    BY DEF Contents
  <2> QED
    BY <1>3, <2>1, <2>2
<1>13. Store!InUse = InUse
  BY DEF Store!InUse, Contents
<1> QED
  BY <1>1, <1>6, <1>9, <1>10, <1>11, <1>12, <1>13 DEF IInv, Store!Destroy

\* A grid with other contents in one chunk.
Filled(contents, g, i, data) == [contents EXCEPT ![g][i] = data]

\* The contents of the grids of G.
OfGrids(G, c) == c = [h \in G |-> [j \in Index |-> c[h][j]]]

\* What the grids in use contain, now and next.
LEMMA ContentsOf ==
  ASSUME NEW c
  PROVE  /\ c = Contents => OfGrids(InUse, c)
         /\ c = Contents' => OfGrids(InUse', c)
<1>1. ASSUME c = Contents PROVE OfGrids(InUse, c)
  <2>1. \A h \in InUse : c[h] = [j \in Index |-> c[h][j]]
    BY <1>1 DEF Contents
  <2>2. c = [h \in InUse |-> c[h]]
    BY <1>1 DEF Contents
  <2> QED
    BY <2>1, <2>2 DEF OfGrids
<1>2. ASSUME c = Contents' PROVE OfGrids(InUse', c)
  <2>1. \A h \in InUse' : c[h] = [j \in Index |-> c[h][j]]
    BY <1>2 DEF Contents
  <2>2. c = [h \in InUse' |-> c[h]]
    BY <1>2 DEF Contents
  <2> QED
    BY <2>1, <2>2 DEF OfGrids
<1> QED
  BY <1>1, <1>2

\* Two contents that differ in one chunk.
LEMMA FilledIs ==
  ASSUME NEW G, NEW g \in G, NEW i \in Index, NEW data,
         NEW c, OfGrids(G, c), NEW d, OfGrids(G, d),
         d[g][i] = data,
         \A h \in G, j \in Index : h # g \/ j # i => d[h][j] = c[h][j]
  PROVE  d = Filled(c, g, i, data)
<1>1. \A h \in G : /\ c[h] = [j \in Index |-> c[h][j]]
                  /\ d[h] = [j \in Index |-> d[h][j]]
  BY DEF OfGrids
<1>2. \A h \in G : h # g => d[h] = c[h]
  BY <1>1
<1>3. PICK chunk : chunk = [c[g] EXCEPT ![i] = data]
  OBVIOUS
<1>4. d[g] = chunk
  BY <1>1, <1>3
<1>5. Filled(c, g, i, data) = [c EXCEPT ![g] = chunk]
  BY <1>3 DEF Filled
<1>6. d = [h \in G |-> IF h = g THEN chunk ELSE c[h]]
  BY <1>2, <1>4 DEF OfGrids
<1>7. [c EXCEPT ![g] = chunk] = [h \in G |-> IF h = g THEN chunk ELSE c[h]]
  BY DEF OfGrids
<1> QED
  BY <1>5, <1>6, <1>7

\* A write changes the one grid that points at the chunk.
LEMMA WriteChunkKeeps ==
  ASSUME IInv, NEW t \in Thread, WriteChunk(t)
  PROVE  /\ IInv'
         /\ \E g \in Grid, i \in Index :
              Store!WriteCell(t, g, i) \/ Store!FillChunk(t, g, i)
<1> PICK g, i, b, change : /\ g = write[t].grid /\ i = write[t].index
                           /\ b = chunks[g][i] /\ change = write[t].change
  OBVIOUS
<1>1. PICK data :
        /\ data = Changed(heap[b], change)
        /\ heap' = [heap EXCEPT ![b] = data]
        /\ write' = [write EXCEPT ![t] = Idle]
        /\ write[t].pc = "write"
        /\ UNCHANGED <<owner, chunks>>
  BY DEF WriteChunk
<1>2. /\ write'[t] = Idle
      /\ \A u \in Thread : u # t => write'[u] = write[u]
  BY <1>1 DEF IInv, Typed
<1>3. /\ g \in InUse /\ g \in Grid /\ owner[g] = t /\ i \in Index /\ change \in Changes
      /\ Alone(g, i)
  BY <1>1 DEF IInv, Typed, Turn, Idle
<1>4. /\ b \in DOMAIN heap
      /\ DOMAIN heap' = DOMAIN heap
      /\ heap'[b] = data
      /\ \A c \in DOMAIN heap : c # b => heap'[c] = heap[c]
  BY <1>1, <1>3, PointersAllocated DEF IInv
<1>5. data \in [Inner -> Value]
  BY <1>1, <1>3, <1>4 DEF IInv, Typed, Changed, Changes
<1>6. Typed'
  <2>1. heap' \in [DOMAIN heap' -> [Inner -> Value]]
    BY <1>1, <1>4, <1>5 DEF IInv, Typed
  <2> QED
    BY <1>1, <1>4, <2>1 DEF IInv, Typed, InUse
<1>7. /\ \A c : Pointed(c)' <=> Pointed(c)
      /\ \A h \in InUse, j \in Index : Alone(h, j)' <=> Alone(h, j)
  BY <1>1 DEF Pointed, Alone, InUse
<1>8. \A u \in Thread : Assigning(u)' <=> Assigning(u) /\ u # t
  BY <1>2 DEF Assigning, Idle
<1>9. ~Assigning(t)
  BY <1>1 DEF Assigning
<1>10. Counted' /\ Apart'
  <2>1. Counted'
    BY <1>2, <1>4, <1>7, <1>8, <1>9 DEF IInv, Counted
  <2> QED
    BY <1>2, <1>8, <2>1 DEF IInv, Apart
<1>11. Turn(t)'
  BY <1>2 DEF Turn
<1>12. ASSUME NEW u \in Thread, u # t PROVE Turn(u)'
  <2>1. ASSUME NEW h \in InUse, NEW j \in Index, owner[h] = u, Assigning(u),
               ~Pointed(write[u].fresh), write[u].fresh \in DOMAIN heap,
               heap[write[u].fresh] = heap[chunks[h][j]]
        PROVE  /\ write[u].fresh \in DOMAIN heap'
               /\ ~Pointed(write[u].fresh)'
               /\ heap'[write[u].fresh] = heap'[chunks[h][j]]
    <3>1. h # g
      BY <1>3, <1>12, <2>1
    <3>2. chunks[h][j] # b /\ chunks[h][j] \in DOMAIN heap
      BY <1>3, <2>1, <3>1, PointersAllocated DEF Alone, IInv
    <3>3. PICK c : /\ c = write[u].fresh /\ c \in DOMAIN heap /\ ~Pointed(c)
                   /\ write'[u].fresh = c
      BY <1>2, <1>12, <2>1
    <3>4. c # b
      BY <1>3, <3>3 DEF Pointed
    <3>5. ~Pointed(c)'
      BY <1>7, <3>3
    <3> QED
      BY <1>4, <2>1, <3>2, <3>3, <3>4, <3>5
  <2> QED
    BY <1>1, <1>2, <1>7, <1>12, <2>1, OtherTurn DEF IInv, InUse
<1>13. IInv'
  BY <1>6, <1>10, <1>11, <1>12 DEF IInv
<1>14. Contents' = Filled(Contents, g, i, data)
  <2>1. /\ Contents'[g][i] = data
        /\ \A h \in InUse, j \in Index : h # g \/ j # i => Contents'[h][j] = Contents[h][j]
    <3>1. \A h \in InUse, j \in Index : h # g \/ j # i =>
            chunks[h][j] # b /\ chunks[h][j] \in DOMAIN heap
      BY <1>3, PointersAllocated DEF Alone, IInv
    <3> QED
      BY <1>1, <1>3, <1>4, <3>1 DEF Contents, InUse
  <2>3. PICK c, d : c = Contents /\ d = Contents'
    OBVIOUS
  <2>4. OfGrids(InUse, c) /\ OfGrids(InUse, d)
    <3>1. OfGrids(InUse, c)
      BY <2>3, ContentsOf
    <3>2. InUse' = InUse /\ OfGrids(InUse', d)
      BY <1>1, <2>3, ContentsOf DEF InUse
    <3> QED
      BY <3>1, <3>2
  <2>5. /\ d[g][i] = data
        /\ \A h \in InUse, j \in Index : h # g \/ j # i => d[h][j] = c[h][j]
    BY <2>1, <2>3
  <2>6. d = Filled(c, g, i, data)
    BY <1>3, <2>4, <2>5, FilledIs
  <2> QED
    BY <2>3, <2>6
<1>15. Contents[g][i] = heap[b] /\ heap[b] \in [Inner -> Value]
  BY <1>3, <1>4 DEF Contents, IInv, Typed
<1>16. g \in Store!InUse
  BY <1>3 DEF Store!InUse, Contents
<1>17. Store!Write(t, g, i, data)
  BY <1>1, <1>3, <1>14, <1>16 DEF Store!Write, Filled
<1>18. PICK v \in Value : change.value = v
  BY <1>3 DEF Changes
<1>19. CASE change.cells = Inner
  <2>1. data = [x \in Inner |-> v]
    BY <1>1, <1>18, <1>19 DEF Changed
  <2>2. Store!FillChunk(t, g, i)
    BY <1>17, <2>1 DEF Store!FillChunk
  <2> QED
    BY <1>3, <1>13, <2>2
<1>20. CASE \E x \in Inner : change.cells = {x}
  <2>1. PICK x \in Inner : change.cells = {x}
    BY <1>20
  <2>2. data = [Contents[g][i] EXCEPT ![x] = v]
    BY <1>1, <1>15, <1>18, <2>1 DEF Changed
  <2>3. Store!WriteCell(t, g, i)
    BY <1>16, <1>17, <2>2 DEF Store!WriteCell
  <2> QED
    BY <1>3, <1>13, <2>3
<1> QED
  BY <1>3, <1>19, <1>20 DEF Changes

(***************************************************************************)
(* The theorems.                                                           *)
(***************************************************************************)

\* Each step keeps the invariant, and is a step of GridStore or none.
LEMMA StepKeeps ==
  ASSUME IInv, [Next]_vars
  PROVE  IInv' /\ [Store!Next]_(Store!vars)
<1>1. CASE \E g \in Grid : Destroy(g)
  BY <1>1, DestroyKeeps DEF Store!Next
<1>2. ASSUME NEW t \in Thread, NEW g \in Grid, Share(t, g)
      PROVE  IInv' /\ [Store!Next]_(Store!vars)
  BY <1>2, ShareKeeps DEF Store!Next
<1>3. ASSUME NEW t \in Thread, NEW g \in Grid, NEW v \in Value, Create(t, g, v)
      PROVE  IInv' /\ [Store!Next]_(Store!vars)
  BY <1>3, CreateKeeps DEF Store!Next
<1>4. ASSUME NEW t \in Thread, NEW g \in Grid, NEW h \in Grid, Copy(t, g, h)
      PROVE  IInv' /\ [Store!Next]_(Store!vars)
  BY <1>4, CopyKeeps DEF Store!Next
<1>5. ASSUME NEW t \in Thread, NEW g \in Grid, NEW i \in Index, NEW change \in Changes,
             Test(t, g, i, change)
      PROVE  IInv' /\ [Store!Next]_(Store!vars)
  BY <1>5, TestKeeps
<1>6. ASSUME NEW t \in Thread, MakeChunk(t)
      PROVE  IInv' /\ [Store!Next]_(Store!vars)
  BY <1>6, MakeChunkKeeps
<1>7. ASSUME NEW t \in Thread, AssignChunk(t)
      PROVE  IInv' /\ [Store!Next]_(Store!vars)
  BY <1>7, AssignChunkKeeps
<1>8. ASSUME NEW t \in Thread, WriteChunk(t)
      PROVE  IInv' /\ [Store!Next]_(Store!vars)
  BY <1>8, WriteChunkKeeps DEF Store!Next
<1>9. CASE UNCHANGED vars
  <2>1. UNCHANGED <<owner, chunks, heap, write>>
    BY <1>9 DEF vars
  <2>2. IInv'
    BY <2>1 DEF IInv, Typed, Counted, Apart, Turn, Alone, Pointed, Assigning, InUse
  <2>3. UNCHANGED Store!vars
    BY <2>1 DEF Store!vars, Contents, InUse
  <2> QED
    BY <2>2, <2>3
<1> QED
  BY <1>1, <1>2, <1>3, <1>4, <1>5, <1>6, <1>7, <1>8, <1>9 DEF Next

\* Every chunk in use is allocated, once for all that point at it, and a chunk that
\* is about to be written is pointed at by the writer's grid alone, however the
\* steps of copies, writes and drops in other threads interleave with it.
THEOREM Invariance == Spec => []IInv
<1>1. Init => IInv
  <2> SUFFICES ASSUME Init PROVE IInv
    OBVIOUS
  <2>1. /\ InUse = {} /\ DOMAIN heap = {}
        /\ \A t \in Thread : write[t] = Idle
    BY DEF Init, InUse
  <2>2. Typed
    BY <2>1 DEF Init, Typed
  <2>3. \A t \in Thread : ~Assigning(t)
    BY <2>1 DEF Assigning, Idle
  <2> QED
    BY <2>1, <2>2, <2>3 DEF IInv, Counted, Apart, Turn, Pointed
<1> QED
  BY <1>1, StepKeeps, PTL DEF Spec

\* Exactly the chunks somebody points at are allocated: none is freed under a
\* grid, and none leaks.
THEOREM TypeCorrect == Spec => []TypeOK
<1>1. IInv => TypeOK
  <2> SUFFICES ASSUME IInv PROVE TypeOK
    OBVIOUS
  <2>1. \A b : b \in DOMAIN heap
                <=> b \in (UNION {{chunks[g][i] : i \in Index} : g \in InUse}) \cup Pending
    BY DEF IInv, Counted, Pointed, Pending, Assigning
  <2> QED
    BY <2>1 DEF IInv, Typed, TypeOK
<1> QED
  BY <1>1, Invariance, PTL

\* The assertion of at: although the test was made earlier, no other grid has come
\* to share the chunk that is written.
THEOREM WritesAlwaysUnique == Spec => []WritesUnique
<1>1. IInv => WritesUnique
  <2> SUFFICES ASSUME IInv, NEW t \in Thread, write[t].pc = "write"
               PROVE  Unique(chunks[write[t].grid][write[t].index])
    BY DEF WritesUnique
  <2>1. /\ write[t].grid \in InUse /\ write[t].index \in Index
        /\ Alone(write[t].grid, write[t].index)
    BY DEF IInv, Turn, Idle
  <2> QED
    BY <2>1, UniqueIsAlone DEF IInv
<1> QED
  BY <1>1, Invariance, PTL

\* Sharing chunks is not to be seen: each grid is a grid of its own, which only the
\* thread that makes it changes, and that of a view never changes.
THEOREM GridsAlwaysIndependent == Spec => IndependentGrids
<1>1. Init => Store!Init
  BY DEF Init, Store!Init, Contents, InUse
<1>2. IInv /\ [Next]_vars => [Store!Next]_(Store!vars)
  BY StepKeeps
<1> QED
  BY <1>1, <1>2, Invariance, PTL DEF Spec, IndependentGrids, Store!Spec
=============================================================================
