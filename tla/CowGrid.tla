------------------------------ MODULE CowGrid -------------------------------
(***************************************************************************)
(* graph::CowGrid under MapView::apply: a grid is a table of shared        *)
(* pointers to chunks; a copy shares every chunk, and a chunk is copied    *)
(* before it is written unless it is unique.  Threads apply updates to the *)
(* same views at once: the test, the copy of the chunk, the change of the  *)
(* pointer and the write are steps of their own, which may interleave.     *)
(*                                                                         *)
(* The counts of the shared pointers are exact and read atomically.        *)
(***************************************************************************)
EXTENDS Integers, FiniteSets, Functions

CONSTANTS
  Thread,
  Shared,   \* the owner of a grid that some MapView has
  Grid,
  Index,    \* the positions of chunks in a grid
  Inner,    \* the cells of a chunk
  Value,
  Block     \* the addresses of chunks

ASSUME SharedAssumption == Shared \notin Thread

ASSUME SizeAssumption == IsFiniteSet(Grid) /\ IsFiniteSet(Index)

VARIABLES
  owner,    \* the thread that makes each grid in use, or Shared
  chunks,   \* chunks[g][i]: the pointers of each grid in use
  heap,     \* the contents of each allocated chunk
  write     \* the call of at() or the turn of fill each thread is in

vars == <<owner, chunks, heap, write>>

InUse == DOMAIN chunks
Free  == Block \ DOMAIN heap

\* A thread outside any write.
Idle == [pc |-> "idle"]

Init ==
  /\ owner = [g \in {} |-> Shared]
  /\ chunks = [g \in {} |-> [i \in Index |-> {}]]
  /\ heap = [b \in {} |-> {}]
  /\ write = [t \in Thread |-> Idle]

\* The grids' pointers to block b.
Pointers(b) == {p \in InUse \X Index : chunks[p[1]][p[2]] = b}

\* Grid g comes into use in the hands of t.
Make(t, g, pointers) ==
  /\ owner' = [h \in InUse \cup {g} |-> IF h = g THEN t ELSE owner[h]]
  /\ chunks' = [h \in InUse \cup {g} |-> IF h = g THEN pointers ELSE chunks[h]]

\* CowGrid(size_in_chunks, chunk_size, fill_value).
Create(t, g, v) ==
  /\ g \notin InUse
  /\ write[t] = Idle
  /\ \E pointers \in [Index -> Free] :
       /\ \A i, j \in Index : i # j => pointers[i] # pointers[j]
       /\ Make(t, g, pointers)
       /\ heap' = [b \in DOMAIN heap \cup {pointers[i] : i \in Index} |->
                     IF b \in DOMAIN heap THEN heap[b] ELSE [x \in Inner |-> v]]
  /\ UNCHANGED write

\* (A mutation of Copy: of a map that is still being updated.)
CopyUnfinished(t, g, h) ==
  /\ g \notin InUse
  /\ h \in InUse
  /\ write[t] = Idle
  /\ Make(t, g, chunks[h])
  /\ UNCHANGED <<heap, write>>

\* apply: the next map starts as a copy of a view's, which nobody writes.
Copy(t, g, h) ==
  /\ g \notin InUse
  /\ h \in InUse
  /\ owner[h] = Shared
  /\ write[t] = Idle
  /\ Make(t, g, chunks[h])
  /\ UNCHANGED <<heap, write>>

\* (A mutation of Unique: the original's pointer is not counted.)
UniqueButOne(b) == Cardinality(Pointers(b)) <= 2

\* shared_ptr::unique.
Unique(b) == Cardinality(Pointers(b)) = 1

\* at(cell), or fill in its turn for chunk i: is the chunk unique?
Test(t, g, i, change) ==
  /\ g \in InUse
  /\ owner[g] = t
  /\ write[t] = Idle
  /\ write' = [write EXCEPT ![t] =
                 [pc |-> IF Unique(chunks[g][i]) THEN "write" ELSE "detach",
                  grid |-> g, index |-> i, change |-> change]]
  /\ UNCHANGED <<owner, chunks, heap>>

\* What a call writes: one cell, or with fill all of them.
Changed(data, change) == [x \in Inner |-> IF x \in change.cells THEN change.value
                                                              ELSE data[x]]

\* make_shared: a copy of the chunk, to which only the thread points as yet.
\* (Of the chunk fill makes, nothing of the copy is left after the write.)
MakeChunk(t) ==
  LET w == write[t]
  IN  /\ w.pc = "detach"
      /\ \E b \in Free :
           /\ heap' = [c \in DOMAIN heap \cup {b} |->
                         IF c = b THEN heap[chunks[w.grid][w.index]] ELSE heap[c]]
           /\ write' = [write EXCEPT ![t] =
                          [pc |-> "assign", grid |-> w.grid, index |-> w.index,
                           change |-> w.change, fresh |-> b]]
      /\ UNCHANGED <<owner, chunks>>

\* (A mutation of AssignChunk: the old chunk is not released.)
AssignChunkLeaking(t) ==
  LET w == write[t]
  IN  /\ w.pc = "assign"
      /\ chunks' = [chunks EXCEPT ![w.grid][w.index] = w.fresh]
      /\ write' = [write EXCEPT ![t] =
                     [pc |-> "write", grid |-> w.grid, index |-> w.index,
                      change |-> w.change]]
      /\ UNCHANGED <<owner, heap>>

\* The grid's pointer is changed to the copy, and its old chunk released.
AssignChunk(t) ==
  LET w   == write[t]
      old == chunks[w.grid][w.index]
  IN  /\ w.pc = "assign"
      /\ chunks' = [chunks EXCEPT ![w.grid][w.index] = w.fresh]
      /\ heap' = Restrict(heap, DOMAIN heap \ {b \in {old} : Unique(b)})
      /\ write' = [write EXCEPT ![t] =
                     [pc |-> "write", grid |-> w.grid, index |-> w.index,
                      change |-> w.change]]
      /\ UNCHANGED owner

WriteChunk(t) ==
  LET w == write[t]
      b == chunks[w.grid][w.index]
  IN  /\ w.pc = "write"
      /\ heap' = [heap EXCEPT ![b] = Changed(@, w.change)]
      /\ write' = [write EXCEPT ![t] = Idle]
      /\ UNCHANGED <<owner, chunks>>

\* The next map is finished: a MapView has it, and other threads may.
Share(t, g) ==
  /\ g \in InUse
  /\ owner[g] = t
  /\ write[t] = Idle
  /\ owner' = [owner EXCEPT ![g] = Shared]
  /\ UNCHANGED <<chunks, heap, write>>

\* The last MapView of a map is gone.
Destroy(g) ==
  /\ g \in InUse
  /\ owner[g] = Shared
  /\ owner' = [h \in InUse \ {g} |-> owner[h]]
  /\ chunks' = [h \in InUse \ {g} |-> chunks[h]]
  /\ heap' = Restrict(heap, DOMAIN heap \
                {chunks[g][i] : i \in {j \in Index :
                                        Pointers(chunks[g][j]) \subseteq {g} \X Index}})
  /\ UNCHANGED write

Changes == [cells : {{x} : x \in Inner} \cup {Inner}, value : Value]

Next ==
  \/ \E g \in Grid : Destroy(g)
  \/ \E t \in Thread :
       \/ \E g \in Grid : Share(t, g)
       \/ \E g \in Grid, v \in Value : Create(t, g, v)
       \/ \E g, h \in Grid : Copy(t, g, h)
       \/ \E g \in Grid, i \in Index, change \in Changes : Test(t, g, i, change)
       \/ MakeChunk(t) \/ AssignChunk(t) \/ WriteChunk(t)

Spec == Init /\ [][Next]_vars

-----------------------------------------------------------------------------
(***************************************************************************)
(* Properties.                                                             *)
(***************************************************************************)

\* The blocks that threads have made and not yet assigned.
Pending == {write[t].fresh : t \in {u \in Thread : write[u].pc = "assign"}}

\* Exactly the chunks somebody points at are allocated: none is freed under a
\* grid, and none is leaked.
TypeOK ==
  /\ owner \in [InUse -> Thread \cup {Shared}]
  /\ chunks \in [InUse -> [Index -> Block]]
  /\ heap \in [DOMAIN heap -> [Inner -> Value]]
  /\ DOMAIN heap = (UNION {{chunks[g][i] : i \in Index} : g \in InUse}) \cup Pending

\* What at() asserts of the chunk it gives to be written, of fill too: although
\* the test was made earlier, no other grid has come to share the chunk.
WritesUnique ==
  \A t \in Thread :
    write[t].pc = "write" => Unique(chunks[write[t].grid][write[t].index])

Contents == [g \in InUse |-> [i \in Index |-> heap[chunks[g][i]]]]

Store == INSTANCE GridStore WITH contents <- Contents

\* Each grid is a grid of its own, and that of a view never changes.
IndependentGrids == Store!Spec
=============================================================================
