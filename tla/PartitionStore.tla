---------------------------- MODULE PartitionStore ----------------------------
(***************************************************************************)
(* What a program that owns several UnionFinds relies on: each is a        *)
(* partition of its own (see Partition), no call on one changes another,   *)
(* asking for a representative changes nothing, and a union lets one of    *)
(* the two representatives stand for both classes.                         *)
(***************************************************************************)
EXTENDS Partition

CONSTANTS Object, Elem

VARIABLE part   \* part[o]: the representatives, for each object o in use

Init == part = [o \in {} |-> EmptyPartition]

\* Object o, new or not, takes the value uf.
Set(o, uf) == part' = [p \in DOMAIN part \cup {o} |-> IF p = o THEN uf ELSE part[p]]

Drop(o) == part' = [p \in DOMAIN part \ {o} |-> part[p]]

\* A new object holds no element, or some, each in a class of its own.
Construct ==
  \E o \in Object \ DOMAIN part, elems \in SUBSET Elem :
    Set(o, [e \in elems |-> e])

Add == \E o \in DOMAIN part, e \in Elem : Set(o, Touch(part[o], e))

\* One representative stands for the classes of a and of b.
Merge(o, a, b) ==
  \E r \in {part[o][a], part[o][b]} :
    Set(o, [k \in DOMAIN part[o] |->
              IF part[o][k] \in {part[o][a], part[o][b]} THEN r ELSE part[o][k]])

Union == \E o \in DOMAIN part : \E a, b \in DOMAIN part[o] : Merge(o, a, b)

Separate == \E o \in DOMAIN part : Set(o, [k \in DOMAIN part[o] |-> k])

Copy == \E o \in Object, p \in DOMAIN part : Set(o, part[p])

\* The value of p moves to o; p may then only be assigned to.
Move ==
  \E o \in Object, p \in DOMAIN part :
    /\ o # p
    /\ part' = [q \in (DOMAIN part \cup {o}) \ {p} |->
                  IF q = o THEN part[p] ELSE part[q]]

Destroy == \E o \in DOMAIN part : Drop(o)

Next ==
  \/ Construct \/ Add \/ Union \/ Separate \/ Copy \/ Move \/ Destroy

Spec == Init /\ [][Next]_part
=============================================================================
