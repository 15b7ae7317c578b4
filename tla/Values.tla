-------------------------------- MODULE Values --------------------------------
(***************************************************************************)
(* What a program may think its graphs, domains, iterators and search      *)
(* states are in the polymorphic build: plain values in variables, with    *)
(* nothing shared between them.                                            *)
(***************************************************************************)
EXTENDS Integers

CONSTANTS Graph, Domain, Iterator, State, Size, Content

VARIABLE value   \* of each living variable: {} when it is null, or the value in
                 \* a set of its own

Living == DOMAIN value

Init == value = [h \in {} |-> {}]

Give(h, v) == value' = [k \in Living \cup {h} |-> IF k = h THEN v ELSE value[k]]

\* A variable is constructed, or assigned a new value.
Make ==
  \/ \E i \in Iterator : Give(i, {})
  \/ \E g \in Graph, n \in Size, c \in Content : Give(g, {[size |-> n, content |-> c]})
  \/ \E s \in State, c \in Content : Give(s, {[content |-> c]})

\* Copy construction, assignment, and the conversions between iterators.
CopyTo(h, k) == Give(h, value[k])

Copy ==
  \E class \in {Graph, Domain, Iterator} :
    \E h \in class, k \in class \cap Living : CopyTo(h, k)

Move ==
  \E s \in State, t \in State \cap Living :
    value' = [h \in Living \cup {s} |->
                IF h = s THEN value[t] ELSE IF h = t THEN {} ELSE value[h]]

TakeDomain ==
  \E d \in Domain, g \in Graph \cap Living :
    \E graph \in value[g] : Give(d, {[size |-> graph.size]})

TakeIterator ==
  \E i \in Iterator, d \in Domain \cap Living :
    \E domain \in value[d] : \E pos \in {0, domain.size} :
      Give(i, {[pos |-> pos, size |-> domain.size]})

Write ==
  \E h \in (Graph \cup State) \cap Living, c \in Content :
    \E old \in value[h] : Give(h, {[old EXCEPT !.content = c]})

Increment ==
  \E i \in Iterator \cap Living :
    \E old \in value[i] : Give(i, {[old EXCEPT !.pos = @ + 1]})

Drop == \E gone \in SUBSET Living : value' = [h \in Living \ gone |-> value[h]]

Next ==
  Make \/ Copy \/ Move \/ TakeDomain \/ TakeIterator \/ Write \/ Increment \/ Drop

Spec == Init /\ [][Next]_value
=============================================================================
