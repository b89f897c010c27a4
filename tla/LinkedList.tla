---------------------------- MODULE LinkedList ----------------------------
(***************************************************************************)
(* The intrusive doubly linked lists of                                    *)
(* lib/Common/DataStructures/DoublyLinkedList.inl, as the job processors   *)
(* use them.  A list is a record:                                          *)
(*   elems   the elements that are linked into the list                    *)
(*   before  the order of the list: <<a, b>> when a comes before b         *)
(* An element has one pair of links, so it is in a list at most once and   *)
(* the record describes the list completely; removing a set of elements    *)
(* or moving one of them needs no recursion over positions.                *)
(***************************************************************************)

\* A list without elements (the constructor, and Clear).
EmptyList == [elems |-> {}, before |-> {}]

\* The records of this kind over the elements E.
ListsOf(E) == [elems : SUBSET E, before : SUBSET (E \X E)]

\* A record of this kind is a list when its order is strict and total.
IsList(q) ==
    /\ q.before \subseteq q.elems \X q.elems
    /\ \A a \in q.elems : <<a, a>> \notin q.before
    /\ \A a, b \in q.elems :
          a # b => (<<a, b>> \in q.before <=> <<b, a>> \notin q.before)
    /\ \A a, b, c \in q.elems :
          <<a, b>> \in q.before /\ <<b, c>> \in q.before => <<a, c>> \in q.before

\* Head(): the element no other element comes before.
IsHead(q, e) == e \in q.elems /\ \A x \in q.elems : <<x, e>> \notin q.before

LinkToEnd(q, e) ==
    [elems  |-> q.elems \cup {e},
     before |-> q.before \cup (q.elems \X {e})]

LinkToBeginning(q, e) ==
    [elems  |-> q.elems \cup {e},
     before |-> q.before \cup ({e} \X q.elems)]

\* Unlink of every element of S; the others keep their relative order.
Unlink(q, S) ==
    [elems  |-> q.elems \ S,
     before |-> {p \in q.before : p[1] \notin S /\ p[2] \notin S}]

MoveToBeginning(q, e) == LinkToBeginning(Unlink(q, {e}), e)

\* The runs of elements of S are moved to the beginning one by one, the last
\* run first (MoveSubsequenceToBeginning): S ends up in front, and both S and
\* the rest keep their relative order.
MoveSetToBeginning(q, S) ==
    [elems  |-> q.elems,
     before |-> {p \in q.elems \X q.elems :
                    \/ p[1] \in S /\ p[2] \notin S
                    \/ p \in q.before /\ (p[1] \in S <=> p[2] \in S)}]
=============================================================================
