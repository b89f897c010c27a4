----------------------------- MODULE MCRecycler -----------------------------
(* Small heaps for the model of the garbage collector.                      *)
EXTENDS Recycler

CONSTANTS a, b, c

FieldsOf(x, y) == [o \in Obj |-> IF o = x THEN y ELSE None]

\* A chain on the stack, with room for one object more; and a full heap with
\* a transient and a counted pin, and an object only the stack keeps.
TwoHeaps ==
    { [heap |-> {a, b}, field |-> FieldsOf(a, b), stack |-> {a}, arena |-> {},
       transient |-> None, pinned |-> {}],
      [heap |-> {a, b, c}, field |-> FieldsOf(b, None), stack |-> {a, c},
       arena |-> {}, transient |-> a, pinned |-> {b}] }

=============================================================================
