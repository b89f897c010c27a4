--------------------------- MODULE MCAtomicsWait ---------------------------
(***************************************************************************)
(* Instances of AtomicsWait: agents on one element, with two addresses at  *)
(* which a list could be allocated.                                        *)
(***************************************************************************)
EXTENDS AtomicsWait, TLC

CONSTANTS a1, a2, a3, l1, l2

\* A negative count, and one that may leave waiters behind.
SmallCounts == {-1, 1}
=============================================================================
