------------------------- MODULE MCBackgroundJobs -------------------------
(***************************************************************************)
(* Instances of BackgroundJobs: a runtime with a code generator m1 and a   *)
(* second runtime thread with a plain waitable manager m2 (the background  *)
(* parser), on one processor; or one runtime with a thread service.        *)
(***************************************************************************)
EXTENDS BackgroundJobs, TLC

CONSTANTS f1, f2, m1, m2, a, b, c, w1, w2

TwoOwners   == (m1 :> f1) @@ (m2 :> f2)
ThreeJobs   == (a :> m1) @@ (b :> m1) @@ (c :> m2)
SameOwner   == (m1 :> f1) @@ (m2 :> f1)
TwoJobs     == (a :> m1) @@ (c :> m2)

\* Worker threads are interchangeable.
WorkerSymmetry == Permutations(Workers)
=============================================================================
