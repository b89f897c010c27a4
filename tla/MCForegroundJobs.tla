-------------------------- MODULE MCForegroundJobs --------------------------
(***************************************************************************)
(* ForegroundJobs with a speculative and a plain manager.                  *)
(***************************************************************************)
EXTENDS ForegroundJobs, TLC

CONSTANTS m1, m2, a, b, c, d

FourJobs == (a :> m1) @@ (b :> m1) @@ (c :> m2) @@ (d :> m2)
=============================================================================
