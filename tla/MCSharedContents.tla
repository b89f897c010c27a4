-------------------------- MODULE MCSharedContents --------------------------
(***************************************************************************)
(* An instance of AgentBroadcast: which runtime the objects belong to.     *)
(***************************************************************************)
EXTENDS AgentBroadcast, TLC

CONSTANTS p, c1, k1, k2, o1, o2, o3, o4

OneChild == (o1 :> p) @@ (o2 :> p) @@ (o3 :> c1) @@ (o4 :> c1)

=============================================================================
