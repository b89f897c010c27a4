-------------------------- MODULE MCAsyncGenerator --------------------------
(***************************************************************************)
(* An instance of AsyncGenerator: enough requests for one to be queued     *)
(* behind another while a third is answered, and more than one await.      *)
(***************************************************************************)
EXTENDS AsyncGenerator
=============================================================================
