---------------------------- MODULE MCDocService ----------------------------
(***************************************************************************)
(* DocService on a small instance.  No symmetry: its run checks a          *)
(* refinement.                                                             *)
(***************************************************************************)
EXTENDS DocService

=============================================================================
