---------------------------- MODULE MCDocClient ----------------------------
(* A client whose own token is for two documents; another one takes one of
   them away and adds a third. *)
EXTENDS DocClient, TLC

CONSTANTS d1, d2, d3, t1, t2

MCRights == t1 :> {d1, d2} @@ t2 :> {d2, d3}

=============================================================================
