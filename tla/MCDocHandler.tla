---------------------------- MODULE MCDocHandler ----------------------------
(***************************************************************************)
(* DocHandler on a document where o2 was typed after o1, o1 is then        *)
(* deleted, and each of the three travels in an update of its own: in any  *)
(* other order than this one the actor has a gap.                          *)
(***************************************************************************)
EXTENDS DocHandler, TLC

CONSTANTS o1, o2

MCPast == o1 :> {} @@ o2 :> {o1}

MCUpdates == {[ops |-> {o1}, dels |-> {}],
              [ops |-> {o2}, dels |-> {}],
              [ops |-> {}, dels |-> {o1}]}

\* The same in two updates, the second with the deletion: enough for one to
\* leave a gap of either kind, and for the state of a call that has failed to
\* overtake a later one.
MCTwoUpdates == {[ops |-> {o1}, dels |-> {}], [ops |-> {o2}, dels |-> {o1}]}

=============================================================================
