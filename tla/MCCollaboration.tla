-------------------------- MODULE MCCollaboration --------------------------
(***************************************************************************)
(* Collaboration of two clients: c1 types o1 and then o2, which presupposes *)
(* it, and may go from one instance to the other when it reconnects.       *)
(***************************************************************************)
EXTENDS Collaboration, TLC

CONSTANTS o1, o2, c1, c2, i1, i2

MCPast == o1 :> {} @@ o2 :> {o1}

JustOne == o1 :> {}

AllOfC1 == [o \in Op |-> c1]

Once == [c \in Clients |-> 1]

FirstTwice == c1 :> 2 @@ c2 :> 1

AllAtI1 == [x \in Connections |-> i1]

MCServedBy == [x \in Connections |-> IF x = <<c1, 1>> THEN i1 ELSE i2]

=============================================================================
