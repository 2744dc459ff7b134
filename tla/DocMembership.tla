--------------------------- MODULE DocMembership ---------------------------
(***************************************************************************)
(* What the document part of one messageProxy instance promises, without   *)
(* managers or indexes: who is joined to what, and that a change or an     *)
(* awareness message about a document goes to exactly the connections      *)
(* joined to it, but its author.                                           *)
(***************************************************************************)
CONSTANTS Connections, Docs

VARIABLES
    members,  \* the pairs <<connection, document>> that are joined
    sent,     \* the pairs the last step sent a broadcast to
    promising \* FALSE once nothing is promised any more

vars == <<members, sent, promising>>

TypeOK ==
    /\ members \subseteq Connections \X Docs
    /\ sent \subseteq Connections \X Docs
    /\ promising \in BOOLEAN

Init ==
    /\ members = {}
    /\ sent = {}
    /\ promising = TRUE

MembersOf(d) == {c \in Connections : <<c, d>> \in members}

Join(c, D) ==
    /\ members' = members \cup ({c} \X D)
    /\ sent' = {}

Leave(c, D) ==
    /\ members' = members \ ({c} \X D)
    /\ sent' = {}

\* A change or awareness of a joined author, or one that another instance
\* relayed, whose author is not here.
Deliver(author, d) ==
    /\ sent' = (MembersOf(d) \ {author}) \X {d}
    /\ UNCHANGED members

Withdraw == promising' = FALSE

Next ==
    \/ /\ promising
       /\ \/ /\ UNCHANGED promising
             /\ \E c \in Connections :
                    \/ \E D \in SUBSET Docs : Join(c, D) \/ Leave(c, D)
                    \/ \E d \in Docs : Deliver(c, d)
          \/ Withdraw
    \* Nothing is promised of a server that is shutting down, nor of one that
    \* has taken a connection out of a single document.
    \/ ~promising /\ UNCHANGED promising

Spec == Init /\ [][Next]_vars

=============================================================================
