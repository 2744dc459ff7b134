----------------------------- MODULE DocService -----------------------------
(***************************************************************************)
(* DocService of one messageProxy instance as a state machine: one action  *)
(* per entry point.  Node runs each of them to completion, so each is one  *)
(* step; what the asynchronous callers of these entry points interleave is *)
(* the business of MessageProxy.                                           *)
(***************************************************************************)
EXTENDS DocRegistry

CONSTANT
    DetachableDocs   \* documents that some token update takes every right to

ASSUME DetachableDocsAssumption == DetachableDocs \subseteq Docs

VARIABLES
    reg,      \* docs, their managers' connections, connectionsToDocs
    sent,     \* <<connection, document>> of the broadcasts of the last step
    serving,  \* FALSE once onModuleDestroy has run
    detached  \* history variable: connections some detach message has named

vars == <<reg, sent, serving, detached>>

Init ==
    /\ reg = EmptyState
    /\ sent = {}
    /\ serving = TRUE
    /\ detached = {}

\* Faults: the author is sent its own change back; broadcasts are not told
\* apart by document.
BroadcastToAll(author, d) == reg.connections[reg.docs[d]] \X {d}

BroadcastUntagged(author, d) == Broadcast(reg, reg.docs[d], author)

BroadcastTo(author, d) == Broadcast(reg, reg.docs[d], author) \X {d}

JoinToDoc(c, d) ==
    /\ CanJoin(reg, {d})
    /\ reg' = JoinDocs(reg, c, {d})
    /\ sent' = {}
    /\ UNCHANGED <<serving, detached>>

OnAttachDocMessage(c, D) ==
    /\ CanJoin(reg, D)
    /\ reg' = JoinDocs(reg, c, D)
    /\ sent' = {}
    /\ UNCHANGED <<serving, detached>>

OnDetachDocMessage(c, D) ==
    /\ reg' = DetachDocs(reg, c, D)
    /\ sent' = {}
    /\ detached' = detached \cup {c}
    /\ UNCHANGED serving

\* The gateway's handleDisconnect and onSetToken, and onDisconnectMessage.
OnDisconnect(c) ==
    /\ reg' = Disconnect(reg, c)
    /\ sent' = {}
    /\ UNCHANGED <<serving, detached>>

\* applyChanges and applyAwareness: refused with NotJoinedError unless joined.
Apply(c, d) ==
    /\ sent' = IF Joined(reg, c, d) THEN BroadcastTo(c, d) ELSE {}
    /\ UNCHANGED <<reg, serving, detached>>

\* onChangesOrAwarenessMessage: a broadcast another instance published, or
\* this instance's own, which comes back through the topic as well.
OnRelayedMessage(author, d) ==
    /\ sent' = IF Has(reg, d) /\ ~Contains(reg, reg.docs[d], author)
               THEN BroadcastTo(author, d) ELSE {}
    /\ UNCHANGED <<reg, serving, detached>>

OnModuleDestroy ==
    /\ serving
    /\ reg' = DestroyAll(reg)
    /\ sent' = {}
    /\ serving' = FALSE
    /\ UNCHANGED detached

Next ==
    \/ \E c \in Connections :
           \/ \E d \in Docs : JoinToDoc(c, d) \/ Apply(c, d) \/ OnRelayedMessage(c, d)
           \/ \E D \in SUBSET Docs : OnAttachDocMessage(c, D)
           \/ \E D \in SUBSET DetachableDocs : OnDetachDocMessage(c, D)
           \/ OnDisconnect(c)
    \/ OnModuleDestroy

Spec == Init /\ [][Next]_vars

-----------------------------------------------------------------------------
(* Type correctness: the three maps of DocService hold what their types say,
   and broadcasts go to connections about documents. *)
TypeOK ==
    /\ reg \in State
    /\ sent \subseteq Connections \X Docs
    /\ serving \in BOOLEAN
    /\ detached \subseteq Connections

(* A document id leads to a manager of that very document, and that manager
   has somebody in it: docs neither mixes documents up nor goes on holding
   the managers of documents everyone has left (docs.delete in detachDoc and
   in disconnect), whatever the order of joins, detaches and disconnects. *)
NoEmptyManager ==
    \A d \in Docs : Has(reg, d) =>
        /\ DocOf(reg.docs[d]) = d
        /\ serving => ~IsEmpty(reg, reg.docs[d])

(* The index that disconnect walks names every manager the connection is
   still in, so a connection that goes away is taken out of all of them.
   detachDoc breaks this for the connection it detaches, but never for any
   other one. *)
IndexComplete ==
    serving => \A c \in Connections \ detached, m \in Managers :
                   Contains(reg, m, c) => m \in reg.connectionsToDocs[c]

\* Once somebody has been detached, a stale index entry may take the manager
\* of other connections along.
Undetached == serving /\ detached = {}

(* onChangesOrAwarenessMessage drops a message about an unknown document
   because "there are no connections in this instance": as long as nobody has
   been detached, a manager with connections in it is always the one docs
   leads to. *)
NoOrphanedManager ==
    Undetached => \A m \in Managers :
                      ~IsEmpty(reg, m) => reg.docs[DocOf(m)] = m

\* IndexComplete's converse.  Not a promise of its own: it is what makes the
\* others inductive, since disconnect drops documents of managers it finds here.
IndexSound ==
    Undetached => \A c \in Connections, m \in Managers :
                      m \in reg.connectionsToDocs[c] => Contains(reg, m, c)

\* Who is joined to what, read off the registered managers.
JoinedPairs == {p \in Connections \X Docs : Joined(reg, p[1], p[2])}

(* The managers and the index implement DocMembership: with the joined pairs
   read off the registered managers, every step of the maps is a join, a
   leave or a delivery to exactly the joined connections but the author, until
   the server shuts down or detaches somebody. *)
Membership == INSTANCE DocMembership
    WITH members <- JoinedPairs, promising <- Undetached

MembershipSpec == Membership!Spec

=============================================================================
