---------------------------- MODULE DocRegistry ----------------------------
(***************************************************************************)
(* The two maps of one messageProxy instance's DocService, and what each   *)
(* of its operations does to them, as operators on a state s:              *)
(*                                                                         *)
(*   s.docs               the Map docs, document -> its DocManager         *)
(*   s.connections        the private Map of each DocManager object        *)
(*   s.connectionsToDocs  the Map connection id -> DocManager[]            *)
(*                                                                         *)
(* A DocManager is an object: the index can go on holding one that docs    *)
(* has already dropped and replaced.  A manager is therefore a document    *)
(* and a generation, and `new DocManager' takes a generation that nothing  *)
(* refers to any more.  The index's arrays are sets here: disconnect, the  *)
(* only reader, does the same whatever their order and their repetitions.  *)
(*                                                                         *)
(* The operators are apart from the state machine because the server runs  *)
(* several of them in one step (a token update detaches and attaches every *)
(* connection of the token through synchronous internal messages).         *)
(***************************************************************************)
EXTENDS Naturals

CONSTANTS
    Connections,     \* connection ids; every WebSocket gets a new one
    Docs,            \* document ids
    MaxGenerations,  \* bound: managers of one document referred to at a time
    NoManager        \* docs.get(docId) === undefined

Managers == Docs \X (1 .. MaxGenerations)

ASSUME NoManagerAssumption == NoManager \notin Managers

DocOf(m) == m[1]

State == [docs              : [Docs -> Managers \cup {NoManager}],
          connections       : [Managers -> SUBSET Connections],
          connectionsToDocs : [Connections -> SUBSET Managers]]

EmptyState == [docs              |-> [d \in Docs |-> NoManager],
               connections       |-> [m \in Managers |-> {}],
               connectionsToDocs |-> [c \in Connections |-> {}]]

-----------------------------------------------------------------------------
(* DocManager.                                                             *)

Contains(s, m, c) == c \in s.connections[m]

IsEmpty(s, m) == s.connections[m] = {}

\* broadcastDiff and broadcastAwareness: every member but the author.
Broadcast(s, m, author) == s.connections[m] \ {author}

-----------------------------------------------------------------------------
(* DocService.                                                             *)

Has(s, d) == s.docs[d] # NoManager

\* assertClientJoined
Joined(s, c, d) == Has(s, d) /\ Contains(s, s.docs[d], c)

Members(s, d) == IF Has(s, d) THEN s.connections[s.docs[d]] ELSE {}

\* The objects a new manager of d may be: none that the maps still hold.
FreeManagers(s, d) ==
    {m \in Managers : /\ DocOf(m) = d
                      /\ m # s.docs[d]
                      /\ \A c \in Connections : m \notin s.connectionsToDocs[c]}

\* The manager joinToDoc uses for d: the registered one, or a new one.
ManagerFor(s, d) ==
    IF Has(s, d) THEN s.docs[d] ELSE CHOOSE m \in FreeManagers(s, d) : TRUE

CanJoin(s, D) == \A d \in D : Has(s, d) \/ FreeManagers(s, d) # {}

\* Fault: the manager is only indexed for a connection not indexed yet.
IndexedOnce(s, c, joined) ==
    IF s.connectionsToDocs[c] = {} THEN joined ELSE s.connectionsToDocs[c]

\* joinedDocs, with the managers just joined
Indexed(s, c, joined) == s.connectionsToDocs[c] \cup joined

\* joinToDoc for every document of D: once from the gateway's onJoin, in a
\* loop from onAttachDocMessage.
JoinDocs(s, c, D) ==
    LET joined == {ManagerFor(s, d) : d \in D}
    IN  [docs |-> [d \in Docs |-> IF d \in D THEN ManagerFor(s, d)
                                             ELSE s.docs[d]],
         connections |->
             [m \in Managers |-> IF m \in joined
                                 THEN Members(s, DocOf(m)) \cup {c}
                                 ELSE s.connections[m]],
         connectionsToDocs |->
             [s.connectionsToDocs EXCEPT ![c] = Indexed(s, c, joined)]]

\* Fault: detachDoc never looks whether it was the last connection.
NeverEmptied(s, c, D) == {}

\* The documents of D whose manager is empty once c has left it.
EmptiedByDetach(s, c, D) ==
    {d \in D : Has(s, d) /\ s.connections[s.docs[d]] = {c}}

\* detachDoc for every document of D.  The last connection to go takes the
\* manager along, and c's whole index entry with it.
DetachDocs(s, c, D) ==
    LET emptied == EmptiedByDetach(s, c, D)
    IN  [docs |-> [d \in Docs |-> IF d \in emptied THEN NoManager
                                                   ELSE s.docs[d]],
         connections |->
             [m \in Managers |-> IF \E d \in D : m = s.docs[d]
                                 THEN s.connections[m] \ {c}
                                 ELSE s.connections[m]],
         connectionsToDocs |->
             [s.connectionsToDocs EXCEPT ![c] = IF emptied # {} THEN {} ELSE @]]

\* Faults: disconnect drops managers that still have connections; it clears the
\* maps but not the managers.
DropsSharedManagers(s, c) == s.connectionsToDocs[c]

StaysConnected(s, m, c) == s.connections[m]

\* The managers that are empty once c has left all those its index entry names.
EmptiedByDisconnect(s, c) ==
    {m \in s.connectionsToDocs[c] : s.connections[m] \subseteq {c}}

\* removeConnection
Left(s, m, c) == s.connections[m] \ {c}

\* disconnect: leave every manager the index names; whichever is then empty
\* has its document id dropped from docs, whatever manager is there now.
Disconnect(s, c) ==
    [docs |-> [d \in Docs |-> IF \E m \in EmptiedByDisconnect(s, c) : DocOf(m) = d
                              THEN NoManager ELSE s.docs[d]],
     connections |-> [m \in Managers |-> IF m \in s.connectionsToDocs[c]
                                         THEN Left(s, m, c)
                                         ELSE s.connections[m]],
     connectionsToDocs |-> [s.connectionsToDocs EXCEPT ![c] = {}]]

\* disconnect of several connections in a row.  Their order is of no account:
\* a manager that the index entry of one of them names is dropped once the
\* last of those entries' connections has left it.
DisconnectAll(s, C) ==
    LET leaving(m) == {c \in C : m \in s.connectionsToDocs[c]}
        left == [m \in Managers |-> s.connections[m] \ leaving(m)]
    IN  [docs |-> [d \in Docs |->
                      IF \E m \in Managers :
                             DocOf(m) = d /\ leaving(m) # {} /\ left[m] = {}
                      THEN NoManager ELSE s.docs[d]],
         connections |-> left,
         connectionsToDocs |->
             [c \in Connections |-> IF c \in C THEN {} ELSE s.connectionsToDocs[c]]]

\* onModuleDestroy: removeAndDisconnectAll on every registered manager.
DestroyAll(s) ==
    [s EXCEPT !.connections = [m \in Managers |-> IF s.docs[DocOf(m)] = m
                                                  THEN {} ELSE @[m]]]

=============================================================================
