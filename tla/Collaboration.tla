--------------------------- MODULE Collaboration ---------------------------
(***************************************************************************)
(* One document edited together: docClient's DocContainers, the messageProxy *)
(* instances they are connected to, the Kafka topic between the instances  *)
(* and the document's actor, with everything that is under way between     *)
(* them.                                                                   *)
(*                                                                         *)
(* A WebSocket is a pair of FIFO channels.  The instances' calls to the    *)
(* actor are HTTP requests: they reach it in any order, and so do their    *)
(* answers.  The topic delivers each message to every instance, the        *)
(* sender's too, in any order (external: ws, Dapr, Kafka).  Every client   *)
(* may read and write the document; what rights do is MessageProxy's       *)
(* business, the maps an instance keeps DocService's, and the writes of a  *)
(* call of the actor DocHandler's.                                         *)
(***************************************************************************)
EXTENDS YDoc, Naturals, Sequences

CONSTANTS
    Clients,         \* DocContainers of the document, one per client
    Author,          \* the client that may type an operation
    Deletable,       \* bound: operations that may be deleted
    Instances,       \* messageProxy instances
    MaxConnections,  \* bound: how many connections each client makes, one by one
    ServedBy,        \* the instance a connection is made to
    MaxFailures,     \* bound: calls of the actor that fail or take too long
    MaxRestarts,     \* bound: ends of an activation of the actor
    MaxLosses        \* bound: messages the topic loses

Connections == UNION {{c} \X (1 .. MaxConnections[c]) : c \in Clients}

ASSUME BoundsAssumption ==
    /\ MaxConnections \in [Clients -> Nat]
    /\ MaxFailures \in Nat /\ MaxRestarts \in Nat /\ MaxLosses \in Nat

ASSUME AuthorAssumption == Author \in [Op -> Clients]

ASSUME ServedByAssumption == ServedBy \in [Connections -> Instances]

VARIABLES
    doc,         \* each client's Yjs document
    conn,        \* how many connections it has made, the current one last
    open,        \* that one is open
    got,         \* getDoc has returned its DocContainer: the user can edit
    syncing,     \* its syncPromise is not null
    up, down,    \* what is under way on each connection
    joined,      \* connections in the document's DocManager of their instance
    topic,       \* changes on their way to an instance through Kafka
    calls,       \* calls on their way to the actor, and answers coming back
    ydoc,        \* the actor's document
    stored,      \* the stored state
    syncAwait,   \* the connections the actor has asked to sync of late
    failures, restarts, losses,
    syncedOn,    \* history: the last connection a client was answered a sync on
    owed         \* history: what was published while a connection was joined

clientVars  == <<doc, conn, open, got, syncing, syncedOn>>
linkVars    == <<up, down>>
serverVars  == <<joined, topic, owed>>
actorVars   == <<ydoc, stored, syncAwait>>
faultVars   == <<failures, restarts, losses>>
vars == <<clientVars, linkVars, serverVars, calls, actorVars, faultVars>>

Current(c) == <<c, conn[c]>>

IsOpen(x) == open[x[1]] /\ conn[x[1]] = x[2]

Init ==
    /\ doc = [c \in Clients |-> EmptyYDoc]
    /\ conn = [c \in Clients |-> 0]
    /\ open = [c \in Clients |-> FALSE]
    /\ got = [c \in Clients |-> FALSE]
    /\ syncing = [c \in Clients |-> FALSE]
    /\ up = [x \in Connections |-> <<>>]
    /\ down = [x \in Connections |-> <<>>]
    /\ joined = {}
    /\ topic = {}
    /\ calls = {}
    /\ ydoc = EmptyYDoc
    /\ stored = EmptyYDoc
    /\ syncAwait = {}
    /\ failures = 0 /\ restarts = 0 /\ losses = 0
    /\ syncedOn = [c \in Clients |-> 0]
    /\ owed = [x \in Connections |-> EmptyYDoc]

-----------------------------------------------------------------------------
(* The client.                                                             *)

Joining == [type |-> "join"]

Changes(u) == [type |-> "changes", update |-> u]

SyncStart(d) == [type |-> "syncStart", vector |-> StateVector(d)]

\* whole is for the properties only: the document that update was taken from.
SyncComplete(u, d) == [type |-> "syncComplete", update |-> u, whole |-> d]

\* connectWithRetry has succeeded: handleConnected, or getDoc's init, joins.
Connect(c) ==
    /\ ~open[c] /\ conn[c] < MaxConnections[c]
    /\ conn' = [conn EXCEPT ![c] = @ + 1]
    /\ open' = [open EXCEPT ![c] = TRUE]
    /\ up' = [up EXCEPT ![<<c, conn[c] + 1>>] = <<Joining>>]
    /\ UNCHANGED <<doc, got, syncing, syncedOn, down, serverVars, calls,
                   actorVars, faultVars>>

\* The socket breaks: some of what the client has sent last never arrives.
\* (Bound: the last connection of a client never breaks.)
Disconnect(c) ==
    /\ open[c] /\ conn[c] < MaxConnections[c]
    /\ open' = [open EXCEPT ![c] = FALSE]
    /\ \E n \in 0 .. Len(up[Current(c)]) :
           up' = [up EXCEPT ![Current(c)] = SubSeq(@, 1, n)]
    /\ down' = [down EXCEPT ![Current(c)] = <<>>]
    /\ UNCHANGED <<doc, conn, got, syncing, syncedOn, serverVars, calls,
                   actorVars, faultVars>>

\* sendJson drops what it is given while the socket is closed.
Send(c, m) ==
    up' = IF open[c] THEN [up EXCEPT ![Current(c)] = Append(@, m)] ELSE up

\* The user edits the document: handleChange with an origin of its own.
Edit(c, u) ==
    /\ got[c]
    /\ doc' = [doc EXCEPT ![c] = ApplyUpdate(@, u)]
    /\ Send(c, Changes(u))
    /\ UNCHANGED <<conn, open, got, syncing, syncedOn, down, serverVars, calls,
                   actorVars, faultVars>>

Insert(c, o) ==
    /\ Author[o] = c /\ o \notin doc[c].ops
    /\ Past[o] \subseteq Integrated(doc[c])
    /\ Edit(c, [ops |-> {o}, dels |-> {}])

Delete(c, o) ==
    /\ o \in Integrated(doc[c]) \ doc[c].dels
    /\ Edit(c, [ops |-> {}, dels |-> {o}])

\* The next message on an open connection, taken off it.
Receives(c, type) ==
    /\ open[c] /\ down[Current(c)] # <<>>
    /\ Head(down[Current(c)]).type = type
    /\ down' = [down EXCEPT ![Current(c)] = Tail(@)]
    /\ UNCHANGED <<conn, open, serverVars, calls, actorVars, faultVars>>

\* sync: at most one at a time.
Sync(c, d) ==
    /\ syncing' = [syncing EXCEPT ![c] = TRUE]
    /\ IF syncing[c] THEN UNCHANGED up ELSE Send(c, SyncStart(d))

OnJoinResponse(c) ==
    /\ Receives(c, "joinResponse")
    /\ Sync(c, doc[c])
    /\ got' = [got EXCEPT ![c] = TRUE]
    /\ UNCHANGED <<doc, syncedOn>>

OnRequestSync(c) ==
    /\ Receives(c, "requestSync")
    /\ Sync(c, doc[c])
    /\ UNCHANGED <<doc, got, syncedOn>>

\* Fault: what arrives replaces what is there.
Replaced(c, u) == u

\* applyUpdate on the client's document
Merged(c, u) == ApplyUpdate(doc[c], u)

\* handleReceiveChanges
OnBroadcast(c) ==
    /\ Receives(c, "broadcast")
    /\ LET d == Merged(c, Head(down[Current(c)]).update)
       IN  /\ doc' = [doc EXCEPT ![c] = d]
           /\ IF Pending(d) THEN Sync(c, d) ELSE UNCHANGED <<syncing, up>>
    /\ UNCHANGED <<got, syncedOn>>

\* Faults: the client goes by its own vector; deletions are left out.
ByOwnVector(d, vector) == StateAsUpdate(d, StateVector(d))

StructsOnly(d, vector) == [ops |-> d.ops \ vector]

\* What the client has and the server, by its vector, has not.
ReturnChanges(d, vector) == StateAsUpdate(d, vector)

\* The rest of syncProcess; an answer nobody waits for is ignored.
OnSyncResponse(c) ==
    /\ Receives(c, "syncResponse")
    /\ IF syncing[c]
       THEN LET m == Head(down[Current(c)])
                d == Merged(c, m.update)
            IN  /\ doc' = [doc EXCEPT ![c] = d]
                /\ Send(c, SyncComplete(ReturnChanges(d, m.vector), d))
                /\ syncing' = [syncing EXCEPT ![c] = FALSE]
                /\ syncedOn' = [syncedOn EXCEPT ![c] = conn[c]]
       ELSE UNCHANGED <<doc, up, syncing, syncedOn>>
    /\ UNCHANGED got

\* An answer to a sync of c may still arrive.
AnswerUnderWay(c) ==
    /\ open[c]
    /\ \/ \E i \in DOMAIN up[Current(c)] : up[Current(c)][i].type = "syncStart"
       \/ \E call \in calls :
              /\ call.conn = Current(c)
              /\ call.message.type \in {"syncStart", "syncResponse"}
       \/ \E i \in DOMAIN down[Current(c)] :
              down[Current(c)][i].type = "syncResponse"

\* The timeout of waitSyncResponse.  That it fires while an answer is under
\* way takes a server that is slower than 5 s and counts as a failure.
SyncTimeout(c) ==
    /\ syncing[c]
    /\ \/ ~AnswerUnderWay(c) /\ UNCHANGED failures
       \/ /\ AnswerUnderWay(c) /\ failures < MaxFailures
          /\ failures' = failures + 1
    /\ syncing' = [syncing EXCEPT ![c] = FALSE]
    /\ UNCHANGED <<doc, conn, open, got, syncedOn, linkVars, serverVars, calls,
                   actorVars, restarts, losses>>

-----------------------------------------------------------------------------
(* The messageProxy instances.                                             *)

\* What is sent to a connection that is no longer open goes nowhere.
SendDown(xs, m) ==
    down' = [x \in Connections |-> IF x \in xs /\ IsOpen(x)
                                   THEN Append(down[x], m) ELSE down[x]]

\* The members of the DocManager of an instance
Members(i) == {x \in joined : ServedBy[x] = i}

\* broadcastDiff
BroadcastDiff(i, author, u) ==
    SendDown(Members(i) \ {author}, [type |-> "broadcast", update |-> u])

Handles(x, type) ==
    /\ up[x] # <<>> /\ Head(up[x]).type = type
    /\ up' = [up EXCEPT ![x] = Tail(@)]
    /\ UNCHANGED <<clientVars, actorVars, faultVars>>

OnJoin(x) ==
    /\ Handles(x, "join")
    /\ joined' = joined \cup {x}
    /\ SendDown({x}, [type |-> "joinResponse"])
    /\ UNCHANGED <<topic, owed, calls>>

\* actorService: the payload with the connection's id.
CallsActor(x, m) == calls' = calls \cup {[conn |-> x, message |-> m]}

\* applyChanges: NotJoinedError unless joined, which no client listens to.
OnChanges(x) ==
    /\ Handles(x, "changes")
    /\ LET m == Head(up[x])
       IN  IF x \in joined
           THEN /\ BroadcastDiff(ServedBy[x], x, m.update)
                /\ topic' = topic \cup [author : {x}, update : {m.update},
                                        to : Instances]
                /\ CallsActor(x, m)
                /\ owed' = [y \in Connections |->
                               IF y \in joined THEN ApplyUpdate(owed[y], m.update)
                                               ELSE owed[y]]
           ELSE UNCHANGED <<down, topic, calls, owed>>
    /\ UNCHANGED joined

\* syncStart and syncComplete do not ask whether the client has joined.
OnSyncMessage(x) ==
    /\ Handles(x, "syncStart") \/ Handles(x, "syncComplete")
    /\ CallsActor(x, Head(up[x]))
    /\ UNCHANGED <<down, serverVars>>

\* The actor's answer arrives and is passed on.
OnAnswer(call) ==
    /\ call.message.type \in {"syncResponse", "requestSync"}
    /\ calls' = calls \ {call}
    /\ SendDown({call.conn}, call.message)
    /\ UNCHANGED <<clientVars, up, serverVars, actorVars, faultVars>>

\* Fault: the author is told by its client, not by its connection.
AuthorIsMember(m) == \E x \in Members(m.to) : x[1] = m.author[1]

\* "we already sent diffs from this instance"
AlreadySent(m) == m.author \in Members(m.to)

\* onChangesOrAwarenessMessage
OnChangesMessage(m) ==
    /\ topic' = topic \ {m}
    /\ IF AlreadySent(m)
       THEN UNCHANGED down
       ELSE BroadcastDiff(m.to, m.author, m.update)
    /\ UNCHANGED <<clientVars, up, joined, owed, calls, actorVars, faultVars>>

\* handleDisconnect: the close arrives after everything the client sent.
HandleDisconnect(x) ==
    /\ ~IsOpen(x) /\ up[x] = <<>>
    /\ x \in joined
    /\ joined' = joined \ {x}
    /\ UNCHANGED <<clientVars, linkVars, topic, owed, calls, actorVars, faultVars>>

\* The broker fails to take or to deliver a message.
TopicLoses(m) ==
    /\ losses < MaxLosses
    /\ losses' = losses + 1
    /\ topic' = topic \ {m}
    /\ UNCHANGED <<clientVars, linkVars, joined, owed, calls, actorVars,
                   failures, restarts>>

-----------------------------------------------------------------------------
(* The actor.                                                              *)

Runs(call, type) ==
    /\ call.message.type = type
    /\ UNCHANGED <<clientVars, linkVars, serverVars, faultVars>>


\* needSync, and that the user has not been asked already
AsksForSync(x, d) == x \notin syncAwait /\ Pending(d)

\* applyDiff, with syncNeeded in its answer if it asks the user to sync
ApplyDiff(call) ==
    /\ Runs(call, "changes")
    /\ ydoc' = ApplyUpdate(ydoc, call.message.update)
    /\ stored' = ydoc'
    /\ IF AsksForSync(call.conn, ydoc')
       THEN /\ syncAwait' = syncAwait \cup {call.conn}
            /\ calls' = (calls \ {call}) \cup
                            {[conn |-> call.conn,
                              message |-> [type |-> "requestSync"]]}
       ELSE /\ calls' = calls \ {call}
            /\ UNCHANGED syncAwait

\* Fault: the client is sent its own vector back.
EchoedVector(vector) ==
    [type |-> "syncResponse", update |-> StateAsUpdate(ydoc, vector),
     vector |-> vector]

\* syncStart
SyncResponse(vector) ==
    [type |-> "syncResponse", update |-> StateAsUpdate(ydoc, vector),
     vector |-> StateVector(ydoc)]

AnswerSyncStart(call) ==
    /\ Runs(call, "syncStart")
    /\ calls' = (calls \ {call}) \cup
                    {[conn |-> call.conn,
                      message |-> SyncResponse(call.message.vector)]}
    /\ UNCHANGED actorVars

\* saveDiff of a syncComplete does not save what brings new operations.
SavedBySync(d) == IF StateVector(ydoc) = StateVector(d) THEN d ELSE stored

\* syncComplete
CompleteSync(call) ==
    /\ Runs(call, "syncComplete")
    /\ ydoc' = ApplyUpdate(ydoc, call.message.update)
    /\ stored' = SavedBySync(ydoc')
    /\ calls' = calls \ {call}
    /\ UNCHANGED syncAwait

\* The setTimeout of applyDiff
SyncAwaitTimeout(x) ==
    /\ syncAwait' = syncAwait \ {x}
    /\ UNCHANGED <<clientVars, linkVars, serverVars, calls, ydoc, stored, faultVars>>

\* A call fails, before the actor has run it or in one of its writes: the other
\* one may have landed.  The client is sent an error it does not listen to, or
\* nothing.
CallFails(call) ==
    /\ failures < MaxFailures
    /\ failures' = failures + 1
    /\ calls' = calls \ {call}
    /\ \/ UNCHANGED <<ydoc, stored>>
       \/ /\ call.message.type \in {"changes", "syncComplete"}
          /\ ydoc' = ApplyUpdate(ydoc, call.message.update)
          /\ stored' \in {stored, IF call.message.type = "changes"
                                  THEN ydoc' ELSE SavedBySync(ydoc')}
    /\ UNCHANGED <<clientVars, linkVars, serverVars, syncAwait, restarts, losses>>

\* The activation ends and the next call starts another one.
Restart ==
    /\ restarts < MaxRestarts
    /\ restarts' = restarts + 1
    /\ ydoc' = stored
    /\ syncAwait' = {}
    /\ UNCHANGED <<clientVars, linkVars, serverVars, calls, stored, failures, losses>>

-----------------------------------------------------------------------------
ClientNext(c) ==
    \/ Connect(c)
    \/ Disconnect(c)
    \/ \E o \in Op : Insert(c, o)
    \/ \E o \in Deletable : Delete(c, o)
    \/ OnJoinResponse(c)
    \/ OnRequestSync(c)
    \/ OnBroadcast(c)
    \/ OnSyncResponse(c)
    \/ SyncTimeout(c)

InstanceNext ==
    \/ \E x \in Connections : OnJoin(x) \/ OnChanges(x) \/ OnSyncMessage(x)
                              \/ HandleDisconnect(x)
    \/ \E call \in calls : OnAnswer(call)
    \/ \E m \in topic : OnChangesMessage(m) \/ TopicLoses(m)

ActorNext ==
    \/ \E call \in calls : \/ ApplyDiff(call) \/ AnswerSyncStart(call)
                           \/ CompleteSync(call) \/ CallFails(call)
    \/ \E x \in syncAwait : SyncAwaitTimeout(x)
    \/ Restart

Next ==
    \/ \E c \in Clients : ClientNext(c)
    \/ InstanceNext
    \/ ActorNext

Spec == Init /\ [][Next]_vars

\* Sockets and HTTP calls get through, the topic delivers and the actor runs
\* what it is called for.  Nothing makes users connect, edit or disconnect.
Fairness ==
    /\ \A c \in Clients :
           WF_vars(\/ OnJoinResponse(c) \/ OnRequestSync(c)
                   \/ OnBroadcast(c) \/ OnSyncResponse(c))
    /\ \A x \in Connections :
           WF_vars(OnJoin(x) \/ OnChanges(x) \/ OnSyncMessage(x) \/ HandleDisconnect(x))
    /\ WF_vars(\E call \in calls : \/ OnAnswer(call) \/ ApplyDiff(call)
                                  \/ AnswerSyncStart(call) \/ CompleteSync(call))
    /\ WF_vars(\E m \in topic : OnChangesMessage(m))

FairSpec == Spec /\ Fairness

-----------------------------------------------------------------------------
Messages ==
    [type : {"join", "joinResponse", "requestSync"}]
        \cup [type : {"changes", "broadcast"}, update : YDocs]
        \cup [type : {"syncStart"}, vector : SUBSET Op]
        \cup [type : {"syncResponse"}, update : YDocs, vector : SUBSET Op]
        \cup [type : {"syncComplete"}, update : YDocs, whole : YDocs]

(* Type correctness of the documents, the channels and what is under way. *)
TypeOK ==
    /\ doc \in [Clients -> YDocs]
    /\ conn \in [Clients -> Nat]
    /\ \A c \in Clients : conn[c] <= MaxConnections[c]
    /\ open \in [Clients -> BOOLEAN]
    /\ got \in [Clients -> BOOLEAN]
    /\ syncing \in [Clients -> BOOLEAN]
    /\ up \in [Connections -> Seq(Messages)]
    /\ down \in [Connections -> Seq(Messages)]
    /\ joined \subseteq Connections
    /\ topic \subseteq [author : Connections, update : YDocs, to : Instances]
    /\ calls \subseteq [conn : Connections, message : Messages]
    /\ ydoc \in YDocs /\ stored \in YDocs
    /\ syncAwait \subseteq Connections
    /\ failures \in 0 .. MaxFailures
    /\ restarts \in 0 .. MaxRestarts
    /\ losses \in 0 .. MaxLosses
    /\ syncedOn \in [Clients -> Nat]
    /\ \A c \in Clients : syncedOn[c] <= conn[c]
    /\ owed \in [Connections -> YDocs]

(* The two-way sync leaves nothing out: once the actor has run a client's
   syncComplete it has everything the client had when it sent it, however old
   the vector the client took the difference to, whatever other changes and
   syncs came in between, and even if the answer was to an earlier, timed out
   sync.  (The actor forgets some of what it told the client it had only when
   its activation ends.) *)
SyncBringsAll ==
    [][\A call \in calls :
           restarts = 0 /\ CompleteSync(call) => Covers(ydoc', call.message.whole)]_vars

Applying(call) == call.message.type \in {"changes", "syncComplete"}

\* Nothing the client has sent is on its way to the actor, and nothing that
\* has been broadcast to it either.
Settled(c) ==
    /\ open[c] /\ up[Current(c)] = <<>>
    /\ \A call \in calls : ~Applying(call)

(* Once a sync has been answered on its current connection, nothing a client
   has can be missing from the document for longer than it takes the messages
   under way to arrive: not what it typed while it was offline or before its
   join was answered, not what others sent it.  (No call of the actor fails.) *)
ServerHasAll ==
    \A c \in Clients :
        failures = 0 /\ restarts = 0 /\ Settled(c) /\ syncedOn[c] = conn[c]
            => Covers(ydoc, doc[c])

\* What is still going to reach the client of x.
Coming(x) ==
    LET sent(m) == m.type = "broadcast"
    IN  {down[x][i].update : i \in {j \in DOMAIN down[x] : sent(down[x][j])}}
        \cup {m.update : m \in {n \in topic : n.to = ServedBy[x]}}

(* A change that was published while a connection was joined, on whichever
   instance, reaches its client: it is in the client's document or still on
   its way to it, until the connection closes or the topic loses something. *)
NothingLost ==
    \A c \in Clients :
        open[c] /\ losses = 0 =>
            LET x == Current(c)
                missing == [ops  |-> owed[x].ops \ doc[c].ops,
                            dels |-> owed[x].dels \ doc[c].dels]
            IN  /\ missing.ops \subseteq UNION {u.ops : u \in Coming(x)}
                /\ missing.dels \subseteq UNION {u.dels : u \in Coming(x)}

Disconnected == \E c \in Clients : conn[c] > 1 \/ (conn[c] = 1 /\ ~open[c])

\* The actor will find a gap when it runs the call, and ask the author to sync.
FindsGap(call) ==
    /\ call.message.type = "changes"
    /\ call.conn \notin syncAwait
    /\ Pending(ApplyUpdate(ydoc, call.message.update))

\* A sync waits for an answer that was lost, and absorbs those asked for.
WaitsInVain(c) == syncing[c] /\ ~AnswerUnderWay(c)

GapFound == /\ \E call \in calls : FindsGap(call)
            /\ \A c \in Clients : ~WaitsInVain(c)

GapGone == ~Pending(ydoc) /\ \A call \in calls : ~FindsGap(call)


\* What all clients have between them: their documents lose nothing, so it is
\* what has been typed so far.
Typed == [ops  |-> UNION {doc[c].ops : c \in Clients},
          dels |-> UNION {doc[c].dels : c \in Clients}]

Shared == INSTANCE SharedDoc WITH typed <- Typed, server <- ydoc, saved <- stored

(* Through sockets, calls and the topic, with their losses, repetitions and
   overtakings, the clients share one document as SharedDoc says: nobody has
   what nobody typed, nor anything before its author has it; what a client has
   is never taken from it, by a broadcast nor by an answer to a sync begun
   before it was typed; the actor loses only what it has not saved. *)
SharedSpec == Shared!Spec

Quiet ==
    /\ calls = {} /\ topic = {}
    /\ \A x \in Connections : up[x] = <<>> /\ down[x] = <<>>
    /\ \A c \in Clients : ~syncing[c]

(* What docClient's README says of getDoc: "get doc container with
   synchronized document".  Once nothing is under way any more, the document of
   a client that has joined and synced has everything the server's has. *)
Synchronized ==
    \A c \in Clients :
        Quiet /\ open[c] /\ Current(c) \in joined /\ syncedOn[c] = conn[c]
            => Covers(doc[c], ydoc)

=============================================================================
