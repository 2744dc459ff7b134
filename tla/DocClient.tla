------------------------------ MODULE DocClient ------------------------------
(***************************************************************************)
(* One docClient: the Client with its DocContainers, its Messenger and its *)
(* WsConnection, which replaces a broken socket by a new one, against the  *)
(* messageProxy it is connected to.  Of that it has what shows on the      *)
(* socket, and each message handled in a step: the answers that are        *)
(* awaited, MessageProxy has, and the changes and syncs, Collaboration.    *)
(*                                                                         *)
(* What the documents hold is Collaboration's business; here a sync is its *)
(* three messages.  Left out: local changes and awareness, Api, Ping, and  *)
(* calls of a Client that has been disposed of.  Nothing but its connect-  *)
(* Response is sent on a socket that is not the newest, so the channels    *)
(* and what the server knows are the newest socket's; what the server does *)
(* about a socket after its end shows nowhere.                             *)
(***************************************************************************)
EXTENDS Naturals, Sequences, FiniteSetsExt

CONSTANTS
    Docs,
    Tokens,        \* tokens the client's user has
    ConfigToken,   \* the one in the ClientConfig
    Rights,        \* the documents each token may read
    MaxRetries,    \* promiseRetry gives up after so many (10 in the code)
    MaxSockets,    \* bound: sockets the client opens
    MaxGetDocs,    \* bound: calls of getDoc that make a DocContainer
    MaxExtras      \* bound: calls of setToken, others' changes, updates of the
                   \* token and its expiry

Sockets == 1 .. MaxSockets

Containers == 1 .. MaxGetDocs

NoToken == "no token"

NoDoc == "no document"

ASSUME TokensAssumption ==
    /\ ConfigToken \in Tokens /\ NoToken \notin Tokens
    /\ Rights \in [Tokens -> SUBSET Docs]

ASSUME BoundsAssumption ==
    /\ MaxRetries \in Nat /\ MaxSockets \in Nat \ {0}
    /\ MaxGetDocs \in Nat /\ MaxExtras \in Nat

VARIABLES
    phase,      \* where connect() is: new, trying, backoff, up, hung or stopped
    ws,         \* the socket in WsConnection.ws, the newest
    tries,      \* retries of the promiseRetry that runs
    link,       \* each socket: none, connecting, open or closed
    heard,      \* sockets with handleClose and handleMessage
    client,     \* none: no Messenger yet; ready: with one; disposed: it is off
    state,      \* each container: free, init, returned, failed or disposed
    docOf,      \* its document
    docs,       \* Client.docs: the container getDoc returns again, or 0
    syncing,    \* containers whose syncPromise is not null
    up, down,   \* what is under way on the socket
    access,     \* the token by which the server knows the socket
    members,    \* the documents the socket has joined, by the server
    extras,     \* counts what MaxExtras bounds
    dropped,    \* history: the server has taken the socket out of its documents,
                \* by setToken or at the expiry of its token
    joinHeard,  \* history: the last socket a container heard an ok join on
    syncedOn    \* history: the last socket a container has sent syncStart on

connVars == <<phase, ws, tries, heard>>
docVars  == <<client, state, docOf, docs>>
syncVars == <<syncing, joinHeard, syncedOn>>
proxyVars == <<access, members, dropped>>
vars == <<connVars, link, docVars, syncVars, up, down, proxyVars, extras>>

Init ==
    /\ phase = "new" /\ ws = 0 /\ tries = 0 /\ heard = {}
    /\ link = [s \in Sockets |-> "none"]
    /\ client = "none"
    /\ state = [k \in Containers |-> "free"]
    /\ docOf = [k \in Containers |-> NoDoc]
    /\ docs = [d \in Docs |-> 0]
    /\ syncing = {}
    /\ up = <<>> /\ down = <<>>
    /\ access = NoToken /\ members = {} /\ dropped = FALSE
    /\ extras = 0
    /\ joinHeard = [k \in Containers |-> 0]
    /\ syncedOn = [k \in Containers |-> 0]

Join(d) == [type |-> "join", doc |-> d]

JoinResponse(d, status) == [type |-> "joinResponse", doc |-> d, status |-> status]

ConnectResponse(status) == [type |-> "connectResponse", status |-> status]

SyncResponse(d) == [type |-> "syncResponse", doc |-> d]

RequestSync(d) == [type |-> "requestSync", doc |-> d]

\* A broadcast that leaves a gap; one that does not changes nothing here.
Gap(d) == [type |-> "gap", doc |-> d]

SetTokenTo(t) == [type |-> "setToken", token |-> t]

Service(event) == [type |-> event]

-----------------------------------------------------------------------------
(* WsConnection.                                                           *)

\* sendJson throws on a socket that is connecting ...
Throws == link[ws] = "connecting"

\* ... and drops what it is given on a closed one.
Send(messages) ==
    up' = IF link[ws] = "open" THEN up \o messages ELSE up

\* connectFn.  (Bound: the last socket does not fail or break.)
NewSocket(l) ==
    /\ ws' = ws + 1
    /\ link' = [l EXCEPT ![ws + 1] = "connecting"]
    /\ up' = <<>> /\ down' = <<>>
    /\ access' = NoToken /\ members' = {} /\ dropped' = FALSE

CanReplace == ws < MaxSockets

\* Client.connect
Connect ==
    /\ phase = "new"
    /\ phase' = "trying"
    /\ NewSocket(link)
    /\ UNCHANGED <<tries, heard, docVars, syncVars, extras>>

\* connectFn has rejected: the retry that follows waits for a timer.
Rejected ==
    IF tries < MaxRetries THEN phase' = "backoff" /\ tries' = tries + 1
                          ELSE phase' = "stopped" /\ UNCHANGED tries

Retry ==
    /\ phase = "backoff"
    /\ phase' = "trying"
    /\ NewSocket(link)
    /\ UNCHANGED <<tries, heard, docVars, syncVars, extras>>

\* The socket's error event before it opens.
ConnectFails ==
    /\ phase = "trying" /\ link[ws] = "connecting" /\ CanReplace
    /\ link' = [link EXCEPT ![ws] = "closed"]
    /\ Rejected
    /\ UNCHANGED <<ws, heard, docVars, syncVars, up, down, proxyVars, extras>>

Opens ==
    /\ phase = "trying" /\ link[ws] = "connecting"
    /\ link' = [link EXCEPT ![ws] = "open"]
    /\ UNCHANGED <<connVars, docVars, syncVars, up, down, proxyVars, extras>>

\* The next message of the socket, taken off it.
Takes(type) ==
    /\ down # <<>>
    /\ Head(down).type = type
    /\ down' = Tail(down)
    /\ UNCHANGED <<link, proxyVars, extras>>

\* The Messenger listens to the connection.
Listening == client = "ready"

\* Everything a container listens to but what dispose takes off.
Listeners == {k \in Containers : state[k] # "free"}

\* Fault: a container whose getDoc still waits does not join again.
NotWaiting == {k \in Listeners : state[k] # "init"}

\* handleConnected: each container joins on the new connection.
Rejoining == Listeners

\* A message of each container of ks, in the order they were made in.
MessagesFor(ks, type) ==
    LET upTo[k \in 0 .. MaxGetDocs] ==
            IF k = 0 THEN <<>>
            ELSE IF k \in ks THEN Append(upTo[k - 1], [type |-> type, doc |-> docOf[k]])
                             ELSE upTo[k - 1]
    IN  upTo[MaxGetDocs]

\* Fault: the listeners are there from the start, on the refused sockets too.
HeardFromStart(s) == {r \in Sockets : link[r] = "open"}

\* connect() attaches handleClose and handleMessage when it has succeeded.
HeardOnce(s) == heard \cup {s}

\* connectResponse ok: connectWithRetry emits 'connect' and connect() goes on;
\* the first time, Client.connect makes the Messenger.
OnConnected ==
    /\ phase = "trying"
    /\ Takes("connectResponse") /\ Head(down).status = "ok"
    /\ phase' = "up" /\ tries' = 0
    /\ heard' = HeardOnce(ws)
    /\ client' = IF client = "none" THEN "ready" ELSE client
    /\ IF Listening THEN Send(MessagesFor(Rejoining, "join")) ELSE UNCHANGED up
    /\ UNCHANGED <<ws, state, docOf, docs, syncVars>>

\* connectResponse err: the socket stays open, forgotten.
OnConnectRefused ==
    /\ phase = "trying" /\ CanReplace
    /\ Takes("connectResponse") /\ Head(down).status = "err"
    /\ Rejected
    /\ UNCHANGED <<ws, heard, docVars, syncVars, up>>

\* A message nobody is told of, its connectResponse still to come.
Unheard ==
    /\ phase = "trying"
    /\ \E type \in {"joinResponse", "syncResponse", "requestSync", "gap",
                    "updateToken", "expiredToken"} : Takes(type)
    /\ UNCHANGED <<connVars, docVars, syncVars, up>>

\* The socket ends, and what is under way on it with it.
Closes ==
    /\ link[ws] = "open"
    /\ link' = [link EXCEPT ![ws] = "closed"]
    /\ up' = <<>> /\ down' = <<>>
    /\ heard' = heard \ {ws}
    /\ UNCHANGED <<ws, syncVars, proxyVars, extras>>

\* handleClose: connect() again at once, with a promiseRetry of its own.
Breaks ==
    /\ ws \in heard /\ CanReplace
    /\ heard' = heard \ {ws}
    /\ phase' = "trying" /\ tries' = 0
    /\ NewSocket([link EXCEPT ![ws] = "closed"])
    /\ UNCHANGED <<docVars, syncVars, extras>>

\* handleClose with WS_CLOSE_STATUS_NORMAL
ClosesNormally ==
    /\ ws \in heard
    /\ Closes
    /\ phase' = "stopped"
    /\ UNCHANGED <<tries, docVars>>

\* The connection ends before its connectResponse is there.  connectFn rejects
\* on an error event only: without one it waits for ever.
BreaksUnanswered ==
    /\ phase = "trying" /\ CanReplace
    /\ Closes
    /\ \/ Rejected
       \/ phase' = "hung" /\ UNCHANGED tries
    /\ UNCHANGED docVars

-----------------------------------------------------------------------------
(* Client and DocContainer.                                                *)

\* sync: every container of ks that is not syncing sends its syncStart.
Sync(ks) ==
    LET starting == ks \ syncing
    IN  /\ syncing' = syncing \cup ks
        /\ syncedOn' = [k \in Containers |-> IF k \in starting THEN ws ELSE syncedOn[k]]
        /\ Send(MessagesFor(starting, "syncStart"))

\* getDoc of a document that is not in docs yet.
GetDoc(d) ==
    /\ Listening /\ docs[d] = 0
    /\ \E k \in Containers :
           /\ state[k] = "free" /\ \A l \in 1 .. (k - 1) : state[l] # "free"
           /\ docOf' = [docOf EXCEPT ![k] = d]
           /\ state' = [state EXCEPT ![k] = IF Throws THEN "failed" ELSE "init"]
    /\ Send(<<Join(d)>>)
    /\ UNCHANGED <<connVars, link, client, docs, syncVars, down, proxyVars, extras>>

\* waitFor's timeout: getDoc throws, the container goes on listening.
JoinTimeout(k) ==
    /\ state[k] = "init"
    /\ state' = [state EXCEPT ![k] = "failed"]
    /\ UNCHANGED <<connVars, link, client, docOf, docs, syncVars, up, down,
                   proxyVars, extras>>

\* A joinResponse, of whichever document, is every waiting getDoc's answer
\* and, if it is ok, a reason to sync for every container.
OnJoinResponse ==
    /\ ws \in heard /\ Listening
    /\ Takes("joinResponse")
    /\ LET ok == Head(down).status = "ok"
           answered == {k \in Containers : state[k] = "init"}
       IN  /\ state' = [k \in Containers |->
                           IF k \in answered THEN IF ok THEN "returned" ELSE "failed"
                                             ELSE state[k]]
           /\ docs' = [d \in Docs |->
                          LET ks == {k \in answered : docOf[k] = d}
                          IN  IF ok /\ ks # {} THEN Max(ks) ELSE docs[d]]
           /\ IF ok
              THEN /\ Sync(Listeners)
                   /\ joinHeard' = [k \in Containers |->
                                       IF k \in Listeners THEN ws ELSE joinHeard[k]]
              ELSE UNCHANGED <<syncVars, up>>
    /\ UNCHANGED <<connVars, client, docOf>>

\* requestSync and updateToken make every container sync.
OnSyncRequested ==
    /\ ws \in heard /\ Listening
    /\ Takes("requestSync") \/ Takes("updateToken")
    /\ Sync(Listeners)
    /\ UNCHANGED <<connVars, docVars, joinHeard>>

Undisposed(d) == {k \in Listeners : docOf[k] = d /\ state[k] # "disposed"}

\* handleReceiveChanges, with needSync
OnGap ==
    /\ ws \in heard /\ Listening
    /\ Takes("gap")
    /\ Sync(Undisposed(Head(down).doc))
    /\ UNCHANGED <<connVars, docVars, joinHeard>>

\* The rest of syncProcess, in every container of the document that waits.
OnSyncResponse ==
    /\ ws \in heard /\ Listening
    /\ Takes("syncResponse")
    /\ LET ks == {k \in syncing : docOf[k] = Head(down).doc}
       IN  /\ syncing' = syncing \ ks
           /\ Send(MessagesFor(ks, "syncComplete"))
    /\ UNCHANGED <<connVars, docVars, joinHeard, syncedOn>>

SyncTimeout(k) ==
    /\ k \in syncing
    /\ syncing' = syncing \ {k}
    /\ UNCHANGED <<connVars, link, docVars, joinHeard, syncedOn, up, down,
                   proxyVars, extras>>

\* Fault: what has been disposed of can be had again.
KeptDocs == docs

EmptiedDocs == [d \in Docs |-> 0]

\* disposeDocs: only what is in docs is disposed of.
Disposal ==
    /\ state' = [k \in Containers |->
                    IF \E d \in Docs : docs[d] = k THEN "disposed" ELSE state[k]]
    /\ docs' = EmptiedDocs
    /\ UNCHANGED docOf

DisposeDocs ==
    /\ Listening /\ \E d \in Docs : docs[d] # 0
    /\ Disposal
    /\ UNCHANGED <<connVars, link, client, syncVars, up, down, proxyVars, extras>>

\* Client.dispose closes the current socket.  It does not end connect(): an
\* error of a connecting socket, or the timer, has a new socket opened; while
\* there is no Messenger, connect() will make one all the same.
Disposes ==
    /\ client' = IF client = "ready" THEN "disposed" ELSE client
    /\ Disposal
    /\ IF phase = "trying" /\ Throws
       THEN Rejected
       ELSE /\ phase' = CASE phase = "up" -> "stopped"
                          [] phase = "trying" -> "hung"
                          [] OTHER -> phase
            /\ UNCHANGED tries
    /\ link' = [link EXCEPT ![ws] = "closed"]
    /\ up' = <<>> /\ down' = <<>>
    /\ heard' = heard \ {ws}
    /\ UNCHANGED <<ws, syncVars, proxyVars, extras>>

Dispose ==
    /\ phase # "new" /\ client # "disposed" /\ CanReplace
    /\ Disposes

\* handleServiceEvent
OnExpiredToken ==
    /\ ws \in heard /\ Listening
    /\ down # <<>> /\ Head(down).type = "expiredToken"
    /\ Disposes

\* setToken; what its answer says changes nothing in the client.
SetToken(t) ==
    /\ Listening /\ ~Throws /\ extras < MaxExtras
    /\ extras' = extras + 1
    /\ Send(<<SetTokenTo(t)>>)
    /\ UNCHANGED <<connVars, link, docVars, syncVars, down, proxyVars>>

-----------------------------------------------------------------------------
(* messageProxy, as the client sees it.                                    *)

\* handleConnection: initClient, with the token of the URL, and its answer.
HandleConnection ==
    /\ phase = "trying" /\ link[ws] = "open"
    /\ ~\E i \in DOMAIN down : down[i].type = "connectResponse"
    /\ \/ /\ access' = ConfigToken
          /\ down' = Append(down, ConnectResponse("ok"))
       \/ /\ CanReplace
          /\ down' = Append(down, ConnectResponse("err"))
          /\ UNCHANGED access
    /\ UNCHANGED <<connVars, link, docVars, syncVars, up, members, dropped, extras>>

\* A join before initClient has set the access is not answered.
OnJoin(d) ==
    /\ IF access = NoToken
       THEN UNCHANGED <<down, members>>
       ELSE IF d \in Rights[access]
       THEN /\ members' = members \cup {d}
            /\ down' = Append(down, JoinResponse(d, "ok"))
       ELSE /\ down' = Append(down, JoinResponse(d, "err"))
            /\ UNCHANGED members
    /\ UNCHANGED <<access, dropped>>

\* onSetToken: disconnect takes the connection out of its documents, unless the
\* token is refused.
OnSetToken(t) ==
    /\ \/ access' = t /\ members' = {} /\ dropped' = TRUE
       \/ UNCHANGED proxyVars
    /\ UNCHANGED down

\* onSyncStart: an answer, or an error the client does not listen to.
OnSyncStart(d) ==
    /\ down' = Append(down, SyncResponse(d)) \/ UNCHANGED down
    /\ UNCHANGED proxyVars

Handle ==
    /\ up # <<>>
    /\ up' = Tail(up)
    /\ LET m == Head(up)
       IN  \/ m.type = "join" /\ OnJoin(m.doc)
           \/ m.type = "setToken" /\ OnSetToken(m.token)
           \/ m.type = "syncStart" /\ OnSyncStart(m.doc)
           \/ m.type = "syncComplete" /\ UNCHANGED <<down, proxyVars>>
    /\ UNCHANGED <<connVars, link, docVars, syncVars, extras>>

\* The server knows the socket's token, and something happens to it.
Serves ==
    /\ access # NoToken /\ link[ws] = "open" /\ extras < MaxExtras
    /\ extras' = extras + 1
    /\ UNCHANGED <<connVars, link, docVars, syncVars, up>>

\* A change that needs a sync: another client's, or (onChanges) its own.
SendEvent(d) ==
    /\ Serves /\ d \in members
    /\ \E m \in {RequestSync(d), Gap(d)} : down' = Append(down, m)
    /\ UNCHANGED proxyVars

\* Fault: the documents that the new token adds are not attached.
NothingAttached(t, kept) == (members \cap Rights[t]) \cup kept

\* What detachDoc and attachDoc leave, kept being what an update of the token
\* forgets to detach: the entries it drops.
Reattached(t, kept) ==
    (members \cap Rights[t]) \cup kept \cup (Rights[t] \ Rights[access])

\* onUpdateTokenMessage, the list's first connection having the same token.
OnUpdateTokenMessage(t) ==
    /\ Serves
    /\ access' = t
    /\ \E kept \in SUBSET (members \ Rights[t]) : members' = Reattached(t, kept)
    /\ down' = Append(down, Service("updateToken"))
    /\ UNCHANGED dropped

\* checkTokenExpiration.  Its close follows expiredToken, on which the client
\* has closed the socket.
CheckTokenExpiration ==
    /\ Serves
    /\ down' = Append(down, Service("expiredToken"))
    /\ members' = {} /\ dropped' = TRUE
    /\ UNCHANGED access

-----------------------------------------------------------------------------
ClientNext ==
    \/ Connect \/ Retry \/ ConnectFails \/ Opens \/ OnConnected \/ OnConnectRefused
    \/ Breaks \/ ClosesNormally \/ BreaksUnanswered \/ Unheard
    \/ \E d \in Docs : GetDoc(d)
    \/ \E k \in Containers : JoinTimeout(k) \/ SyncTimeout(k)
    \/ OnJoinResponse \/ OnSyncRequested \/ OnGap \/ OnSyncResponse
    \/ DisposeDocs \/ Dispose \/ OnExpiredToken
    \/ \E t \in Tokens : SetToken(t)

ProxyNext ==
    \/ HandleConnection \/ Handle \/ CheckTokenExpiration
    \/ \E d \in Docs : SendEvent(d)
    \/ \E t \in Tokens : OnUpdateTokenMessage(t)

Next == ClientNext \/ ProxyNext

Spec == Init /\ [][Next]_vars

-----------------------------------------------------------------------------
Messages ==
    [type : {"join", "syncStart", "syncResponse", "syncComplete", "requestSync",
             "gap"}, doc : Docs]
        \cup [type : {"joinResponse"}, doc : Docs, status : {"ok", "err"}]
        \cup [type : {"connectResponse"}, status : {"ok", "err"}]
        \cup [type : {"setToken"}, token : Tokens]
        \cup [type : {"updateToken", "expiredToken"}]

(* Type correctness; only sockets that are open are listened to, and only
   containers that getDoc has returned are kept for the next getDoc. *)
TypeOK ==
    /\ phase \in {"new", "trying", "backoff", "up", "hung", "stopped"}
    /\ ws \in 0 .. MaxSockets
    /\ tries \in 0 .. MaxRetries
    /\ link \in [Sockets -> {"none", "connecting", "open", "closed"}]
    /\ heard \subseteq {s \in Sockets : link[s] = "open"}
    /\ client \in {"none", "ready", "disposed"}
    /\ state \in [Containers -> {"free", "init", "returned", "failed", "disposed"}]
    /\ docOf \in [Containers -> Docs \cup {NoDoc}]
    /\ docs \in [Docs -> {0} \cup {k \in Containers : state[k] = "returned"}]
    /\ syncing \subseteq Containers
    /\ up \in Seq(Messages) /\ down \in Seq(Messages)
    /\ access \in Tokens \cup {NoToken}
    /\ members \subseteq Docs
    /\ dropped \in BOOLEAN
    /\ extras \in 0 .. MaxExtras
    /\ joinHeard \in [Containers -> 0 .. MaxSockets]
    /\ syncedOn \in [Containers -> 0 .. MaxSockets]

(* However sockets fail, close and are replaced, no more than one is listened
   to, and it is the one the client sends on: otherwise every broadcast would
   come twice, and one break would start two reconnects. *)
OneSocketHeard == heard \subseteq {ws} /\ (heard # {} <=> phase = "up")

(* A document that getDoc has returned is shared for good: on every connection
   there has been since, whichever document's join answer it was that made
   getDoc return, and whatever updates of its token give and take, the server
   has the connection among the members if it may read the document, or the join
   is on its way.  (Unless setToken has been called on this connection or its
   token has expired, which takes it out of its documents.) *)
ReturnedJoined ==
    \A k \in Containers :
        /\ phase = "up" /\ Listening /\ state[k] = "returned"
        /\ ~dropped /\ docOf[k] \in Rights[access]
        => \/ docOf[k] \in members
           \/ \E i \in DOMAIN up : up[i] = Join(docOf[k])

(* "Perform the sync every successful join event in case of reconnection": a
   container that has heard a join answered on the connection and does not
   wait for a sync has begun one on that connection. *)
SyncedAfterJoin ==
    \A k \in Containers \ syncing :
        joinHeard[k] # 0 => syncedOn[k] = joinHeard[k]

=============================================================================
