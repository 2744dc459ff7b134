---------------------------- MODULE MessageProxy ----------------------------
(***************************************************************************)
(* One messageProxy instance: WsGateway over AuthService, TokenService and *)
(* DocService, with the API's answers and the token updates that reach it. *)
(*                                                                         *)
(* Every handler runs up to its next await in one step.  What it awaits is *)
(* a call: an answer of the API that is on its way while the connection    *)
(* closes, joins, or gets another token.  Internal pubsub messages are     *)
(* delivered synchronously, inside the step that publishes them.           *)
(*                                                                         *)
(* changes, awareness, sync and ping change nothing here; what they do to  *)
(* documents is DocService's and DocHandler's.                             *)
(***************************************************************************)
EXTENDS DocRegistry, TokenRegistry, FiniteSets

CONSTANTS
    PublicDocs,     \* documents that docIsPublic says yes to
    ConnectTokens,  \* tokens that clients connect with
    SwitchTokens,   \* tokens that clients send with setToken
    SwitchesEarly,  \* whether they do so before their connectResponse
    TokenUpdates,   \* pairs <<old token, new token>> of the consumers' updates
    MaxCalls,       \* bound: answers one connection awaits at a time
    MaxListLength,  \* bound: entries of one list of tokenConnections
    NoToken,        \* access {} and no token: an anonymous connection
    NoAccess        \* access undefined: not authenticated (yet)

ASSUME ProxyAssumption ==
    /\ Documents = Docs
    /\ PublicDocs \subseteq Docs
    /\ ConnectTokens \subseteq Tokens
    /\ SwitchTokens \subseteq Tokens
    /\ SwitchesEarly \in BOOLEAN
    /\ TokenUpdates \subseteq Tokens \X Tokens
    /\ MaxCalls \in Nat /\ MaxListLength \in Nat
    /\ NoToken \notin Tokens /\ NoAccess \notin Tokens /\ NoToken # NoAccess

VARIABLES
    \* the connections
    phase,       \* "new", "open", "closing" (close() called) or "closed"
    tokenOf,     \* conn.tokenId, conn.tokenExpiredAt and conn.access
    calls,       \* the API calls whose answer a handler of conn awaits
    \* the services
    lists,       \* TokenService.tokenConnections
    publicDocs,  \* AuthService.publicDocs
    reg,         \* DocService's maps
    \* the API and the clock (external)
    expired,     \* tokens whose expiredAt has passed
    tainted,     \* tokens that an update has revoked
    recorded,    \* tokens that have a record
    inbox        \* updateToken messages on their way to this instance

connVars    == <<phase, tokenOf, calls>>
serviceVars == <<lists, publicDocs, reg>>
apiVars     == <<expired, tainted, recorded, inbox>>
vars        == <<connVars, serviceVars, apiVars>>

\* A call: its kind, what it is about, and the API's answer once it is given.
TokenCalls == [kind : {"connect", "setToken"}, token : Tokens,
               answer : {"none", "ok", "err"}]
JoinCalls  == [kind : {"join"}, doc : Docs]

Init ==
    /\ phase = [c \in Connections |-> "new"]
    /\ tokenOf = [c \in Connections |-> NoAccess]
    /\ calls = [c \in Connections |-> {}]
    /\ lists = [t \in Tokens |-> <<>>]
    /\ publicDocs = {}
    /\ reg = EmptyState
    /\ expired = {}
    /\ tainted = {}
    /\ recorded = {}
    /\ inbox = {}

\* Handlers still run between close() and the close event.
Receives(c) == phase[c] \in {"open", "closing"}

Await(c, call) ==
    /\ Cardinality(calls[c]) < MaxCalls
    /\ calls' = [calls EXCEPT ![c] = @ \cup {call}]

Settle(c, call) ==
    /\ call \in calls[c]
    /\ calls' = [calls EXCEPT ![c] = @ \ {call}]

AskToken(kind, t) == [kind |-> kind, token |-> t, answer |-> "none"]

-----------------------------------------------------------------------------
(* The gateway's handlers.                                                 *)

\* handleConnection without a token
ConnectAnonymous(c) ==
    /\ phase[c] = "new"
    /\ phase' = [phase EXCEPT ![c] = "open"]
    /\ tokenOf' = [tokenOf EXCEPT ![c] = NoToken]
    /\ UNCHANGED <<calls, serviceVars, apiVars>>

\* handleConnection with a token, up to the await of checkClientToken
Connect(c, t) ==
    /\ phase[c] = "new"
    /\ phase' = [phase EXCEPT ![c] = "open"]
    /\ Await(c, AskToken("connect", t))
    /\ UNCHANGED <<tokenOf, serviceVars, apiVars>>

\* onSetToken, up to the same await.  The gateway takes it at any time; a
\* docClient sends it before its connectResponse while it reconnects.
SetToken(c, t) ==
    /\ Receives(c)
    /\ SwitchesEarly \/ \A call \in calls[c] : call.kind # "connect"
    /\ Await(c, AskToken("setToken", t))
    /\ UNCHANGED <<phase, tokenOf, serviceVars, apiVars>>

\* Fault: setToken leaves the connection in its documents.
MembershipKept(call, c) == reg

\* What onSetToken does once the token is applied.
MembershipAfter(call, c) ==
    IF call.kind = "setToken" THEN Disconnect(reg, c) ELSE reg

\* The rest of applyToken and of the handler that called it, after the answer.
ApplyToken(c, call) ==
    /\ call \in TokenCalls /\ call.answer # "none"
    /\ Settle(c, call)
    /\ IF call.answer = "ok"
       THEN /\ Len(lists[call.token]) < MaxListLength
            /\ tokenOf' = [tokenOf EXCEPT ![c] = call.token]
            /\ lists' = AddConnection(lists, call.token, c)
            /\ reg' = MembershipAfter(call, c)
       ELSE UNCHANGED <<tokenOf, lists, reg>>
    /\ UNCHANGED <<phase, publicDocs, apiVars>>

\* onJoin of a document that the token lists: checkDocAccess awaits nothing.
JoinListed(c, d) ==
    /\ Receives(c)
    /\ tokenOf[c] \in Tokens /\ MayRead(tokenOf[c], d)
    /\ CanJoin(reg, {d})
    /\ reg' = JoinDocs(reg, c, {d})
    /\ UNCHANGED <<connVars, lists, publicDocs, apiVars>>

\* onJoin of any other document, up to the await of docIsPublic
JoinUnlisted(c, d) ==
    /\ Receives(c)
    /\ tokenOf[c] # NoAccess
    /\ tokenOf[c] \in Tokens => d \notin Listed[tokenOf[c]]
    /\ Await(c, [kind |-> "join", doc |-> d])
    /\ UNCHANGED <<phase, tokenOf, serviceVars, apiVars>>

\* Fault: the cache takes every answer for a yes.
PublicDocsAll(d) == publicDocs \cup {d}

\* publicDocs, once docIsPublic has answered for d
PublicDocsAfter(d) == IF d \in PublicDocs THEN publicDocs \cup {d} ELSE publicDocs

\* The rest of onJoin, after docIsPublic's answer, which may be an error.
JoinAnswered(c, d) ==
    /\ Settle(c, [kind |-> "join", doc |-> d])
    /\ \/ /\ publicDocs' = PublicDocsAfter(d)
          /\ IF d \in PublicDocs
             THEN CanJoin(reg, {d}) /\ reg' = JoinDocs(reg, c, {d})
             ELSE UNCHANGED reg
       \/ UNCHANGED <<publicDocs, reg>>
    /\ UNCHANGED <<phase, tokenOf, lists, apiVars>>

\* The close event, after the client's or the server's close: handleDisconnect.
HandleDisconnect(c) ==
    /\ Receives(c)
    /\ phase' = [phase EXCEPT ![c] = "closed"]
    /\ reg' = Disconnect(reg, c)
    /\ lists' = IF tokenOf[c] \in Tokens
                THEN RemoveConnection(lists, tokenOf[c], c) ELSE lists
    /\ UNCHANGED <<tokenOf, calls, publicDocs, apiVars>>

-----------------------------------------------------------------------------
(* TokenService's own handlers.                                            *)

\* The detachDoc and attachDoc messages of one connection.
Reattach(r, c, old, new) ==
    JoinDocs(DetachDocs(r, c, Removed(old, new)), c, Added(old, new))

\* Those of all connections of a list, in the list's order.
Reattached(r, list, old, new) ==
    LET after[i \in 0 .. Len(list)] ==
            IF i = 0 THEN r ELSE Reattach(after[i - 1], list[i], old, new)
    IN  after[Len(list)]

\* onUpdateTokenMessage.  The difference is taken from the first connection's
\* token and applied to all of them.
OnUpdateTokenMessage(old, new) ==
    /\ <<old, new>> \in inbox
    /\ inbox' = inbox \ {<<old, new>>}
    /\ IF lists[old] = <<>>
       THEN UNCHANGED <<tokenOf, lists, reg>>
       ELSE LET held == tokenOf[Head(lists[old])]
            IN  /\ CanJoin(reg, Added(held, new))
                /\ tokenOf' = [c \in Connections |->
                                  IF c \in InList(lists, old) THEN new
                                                              ELSE tokenOf[c]]
                /\ reg' = Reattached(reg, lists[old], held, new)
                /\ lists' = Renamed(lists, old, new)
    /\ UNCHANGED <<phase, calls, publicDocs, expired, tainted, recorded>>

\* Faults: a token that is still valid is taken for an expired one; the dates
\* are compared the wrong way round.
ExpirableAll == {t \in Tokens : lists[t] # <<>>}

ExpirableValid == {t \in Tokens : /\ lists[t] # <<>>
                                  /\ tokenOf[Head(lists[t])] \notin expired}

\* The lists checkTokenExpiration empties: it looks at the first connection
\* of each.
Expirable == {t \in Tokens : /\ lists[t] # <<>>
                             /\ tokenOf[Head(lists[t])] \in expired}

\* Faults: connections that are closed already are skipped; so is the first
\* connection of each list.
ToCloseOpenOnly ==
    {c \in UNION {InList(lists, t) : t \in Expirable} : phase[c] # "closed"}

ToCloseTail == UNION {{lists[t][i] : i \in 2 .. Len(lists[t])} : t \in Expirable}

ToClose == UNION {InList(lists, t) : t \in Expirable}

\* checkTokenExpiration, on its interval
CheckTokenExpiration ==
    /\ Expirable # {}
    /\ phase' = [c \in Connections |->
                    IF c \in ToClose /\ phase[c] = "open" THEN "closing"
                                                          ELSE phase[c]]
    /\ reg' = DisconnectAll(reg, ToClose)
    /\ lists' = [t \in Tokens |-> IF t \in Expirable THEN <<>> ELSE lists[t]]
    /\ UNCHANGED <<tokenOf, calls, publicDocs, apiVars>>

-----------------------------------------------------------------------------
(* The API and the clock (external).                                       *)

\* The API's checkClientToken, between the request and the answer's arrival.
CheckClientToken(c, kind, t) ==
    LET ok == t \notin expired /\ t \notin tainted IN
    /\ AskToken(kind, t) \in calls[c]
    /\ calls' = [calls EXCEPT ![c] =
           (@ \ {AskToken(kind, t)})
           \cup {[AskToken(kind, t) EXCEPT !.answer = IF ok THEN "ok" ELSE "err"]}]
    /\ recorded' = IF ok THEN recorded \cup {t} ELSE recorded
    /\ UNCHANGED <<phase, tokenOf, serviceVars, expired, tainted, inbox>>

\* The API's updateToken, for a token id that it has not seen yet.
UpdateToken(old, new) ==
    /\ new \notin recorded /\ new \notin expired
    /\ recorded' = recorded \cup {new}
    /\ tainted' = tainted \cup ({old} \cap recorded)
    /\ inbox' = inbox \cup {<<old, new>>}
    /\ UNCHANGED <<connVars, serviceVars, expired>>

TokenExpires(t) ==
    /\ t \notin expired
    /\ expired' = expired \cup {t}
    /\ UNCHANGED <<connVars, serviceVars, tainted, recorded, inbox>>

Next ==
    \/ \E c \in Connections :
           \/ ConnectAnonymous(c)
           \/ \E t \in ConnectTokens : Connect(c, t)
           \/ \E t \in SwitchTokens : SetToken(c, t)
           \/ \E call \in calls[c] : ApplyToken(c, call)
           \/ \E d \in Docs : JoinListed(c, d) \/ JoinUnlisted(c, d) \/ JoinAnswered(c, d)
           \/ HandleDisconnect(c)
           \/ \E kind \in {"connect", "setToken"}, t \in Tokens :
                  CheckClientToken(c, kind, t)
    \/ \E u \in TokenUpdates : UpdateToken(u[1], u[2])
    \/ \E u \in inbox : OnUpdateTokenMessage(u[1], u[2])
    \/ CheckTokenExpiration
    \/ \E t \in Tokens : TokenExpires(t)

Spec == Init /\ [][Next]_vars

\* The interval ticks, time passes, answers and messages arrive.  Nobody has to
\* connect, to join, to switch tokens, to update one or to leave.
Fairness ==
    /\ WF_vars(CheckTokenExpiration)
    /\ \A t \in Tokens : WF_vars(TokenExpires(t))
    /\ \A c \in Connections :
           /\ WF_vars(\E kind \in {"connect", "setToken"}, t \in Tokens :
                          CheckClientToken(c, kind, t))
           /\ WF_vars(\E call \in calls[c] : ApplyToken(c, call))
           /\ WF_vars(\E d \in Docs : JoinAnswered(c, d))
    /\ \A u \in TokenUpdates : WF_vars(OnUpdateTokenMessage(u[1], u[2]))

FairSpec == Spec /\ Fairness

-----------------------------------------------------------------------------
(* Type correctness of the connections, of the services' maps and of what is
   under way. *)
TypeOK ==
    /\ phase \in [Connections -> {"new", "open", "closing", "closed"}]
    /\ tokenOf \in [Connections -> Tokens \cup {NoToken, NoAccess}]
    /\ calls \in [Connections -> SUBSET (TokenCalls \cup JoinCalls)]
    /\ lists \in [Tokens -> Seq(Connections)]
    /\ publicDocs \subseteq PublicDocs
    /\ reg \in State
    /\ expired \subseteq Tokens
    /\ tainted \subseteq recorded /\ recorded \subseteq Tokens
    /\ inbox \subseteq TokenUpdates

(* Document-level access control: whoever receives the changes of a document
   holds, at that time, a token that lets it read the document, unless the
   document is public.  Joins check it at one time; setToken and updateToken
   change it at another ("so the connection doesn't get new changes"). *)
MembersMayRead ==
    \A c \in Connections, d \in Docs :
        Joined(reg, c, d) => \/ d \in PublicDocs
                             \/ tokenOf[c] \in Tokens /\ MayRead(tokenOf[c], d)

(* "all connections with the same token have the same expiration time": the
   connections of one list have the list's token, so that looking at the
   first tells when all of them expire. *)
ListsHoldTheirToken ==
    \A t \in Tokens : \A c \in InList(lists, t) : tokenOf[c] = t

(* An open connection is in the list of its token: the expiration check and
   the updates of that token will find it. *)
OpenConnectionsListed ==
    \A c \in Connections :
        phase[c] = "open" /\ tokenOf[c] \in Tokens => c \in InList(lists, tokenOf[c])

(* A connection that is closed is no member of a document its token gives it:
   nothing is sent to it, and it keeps no DocManager alive.  Only a join that
   was awaiting docIsPublic at the close (onJoin does not look again whether
   the connection is open) leaves it in a public document. *)
ClosedNotMember ==
    \A c \in Connections, d \in Docs \ PublicDocs :
        phase[c] = "closed" => ~Joined(reg, c, d)

\* The index entry of c has lost a document that c is in.
Astray(c, d) ==
    Joined(reg, c, d) /\ reg.docs[d] \notin reg.connectionsToDocs[c]

\* By the update u, c leaves d and nobody stays.
LastToLeave(c, d, u) ==
    /\ c \in InList(lists, u[1]) /\ d \in Removed(tokenOf[c], u[2])
    /\ Joined(reg, c, d) /\ Members(reg, d) \subseteq InList(lists, u[1])

(* A connection's index entry goes on naming every document the connection is
   in, whatever joins, closes, sweeps and updates there are, until an update
   takes from it another document, in which nobody is left. *)
IndexLostByDetach ==
    [][\A c \in Connections, d \in Docs :
           ~Astray(c, d) /\ Astray(c, d)' =>
               \E u \in inbox \ inbox', e \in Docs \ {d} : LastToLeave(c, e, u)]_vars

(* Handlers that were awaiting the API when a connection closed add it to lists
   and to documents afterwards; in the end the expiration check has swept it out
   of all of them for good.  Only a document that its index entry has lost
   before (IndexLostByDetach) keeps it. *)
Forgotten(c) ==
    /\ \A t \in Tokens : c \notin InList(lists, t)
    /\ \A d \in Docs : Joined(reg, c, d) => Astray(c, d)

ClosedForgotten ==
    \A c \in Connections : phase[c] = "closed" ~> []Forgotten(c)

ListedOpen(c) ==
    /\ phase[c] = "open" /\ tokenOf[c] \in Tokens
    /\ c \in InList(lists, tokenOf[c])

(* An open connection stays in the list of the token it holds, whatever is
   switched, updated, swept and closed around it, until an update brings other
   connections to that token: their list takes the place of the one it is in. *)
ListLostByOverwrite ==
    [][\A c \in Connections :
           ListedOpen(c) /\ phase'[c] = "open" /\ ~ListedOpen(c)' =>
               \E u \in inbox \ inbox' : /\ u[2] = tokenOf[c]
                                         /\ lists[u[1]] # <<>>
                                         /\ c \notin InList(lists, u[1])]_vars

(* A connection whose token has expired is closed, or an update gives it
   another token first, if the list of its token has it.  (It may lose that:
   ListLostByOverwrite.  Then it is never closed.) *)
ExpiredCloses ==
    \A c \in Connections :
        ListedOpen(c) /\ tokenOf[c] \in expired
            ~> tokenOf[c] \notin expired \/ ~ListedOpen(c)

(* The server closes no connection but those whose own token has expired,
   although it looks at the expiry of the first of a list only. *)
OnlyExpiredClosed ==
    [][\A c \in Connections :
           phase[c] = "open" /\ phase'[c] = "closing" => tokenOf[c] \in expired]_vars

=============================================================================
