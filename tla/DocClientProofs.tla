--------------------------- MODULE DocClientProofs ---------------------------
(***************************************************************************)
(* The client, for any number of sockets, containers, retries and          *)
(* messages: it listens to one socket at most, the one it sends on, and    *)
(* to one exactly while it is connected; and every document it has shared  *)
(* reaches the server on every connection.                                 *)
(*                                                                         *)
(* One inductive invariant, ClientInv, carries both.  Its heart is         *)
(* Reaching: while the client is connected and the server has not dropped  *)
(* it (setToken, expiry), a container whose document it may read is among  *)
(* the document's members or its join is on its way.  It needs that a connected socket is open (so that no join is      *)
(* dropped), that the server knows the token before it answers (a join     *)
(* before that is not answered), and that every container listens.         *)
(***************************************************************************)
EXTENDS DocClient, SequenceTheorems, WellFoundedInduction, TLAPS

-----------------------------------------------------------------------------
(***************************************************************************)
(* The messages of a loop over the containers.  MessagesFor is a recursive *)
(* function; that it exists, and what it returns, is shown at the smallest *)
(* number of containers where it would not be so.                          *)
(***************************************************************************)
\* A set of naturals has a smallest element.
LEMMA SmallestOf ==
    ASSUME NEW I \in SUBSET Nat, I # {}
    PROVE  \E i \in I : \A j \in I : i <= j
<1>1. PICK i \in I : \A j \in I : ~(<<j, i>> \in OpToRel(<, Nat))
  BY NatLessThanWellFounded, WFMin, Zenon
<1>2. ASSUME NEW j \in I PROVE i <= j
  <2>1. <<j, i>> \in OpToRel(<, Nat) <=> <<j, i>> \in Nat \X Nat /\ j < i
    BY Zenon DEF OpToRel
  <2>2. ~(j < i)
    BY <1>1, <2>1, Zenon
  <2> QED BY <2>2
<1> QED BY <1>2

\* A set of containers has a last one.
LEMMA LastContainer ==
    ASSUME NEW ks \in SUBSET Containers, ks # {}
    PROVE  Max(ks) \in ks
<1> DEFINE I == {i \in Nat : \E k \in ks : i = MaxGetDocs - k}
<1>1. I \in SUBSET Nat /\ I # {}
  <2>1. PICK k \in ks : TRUE
    OBVIOUS
  <2>2. MaxGetDocs - k \in Nat
    BY BoundsAssumption DEF Containers
  <2>3. MaxGetDocs - k \in I
    BY <2>2
  <2> QED BY <2>3
<1>2. PICK i \in I : \A j \in I : i <= j
  <2> HIDE DEF I
  <2> QED BY <1>1, SmallestOf
<1>3. PICK k \in ks : i = MaxGetDocs - k
  OBVIOUS
<1>4. ASSUME NEW l \in ks PROVE k >= l
  <2>1. MaxGetDocs - l \in I /\ k \in Nat /\ l \in Nat
    BY BoundsAssumption DEF Containers
  <2>2. i <= MaxGetDocs - l
    BY <1>2, <2>1
  <2> QED BY <1>3, <2>1, <2>2, BoundsAssumption
<1> QED BY <1>4 DEF Max

\* The messages of the containers up to the k-th.
UpTo(ks, type, n, f) ==
    f = [k \in 0 .. n |->
            IF k = 0 THEN <<>>
            ELSE IF k \in ks THEN Append(f[k - 1], [type |-> type, doc |-> docOf[k]])
                             ELSE f[k - 1]]

LEMMA UpToExists ==
    ASSUME NEW ks, NEW type, NEW n \in Nat
    PROVE  \E f : UpTo(ks, type, n, f)
<1> DEFINE I == {k \in Nat : ~ \E f : UpTo(ks, type, k, f)}
<1>1. SUFFICES ASSUME I # {} PROVE FALSE
  OBVIOUS
<1>2. PICK k \in I : \A j \in I : k <= j
  <2>1. I \in SUBSET Nat
    OBVIOUS
  <2> HIDE DEF I
  <2> QED BY <1>1, <2>1, SmallestOf
<1>3. k \in Nat /\ ~ \E f : UpTo(ks, type, k, f)
  OBVIOUS
<1>4. k # 0
  <2>1. UpTo(ks, type, 0, [i \in 0 .. 0 |-> <<>>])
    BY DEF UpTo
  <2> QED BY <1>3, <2>1
<1>5. PICK f : UpTo(ks, type, k - 1, f)
  <2>1. k - 1 \in Nat /\ k - 1 \notin I
    BY <1>2, <1>3, <1>4
  <2> QED BY <2>1
<1> HIDE DEF I
<1> DEFINE next == IF k \in ks THEN Append(f[k - 1], [type |-> type, doc |-> docOf[k]])
                               ELSE f[k - 1]
           g == [i \in 0 .. k |-> IF i = k THEN next ELSE f[i]]
<1>6. \A i \in 0 .. (k - 1) :
          f[i] = IF i = 0 THEN <<>>
                 ELSE IF i \in ks THEN Append(f[i - 1], [type |-> type, doc |-> docOf[i]])
                                  ELSE f[i - 1]
  BY <1>5 DEF UpTo
<1>7. ASSUME NEW i \in 0 .. k
      PROVE  g[i] = IF i = 0 THEN <<>>
                    ELSE IF i \in ks THEN Append(g[i - 1], [type |-> type, doc |-> docOf[i]])
                                     ELSE g[i - 1]
  <2>0. \A j \in 0 .. k : g[j] = IF j = k THEN next ELSE f[j]
    OBVIOUS
  <2> HIDE DEF g
  <2>1. CASE i = 0
    <3>1. 0 \in 0 .. k /\ 0 \in 0 .. (k - 1) /\ 0 # k
      BY <1>3, <1>4
    <3>2. g[0] = f[0] /\ f[0] = <<>>
      BY <1>6, <2>0, <3>1
    <3> QED BY <2>1, <3>2
  <2>2. CASE i # 0
    <3>1. i - 1 \in 0 .. k /\ i - 1 # k /\ g[i - 1] = f[i - 1]
      BY <1>3, <2>0, <2>2
    <3>2. CASE i = k
      BY <2>0, <2>2, <3>1, <3>2
    <3>3. CASE i # k
      <4>1. i \in 0 .. (k - 1) /\ g[i] = f[i]
        BY <1>3, <2>0, <3>3
      <4> QED BY <1>6, <2>2, <3>1, <4>1
    <3> QED BY <3>2, <3>3
  <2> QED BY <2>1, <2>2
<1>8. UpTo(ks, type, k, g)
  <2>1. g = [i \in 0 .. k |-> g[i]]
    OBVIOUS
  <2> HIDE DEF g
  <2> QED BY <1>7, <2>1 DEF UpTo
<1> QED BY <1>3, <1>8

\* The messages are joins, or whatever they are to be, of containers of ks, and
\* every container of ks has its message.
LEMMA MessagesForProperties ==
    ASSUME NEW ks \in SUBSET Containers, NEW type, NEW S,
           \A k \in ks : [type |-> type, doc |-> docOf[k]] \in S
    PROVE  /\ MessagesFor(ks, type) \in Seq(S)
           /\ \A k \in ks : \E i \in DOMAIN MessagesFor(ks, type) :
                  MessagesFor(ks, type)[i] = [type |-> type, doc |-> docOf[k]]
<1>1. PICK f : MessagesFor(ks, type) = f[MaxGetDocs] /\ UpTo(ks, type, MaxGetDocs, f)
  <2> DEFINE f == CHOOSE f : UpTo(ks, type, MaxGetDocs, f)
  <2>1. UpTo(ks, type, MaxGetDocs, f)
    BY UpToExists, BoundsAssumption
  <2>2. MessagesFor(ks, type) = f[MaxGetDocs]
    BY DEF MessagesFor, UpTo
  <2> QED BY <2>1, <2>2
<1>2. \A n \in 0 .. MaxGetDocs :
          f[n] = IF n = 0 THEN <<>>
                 ELSE IF n \in ks THEN Append(f[n - 1], [type |-> type, doc |-> docOf[n]])
                                  ELSE f[n - 1]
  BY <1>1 DEF UpTo
<1> DEFINE Good(n) == /\ f[n] \in Seq(S)
                      /\ \A k \in ks : k <= n => \E i \in DOMAIN f[n] :
                             f[n][i] = [type |-> type, doc |-> docOf[k]]
           I == {n \in 0 .. MaxGetDocs : ~Good(n)}
<1>3. SUFFICES ASSUME I # {} PROVE FALSE
  <2>1. MaxGetDocs \in 0 .. MaxGetDocs
    BY BoundsAssumption
  <2>2. Good(MaxGetDocs)
    BY <2>1
  <2> QED BY <1>1, <2>2, BoundsAssumption DEF Containers
<1>4. PICK n \in I : \A j \in I : n <= j
  <2>1. I \in SUBSET Nat
    OBVIOUS
  <2> HIDE DEF I
  <2> QED BY <1>3, <2>1, SmallestOf
<1>5. n \in 0 .. MaxGetDocs /\ ~Good(n)
  OBVIOUS
<1>6. n # 0
  <2>1. CASE n = 0
    <3>1. f[n] = <<>>
      BY <1>2, <1>5, <2>1
    <3>2. \A k \in ks : ~(k <= n)
      BY <2>1 DEF Containers
    <3> QED BY <1>5, <3>1, <3>2
  <2> QED BY <2>1
<1>7. Good(n - 1) /\ n - 1 \in 0 .. MaxGetDocs
  BY <1>4, <1>5, <1>6, BoundsAssumption
<1>8. CASE n \notin ks
  <2>1. f[n] = f[n - 1]
    BY <1>2, <1>5, <1>6, <1>8
  <2>2. \A k \in ks : k <= n => k <= n - 1
    BY <1>5, <1>8 DEF Containers
  <2> QED BY <1>5, <1>7, <2>1, <2>2
<1>9. CASE n \in ks
  <2> DEFINE m == [type |-> type, doc |-> docOf[n]]
             a == f[n - 1]
             b == f[n]
  <2>1. b = Append(a, m)
    BY <1>2, <1>5, <1>6, <1>9
  <2>2. m \in S /\ a \in Seq(S)
    BY <1>7, <1>9
  <2> HIDE DEF m, a
  <2>3. /\ Append(a, m) \in Seq(S)
        /\ DOMAIN a \subseteq DOMAIN Append(a, m)
        /\ \A i \in DOMAIN a : Append(a, m)[i] = a[i]
        /\ Len(a) + 1 \in DOMAIN Append(a, m) /\ Append(a, m)[Len(a) + 1] = m
    BY <2>2
  <2>4. ASSUME NEW k \in ks, k <= n
        PROVE  \E i \in DOMAIN b : b[i] = [type |-> type, doc |-> docOf[k]]
    <3>1. CASE k = n
      BY <2>1, <2>3, <3>1 DEF m
    <3>2. CASE k # n
      <4>1. k <= n - 1
        BY <1>5, <2>4, <3>2 DEF Containers
      <4>2. PICK i \in DOMAIN a : a[i] = [type |-> type, doc |-> docOf[k]]
        BY <1>7, <4>1 DEF a
      <4> QED BY <2>1, <2>3, <4>2
    <3> QED BY <3>1, <3>2
  <2> QED BY <1>5, <2>1, <2>3, <2>4
<1> QED BY <1>8, <1>9

-----------------------------------------------------------------------------
(***************************************************************************)
(* The inductive invariant: what connect() is at and the sockets, the      *)
(* containers, the two channels, what the server knows of the newest       *)
(* socket, and that every container reaches the server.                    *)
(***************************************************************************)
ConnInv ==
    /\ phase \in {"new", "trying", "backoff", "up", "hung", "stopped"}
    /\ ws \in 0 .. MaxSockets
    /\ tries \in 0 .. MaxRetries
    /\ link \in [Sockets -> {"none", "connecting", "open", "closed"}]
    /\ heard \subseteq {s \in Sockets : link[s] = "open"}
    /\ OneSocketHeard
    /\ phase = "new" => ws = 0
    /\ phase # "new" => ws >= 1
    /\ phase = "backoff" => ws < MaxSockets

ContainersInv ==
    /\ client \in {"none", "ready", "disposed"}
    /\ state \in [Containers -> {"free", "init", "returned", "failed", "disposed"}]
    /\ docOf \in [Containers -> Docs \cup {NoDoc}]
    /\ docs \in [Docs -> {0} \cup {k \in Containers : state[k] = "returned"}]
    /\ client = "none" => Listeners = {}
    /\ \A k \in Listeners : docOf[k] \in Docs
    /\ syncing \subseteq Listeners
    /\ joinHeard \in [Containers -> 0 .. MaxSockets]
    /\ syncedOn \in [Containers -> 0 .. MaxSockets]

ChannelsInv ==
    /\ up \in Seq(Messages) /\ down \in Seq(Messages)
    /\ up # <<>> \/ down # <<>> => link[ws] = "open"

ProxyInv ==
    /\ access \in Tokens \cup {NoToken}
    /\ members \subseteq Docs
    /\ dropped \in BOOLEAN
    /\ extras \in 0 .. MaxExtras
    /\ phase = "up" => client # "none" /\ access \in Tokens
    /\ \A i \in DOMAIN down : down[i] = ConnectResponse("ok") => access \in Tokens

JoinSent(d) == \E i \in DOMAIN up : up[i] = Join(d)

\* Stronger than ReturnedJoined: it holds of the containers whose getDoc still
\* waits, too, and of those that have failed or have been disposed of.
Reaching ==
    phase = "up" /\ Listening /\ ~dropped =>
        \A k \in Listeners :
            docOf[k] \in Rights[access] => docOf[k] \in members \/ JoinSent(docOf[k])

ClientInv == ConnInv /\ ContainersInv /\ ChannelsInv /\ ProxyInv /\ Reaching

LEMMA ClientInit == Init => ClientInv
<1> SUFFICES ASSUME Init PROVE ClientInv
  OBVIOUS
<1>1. ConnInv
  BY BoundsAssumption DEF Init, ConnInv, OneSocketHeard, Sockets
<1>2. ContainersInv
  BY BoundsAssumption DEF Init, ContainersInv, Listeners
<1>3. ChannelsInv
  BY DEF Init, ChannelsInv
<1>4. ProxyInv /\ Reaching
  <2>1. phase = "new" /\ down = <<>> /\ access = NoToken /\ members = {}
        /\ dropped = FALSE /\ extras = 0
    BY DEF Init
  <2>2. DOMAIN down = {}
    BY <2>1
  <2>3. Reaching
    BY <2>1 DEF Reaching
  <2>4. \A i \in DOMAIN down : down[i] = ConnectResponse("ok") => access \in Tokens
    BY <2>2, Zenon
  <2>5. ProxyInv
    <3>1. extras \in 0 .. MaxExtras /\ phase # "up"
      BY <2>1, BoundsAssumption
    <3>2. access \in Tokens \cup {NoToken} /\ members \subseteq Docs /\ dropped \in BOOLEAN
      BY <2>1, Zenon
    <3> QED BY <2>4, <3>1, <3>2, Zenon DEF ProxyInv
  <2> QED BY <2>3, <2>5
<1> QED BY <1>1, <1>2, <1>3, <1>4 DEF ClientInv

\* While the client is connected its socket is open: nothing it sends is lost
\* and nothing throws.
LEMMA UpIsOpen ==
    ASSUME ConnInv, ws \in heard \/ phase = "up"
    PROVE  /\ ws \in Sockets /\ link[ws] = "open" /\ phase = "up" /\ heard = {ws}
           /\ ~Throws
BY DEF ConnInv, OneSocketHeard, Throws

LEMMA NewSocketConn ==
    ASSUME ConnInv, NewSocket(link), heard = {}, UNCHANGED heard, phase' = "trying",
           ws < MaxSockets, tries' \in 0 .. MaxRetries
    PROVE  ConnInv'
BY BoundsAssumption DEF ConnInv, NewSocket, OneSocketHeard, Sockets

LEMMA RejectedConn ==
    ASSUME ConnInv, phase = "trying", Rejected, CanReplace, UNCHANGED ws,
           heard' = heard \ {ws}, link' = [link EXCEPT ![ws] = "closed"] \/ link' = link
    PROVE  ConnInv'
<1>1. heard = {} /\ heard' = {}
  BY DEF ConnInv, OneSocketHeard
<1>2. /\ phase' \in {"backoff", "stopped"}
      /\ tries' \in 0 .. MaxRetries
  BY BoundsAssumption DEF ConnInv, Rejected
<1> QED BY <1>1, <1>2 DEF ConnInv, OneSocketHeard, CanReplace, Sockets

\* dispose, which expiredToken calls on a connected client only.
LEMMA DisposesConn ==
    ASSUME ConnInv, phase # "new", Disposes, CanReplace \/ phase = "up"
    PROVE  ConnInv'
<1>1. /\ heard' = heard \ {ws} /\ ws' = ws
      /\ link' = [link EXCEPT ![ws] = "closed"]
  BY DEF Disposes
<1>2. CASE phase = "trying" /\ Throws
  <2>1. Rejected /\ CanReplace
    BY <1>2 DEF Disposes
  <2> QED BY <1>1, <1>2, <2>1, RejectedConn
<1>3. CASE ~(phase = "trying" /\ Throws)
  <2>1. /\ tries' = tries
        /\ phase' = CASE phase = "up" -> "stopped"
                      [] phase = "trying" -> "hung"
                      [] OTHER -> phase
    BY <1>3 DEF Disposes
  <2>2. /\ phase' \in {"trying", "backoff", "hung", "stopped"}
        /\ phase' = "backoff" => phase = "backoff"
        /\ heard' = {}
    BY <1>1, <2>1 DEF ConnInv, OneSocketHeard
  <2> QED BY <1>1, <2>1, <2>2 DEF ConnInv, OneSocketHeard, Sockets
<1> QED BY <1>2, <1>3

LEMMA ConnStep == ClientInv /\ [Next]_vars => ConnInv'
<1> SUFFICES ASSUME ClientInv, [Next]_vars PROVE ConnInv'
  OBVIOUS
<1> USE DEF ClientInv
<1>1. CASE Connect \/ Retry
  BY <1>1, NewSocketConn, BoundsAssumption DEF Connect, Retry, ConnInv, OneSocketHeard
<1>2. CASE ConnectFails
  <2>1. heard' = heard \ {ws}
    BY <1>2 DEF ConnectFails, ConnInv, OneSocketHeard
  <2> QED BY <1>2, <2>1, RejectedConn DEF ConnectFails
<1>3. CASE Opens
  BY <1>3 DEF Opens, connVars, ConnInv, OneSocketHeard, Sockets
<1>4. CASE OnConnected
  <2>1. /\ phase' = "up" /\ tries' = 0 /\ heard' = heard \cup {ws}
        /\ UNCHANGED <<ws, link>> /\ phase = "trying" /\ link[ws] = "open"
    BY <1>4 DEF OnConnected, HeardOnce, Takes, ChannelsInv
  <2> QED BY <2>1, BoundsAssumption DEF ConnInv, OneSocketHeard, Sockets
<1>5. CASE OnConnectRefused
  <2>1. heard' = heard \ {ws} /\ link' = link
    BY <1>5 DEF OnConnectRefused, Takes, ConnInv, OneSocketHeard
  <2> QED BY <1>5, <2>1, RejectedConn DEF OnConnectRefused
<1>6. CASE Breaks
  <2>1. /\ heard' = {} /\ phase' = "trying" /\ tries' = 0
        /\ ws \in Sockets /\ ws + 1 \in Sockets /\ ws' = ws + 1
        /\ link' = [link EXCEPT ![ws] = "closed", ![ws + 1] = "connecting"]
    BY <1>6, UpIsOpen, BoundsAssumption
       DEF Breaks, NewSocket, CanReplace, ConnInv, Sockets
  <2> QED BY <2>1, BoundsAssumption DEF ConnInv, OneSocketHeard, Sockets
<1>7. CASE ClosesNormally
  BY <1>7, UpIsOpen DEF ClosesNormally, Closes, ConnInv, OneSocketHeard, Sockets
<1>8. CASE BreaksUnanswered
  <2>1. /\ phase = "trying" /\ CanReplace /\ heard' = heard \ {ws} /\ ws' = ws
        /\ link' = [link EXCEPT ![ws] = "closed"]
    BY <1>8 DEF BreaksUnanswered, Closes
  <2>2. CASE Rejected
    BY <2>1, <2>2, RejectedConn
  <2>3. CASE phase' = "hung" /\ UNCHANGED tries
    BY <2>1, <2>3 DEF ConnInv, OneSocketHeard, Sockets
  <2> QED BY <1>8, <2>2, <2>3 DEF BreaksUnanswered
<1>9. CASE Dispose \/ OnExpiredToken
  BY <1>9, DisposesConn, UpIsOpen DEF Dispose, OnExpiredToken
<1>10. CASE UNCHANGED <<connVars, link>>
  BY <1>10 DEF connVars, ConnInv, OneSocketHeard
<1>11. CASE \/ Unheard \/ OnJoinResponse \/ OnSyncRequested \/ OnGap
            \/ OnSyncResponse \/ DisposeDocs
  <2>1. UNCHANGED <<connVars, link>>
    BY <1>11 DEF Unheard, OnJoinResponse, OnSyncRequested, OnGap, OnSyncResponse,
                 DisposeDocs, Takes
  <2> QED BY <2>1, <1>10
<1>12. CASE \/ \E d \in Docs : GetDoc(d)
            \/ \E k \in Containers : JoinTimeout(k) \/ SyncTimeout(k)
            \/ \E t \in Tokens : SetToken(t)
  <2>1. UNCHANGED <<connVars, link>>
    BY <1>12 DEF GetDoc, JoinTimeout, SyncTimeout, SetToken
  <2> QED BY <2>1, <1>10
<1>13. CASE ProxyNext
  <2>1. UNCHANGED <<connVars, link>>
    BY <1>13 DEF ProxyNext, HandleConnection, Handle, SendEvent,
         OnUpdateTokenMessage, CheckTokenExpiration, Serves
  <2> QED BY <2>1, <1>10
<1>14. CASE UNCHANGED vars
  BY <1>14, <1>10 DEF vars
<1> QED
  BY <1>1, <1>2, <1>3, <1>4, <1>5, <1>6, <1>7, <1>8, <1>9, <1>11, <1>12, <1>13, <1>14
     DEF Next, ClientNext

\* What getDoc, joinResponse and disposal do to the containers.
LEMMA ContainersStep == ClientInv /\ [Next]_vars => ContainersInv'
<1> SUFFICES ASSUME ClientInv, [Next]_vars PROVE ContainersInv'
  OBVIOUS
<1> USE DEF ClientInv
<1>u. CASE UNCHANGED <<docVars, syncVars>>
  BY <1>u DEF docVars, syncVars, ContainersInv, Listeners
<1>1. CASE \/ Connect \/ Retry \/ ConnectFails \/ Opens \/ OnConnectRefused
           \/ Breaks \/ ClosesNormally \/ BreaksUnanswered \/ Unheard
           \/ ProxyNext \/ \E t \in Tokens : SetToken(t)
  <2>1. UNCHANGED <<docVars, syncVars>>
    BY <1>1 DEF Connect, Retry, ConnectFails, Opens, OnConnectRefused, Breaks,
         ClosesNormally, BreaksUnanswered, Unheard, ProxyNext, HandleConnection,
         Handle, SendEvent, OnUpdateTokenMessage, CheckTokenExpiration, Serves,
         SetToken, Closes
  <2> QED BY <1>u, <2>1
<1>2. CASE OnConnected
  BY <1>2 DEF OnConnected, syncVars, ContainersInv, Listeners
<1>3. ASSUME NEW d \in Docs, GetDoc(d) PROVE ContainersInv'
  <2>1. PICK k \in Containers :
            /\ state[k] = "free"
            /\ docOf' = [docOf EXCEPT ![k] = d]
            /\ state' = [state EXCEPT ![k] = IF Throws THEN "failed" ELSE "init"]
    BY <1>3 DEF GetDoc
  <2>2. client' = client /\ client = "ready" /\ docs' = docs /\ UNCHANGED syncVars
    BY <1>3 DEF GetDoc, Listening
  <2>3. Listeners' = Listeners \cup {k}
    BY <2>1 DEF Listeners, ContainersInv
  <2>4. \A l \in Containers : state[l] = "returned" => state'[l] = "returned"
    BY <2>1 DEF ContainersInv
  <2> QED BY <2>1, <2>2, <2>3, <2>4 DEF ContainersInv, syncVars
<1>4. ASSUME NEW k \in Containers, JoinTimeout(k) PROVE ContainersInv'
  <2>1. /\ state[k] = "init" /\ state' = [state EXCEPT ![k] = "failed"]
        /\ UNCHANGED <<client, docOf, docs, syncVars>>
    BY <1>4 DEF JoinTimeout
  <2>2. Listeners' = Listeners
    BY <2>1 DEF Listeners, ContainersInv
  <2> QED BY <2>1, <2>2 DEF ContainersInv, syncVars
<1>5. ASSUME NEW k \in Containers, SyncTimeout(k) PROVE ContainersInv'
  BY <1>5 DEF SyncTimeout, docVars, ContainersInv, Listeners
<1>6. ASSUME NEW ks \in SUBSET Listeners, Sync(ks), UNCHANGED joinHeard
      PROVE  /\ syncing' \subseteq Listeners
             /\ joinHeard' \in [Containers -> 0 .. MaxSockets]
             /\ syncedOn' \in [Containers -> 0 .. MaxSockets]
  BY <1>6 DEF Sync, ContainersInv, ConnInv
<1>7. CASE OnSyncRequested \/ OnGap
  <2>1. UNCHANGED docVars /\ UNCHANGED joinHeard
    BY <1>7 DEF OnSyncRequested, OnGap
  <2>2. \E ks \in SUBSET Listeners : Sync(ks)
    BY <1>7 DEF OnSyncRequested, OnGap, Undisposed
  <2> QED BY <1>6, <2>1, <2>2 DEF docVars, ContainersInv, Listeners
<1>8. CASE OnSyncResponse
  BY <1>8 DEF OnSyncResponse, docVars, ContainersInv, Listeners
<1>9. CASE OnJoinResponse
  <2> DEFINE ok == Head(down).status = "ok"
             answered == {k \in Containers : state[k] = "init"}
             of(d) == {k \in answered : docOf[k] = d}
  <2>1. /\ UNCHANGED <<client, docOf>>
        /\ state' = [k \in Containers |->
                        IF k \in answered THEN IF ok THEN "returned" ELSE "failed"
                                          ELSE state[k]]
        /\ docs' = [d \in Docs |-> IF ok /\ of(d) # {} THEN Max(of(d)) ELSE docs[d]]
    BY <1>9 DEF OnJoinResponse
  <2>2. Listeners' = Listeners
    BY <2>1 DEF Listeners
  <2>3. /\ syncing' \subseteq Listeners
        /\ joinHeard' \in [Containers -> 0 .. MaxSockets]
        /\ syncedOn' \in [Containers -> 0 .. MaxSockets]
    <3>1. CASE Sync(Listeners) /\ joinHeard' = [k \in Containers |->
                                     IF k \in Listeners THEN ws ELSE joinHeard[k]]
      BY <3>1 DEF Sync, ContainersInv, ConnInv
    <3>2. CASE UNCHANGED syncVars
      BY <3>2 DEF syncVars, ContainersInv
    <3> QED BY <1>9, <3>1, <3>2 DEF OnJoinResponse
  <2>4. \A k \in Containers : k \notin answered => state'[k] = state[k]
    BY <2>1
  <2>5. ASSUME NEW d \in Docs
        PROVE  docs'[d] \in {0} \cup {k \in Containers : state'[k] = "returned"}
    <3>1. CASE ok /\ of(d) # {}
      <4>1. of(d) \in SUBSET Containers
        OBVIOUS
      <4>2. Max(of(d)) \in of(d)
        BY <3>1, <4>1, LastContainer
      <4> QED BY <2>1, <3>1, <4>2
    <3>2. CASE ~(ok /\ of(d) # {})
      <4>1. docs'[d] = docs[d]
        BY <2>1, <3>2
      <4>2. \A k \in Containers : state[k] = "returned" => k \notin answered
        OBVIOUS
      <4> QED BY <2>4, <4>1, <4>2 DEF ContainersInv
    <3> QED BY <3>1, <3>2
  <2>6. state' \in [Containers -> {"free", "init", "returned", "failed", "disposed"}]
    BY <2>1 DEF ContainersInv
  <2>7. docs' \in [Docs -> {0} \cup {k \in Containers : state'[k] = "returned"}]
    <3>1. docs' = [d \in Docs |-> docs'[d]]
      BY <2>1
    <3> QED BY <2>5, <3>1
  <2> HIDE DEF ok, answered, of
  <2> QED BY <2>1, <2>2, <2>3, <2>6, <2>7 DEF ContainersInv
<1>10. ASSUME Disposal, UNCHANGED syncVars,
              client' \in {client, "disposed"}, client' = "none" => client = "none"
       PROVE  ContainersInv'
  <2>1. \A k \in Containers :
            state'[k] = IF \E d \in Docs : docs[d] = k THEN "disposed" ELSE state[k]
    BY <1>10 DEF Disposal
  <2>2. \A d \in Docs, k \in Containers : docs[d] = k => state[k] = "returned"
    <3>1. 0 \notin Containers
      BY DEF Containers
    <3> QED BY <3>1 DEF ContainersInv
  <2>3. Listeners' = Listeners
    BY <2>1, <2>2 DEF Listeners
  <2>4. state' \in [Containers -> {"free", "init", "returned", "failed", "disposed"}]
    BY <1>10 DEF Disposal, ContainersInv
  <2> QED BY <1>10, <2>3, <2>4 DEF Disposal, EmptiedDocs, ContainersInv, syncVars
<1>11. CASE DisposeDocs
  BY <1>10, <1>11 DEF DisposeDocs
<1>12. CASE Dispose \/ OnExpiredToken
  <2>1. /\ Disposal /\ UNCHANGED syncVars
        /\ client' = IF client = "ready" THEN "disposed" ELSE client
    BY <1>12 DEF Dispose, OnExpiredToken, Disposes
  <2> QED BY <1>10, <2>1
<1>13. CASE UNCHANGED vars
  BY <1>13, <1>u DEF vars
<1> QED
  BY <1>1, <1>2, <1>3, <1>4, <1>5, <1>7, <1>8, <1>9, <1>11, <1>12, <1>13
     DEF Next, ClientNext

-----------------------------------------------------------------------------
(***************************************************************************)
(* The channels.                                                           *)
(***************************************************************************)
LEMMA MessageTypes ==
    /\ \A d \in Docs : /\ Join(d) \in Messages /\ SyncResponse(d) \in Messages
                       /\ RequestSync(d) \in Messages /\ Gap(d) \in Messages
                       /\ JoinResponse(d, "ok") \in Messages
                       /\ JoinResponse(d, "err") \in Messages
    /\ \A d \in Docs, type \in {"join", "syncStart", "syncComplete"} :
           [type |-> type, doc |-> d] \in Messages
    /\ ConnectResponse("ok") \in Messages /\ ConnectResponse("err") \in Messages
    /\ \A t \in Tokens : SetTokenTo(t) \in Messages
    /\ Service("updateToken") \in Messages /\ Service("expiredToken") \in Messages
BY DEF Messages, Join, SyncResponse, RequestSync, Gap, JoinResponse, ConnectResponse,
       SetTokenTo, Service

LEMMA MessageContents ==
    ASSUME NEW m \in Messages
    PROVE  /\ m.type \in {"join", "syncStart"} => m.doc \in Docs
           /\ m.type = "join" => m = Join(m.doc)
           /\ m.type = "setToken" => m.token \in Tokens
           /\ m.type = "connectResponse" /\ m.status = "ok" => m = ConnectResponse("ok")
BY DEF Messages, Join, ConnectResponse

LEMMA Taken ==
    ASSUME NEW s \in Seq(Messages), s # <<>>
    PROVE  /\ Head(s) \in Messages /\ Tail(s) \in Seq(Messages)
           /\ 1 \in DOMAIN s /\ s[1] = Head(s)
           /\ \A i \in DOMAIN s :
                  s[i] = Head(s) \/ \E j \in DOMAIN Tail(s) : Tail(s)[j] = s[i]
           /\ \A j \in DOMAIN Tail(s) : \E i \in DOMAIN s : s[i] = Tail(s)[j]
<1>1. /\ Head(s) \in Messages /\ Tail(s) \in Seq(Messages) /\ Head(s) = s[1]
      /\ Len(Tail(s)) = Len(s) - 1 /\ Len(s) \in Nat \ {0}
      /\ DOMAIN s = 1 .. Len(s) /\ DOMAIN Tail(s) = 1 .. (Len(s) - 1)
      /\ \A j \in 1 .. (Len(s) - 1) : Tail(s)[j] = s[j + 1]
  OBVIOUS
<1>2. ASSUME NEW i \in DOMAIN s
      PROVE  s[i] = Head(s) \/ \E j \in DOMAIN Tail(s) : Tail(s)[j] = s[i]
  <2>1. i = 1 \/ (i - 1 \in 1 .. (Len(s) - 1) /\ (i - 1) + 1 = i)
    BY <1>1
  <2>2. CASE i = 1
    BY <1>1, <2>2
  <2>3. CASE i - 1 \in 1 .. (Len(s) - 1) /\ (i - 1) + 1 = i
    <3>1. i - 1 \in DOMAIN Tail(s) /\ Tail(s)[i - 1] = s[i]
      BY <1>1, <2>3
    <3> QED BY <3>1
  <2> QED BY <2>1, <2>2, <2>3
<1>3. ASSUME NEW j \in DOMAIN Tail(s)
      PROVE  \E i \in DOMAIN s : s[i] = Tail(s)[j]
  <2>1. j + 1 \in DOMAIN s /\ Tail(s)[j] = s[j + 1]
    BY <1>1
  <2> QED BY <2>1
<1>4. 1 \in DOMAIN s /\ s[1] = Head(s)
  BY <1>1
<1> QED BY <1>1, <1>2, <1>3, <1>4, Zenon

LEMMA Appended ==
    ASSUME NEW s \in Seq(Messages), NEW m \in Messages
    PROVE  /\ Append(s, m) \in Seq(Messages) /\ Append(s, m) # <<>>
           /\ \A i \in DOMAIN Append(s, m) :
                  Append(s, m)[i] = m \/ \E j \in DOMAIN s : s[j] = Append(s, m)[i]
<1>1. /\ Append(s, m) \in Seq(Messages) /\ Len(Append(s, m)) = Len(s) + 1
      /\ DOMAIN Append(s, m) = 1 .. (Len(s) + 1) /\ DOMAIN s = 1 .. Len(s)
      /\ \A i \in 1 .. Len(s) : Append(s, m)[i] = s[i]
      /\ Append(s, m)[Len(s) + 1] = m /\ Len(s) \in Nat
  OBVIOUS
<1>2. Append(s, m) # <<>>
  BY <1>1
<1>3. ASSUME NEW i \in DOMAIN Append(s, m)
      PROVE  Append(s, m)[i] = m \/ \E j \in DOMAIN s : s[j] = Append(s, m)[i]
  <2>1. i = Len(s) + 1 \/ (i \in DOMAIN s /\ s[i] = Append(s, m)[i])
    BY <1>1
  <2> QED BY <1>1, <2>1
<1> QED BY <1>1, <1>2, <1>3

\* sendJson adds to what is on its way, on an open socket; it takes nothing away.
LEMMA SendEffect ==
    ASSUME up \in Seq(Messages), NEW ms \in Seq(Messages), Send(ms)
    PROVE  /\ up' \in Seq(Messages)
           /\ link[ws] # "open" => up' = up
           /\ \A d : JoinSent(d) => JoinSent(d)'
           /\ link[ws] = "open" =>
                  \A d : (\E i \in DOMAIN ms : ms[i] = Join(d)) => JoinSent(d)'
<1>1. CASE link[ws] # "open"
  BY <1>1 DEF Send, JoinSent
<1>2. CASE link[ws] = "open"
  <2>1. up' = up \o ms
    BY <1>2 DEF Send
  <2>2. /\ up' \in Seq(Messages) /\ Len(up') = Len(up) + Len(ms)
        /\ \A i \in 1 .. (Len(up) + Len(ms)) :
               up'[i] = IF i <= Len(up) THEN up[i] ELSE ms[i - Len(up)]
    BY <2>1, ConcatProperties
  <2>3. /\ DOMAIN up = 1 .. Len(up) /\ DOMAIN ms = 1 .. Len(ms)
        /\ DOMAIN up' = 1 .. (Len(up) + Len(ms))
        /\ Len(up) \in Nat /\ Len(ms) \in Nat
    BY <2>2
  <2>4. ASSUME NEW i \in DOMAIN up PROVE i \in DOMAIN up' /\ up'[i] = up[i]
    <3>1. i \in 1 .. (Len(up) + Len(ms)) /\ i <= Len(up)
      BY <2>3
    <3> QED BY <2>2, <2>3, <3>1
  <2>5. ASSUME NEW i \in DOMAIN ms
        PROVE  Len(up) + i \in DOMAIN up' /\ up'[Len(up) + i] = ms[i]
    <3>1. /\ Len(up) + i \in 1 .. (Len(up) + Len(ms)) /\ ~(Len(up) + i <= Len(up))
          /\ (Len(up) + i) - Len(up) = i
      BY <2>3
    <3> QED BY <2>2, <2>3, <3>1
  <2> QED BY <1>2, <2>2, <2>4, <2>5 DEF JoinSent
<1> QED BY <1>1, <1>2

\* What the containers send.
LEMMA MessagesForTypes ==
    ASSUME ContainersInv, NEW ks \in SUBSET Listeners,
           NEW type \in {"join", "syncStart", "syncComplete"}
    PROVE  MessagesFor(ks, type) \in Seq(Messages)
<1>1. ks \in SUBSET Containers /\ \A k \in ks : docOf[k] \in Docs
  BY DEF ContainersInv, Listeners
<1>2. \A k \in ks : [type |-> type, doc |-> docOf[k]] \in Messages
  BY <1>1, MessageTypes
<1> QED BY <1>1, <1>2, MessagesForProperties

LEMMA TakesEffect ==
    ASSUME ChannelsInv, NEW type, Takes(type)
    PROVE  /\ down' \in Seq(Messages) /\ UNCHANGED <<link, proxyVars, extras>>
           /\ link[ws] = "open" /\ Head(down) \in Messages /\ Head(down).type = type
           /\ \A j \in DOMAIN down' : \E i \in DOMAIN down : down[i] = down'[j]
           /\ \E i \in DOMAIN down : down[i] = Head(down)
<1>1. down \in Seq(Messages) /\ down # <<>> /\ down' = Tail(down) /\ Head(down).type = type
      /\ UNCHANGED <<link, proxyVars, extras>> /\ link[ws] = "open"
  BY DEF ChannelsInv, Takes
<1> QED BY <1>1, Taken

LEMMA SyncSends ==
    ASSUME ContainersInv, ChannelsInv, NEW ks \in SUBSET Listeners, Sync(ks)
    PROVE  /\ up' \in Seq(Messages)
           /\ link[ws] # "open" => up' = up
           /\ \A d : JoinSent(d) => JoinSent(d)'
<1>1. /\ MessagesFor(ks \ syncing, "syncStart") \in Seq(Messages)
      /\ Send(MessagesFor(ks \ syncing, "syncStart"))
  BY MessagesForTypes DEF Sync
<1> QED BY <1>1, SendEffect DEF ChannelsInv

\* What the handlers of messages leave on its way to the server.
LEMMA HandlersSend ==
    ASSUME ClientInv,
           OnJoinResponse \/ OnSyncRequested \/ OnGap \/ OnSyncResponse
    PROVE  /\ up' \in Seq(Messages)
           /\ link[ws] # "open" => up' = up
           /\ \A d : JoinSent(d) => JoinSent(d)'
           /\ \E type : Takes(type)
           /\ UNCHANGED <<connVars, client, docOf>>
<1> USE DEF ClientInv
<1>1. CASE OnJoinResponse
  <2>1. CASE Sync(Listeners)
    BY <1>1, <2>1, SyncSends DEF OnJoinResponse
  <2>2. CASE up' = up
    BY <1>1, <2>2 DEF OnJoinResponse, JoinSent, ChannelsInv
  <2> QED BY <1>1, <2>1, <2>2 DEF OnJoinResponse
<1>2. CASE OnSyncRequested
  BY <1>2, SyncSends DEF OnSyncRequested, docVars
<1>3. CASE OnGap
  <2>1. Undisposed(Head(down).doc) \in SUBSET Listeners
    BY DEF Undisposed
  <2> QED BY <1>3, <2>1, SyncSends DEF OnGap, docVars
<1>4. CASE OnSyncResponse
  <2> DEFINE ks == {k \in syncing : docOf[k] = Head(down).doc}
  <2>1. Send(MessagesFor(ks, "syncComplete"))
    BY <1>4 DEF OnSyncResponse
  <2>2. ks \in SUBSET Listeners
    BY DEF ContainersInv
  <2> HIDE DEF ks
  <2>3. MessagesFor(ks, "syncComplete") \in Seq(Messages)
    BY <2>2, MessagesForTypes
  <2> QED BY <1>4, <2>1, <2>3, SendEffect DEF OnSyncResponse, docVars, ChannelsInv
<1> QED BY <1>1, <1>2, <1>3, <1>4

LEMMA GetDocSends ==
    ASSUME ChannelsInv, NEW d \in Docs, GetDoc(d)
    PROVE  /\ up' \in Seq(Messages)
           /\ link[ws] # "open" => up' = up
           /\ \A e : JoinSent(e) => JoinSent(e)'
           /\ link[ws] = "open" => JoinSent(d)'
<1>1. <<Join(d)>> \in Seq(Messages) /\ Send(<<Join(d)>>)
  BY MessageTypes DEF GetDoc
<1>2. 1 \in DOMAIN <<Join(d)>> /\ <<Join(d)>>[1] = Join(d)
  OBVIOUS
<1> QED BY <1>1, <1>2, SendEffect DEF ChannelsInv

LEMMA SetTokenSends ==
    ASSUME ChannelsInv, NEW t \in Tokens, SetToken(t)
    PROVE  /\ up' \in Seq(Messages)
           /\ link[ws] # "open" => up' = up
           /\ \A d : JoinSent(d) => JoinSent(d)'
<1>1. <<SetTokenTo(t)>> \in Seq(Messages) /\ Send(<<SetTokenTo(t)>>)
  BY MessageTypes DEF SetToken
<1> QED BY <1>1, SendEffect DEF ChannelsInv

LEMMA ConnectedSends ==
    ASSUME ClientInv, OnConnected
    PROVE  /\ up' \in Seq(Messages)
           /\ Listening => \A k \in Listeners : JoinSent(docOf[k])'
<1> USE DEF ClientInv
<1>1. CASE ~Listening
  BY <1>1 DEF OnConnected, ChannelsInv
<1>2. CASE Listening
  <2>1. Send(MessagesFor(Listeners, "join")) /\ link[ws] = "open"
    BY <1>2, TakesEffect DEF OnConnected, Rejoining
  <2>2. MessagesFor(Listeners, "join") \in Seq(Messages)
    BY MessagesForTypes
  <2>3. \A k \in Listeners : [type |-> "join", doc |-> docOf[k]] \in Messages
    BY MessageTypes DEF ContainersInv
  <2>4. \A k \in Listeners : \E i \in DOMAIN MessagesFor(Listeners, "join") :
            MessagesFor(Listeners, "join")[i] = Join(docOf[k])
    <3>1. Listeners \in SUBSET Containers
      BY DEF Listeners
    <3> QED BY <2>3, <3>1, MessagesForProperties DEF Join
  <2>5. \A d : (\E i \in DOMAIN MessagesFor(Listeners, "join") :
                   MessagesFor(Listeners, "join")[i] = Join(d)) => JoinSent(d)'
    BY <2>1, <2>2, SendEffect DEF ChannelsInv
  <2>6. docOf' = docOf
    BY DEF OnConnected
  <2> QED BY <1>2, <2>1, <2>2, <2>4, <2>5, <2>6, SendEffect DEF ChannelsInv
<1> QED BY <1>1, <1>2

\* What the server does of its own accord.
ServerEvent ==
    \/ \E d \in Docs : SendEvent(d)
    \/ \E t \in Tokens : OnUpdateTokenMessage(t)
    \/ CheckTokenExpiration

LEMMA ServerEventEffect ==
    ASSUME ProxyInv, ServerEvent
    PROVE  /\ Serves /\ \E m \in Messages : down' = Append(down, m)
           /\ members' \subseteq Docs /\ dropped' \in BOOLEAN /\ access' \in Tokens
<1>0. access # NoToken => access \in Tokens
  BY DEF ProxyInv
<1>1. ASSUME NEW d \in Docs, SendEvent(d)
      PROVE  /\ Serves /\ \E m \in Messages : down' = Append(down, m)
             /\ UNCHANGED proxyVars
  BY <1>1, MessageTypes DEF SendEvent
<1>2. ASSUME NEW t \in Tokens, OnUpdateTokenMessage(t)
      PROVE  /\ Serves /\ \E m \in Messages : down' = Append(down, m)
             /\ members' \subseteq Docs /\ dropped' = dropped /\ access' = t
  <2>1. \A kept \in SUBSET (members \ Rights[t]) : Reattached(t, kept) \subseteq Docs
    BY TokensAssumption DEF Reattached, ProxyInv
  <2> QED BY <1>2, <2>1, MessageTypes DEF OnUpdateTokenMessage
<1>3. CASE CheckTokenExpiration
  <2>1. /\ Serves /\ down' = Append(down, Service("expiredToken"))
        /\ members' = {} /\ dropped' = TRUE /\ access' = access
    BY <1>3 DEF CheckTokenExpiration
  <2>2. access' \in Tokens
    BY <1>0, <2>1 DEF Serves
  <2>3. \E m \in Messages : down' = Append(down, m)
    BY <2>1, MessageTypes
  <2>4. dropped' \in BOOLEAN
    BY <2>1, Zenon
  <2> QED BY <2>1, <2>2, <2>3, <2>4
<1>4. access = access' => (Serves => access' \in Tokens)
  BY <1>0 DEF Serves
<1>5. CASE \E d \in Docs : SendEvent(d)
  <2>1. /\ Serves /\ \E m \in Messages : down' = Append(down, m)
        /\ access' = access /\ members' = members /\ dropped' = dropped
    BY <1>1, <1>5 DEF proxyVars
  <2>2. members' \subseteq Docs /\ dropped' \in BOOLEAN
    BY <2>1, Zenon DEF ProxyInv
  <2> QED BY <1>4, <2>1, <2>2
<1>6. CASE \E t \in Tokens : OnUpdateTokenMessage(t)
  <2>1. dropped' \in BOOLEAN
    BY <1>2, <1>6, Zenon DEF ProxyInv
  <2> QED BY <1>2, <1>6, <2>1
<1> QED BY <1>3, <1>5, <1>6 DEF ServerEvent

LEMMA ChannelsStep == ClientInv /\ [Next]_vars => ChannelsInv'
<1> SUFFICES ASSUME ClientInv, [Next]_vars PROVE ChannelsInv'
  OBVIOUS
<1> USE DEF ClientInv
<1>e. ASSUME up' = <<>>, down' = <<>> PROVE ChannelsInv'
  BY <1>e DEF ChannelsInv
<1>1. CASE \/ Connect \/ Retry \/ Breaks \/ ClosesNormally \/ BreaksUnanswered
           \/ Dispose \/ OnExpiredToken
  BY <1>1, <1>e DEF Connect, Retry, Breaks, NewSocket, ClosesNormally,
       BreaksUnanswered, Closes, Dispose, OnExpiredToken, Disposes
<1>2. CASE ConnectFails \/ Opens
  <2>1. link[ws] = "connecting" /\ UNCHANGED <<up, down>>
    BY <1>2 DEF ConnectFails, Opens
  <2>2. up = <<>> /\ down = <<>>
    BY <2>1 DEF ChannelsInv
  <2> QED BY <1>e, <2>1, <2>2
<1>3. CASE OnConnected
  BY <1>3, ConnectedSends, TakesEffect DEF OnConnected, ChannelsInv
<1>4. CASE OnConnectRefused \/ Unheard
  BY <1>4, TakesEffect DEF OnConnectRefused, Unheard, connVars, ChannelsInv
<1>5. CASE OnJoinResponse \/ OnSyncRequested \/ OnGap \/ OnSyncResponse
  <2>1. up' \in Seq(Messages) /\ ws' = ws /\ \E type : Takes(type)
    BY <1>5, HandlersSend DEF connVars
  <2> QED BY <2>1, TakesEffect DEF ChannelsInv
<1>6. ASSUME NEW d \in Docs, GetDoc(d) PROVE ChannelsInv'
  <2>1. UNCHANGED <<connVars, link, down>>
    BY <1>6 DEF GetDoc
  <2> QED BY <1>6, <2>1, GetDocSends DEF connVars, ChannelsInv
<1>7. ASSUME NEW t \in Tokens, SetToken(t) PROVE ChannelsInv'
  <2>1. UNCHANGED <<connVars, link, down>>
    BY <1>7 DEF SetToken
  <2> QED BY <1>7, <2>1, SetTokenSends DEF connVars, ChannelsInv
<1>8. CASE HandleConnection
  <2>1. /\ link[ws] = "open" /\ UNCHANGED <<connVars, link, up>>
        /\ \E m \in Messages : down' = Append(down, m)
    BY <1>8, MessageTypes DEF HandleConnection
  <2> QED BY <2>1, Appended DEF connVars, ChannelsInv
<1>9. CASE Handle
  <2>1. /\ up # <<>> /\ up' = Tail(up) /\ UNCHANGED <<connVars, link>>
    BY <1>9 DEF Handle
  <2>2. up' \in Seq(Messages) /\ Head(up) \in Messages /\ link[ws] = "open"
    BY <2>1, Taken DEF ChannelsInv
  <2>3. down' = down \/ \E m \in Messages : down' = Append(down, m)
    <3> DEFINE m == Head(up)
    <3>1. CASE m.type = "join" /\ OnJoin(m.doc)
      BY <2>2, <3>1, MessageTypes, MessageContents DEF OnJoin
    <3>2. CASE m.type = "setToken" /\ OnSetToken(m.token)
      BY <3>2 DEF OnSetToken
    <3>3. CASE m.type = "syncStart" /\ OnSyncStart(m.doc)
      BY <2>2, <3>3, MessageTypes, MessageContents DEF OnSyncStart
    <3>4. CASE UNCHANGED <<down, proxyVars>>
      BY <3>4
    <3> QED BY <1>9, <3>1, <3>2, <3>3, <3>4 DEF Handle
  <2> QED BY <2>1, <2>2, <2>3, Appended DEF connVars, ChannelsInv
<1>10. CASE ServerEvent
  <2>1. /\ link[ws] = "open" /\ UNCHANGED <<connVars, link, up>>
        /\ \E m \in Messages : down' = Append(down, m)
    BY <1>10, ServerEventEffect DEF Serves
  <2> QED BY <2>1, Appended DEF connVars, ChannelsInv
<1>11. CASE UNCHANGED <<ws, link, up, down>>
  BY <1>11 DEF ChannelsInv
<1>12. CASE \/ \E k \in Containers : JoinTimeout(k) \/ SyncTimeout(k)
            \/ DisposeDocs \/ UNCHANGED vars
  <2>1. UNCHANGED <<ws, link, up, down>>
    BY <1>12 DEF JoinTimeout, SyncTimeout, DisposeDocs, vars, connVars
  <2> QED BY <1>11, <2>1
<1> QED
  BY <1>1, <1>2, <1>3, <1>4, <1>5, <1>6, <1>7, <1>8, <1>9, <1>10, <1>12
     DEF Next, ClientNext, ProxyNext, ServerEvent

-----------------------------------------------------------------------------
(***************************************************************************)
(* What the server knows of the socket.                                    *)
(***************************************************************************)
\* Messages that the client takes or that are no ok connectResponse leave the
\* token that an ok connectResponse stands for.
LEMMA AnswersKept ==
    ASSUME ChannelsInv, ProxyInv, access' = access,
           \A j \in DOMAIN down' : \/ down'[j] # ConnectResponse("ok")
                                   \/ \E i \in DOMAIN down : down[i] = down'[j]
    PROVE  \A j \in DOMAIN down' : down'[j] = ConnectResponse("ok") => access' \in Tokens
BY DEF ProxyInv

LEMMA ProxyStep == ClientInv /\ [Next]_vars => ProxyInv'
<1> SUFFICES ASSUME ClientInv, [Next]_vars PROVE ProxyInv'
  OBVIOUS
<1> USE DEF ClientInv
<1>1. CASE Connect \/ Retry \/ Breaks
  <2>1. /\ phase' = "trying" /\ down' = <<>> /\ access' = NoToken /\ members' = {}
        /\ dropped' = FALSE /\ extras' = extras
    BY <1>1 DEF Connect, Retry, Breaks, NewSocket
  <2>2. DOMAIN down' = {}
    BY <2>1
  <2>3. \A i \in DOMAIN down' : down'[i] = ConnectResponse("ok") => access' \in Tokens
    BY <2>2, Zenon
  <2>4. dropped' \in BOOLEAN /\ members' \subseteq Docs /\ access' \in Tokens \cup {NoToken}
    BY <2>1, Zenon
  <2> QED BY <2>1, <2>3, <2>4 DEF ProxyInv
<1>2. CASE ClosesNormally \/ BreaksUnanswered \/ Dispose \/ OnExpiredToken
  <2>1. down' = <<>> /\ UNCHANGED <<proxyVars, extras>>
    BY <1>2 DEF ClosesNormally, BreaksUnanswered, Closes, Dispose, OnExpiredToken, Disposes
  <2>2. phase' # "up"
    BY <1>2 DEF ClosesNormally, BreaksUnanswered, Rejected, Dispose, OnExpiredToken, Disposes
  <2>3. DOMAIN down' = {}
    BY <2>1
  <2>4. \A i \in DOMAIN down' : down'[i] = ConnectResponse("ok") => access' \in Tokens
    BY <2>3, Zenon
  <2> QED BY <2>1, <2>2, <2>4 DEF ProxyInv, proxyVars
<1>3. CASE OnConnected
  <2>1. /\ UNCHANGED <<proxyVars, extras>> /\ client' # "none"
        /\ \A j \in DOMAIN down' : \E i \in DOMAIN down : down[i] = down'[j]
        /\ \E i \in DOMAIN down : down[i] = Head(down)
        /\ Head(down) = ConnectResponse("ok")
    BY <1>3, TakesEffect, MessageContents DEF OnConnected
  <2>2. access \in Tokens
    BY <2>1 DEF ProxyInv
  <2> QED BY <2>1, <2>2 DEF ProxyInv, proxyVars
<1>4. ASSUME UNCHANGED <<proxyVars, extras>>,
             phase' = "up" => phase = "up", client' = "none" => client = "none",
             down' = down \/ \E type : Takes(type)
      PROVE  ProxyInv'
  <2>1. \A j \in DOMAIN down' : \E i \in DOMAIN down : down[i] = down'[j]
    BY <1>4, TakesEffect
  <2> QED BY <1>4, <2>1, AnswersKept DEF ProxyInv, proxyVars
<1>5. CASE ConnectFails \/ Opens \/ OnConnectRefused \/ Unheard
  <2>1. UNCHANGED docVars /\ phase' \in {"backoff", "stopped", phase}
    BY <1>5 DEF ConnectFails, Opens, OnConnectRefused, Unheard, Rejected, connVars
  <2>2. UNCHANGED <<proxyVars, extras>> /\ (down' = down \/ \E type : Takes(type))
    BY <1>5 DEF ConnectFails, Opens, OnConnectRefused, Unheard, Takes
  <2> QED BY <1>4, <2>1, <2>2 DEF docVars
<1>6. CASE OnJoinResponse \/ OnSyncRequested \/ OnGap \/ OnSyncResponse
  <2>1. UNCHANGED <<connVars, client>> /\ \E type : Takes(type)
    BY <1>6, HandlersSend
  <2> QED BY <1>4, <2>1 DEF connVars, Takes
<1>7. CASE \/ \E d \in Docs : GetDoc(d)
           \/ \E k \in Containers : JoinTimeout(k) \/ SyncTimeout(k)
           \/ DisposeDocs \/ UNCHANGED vars
  <2>1. UNCHANGED <<phase, client, down, proxyVars, extras>>
    BY <1>7 DEF GetDoc, JoinTimeout, SyncTimeout, DisposeDocs, vars, connVars, docVars
  <2> QED BY <1>4, <2>1
<1>8. CASE \E t \in Tokens : SetToken(t)
  <2>1. /\ extras' \in 0 .. MaxExtras
        /\ UNCHANGED <<phase, client, down, access, members, dropped>>
    BY <1>8, BoundsAssumption DEF SetToken, ProxyInv, connVars, docVars, proxyVars
  <2> QED BY <2>1 DEF ProxyInv
<1>9. CASE HandleConnection
  <2>1. UNCHANGED <<phase, client, members, dropped, extras>> /\ phase = "trying"
    BY <1>9 DEF HandleConnection, connVars, docVars
  <2>2. CASE access' = ConfigToken
    BY <2>1, <2>2, TokensAssumption DEF ProxyInv
  <2>3. CASE down' = Append(down, ConnectResponse("err")) /\ access' = access
    <3>1. ConnectResponse("err") # ConnectResponse("ok")
      BY DEF ConnectResponse
    <3>2. \A j \in DOMAIN down' : \/ down'[j] # ConnectResponse("ok")
                                  \/ \E i \in DOMAIN down : down[i] = down'[j]
      BY <2>3, <3>1, Appended, MessageTypes DEF ChannelsInv
    <3> QED BY <2>1, <2>3, <3>2, AnswersKept DEF ProxyInv
  <2> QED BY <1>9, <2>2, <2>3 DEF HandleConnection
<1>10. CASE Handle
  <2> DEFINE m == Head(up)
  <2>1. UNCHANGED <<phase, client, extras>> /\ m \in Messages
    BY <1>10, Taken DEF Handle, connVars, docVars, ChannelsInv
  <2>2. ASSUME NEW n \in Messages, n.type # "connectResponse", down' = Append(down, n)
        PROVE  \A j \in DOMAIN down' : \/ down'[j] # ConnectResponse("ok")
                                       \/ \E i \in DOMAIN down : down[i] = down'[j]
    <3>1. n # ConnectResponse("ok")
      BY <2>2 DEF ConnectResponse
    <3> QED BY <2>2, <3>1, Appended DEF ChannelsInv
  <2>3. CASE m.type = "join" /\ OnJoin(m.doc)
    <3>1. m.doc \in Docs /\ UNCHANGED <<access, dropped>> /\ members' \subseteq Docs
      BY <2>1, <2>3, MessageContents DEF OnJoin, ProxyInv
    <3>2. \/ down' = down
          \/ \E status \in {"ok", "err"} : down' = Append(down, JoinResponse(m.doc, status))
      BY <2>3 DEF OnJoin
    <3>3. \A status \in {"ok", "err"} : /\ JoinResponse(m.doc, status) \in Messages
                                        /\ JoinResponse(m.doc, status).type # "connectResponse"
      BY <3>1, MessageTypes DEF JoinResponse
    <3>4. \A j \in DOMAIN down' : \/ down'[j] # ConnectResponse("ok")
                                  \/ \E i \in DOMAIN down : down[i] = down'[j]
      BY <2>2, <3>2, <3>3
    <3> QED BY <2>1, <3>1, <3>4, AnswersKept DEF ProxyInv
  <2>4. CASE m.type = "setToken" /\ OnSetToken(m.token)
    <3>0. CASE UNCHANGED proxyVars
      <4>1. UNCHANGED <<access, members, dropped, down>>
        BY <2>4, <3>0 DEF OnSetToken, proxyVars
      <4> QED BY <2>1, <4>1 DEF ProxyInv
    <3> SUFFICES ASSUME ~UNCHANGED proxyVars PROVE ProxyInv'
      BY <3>0
    <3>1. access' \in Tokens /\ members' = {} /\ dropped' = TRUE /\ down' = down
      BY <2>1, <2>4, MessageContents DEF OnSetToken
    <3>2. dropped' \in BOOLEAN /\ members' \subseteq Docs
      BY <3>1, Zenon
    <3> QED BY <2>1, <3>1, <3>2 DEF ProxyInv
  <2>5. CASE m.type = "syncStart" /\ OnSyncStart(m.doc)
    <3>1. SyncResponse(m.doc) \in Messages /\ SyncResponse(m.doc).type # "connectResponse"
      BY <2>1, <2>5, MessageContents, MessageTypes DEF SyncResponse
    <3>2. \A j \in DOMAIN down' : \/ down'[j] # ConnectResponse("ok")
                                  \/ \E i \in DOMAIN down : down[i] = down'[j]
      BY <2>2, <2>5, <3>1 DEF OnSyncStart
    <3> QED BY <2>1, <2>5, <3>2, AnswersKept DEF OnSyncStart, ProxyInv, proxyVars
  <2>6. CASE UNCHANGED <<down, proxyVars>>
    BY <2>1, <2>6 DEF ProxyInv, proxyVars
  <2> QED BY <1>10, <2>3, <2>4, <2>5, <2>6 DEF Handle
<1>11. CASE ServerEvent
  <2>1. /\ UNCHANGED <<phase, client>> /\ extras' \in 0 .. MaxExtras
        /\ members' \subseteq Docs /\ dropped' \in BOOLEAN /\ access' \in Tokens
    BY <1>11, ServerEventEffect, BoundsAssumption DEF Serves, connVars, docVars, ProxyInv
  <2> QED BY <2>1 DEF ProxyInv
<1> QED
  BY <1>1, <1>2, <1>3, <1>5, <1>6, <1>7, <1>8, <1>9, <1>10, <1>11
     DEF Next, ClientNext, ProxyNext, ServerEvent

-----------------------------------------------------------------------------
(***************************************************************************)
(* Every container reaches the server.                                     *)
(***************************************************************************)
LEMMA ReachingKept ==
    ASSUME Reaching, phase' = "up" => phase = "up", Listening' => Listening,
           UNCHANGED <<access, dropped, docOf>>, members \subseteq members',
           Listeners' \subseteq Listeners, \A d : JoinSent(d) => JoinSent(d)'
    PROVE  Reaching'
BY DEF Reaching

\* The messages that the server takes from the channel: a join makes the
\* connection a member or may not be read, setToken, if the token is not refused, ends what Reaching is about.
LEMMA ReachingHandle ==
    ASSUME ClientInv, Handle
    PROVE  Reaching'
<1> USE DEF ClientInv
<1> DEFINE m == Head(up)
<1>1. /\ up # <<>> /\ up' = Tail(up) /\ up \in Seq(Messages) /\ m \in Messages
      /\ UNCHANGED <<phase, client, state, docOf>>
  BY Taken DEF Handle, connVars, docVars, ChannelsInv
<1>2. Listening' = Listening /\ Listeners' = Listeners
  BY <1>1 DEF Listening, Listeners
<1>3. \A d : JoinSent(d) => JoinSent(d)' \/ m = Join(d)
  BY <1>1, Taken DEF JoinSent
<1>4. CASE m.type = "join" /\ OnJoin(m.doc)
  <2>1. UNCHANGED <<access, dropped>> /\ members \subseteq members'
    BY <1>4 DEF OnJoin
  <2>2. \A d : m = Join(d) => m.doc = d
    BY DEF Join
  <2>3. access \in Tokens /\ m.doc \in Rights[access] => m.doc \in members'
    BY <1>4, TokensAssumption DEF OnJoin
  <2>4. phase = "up" => access \in Tokens
    BY DEF ProxyInv
  <2> HIDE DEF m
  <2> QED BY <1>1, <1>2, <1>3, <2>1, <2>2, <2>3, <2>4 DEF Reaching
<1>5. CASE dropped' = TRUE
  BY <1>5 DEF Reaching
<1>6. CASE m.type # "join" /\ UNCHANGED proxyVars
  <2>1. \A d : m # Join(d)
    BY <1>6 DEF Join
  <2> QED BY <1>1, <1>2, <1>3, <1>6, <2>1, ReachingKept DEF proxyVars
<1> QED BY <1>4, <1>5, <1>6 DEF Handle, OnSyncStart, OnSetToken

\* A join is on its way, or what the new token leaves or adds has the document.
LEMMA ReachingUpdate ==
    ASSUME ClientInv, NEW t \in Tokens, OnUpdateTokenMessage(t)
    PROVE  Reaching'
<1> USE DEF ClientInv
<1>1. /\ UNCHANGED <<phase, client, state, docOf, up, dropped>> /\ access' = t
      /\ (members \cap Rights[t]) \cup (Rights[t] \ Rights[access]) \subseteq members'
  BY DEF OnUpdateTokenMessage, Serves, Reattached, connVars, docVars
<1>2. Listening' = Listening /\ Listeners' = Listeners
  BY <1>1 DEF Listening, Listeners
<1>3. \A d : JoinSent(d) => JoinSent(d)'
  BY <1>1 DEF JoinSent
<1>4. ASSUME phase = "up", Listening, ~dropped, NEW k \in Listeners,
             docOf[k] \in Rights[t]
      PROVE  docOf[k] \in members' \/ JoinSent(docOf[k])'
  <2>1. CASE docOf[k] \in Rights[access]
    <3>1. docOf[k] \in members \/ JoinSent(docOf[k])
      BY <1>4, <2>1 DEF Reaching
    <3> QED BY <1>1, <1>3, <1>4, <3>1
  <2>2. CASE docOf[k] \notin Rights[access]
    BY <1>1, <1>4, <2>2
  <2> QED BY <2>1, <2>2
<1> QED BY <1>1, <1>2, <1>4 DEF Reaching

LEMMA ReachingStep == ClientInv /\ [Next]_vars => Reaching'
<1> SUFFICES ASSUME ClientInv, [Next]_vars PROVE Reaching'
  OBVIOUS
<1> USE DEF ClientInv
<1>1. CASE \/ Connect \/ Retry \/ ConnectFails \/ Opens \/ OnConnectRefused
           \/ Breaks \/ ClosesNormally \/ BreaksUnanswered \/ Unheard
           \/ Dispose \/ OnExpiredToken \/ HandleConnection
  <2>1. phase' # "up"
    BY <1>1 DEF Connect, Retry, ConnectFails, Opens, OnConnectRefused, Breaks,
         ClosesNormally, BreaksUnanswered, Unheard, Dispose, OnExpiredToken, Disposes,
         HandleConnection, Rejected, NewSocket, connVars
  <2> QED BY <2>1 DEF Reaching
<1>2. CASE OnConnected
  <2>1. /\ UNCHANGED <<state, docOf>>
        /\ client' = IF client = "none" THEN "ready" ELSE client
        /\ Listening => \A k \in Listeners : JoinSent(docOf[k])'
    BY <1>2, ConnectedSends DEF OnConnected
  <2>2. Listening' /\ ~Listening => Listeners = {}
    BY <2>1 DEF Listening, ContainersInv
  <2>3. Listeners' = Listeners
    BY <2>1 DEF Listeners
  <2> QED BY <2>1, <2>2, <2>3 DEF Reaching
<1>3. ASSUME NEW d \in Docs, GetDoc(d) PROVE Reaching'
  <2>1. PICK k \in Containers : /\ docOf' = [docOf EXCEPT ![k] = d]
                                /\ \A l \in Containers \ {k} : state'[l] = state[l]
                                /\ state[k] = "free"
    BY <1>3 DEF GetDoc, ContainersInv
  <2>2. docOf'[k] = d /\ \A l \in Containers \ {k} : docOf'[l] = docOf[l]
    BY <2>1 DEF ContainersInv
  <2>3. UNCHANGED <<phase, client, proxyVars>>
    BY <1>3 DEF GetDoc, connVars
  <2>4. phase = "up" => JoinSent(d)'
    BY <1>3, GetDocSends, UpIsOpen
  <2>5. \A e : JoinSent(e) => JoinSent(e)'
    BY <1>3, GetDocSends
  <2> QED BY <2>1, <2>2, <2>3, <2>4, <2>5 DEF Reaching, Listeners, Listening, proxyVars
<1>4. CASE OnJoinResponse \/ OnSyncRequested \/ OnGap \/ OnSyncResponse
  <2>1. /\ UNCHANGED <<connVars, client, docOf>> /\ \E type : Takes(type)
        /\ \A d : JoinSent(d) => JoinSent(d)'
    BY <1>4, HandlersSend
  <2>2. \A k \in Containers : state'[k] # "free" => state[k] # "free"
    BY <1>4 DEF OnJoinResponse, OnSyncRequested, OnGap, OnSyncResponse, docVars
  <2>3. Listeners' \subseteq Listeners /\ Listening' = Listening
    BY <2>1, <2>2 DEF Listeners, Listening
  <2> QED BY <2>1, <2>3, ReachingKept DEF connVars, Takes, proxyVars
<1>5. CASE \/ \E k \in Containers : JoinTimeout(k) \/ SyncTimeout(k)
           \/ DisposeDocs \/ UNCHANGED vars
  <2>1. UNCHANGED <<phase, client, docOf, up, proxyVars>>
    BY <1>5 DEF JoinTimeout, SyncTimeout, DisposeDocs, Disposal, vars, connVars, docVars
  <2>2. \A k \in Containers : state'[k] # "free" => state[k] # "free"
    <3>1. 0 \notin Containers
      BY DEF Containers
    <3> QED BY <1>5, <3>1 DEF JoinTimeout, SyncTimeout, DisposeDocs, Disposal, vars,
                  docVars, ContainersInv
  <2>3. Listeners' \subseteq Listeners /\ Listening' = Listening
        /\ \A d : JoinSent(d) => JoinSent(d)'
    BY <2>1, <2>2 DEF Listeners, Listening, JoinSent
  <2> QED BY <2>1, <2>3, ReachingKept DEF proxyVars
<1>6. CASE (\E t \in Tokens : SetToken(t)) \/ \E d \in Docs : SendEvent(d)
  <2>1. UNCHANGED <<phase, client, state, docOf, proxyVars>>
    BY <1>6 DEF SetToken, SendEvent, Serves, connVars, docVars
  <2>2. \A d : JoinSent(d) => JoinSent(d)'
    BY <1>6, SetTokenSends DEF SendEvent, Serves, JoinSent
  <2>3. Listeners' = Listeners /\ Listening' = Listening
    BY <2>1 DEF Listeners, Listening
  <2> QED BY <2>1, <2>2, <2>3, ReachingKept DEF proxyVars
<1>7. CASE Handle
  BY <1>7, ReachingHandle
<1>8. CASE CheckTokenExpiration
  BY <1>8 DEF CheckTokenExpiration, Reaching
<1> QED
  BY <1>1, <1>2, <1>3, <1>4, <1>5, <1>6, <1>7, <1>8, ReachingUpdate DEF Next, ClientNext, ProxyNext

LEMMA ClientStep == ClientInv /\ [Next]_vars => ClientInv'
BY ConnStep, ContainersStep, ChannelsStep, ProxyStep, ReachingStep DEF ClientInv

(* However sockets fail, are refused, close and are replaced, and whenever the
   client is disposed of, it listens to one socket at most: the one it sends
   on (WsConnection.connect, handleClose). *)
THEOREM OneSocketHeardHolds == Spec => []OneSocketHeard
<1>1. ClientInv => OneSocketHeard
  BY DEF ClientInv, ConnInv
<1> QED BY <1>1, ClientInit, ClientStep, PTL DEF Spec

(* For any number of sockets, containers, retries and messages, what the client
   keeps has its type: only an open socket is listened to, and Client.docs keeps
   none but containers that getDoc has returned. *)
THEOREM TypeCorrect == Spec => []TypeOK
<1>1. ClientInv => TypeOK
  BY DEF ClientInv, ConnInv, ContainersInv, ChannelsInv, ProxyInv, TypeOK, Listeners
<1> QED BY <1>1, ClientInit, ClientStep, PTL DEF Spec

(* A document that getDoc has returned is shared for good: whatever sockets fail,
   are refused and are replaced, whichever document's join answer made getDoc
   return, and whatever updates of its token give and take, the server has the connection among its members if it may read the
   document, or its join is on its way (Messenger.handleConnected). *)
THEOREM ReturnedJoinedHolds == Spec => []ReturnedJoined
<1>1. ClientInv => ReturnedJoined
  BY DEF ClientInv, Reaching, ReturnedJoined, Listeners, JoinSent
<1> QED BY <1>1, ClientInit, ClientStep, PTL DEF Spec

=============================================================================
