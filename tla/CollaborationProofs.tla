------------------------ MODULE CollaborationProofs ------------------------
(***************************************************************************)
(* Proofs about Collaboration, for every set of clients, instances,        *)
(* connections and operations, and however many faults there are.          *)
(***************************************************************************)
EXTENDS Collaboration, SequenceTheorems, TLAPS

\* The messages of a channel.
Within(s) == {s[i] : i \in DOMAIN s}

-----------------------------------------------------------------------------
(* Sequences.                                                              *)

LEMMA WithinAppend ==
    ASSUME NEW S, NEW s \in Seq(S), NEW m \in S
    PROVE  Append(s, m) \in Seq(S) /\ Within(Append(s, m)) = Within(s) \cup {m}
<1>1. /\ Append(s, m) \in Seq(S)
      /\ Len(Append(s, m)) = Len(s) + 1
      /\ \A i \in 1 .. Len(s) : Append(s, m)[i] = s[i]
      /\ Append(s, m)[Len(s) + 1] = m
  BY AppendProperties
<1>2. DOMAIN s = 1 .. Len(s) /\ DOMAIN Append(s, m) = 1 .. (Len(s) + 1) /\ Len(s) \in Nat
  BY <1>1
<1>3. QED
  BY <1>1, <1>2 DEF Within

LEMMA WithinTail ==
    ASSUME NEW S, NEW s \in Seq(S), s # <<>>
    PROVE  /\ Tail(s) \in Seq(S) /\ Head(s) \in S
           /\ Within(s) = Within(Tail(s)) \cup {Head(s)}
<1>1. /\ Tail(s) \in Seq(S) /\ Head(s) \in S
      /\ Len(Tail(s)) = Len(s) - 1
      /\ \A i \in 1 .. Len(Tail(s)) : Tail(s)[i] = s[i + 1]
  BY HeadTailProperties
<1>2. DOMAIN s = 1 .. Len(s) /\ DOMAIN Tail(s) = 1 .. (Len(s) - 1) /\ Len(s) \in Nat \ {0}
  BY <1>1
<1>3. Head(s) = s[1]
  OBVIOUS
<1>4. ASSUME NEW i \in DOMAIN s PROVE s[i] \in Within(Tail(s)) \cup {Head(s)}
  <2>1. CASE i = 1
    BY <2>1, <1>3
  <2>2. CASE i # 1
    <3>1. (i - 1) \in DOMAIN Tail(s) /\ Tail(s)[i - 1] = s[i]
      BY <2>2, <1>1, <1>2
    <3>2. QED
      BY <3>1 DEF Within
  <2>3. QED
    BY <2>1, <2>2
<1>5. \A i \in DOMAIN Tail(s) : Tail(s)[i] \in Within(s)
  BY <1>1, <1>2 DEF Within
<1>6. Head(s) \in Within(s)
  BY <1>2, <1>3 DEF Within
<1>7. QED
  BY <1>1, <1>4, <1>5, <1>6 DEF Within

LEMMA WithinPrefix ==
    ASSUME NEW S, NEW s \in Seq(S), NEW n \in 0 .. Len(s)
    PROVE  SubSeq(s, 1, n) \in Seq(S) /\ Within(SubSeq(s, 1, n)) \subseteq Within(s)
<1>1. CASE n = 0
  <2>1. SubSeq(s, 1, n) = <<>>
    BY <1>1, SubSeqEmpty
  <2>2. QED
    BY <2>1 DEF Within
<1>2. CASE n # 0
  <2>1. /\ SubSeq(s, 1, n) \in Seq(S)
        /\ Len(SubSeq(s, 1, n)) = n
        /\ \A i \in 1 .. n : SubSeq(s, 1, n)[i] = s[i]
    BY <1>2, SubSeqProperties
  <2>2. DOMAIN SubSeq(s, 1, n) = 1 .. n /\ DOMAIN s = 1 .. Len(s)
    BY <2>1
  <2>3. QED
    BY <2>1, <2>2 DEF Within
<1>3. QED
  BY <1>1, <1>2

LEMMA WithinSeq ==
    ASSUME NEW S, NEW s \in Seq(S) PROVE Within(s) \subseteq S
BY DEF Within

-----------------------------------------------------------------------------
(* Connections and messages.                                               *)

LEMMA ConnectionPairs ==
    /\ \A x \in Connections : /\ x[1] \in Clients /\ x[2] \in Nat
                              /\ x = <<x[1], x[2]>>
                              /\ 1 <= x[2] /\ x[2] <= MaxConnections[x[1]]
    /\ \A c \in Clients, n \in Nat :
           1 <= n /\ n <= MaxConnections[c] => <<c, n>> \in Connections
BY BoundsAssumption DEF Connections

LEMMA MessageTypes ==
    /\ \A u \in YDocs : /\ Changes(u) \in Messages
                        /\ [type |-> "broadcast", update |-> u] \in Messages
    /\ \A u \in YDocs, d \in YDocs : SyncComplete(u, d) \in Messages
    /\ \A d \in YDocs : SyncStart(d) \in Messages
    /\ Joining \in Messages
    /\ [type |-> "joinResponse"] \in Messages
    /\ [type |-> "requestSync"] \in Messages
    /\ \A u \in YDocs, v \in SUBSET Op :
           [type |-> "syncResponse", update |-> u, vector |-> v] \in Messages
<1>1. \A d \in YDocs : StateVector(d) \in SUBSET Op
  BY DEF YDocs, StateVector, Integrated
<1>2. QED
  BY <1>1 DEF Messages, Changes, SyncComplete, SyncStart, Joining

LEMMA MessageFields ==
    ASSUME NEW m \in Messages
    PROVE  /\ m.type \in {"changes", "broadcast", "syncResponse", "syncComplete"}
                  => m.update \in YDocs
           /\ m.type \in {"syncStart", "syncResponse"} => m.vector \in SUBSET Op
           /\ m.type = "syncComplete" => m.whole \in YDocs
BY DEF Messages

LEMMA DocTypes ==
    /\ EmptyYDoc \in YDocs
    /\ \A d \in YDocs, u \in YDocs : ApplyUpdate(d, u) \in YDocs
    /\ \A d \in YDocs, v \in SUBSET Op : StateAsUpdate(d, v) \in YDocs
    /\ \A d \in YDocs : StateVector(d) \in SUBSET Op
BY DEF YDocs, EmptyYDoc, ApplyUpdate, StateAsUpdate, StateVector, Integrated

-----------------------------------------------------------------------------
(* Type correctness.                                                       *)

LinksOK ==
    /\ up \in [Connections -> Seq(Messages)]
    /\ down \in [Connections -> Seq(Messages)]

\* What is sent down is there afterwards, and nothing else is new.
LEMMA SentDown ==
    ASSUME LinksOK, NEW xs, NEW m \in Messages, SendDown(xs, m)
    PROVE  /\ down' \in [Connections -> Seq(Messages)]
           /\ \A x \in Connections :
                  /\ Within(down'[x]) \subseteq Within(down[x]) \cup {m}
                  /\ Within(down[x]) \subseteq Within(down'[x])
                  /\ x \in xs /\ IsOpen(x) => m \in Within(down'[x])
<1>1. ASSUME NEW x \in Connections
      PROVE  /\ Append(down[x], m) \in Seq(Messages)
             /\ Within(Append(down[x], m)) = Within(down[x]) \cup {m}
  BY WithinAppend DEF LinksOK
<1>2. QED
  BY <1>1 DEF SendDown, LinksOK

\* What a client sends is there afterwards if it is online.
LEMMA Sent ==
    ASSUME LinksOK, NEW c \in Clients, NEW m \in Messages, Send(c, m)
    PROVE  /\ up' \in [Connections -> Seq(Messages)]
           /\ \A x \in Connections :
                  /\ Within(up'[x]) \subseteq Within(up[x]) \cup {m}
                  /\ Within(up[x]) \subseteq Within(up'[x])
                  /\ x # Current(c) \/ ~open[c] => up'[x] = up[x]
                  /\ open[c] /\ x = Current(c) => up'[x] = Append(up[x], m)
                  /\ open[c] /\ x = Current(c) => m \in Within(up'[x])
<1>1. ASSUME NEW x \in Connections
      PROVE  /\ Append(up[x], m) \in Seq(Messages)
             /\ Within(Append(up[x], m)) = Within(up[x]) \cup {m}
  BY WithinAppend DEF LinksOK
<1>2. CASE open[c]
  <2>1. up' = [up EXCEPT ![Current(c)] = Append(@, m)]
    BY <1>2 DEF Send
  <2>2. \A x \in Connections :
            up'[x] = IF x = Current(c) THEN Append(up[x], m) ELSE up[x]
    BY <2>1 DEF LinksOK
  <2>3. up' \in [Connections -> Seq(Messages)]
    BY <1>1, <2>1 DEF LinksOK
  <2>4. QED
    BY <1>1, <1>2, <2>2, <2>3
<1>3. CASE ~open[c]
  BY <1>3 DEF Send, LinksOK
<1>4. QED
  BY <1>2, <1>3

\* The message a client takes off its connection.
LEMMA Received ==
    ASSUME LinksOK, NEW c \in Clients, NEW type, Current(c) \in Connections,
           Receives(c, type)
    PROVE  /\ open[c]
           /\ Head(down[Current(c)]) \in Within(down[Current(c)])
           /\ Head(down[Current(c)]) \in Messages
           /\ Head(down[Current(c)]).type = type
           /\ down' \in [Connections -> Seq(Messages)]
           /\ \A x \in Connections :
                  /\ Within(down'[x]) \subseteq Within(down[x])
                  /\ x # Current(c) => down'[x] = down[x]
           /\ Within(down[Current(c)]) =
                  Within(down'[Current(c)]) \cup {Head(down[Current(c)])}
<1> DEFINE s == down[Current(c)]
<1>1. s \in Seq(Messages) /\ s # <<>>
  BY DEF LinksOK, Receives
<1>2. /\ Tail(s) \in Seq(Messages) /\ Head(s) \in Messages
      /\ Within(s) = Within(Tail(s)) \cup {Head(s)}
  BY <1>1, WithinTail
<1>3. down' = [down EXCEPT ![Current(c)] = Tail(@)]
  BY DEF Receives
<1>4. /\ down'[Current(c)] = Tail(s)
      /\ \A x \in Connections : x # Current(c) => down'[x] = down[x]
      /\ down' \in [Connections -> Seq(Messages)]
  BY <1>2, <1>3 DEF LinksOK
<1>5. QED
  BY <1>2, <1>4 DEF Receives

\* The message an instance takes off a connection.
LEMMA Handled ==
    ASSUME LinksOK, NEW x \in Connections, NEW type, Handles(x, type)
    PROVE  /\ Head(up[x]) \in Within(up[x])
           /\ Head(up[x]) \in Messages
           /\ Head(up[x]).type = type
           /\ up' \in [Connections -> Seq(Messages)]
           /\ \A y \in Connections :
                  /\ Within(up'[y]) \subseteq Within(up[y])
                  /\ y # x => up'[y] = up[y]
           /\ Within(up[x]) = Within(up'[x]) \cup {Head(up[x])}
<1> DEFINE s == up[x]
<1>1. s \in Seq(Messages) /\ s # <<>>
  BY DEF LinksOK, Handles
<1>2. /\ Tail(s) \in Seq(Messages) /\ Head(s) \in Messages
      /\ Within(s) = Within(Tail(s)) \cup {Head(s)}
  BY <1>1, WithinTail
<1>3. up' = [up EXCEPT ![x] = Tail(@)]
  BY DEF Handles
<1>4. /\ up'[x] = Tail(s)
      /\ \A y \in Connections : y # x => up'[y] = up[y]
      /\ up' \in [Connections -> Seq(Messages)]
  BY <1>2, <1>3 DEF LinksOK
<1>5. QED
  BY <1>2, <1>4 DEF Handles

\* Only connections that have been made are open.
Opened == \A c \in Clients : open[c] => conn[c] > 0

BaseInv == TypeOK /\ Opened

LEMMA BaseLinks == BaseInv => LinksOK
BY DEF BaseInv, TypeOK, LinksOK

LEMMA CurrentConnection ==
    ASSUME BaseInv, NEW c \in Clients, conn[c] > 0 PROVE Current(c) \in Connections
<1>1. conn[c] \in Nat /\ 1 <= conn[c] /\ conn[c] <= MaxConnections[c]
  BY DEF BaseInv, TypeOK
<1>2. QED
  BY <1>1, ConnectionPairs DEF Current

LEMMA OpenConnection ==
    ASSUME BaseInv, NEW c \in Clients, open[c] PROVE Current(c) \in Connections
BY CurrentConnection DEF BaseInv, Opened

LEMMA InitBase == Init => BaseInv
<1> SUFFICES ASSUME Init PROVE BaseInv
  OBVIOUS
<1>1. /\ up \in [Connections -> Seq(Messages)]
      /\ down \in [Connections -> Seq(Messages)]
  BY DEF Init
<1>2. QED
  BY <1>1, DocTypes, BoundsAssumption DEF Init, BaseInv, TypeOK, Opened

\* The client's part of the state.
ClientsOK ==
    /\ doc \in [Clients -> YDocs]
    /\ conn \in [Clients -> Nat]
    /\ \A c \in Clients : conn[c] <= MaxConnections[c]
    /\ open \in [Clients -> BOOLEAN]
    /\ got \in [Clients -> BOOLEAN]
    /\ syncing \in [Clients -> BOOLEAN]
    /\ syncedOn \in [Clients -> Nat]
    /\ \A c \in Clients : syncedOn[c] <= conn[c]
    /\ \A c \in Clients : open[c] => conn[c] > 0

ServerOK ==
    /\ joined \subseteq Connections
    /\ topic \subseteq [author : Connections, update : YDocs, to : Instances]
    /\ owed \in [Connections -> YDocs]

CallsOK == calls \subseteq [conn : Connections, message : Messages]

ActorOK == ydoc \in YDocs /\ stored \in YDocs /\ syncAwait \subseteq Connections

FaultsOK ==
    /\ failures \in 0 .. MaxFailures
    /\ restarts \in 0 .. MaxRestarts
    /\ losses \in 0 .. MaxLosses

LEMMA BaseParts ==
    BaseInv <=> ClientsOK /\ LinksOK /\ ServerOK /\ CallsOK /\ ActorOK /\ FaultsOK
BY DEF BaseInv, TypeOK, Opened, ClientsOK, LinksOK, ServerOK, CallsOK, ActorOK, FaultsOK

LEMMA BasePartsPrimed ==
    BaseInv' <=> /\ ClientsOK' /\ LinksOK' /\ ServerOK' /\ CallsOK'
                 /\ ActorOK' /\ FaultsOK'
BY DEF BaseInv, TypeOK, Opened, ClientsOK, LinksOK, ServerOK, CallsOK, ActorOK, FaultsOK

\* An update that a client makes or is sent, and what it sends.
LEMMA EditBase ==
    ASSUME BaseInv, NEW c \in Clients, NEW u \in YDocs, Edit(c, u) PROVE BaseInv'
<1>1. ClientsOK /\ LinksOK /\ ServerOK /\ CallsOK /\ ActorOK /\ FaultsOK
  BY BaseParts
<1>2. ApplyUpdate(doc[c], u) \in YDocs
  BY <1>1, DocTypes DEF ClientsOK
<1>3. ClientsOK'
  BY <1>1, <1>2 DEF ClientsOK, Edit
<1>4. LinksOK'
  <2>1. up' \in [Connections -> Seq(Messages)]
    BY <1>1, Sent, MessageTypes DEF Edit
  <2>2. QED
    BY <1>1, <2>1 DEF LinksOK, Edit
<1>5. ServerOK' /\ CallsOK' /\ ActorOK' /\ FaultsOK'
  BY <1>1 DEF ServerOK, CallsOK, ActorOK, FaultsOK, Edit, serverVars, actorVars, faultVars
<1>6. QED
  BY <1>3, <1>4, <1>5, BasePartsPrimed

LEMMA EditUpdates ==
    /\ \A o \in Op : [ops |-> {o}, dels |-> {}] \in YDocs
    /\ \A o \in Op : [ops |-> {}, dels |-> {o}] \in YDocs
BY DEF YDocs

LEMMA SyncLinks ==
    ASSUME LinksOK, NEW c \in Clients, NEW d \in YDocs, Sync(c, d)
    PROVE  up' \in [Connections -> Seq(Messages)]
<1>1. CASE syncing[c]
  BY <1>1 DEF LinksOK, Sync
<1>2. CASE ~syncing[c]
  BY <1>2, Sent, MessageTypes DEF Sync
<1>3. QED
  BY <1>1, <1>2

\* The client takes a message off its connection.
LEMMA ReceiveBase ==
    ASSUME BaseInv, NEW c \in Clients,
           OnJoinResponse(c) \/ OnRequestSync(c) \/ OnBroadcast(c) \/ OnSyncResponse(c)
    PROVE  BaseInv'
<1>1. ClientsOK /\ LinksOK /\ ServerOK /\ CallsOK /\ ActorOK /\ FaultsOK
  BY BaseParts
<1>2. open[c] /\ Current(c) \in Connections
  BY OpenConnection DEF OnJoinResponse, OnRequestSync, OnBroadcast, OnSyncResponse, Receives
<1> DEFINE m == Head(down[Current(c)])
<1>3. down' \in [Connections -> Seq(Messages)] /\ m \in Messages
  BY <1>1, <1>2, Received DEF OnJoinResponse, OnRequestSync, OnBroadcast, OnSyncResponse
<1>4. /\ UNCHANGED <<conn, open, serverVars, calls, actorVars, faultVars>>
  BY DEF OnJoinResponse, OnRequestSync, OnBroadcast, OnSyncResponse, Receives
<1>5. ServerOK' /\ CallsOK' /\ ActorOK' /\ FaultsOK'
  BY <1>1, <1>4 DEF ServerOK, CallsOK, ActorOK, FaultsOK, serverVars, actorVars, faultVars
<1>6. doc[c] \in YDocs
  BY <1>1 DEF ClientsOK
<1>7. CASE OnJoinResponse(c) \/ OnRequestSync(c)
  <2>1. Sync(c, doc[c]) /\ UNCHANGED <<doc, syncedOn>>
    BY <1>7 DEF OnJoinResponse, OnRequestSync
  <2>2. up' \in [Connections -> Seq(Messages)]
    BY <1>1, <1>6, <2>1, SyncLinks
  <2>3. got' \in [Clients -> BOOLEAN]
    BY <1>1, <1>7 DEF ClientsOK, OnJoinResponse, OnRequestSync
  <2>4. ClientsOK'
    BY <1>1, <1>4, <2>1, <2>3 DEF ClientsOK, Sync
  <2>5. QED
    BY <1>3, <1>5, <2>2, <2>4, BasePartsPrimed DEF LinksOK
<1>8. CASE OnBroadcast(c)
  <2> DEFINE d == ApplyUpdate(doc[c], m.update)
  <2>1. m.type = "broadcast"
    BY <1>8 DEF OnBroadcast, Receives
  <2>2. d \in YDocs
    BY <1>3, <1>6, <2>1, MessageFields, DocTypes
  <2>3. /\ doc' = [doc EXCEPT ![c] = d] /\ UNCHANGED <<got, syncedOn>>
        /\ Sync(c, d) \/ UNCHANGED <<syncing, up>>
    BY <1>8 DEF OnBroadcast, Merged
  <2>4. up' \in [Connections -> Seq(Messages)]
    BY <1>1, <2>2, <2>3, SyncLinks DEF LinksOK
  <2>5. syncing' \in [Clients -> BOOLEAN]
    BY <1>1, <2>3 DEF ClientsOK, Sync
  <2>6. ClientsOK'
    BY <1>1, <1>4, <2>2, <2>3, <2>5 DEF ClientsOK
  <2>7. QED
    BY <1>3, <1>5, <2>4, <2>6, BasePartsPrimed DEF LinksOK
<1>9. CASE OnSyncResponse(c)
  <2>1. CASE ~syncing[c]
    <3>1. UNCHANGED <<doc, up, syncing, syncedOn, got>>
      BY <1>9, <2>1 DEF OnSyncResponse
    <3>2. ClientsOK' /\ LinksOK'
      BY <1>1, <1>3, <1>4, <3>1 DEF ClientsOK, LinksOK
    <3>3. QED
      BY <1>5, <3>2, BasePartsPrimed
  <2>2. CASE syncing[c]
    <3> DEFINE d == ApplyUpdate(doc[c], m.update)
    <3>1. m.type = "syncResponse"
      BY <1>9 DEF OnSyncResponse, Receives
    <3>2. d \in YDocs /\ ReturnChanges(d, m.vector) \in YDocs
      BY <1>3, <1>6, <3>1, MessageFields, DocTypes DEF ReturnChanges
    <3>3. /\ doc' = [doc EXCEPT ![c] = d] /\ UNCHANGED got
          /\ Send(c, SyncComplete(ReturnChanges(d, m.vector), d))
          /\ syncing' = [syncing EXCEPT ![c] = FALSE]
          /\ syncedOn' = [syncedOn EXCEPT ![c] = conn[c]]
      BY <1>9, <2>2 DEF OnSyncResponse, Merged
    <3>4. up' \in [Connections -> Seq(Messages)]
      BY <1>1, <3>2, <3>3, Sent, MessageTypes
    <3>5. ClientsOK'
      BY <1>1, <1>4, <3>2, <3>3 DEF ClientsOK
    <3>6. QED
      BY <1>3, <1>5, <3>4, <3>5, BasePartsPrimed DEF LinksOK
  <2>3. QED
    BY <2>1, <2>2
<1>10. QED
  BY <1>7, <1>8, <1>9

\* Everything else a client or its connection does.
LEMMA ConnectionBase ==
    ASSUME BaseInv, NEW c \in Clients, Connect(c) \/ Disconnect(c) \/ SyncTimeout(c)
    PROVE  BaseInv'
<1>1. ClientsOK /\ LinksOK /\ ServerOK /\ CallsOK /\ ActorOK /\ FaultsOK
  BY BaseParts
<1>2. UNCHANGED <<serverVars, calls, actorVars, restarts, losses>>
  BY DEF Connect, Disconnect, SyncTimeout, faultVars
<1>3. ServerOK' /\ CallsOK' /\ ActorOK'
  BY <1>1, <1>2 DEF ServerOK, CallsOK, ActorOK, serverVars, actorVars
<1>4. CASE Connect(c)
  <2>1. <<Joining>> \in Seq(Messages)
    BY MessageTypes
  <2>2. LinksOK'
    BY <1>1, <1>4, <2>1 DEF LinksOK, Connect
  <2>3. MaxConnections[c] \in Nat
    BY BoundsAssumption
  <2>4. ClientsOK'
    BY <1>1, <1>4, <2>3 DEF ClientsOK, Connect
  <2>5. FaultsOK'
    BY <1>1, <1>4 DEF FaultsOK, Connect, faultVars
  <2>6. QED
    BY <1>3, <2>2, <2>4, <2>5, BasePartsPrimed
<1>5. CASE Disconnect(c)
  <2>1. Current(c) \in Connections
    BY <1>5, OpenConnection DEF Disconnect
  <2>2. up[Current(c)] \in Seq(Messages)
    BY <1>1, <2>1 DEF LinksOK
  <2>3. PICK n \in 0 .. Len(up[Current(c)]) :
            up' = [up EXCEPT ![Current(c)] = SubSeq(@, 1, n)]
    BY <1>5 DEF Disconnect
  <2>4. SubSeq(up[Current(c)], 1, n) \in Seq(Messages)
    BY <2>2, WithinPrefix
  <2>5. up' \in [Connections -> Seq(Messages)]
    BY <1>1, <2>3, <2>4 DEF LinksOK
  <2>6. down' \in [Connections -> Seq(Messages)]
    <3>1. <<>> \in Seq(Messages) /\ down' = [down EXCEPT ![Current(c)] = <<>>]
      BY <1>5 DEF Disconnect
    <3>2. QED
      BY <1>1, <3>1 DEF LinksOK
  <2>7. ClientsOK'
    BY <1>1, <1>5 DEF ClientsOK, Disconnect
  <2>8. FaultsOK'
    BY <1>1, <1>5 DEF FaultsOK, Disconnect, faultVars
  <2>9. QED
    BY <1>3, <2>5, <2>6, <2>7, <2>8, BasePartsPrimed DEF LinksOK
<1>6. CASE SyncTimeout(c)
  <2>1. ClientsOK' /\ LinksOK'
    BY <1>1, <1>6 DEF ClientsOK, LinksOK, SyncTimeout, linkVars
  <2>2. FaultsOK'
    BY <1>1, <1>2, <1>6, BoundsAssumption DEF FaultsOK, SyncTimeout
  <2>3. QED
    BY <1>3, <2>1, <2>2, BasePartsPrimed
<1>7. QED
  BY <1>4, <1>5, <1>6

\* What the instances do with a message of a connection.
LEMMA HandleBase ==
    ASSUME BaseInv, NEW x \in Connections,
           OnJoin(x) \/ OnChanges(x) \/ OnSyncMessage(x)
    PROVE  BaseInv'
<1>1. ClientsOK /\ LinksOK /\ ServerOK /\ CallsOK /\ ActorOK /\ FaultsOK
  BY BaseParts
<1> DEFINE m == Head(up[x])
<1>2. /\ UNCHANGED <<clientVars, actorVars, faultVars>>
      /\ up' \in [Connections -> Seq(Messages)] /\ m \in Messages
  BY <1>1, Handled DEF OnJoin, OnChanges, OnSyncMessage, Handles
<1>3. ClientsOK' /\ ActorOK' /\ FaultsOK'
  BY <1>1, <1>2 DEF ClientsOK, ActorOK, FaultsOK, clientVars, actorVars, faultVars
<1>4. ASSUME CallsActor(x, m) PROVE CallsOK'
  BY <1>1, <1>2, <1>4 DEF CallsOK, CallsActor
<1>5. CASE OnJoin(x)
  <2>1. /\ joined' = joined \cup {x} /\ UNCHANGED <<topic, owed, calls>>
        /\ SendDown({x}, [type |-> "joinResponse"])
    BY <1>5 DEF OnJoin
  <2>2. down' \in [Connections -> Seq(Messages)]
    BY <1>1, <2>1, SentDown, MessageTypes
  <2>3. QED
    BY <1>1, <1>2, <1>3, <2>1, <2>2, BasePartsPrimed DEF LinksOK, ServerOK, CallsOK
<1>6. CASE OnChanges(x)
  <2>1. UNCHANGED joined /\ m.type = "changes"
    BY <1>6 DEF OnChanges, Handles
  <2>2. m.update \in YDocs
    BY <1>2, <2>1, MessageFields
  <2>3. CASE x \notin joined
    <3>1. UNCHANGED <<down, topic, calls, owed>>
      BY <1>6, <2>3 DEF OnChanges
    <3>2. QED
      BY <1>1, <1>2, <1>3, <2>1, <3>1, BasePartsPrimed DEF LinksOK, ServerOK, CallsOK
  <2>4. CASE x \in joined
    <3>1. /\ BroadcastDiff(ServedBy[x], x, m.update)
          /\ topic' = topic \cup [author : {x}, update : {m.update}, to : Instances]
          /\ CallsActor(x, m)
          /\ owed' = [y \in Connections |->
                         IF y \in joined THEN ApplyUpdate(owed[y], m.update)
                                         ELSE owed[y]]
      BY <1>6, <2>4 DEF OnChanges
    <3>2. down' \in [Connections -> Seq(Messages)]
      BY <1>1, <2>2, <3>1, SentDown, MessageTypes DEF BroadcastDiff
    <3>3. owed' \in [Connections -> YDocs]
      BY <1>1, <2>2, <3>1, DocTypes DEF ServerOK
    <3>4. ServerOK'
      BY <1>1, <2>1, <2>2, <3>1, <3>3 DEF ServerOK
    <3>5. QED
      BY <1>2, <1>3, <1>4, <3>1, <3>2, <3>4, BasePartsPrimed DEF LinksOK
  <2>5. QED
    BY <2>3, <2>4
<1>7. CASE OnSyncMessage(x)
  <2>1. CallsActor(x, m) /\ UNCHANGED <<down, serverVars>>
    BY <1>7 DEF OnSyncMessage
  <2>2. QED
    BY <1>1, <1>2, <1>3, <1>4, <2>1, BasePartsPrimed DEF LinksOK, ServerOK, serverVars
<1>8. QED
  BY <1>5, <1>6, <1>7

\* What the instances do otherwise, and the topic.
LEMMA InstanceBase ==
    ASSUME BaseInv,
           \/ \E x \in Connections : HandleDisconnect(x)
           \/ \E call \in calls : OnAnswer(call)
           \/ \E m \in topic : OnChangesMessage(m) \/ TopicLoses(m)
    PROVE  BaseInv'
<1>1. ClientsOK /\ LinksOK /\ ServerOK /\ CallsOK /\ ActorOK /\ FaultsOK
  BY BaseParts
<1>2. ASSUME NEW x \in Connections, HandleDisconnect(x) PROVE BaseInv'
  BY <1>1, <1>2, BasePartsPrimed
     DEF HandleDisconnect, ClientsOK, LinksOK, ServerOK, CallsOK, ActorOK, FaultsOK,
         clientVars, linkVars, actorVars, faultVars
<1>3. ASSUME NEW call \in calls, OnAnswer(call) PROVE BaseInv'
  <2>1. call.message \in Messages
    BY <1>1 DEF CallsOK
  <2>2. down' \in [Connections -> Seq(Messages)]
    BY <1>1, <1>3, <2>1, SentDown DEF OnAnswer
  <2>3. QED
    BY <1>1, <1>3, <2>2, BasePartsPrimed
       DEF OnAnswer, ClientsOK, LinksOK, ServerOK, CallsOK, ActorOK, FaultsOK,
           clientVars, serverVars, actorVars, faultVars
<1>4. ASSUME NEW m \in topic, OnChangesMessage(m) PROVE BaseInv'
  <2>1. m.update \in YDocs
    BY <1>1 DEF ServerOK
  <2>2. down' \in [Connections -> Seq(Messages)]
    <3>1. CASE AlreadySent(m)
      BY <1>1, <1>4, <3>1 DEF OnChangesMessage, LinksOK
    <3>2. CASE ~AlreadySent(m)
      <4>1. BroadcastDiff(m.to, m.author, m.update)
        BY <1>4, <3>2 DEF OnChangesMessage
      <4>2. QED
        BY <1>1, <2>1, <4>1, SentDown, MessageTypes DEF BroadcastDiff
    <3>3. QED
      BY <3>1, <3>2
  <2>3. QED
    BY <1>1, <1>4, <2>2, BasePartsPrimed
       DEF OnChangesMessage, ClientsOK, LinksOK, ServerOK, CallsOK, ActorOK, FaultsOK,
           clientVars, actorVars, faultVars
<1>5. ASSUME NEW m \in topic, TopicLoses(m) PROVE BaseInv'
  <2>1. losses' \in 0 .. MaxLosses
    BY <1>1, <1>5, BoundsAssumption DEF FaultsOK, TopicLoses
  <2>2. QED
    BY <1>1, <1>5, <2>1, BasePartsPrimed
       DEF TopicLoses, ClientsOK, LinksOK, ServerOK, CallsOK, ActorOK, FaultsOK,
           clientVars, linkVars, actorVars
<1>6. QED
  BY <1>2, <1>3, <1>4, <1>5

\* What the actor does.
LEMMA ActorBase == ASSUME BaseInv, ActorNext PROVE BaseInv'
<1>1. ClientsOK /\ LinksOK /\ ServerOK /\ CallsOK /\ ActorOK /\ FaultsOK
  BY BaseParts
<1>2. /\ UNCHANGED <<clientVars, linkVars, serverVars>>
  BY DEF ActorNext, ApplyDiff, AnswerSyncStart, CompleteSync, CallFails,
         SyncAwaitTimeout, Restart, Runs
<1>3. ClientsOK' /\ LinksOK' /\ ServerOK'
  BY <1>1, <1>2 DEF ClientsOK, LinksOK, ServerOK, clientVars, linkVars, serverVars
<1>4. ASSUME NEW call \in calls
      PROVE  call.conn \in Connections /\ call.message \in Messages
  BY <1>1 DEF CallsOK
<1>5. ASSUME NEW call \in calls, call.message.type \in {"changes", "syncComplete"}
      PROVE  ApplyUpdate(ydoc, call.message.update) \in YDocs
  BY <1>1, <1>4, <1>5, MessageFields, DocTypes DEF ActorOK
<1>6. ASSUME NEW call \in calls, NEW m \in Messages
      PROVE  /\ (calls \ {call}) \cup {[conn |-> call.conn, message |-> m]}
                    \subseteq [conn : Connections, message : Messages]
             /\ calls \ {call} \subseteq [conn : Connections, message : Messages]
  BY <1>1, <1>4 DEF CallsOK
<1>7. ASSUME NEW call \in calls, ApplyDiff(call) PROVE BaseInv'
  <2>1. call.message.type = "changes" /\ UNCHANGED faultVars
    BY <1>7 DEF ApplyDiff, Runs
  <2>2. ydoc' \in YDocs /\ stored' = ydoc'
    BY <1>5, <1>7, <2>1 DEF ApplyDiff
  <2>3. CallsOK' /\ syncAwait' \subseteq Connections
    BY <1>1, <1>4, <1>6, <1>7, MessageTypes DEF ApplyDiff, CallsOK, ActorOK
  <2>4. QED
    BY <1>1, <1>3, <2>1, <2>2, <2>3, BasePartsPrimed DEF ActorOK, FaultsOK, faultVars
<1>8. ASSUME NEW call \in calls, AnswerSyncStart(call) PROVE BaseInv'
  <2>1. call.message.type = "syncStart" /\ UNCHANGED <<actorVars, faultVars>>
    BY <1>8 DEF AnswerSyncStart, Runs
  <2>2. SyncResponse(call.message.vector) \in Messages
    BY <1>1, <1>4, <2>1, MessageFields, MessageTypes, DocTypes DEF SyncResponse, ActorOK
  <2>3. CallsOK'
    BY <1>6, <1>8, <2>2 DEF AnswerSyncStart, CallsOK
  <2>4. QED
    BY <1>1, <1>3, <2>1, <2>3, BasePartsPrimed DEF ActorOK, FaultsOK, actorVars, faultVars
<1>9. ASSUME NEW call \in calls, CompleteSync(call) PROVE BaseInv'
  <2>1. call.message.type = "syncComplete" /\ UNCHANGED faultVars
    BY <1>9 DEF CompleteSync, Runs
  <2>2. ydoc' \in YDocs /\ stored' \in YDocs /\ UNCHANGED syncAwait
    BY <1>1, <1>5, <1>9, <2>1 DEF CompleteSync, SavedBySync, ActorOK
  <2>3. CallsOK'
    BY <1>1, <1>9 DEF CompleteSync, CallsOK
  <2>4. QED
    BY <1>1, <1>3, <2>1, <2>2, <2>3, BasePartsPrimed DEF ActorOK, FaultsOK, faultVars
<1>10. ASSUME NEW call \in calls, CallFails(call) PROVE BaseInv'
  <2>1. ydoc' \in YDocs /\ stored' \in YDocs
    BY <1>1, <1>5, <1>10 DEF CallFails, SavedBySync, ActorOK
  <2>2. failures' \in 0 .. MaxFailures
    BY <1>1, <1>10, BoundsAssumption DEF CallFails, FaultsOK
  <2>3. QED
    BY <1>1, <1>3, <1>10, <2>1, <2>2, BasePartsPrimed
       DEF CallFails, CallsOK, ActorOK, FaultsOK
<1>11. ASSUME NEW x \in syncAwait, SyncAwaitTimeout(x) PROVE BaseInv'
  BY <1>1, <1>3, <1>11, BasePartsPrimed
     DEF SyncAwaitTimeout, CallsOK, ActorOK, FaultsOK, faultVars
<1>12. ASSUME Restart PROVE BaseInv'
  <2>1. restarts' \in 0 .. MaxRestarts
    BY <1>1, <1>12, BoundsAssumption DEF Restart, FaultsOK
  <2>2. QED
    BY <1>1, <1>3, <1>12, <2>1, BasePartsPrimed DEF Restart, CallsOK, ActorOK, FaultsOK
<1>13. QED
  BY <1>7, <1>8, <1>9, <1>10, <1>11, <1>12 DEF ActorNext

\* Every step keeps the types.
LEMMA BaseStep == ASSUME BaseInv, [Next]_vars PROVE BaseInv'
<1>1. ASSUME NEW c \in Clients, ClientNext(c) PROVE BaseInv'
  <2>1. ASSUME NEW o \in Op, Insert(c, o) PROVE BaseInv'
    BY <2>1, EditBase, EditUpdates DEF Insert
  <2>2. ASSUME NEW o \in Deletable, Delete(c, o) PROVE BaseInv'
    <3>1. o \in Op
      BY <2>2 DEF Delete, Integrated, BaseInv, TypeOK, YDocs
    <3>2. QED
      BY <2>2, <3>1, EditBase, EditUpdates DEF Delete
  <2>3. QED
    BY <1>1, <2>1, <2>2, ReceiveBase, ConnectionBase DEF ClientNext
<1>2. CASE InstanceNext
  BY <1>2, HandleBase, InstanceBase DEF InstanceNext
<1>3. CASE ActorNext
  BY <1>3, ActorBase
<1>4. CASE UNCHANGED vars
  BY <1>4 DEF vars, clientVars, linkVars, serverVars, actorVars, faultVars,
              BaseInv, TypeOK, Opened
<1>5. QED
  BY <1>1, <1>2, <1>3, <1>4 DEF Next

(* The documents, the channels and what is under way keep their types, for
   every number of clients, instances, connections and faults. *)
THEOREM TypeCorrect == Spec => []TypeOK
<1>1. BaseInv /\ [Next]_vars => BaseInv'
  BY BaseStep
<1>2. BaseInv => TypeOK
  BY DEF BaseInv
<1>3. QED
  BY InitBase, <1>1, <1>2, PTL DEF Spec

-----------------------------------------------------------------------------
(* What the proofs about the exchange of updates share.                     *)

\* The parts of a document and of an update.
Kinds == {"ops", "dels"}

LEMMA DocItems ==
    /\ \A k \in Kinds : EmptyYDoc[k] = {}
    /\ \A d \in YDocs, u \in YDocs, k \in Kinds : ApplyUpdate(d, u)[k] = d[k] \cup u[k]
    /\ \A v : \A d \in YDocs, k \in Kinds : StateAsUpdate(d, v)[k] \subseteq d[k]
    /\ \A d \in YDocs, e \in YDocs : (\A k \in Kinds : e[k] \subseteq d[k]) <=> Covers(d, e)
BY DEF Kinds, EmptyYDoc, ApplyUpdate, StateAsUpdate, Covers, YDocs

\* A client that stays connected sends at most one message.
LEMMA ClientUp ==
    ASSUME BaseInv, NEW c \in Clients, ClientNext(c), ~Connect(c), ~Disconnect(c)
    PROVE  /\ UNCHANGED <<conn, open>>
           /\ UNCHANGED up \/ \E m \in Messages : Send(c, m)
<1>1. LinksOK /\ doc[c] \in YDocs
  BY BaseLinks DEF BaseInv, TypeOK
<1>2. ASSUME NEW o \in Op, Insert(c, o) PROVE \E m \in Messages : Send(c, m)
  BY <1>2, EditUpdates, MessageTypes DEF Insert, Edit
<1>3. ASSUME NEW o \in Deletable, Delete(c, o) PROVE \E m \in Messages : Send(c, m)
  <2>1. o \in Op
    BY <1>1, <1>3 DEF Delete, Integrated, YDocs
  <2>2. QED
    BY <1>3, <2>1, EditUpdates, MessageTypes DEF Delete, Edit
<1>4. ASSUME NEW d \in YDocs, Sync(c, d)
      PROVE  UNCHANGED up \/ \E m \in Messages : Send(c, m)
  BY <1>4, MessageTypes DEF Sync
<1>5. ASSUME OnJoinResponse(c) \/ OnRequestSync(c)
      PROVE  UNCHANGED up \/ \E m \in Messages : Send(c, m)
  BY <1>1, <1>4, <1>5 DEF OnJoinResponse, OnRequestSync
<1>6. ASSUME NEW type, Receives(c, type)
      PROVE  Head(down[Current(c)]) \in Messages /\ Head(down[Current(c)]).type = type
  <2>1. Current(c) \in Connections
    BY <1>6, OpenConnection DEF Receives
  <2>2. QED
    BY <1>1, <1>6, <2>1, Received
<1>7. ASSUME OnBroadcast(c) PROVE UNCHANGED up \/ \E m \in Messages : Send(c, m)
  <2>1. ApplyUpdate(doc[c], Head(down[Current(c)]).update) \in YDocs
    BY <1>1, <1>6, <1>7, MessageFields, DocTypes DEF OnBroadcast
  <2>2. QED
    BY <1>4, <1>7, <2>1 DEF OnBroadcast, Merged
<1>8. ASSUME OnSyncResponse(c) PROVE UNCHANGED up \/ \E m \in Messages : Send(c, m)
  <2> DEFINE n == Head(down[Current(c)])
             d == ApplyUpdate(doc[c], n.update)
  <2>1. n.update \in YDocs
    BY <1>6, <1>8, MessageFields DEF OnSyncResponse
  <2>2. d \in YDocs /\ ReturnChanges(d, n.vector) \in YDocs
    BY <1>1, <2>1, DocTypes DEF ReturnChanges, StateAsUpdate, YDocs
  <2>3. SyncComplete(ReturnChanges(d, n.vector), d) \in Messages
    BY <2>2, MessageTypes
  <2>4. QED
    BY <1>8, <2>3 DEF OnSyncResponse, Merged
<1>9. ASSUME SyncTimeout(c) PROVE UNCHANGED up
  BY <1>9 DEF SyncTimeout, linkVars
<1>10. UNCHANGED <<conn, open>>
  BY DEF ClientNext, Insert, Delete, Edit, OnJoinResponse, OnRequestSync, OnBroadcast,
         OnSyncResponse, Receives, SyncTimeout
<1>11. QED
  BY <1>2, <1>3, <1>5, <1>7, <1>8, <1>9, <1>10 DEF ClientNext

\* A client's step changes only its own state and its own connections.
LEMMA OthersUp ==
    ASSUME BaseInv, NEW c \in Clients, ClientNext(c), NEW x \in Connections, x[1] # c
    PROVE  /\ doc'[x[1]] = doc[x[1]] /\ conn'[x[1]] = conn[x[1]]
           /\ open'[x[1]] = open[x[1]] /\ syncedOn'[x[1]] = syncedOn[x[1]]
           /\ up'[x] = up[x] /\ down'[x] = down[x]
<1>1. LinksOK /\ conn \in [Clients -> Nat] /\ open \in [Clients -> BOOLEAN]
      /\ doc \in [Clients -> YDocs] /\ syncedOn \in [Clients -> Nat] /\ x[1] \in Clients
  BY BaseLinks, ConnectionPairs DEF BaseInv, TypeOK
<1>2. /\ doc'[x[1]] = doc[x[1]] /\ conn'[x[1]] = conn[x[1]]
      /\ open'[x[1]] = open[x[1]] /\ syncedOn'[x[1]] = syncedOn[x[1]]
  BY <1>1 DEF ClientNext, Connect, Disconnect, Insert, Delete, Edit, OnJoinResponse,
         OnRequestSync, OnBroadcast, OnSyncResponse, Receives, SyncTimeout
<1>3. x # Current(c) /\ x # <<c, conn[c] + 1>>
  BY DEF Current
<1>4. ASSUME Connect(c) PROVE up'[x] = up[x]
  BY <1>1, <1>3, <1>4 DEF Connect, LinksOK
<1>5. ASSUME Disconnect(c) PROVE up'[x] = up[x]
  BY <1>1, <1>3, <1>5 DEF Disconnect, LinksOK
<1>6. ASSUME ~Connect(c), ~Disconnect(c) PROVE up'[x] = up[x]
  <2>1. UNCHANGED up \/ \E m \in Messages : Send(c, m)
    BY <1>6, ClientUp
  <2>2. QED
    BY <1>1, <1>3, <2>1, Sent
<1>7. down'[x] = down[x]
  BY <1>1, <1>3 DEF LinksOK, ClientNext, Connect, Disconnect, Insert, Delete, Edit,
         OnJoinResponse, OnRequestSync, OnBroadcast, OnSyncResponse, Receives,
         SyncTimeout, linkVars
<1>8. QED
  BY <1>2, <1>4, <1>5, <1>6, <1>7

=============================================================================
