-------------------- MODULE CollaborationDeliveryProofs --------------------
(***************************************************************************)
(* Proof about what Collaboration delivers: a change that was published    *)
(* while a connection was joined reaches its client.                       *)
(***************************************************************************)
EXTENDS CollaborationProofs

\* o is in the client's document, or on its way to it: sent, or in the topic
\* from another instance, which is the only case in which it is passed on.
Reaching(x, k, o) ==
    \/ o \in doc[x[1]][k]
    \/ \E m \in Within(down[x]) : m.type = "broadcast" /\ o \in m.update[k]
    \/ \E t \in topic : /\ t.to = ServedBy[x] /\ ServedBy[t.author] # t.to
                        /\ o \in t.update[k]

\* Nothing has happened on a connection that has not been made.
UnmadeUnused ==
    \A x \in Connections :
        x[2] > conn[x[1]] => up[x] = <<>> /\ x \notin joined /\ owed[x] = EmptyYDoc

\* A client has what it is sending itself.
OwnChanges ==
    \A x \in Connections : IsOpen(x) =>
        \A m \in Within(up[x]) :
            m.type = "changes" => \A k \in Kinds : m.update[k] \subseteq doc[x[1]][k]

\* It is owed nothing before it has joined, and what it is owed reaches it.
OwedReaching ==
    \A x \in Connections : IsOpen(x) =>
        /\ x \notin joined => owed[x] = EmptyYDoc
        /\ losses = 0 => \A k \in Kinds : \A o \in owed[x][k] : Reaching(x, k, o)

DeliveryInv == UnmadeUnused /\ OwnChanges /\ OwedReaching

LEMMA InitDelivery == Init => DeliveryInv
<1> SUFFICES ASSUME Init PROVE DeliveryInv
  OBVIOUS
<1>1. UnmadeUnused
  BY DEF Init, UnmadeUnused
<1>2. \A x \in Connections : ~IsOpen(x)
  BY ConnectionPairs DEF Init, IsOpen
<1>3. QED
  BY <1>1, <1>2 DEF DeliveryInv, OwnChanges, OwedReaching

\* What the topic has lost stays lost.
LEMMA LossesGrow ==
    ASSUME BaseInv, [Next]_vars, losses' = 0
    PROVE  losses = 0 /\ \A t \in topic : ~TopicLoses(t)
<1>1. losses \in Nat
  BY BoundsAssumption DEF BaseInv, TypeOK
<1>2. UNCHANGED losses \/ losses' = losses + 1
  BY DEF Next, ClientNext, Connect, Disconnect, Insert, Delete, Edit, OnJoinResponse,
         OnRequestSync, OnBroadcast, OnSyncResponse, Receives, SyncTimeout,
         InstanceNext, OnJoin, OnChanges, OnSyncMessage, Handles, HandleDisconnect,
         OnAnswer, OnChangesMessage, TopicLoses, ActorNext, ApplyDiff, AnswerSyncStart,
         CompleteSync, CallFails, SyncAwaitTimeout, Restart, Runs, faultVars, vars
<1>3. \A t \in topic : TopicLoses(t) => losses' = losses + 1
  BY DEF TopicLoses
<1>4. QED
  BY <1>1, <1>2, <1>3

-----------------------------------------------------------------------------
(* The client.                                                             *)

\* What a connected client does with what it is sent and what it types.
LEMMA ClientTakes ==
    ASSUME BaseInv, NEW c \in Clients, ClientNext(c), ~Connect(c), ~Disconnect(c),
           Current(c) \in Connections, open[c]
    PROVE  /\ \A k \in Kinds : doc[c][k] \subseteq doc'[c][k]
           /\ \A m \in Within(down[Current(c)]) :
                  \/ m \in Within(down'[Current(c)])
                  \/ m.type = "broadcast" =>
                         \A k \in Kinds : m.update[k] \subseteq doc'[c][k]
           /\ \A m \in Within(up'[Current(c)]) :
                  \/ m \in Within(up[Current(c)])
                  \/ m.type = "changes" =>
                         \A k \in Kinds : m.update[k] \subseteq doc'[c][k]
<1> DEFINE Goal ==
           /\ \A k \in Kinds : doc[c][k] \subseteq doc'[c][k]
           /\ \A m \in Within(down[Current(c)]) :
                  \/ m \in Within(down'[Current(c)])
                  \/ m.type = "broadcast" =>
                         \A k \in Kinds : m.update[k] \subseteq doc'[c][k]
           /\ \A m \in Within(up'[Current(c)]) :
                  \/ m \in Within(up[Current(c)])
                  \/ m.type = "changes" =>
                         \A k \in Kinds : m.update[k] \subseteq doc'[c][k]
<1>1. LinksOK /\ doc \in [Clients -> YDocs] /\ doc[c] \in YDocs
  BY BaseLinks DEF BaseInv, TypeOK
<1>2. ASSUME NEW type, Receives(c, type)
      PROVE  /\ Head(down[Current(c)]) \in Messages
             /\ Head(down[Current(c)]).type = type
             /\ \A m \in Within(down[Current(c)]) :
                    m \in Within(down'[Current(c)]) \/ m = Head(down[Current(c)])
  BY <1>1, <1>2, Received
<1>3. ASSUME NEW m \in Messages, Send(c, m), m.type # "changes"
      PROVE  \A n \in Within(up'[Current(c)]) :
                 n \in Within(up[Current(c)]) \/ n.type # "changes"
  <2>1. Within(up'[Current(c)]) \subseteq Within(up[Current(c)]) \cup {m}
    BY <1>1, <1>3, Sent
  <2>2. QED
    BY <1>3, <2>1
<1>4. ASSUME NEW d \in YDocs, Sync(c, d)
      PROVE  \A n \in Within(up'[Current(c)]) :
                 n \in Within(up[Current(c)]) \/ n.type # "changes"
  <2>1. SyncStart(d) \in Messages /\ SyncStart(d).type # "changes"
    BY MessageTypes DEF SyncStart
  <2>2. CASE syncing[c]
    BY <1>4, <2>2 DEF Sync
  <2>3. CASE ~syncing[c]
    BY <1>3, <1>4, <2>1, <2>3 DEF Sync
  <2>4. QED
    BY <2>2, <2>3
<1>5. ASSUME NEW u \in YDocs, Edit(c, u) PROVE Goal
  <2>1. /\ doc'[c] = ApplyUpdate(doc[c], u) /\ UNCHANGED down
        /\ Send(c, Changes(u))
    BY <1>1, <1>5 DEF Edit
  <2>2. Changes(u) \in Messages /\ Changes(u).update = u
    BY MessageTypes DEF Changes
  <2>3. \A n \in Within(up'[Current(c)]) : n \in Within(up[Current(c)]) \/ n = Changes(u)
    BY <1>1, <2>1, <2>2, Sent
  <2>4. \A k \in Kinds : doc'[c][k] = doc[c][k] \cup u[k]
    BY <1>1, <2>1, DocItems
  <2>5. QED
    BY <2>1, <2>2, <2>3, <2>4
<1>6. ASSUME NEW i \in Op, Insert(c, i) PROVE Goal
  BY <1>5, <1>6, EditUpdates DEF Insert
<1>7. ASSUME NEW i \in Deletable, Delete(c, i) PROVE Goal
  <2>1. i \in Op
    BY <1>1, <1>7 DEF Delete, Integrated, YDocs
  <2>2. QED
    BY <1>5, <1>7, <2>1, EditUpdates DEF Delete
<1>8. ASSUME OnJoinResponse(c) \/ OnRequestSync(c) PROVE Goal
  <2>1. \A m \in Within(down[Current(c)]) :
            m \in Within(down'[Current(c)]) \/ m.type # "broadcast"
    BY <1>2, <1>8 DEF OnJoinResponse, OnRequestSync
  <2>2. \A n \in Within(up'[Current(c)]) :
            n \in Within(up[Current(c)]) \/ n.type # "changes"
    BY <1>1, <1>4, <1>8 DEF OnJoinResponse, OnRequestSync
  <2>3. UNCHANGED doc
    BY <1>8 DEF OnJoinResponse, OnRequestSync
  <2>4. QED
    BY <2>1, <2>2, <2>3
<1>9. ASSUME OnBroadcast(c) PROVE Goal
  <2> DEFINE n == Head(down[Current(c)])
             d == ApplyUpdate(doc[c], n.update)
  <2>1. /\ n.update \in YDocs
        /\ \A m \in Within(down[Current(c)]) : m \in Within(down'[Current(c)]) \/ m = n
    BY <1>2, <1>9, MessageFields DEF OnBroadcast
  <2>2. d \in YDocs /\ \A k \in Kinds : d[k] = doc[c][k] \cup n.update[k]
    <3>1. d \in YDocs
      BY <1>1, <2>1, DocTypes
    <3>2. \A k \in Kinds : d[k] = doc[c][k] \cup n.update[k]
      BY <1>1, <2>1, DocItems
    <3>3. QED
      BY <3>1, <3>2
  <2>3. doc'[c] = d /\ (Sync(c, d) \/ UNCHANGED up)
    BY <1>1, <1>9 DEF OnBroadcast, Merged
  <2>4. \A m \in Within(up'[Current(c)]) :
            m \in Within(up[Current(c)]) \/ m.type # "changes"
    BY <1>4, <2>2, <2>3
  <2>5. QED
    BY <2>1, <2>2, <2>3, <2>4
<1>10. ASSUME OnSyncResponse(c) PROVE Goal
  <2> DEFINE n == Head(down[Current(c)])
             d == ApplyUpdate(doc[c], n.update)
             complete == SyncComplete(ReturnChanges(d, n.vector), d)
  <2>1. /\ n.update \in YDocs
        /\ \A m \in Within(down[Current(c)]) :
               m \in Within(down'[Current(c)]) \/ m.type # "broadcast"
    BY <1>2, <1>10, MessageFields DEF OnSyncResponse
  <2>2. d \in YDocs /\ \A k \in Kinds : d[k] = doc[c][k] \cup n.update[k]
    <3>1. d \in YDocs
      BY <1>1, <2>1, DocTypes
    <3>2. \A k \in Kinds : d[k] = doc[c][k] \cup n.update[k]
      BY <1>1, <2>1, DocItems
    <3>3. QED
      BY <3>1, <3>2
  <2>3. CASE ~syncing[c]
    BY <1>10, <2>1, <2>3 DEF OnSyncResponse
  <2>4. CASE syncing[c]
    <3>1. doc'[c] = d /\ Send(c, complete)
      BY <1>1, <1>10, <2>4 DEF OnSyncResponse, Merged
    <3>2. ReturnChanges(d, n.vector) \in YDocs
      BY <2>2 DEF ReturnChanges, StateAsUpdate, YDocs
    <3>3. complete \in Messages /\ complete.type # "changes"
      BY <2>2, <3>2, MessageTypes DEF SyncComplete
    <3>4. \A m \in Within(up'[Current(c)]) :
              m \in Within(up[Current(c)]) \/ m.type # "changes"
      BY <1>3, <3>1, <3>3
    <3>5. QED
      BY <2>1, <2>2, <3>1, <3>4
  <2>5. QED
    BY <2>3, <2>4
<1>11. ASSUME SyncTimeout(c) PROVE Goal
  BY <1>11 DEF SyncTimeout, linkVars
<1>12. QED
  BY <1>6, <1>7, <1>8, <1>9, <1>10, <1>11 DEF ClientNext

LEMMA ClientDelivery ==
    ASSUME BaseInv, DeliveryInv, NEW c \in Clients, ClientNext(c) PROVE DeliveryInv'
<1>1. /\ LinksOK /\ conn \in [Clients -> Nat] /\ open \in [Clients -> BOOLEAN]
  BY BaseLinks DEF BaseInv, TypeOK
<1>2. UNCHANGED <<joined, topic, owed, losses>>
  BY DEF ClientNext, Connect, Disconnect, Insert, Delete, Edit, OnJoinResponse,
         OnRequestSync, OnBroadcast, OnSyncResponse, Receives, SyncTimeout,
         serverVars, faultVars
<1>3. ASSUME ~Connect(c), ~Disconnect(c) PROVE UNCHANGED <<conn, open>>
  BY <1>3, ClientUp
<1>4. ASSUME NEW x \in Connections, x[1] = c, IsOpen(x), ~Connect(c), ~Disconnect(c)
      PROVE  x = Current(c)
  BY <1>4, ConnectionPairs DEF IsOpen, Current
<1>5. ASSUME NEW x \in Connections, x[2] > conn'[x[1]]
      PROVE  up'[x] = <<>> /\ x \notin joined' /\ owed'[x] = EmptyYDoc
  <2>1. x[2] \in Nat /\ x[1] \in Clients
    BY ConnectionPairs
  <2>2. x[2] > conn[x[1]]
    <3>1. CASE Connect(c)
      BY <1>1, <1>5, <2>1, <3>1 DEF Connect
    <3>2. CASE Disconnect(c)
      BY <1>5, <3>2 DEF Disconnect
    <3>3. QED
      BY <1>3, <1>5, <3>1, <3>2
  <2>3. up[x] = <<>> /\ x \notin joined /\ owed[x] = EmptyYDoc
    BY <2>2 DEF DeliveryInv, UnmadeUnused
  <2>4. up'[x] = up[x]
    <3>1. CASE x[1] # c
      BY <3>1, OthersUp
    <3>2. CASE x[1] = c
      <4>1. x # Current(c)
        BY <1>1, <2>2, <3>2 DEF Current
      <4>2. CASE Connect(c)
        <5>1. x # <<c, conn[c] + 1>>
          BY <1>1, <1>5, <3>2, <4>2 DEF Connect
        <5>2. QED
          BY <1>1, <4>2, <5>1 DEF Connect, LinksOK
      <4>3. CASE Disconnect(c)
        BY <1>1, <4>1, <4>3 DEF Disconnect, LinksOK
      <4>4. CASE ~Connect(c) /\ ~Disconnect(c)
        BY <1>1, <4>1, <4>4, ClientUp, Sent
      <4>5. QED
        BY <4>2, <4>3, <4>4
    <3>3. QED
      BY <3>1, <3>2
  <2>5. QED
    BY <1>2, <2>3, <2>4
<1>6. ASSUME NEW x \in Connections, IsOpen(x)'
      PROVE  /\ \A m \in Within(up'[x]) :
                    m.type = "changes" =>
                        \A k \in Kinds : m.update[k] \subseteq doc'[x[1]][k]
             /\ x \notin joined' => owed'[x] = EmptyYDoc
             /\ losses' = 0 =>
                    \A k \in Kinds : \A o \in owed'[x][k] : Reaching(x, k, o)'
  <2>1. CASE x[1] # c
    <3>1. /\ doc'[x[1]] = doc[x[1]] /\ up'[x] = up[x] /\ down'[x] = down[x]
          /\ IsOpen(x)
      BY <1>6, <2>1, OthersUp DEF IsOpen
    <3>2. QED
      BY <1>2, <3>1 DEF DeliveryInv, OwnChanges, OwedReaching, Reaching
  <2>2. CASE x[1] = c /\ Connect(c)
    <3>1. x = <<c, conn[c] + 1>>
      BY <1>1, <1>6, <2>2, ConnectionPairs DEF Connect, IsOpen
    <3>2. owed[x] = EmptyYDoc
      BY <1>1, <3>1 DEF DeliveryInv, UnmadeUnused
    <3>3. \A k \in Kinds : owed'[x][k] = {}
      BY <1>2, <3>2, DocItems
    <3>4. up'[x] = <<Joining>>
      BY <1>1, <2>2, <3>1 DEF Connect, LinksOK
    <3>5. \A m \in Within(up'[x]) : m.type # "changes"
      BY <3>4 DEF Within, Joining
    <3>6. QED
      BY <1>2, <3>2, <3>3, <3>5
  <2>3. CASE x[1] = c /\ Disconnect(c)
    BY <1>1, <1>6, <2>3 DEF Disconnect, IsOpen
  <2>4. CASE x[1] = c /\ ~Connect(c) /\ ~Disconnect(c)
    <3>1. IsOpen(x)
      BY <1>3, <1>6, <2>4 DEF IsOpen
    <3>2. x = Current(c) /\ open[c]
      BY <1>4, <2>4, <3>1 DEF IsOpen
    <3>3. /\ \A k \in Kinds : doc[c][k] \subseteq doc'[c][k]
          /\ \A m \in Within(down[x]) :
                 \/ m \in Within(down'[x])
                 \/ m.type = "broadcast" =>
                        \A k \in Kinds : m.update[k] \subseteq doc'[c][k]
          /\ \A m \in Within(up'[x]) :
                 \/ m \in Within(up[x])
                 \/ m.type = "changes" =>
                        \A k \in Kinds : m.update[k] \subseteq doc'[c][k]
      BY <2>4, <3>2, ClientTakes
    <3>4. \A k \in Kinds : \A o : Reaching(x, k, o) => Reaching(x, k, o)'
      BY <1>2, <2>4, <3>3 DEF Reaching
    <3>5. QED
      BY <1>2, <2>4, <3>1, <3>3, <3>4 DEF DeliveryInv, OwnChanges, OwedReaching
  <2>5. QED
    BY <2>1, <2>2, <2>3, <2>4
<1>7. QED
  BY <1>5, <1>6 DEF DeliveryInv, UnmadeUnused, OwnChanges, OwedReaching

-----------------------------------------------------------------------------
(* The instances and the topic.                                            *)

\* A step of an instance or of the topic that publishes nothing.
LEMMA NothingPublished ==
    ASSUME BaseInv, DeliveryInv, UNCHANGED <<doc, conn, open, owed>>,
           \A x \in Connections : /\ Within(up'[x]) \subseteq Within(up[x])
                                  /\ up[x] = <<>> => up'[x] = <<>>,
           \A x \in joined : IsOpen(x) => x \in joined',
           \A x \in joined' : x \in joined \/ up[x] # <<>>,
           \A x \in joined : \A k \in Kinds : \A o :
               IsOpen(x) /\ losses' = 0 /\ Reaching(x, k, o) => Reaching(x, k, o)',
           losses' = 0 => losses = 0
    PROVE  DeliveryInv'
<1>1. UnmadeUnused'
  BY DEF DeliveryInv, UnmadeUnused
<1>2. OwnChanges'
  BY DEF DeliveryInv, OwnChanges, IsOpen
<1>3. OwedReaching'
  <2> SUFFICES ASSUME NEW x \in Connections, IsOpen(x)
               PROVE  /\ x \notin joined' => owed[x] = EmptyYDoc
                      /\ losses' = 0 =>
                             \A k \in Kinds : \A o \in owed[x][k] : Reaching(x, k, o)'
    BY DEF OwedReaching, IsOpen
  <2>1. CASE x \in joined
    BY <2>1 DEF DeliveryInv, OwedReaching
  <2>2. CASE x \notin joined
    BY <2>2, DocItems DEF DeliveryInv, OwedReaching
  <2>3. QED
    BY <2>1, <2>2
<1>4. QED
  BY <1>1, <1>2, <1>3 DEF DeliveryInv

\* What an instance takes off a connection.
LEMMA HandledUp ==
    ASSUME LinksOK, NEW x \in Connections, NEW type, Handles(x, type)
    PROVE  \A y \in Connections : /\ Within(up'[y]) \subseteq Within(up[y])
                                  /\ up[y] = <<>> => up'[y] = <<>>
BY Handled DEF Handles

\* What has been published or sent stays.
LEMMA ReachingStays ==
    ASSUME UNCHANGED doc, topic \subseteq topic', NEW x \in Connections,
           Within(down[x]) \subseteq Within(down'[x]),
           NEW k \in Kinds, NEW o, Reaching(x, k, o)
    PROVE  Reaching(x, k, o)'
BY DEF Reaching

LEMMA PublishDelivery ==
    ASSUME BaseInv, DeliveryInv, NEW y \in Connections, OnChanges(y) PROVE DeliveryInv'
<1> DEFINE u == Head(up[y]).update
           b == [type |-> "broadcast", update |-> u]
<1>1. LinksOK /\ owed \in [Connections -> YDocs]
  BY BaseLinks DEF BaseInv, TypeOK
<1>2. /\ Handles(y, "changes") /\ UNCHANGED joined
      /\ UNCHANGED <<doc, conn, open, losses>>
  BY DEF OnChanges, Handles, clientVars, faultVars
<1>3. /\ u \in YDocs /\ b \in Messages
      /\ Head(up[y]) \in Within(up[y]) /\ Head(up[y]).type = "changes"
  BY <1>1, <1>2, Handled, MessageFields, MessageTypes
<1>4. \A x \in Connections : /\ Within(up'[x]) \subseteq Within(up[x])
                             /\ up[x] = <<>> => up'[x] = <<>>
  BY <1>1, <1>2, HandledUp
<1>5. CASE y \notin joined
  <2>1. UNCHANGED <<down, topic, owed>>
    BY <1>5 DEF OnChanges
  <2>2. \A x \in joined, k \in Kinds : \A o : Reaching(x, k, o) => Reaching(x, k, o)'
    BY <1>2, <2>1 DEF Reaching
  <2>3. QED
    BY <1>2, <1>4, <2>1, <2>2, NothingPublished
<1>6. CASE y \in joined
  <2>1. /\ SendDown(Members(ServedBy[y]) \ {y}, b)
        /\ topic' = topic \cup [author : {y}, update : {u}, to : Instances]
        /\ owed' = [x \in Connections |->
                       IF x \in joined THEN ApplyUpdate(owed[x], u) ELSE owed[x]]
    BY <1>6 DEF OnChanges, BroadcastDiff
  <2>2. \A x \in Connections :
            /\ Within(down[x]) \subseteq Within(down'[x])
            /\ x \in Members(ServedBy[y]) \ {y} /\ IsOpen(x) => b \in Within(down'[x])
    <3> DEFINE others == Members(ServedBy[y]) \ {y}
    <3>1. SendDown(others, b)
      BY <2>1
    <3> HIDE DEF b, others
    <3>2. \A x \in Connections :
              /\ Within(down[x]) \subseteq Within(down'[x])
              /\ x \in others /\ IsOpen(x) => b \in Within(down'[x])
      BY <1>1, <1>3, <3>1, SentDown
    <3>3. QED
      BY <3>2 DEF others
  <2>3. UnmadeUnused'
    BY <1>2, <1>4, <2>1 DEF DeliveryInv, UnmadeUnused
  <2>4. OwnChanges'
    BY <1>2, <1>4 DEF DeliveryInv, OwnChanges, IsOpen
  <2>5. ASSUME NEW x \in Connections, IsOpen(x), x \in joined,
               NEW k \in Kinds, NEW o \in u[k]
        PROVE  Reaching(x, k, o)'
    <3>1. CASE x = y
      BY <1>2, <1>3, <2>5, <3>1 DEF DeliveryInv, OwnChanges, Reaching
    <3>2. CASE x # y /\ ServedBy[x] = ServedBy[y]
      BY <2>2, <2>5, <3>2 DEF Members, Reaching
    <3>3. CASE ServedBy[x] # ServedBy[y]
      <4> DEFINE t == [author |-> y, update |-> u, to |-> ServedBy[x]]
      <4>1. t \in topic'
        BY <2>1, ServedByAssumption
      <4>2. t.to = ServedBy[x] /\ ServedBy[t.author] # t.to /\ o \in t.update[k]
        BY <2>5, <3>3
      <4>3. QED
        BY <4>1, <4>2 DEF Reaching
    <3>4. QED
      BY <3>1, <3>2, <3>3
  <2>6. ASSUME NEW x \in Connections, IsOpen(x)'
        PROVE  /\ x \notin joined' => owed'[x] = EmptyYDoc
               /\ losses' = 0 =>
                      \A k \in Kinds : \A o \in owed'[x][k] : Reaching(x, k, o)'
    <3>1. IsOpen(x)
      BY <1>2, <2>6 DEF IsOpen
    <3>2. CASE x \notin joined
      BY <1>2, <2>1, <3>1, <3>2, DocItems DEF DeliveryInv, OwedReaching
    <3>3. CASE x \in joined
      <4>1. \A k \in Kinds : owed'[x][k] = owed[x][k] \cup u[k]
        BY <1>1, <1>3, <2>1, <3>3, DocItems
      <4>2. ASSUME losses' = 0, NEW k \in Kinds, NEW o \in owed[x][k]
            PROVE  Reaching(x, k, o)'
        <5>1. Reaching(x, k, o)
          BY <1>2, <3>1, <4>2 DEF DeliveryInv, OwedReaching
        <5>2. QED
          BY <1>2, <2>1, <2>2, <5>1, ReachingStays
      <4>3. QED
        BY <1>2, <2>5, <3>1, <3>3, <4>1, <4>2
    <3>4. QED
      BY <3>2, <3>3
  <2>7. QED
    BY <2>3, <2>4, <2>6 DEF DeliveryInv, OwedReaching
<1>7. QED
  BY <1>5, <1>6

\* The topic delivers to an instance, which passes on what is not its own.
LEMMA TopicDelivery ==
    ASSUME BaseInv, DeliveryInv, NEW t \in topic, OnChangesMessage(t) PROVE DeliveryInv'
<1> DEFINE b == [type |-> "broadcast", update |-> t.update]
           others == Members(t.to) \ {t.author}
<1>1. LinksOK /\ t.update \in YDocs /\ joined \subseteq Connections
  BY BaseLinks DEF BaseInv, TypeOK
<1>2. /\ topic' = topic \ {t}
      /\ UNCHANGED <<doc, conn, open, up, joined, owed, losses>>
  BY DEF OnChangesMessage, clientVars, faultVars
<1>3. b \in Messages
  BY <1>1, MessageTypes
<1>4. \A x \in Connections : Within(down[x]) \subseteq Within(down'[x])
  <2>1. CASE AlreadySent(t)
    BY <2>1 DEF OnChangesMessage
  <2>2. CASE ~AlreadySent(t)
    <3>1. SendDown(others, b)
      BY <2>2 DEF OnChangesMessage, BroadcastDiff
    <3> HIDE DEF b, others
    <3>2. QED
      BY <1>1, <1>3, <3>1, SentDown
  <2>3. QED
    BY <2>1, <2>2
<1>5. ASSUME NEW x \in joined, IsOpen(x), t.to = ServedBy[x], ServedBy[t.author] # t.to
      PROVE  b \in Within(down'[x])
  <2>1. ~AlreadySent(t)
    BY <1>5 DEF AlreadySent, Members
  <2>2. SendDown(others, b)
    BY <2>1 DEF OnChangesMessage, BroadcastDiff
  <2>3. x \in others
    BY <1>5 DEF Members
  <2> HIDE DEF b, others
  <2>4. QED
    BY <1>1, <1>3, <1>5, <2>2, <2>3, SentDown
<1>6. ASSUME NEW x \in joined, IsOpen(x), NEW k \in Kinds, NEW o, Reaching(x, k, o)
      PROVE  Reaching(x, k, o)'
  <2>1. CASE /\ t.to = ServedBy[x] /\ ServedBy[t.author] # t.to
             /\ o \in t.update[k]
    <3>1. b \in Within(down'[x])
      BY <1>5, <1>6, <2>1
    <3>2. QED
      BY <2>1, <3>1 DEF Reaching
  <2>2. CASE ~(/\ t.to = ServedBy[x] /\ ServedBy[t.author] # t.to
               /\ o \in t.update[k])
    BY <1>1, <1>2, <1>4, <1>6, <2>2 DEF Reaching
  <2>3. QED
    BY <2>1, <2>2
<1>7. QED
  BY <1>2, <1>6, NothingPublished

LEMMA InstanceDelivery ==
    ASSUME BaseInv, DeliveryInv, InstanceNext PROVE DeliveryInv'
<1>1. LinksOK /\ joined \subseteq Connections
             /\ calls \subseteq [conn : Connections, message : Messages]
  BY BaseLinks DEF BaseInv, TypeOK
<1>2. [Next]_vars
  BY DEF Next
<1>3. ASSUME NEW x \in Connections, OnJoin(x) PROVE DeliveryInv'
  <2>1. /\ UNCHANGED <<doc, conn, open, owed, topic, losses>>
        /\ joined' = joined \cup {x} /\ up[x] # <<>>
    BY <1>3 DEF OnJoin, Handles, clientVars, faultVars
  <2>2. \A y \in Connections : /\ Within(up'[y]) \subseteq Within(up[y])
                               /\ up[y] = <<>> => up'[y] = <<>>
    BY <1>1, <1>3, HandledUp DEF OnJoin
  <2>3. \A y \in Connections : Within(down[y]) \subseteq Within(down'[y])
    BY <1>1, <1>3, SentDown, MessageTypes DEF OnJoin
  <2>4. \A y \in joined : \A k \in Kinds : \A o : Reaching(y, k, o) => Reaching(y, k, o)'
    BY <1>1, <2>1, <2>3, ReachingStays
  <2>5. QED
    BY <2>1, <2>2, <2>4, NothingPublished
<1>4. ASSUME NEW x \in Connections, OnSyncMessage(x) PROVE DeliveryInv'
  <2>1. UNCHANGED <<doc, conn, open, owed, topic, losses, down, joined>>
    BY <1>4 DEF OnSyncMessage, Handles, clientVars, faultVars, serverVars
  <2>2. \A y \in Connections : /\ Within(up'[y]) \subseteq Within(up[y])
                               /\ up[y] = <<>> => up'[y] = <<>>
    BY <1>1, <1>4, HandledUp DEF OnSyncMessage
  <2>3. \A y \in joined : \A k \in Kinds : \A o : Reaching(y, k, o) => Reaching(y, k, o)'
    BY <2>1 DEF Reaching
  <2>4. QED
    BY <2>1, <2>2, <2>3, NothingPublished
<1>5. ASSUME NEW x \in Connections, HandleDisconnect(x) PROVE DeliveryInv'
  <2>1. /\ UNCHANGED <<doc, conn, open, owed, topic, losses, up, down>>
        /\ joined' = joined \ {x} /\ ~IsOpen(x)
    BY <1>5 DEF HandleDisconnect, clientVars, linkVars, faultVars
  <2>2. \A y \in joined : \A k \in Kinds : \A o : Reaching(y, k, o) => Reaching(y, k, o)'
    BY <2>1 DEF Reaching
  <2>3. QED
    BY <2>1, <2>2, NothingPublished
<1>6. ASSUME NEW call \in calls, OnAnswer(call) PROVE DeliveryInv'
  <2>1. UNCHANGED <<doc, conn, open, owed, topic, losses, up, joined>>
    BY <1>6 DEF OnAnswer, clientVars, faultVars, serverVars
  <2>2. \A y \in Connections : Within(down[y]) \subseteq Within(down'[y])
    BY <1>1, <1>6, SentDown DEF OnAnswer
  <2>3. \A y \in joined : \A k \in Kinds : \A o : Reaching(y, k, o) => Reaching(y, k, o)'
    BY <1>1, <2>1, <2>2, ReachingStays
  <2>4. QED
    BY <2>1, <2>3, NothingPublished
<1>7. ASSUME NEW t \in topic, TopicLoses(t) PROVE DeliveryInv'
  <2>1. UNCHANGED <<doc, conn, open, owed, up, down, joined>>
    BY <1>7 DEF TopicLoses, clientVars, linkVars
  <2>2. losses' # 0
    BY <1>2, <1>7, LossesGrow
  <2>3. QED
    BY <2>1, <2>2, NothingPublished
<1>8. QED
  BY <1>3, <1>4, <1>5, <1>6, <1>7, PublishDelivery, TopicDelivery DEF InstanceNext

LEMMA DeliveryStep == ASSUME BaseInv, DeliveryInv, [Next]_vars PROVE DeliveryInv'
<1>1. ASSUME UNCHANGED <<clientVars, linkVars, serverVars, losses>> PROVE DeliveryInv'
  <2>1. UNCHANGED <<doc, conn, open, owed, topic, losses, up, down, joined>>
    BY <1>1 DEF clientVars, linkVars, serverVars
  <2>2. \A x \in joined : \A k \in Kinds : \A o : Reaching(x, k, o) => Reaching(x, k, o)'
    BY <2>1 DEF Reaching
  <2>3. QED
    BY <2>1, <2>2, NothingPublished
<1>2. CASE ActorNext
  BY <1>1, <1>2
     DEF ActorNext, ApplyDiff, AnswerSyncStart, CompleteSync, CallFails, SyncAwaitTimeout,
         Restart, Runs, faultVars
<1>3. CASE UNCHANGED vars
  BY <1>1, <1>3 DEF vars, faultVars
<1>4. QED
  BY <1>2, <1>3, ClientDelivery, InstanceDelivery DEF Next

(* Whatever instance a change is published on, it reaches the client of every
   connection that had joined by then, whatever order the topic delivers in,
   for every number of clients, instances and reconnections, as long as the
   topic loses nothing. *)
THEOREM NothingLostHolds == Spec => []NothingLost
<1>1. BaseInv /\ DeliveryInv => NothingLost
  <2> SUFFICES ASSUME BaseInv, DeliveryInv, NEW c \in Clients, open[c], losses = 0,
                      NEW k \in Kinds, NEW o \in owed[Current(c)][k], o \notin doc[c][k]
               PROVE  \E u \in Coming(Current(c)) : o \in u[k]
    BY DEF NothingLost, Kinds
  <2> DEFINE x == Current(c)
  <2>1. x \in Connections /\ x[1] = c /\ IsOpen(x)
    BY OpenConnection DEF IsOpen, Current
  <2>2. Reaching(x, k, o)
    BY <2>1 DEF DeliveryInv, OwedReaching
  <2>3. CASE \E m \in Within(down[x]) : m.type = "broadcast" /\ o \in m.update[k]
    BY <2>3 DEF Coming, Within
  <2>4. CASE \E t \in topic : t.to = ServedBy[x] /\ o \in t.update[k]
    BY <2>4 DEF Coming
  <2>5. QED
    BY <2>1, <2>2, <2>3, <2>4 DEF Reaching
<1>2. Init => BaseInv /\ DeliveryInv
  BY InitBase, InitDelivery
<1>3. BaseInv /\ DeliveryInv /\ [Next]_vars => (BaseInv /\ DeliveryInv)'
  BY BaseStep, DeliveryStep
<1>4. QED
  BY <1>1, <1>2, <1>3, PTL DEF Spec

=============================================================================
