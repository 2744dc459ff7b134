---------------------- MODULE CollaborationSyncProofs ----------------------
(***************************************************************************)
(* Proofs about the syncs of Collaboration: what the actor has once it has *)
(* run a client's syncComplete.                                            *)
(***************************************************************************)
EXTENDS CollaborationProofs

-----------------------------------------------------------------------------
(* The two-way sync.                                                       *)

\* m is on a connection, or in a call to the actor or its answer.
UnderWay(m) ==
    \/ \E x \in Connections : m \in Within(up[x]) \/ m \in Within(down[x])
    \/ \E call \in calls : call.message = m

\* The actor has what it said it had, and what the client left out of its
\* syncComplete because of that.
Kept(m) ==
    /\ m.type = "syncResponse" => m.vector \subseteq ydoc.ops
    /\ m.type = "syncComplete" => Covers(ApplyUpdate(ydoc, m.update), m.whole)

SyncInv == restarts = 0 => \A m \in Messages : UnderWay(m) => Kept(m)

LEMMA KeptLater ==
    ASSUME ydoc \in YDocs, ydoc' \in YDocs, Covers(ydoc', ydoc),
           NEW m \in Messages, Kept(m)
    PROVE  Kept(m)'
<1>1. m.type = "syncComplete" => m.update \in YDocs /\ m.whole \in YDocs
  BY MessageFields
<1>2. QED
  BY <1>1 DEF Kept, Covers, ApplyUpdate, YDocs

\* What a step may put under way.
New(m) ==
    \/ m.type \in {"join", "joinResponse", "syncStart", "requestSync"}
    \/ /\ m.type = "changes"
       /\ \E c \in Clients : Covers(doc'[c], m.update)
    \/ \E vector : m = SyncResponse(vector)
    \/ /\ m.type = "syncComplete"
       /\ \E n \in Messages, c \in Clients :
              /\ UnderWay(n) /\ n.type = "syncResponse" /\ doc'[c] \in YDocs
              /\ m = SyncComplete(ReturnChanges(doc'[c], n.vector), doc'[c])
    \/ /\ m.type = "broadcast"
       /\ \/ \E t \in topic : t.update = m.update
          \/ \E call \in calls' : /\ call.message.type = "changes"
                                   /\ call.message.update = m.update

\* What a client and its connection put under way.
LEMMA ClientSends ==
    ASSUME BaseInv, NEW c \in Clients, ClientNext(c)
    PROVE  \A m \in Messages : UnderWay(m)' => UnderWay(m) \/ New(m)
<1>1. LinksOK /\ doc \in [Clients -> YDocs] /\ doc[c] \in YDocs
  BY BaseLinks DEF BaseInv, TypeOK
<1>2. UNCHANGED calls
  BY DEF ClientNext, Connect, Disconnect, Insert, Delete, Edit, OnJoinResponse,
         OnRequestSync, OnBroadcast, OnSyncResponse, Receives, SyncTimeout
<1>3. ASSUME NEW n \in Messages, New(n),
             \A x \in Connections : Within(up'[x]) \subseteq Within(up[x]) \cup {n},
             \A x \in Connections : Within(down'[x]) \subseteq Within(down[x])
      PROVE  \A m \in Messages : UnderWay(m)' => UnderWay(m) \/ New(m)
  BY <1>2, <1>3 DEF UnderWay
<1>4. ASSUME \A x \in Connections : Within(up'[x]) \subseteq Within(up[x]),
             \A x \in Connections : Within(down'[x]) \subseteq Within(down[x])
      PROVE  \A m \in Messages : UnderWay(m)' => UnderWay(m) \/ New(m)
  BY <1>2, <1>4 DEF UnderWay
<1>5. Joining \in Messages /\ New(Joining)
  BY MessageTypes DEF Joining, New
<1>6. ASSUME NEW d \in YDocs, Sync(c, d),
             \A x \in Connections : Within(down'[x]) \subseteq Within(down[x])
      PROVE  \A m \in Messages : UnderWay(m)' => UnderWay(m) \/ New(m)
  <2>1. SyncStart(d) \in Messages /\ New(SyncStart(d))
    BY MessageTypes DEF SyncStart, New
  <2>2. \A x \in Connections : Within(up'[x]) \subseteq Within(up[x]) \cup {SyncStart(d)}
    <3>1. CASE syncing[c]
      BY <1>6, <3>1 DEF Sync
    <3>2. CASE ~syncing[c]
      BY <1>1, <1>6, <2>1, <3>2, Sent DEF Sync
    <3>3. QED
      BY <3>1, <3>2
  <2>3. QED
    BY <1>3, <1>6, <2>1, <2>2
<1>7. CASE Connect(c)
  <2>1. up' = [up EXCEPT ![<<c, conn[c] + 1>>] = <<Joining>>] /\ UNCHANGED down
    BY <1>7 DEF Connect
  <2>2. Within(<<Joining>>) = {Joining}
    BY DEF Within
  <2>3. \A x \in Connections : Within(up'[x]) \subseteq Within(up[x]) \cup {Joining}
    BY <1>1, <2>1, <2>2 DEF LinksOK
  <2>4. QED
    BY <1>3, <1>5, <2>1, <2>3
<1>8. CASE Disconnect(c)
  <2>1. Current(c) \in Connections
    BY <1>8, OpenConnection DEF Disconnect
  <2>2. PICK n \in 0 .. Len(up[Current(c)]) :
            up' = [up EXCEPT ![Current(c)] = SubSeq(@, 1, n)]
    BY <1>8 DEF Disconnect
  <2>3. Within(SubSeq(up[Current(c)], 1, n)) \subseteq Within(up[Current(c)])
    BY <1>1, <2>1, WithinPrefix DEF LinksOK
  <2>4. \A x \in Connections : Within(up'[x]) \subseteq Within(up[x])
    BY <1>1, <2>2, <2>3 DEF LinksOK
  <2>5. down' = [down EXCEPT ![Current(c)] = <<>>]
    BY <1>8 DEF Disconnect
  <2>6. \A x \in Connections : Within(down'[x]) \subseteq Within(down[x])
    BY <1>1, <2>5 DEF LinksOK, Within
  <2>7. QED
    BY <1>4, <2>4, <2>6
<1>9. ASSUME NEW u \in YDocs, Edit(c, u)
      PROVE  \A m \in Messages : UnderWay(m)' => UnderWay(m) \/ New(m)
  <2>1. Changes(u) \in Messages /\ New(Changes(u))
    <3>1. doc'[c] = ApplyUpdate(doc[c], u)
      BY <1>1, <1>9 DEF Edit
    <3>2. Covers(doc'[c], u)
      BY <3>1 DEF Covers, ApplyUpdate
    <3>3. QED
      BY <3>2, MessageTypes DEF Changes, New
  <2>2. \A x \in Connections : Within(up'[x]) \subseteq Within(up[x]) \cup {Changes(u)}
    BY <1>1, <1>9, <2>1, Sent DEF Edit
  <2>3. QED
    BY <1>3, <1>9, <2>1, <2>2 DEF Edit
<1>10. ASSUME NEW o \in Op, Insert(c, o)
       PROVE  \A m \in Messages : UnderWay(m)' => UnderWay(m) \/ New(m)
  BY <1>9, <1>10, EditUpdates DEF Insert
<1>11. ASSUME NEW o \in Deletable, Delete(c, o)
       PROVE  \A m \in Messages : UnderWay(m)' => UnderWay(m) \/ New(m)
  <2>1. o \in Op
    BY <1>1, <1>11 DEF Delete, Integrated, YDocs
  <2>2. QED
    BY <1>9, <1>11, <2>1, EditUpdates DEF Delete
<1>12. CASE OnJoinResponse(c) \/ OnRequestSync(c)
  <2>1. Sync(c, doc[c]) /\ (Receives(c, "joinResponse") \/ Receives(c, "requestSync"))
    BY <1>12 DEF OnJoinResponse, OnRequestSync
  <2>2. Current(c) \in Connections
    BY <2>1, OpenConnection DEF Receives
  <2>3. \A x \in Connections : Within(down'[x]) \subseteq Within(down[x])
    BY <1>1, <2>1, <2>2, Received
  <2>4. QED
    BY <1>1, <1>6, <2>1, <2>3
<1>13. CASE OnBroadcast(c)
  <2> DEFINE n == Head(down[Current(c)])
             d == ApplyUpdate(doc[c], n.update)
  <2>1. Receives(c, "broadcast")
    BY <1>13 DEF OnBroadcast
  <2>2. Current(c) \in Connections
    BY <2>1, OpenConnection DEF Receives
  <2>3. /\ \A x \in Connections : Within(down'[x]) \subseteq Within(down[x])
        /\ n \in Messages /\ n.type = "broadcast"
    BY <1>1, <2>1, <2>2, Received
  <2>4. d \in YDocs
    BY <1>1, <2>3, MessageFields, DocTypes
  <2>5. Sync(c, d) \/ UNCHANGED up
    BY <1>13 DEF OnBroadcast, Merged
  <2>6. QED
    BY <1>4, <1>6, <2>3, <2>4, <2>5
<1>14. CASE OnSyncResponse(c)
  <2> DEFINE n == Head(down[Current(c)])
             d == ApplyUpdate(doc[c], n.update)
             complete == SyncComplete(ReturnChanges(d, n.vector), d)
  <2>1. Receives(c, "syncResponse")
    BY <1>14 DEF OnSyncResponse
  <2>2. Current(c) \in Connections
    BY <2>1, OpenConnection DEF Receives
  <2>3. /\ \A x \in Connections : Within(down'[x]) \subseteq Within(down[x])
        /\ n \in Messages /\ n.type = "syncResponse"
        /\ n \in Within(down[Current(c)])
    BY <1>1, <2>1, <2>2, Received
  <2>4. CASE ~syncing[c]
    <3>1. UNCHANGED up
      BY <1>14, <2>4 DEF OnSyncResponse
    <3>2. QED
      BY <1>4, <2>3, <3>1
  <2>5. CASE syncing[c]
    <3>1. n.update \in YDocs /\ n.vector \in SUBSET Op
      BY <2>3, MessageFields
    <3>2. d \in YDocs /\ ReturnChanges(d, n.vector) \in YDocs
      BY <1>1, <3>1, DocTypes DEF ReturnChanges
    <3>3. complete \in Messages
      BY <3>2, MessageTypes
    <3>4. UnderWay(n)
      BY <2>2, <2>3 DEF UnderWay
    <3>5. complete.type = "syncComplete"
      BY DEF SyncComplete
    <3>6. Send(c, complete) /\ doc'[c] = d
      BY <1>1, <1>14, <2>5 DEF OnSyncResponse, Merged
    <3>7. New(complete)
      BY <2>3, <3>2, <3>4, <3>5, <3>6 DEF New
    <3>8. \A x \in Connections : Within(up'[x]) \subseteq Within(up[x]) \cup {complete}
      BY <1>1, <3>3, <3>6, Sent
    <3>9. QED
      BY <1>3, <2>3, <3>3, <3>7, <3>8
  <2>6. QED
    BY <2>4, <2>5
<1>15. CASE SyncTimeout(c)
  BY <1>4, <1>15 DEF SyncTimeout, linkVars
<1>16. QED
  BY <1>7, <1>8, <1>10, <1>11, <1>12, <1>13, <1>14, <1>15 DEF ClientNext

\* What the instances put under way.
LEMMA InstanceSends ==
    ASSUME BaseInv, InstanceNext
    PROVE  \A m \in Messages : UnderWay(m)' => UnderWay(m) \/ New(m)
<1>1. LinksOK /\ topic \subseteq [author : Connections, update : YDocs, to : Instances]
             /\ calls \subseteq [conn : Connections, message : Messages]
  BY BaseLinks DEF BaseInv, TypeOK
<1>2. ASSUME NEW u \in YDocs,
             \/ \E t \in topic : t.update = u
             \/ \E call \in calls' : /\ call.message.type = "changes"
                                      /\ call.message.update = u
      PROVE  /\ [type |-> "broadcast", update |-> u] \in Messages
             /\ New([type |-> "broadcast", update |-> u])
  BY <1>2, MessageTypes DEF New
<1>3. ASSUME NEW n \in Messages, New(n) \/ UnderWay(n),
             \A x \in Connections : Within(up'[x]) \subseteq Within(up[x]),
             \A x \in Connections : Within(down'[x]) \subseteq Within(down[x]) \cup {n},
             \A call \in calls' : call \in calls \/ UnderWay(call.message)
      PROVE  \A m \in Messages : UnderWay(m)' => UnderWay(m) \/ New(m)
  BY <1>3 DEF UnderWay
<1>4. ASSUME \A x \in Connections : Within(up'[x]) \subseteq Within(up[x]),
             \A x \in Connections : Within(down'[x]) \subseteq Within(down[x]),
             \A call \in calls' : call \in calls \/ UnderWay(call.message)
      PROVE  \A m \in Messages : UnderWay(m)' => UnderWay(m) \/ New(m)
  BY <1>4 DEF UnderWay
<1>5. ASSUME NEW x \in Connections, NEW type, Handles(x, type)
      PROVE  /\ \A y \in Connections : Within(up'[y]) \subseteq Within(up[y])
             /\ Head(up[x]) \in Messages /\ Head(up[x]).type = type
             /\ UnderWay(Head(up[x]))
             /\ CallsActor(x, Head(up[x]))
                    => \A call \in calls' : call \in calls \/ UnderWay(call.message)
  <2>1. /\ \A y \in Connections : Within(up'[y]) \subseteq Within(up[y])
        /\ Head(up[x]) \in Messages /\ Head(up[x]).type = type
        /\ Head(up[x]) \in Within(up[x])
    BY <1>1, <1>5, Handled
  <2>2. UnderWay(Head(up[x]))
    BY <2>1 DEF UnderWay
  <2>3. QED
    BY <2>1, <2>2 DEF CallsActor
<1>6. ASSUME NEW x \in Connections, OnJoin(x)
      PROVE  \A m \in Messages : UnderWay(m)' => UnderWay(m) \/ New(m)
  <2> DEFINE n == [type |-> "joinResponse"]
  <2>1. n \in Messages /\ New(n)
    BY MessageTypes DEF New
  <2>2. \A y \in Connections : Within(down'[y]) \subseteq Within(down[y]) \cup {n}
    BY <1>1, <1>6, <2>1, SentDown DEF OnJoin
  <2>3. QED
    BY <1>3, <1>5, <1>6, <2>1, <2>2 DEF OnJoin
<1>7. ASSUME NEW x \in Connections, OnChanges(x)
      PROVE  \A m \in Messages : UnderWay(m)' => UnderWay(m) \/ New(m)
  <2> DEFINE n == [type |-> "broadcast", update |-> Head(up[x]).update]
  <2>1. Handles(x, "changes")
    BY <1>7 DEF OnChanges
  <2>2. Head(up[x]).update \in YDocs /\ Head(up[x]).type = "changes"
    BY <1>5, <2>1, MessageFields
  <2>3. CASE x \in joined
    <3>1. CallsActor(x, Head(up[x])) /\ BroadcastDiff(ServedBy[x], x, Head(up[x]).update)
      BY <1>7, <2>3 DEF OnChanges
    <3>2. [conn |-> x, message |-> Head(up[x])] \in calls'
      BY <3>1 DEF CallsActor
    <3>3. n \in Messages /\ New(n)
      BY <1>2, <2>2, <3>2
    <3>4. \A y \in Connections : Within(down'[y]) \subseteq Within(down[y]) \cup {n}
      BY <1>1, <3>1, <3>3, SentDown DEF BroadcastDiff
    <3>5. QED
      BY <1>3, <1>5, <2>1, <3>1, <3>3, <3>4
  <2>4. CASE x \notin joined
    <3>1. UNCHANGED <<down, calls>>
      BY <1>7, <2>4 DEF OnChanges
    <3>2. QED
      BY <1>4, <1>5, <2>1, <3>1
  <2>5. QED
    BY <2>3, <2>4
<1>8. ASSUME NEW x \in Connections, OnSyncMessage(x)
      PROVE  \A m \in Messages : UnderWay(m)' => UnderWay(m) \/ New(m)
  BY <1>4, <1>5, <1>8 DEF OnSyncMessage
<1>9. ASSUME NEW x \in Connections, HandleDisconnect(x)
      PROVE  \A m \in Messages : UnderWay(m)' => UnderWay(m) \/ New(m)
  BY <1>4, <1>9 DEF HandleDisconnect, linkVars
<1>10. ASSUME NEW call \in calls, OnAnswer(call)
       PROVE  \A m \in Messages : UnderWay(m)' => UnderWay(m) \/ New(m)
  <2>1. call.message \in Messages /\ UnderWay(call.message)
    BY <1>1 DEF UnderWay
  <2>2. \A x \in Connections : Within(down'[x]) \subseteq Within(down[x]) \cup {call.message}
    BY <1>1, <1>10, <2>1, SentDown DEF OnAnswer
  <2>3. QED
    BY <1>3, <1>10, <2>1, <2>2 DEF OnAnswer
<1>11. ASSUME NEW m \in topic, OnChangesMessage(m)
       PROVE  \A n \in Messages : UnderWay(n)' => UnderWay(n) \/ New(n)
  <2>1. m.update \in YDocs
    BY <1>1
  <2>2. UNCHANGED <<up, calls>>
    BY <1>11 DEF OnChangesMessage
  <2>3. CASE AlreadySent(m)
    BY <1>4, <1>11, <2>2, <2>3 DEF OnChangesMessage
  <2>4. CASE ~AlreadySent(m)
    <3> DEFINE n == [type |-> "broadcast", update |-> m.update]
               others == Members(m.to) \ {m.author}
    <3>1. BroadcastDiff(m.to, m.author, m.update)
      BY <1>11, <2>4 DEF OnChangesMessage
    <3>2. n \in Messages /\ New(n)
      BY <1>2, <2>1
    <3>3. SendDown(others, n)
      BY <3>1 DEF BroadcastDiff
    <3> HIDE DEF n, others
    <3>4. \A x \in Connections : Within(down'[x]) \subseteq Within(down[x]) \cup {n}
      BY <1>1, <3>2, <3>3, SentDown
    <3>5. QED
      BY <1>3, <2>2, <3>2, <3>4
  <2>5. QED
    BY <2>3, <2>4
<1>12. ASSUME NEW m \in topic, TopicLoses(m)
       PROVE  \A n \in Messages : UnderWay(n)' => UnderWay(n) \/ New(n)
  BY <1>4, <1>12 DEF TopicLoses, linkVars
<1>13. QED
  BY <1>6, <1>7, <1>8, <1>9, <1>10, <1>11, <1>12 DEF InstanceNext

\* What the actor answers.
LEMMA ActorSends ==
    ASSUME BaseInv, ActorNext
    PROVE  \A m \in Messages : UnderWay(m)' => UnderWay(m) \/ New(m)
<1>1. UNCHANGED <<up, down>>
  BY DEF ActorNext, ApplyDiff, AnswerSyncStart, CompleteSync, CallFails,
         SyncAwaitTimeout, Restart, Runs, linkVars
<1>2. ASSUME NEW call \in calls,
             ApplyDiff(call) \/ AnswerSyncStart(call) \/ CompleteSync(call) \/ CallFails(call)
      PROVE  \A n \in calls' : n \in calls \/ New(n.message)
  <2>1. CASE ApplyDiff(call)
    BY <2>1 DEF ApplyDiff, New
  <2>2. CASE AnswerSyncStart(call)
    <3>1. New(SyncResponse(call.message.vector))
      BY DEF New
    <3>2. QED
      BY <2>2, <3>1 DEF AnswerSyncStart
  <2>3. CASE CompleteSync(call) \/ CallFails(call)
    BY <2>3 DEF CompleteSync, CallFails
  <2>4. QED
    BY <1>2, <2>1, <2>2, <2>3
<1>3. ASSUME \/ \E x \in syncAwait : SyncAwaitTimeout(x)
             \/ Restart
      PROVE  UNCHANGED calls
  BY <1>3 DEF SyncAwaitTimeout, Restart
<1>4. \A n \in calls' : n \in calls \/ New(n.message)
  BY <1>2, <1>3 DEF ActorNext
<1>5. QED
  BY <1>1, <1>4 DEF UnderWay

\* What is new under way.
LEMMA Sends ==
    ASSUME BaseInv, Next
    PROVE  \A m \in Messages : UnderWay(m)' => UnderWay(m) \/ New(m)
BY ClientSends, InstanceSends, ActorSends DEF Next

\* The actor has what it answers with, and so what the client leaves out.
LEMMA NewKept ==
    ASSUME BaseInv, \A m \in Messages : UnderWay(m) => Kept(m),
           NEW m \in Messages, New(m)
    PROVE  Kept(m)
<1>1. ydoc \in YDocs
  BY DEF BaseInv, TypeOK
<1>2. CASE \E vector : m = SyncResponse(vector)
  BY <1>1, <1>2 DEF Kept, SyncResponse, StateVector, Integrated, YDocs
<1>3. ASSUME NEW n \in Messages, NEW d \in YDocs, UnderWay(n), n.type = "syncResponse",
             m = SyncComplete(ReturnChanges(d, n.vector), d)
      PROVE  Kept(m)
  <2>1. n.vector \subseteq ydoc.ops
    BY <1>3 DEF Kept
  <2>2. Covers(ApplyUpdate(ydoc, ReturnChanges(d, n.vector)), d)
    BY <2>1 DEF Covers, ApplyUpdate, ReturnChanges, StateAsUpdate, YDocs
  <2>3. QED
    BY <1>3, <2>2 DEF Kept, SyncComplete
<1>4. CASE m.type \notin {"syncResponse", "syncComplete"}
  BY <1>4 DEF Kept
<1>5. QED
  BY <1>2, <1>3, <1>4 DEF New

\* Until its activation ends, the actor forgets nothing.
LEMMA DocGrows ==
    ASSUME BaseInv, [Next]_vars
    PROVE  Covers(ydoc', ydoc) \/ restarts' # 0
<1>1. ydoc \in YDocs
  BY DEF BaseInv, TypeOK
<1>2. ASSUME UNCHANGED ydoc PROVE Covers(ydoc', ydoc)
  BY <1>1, <1>2 DEF Covers, YDocs
<1>3. ASSUME NEW c \in Clients, ClientNext(c) PROVE UNCHANGED ydoc
  BY <1>3 DEF ClientNext, Connect, Disconnect, Insert, Delete, Edit, OnJoinResponse,
              OnRequestSync, OnBroadcast, OnSyncResponse, Receives, SyncTimeout, actorVars
<1>4. ASSUME InstanceNext PROVE UNCHANGED ydoc
  BY <1>4 DEF InstanceNext, OnJoin, OnChanges, OnSyncMessage, Handles, HandleDisconnect,
              OnAnswer, OnChangesMessage, TopicLoses, actorVars
<1>5. ASSUME ActorNext PROVE Covers(ydoc', ydoc) \/ restarts' # 0
  <2>1. ASSUME NEW u, ydoc' = ApplyUpdate(ydoc, u) PROVE Covers(ydoc', ydoc)
    BY <1>1, <2>1 DEF Covers, ApplyUpdate, YDocs
  <2>2. ASSUME Restart PROVE restarts' # 0
    <3>1. restarts \in Nat /\ restarts' = restarts + 1
      BY <2>2, BoundsAssumption DEF Restart, BaseInv, TypeOK
    <3>2. QED
      BY <3>1
  <2>3. ASSUME NEW call \in calls, ApplyDiff(call) \/ CompleteSync(call) \/ CallFails(call)
        PROVE  Covers(ydoc', ydoc)
    BY <1>2, <2>1, <2>3 DEF ApplyDiff, CompleteSync, CallFails
  <2>4. ASSUME \/ \E call \in calls : AnswerSyncStart(call)
               \/ \E x \in syncAwait : SyncAwaitTimeout(x)
        PROVE  UNCHANGED ydoc
    BY <2>4 DEF AnswerSyncStart, SyncAwaitTimeout, actorVars
  <2>5. QED
    BY <1>2, <1>5, <2>2, <2>3, <2>4 DEF ActorNext
<1>6. CASE UNCHANGED vars
  BY <1>2, <1>6 DEF vars, actorVars
<1>7. QED
  BY <1>2, <1>3, <1>4, <1>5, <1>6 DEF Next

\* A restart is not undone.
LEMMA RestartsGrow ==
    ASSUME BaseInv, [Next]_vars, restarts' = 0 PROVE restarts = 0
<1>1. restarts \in Nat
  BY BoundsAssumption DEF BaseInv, TypeOK
<1>2. UNCHANGED restarts \/ restarts' = restarts + 1
  BY DEF Next, ClientNext, Connect, Disconnect, Insert, Delete, Edit, OnJoinResponse,
         OnRequestSync, OnBroadcast, OnSyncResponse, Receives, SyncTimeout,
         InstanceNext, OnJoin, OnChanges, OnSyncMessage, Handles, HandleDisconnect,
         OnAnswer, OnChangesMessage, TopicLoses, ActorNext, ApplyDiff, AnswerSyncStart,
         CompleteSync, CallFails, SyncAwaitTimeout, Restart, Runs, faultVars, vars
<1>3. QED
  BY <1>1, <1>2

\* At first nothing is under way.
LEMMA InitNothing == Init => \A m \in Messages : ~UnderWay(m)
<1> SUFFICES ASSUME Init PROVE \A m \in Messages : ~UnderWay(m)
  OBVIOUS
<1>1. \A x \in Connections : Within(up[x]) = {} /\ Within(down[x]) = {}
  BY DEF Init, Within
<1>2. QED
  BY <1>1 DEF Init, UnderWay

LEMMA InitSync == Init => SyncInv
BY InitNothing DEF SyncInv

LEMMA SyncStep == ASSUME BaseInv, SyncInv, [Next]_vars PROVE SyncInv'
<1> SUFFICES ASSUME restarts' = 0, NEW m \in Messages, UnderWay(m)' PROVE Kept(m)'
  BY DEF SyncInv
<1>1. restarts = 0 /\ Covers(ydoc', ydoc)
  BY DocGrows, RestartsGrow
<1>2. \A n \in Messages : UnderWay(n) => Kept(n)
  BY <1>1 DEF SyncInv
<1>3. CASE UNCHANGED vars
  BY <1>2, <1>3 DEF vars, linkVars, actorVars, UnderWay, Kept
<1>4. CASE Next
  <2>1. UnderWay(m) \/ Kept(m)
    BY <1>2, <1>4, Sends, NewKept
  <2>2. BaseInv'
    BY BaseStep
  <2>3. ydoc \in YDocs /\ ydoc' \in YDocs
    BY <2>2 DEF BaseInv, TypeOK
  <2>4. QED
    BY <1>1, <1>2, <2>1, <2>3, KeptLater
<1>5. QED
  BY <1>3, <1>4

(* Once the actor has run a client's syncComplete it has everything the client
   had when it sent it, for every number of clients, however their syncs
   overlap and however many calls fail, as long as its activation lives. *)
THEOREM SyncBringsAllHolds == Spec => SyncBringsAll
<1> DEFINE Brings ==
        \A call \in calls :
            restarts = 0 /\ CompleteSync(call) => Covers(ydoc', call.message.whole)
<1>1. ASSUME BaseInv, SyncInv, [Next]_vars PROVE [Brings]_vars
  <2> SUFFICES ASSUME NEW call \in calls, restarts = 0, CompleteSync(call)
               PROVE  Covers(ydoc', call.message.whole)
    OBVIOUS
  <2>1. call.message \in Messages /\ UnderWay(call.message)
    BY <1>1 DEF BaseInv, TypeOK, UnderWay
  <2>2. call.message.type = "syncComplete" /\ ydoc' = ApplyUpdate(ydoc, call.message.update)
    BY DEF CompleteSync, Runs
  <2>3. QED
    BY <1>1, <2>1, <2>2 DEF SyncInv, Kept
<1>2. BaseInv /\ SyncInv /\ [Next]_vars => BaseInv' /\ SyncInv'
  BY BaseStep, SyncStep
<1>3. Init => BaseInv /\ SyncInv
  BY InitBase, InitSync
<1>4. Spec => []BaseInv /\ []SyncInv
  BY <1>2, <1>3, PTL DEF Spec
<1>5. QED
  BY <1>1, <1>4, PTL DEF Spec, SyncBringsAll

-----------------------------------------------------------------------------
(* What a client has, the actor gets.                                      *)

\* The actor has o, or is about to get it.
There(k, o) ==
    \/ o \in ydoc[k]
    \/ \E call \in calls : Applying(call) /\ o \in call.message.update[k]

\* o is on its way up the current connection of c.
Rising(c, k, o) ==
    \E m \in Within(up[Current(c)]) :
        m.type \in {"changes", "syncComplete"} /\ o \in m.update[k]

\* Nothing is sent to a client that the actor will not have.
Known(m) ==
    m.type \in {"broadcast", "syncResponse"} =>
        \A k \in Kinds : \A o \in m.update[k] : There(k, o)

\* The first message of a connection is its join.
JoinFirst ==
    \A x \in Connections :
        IsOpen(x) /\ x \notin joined => up[x] # <<>> /\ Head(up[x]).type = "join"

Reliable == failures = 0 /\ restarts = 0

ServerInv ==
    /\ JoinFirst
    /\ Reliable =>
           /\ \A m \in Messages : UnderWay(m) => Known(m)
           /\ \A t \in topic : \A k \in Kinds : \A o \in t.update[k] : There(k, o)
           /\ \A c \in Clients : open[c] /\ syncedOn[c] = conn[c] =>
                  \A k \in Kinds : \A o \in doc[c][k] : There(k, o) \/ Rising(c, k, o)

\* No call fails after all.
LEMMA FailuresGrow ==
    ASSUME BaseInv, [Next]_vars, failures' = 0 PROVE failures = 0 /\ UNCHANGED failures
<1>1. failures \in Nat
  BY BoundsAssumption DEF BaseInv, TypeOK
<1>2. UNCHANGED failures \/ failures' = failures + 1
  BY DEF Next, ClientNext, Connect, Disconnect, Insert, Delete, Edit, OnJoinResponse,
         OnRequestSync, OnBroadcast, OnSyncResponse, Receives, SyncTimeout,
         InstanceNext, OnJoin, OnChanges, OnSyncMessage, Handles, HandleDisconnect,
         OnAnswer, OnChangesMessage, TopicLoses, ActorNext, ApplyDiff, AnswerSyncStart,
         CompleteSync, CallFails, SyncAwaitTimeout, Restart, Runs, faultVars, vars
<1>3. QED
  BY <1>1, <1>2

LEMMA ThereStays ==
    ASSUME BaseInv, [Next]_vars, Reliable', NEW k \in Kinds, NEW o, There(k, o)
    PROVE  There(k, o)'
<1>1. ydoc \in YDocs /\ calls \subseteq [conn : Connections, message : Messages]
  BY DEF BaseInv, TypeOK
<1>2. Reliable /\ UNCHANGED failures
  BY FailuresGrow, RestartsGrow DEF Reliable
<1>3. Covers(ydoc', ydoc)
  BY DocGrows DEF Reliable
<1>4. BaseInv'
  BY BaseStep
<1>5. ydoc' \in YDocs
  BY <1>4 DEF BaseInv, TypeOK
<1>6. o \in ydoc[k] => o \in ydoc'[k]
  BY <1>1, <1>3, <1>5, DocItems
<1>7. ASSUME NEW call \in calls, Applying(call), o \in call.message.update[k],
             call \notin calls'
      PROVE  o \in ydoc'[k]
  <2>1. call.message.update \in YDocs
    BY <1>1, <1>7, MessageFields DEF Applying
  <2>2. ydoc' = ApplyUpdate(ydoc, call.message.update)
    <3>1. CASE \E c \in Clients : ClientNext(c)
      BY <1>7, <3>1 DEF ClientNext, Connect, Disconnect, Insert, Delete, Edit,
             OnJoinResponse, OnRequestSync, OnBroadcast, OnSyncResponse, Receives, SyncTimeout
    <3>2. CASE InstanceNext
      <4>1. ASSUME NEW other \in calls, OnAnswer(other) PROVE call \in calls'
        BY <1>7, <4>1 DEF OnAnswer, Applying
      <4>2. QED
        BY <1>7, <3>2, <4>1
           DEF InstanceNext, OnJoin, OnChanges, OnSyncMessage, CallsActor,
               HandleDisconnect, OnChangesMessage, TopicLoses
    <3>3. CASE ActorNext
      <4>1. ASSUME NEW other \in calls, AnswerSyncStart(other) PROVE call \in calls'
        BY <1>7, <4>1 DEF AnswerSyncStart, Runs, Applying
      <4>2. ASSUME NEW other \in calls, CallFails(other) PROVE FALSE
        <5>1. failures \in Nat /\ failures' = failures + 1
          BY <4>2, BoundsAssumption DEF CallFails, BaseInv, TypeOK
        <5>2. QED
          BY <1>2, <5>1
      <4>3. ASSUME NEW other \in calls, ApplyDiff(other) \/ CompleteSync(other)
            PROVE  ydoc' = ApplyUpdate(ydoc, call.message.update)
        BY <1>7, <4>3 DEF ApplyDiff, CompleteSync
      <4>4. QED
        BY <1>7, <3>3, <4>1, <4>2, <4>3 DEF ActorNext, SyncAwaitTimeout, Restart
    <3>4. CASE UNCHANGED vars
      BY <1>7, <3>4 DEF vars
    <3>5. QED
      BY <3>1, <3>2, <3>3, <3>4 DEF Next
  <2>3. QED
    BY <1>1, <1>7, <2>1, <2>2, DocItems
<1>8. QED
  BY <1>6, <1>7 DEF There, Applying

LEMMA InitServer == Init => ServerInv
<1> SUFFICES ASSUME Init PROVE ServerInv
  OBVIOUS
<1>1. \A m \in Messages : ~UnderWay(m)
  <2>1. \A x \in Connections : Within(up[x]) = {} /\ Within(down[x]) = {}
    BY DEF Init, Within
  <2>2. QED
    BY <2>1 DEF Init, UnderWay
<1>2. JoinFirst
  BY ConnectionPairs DEF JoinFirst, Init, IsOpen
<1>3. QED
  BY <1>1, <1>2 DEF ServerInv, Init

\* A connection handles its join before anything else.
LEMMA JoinFirstStep == ASSUME BaseInv, JoinFirst, [Next]_vars PROVE JoinFirst'
<1>1. LinksOK /\ conn \in [Clients -> Nat] /\ open \in [Clients -> BOOLEAN]
  BY BaseLinks DEF BaseInv, TypeOK
<1>2. ASSUME NEW c \in Clients, ClientNext(c) PROVE JoinFirst'
  <2>1. UNCHANGED joined
    BY <1>2 DEF ClientNext, Connect, Disconnect, Insert, Delete, Edit, OnJoinResponse,
         OnRequestSync, OnBroadcast, OnSyncResponse, Receives, SyncTimeout, serverVars
  <2>2. CASE Connect(c)
    <3>1. /\ conn' = [conn EXCEPT ![c] = @ + 1] /\ open' = [open EXCEPT ![c] = TRUE]
          /\ up' = [up EXCEPT ![<<c, conn[c] + 1>>] = <<Joining>>]
      BY <2>2 DEF Connect
    <3>2. ASSUME NEW x \in Connections, IsOpen(x)', x \notin joined
          PROVE  up'[x] # <<>> /\ Head(up'[x]).type = "join"
      <4>1. x[1] \in Clients /\ x = <<x[1], x[2]>>
        BY ConnectionPairs
      <4>2. CASE x[1] = c
        <5>1. x = <<c, conn[c] + 1>>
          BY <1>1, <3>1, <3>2, <4>1, <4>2 DEF IsOpen
        <5>2. up'[x] = <<Joining>>
          BY <1>1, <3>1, <5>1 DEF LinksOK
        <5>3. QED
          BY <5>2 DEF Joining
      <4>3. CASE x[1] # c
        <5>1. IsOpen(x)
          BY <1>1, <3>1, <3>2, <4>1, <4>3 DEF IsOpen
        <5>2. x # <<c, conn[c] + 1>>
          BY <4>3
        <5>3. up'[x] = up[x]
          BY <1>1, <3>1, <5>2 DEF LinksOK
        <5>4. QED
          BY <3>2, <5>1, <5>3 DEF JoinFirst
      <4>4. QED
        BY <4>2, <4>3
    <3>3. QED
      BY <2>1, <3>2 DEF JoinFirst
  <2>3. CASE Disconnect(c)
    <3>1. /\ UNCHANGED conn /\ open' = [open EXCEPT ![c] = FALSE]
          /\ \E n \in 0 .. Len(up[Current(c)]) :
                 up' = [up EXCEPT ![Current(c)] = SubSeq(@, 1, n)]
      BY <2>3 DEF Disconnect
    <3>2. ASSUME NEW x \in Connections, IsOpen(x)'
          PROVE  IsOpen(x) /\ up'[x] = up[x]
      <4>1. x[1] \in Clients /\ x[1] # c
        BY <1>1, <3>1, <3>2, ConnectionPairs DEF IsOpen
      <4>2. x # Current(c)
        BY <4>1 DEF Current
      <4>3. QED
        BY <1>1, <3>1, <3>2, <4>1, <4>2 DEF LinksOK, IsOpen
    <3>3. QED
      BY <2>1, <3>2 DEF JoinFirst
  <2>4. ASSUME NEW m \in Messages, Send(c, m), UNCHANGED <<conn, open>> PROVE JoinFirst'
    <3>1. ASSUME NEW x \in Connections, up[x] # <<>>
          PROVE  up'[x] # <<>> /\ Head(up'[x]) = Head(up[x])
      <4>1. up'[x] = up[x] \/ up'[x] = Append(up[x], m)
        BY <1>1, <2>4, Sent
      <4>2. up[x] \in Seq(Messages)
        BY <1>1 DEF LinksOK
      <4>3. Append(up[x], m) # <<>> /\ Head(Append(up[x], m)) = Head(up[x])
        BY <3>1, <4>2, AppendProperties
      <4>4. QED
        BY <3>1, <4>1, <4>3
    <3>2. QED
      BY <2>1, <2>4, <3>1 DEF JoinFirst, IsOpen
  <2>5. ASSUME UNCHANGED <<conn, open, up>> PROVE JoinFirst'
    BY <2>1, <2>5 DEF JoinFirst, IsOpen
  <2>6. QED
    BY <1>2, <2>2, <2>3, <2>4, <2>5, ClientUp
<1>3. ASSUME NEW x \in Connections, NEW type, Handles(x, type), x \in joined',
             joined \subseteq joined'
      PROVE  JoinFirst'
  <2>1. \A y \in Connections : y # x => up'[y] = up[y]
    BY <1>1, <1>3, Handled
  <2>2. UNCHANGED <<conn, open>>
    BY <1>3 DEF Handles, clientVars
  <2>3. QED
    BY <1>3, <2>1, <2>2 DEF JoinFirst, IsOpen
<1>4. ASSUME NEW x \in Connections, OnJoin(x) PROVE JoinFirst'
  BY <1>3, <1>4 DEF OnJoin
<1>5. ASSUME NEW x \in Connections, NEW type \in {"changes", "syncStart", "syncComplete"},
             Handles(x, type), UNCHANGED joined
      PROVE  JoinFirst'
  <2>1. CASE x \in joined
    BY <1>3, <1>5, <2>1
  <2>2. CASE x \notin joined
    <3>1. ~IsOpen(x)
      BY <1>5, <2>2 DEF JoinFirst, Handles
    <3>2. \A y \in Connections : y # x => up'[y] = up[y]
      BY <1>1, <1>5, Handled
    <3>3. UNCHANGED <<conn, open>>
      BY <1>5 DEF Handles, clientVars
    <3>4. QED
      BY <1>5, <3>1, <3>2, <3>3 DEF JoinFirst, IsOpen
  <2>3. QED
    BY <2>1, <2>2
<1>6. ASSUME NEW x \in Connections, OnChanges(x) \/ OnSyncMessage(x) PROVE JoinFirst'
  BY <1>5, <1>6 DEF OnChanges, OnSyncMessage, serverVars
<1>7. ASSUME NEW x \in Connections, HandleDisconnect(x) PROVE JoinFirst'
  BY <1>7 DEF HandleDisconnect, JoinFirst, IsOpen, clientVars, linkVars
<1>8. ASSUME UNCHANGED <<conn, open, up, joined>> PROVE JoinFirst'
  BY <1>8 DEF JoinFirst, IsOpen
<1>9. CASE InstanceNext
  BY <1>4, <1>6, <1>7, <1>8, <1>9
     DEF InstanceNext, OnAnswer, OnChangesMessage, TopicLoses, clientVars, linkVars, serverVars
<1>10. CASE ActorNext
  BY <1>8, <1>10
     DEF ActorNext, ApplyDiff, AnswerSyncStart, CompleteSync, CallFails, SyncAwaitTimeout,
         Restart, Runs, clientVars, linkVars, serverVars
<1>11. CASE UNCHANGED vars
  BY <1>8, <1>11 DEF vars, clientVars, linkVars, serverVars
<1>12. QED
  BY <1>2, <1>9, <1>10, <1>11 DEF Next

\* What a step publishes is called to the actor in the same step.
LEMMA PublishedIsCalled ==
    ASSUME [Next]_vars, NEW t \in topic', t \notin topic
    PROVE  \E call \in calls' : Applying(call) /\ call.message.update = t.update
<1>1. ASSUME NEW x \in Connections, OnChanges(x)
      PROVE  \E call \in calls' : Applying(call) /\ call.message.update = t.update
  <2>1. x \in joined
    BY <1>1 DEF OnChanges
  <2>2. /\ t.update = Head(up[x]).update
        /\ calls' = calls \cup {[conn |-> x, message |-> Head(up[x])]}
        /\ Head(up[x]).type = "changes"
    BY <1>1, <2>1 DEF OnChanges, CallsActor, Handles
  <2> DEFINE call == [conn |-> x, message |-> Head(up[x])]
  <2>3. call \in calls' /\ Applying(call) /\ call.message.update = t.update
    BY <2>2 DEF Applying
  <2>4. QED
    BY <2>3
<1>2. CASE \E c \in Clients : ClientNext(c)
  BY <1>2 DEF ClientNext, Connect, Disconnect, Insert, Delete, Edit, OnJoinResponse,
       OnRequestSync, OnBroadcast, OnSyncResponse, Receives, SyncTimeout, serverVars
<1>3. CASE InstanceNext
  <2>1. ASSUME NEW n \in topic, OnChangesMessage(n) \/ TopicLoses(n) PROVE FALSE
    BY <2>1 DEF OnChangesMessage, TopicLoses
  <2>2. ASSUME NEW call \in calls, OnAnswer(call) PROVE FALSE
    BY <2>2 DEF OnAnswer, serverVars
  <2>3. ASSUME NEW x \in Connections, OnJoin(x) \/ OnSyncMessage(x) \/ HandleDisconnect(x)
        PROVE  FALSE
    BY <2>3 DEF OnJoin, OnSyncMessage, HandleDisconnect, serverVars
  <2>4. QED
    BY <1>1, <1>3, <2>1, <2>2, <2>3 DEF InstanceNext
<1>4. CASE ActorNext
  BY <1>4
     DEF ActorNext, ApplyDiff, AnswerSyncStart, CompleteSync, CallFails,
         SyncAwaitTimeout, Restart, Runs, serverVars
<1>5. CASE UNCHANGED vars
  BY <1>5 DEF vars, serverVars
<1>6. QED
  BY <1>1, <1>2, <1>3, <1>4, <1>5 DEF Next

\* What is sent down and published is known to the actor.
LEMMA KnownStep ==
    ASSUME BaseInv, ServerInv, [Next]_vars, Reliable'
    PROVE  /\ \A m \in Messages : UnderWay(m)' => Known(m)'
           /\ \A t \in topic' : \A k \in Kinds : \A o \in t.update[k] : There(k, o)'
<1>1. Reliable
  BY FailuresGrow, RestartsGrow DEF Reliable
<1>2. /\ \A m \in Messages : UnderWay(m) => Known(m)
      /\ \A t \in topic : \A k \in Kinds : \A o \in t.update[k] : There(k, o)
  BY <1>1 DEF ServerInv
<1>3. \A k \in Kinds : \A o : There(k, o) => There(k, o)'
  BY ThereStays
<1>4. \A m \in Messages : Known(m) => Known(m)'
  BY <1>3 DEF Known
<1>5. ydoc \in YDocs
  BY DEF BaseInv, TypeOK
<1>6. ASSUME NEW m \in Messages, New(m) PROVE Known(m)'
  <2>1. CASE m.type \notin {"broadcast", "syncResponse"}
    BY <2>1 DEF Known
  <2>2. ASSUME NEW vector, m = SyncResponse(vector) PROVE Known(m)'
    <3>1. \A k \in Kinds : m.update[k] \subseteq ydoc[k]
      <4>1. m.update = StateAsUpdate(ydoc, vector)
        BY <2>2 DEF SyncResponse
      <4>2. QED
        BY <1>5, <4>1, DocItems
    <3>2. Known(m)
      BY <3>1 DEF Known, There
    <3>3. QED
      BY <1>4, <3>2
  <2>3. ASSUME NEW t \in topic, t.update = m.update PROVE Known(m)'
    BY <1>2, <1>3, <2>3 DEF Known
  <2>4. ASSUME NEW call \in calls', call.message.type = "changes",
               call.message.update = m.update
        PROVE  Known(m)'
    BY <2>4 DEF Known, There, Applying
  <2>5. QED
    BY <1>6, <2>1, <2>2, <2>3, <2>4 DEF New
<1>7. \A m \in Messages : UnderWay(m)' => Known(m)'
  <2>1. CASE Next
    BY <1>2, <1>4, <1>6, <2>1, Sends
  <2>2. CASE UNCHANGED vars
    BY <1>2, <1>4, <2>2 DEF vars, linkVars, UnderWay
  <2>3. QED
    BY <2>1, <2>2
<1>8. ASSUME NEW t \in topic', t \notin topic
      PROVE  \E call \in calls' : Applying(call) /\ call.message.update = t.update
  BY <1>8, PublishedIsCalled
<1>9. \A t \in topic' : \A k \in Kinds : \A o \in t.update[k] : There(k, o)'
  <2> SUFFICES ASSUME NEW t \in topic', NEW k \in Kinds, NEW o \in t.update[k]
               PROVE  There(k, o)'
    OBVIOUS
  <2>1. CASE t \in topic
    BY <1>2, <1>3, <2>1
  <2>2. CASE t \notin topic
    BY <1>8, <2>2 DEF There, Applying
  <2>3. QED
    BY <2>1, <2>2
<1>10. QED
  BY <1>7, <1>9

\* What is going up an open connection stays on its way to the actor.
LEMMA RisingStays ==
    ASSUME BaseInv, JoinFirst, [Next]_vars, NEW c \in Clients, open[c], open'[c],
           conn'[c] = conn[c], NEW k \in Kinds, NEW o, Rising(c, k, o)
    PROVE  There(k, o)' \/ Rising(c, k, o)'
<1>1. LinksOK /\ conn \in [Clients -> Nat] /\ open \in [Clients -> BOOLEAN]
  BY BaseLinks DEF BaseInv, TypeOK
<1>2. Current(c) \in Connections /\ Current(c)' = Current(c)
  BY OpenConnection DEF Current
<1>3. Current(c) \notin joined
          => up[Current(c)] # <<>> /\ Head(up[Current(c)]).type = "join"
  BY <1>2 DEF JoinFirst, IsOpen, Current
<1>4. ASSUME Within(up[Current(c)]) \subseteq Within(up'[Current(c)])
      PROVE  Rising(c, k, o)'
  BY <1>2, <1>4 DEF Rising
<1>5. CASE \E e \in Clients : ClientNext(e)
  <2>1. PICK e \in Clients : ClientNext(e)
    BY <1>5
  <2>2. CASE e # c
    <3>1. Current(c)[1] # e
      BY <2>2 DEF Current
    <3>2. up'[Current(c)] = up[Current(c)]
      BY <1>2, <2>1, <3>1, OthersUp
    <3>3. QED
      BY <1>4, <3>2
  <2>3. CASE e = c
    <3>1. ~Connect(c) /\ ~Disconnect(c)
      BY <1>1 DEF Connect, Disconnect
    <3>2. Within(up[Current(c)]) \subseteq Within(up'[Current(c)])
      BY <1>1, <1>2, <2>1, <2>3, <3>1, ClientUp, Sent
    <3>3. QED
      BY <1>4, <3>2
  <2>4. QED
    BY <2>2, <2>3
<1>6. ASSUME NEW x \in Connections, NEW type, Handles(x, type),
             \/ type \notin {"changes", "syncComplete"}
             \/ CallsActor(x, Head(up[x]))
      PROVE  There(k, o)' \/ Rising(c, k, o)'
  <2>1. CASE x # Current(c)
    <3>1. up'[Current(c)] = up[Current(c)]
      BY <1>1, <1>2, <1>6, <2>1, Handled
    <3>2. QED
      BY <1>4, <3>1
  <2>2. CASE x = Current(c)
    <3>1. Within(up[x]) = Within(up'[x]) \cup {Head(up[x])} /\ Head(up[x]).type = type
      BY <1>1, <1>6, Handled
    <3>2. PICK m \in Within(up[x]) :
              m.type \in {"changes", "syncComplete"} /\ o \in m.update[k]
      BY <2>2 DEF Rising
    <3>3. CASE m \in Within(up'[x])
      BY <1>2, <2>2, <3>2, <3>3 DEF Rising
    <3>4. CASE m = Head(up[x])
      <4>1. [conn |-> x, message |-> m] \in calls'
        BY <1>6, <3>1, <3>2, <3>4 DEF CallsActor
      <4>2. QED
        BY <3>2, <4>1 DEF There, Applying
    <3>5. QED
      BY <3>1, <3>3, <3>4
  <2>3. QED
    BY <2>1, <2>2
<1>7. ASSUME NEW x \in Connections, OnChanges(x)
      PROVE  There(k, o)' \/ Rising(c, k, o)'
  <2>1. CASE x \in joined
    BY <1>6, <1>7, <2>1 DEF OnChanges
  <2>2. CASE x \notin joined
    <3>1. x # Current(c)
      BY <1>3, <1>7, <2>2 DEF OnChanges, Handles
    <3>2. up'[Current(c)] = up[Current(c)]
      BY <1>1, <1>2, <1>7, <3>1, Handled DEF OnChanges
    <3>3. QED
      BY <1>4, <3>2
  <2>3. QED
    BY <2>1, <2>2
<1>8. ASSUME NEW x \in Connections, OnJoin(x) \/ OnSyncMessage(x)
      PROVE  There(k, o)' \/ Rising(c, k, o)'
  BY <1>6, <1>8 DEF OnJoin, OnSyncMessage
<1>9. ASSUME UNCHANGED up PROVE Rising(c, k, o)'
  BY <1>4, <1>9
<1>10. CASE InstanceNext
  BY <1>7, <1>8, <1>9, <1>10
     DEF InstanceNext, HandleDisconnect, OnAnswer, OnChangesMessage, TopicLoses, linkVars
<1>11. CASE ActorNext
  BY <1>9, <1>11
     DEF ActorNext, ApplyDiff, AnswerSyncStart, CompleteSync, CallFails, SyncAwaitTimeout,
         Restart, Runs, linkVars
<1>12. CASE UNCHANGED vars
  BY <1>9, <1>12 DEF vars, linkVars
<1>13. QED
  BY <1>5, <1>10, <1>11, <1>12 DEF Next

\* What an edit, a broadcast or the answer to a sync brings a client.
LEMMA ClientGains ==
    ASSUME BaseInv, SyncInv, ServerInv, NEW c \in Clients, ClientNext(c), Reliable',
           open'[c], syncedOn'[c] = conn'[c],
           NEW k \in Kinds, NEW o \in doc'[c][k]
    PROVE  There(k, o)' \/ Rising(c, k, o)'
<1>1. /\ LinksOK /\ ydoc \in YDocs /\ conn \in [Clients -> Nat]
      /\ open \in [Clients -> BOOLEAN] /\ syncedOn \in [Clients -> Nat]
      /\ doc \in [Clients -> YDocs] /\ syncedOn[c] <= conn[c]
  BY BaseLinks DEF BaseInv, TypeOK
<1>2. Reliable /\ [Next]_vars /\ restarts = 0
  BY FailuresGrow, RestartsGrow DEF Reliable, Next
<1>3. /\ \A m \in Messages : UnderWay(m) => Known(m) /\ Kept(m)
      /\ open[c] /\ syncedOn[c] = conn[c] =>
             \A i \in doc[c][k] : There(k, i) \/ Rising(c, k, i)
  BY <1>2 DEF ServerInv, SyncInv
<1>4. \A i : There(k, i) => There(k, i)'
  BY <1>2, ThereStays
<1>5. /\ ~Connect(c) /\ ~Disconnect(c)
      /\ conn'[c] = conn[c] /\ open[c]
  <2>1. ~Connect(c)
    BY <1>1 DEF Connect
  <2>2. ~Disconnect(c)
    BY <1>1 DEF Disconnect
  <2>3. QED
    BY <2>1, <2>2, ClientUp
<1>6. /\ Current(c) \in Connections /\ Current(c)' = Current(c)
  BY <1>5, OpenConnection DEF Current
<1>7. ASSUME syncedOn[c] = conn[c], o \in doc[c][k]
      PROVE  There(k, o)' \/ Rising(c, k, o)'
  <2>1. There(k, o) \/ Rising(c, k, o)
    BY <1>3, <1>5, <1>7
  <2>2. QED
    BY <1>2, <1>4, <1>5, <2>1, RisingStays DEF ServerInv
<1>8. ASSUME NEW m \in Messages, Send(c, m), m.type \in {"changes", "syncComplete"},
             o \in m.update[k]
      PROVE  Rising(c, k, o)'
  <2>1. m \in Within(up'[Current(c)])
    BY <1>1, <1>5, <1>6, <1>8, Sent
  <2>2. QED
    BY <1>6, <1>8, <2>1 DEF Rising
<1>9. ASSUME NEW u \in YDocs, Edit(c, u)
      PROVE  There(k, o)' \/ Rising(c, k, o)'
  <2>1. doc'[c] = ApplyUpdate(doc[c], u) /\ UNCHANGED syncedOn /\ Send(c, Changes(u))
    BY <1>1, <1>9 DEF Edit
  <2>2. o \in doc[c][k] \/ o \in u[k]
    BY <1>1, <2>1, DocItems
  <2>3. Changes(u) \in Messages /\ Changes(u).type = "changes" /\ Changes(u).update = u
    BY MessageTypes DEF Changes
  <2>4. QED
    BY <1>5, <1>7, <1>8, <2>1, <2>2, <2>3
<1>10. ASSUME NEW type, Receives(c, type)
       PROVE  /\ Head(down[Current(c)]) \in Messages
              /\ Head(down[Current(c)]).type = type
              /\ UnderWay(Head(down[Current(c)]))
  BY <1>1, <1>6, <1>10, Received DEF UnderWay
<1>11. CASE OnBroadcast(c)
  <2> DEFINE n == Head(down[Current(c)])
  <2>1. n \in Messages /\ n.type = "broadcast" /\ UnderWay(n)
    BY <1>10, <1>11 DEF OnBroadcast
  <2>2. n.update \in YDocs
    BY <2>1, MessageFields
  <2>3. doc'[c] = ApplyUpdate(doc[c], n.update) /\ UNCHANGED syncedOn
    BY <1>1, <1>11 DEF OnBroadcast, Merged
  <2>4. o \in doc[c][k] \/ o \in n.update[k]
    BY <1>1, <2>2, <2>3, DocItems
  <2>5. o \in n.update[k] => There(k, o)
    BY <1>3, <2>1 DEF Known
  <2>6. QED
    BY <1>4, <1>5, <1>7, <2>3, <2>4, <2>5
<1>12. CASE OnSyncResponse(c)
  <2> DEFINE n == Head(down[Current(c)])
             d == ApplyUpdate(doc[c], n.update)
             u == ReturnChanges(d, n.vector)
  <2>1. n \in Messages /\ n.type = "syncResponse" /\ UnderWay(n)
    BY <1>10, <1>12 DEF OnSyncResponse
  <2>2. n.update \in YDocs /\ n.vector \subseteq ydoc.ops
    BY <1>3, <2>1, MessageFields DEF Kept
  <2>3. CASE ~syncing[c]
    BY <1>5, <1>7, <1>12, <2>3 DEF OnSyncResponse
  <2>4. CASE syncing[c]
    <3>1. doc'[c] = d /\ Send(c, SyncComplete(u, d))
      BY <1>1, <1>12, <2>4 DEF OnSyncResponse, Merged
    <3>2. d \in YDocs
      BY <1>1, <2>2, DocTypes
    <3>3. u \in YDocs
      BY <3>2 DEF ReturnChanges, StateAsUpdate, YDocs
    <3>4. SyncComplete(u, d) \in Messages
      BY <3>2, <3>3, MessageTypes
    <3>5. o \in ydoc[k] \/ o \in u[k]
      <4>1. o \in d[k]
        BY <3>1
      <4>2. k = "ops" \/ k = "dels"
        BY DEF Kinds
      <4>3. u = [ops |-> d.ops \ n.vector, dels |-> d.dels]
        BY DEF ReturnChanges, StateAsUpdate
      <4>4. QED
        BY <2>2, <4>1, <4>2, <4>3
    <3>6. CASE o \in ydoc[k]
      BY <1>4, <3>6 DEF There
    <3>7. CASE o \in u[k]
      <4>1. /\ SyncComplete(u, d).type = "syncComplete"
            /\ SyncComplete(u, d).update = u
        BY DEF SyncComplete
      <4>2. QED
        BY <1>8, <3>1, <3>4, <3>7, <4>1
    <3>8. QED
      BY <3>5, <3>6, <3>7
  <2>5. QED
    BY <2>3, <2>4
<1>13. CASE OnJoinResponse(c) \/ OnRequestSync(c) \/ SyncTimeout(c)
  <2>1. UNCHANGED <<doc, syncedOn>>
    BY <1>13 DEF OnJoinResponse, OnRequestSync, SyncTimeout
  <2>2. QED
    BY <1>5, <1>7, <2>1
<1>14. ASSUME NEW i \in Op, Insert(c, i) PROVE There(k, o)' \/ Rising(c, k, o)'
  BY <1>9, <1>14, EditUpdates DEF Insert
<1>15. ASSUME NEW i \in Deletable, Delete(c, i) PROVE There(k, o)' \/ Rising(c, k, o)'
  <2>1. i \in Op
    BY <1>1, <1>15 DEF Delete, Integrated, YDocs
  <2>2. QED
    BY <1>9, <1>15, <2>1, EditUpdates DEF Delete
<1>16. QED
  BY <1>5, <1>11, <1>12, <1>13, <1>14, <1>15 DEF ClientNext

LEMMA ServerStep ==
    ASSUME BaseInv, SyncInv, ServerInv, [Next]_vars PROVE ServerInv'
<1>1. JoinFirst'
  BY JoinFirstStep DEF ServerInv
<1>2. ASSUME Reliable', NEW c \in Clients, open'[c], syncedOn'[c] = conn'[c],
             NEW k \in Kinds, NEW o \in doc'[c][k]
      PROVE  There(k, o)' \/ Rising(c, k, o)'
  <2>1. Reliable
    BY <1>2, FailuresGrow, RestartsGrow DEF Reliable
  <2>2. ASSUME doc'[c] = doc[c], conn'[c] = conn[c], open'[c] = open[c],
               syncedOn'[c] = syncedOn[c]
        PROVE  There(k, o)' \/ Rising(c, k, o)'
    <3>1. There(k, o) \/ Rising(c, k, o)
      BY <1>2, <2>1, <2>2 DEF ServerInv
    <3>2. QED
      BY <1>2, <2>2, <3>1, ThereStays, RisingStays DEF ServerInv
  <2>3. CASE ClientNext(c)
    BY <1>2, <2>3, ClientGains
  <2>4. ASSUME NEW e \in Clients, e # c, ClientNext(e)
        PROVE  There(k, o)' \/ Rising(c, k, o)'
    <3>1. conn \in [Clients -> Nat] /\ open \in [Clients -> BOOLEAN]
      BY DEF BaseInv, TypeOK
    <3>2. open[c]
      BY <1>2, <2>4, <3>1
         DEF ClientNext, Connect, Disconnect, Insert, Delete, Edit, OnJoinResponse,
             OnRequestSync, OnBroadcast, OnSyncResponse, Receives, SyncTimeout
    <3>3. Current(c) \in Connections
      BY <3>2, OpenConnection
    <3>4. Current(c)[1] = c
      BY DEF Current
    <3>5. QED
      BY <2>2, <2>4, <3>3, <3>4, OthersUp
  <2>5. CASE InstanceNext \/ ActorNext \/ UNCHANGED vars
    <3>1. UNCHANGED clientVars
      BY <2>5 DEF InstanceNext, OnJoin, OnChanges, OnSyncMessage, Handles, HandleDisconnect,
           OnAnswer, OnChangesMessage, TopicLoses, ActorNext, ApplyDiff, AnswerSyncStart,
           CompleteSync, CallFails, SyncAwaitTimeout, Restart, Runs, vars
    <3>2. QED
      BY <2>2, <3>1 DEF clientVars
  <2>6. QED
    BY <2>3, <2>4, <2>5 DEF Next
<1>3. QED
  BY <1>1, <1>2, KnownStep DEF ServerInv

(* Once a sync has been answered on its current connection, everything a client
   has is in the actor's document as soon as what is under way has arrived,
   for every number of clients, instances and reconnections, whatever order the
   calls arrive in, as long as no call of the actor fails and it lives. *)
THEOREM ServerHasAllHolds == Spec => []ServerHasAll
<1>1. BaseInv /\ ServerInv => ServerHasAll
  <2> SUFFICES ASSUME BaseInv, ServerInv, NEW c \in Clients, Reliable, Settled(c),
                      syncedOn[c] = conn[c]
               PROVE  Covers(ydoc, doc[c])
    BY DEF ServerHasAll, Reliable
  <2>1. ydoc \in YDocs /\ doc[c] \in YDocs
    BY DEF BaseInv, TypeOK
  <2>2. ASSUME NEW k \in Kinds, NEW o \in doc[c][k] PROVE o \in ydoc[k]
    <3>1. There(k, o) \/ Rising(c, k, o)
      BY <2>2 DEF ServerInv, Settled
    <3>2. ~Rising(c, k, o)
      BY DEF Rising, Settled, Within
    <3>3. QED
      BY <3>1, <3>2 DEF There, Settled
  <2>3. QED
    BY <2>1, <2>2, DocItems
<1>2. Init => BaseInv /\ SyncInv /\ ServerInv
  BY InitBase, InitSync, InitServer
<1>3. BaseInv /\ SyncInv /\ ServerInv /\ [Next]_vars => (BaseInv /\ SyncInv /\ ServerInv)'
  BY BaseStep, SyncStep, ServerStep
<1>4. QED
  BY <1>1, <1>2, <1>3, PTL DEF Spec

-----------------------------------------------------------------------------
(* What is shared.                                                         *)

\* Typed has all of u.
IsTyped(u) == Covers(Typed, u)

\* An operation is in its author's document before it is anywhere else.
AuthorsHave == \A c \in Clients : \A o \in doc[c].ops : o \in doc[Author[o]].ops

\* What is under way has been typed.
UpdatesTyped ==
    /\ \A m \in Messages :
           /\ UnderWay(m)
           /\ m.type \in {"changes", "broadcast", "syncResponse", "syncComplete"}
           => IsTyped(m.update)
    /\ \A t \in topic : IsTyped(t.update)

SharedInv == AuthorsHave /\ UpdatesTyped /\ IsTyped(ydoc) /\ Covers(ydoc, stored)

LEMMA CoversTransitive ==
    ASSUME NEW d, NEW e, NEW f, Covers(d, e), Covers(e, f) PROVE Covers(d, f)
BY DEF Covers

LEMMA TypedDocs ==
    ASSUME doc \in [Clients -> YDocs]
    PROVE  Typed \in YDocs /\ \A c \in Clients : IsTyped(doc[c])
BY DEF Typed, IsTyped, Covers, YDocs

LEMMA TypedItems ==
    /\ \A o : o \in Typed.ops <=> \E c \in Clients : o \in doc[c].ops
    /\ \A o : o \in Typed.dels <=> \E c \in Clients : o \in doc[c].dels
BY DEF Typed

\* What one client's document gains, all of them together gain.
LEMMA TypedGains ==
    ASSUME doc \in [Clients -> YDocs], NEW c \in Clients, NEW u \in YDocs,
           doc' = [doc EXCEPT ![c] = ApplyUpdate(@, u)]
    PROVE  Typed' = ApplyUpdate(Typed, u)
<1>1. /\ \A e \in Clients : e # c => doc'[e] = doc[e]
      /\ doc'[c].ops = doc[c].ops \cup u.ops /\ doc'[c].dels = doc[c].dels \cup u.dels
  BY DEF ApplyUpdate
<1>2. /\ \A o : o \in Typed'.ops <=> \E e \in Clients : o \in doc'[e].ops
      /\ \A o : o \in Typed'.dels <=> \E e \in Clients : o \in doc'[e].dels
  BY DEF Typed
<1>3. Typed'.ops = Typed.ops \cup u.ops
  BY <1>1, <1>2, TypedItems
<1>4. Typed'.dels = Typed.dels \cup u.dels
  BY <1>1, <1>2, TypedItems
<1>5. Typed' = [ops |-> Typed'.ops, dels |-> Typed'.dels]
  BY DEF Typed
<1>6. QED
  BY <1>3, <1>4, <1>5 DEF ApplyUpdate

\* The ways a document changes: by what its user does, or by an update from
\* the connection.
LEMMA ClientLearns ==
    ASSUME BaseInv, SharedInv, NEW c \in Clients, ClientNext(c)
    PROVE  \/ UNCHANGED doc
           \/ \E o \in Op : Insert(c, o) \/ Delete(c, o)
           \/ \E u \in YDocs :
                  IsTyped(u) /\ doc' = [doc EXCEPT ![c] = ApplyUpdate(@, u)]
<1>1. LinksOK /\ doc \in [Clients -> YDocs]
  BY BaseLinks DEF BaseInv, TypeOK
<1>2. ASSUME NEW type \in {"broadcast", "syncResponse"}, Receives(c, type)
      PROVE  /\ Head(down[Current(c)]).update \in YDocs
             /\ IsTyped(Head(down[Current(c)]).update)
  <2>1. Current(c) \in Connections
    BY <1>2, OpenConnection DEF Receives
  <2>2. /\ Head(down[Current(c)]) \in Messages /\ Head(down[Current(c)]).type = type
        /\ UnderWay(Head(down[Current(c)]))
    BY <1>1, <1>2, <2>1, Received DEF UnderWay
  <2>3. QED
    BY <2>2, MessageFields DEF SharedInv, UpdatesTyped
<1>3. CASE OnBroadcast(c)
  <2>1. doc' = [doc EXCEPT ![c] = ApplyUpdate(@, Head(down[Current(c)]).update)]
    BY <1>1, <1>3 DEF OnBroadcast, Merged
  <2>2. QED
    BY <1>2, <1>3, <2>1 DEF OnBroadcast
<1>4. CASE OnSyncResponse(c)
  <2>1. \/ UNCHANGED doc
        \/ doc' = [doc EXCEPT ![c] = ApplyUpdate(@, Head(down[Current(c)]).update)]
    BY <1>1, <1>4 DEF OnSyncResponse, Merged
  <2>2. QED
    BY <1>2, <1>4, <2>1 DEF OnSyncResponse
<1>5. ASSUME NEW o \in Deletable, Delete(c, o) PROVE o \in Op
  BY <1>1, <1>5 DEF Delete, Integrated, YDocs
<1>6. QED
  BY <1>3, <1>4, <1>5
     DEF ClientNext, Connect, Disconnect, OnJoinResponse, OnRequestSync, SyncTimeout

\* The ways the actor's document and the stored state change.
LEMMA ActorLearns ==
    ASSUME BaseInv, SharedInv, ActorNext
    PROVE  /\ UNCHANGED doc
           /\ \/ UNCHANGED <<ydoc, stored>>
              \/ \E u \in YDocs : /\ IsTyped(u) /\ ydoc' = ApplyUpdate(ydoc, u)
                                  /\ stored' \in {stored, ydoc'}
              \/ ydoc' = stored /\ UNCHANGED stored
<1>1. calls \subseteq [conn : Connections, message : Messages]
  BY DEF BaseInv, TypeOK
<1>2. UNCHANGED doc
  BY DEF ActorNext, ApplyDiff, AnswerSyncStart, CompleteSync, CallFails,
         SyncAwaitTimeout, Restart, Runs, clientVars
<1>3. ASSUME NEW call \in calls, call.message.type \in {"changes", "syncComplete"}
      PROVE  call.message.update \in YDocs /\ IsTyped(call.message.update)
  <2>1. call.message \in Messages /\ UnderWay(call.message)
    BY <1>1 DEF UnderWay
  <2>2. QED
    BY <1>3, <2>1, MessageFields DEF SharedInv, UpdatesTyped
<1>4. ASSUME NEW call \in calls, ApplyDiff(call) \/ CompleteSync(call) \/ CallFails(call)
      PROVE  \/ UNCHANGED <<ydoc, stored>>
             \/ /\ call.message.type \in {"changes", "syncComplete"}
                /\ ydoc' = ApplyUpdate(ydoc, call.message.update)
                /\ stored' \in {stored, ydoc'}
  BY <1>4 DEF ApplyDiff, CompleteSync, CallFails, SavedBySync, Runs
<1>5. ASSUME NEW call \in calls, AnswerSyncStart(call) PROVE UNCHANGED <<ydoc, stored>>
  BY <1>5 DEF AnswerSyncStart, actorVars
<1>6. ASSUME NEW x \in syncAwait, SyncAwaitTimeout(x) PROVE UNCHANGED <<ydoc, stored>>
  BY <1>6 DEF SyncAwaitTimeout
<1>7. ASSUME Restart PROVE ydoc' = stored /\ UNCHANGED stored
  BY <1>7 DEF Restart
<1>8. QED
  BY <1>2, <1>3, <1>4, <1>5, <1>6, <1>7 DEF ActorNext

\* A client's step changes no document of the server, any other no client's.
LEMMA OneSideLearns ==
    /\ \A c \in Clients : ClientNext(c) => UNCHANGED <<ydoc, stored>>
    /\ InstanceNext \/ UNCHANGED vars => UNCHANGED <<doc, ydoc, stored>>
BY DEF ClientNext, Connect, Disconnect, Insert, Delete, Edit, OnJoinResponse,
       OnRequestSync, OnBroadcast, OnSyncResponse, Receives, SyncTimeout,
       InstanceNext, OnJoin, OnChanges, OnSyncMessage, Handles, HandleDisconnect,
       OnAnswer, OnChangesMessage, TopicLoses, vars, clientVars, actorVars

\* What an edit adds to the document.
LEMMA EditGains ==
    ASSUME doc \in [Clients -> YDocs], NEW c \in Clients, NEW o \in Op
    PROVE  /\ Insert(c, o) => \E u \in YDocs :
                  /\ u = [ops |-> {o}, dels |-> {}]
                  /\ doc' = [doc EXCEPT ![c] = ApplyUpdate(@, u)]
           /\ Delete(c, o) => \E u \in YDocs :
                  /\ u = [ops |-> {}, dels |-> {o}]
                  /\ doc' = [doc EXCEPT ![c] = ApplyUpdate(@, u)]
BY DEF Insert, Delete, Edit, YDocs

\* Whatever happens, what has been typed stays typed, and the author is the
\* first to have it.
LEMMA TypedStep ==
    ASSUME BaseInv, SharedInv, [Next]_vars
    PROVE  /\ \A u : IsTyped(u) => IsTyped(u)'
           /\ AuthorsHave'
<1>1. doc \in [Clients -> YDocs] /\ AuthorsHave
  BY DEF BaseInv, TypeOK, SharedInv
<1>2. ASSUME UNCHANGED doc PROVE (\A u : IsTyped(u) => IsTyped(u)') /\ AuthorsHave'
  BY <1>1, <1>2 DEF IsTyped, Typed, AuthorsHave
<1>3. ASSUME NEW c \in Clients, NEW u \in YDocs,
             doc' = [doc EXCEPT ![c] = ApplyUpdate(@, u)],
             \A o \in u.ops : o \in Typed.ops \/ Author[o] = c
      PROVE  (\A v : IsTyped(v) => IsTyped(v)') /\ AuthorsHave'
  <2>1. Typed' = ApplyUpdate(Typed, u)
    BY <1>1, <1>3, TypedGains
  <2>2. \A v : IsTyped(v) => IsTyped(v)'
    BY <2>1 DEF IsTyped, Covers, ApplyUpdate
  <2>3. /\ doc'[c].ops = doc[c].ops \cup u.ops
        /\ \A e \in Clients : doc[e].ops \subseteq doc'[e].ops
        /\ \A e \in Clients : e # c => doc'[e] = doc[e]
    BY <1>1, <1>3 DEF ApplyUpdate
  <2>4. ASSUME NEW e \in Clients, NEW o \in doc'[e].ops
        PROVE  o \in doc'[Author[o]].ops
    <3>1. o \in Op /\ Author[o] \in Clients
      <4>1. doc'[e].ops \subseteq Op
        BY <1>1, <1>3, <2>3 DEF YDocs
      <4>2. QED
        BY <4>1, AuthorAssumption
    <3>2. o \in Typed.ops => o \in doc'[Author[o]].ops
      BY <1>1, <2>3, <3>1, TypedItems DEF AuthorsHave
    <3>3. CASE o \in doc[e].ops
      BY <3>2, <3>3, TypedItems
    <3>4. CASE o \notin doc[e].ops
      <4>1. e = c /\ o \in u.ops
        BY <2>3, <3>4
      <4>2. QED
        BY <1>3, <3>2, <4>1
    <3>5. QED
      BY <3>3, <3>4
  <2>5. QED
    BY <2>2, <2>4 DEF AuthorsHave
<1>4. ASSUME NEW c \in Clients, ClientNext(c)
      PROVE  (\A u : IsTyped(u) => IsTyped(u)') /\ AuthorsHave'
  <2>1. ASSUME NEW u \in YDocs, IsTyped(u), doc' = [doc EXCEPT ![c] = ApplyUpdate(@, u)]
        PROVE  (\A v : IsTyped(v) => IsTyped(v)') /\ AuthorsHave'
    BY <1>3, <2>1 DEF IsTyped, Covers
  <2>2. ASSUME NEW o \in Op, Insert(c, o)
        PROVE  (\A u : IsTyped(u) => IsTyped(u)') /\ AuthorsHave'
    <3>1. Author[o] = c
      BY <2>2 DEF Insert
    <3>2. QED
      BY <1>1, <1>3, <2>2, <3>1, EditGains
  <2>3. ASSUME NEW o \in Op, Delete(c, o)
        PROVE  (\A u : IsTyped(u) => IsTyped(u)') /\ AuthorsHave'
    <3>1. PICK u \in YDocs : /\ u = [ops |-> {}, dels |-> {o}]
                             /\ doc' = [doc EXCEPT ![c] = ApplyUpdate(@, u)]
      BY <1>1, <2>3, EditGains
    <3>2. QED
      BY <1>3, <3>1
  <2>4. QED
    BY <1>2, <1>4, <2>1, <2>2, <2>3, ClientLearns
<1>5. CASE ActorNext
  BY <1>2, <1>5, ActorLearns
<1>6. CASE InstanceNext \/ UNCHANGED vars
  BY <1>2, <1>6, OneSideLearns
<1>7. QED
  BY <1>4, <1>5, <1>6 DEF Next

\* What is put under way has been typed.
LEMMA UpdatesStep ==
    ASSUME BaseInv, SharedInv, [Next]_vars PROVE UpdatesTyped'
<1>1. /\ \A u : IsTyped(u) => IsTyped(u)'
      /\ UpdatesTyped /\ IsTyped(ydoc)
  BY TypedStep DEF SharedInv
<1>2. BaseInv' /\ doc' \in [Clients -> YDocs] /\ ydoc \in YDocs
  BY BaseStep DEF BaseInv, TypeOK
<1>3. \A c \in Clients : IsTyped(doc[c])'
  BY <1>2 DEF Typed, IsTyped, Covers, YDocs
<1> DEFINE Bears(m) == m.type \in {"changes", "broadcast", "syncResponse", "syncComplete"}
<1>4. ASSUME NEW m \in Messages, UnderWay(m), Bears(m) PROVE IsTyped(m.update)'
  BY <1>1, <1>4 DEF UpdatesTyped
<1>5. ASSUME NEW m \in Messages, New(m), Bears(m), m.type # "broadcast"
      PROVE  IsTyped(m.update)'
  <2>1. CASE m.type = "changes"
    <3>1. PICK c \in Clients : Covers(doc'[c], m.update)
      BY <1>5, <2>1 DEF New, SyncResponse
    <3>2. QED
      BY <1>3, <3>1 DEF IsTyped, Covers
  <2>2. CASE m.type = "syncResponse"
    <3>1. PICK vector : m = SyncResponse(vector)
      BY <1>5, <2>2 DEF New
    <3>2. Covers(ydoc, m.update)
      BY <1>2, <3>1 DEF SyncResponse, StateAsUpdate, Covers
    <3>3. IsTyped(m.update)
      BY <1>1, <3>2 DEF IsTyped, Covers
    <3>4. QED
      BY <1>1, <3>3
  <2>3. CASE m.type = "syncComplete"
    <3>1. PICK n \in Messages, c \in Clients :
              m = SyncComplete(ReturnChanges(doc'[c], n.vector), doc'[c])
      BY <1>5, <2>3 DEF New, SyncResponse
    <3>2. Covers(doc'[c], m.update)
      BY <3>1 DEF SyncComplete, ReturnChanges, StateAsUpdate, Covers
    <3>3. QED
      BY <1>3, <3>2 DEF IsTyped, Covers
  <2>4. QED
    BY <1>5, <2>1, <2>2, <2>3
<1>6. ASSUME Next, NEW m \in Messages, UnderWay(m)', Bears(m), m.type # "broadcast"
      PROVE  IsTyped(m.update)'
  BY <1>4, <1>5, <1>6, Sends
<1>7. ASSUME Next, NEW call \in calls', call.message.type \in {"changes", "syncComplete"}
      PROVE  IsTyped(call.message.update)'
  <2>1. call.message \in Messages
    BY <1>2, <1>7 DEF BaseInv, TypeOK
  <2>2. UnderWay(call.message)'
    BY <1>7 DEF UnderWay
  <2>3. QED
    BY <1>6, <1>7, <2>1, <2>2
<1>8. ASSUME NEW t \in topic PROVE IsTyped(t.update)'
  BY <1>1 DEF UpdatesTyped
<1>9. CASE Next
  <2>1. ASSUME NEW m \in Messages, UnderWay(m)', m.type = "broadcast"
        PROVE  IsTyped(m.update)'
    <3>1. CASE UnderWay(m)
      BY <1>4, <2>1, <3>1
    <3>2. CASE New(m)
      <4>1. \/ \E t \in topic : t.update = m.update
            \/ \E call \in calls' : /\ call.message.type = "changes"
                                     /\ call.message.update = m.update
        BY <2>1, <3>2 DEF New, SyncResponse
      <4>2. QED
        BY <1>7, <1>8, <1>9, <4>1
    <3>3. QED
      BY <1>9, <2>1, <3>1, <3>2, Sends
  <2>2. ASSUME NEW t \in topic' PROVE IsTyped(t.update)'
    <3>1. CASE t \in topic
      BY <1>8, <3>1
    <3>2. CASE t \notin topic
      <4>1. PICK call \in calls' : Applying(call) /\ call.message.update = t.update
        BY <3>2, PublishedIsCalled
      <4>2. QED
        BY <1>7, <1>9, <4>1 DEF Applying
    <3>3. QED
      BY <3>1, <3>2
  <2>3. QED
    BY <1>6, <1>9, <2>1, <2>2 DEF UpdatesTyped
<1>10. CASE UNCHANGED vars
  <2>1. \A m \in Messages : UnderWay(m)' => UnderWay(m)
    BY <1>10 DEF vars, linkVars, UnderWay
  <2>2. topic' = topic
    BY <1>10 DEF vars, serverVars
  <2>3. QED
    BY <1>4, <1>8, <2>1, <2>2 DEF UpdatesTyped
<1>11. QED
  BY <1>9, <1>10

LEMMA InitShared == Init => SharedInv
<1> SUFFICES ASSUME Init PROVE SharedInv
  OBVIOUS
<1>1. \A m \in Messages : ~UnderWay(m)
  BY InitNothing
<1>2. AuthorsHave /\ topic = {} /\ IsTyped(ydoc) /\ Covers(ydoc, stored)
  BY DEF Init, AuthorsHave, EmptyYDoc, IsTyped, Covers
<1>3. QED
  BY <1>1, <1>2 DEF SharedInv, UpdatesTyped

LEMMA SharedStep ==
    ASSUME BaseInv, SharedInv, [Next]_vars PROVE SharedInv'
<1>1. AuthorsHave' /\ UpdatesTyped' /\ \A u : IsTyped(u) => IsTyped(u)'
  BY TypedStep, UpdatesStep
<1>2. ydoc \in YDocs /\ stored \in YDocs /\ IsTyped(ydoc) /\ Covers(ydoc, stored)
  BY DEF BaseInv, TypeOK, SharedInv
<1>3. ASSUME UNCHANGED <<ydoc, stored>> PROVE IsTyped(ydoc)' /\ Covers(ydoc', stored')
  <2>1. Covers(Typed', ydoc)
    BY <1>1, <1>2 DEF IsTyped
  <2>2. QED
    BY <1>2, <1>3, <2>1 DEF IsTyped
<1>4. ASSUME NEW u \in YDocs, UNCHANGED doc, IsTyped(u), ydoc' = ApplyUpdate(ydoc, u),
             stored' \in {stored, ydoc'}
      PROVE  IsTyped(ydoc)' /\ Covers(ydoc', stored')
  BY <1>2, <1>4 DEF IsTyped, Typed, Covers, ApplyUpdate
<1>5. ASSUME UNCHANGED doc, ydoc' = stored, UNCHANGED stored
      PROVE  IsTyped(ydoc)' /\ Covers(ydoc', stored')
  BY <1>2, <1>5 DEF IsTyped, Typed, Covers
<1>6. IsTyped(ydoc)' /\ Covers(ydoc', stored')
  BY <1>3, <1>4, <1>5, ActorLearns, OneSideLearns DEF Next
<1>7. QED
  BY <1>1, <1>6 DEF SharedInv

(* Collaboration implements SharedDoc, for every number of clients, instances,
   connections and operations, whatever fails, is lost or is restarted. *)
THEOREM SharedImplemented == Spec => SharedSpec
<1>1. Init => Shared!Init
  <2> SUFFICES ASSUME Init PROVE Shared!Init
    OBVIOUS
  <2>1. \A c \in Clients : doc[c].ops = {} /\ doc[c].dels = {}
    BY DEF Init, EmptyYDoc
  <2>2. Typed.ops = {} /\ Typed.dels = {}
    BY <2>1, TypedItems
  <2>3. Typed = Shared!EmptyYDoc
    BY <2>2 DEF Typed, Shared!EmptyYDoc
  <2>4. QED
    BY <2>3 DEF Init, Shared!Init, EmptyYDoc, Shared!EmptyYDoc
<1>2. BaseInv /\ SharedInv /\ [Next]_vars => [Shared!Next]_(Shared!vars)
  <2> SUFFICES ASSUME BaseInv, SharedInv, [Next]_vars PROVE [Shared!Next]_(Shared!vars)
    OBVIOUS
  <2>1. /\ doc \in [Clients -> YDocs] /\ ydoc \in YDocs /\ stored \in YDocs
        /\ ydoc' \in YDocs /\ stored' \in YDocs
        /\ AuthorsHave /\ Covers(ydoc, stored) /\ Covers(ydoc', stored')
    BY BaseStep, SharedStep DEF BaseInv, TypeOK, SharedInv
  <2>2. ASSUME UNCHANGED <<doc, ydoc, stored>> PROVE UNCHANGED Shared!vars
    BY <2>2 DEF Shared!vars, Typed
  <2>3. \A u \in YDocs : IsTyped(u) => u \in Shared!Parts
    BY DEF Shared!Parts, Shared!YDocs, Shared!Covers, YDocs, IsTyped, Covers
  <2>4. ASSUME NEW c \in Clients, NEW u \in YDocs, UNCHANGED <<ydoc, stored>>,
               doc' = [doc EXCEPT ![c] = ApplyUpdate(@, u)]
        PROVE  /\ Shared!Types(c, u)
               /\ IsTyped(u) => Shared!Learn(c)
    <3>1. Typed' = ApplyUpdate(Typed, u)
      BY <2>1, <2>4, TypedGains
    <3>2. IsTyped(u) => Typed' = Typed
      BY <3>1 DEF IsTyped, Covers, ApplyUpdate, Typed
    <3>3. doc' = [doc EXCEPT ![c] = Shared!ApplyUpdate(@, u)]
      BY <2>4 DEF ApplyUpdate, Shared!ApplyUpdate
    <3>4. Typed' = Shared!ApplyUpdate(Typed, u)
      BY <3>1 DEF ApplyUpdate, Shared!ApplyUpdate
    <3>5. QED
      BY <2>3, <2>4, <3>2, <3>3, <3>4 DEF Shared!Types, Shared!Learn
  <2>5. ASSUME NEW c \in Clients, NEW o \in Op, Insert(c, o), UNCHANGED <<ydoc, stored>>
        PROVE  Shared!Insert(c, o)
    <3>1. Author[o] = c /\ o \notin doc[c].ops /\ Past[o] \subseteq Integrated(doc[c])
      BY <2>5 DEF Insert
    <3>2. o \notin Typed.ops
      BY <2>1, <3>1, TypedItems DEF AuthorsHave
    <3>3. Integrated(doc[c]) = Shared!Integrated(doc[c])
      BY DEF Integrated, Shared!Integrated
    <3>4. Shared!Types(c, [ops |-> {o}, dels |-> {}])
      BY <2>1, <2>4, <2>5, EditGains
    <3>5. QED
      BY <3>1, <3>2, <3>3, <3>4 DEF Shared!Insert
  <2>6. ASSUME NEW c \in Clients, NEW o \in Op, Delete(c, o), UNCHANGED <<ydoc, stored>>
        PROVE  Shared!Delete(c, o)
    <3>1. o \in Shared!Integrated(doc[c])
      BY <2>6 DEF Delete, Integrated, Shared!Integrated
    <3>2. Shared!Types(c, [ops |-> {}, dels |-> {o}])
      BY <2>1, <2>4, <2>6, EditGains
    <3>3. QED
      BY <3>1, <3>2 DEF Shared!Delete
  <2>7. CASE \E c \in Clients : ClientNext(c)
    <3>1. PICK c \in Clients : ClientNext(c)
      BY <2>7
    <3>2. UNCHANGED <<ydoc, stored>>
      BY <3>1, OneSideLearns
    <3>3. CASE UNCHANGED doc
      BY <2>2, <3>2, <3>3
    <3>4. CASE \E o \in Op : Insert(c, o) \/ Delete(c, o)
      BY <2>5, <2>6, <3>2, <3>4 DEF Shared!Next
    <3>5. ASSUME NEW u \in YDocs, IsTyped(u), doc' = [doc EXCEPT ![c] = ApplyUpdate(@, u)]
          PROVE  Shared!Next
      BY <2>4, <3>2, <3>5 DEF Shared!Next
    <3>6. QED
      BY <3>1, <3>3, <3>4, <3>5, ClientLearns
  <2>8. CASE ActorNext
    <3>1. UNCHANGED doc /\ Typed' = Typed
      BY <2>8, ActorLearns DEF Typed
    <3>2. CASE UNCHANGED <<ydoc, stored>>
      BY <2>2, <3>1, <3>2
    <3>3. ASSUME NEW u \in YDocs, IsTyped(u), ydoc' = ApplyUpdate(ydoc, u)
          PROVE  Shared!Next
      <4>1. ydoc' = Shared!ApplyUpdate(ydoc, u)
        BY <3>3 DEF ApplyUpdate, Shared!ApplyUpdate
      <4>2. stored' \in Shared!YDocs /\ Shared!Covers(ydoc', stored')
        BY <2>1 DEF Shared!YDocs, YDocs, Shared!Covers, Covers
      <4>3. QED
        BY <2>3, <3>1, <3>3, <4>1, <4>2 DEF Shared!Next, Shared!ServerLearns
    <3>4. CASE ydoc' = stored /\ UNCHANGED stored
      BY <3>1, <3>4 DEF Shared!Next, Shared!ServerRestarts
    <3>5. QED
      BY <2>8, <3>2, <3>3, <3>4, ActorLearns
  <2>9. CASE InstanceNext \/ UNCHANGED vars
    BY <2>2, <2>9, OneSideLearns
  <2>10. QED
    BY <2>7, <2>8, <2>9 DEF Next
<1>3. Init => BaseInv /\ SharedInv
  BY InitBase, InitShared
<1>4. BaseInv /\ SharedInv /\ [Next]_vars => (BaseInv /\ SharedInv)'
  BY BaseStep, SharedStep
<1>5. QED
  BY <1>1, <1>2, <1>3, <1>4, PTL DEF Spec, SharedSpec, Shared!Spec

=============================================================================
