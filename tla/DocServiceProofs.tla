-------------------------- MODULE DocServiceProofs --------------------------
(***************************************************************************)
(* Proofs about DocService for every set of connections and documents, and *)
(* whatever is detached.                                                   *)
(***************************************************************************)
EXTENDS DocService, TLAPS

USE DEF State, Managers, DocOf

\* The manager a join uses is a manager of the document it joins.
LEMMA ManagerForProperties ==
    ASSUME NEW s \in State, NEW d \in Docs,
           Has(s, d) \/ FreeManagers(s, d) # {},
           Has(s, d) => DocOf(s.docs[d]) = d
    PROVE  /\ ManagerFor(s, d) \in Managers
           /\ DocOf(ManagerFor(s, d)) = d
           /\ Has(s, d) => ManagerFor(s, d) = s.docs[d]
           /\ ~Has(s, d) => ManagerFor(s, d) \in FreeManagers(s, d)
<1>1. CASE Has(s, d)
  BY <1>1 DEF Has, ManagerFor
<1>2. CASE ~Has(s, d)
  <2>1. ManagerFor(s, d) \in FreeManagers(s, d)
    BY <1>2 DEF ManagerFor
  <2> QED BY <2>1, <1>2 DEF FreeManagers
<1> QED BY <1>1, <1>2

\* Type correctness of the operators the actions are made of.
LEMMA JoinDocsType ==
    ASSUME NEW s \in State, NEW c \in Connections, NEW D \in SUBSET Docs,
           CanJoin(s, D),
           \A d \in Docs : Has(s, d) => DocOf(s.docs[d]) = d
    PROVE  JoinDocs(s, c, D) \in State
<1>1. \A d \in D : ManagerFor(s, d) \in Managers
  BY ManagerForProperties DEF CanJoin
<1>2. \A d \in Docs : Members(s, d) \in SUBSET Connections
  BY DEF Members, Has
<1> QED BY <1>1, <1>2 DEF JoinDocs, Indexed

LEMMA DetachDocsType ==
    ASSUME NEW s \in State, NEW c \in Connections, NEW D \in SUBSET Docs
    PROVE  DetachDocs(s, c, D) \in State
BY DEF DetachDocs, EmptiedByDetach

LEMMA DisconnectType ==
    ASSUME NEW s \in State, NEW c \in Connections
    PROVE  Disconnect(s, c) \in State
BY DEF Disconnect, EmptiedByDisconnect, Left

LEMMA DestroyAllType ==
    ASSUME NEW s \in State
    PROVE  DestroyAll(s) \in State
BY DEF DestroyAll

-----------------------------------------------------------------------------
RegistryInv == TypeOK /\ NoEmptyManager

LEMMA RegistryInit == Init => RegistryInv
BY NoManagerAssumption
   DEF Init, EmptyState, RegistryInv, TypeOK, NoEmptyManager, Has

\* A join puts somebody in every manager it registers.
LEMMA RegistryJoin ==
    ASSUME RegistryInv, NEW c \in Connections, NEW D \in SUBSET Docs,
           CanJoin(reg, D), reg' = JoinDocs(reg, c, D), sent' = {},
           UNCHANGED <<serving, detached>>
    PROVE  RegistryInv'
<1>1. reg \in State /\ \A d \in Docs : Has(reg, d) => DocOf(reg.docs[d]) = d
  BY DEF RegistryInv, TypeOK, NoEmptyManager
<1>2. TypeOK'
  BY <1>1, JoinDocsType DEF RegistryInv, TypeOK
<1>3. ASSUME NEW d \in Docs, Has(reg, d)'
      PROVE  /\ DocOf(reg'.docs[d]) = d
             /\ serving' => ~IsEmpty(reg, reg.docs[d])'
  <2>1. CASE d \in D
    <3>1. /\ ManagerFor(reg, d) \in Managers
          /\ DocOf(ManagerFor(reg, d)) = d
      BY <2>1, <1>1, ManagerForProperties DEF CanJoin
    <3>2. reg'.docs[d] = ManagerFor(reg, d)
      BY <2>1 DEF JoinDocs, Indexed
    <3>3. c \in reg'.connections[ManagerFor(reg, d)]
      BY <2>1, <3>1 DEF JoinDocs, Indexed
    <3> QED BY <3>1, <3>2, <3>3 DEF IsEmpty
  <2>2. CASE d \notin D
    <3>1. reg'.docs[d] = reg.docs[d]
      BY <2>2 DEF JoinDocs, Indexed
    <3>2. reg.docs[d] \in Managers /\ DocOf(reg.docs[d]) = d
      BY <1>1, <1>3, <3>1 DEF Has
    <3>3. serving => reg.connections[reg.docs[d]] # {}
      BY <1>3, <3>1 DEF RegistryInv, NoEmptyManager, IsEmpty, Has
    <3>4. ASSUME NEW e \in D PROVE ManagerFor(reg, e) # reg.docs[d]
      <4>1. DocOf(ManagerFor(reg, e)) = e
        BY <1>1, ManagerForProperties DEF CanJoin
      <4> QED BY <4>1, <2>2, <3>2
    <3>5. reg'.connections[reg.docs[d]] = reg.connections[reg.docs[d]]
      BY <3>2, <3>4 DEF JoinDocs, Indexed
    <3> QED BY <3>1, <3>2, <3>3, <3>5 DEF IsEmpty
  <2> QED BY <2>1, <2>2
<1> QED BY <1>2, <1>3 DEF RegistryInv, NoEmptyManager

LEMMA RegistryDetach ==
    ASSUME RegistryInv, NEW c \in Connections, NEW D \in SUBSET Docs,
           OnDetachDocMessage(c, D)
    PROVE  RegistryInv'
<1>1. /\ reg \in State /\ reg' = DetachDocs(reg, c, D)
      /\ serving' = serving /\ detached' = detached \cup {c}
  BY DEF RegistryInv, TypeOK, OnDetachDocMessage
<1>2. TypeOK'
  <2>1. reg' \in State
    BY <1>1, DetachDocsType
  <2>2. sent' = {}
    BY DEF OnDetachDocMessage
  <2> QED BY <1>1, <2>1, <2>2 DEF RegistryInv, TypeOK
<1>3. ASSUME NEW d \in Docs, Has(reg, d)'
      PROVE  /\ DocOf(reg'.docs[d]) = d
             /\ serving' => ~IsEmpty(reg, reg.docs[d])'
  <2>1. reg'.docs[d] = reg.docs[d] /\ Has(reg, d)
    BY <1>1, <1>3 DEF DetachDocs, EmptiedByDetach, Has
  <2>2. reg.docs[d] \in Managers /\ DocOf(reg.docs[d]) = d
    BY <1>1, <2>1 DEF Has, RegistryInv, NoEmptyManager
  <2>3. serving => reg.connections[reg.docs[d]] # {}
    BY <2>1 DEF RegistryInv, NoEmptyManager, IsEmpty
  <2>4. ~(d \in D /\ Joined(reg, c, d) /\ reg.connections[reg.docs[d]] = {c})
    BY <1>1, <1>3 DEF DetachDocs, EmptiedByDetach, Has
  <2>5. ASSUME NEW e \in Docs, e # d, Has(reg, e)
        PROVE  reg.docs[e] # reg.docs[d]
    BY <2>5, <2>2 DEF RegistryInv, NoEmptyManager
  <2>6. \/ reg'.connections[reg.docs[d]] = reg.connections[reg.docs[d]]
        \/ /\ d \in D /\ Joined(reg, c, d)
           /\ reg'.connections[reg.docs[d]] = reg.connections[reg.docs[d]] \ {c}
    <3>1. reg'.connections[reg.docs[d]] =
              IF d \in D THEN reg.connections[reg.docs[d]] \ {c}
                         ELSE reg.connections[reg.docs[d]]
      <4>1. (\E e \in D : reg.docs[d] = reg.docs[e]) <=> d \in D
        BY <2>2, <2>5, NoManagerAssumption DEF Has
      <4> QED BY <1>1, <2>2, <4>1 DEF DetachDocs
    <3> QED BY <2>1, <3>1 DEF Joined, Contains
  <2>7. serving => reg'.connections[reg.docs[d]] # {}
    BY <2>3, <2>4, <2>6 DEF Joined, Contains
  <2> QED BY <1>1, <2>1, <2>2, <2>7 DEF IsEmpty
<1> QED BY <1>2, <1>3 DEF RegistryInv, NoEmptyManager

LEMMA RegistryDisconnect ==
    ASSUME RegistryInv, NEW c \in Connections, OnDisconnect(c)
    PROVE  RegistryInv'
<1>1. /\ reg \in State /\ reg' = Disconnect(reg, c)
      /\ serving' = serving /\ detached' = detached
  BY DEF RegistryInv, TypeOK, OnDisconnect
<1>2. TypeOK'
  <2>1. reg' \in State
    BY <1>1, DisconnectType
  <2>2. sent' = {}
    BY DEF OnDisconnect
  <2> QED BY <1>1, <2>1, <2>2 DEF RegistryInv, TypeOK
<1>3. ASSUME NEW d \in Docs, Has(reg, d)'
      PROVE  /\ DocOf(reg'.docs[d]) = d
             /\ serving' => ~IsEmpty(reg, reg.docs[d])'
  <2>1. reg'.docs[d] = reg.docs[d] /\ Has(reg, d)
    BY <1>1, <1>3 DEF Disconnect, EmptiedByDisconnect, Left, Has
  <2>2. reg.docs[d] \in Managers /\ DocOf(reg.docs[d]) = d
    BY <1>1, <2>1 DEF Has, RegistryInv, NoEmptyManager
  <2>3. serving => reg.connections[reg.docs[d]] # {}
    BY <2>1 DEF RegistryInv, NoEmptyManager, IsEmpty
  <2>4. \A m \in reg.connectionsToDocs[c] :
            DocOf(m) = d => ~(reg.connections[m] \subseteq {c})
    BY <1>1, <1>3 DEF Disconnect, EmptiedByDisconnect, Left, Has
  <2>5. CASE reg.docs[d] \in reg.connectionsToDocs[c]
    <3>1. reg'.connections[reg.docs[d]] = reg.connections[reg.docs[d]] \ {c}
      BY <1>1, <2>2, <2>5 DEF Disconnect, EmptiedByDisconnect, Left
    <3>2. ~(reg.connections[reg.docs[d]] \subseteq {c})
      BY <2>2, <2>4, <2>5
    <3> QED BY <1>1, <2>1, <2>2, <3>1, <3>2 DEF IsEmpty
  <2>6. CASE reg.docs[d] \notin reg.connectionsToDocs[c]
    <3>1. reg'.connections[reg.docs[d]] = reg.connections[reg.docs[d]]
      BY <1>1, <2>2, <2>6 DEF Disconnect, EmptiedByDisconnect, Left
    <3> QED BY <1>1, <2>1, <2>2, <2>3, <3>1 DEF IsEmpty
  <2> QED BY <2>5, <2>6
<1> QED BY <1>2, <1>3 DEF RegistryInv, NoEmptyManager

LEMMA RegistryStep == RegistryInv /\ [Next]_vars => RegistryInv'
<1> SUFFICES ASSUME RegistryInv, [Next]_vars PROVE RegistryInv'
  OBVIOUS
<1> USE DEF RegistryInv
<1>1. ASSUME NEW c \in Connections, NEW d \in Docs, JoinToDoc(c, d)
      PROVE  RegistryInv'
  BY <1>1, RegistryJoin DEF JoinToDoc
<1>2. ASSUME NEW c \in Connections, NEW D \in SUBSET Docs,
             OnAttachDocMessage(c, D)
      PROVE  RegistryInv'
  BY <1>2, RegistryJoin DEF OnAttachDocMessage
<1>3. ASSUME NEW c \in Connections, NEW D \in SUBSET DetachableDocs,
             OnDetachDocMessage(c, D)
      PROVE  RegistryInv'
  BY <1>3, RegistryDetach, DetachableDocsAssumption
<1>4. ASSUME NEW c \in Connections, OnDisconnect(c)
      PROVE  RegistryInv'
  BY <1>4, RegistryDisconnect
<1>5. ASSUME NEW c \in Connections, NEW d \in Docs,
             Apply(c, d) \/ OnRelayedMessage(c, d)
      PROVE  RegistryInv'
  <2>1. reg' = reg /\ serving' = serving /\ detached' = detached
    BY <1>5 DEF Apply, OnRelayedMessage
  <2>2. Has(reg, d) => BroadcastTo(c, d) \subseteq Connections \X Docs
    BY DEF BroadcastTo, Broadcast, Has, TypeOK
  <2>3. sent' \subseteq Connections \X Docs
    BY <1>5, <2>2 DEF Apply, OnRelayedMessage, Joined
  <2> QED BY <2>1, <2>3 DEF TypeOK, NoEmptyManager, Has, IsEmpty
<1>6. ASSUME OnModuleDestroy
      PROVE  RegistryInv'
  <2>1. TypeOK'
    BY <1>6, DestroyAllType DEF OnModuleDestroy, TypeOK
  <2>2. reg'.docs = reg.docs /\ ~serving'
    BY <1>6 DEF OnModuleDestroy, DestroyAll, TypeOK
  <2> QED BY <2>1, <2>2 DEF NoEmptyManager, Has
<1>7. ASSUME UNCHANGED vars
      PROVE  RegistryInv'
  BY <1>7 DEF vars, TypeOK, NoEmptyManager, Has, IsEmpty
<1> QED BY <1>1, <1>2, <1>3, <1>4, <1>5, <1>6, <1>7 DEF Next

\* Type correctness of the three maps, whatever is detached.
THEOREM TypeCorrect == Spec => []TypeOK
<1>1. RegistryInv => TypeOK
  BY DEF RegistryInv
<1> QED BY <1>1, RegistryInit, RegistryStep, PTL DEF Spec

\* docs never holds the manager of a document everyone has left, nor one of
\* another document, whatever is joined, detached and disconnected.
THEOREM NoEmptyManagerHolds == Spec => []NoEmptyManager
<1>1. RegistryInv => NoEmptyManager
  BY DEF RegistryInv
<1> QED BY <1>1, RegistryInit, RegistryStep, PTL DEF Spec

-----------------------------------------------------------------------------
(***************************************************************************)
(* What the index is good for: completeness for everybody who has not been *)
(* detached, and the rest as long as nobody has.                           *)
(***************************************************************************)
IndexInv ==
    /\ RegistryInv
    /\ IndexComplete
    /\ IndexSound
    /\ NoOrphanedManager

\* What a join does to each manager's connections and to each index entry.
LEMMA JoinEffect ==
    ASSUME RegistryInv, NEW c \in Connections, NEW D \in SUBSET Docs,
           CanJoin(reg, D), reg' = JoinDocs(reg, c, D)
    PROVE  /\ \A d \in D : /\ ManagerFor(reg, d) \in Managers
                           /\ DocOf(ManagerFor(reg, d)) = d
                           /\ Has(reg, d) => ManagerFor(reg, d) = reg.docs[d]
                           /\ ~Has(reg, d) =>
                                  /\ Members(reg, d) = {}
                                  /\ \A c2 \in Connections :
                                         ManagerFor(reg, d)
                                             \notin reg.connectionsToDocs[c2]
                           /\ reg'.docs[d] = ManagerFor(reg, d)
                           /\ reg'.connections[ManagerFor(reg, d)]
                                 = Members(reg, d) \cup {c}
           /\ \A d \in Docs \ D : reg'.docs[d] = reg.docs[d]
           /\ \A m \in Managers : (\A d \in D : m # ManagerFor(reg, d)) =>
                  reg'.connections[m] = reg.connections[m]
           /\ reg'.connectionsToDocs[c] =
                  reg.connectionsToDocs[c] \cup {ManagerFor(reg, d) : d \in D}
           /\ \A c2 \in Connections \ {c} :
                  reg'.connectionsToDocs[c2] = reg.connectionsToDocs[c2]
<1>1. reg \in State /\ \A d \in Docs : Has(reg, d) => DocOf(reg.docs[d]) = d
  BY DEF RegistryInv, TypeOK, NoEmptyManager
<1>2. ASSUME NEW d \in D
      PROVE  /\ ManagerFor(reg, d) \in Managers
             /\ DocOf(ManagerFor(reg, d)) = d
             /\ Has(reg, d) => ManagerFor(reg, d) = reg.docs[d]
             /\ ~Has(reg, d) => ManagerFor(reg, d) \in FreeManagers(reg, d)
  <2>1. Has(reg, d) \/ FreeManagers(reg, d) # {}
    BY DEF CanJoin
  <2> QED BY <1>1, <2>1, ManagerForProperties
<1>3. \A d \in D : ~Has(reg, d) =>
          /\ Members(reg, d) = {}
          /\ \A c2 \in Connections :
                 ManagerFor(reg, d) \notin reg.connectionsToDocs[c2]
  BY <1>2 DEF FreeManagers, Members
<1>4. ASSUME NEW d \in D
      PROVE  /\ reg'.docs[d] = ManagerFor(reg, d)
             /\ reg'.connections[ManagerFor(reg, d)] = Members(reg, d) \cup {c}
  BY <1>2 DEF JoinDocs, Indexed
<1>5. \A d \in Docs \ D : reg'.docs[d] = reg.docs[d]
  BY DEF JoinDocs, Indexed
<1>6. \A m \in Managers : (\A d \in D : m # ManagerFor(reg, d)) =>
          reg'.connections[m] = reg.connections[m]
  BY DEF JoinDocs, Indexed
<1>7. /\ reg'.connectionsToDocs[c] =
            reg.connectionsToDocs[c] \cup {ManagerFor(reg, d) : d \in D}
      /\ \A c2 \in Connections \ {c} :
            reg'.connectionsToDocs[c2] = reg.connectionsToDocs[c2]
  BY <1>1 DEF JoinDocs, Indexed
<1> QED BY <1>2, <1>3, <1>4, <1>5, <1>6, <1>7

\* What a disconnect does, when the index is sound and complete.
LEMMA DisconnectEffect ==
    ASSUME IndexInv, Undetached, NEW c \in Connections, reg' = Disconnect(reg, c)
    PROVE  /\ \A m \in Managers : reg'.connections[m] = reg.connections[m] \ {c}
           /\ \A d \in Docs :
                  \/ reg'.docs[d] = reg.docs[d]
                  \/ /\ reg'.docs[d] = NoManager
                     /\ Has(reg, d) /\ reg.connections[reg.docs[d]] = {c}
           /\ reg'.connectionsToDocs[c] = {}
           /\ \A c2 \in Connections \ {c} :
                  reg'.connectionsToDocs[c2] = reg.connectionsToDocs[c2]
<1>1. reg \in State
  BY DEF IndexInv, RegistryInv, TypeOK
<1>2. ASSUME NEW m \in Managers
      PROVE  reg'.connections[m] = reg.connections[m] \ {c}
  BY <1>1 DEF Disconnect, EmptiedByDisconnect, Left, IndexInv, IndexComplete,
                 Undetached, Contains
<1>3. ASSUME NEW d \in Docs, reg'.docs[d] # reg.docs[d]
      PROVE  /\ reg'.docs[d] = NoManager
             /\ Has(reg, d) /\ reg.connections[reg.docs[d]] = {c}
  <2>1. PICK m \in reg.connectionsToDocs[c] :
            reg.connections[m] \subseteq {c} /\ DocOf(m) = d
    BY <1>1, <1>3 DEF Disconnect, EmptiedByDisconnect, Left
  <2>2. m \in Managers /\ reg.connections[m] = {c}
    BY <1>1, <2>1 DEF IndexInv, IndexSound, Contains
  <2>3. reg.docs[d] = m
    BY <2>1, <2>2 DEF IndexInv, NoOrphanedManager, IsEmpty
  <2>4. reg'.docs[d] = NoManager
    BY <1>1, <1>3 DEF Disconnect, EmptiedByDisconnect, Left
  <2> QED BY <1>3, <2>2, <2>3, <2>4 DEF Has
<1>4. /\ reg'.connectionsToDocs[c] = {}
      /\ \A c2 \in Connections \ {c} :
            reg'.connectionsToDocs[c2] = reg.connectionsToDocs[c2]
  BY <1>1 DEF Disconnect, EmptiedByDisconnect, Left
<1> QED BY <1>2, <1>3, <1>4

LEMMA IndexInit == Init => IndexInv
<1> SUFFICES ASSUME Init PROVE IndexInv
  OBVIOUS
<1>1. RegistryInv
  BY RegistryInit
<1>2. IndexComplete /\ IndexSound /\ NoOrphanedManager
  BY DEF Init, EmptyState, IndexComplete, IndexSound, NoOrphanedManager,
         Contains, IsEmpty
<1> QED BY <1>1, <1>2 DEF IndexInv

LEMMA IndexJoin ==
    ASSUME IndexInv, NEW c \in Connections, NEW D \in SUBSET Docs,
           CanJoin(reg, D), reg' = JoinDocs(reg, c, D),
           UNCHANGED <<serving, detached>>
    PROVE  IndexComplete' /\ IndexSound' /\ NoOrphanedManager'
<1>1. RegistryInv /\ reg \in State
  BY DEF IndexInv, RegistryInv, TypeOK
<1>u. Undetached' = Undetached /\ detached' = detached /\ serving' = serving
  BY DEF Undetached
<1> DEFINE joined == {ManagerFor(reg, d) : d \in D}
<1>2. \A m \in joined : /\ m \in Managers /\ DocOf(m) \in D
                        /\ reg'.docs[DocOf(m)] = m
                        /\ \/ /\ Has(reg, DocOf(m)) /\ m = reg.docs[DocOf(m)]
                              /\ reg'.connections[m] = reg.connections[m] \cup {c}
                           \/ /\ reg'.connections[m] = {c}
                              /\ \A c2 \in Connections :
                                     m \notin reg.connectionsToDocs[c2]
  BY <1>1, JoinEffect DEF Members
<1>3. \A m \in Managers \ joined : reg'.connections[m] = reg.connections[m]
  BY <1>1, JoinEffect
<1>4. /\ reg'.connectionsToDocs[c] = reg.connectionsToDocs[c] \cup joined
      /\ \A c2 \in Connections \ {c} :
            reg'.connectionsToDocs[c2] = reg.connectionsToDocs[c2]
  BY <1>1, JoinEffect
<1> HIDE DEF joined
<1>5. IndexComplete'
  BY <1>1, <1>u, <1>2, <1>3, <1>4 DEF IndexInv, IndexComplete, Contains
<1>6. IndexSound'
  BY <1>1, <1>u, <1>2, <1>3, <1>4 DEF IndexInv, IndexSound, Contains
<1>7. ASSUME Undetached, NEW m \in Managers, reg'.connections[m] # {}
      PROVE  reg'.docs[DocOf(m)] = m
  <2>1. CASE m \in joined
    BY <1>2, <2>1
  <2>2. CASE m \notin joined
    <3>1. reg.docs[DocOf(m)] = m
      BY <1>3, <1>7, <2>2 DEF IndexInv, NoOrphanedManager, IsEmpty
    <3>2. DocOf(m) \notin D
      BY <1>1, <2>2, <3>1, JoinEffect, NoManagerAssumption DEF joined, Has
    <3> QED BY <1>1, <3>1, <3>2, JoinEffect
  <2> QED BY <2>1, <2>2
<1>8. NoOrphanedManager'
  BY <1>u, <1>7 DEF NoOrphanedManager, IsEmpty
<1> QED BY <1>5, <1>6, <1>8

\* A detach leaves the managers and the index entries of everybody else as
\* they are; of the detached connection nothing is claimed.
LEMMA IndexDetach ==
    ASSUME IndexInv, NEW c \in Connections, NEW D \in SUBSET Docs,
           OnDetachDocMessage(c, D)
    PROVE  IndexComplete' /\ IndexSound' /\ NoOrphanedManager'
<1>1. /\ reg \in State /\ reg' = DetachDocs(reg, c, D)
      /\ serving' = serving /\ detached' = detached \cup {c}
  BY DEF IndexInv, RegistryInv, TypeOK, OnDetachDocMessage
<1>2. \A c2 \in Connections \ {c} :
          reg'.connectionsToDocs[c2] = reg.connectionsToDocs[c2]
  BY <1>1 DEF DetachDocs, EmptiedByDetach
<1>3. \A m \in Managers : reg'.connections[m] \subseteq reg.connections[m]
  BY <1>1 DEF DetachDocs
<1>4. IndexComplete'
  BY <1>1, <1>2, <1>3 DEF IndexInv, IndexComplete, Contains
<1>5. ~Undetached'
  BY <1>1 DEF Undetached
<1> QED BY <1>4, <1>5 DEF IndexSound, NoOrphanedManager

LEMMA IndexDisconnect ==
    ASSUME IndexInv, NEW c \in Connections, reg' = Disconnect(reg, c),
           UNCHANGED <<serving, detached>>
    PROVE  IndexComplete' /\ IndexSound' /\ NoOrphanedManager'
<1>1. reg \in State
  BY DEF IndexInv, RegistryInv, TypeOK
<1>u. Undetached' = Undetached /\ detached' = detached /\ serving' = serving
  BY DEF Undetached
<1>2. /\ \A m \in Managers : reg'.connections[m] =
             IF m \in reg.connectionsToDocs[c] THEN reg.connections[m] \ {c}
                                               ELSE reg.connections[m]
      /\ \A c2 \in Connections \ {c} :
             reg'.connectionsToDocs[c2] = reg.connectionsToDocs[c2]
  BY <1>1 DEF Disconnect, Left
<1>3. IndexComplete'
  <2> SUFFICES ASSUME serving, NEW c2 \in Connections \ detached,
                      NEW m \in Managers, c2 \in reg'.connections[m]
               PROVE  m \in reg'.connectionsToDocs[c2]
    BY <1>u DEF IndexComplete, Contains
  <2>1. c2 \in reg.connections[m]
    BY <1>2
  <2>2. m \in reg.connectionsToDocs[c2]
    BY <2>1 DEF IndexInv, IndexComplete, Contains
  <2>3. c2 # c
    BY <1>2, <2>2
  <2> QED BY <1>2, <2>2, <2>3
<1> SUFFICES ASSUME Undetached
             PROVE  IndexSound' /\ NoOrphanedManager'
  BY <1>u, <1>3 DEF IndexSound, NoOrphanedManager
<1>4. \A m \in Managers : reg'.connections[m] = reg.connections[m] \ {c}
  BY DisconnectEffect
<1>5. reg'.connectionsToDocs[c] = {}
  BY DisconnectEffect
<1>6. IndexSound'
  BY <1>1, <1>2, <1>4, <1>5 DEF IndexInv, IndexSound, Contains
<1>7. ASSUME NEW m \in Managers, reg'.connections[m] # {}
      PROVE  reg'.docs[DocOf(m)] = m
  <2>1. reg.docs[DocOf(m)] = m
    BY <1>4, <1>7 DEF IndexInv, NoOrphanedManager, IsEmpty
  <2> QED BY <1>4, <1>7, <2>1, DisconnectEffect
<1> QED BY <1>6, <1>7 DEF NoOrphanedManager, IsEmpty

LEMMA IndexStep == IndexInv /\ [Next]_vars => IndexInv'
<1> SUFFICES ASSUME IndexInv, [Next]_vars PROVE IndexInv'
  OBVIOUS
<1>r. RegistryInv'
  BY RegistryStep DEF IndexInv
<1> SUFFICES IndexComplete' /\ IndexSound' /\ NoOrphanedManager'
  BY <1>r DEF IndexInv
<1>1. ASSUME NEW c \in Connections, NEW d \in Docs, JoinToDoc(c, d)
      PROVE  IndexComplete' /\ IndexSound' /\ NoOrphanedManager'
  BY <1>1, IndexJoin DEF JoinToDoc
<1>2. ASSUME NEW c \in Connections, NEW D \in SUBSET Docs,
             OnAttachDocMessage(c, D)
      PROVE  IndexComplete' /\ IndexSound' /\ NoOrphanedManager'
  BY <1>2, IndexJoin DEF OnAttachDocMessage
<1>3. ASSUME NEW c \in Connections, OnDisconnect(c)
      PROVE  IndexComplete' /\ IndexSound' /\ NoOrphanedManager'
  BY <1>3, IndexDisconnect DEF OnDisconnect
<1>4. ASSUME OnModuleDestroy
      PROVE  IndexComplete' /\ IndexSound' /\ NoOrphanedManager'
  BY <1>4 DEF OnModuleDestroy, IndexComplete, IndexSound, NoOrphanedManager,
              Undetached
<1>5. ASSUME reg' = reg, serving' = serving, detached' = detached
      PROVE  IndexComplete' /\ IndexSound' /\ NoOrphanedManager'
  BY <1>5 DEF IndexInv, IndexComplete, IndexSound, NoOrphanedManager,
              Undetached, Contains, IsEmpty
<1>6. ASSUME NEW c \in Connections, NEW D \in SUBSET DetachableDocs,
             OnDetachDocMessage(c, D)
      PROVE  IndexComplete' /\ IndexSound' /\ NoOrphanedManager'
  BY <1>6, IndexDetach, DetachableDocsAssumption
<1> QED BY <1>1, <1>2, <1>3, <1>4, <1>5, <1>6
        DEF Next, vars, Apply, OnRelayedMessage

\* The index that disconnect walks finds every manager a connection is in,
\* unless that very connection has been detached from some document: whatever
\* happens to others, no closed connection stays behind in a document.
THEOREM IndexCompleteHolds == Spec => []IndexComplete
<1>1. IndexInv => IndexComplete
  BY DEF IndexInv
<1>2. Init => IndexInv
  BY IndexInit
<1>3. IndexInv /\ [Next]_vars => IndexInv'
  BY IndexStep
<1> QED BY <1>1, <1>2, <1>3, PTL DEF Spec

\* Until somebody is detached, a manager with connections is the registered
\* one, so no relayed change is dropped while somebody waits for it.
THEOREM NoOrphanedManagerHolds == Spec => []NoOrphanedManager
<1>1. IndexInv => NoOrphanedManager
  BY DEF IndexInv
<1>2. Init => IndexInv
  BY IndexInit
<1>3. IndexInv /\ [Next]_vars => IndexInv'
  BY IndexStep
<1> QED BY <1>1, <1>2, <1>3, PTL DEF Spec

-----------------------------------------------------------------------------
(***************************************************************************)
(* The implementation of DocMembership.                                    *)
(***************************************************************************)
LEMMA JoinedPairsJoin ==
    ASSUME RegistryInv, NEW c \in Connections, NEW D \in SUBSET Docs,
           CanJoin(reg, D), reg' = JoinDocs(reg, c, D)
    PROVE  JoinedPairs' = JoinedPairs \cup ({c} \X D)
<1>1. reg \in State /\ \A d \in Docs : Has(reg, d) => DocOf(reg.docs[d]) = d
  BY DEF RegistryInv, TypeOK, NoEmptyManager
<1>2. ASSUME NEW c2 \in Connections, NEW d \in Docs
      PROVE  Joined(reg, c2, d)' <=> Joined(reg, c2, d) \/ (c2 = c /\ d \in D)
  <2>1. CASE d \in D
    <3>1. /\ reg'.docs[d] \in Managers
          /\ reg'.connections[reg'.docs[d]] = Members(reg, d) \cup {c}
      BY <2>1, JoinEffect
    <3> QED BY <2>1, <3>1, NoManagerAssumption DEF Joined, Has, Contains, Members
  <2>2. CASE d \notin D
    <3>1. reg'.docs[d] = reg.docs[d]
      BY <2>2, JoinEffect
    <3>2. ASSUME Has(reg, d)
          PROVE  reg'.connections[reg.docs[d]] = reg.connections[reg.docs[d]]
      <4>1. reg.docs[d] \in Managers /\ DocOf(reg.docs[d]) = d
        BY <1>1, <3>2 DEF Has
      <4>2. \A e \in D : reg.docs[d] # ManagerFor(reg, e)
        BY <2>2, <4>1, JoinEffect
      <4> QED BY <4>1, <4>2, JoinEffect
    <3> QED BY <2>2, <3>1, <3>2 DEF Joined, Has, Contains
  <2> QED BY <2>1, <2>2
<1>3. ASSUME NEW p \in Connections \X Docs
      PROVE  p \in JoinedPairs' <=> p \in JoinedPairs \cup ({c} \X D)
  BY <1>2 DEF JoinedPairs
<1> QED BY <1>3 DEF JoinedPairs

LEMMA JoinedPairsDisconnect ==
    ASSUME IndexInv, Undetached, NEW c \in Connections, reg' = Disconnect(reg, c)
    PROVE  JoinedPairs' = JoinedPairs \ ({c} \X Docs)
<1>1. reg \in State
  BY DEF IndexInv, RegistryInv, TypeOK
<1>2. ASSUME NEW c2 \in Connections, NEW d \in Docs
      PROVE  Joined(reg, c2, d)' <=> Joined(reg, c2, d) /\ c2 # c
  <2>1. CASE reg'.docs[d] = reg.docs[d]
    <3>1. Has(reg, d) =>
            reg'.connections[reg.docs[d]] = reg.connections[reg.docs[d]] \ {c}
      BY <1>1, DisconnectEffect DEF Has
    <3> QED BY <2>1, <3>1 DEF Joined, Has, Contains
  <2>2. CASE reg'.docs[d] # reg.docs[d]
    <3>1. /\ reg'.docs[d] = NoManager
          /\ Has(reg, d) /\ reg.connections[reg.docs[d]] = {c}
      BY <2>2, DisconnectEffect
    <3> QED BY <3>1 DEF Joined, Has, Contains
  <2> QED BY <2>1, <2>2
<1>3. ASSUME NEW p \in Connections \X Docs
      PROVE  p \in JoinedPairs' <=> p \in JoinedPairs \ ({c} \X Docs)
  BY <1>2 DEF JoinedPairs
<1> QED BY <1>3 DEF JoinedPairs

LEMMA MembersOfDoc ==
    ASSUME NEW d \in Docs, RegistryInv
    PROVE  Membership!MembersOf(d) = Members(reg, d)
BY DEF Membership!MembersOf, JoinedPairs, Members, Joined, Has, Contains,
       RegistryInv, TypeOK

LEMMA MembershipInit == Init => Membership!Init
BY DEF Init, EmptyState, Membership!Init, JoinedPairs, Joined, Has, Undetached

LEMMA MembershipStep ==
    IndexInv /\ [Next]_vars => [Membership!Next]_Membership!vars
<1> SUFFICES ASSUME IndexInv, [Next]_vars
             PROVE  [Membership!Next]_Membership!vars
  OBVIOUS
<1>0. RegistryInv /\ reg \in State /\ Undetached \in BOOLEAN
  BY DEF IndexInv, RegistryInv, TypeOK, Undetached
<1>a. ASSUME ~Undetached, ~Undetached'
      PROVE  Membership!Next
  BY <1>a, <1>0 DEF Membership!Next, Undetached
<1>b. ASSUME Undetached, NEW c \in Connections, NEW D \in SUBSET Docs,
             CanJoin(reg, D), reg' = JoinDocs(reg, c, D), sent' = {},
             UNCHANGED <<serving, detached>>
      PROVE  Membership!Next
  <2>1. Membership!Join(c, D)
    BY <1>0, <1>b, JoinedPairsJoin DEF Membership!Join
  <2>2. Undetached' = Undetached
    BY <1>b DEF Undetached
  <2> QED BY <1>b, <2>1, <2>2 DEF Membership!Next
<1>1. ASSUME Undetached, NEW c \in Connections, NEW d \in Docs, JoinToDoc(c, d)
      PROVE  Membership!Next
  BY <1>1, <1>b DEF JoinToDoc
<1>2. ASSUME Undetached, NEW c \in Connections, NEW D \in SUBSET Docs,
             OnAttachDocMessage(c, D)
      PROVE  Membership!Next
  BY <1>2, <1>b DEF OnAttachDocMessage
<1>3. ASSUME Undetached, ~Undetached'
      PROVE  Membership!Next
  BY <1>3 DEF Membership!Next, Membership!Withdraw, Undetached
<1>4. ASSUME Undetached, NEW c \in Connections, OnDisconnect(c)
      PROVE  Membership!Next
  <2>1. Membership!Leave(c, Docs)
    BY <1>4, JoinedPairsDisconnect DEF OnDisconnect, Membership!Leave
  <2>2. Undetached' = Undetached
    BY <1>4 DEF OnDisconnect, Undetached
  <2> QED BY <1>4, <2>1, <2>2 DEF Membership!Next
<1>c. ASSUME Undetached, NEW c \in Connections, NEW d \in Docs,
             UNCHANGED <<reg, serving, detached>>,
             sent' = (Members(reg, d) \ {c}) \X {d}
      PROVE  Membership!Next
  <2>1. JoinedPairs' = JoinedPairs /\ Undetached' = Undetached
    BY <1>c DEF JoinedPairs, Joined, Has, Contains, Undetached
  <2>2. Membership!Deliver(c, d)
    BY <1>0, <1>c, <2>1, MembersOfDoc DEF Membership!Deliver
  <2> QED BY <1>c, <2>1, <2>2 DEF Membership!Next
<1>d. ASSUME Undetached, NEW c \in Connections,
             UNCHANGED <<reg, serving, detached>>, sent' = {}
      PROVE  Membership!Next
  <2>1. JoinedPairs' = JoinedPairs /\ Undetached' = Undetached
    BY <1>d DEF JoinedPairs, Joined, Has, Contains, Undetached
  <2>2. Membership!Leave(c, {})
    BY <1>d, <2>1 DEF Membership!Leave
  <2> QED BY <1>d, <2>1, <2>2 DEF Membership!Next
<1>5. ASSUME Undetached, NEW c \in Connections, NEW d \in Docs, Apply(c, d)
      PROVE  Membership!Next
  <2>1. Joined(reg, c, d) => BroadcastTo(c, d) = (Members(reg, d) \ {c}) \X {d}
    BY DEF Joined, BroadcastTo, Broadcast, Members
  <2> QED BY <1>5, <1>c, <1>d, <2>1 DEF Apply
<1>6. ASSUME Undetached, NEW c \in Connections, NEW d \in Docs,
             OnRelayedMessage(c, d)
      PROVE  Membership!Next
  <2>1. Has(reg, d) => BroadcastTo(c, d) = (Members(reg, d) \ {c}) \X {d}
    BY DEF BroadcastTo, Broadcast, Members
  <2> QED BY <1>6, <1>c, <1>d, <2>1 DEF OnRelayedMessage
<1>7. ASSUME NEW c \in Connections, NEW D \in SUBSET DetachableDocs,
             OnDetachDocMessage(c, D)
      PROVE  ~Undetached'
  BY <1>7 DEF OnDetachDocMessage, Undetached
<1>8. OnModuleDestroy => ~Undetached'
  BY DEF OnModuleDestroy, Undetached
<1>9. ASSUME UNCHANGED vars
      PROVE  UNCHANGED Membership!vars
  BY <1>9 DEF vars, Membership!vars, JoinedPairs, Joined, Has, Contains,
              Undetached
<1>10. Next /\ Undetached' => Undetached
  BY DEF Next, JoinToDoc, OnAttachDocMessage, OnDetachDocMessage,
         OnDisconnect, Apply, OnRelayedMessage, OnModuleDestroy, Undetached
<1>11. CASE Next /\ Undetached
  BY <1>11, <1>1, <1>2, <1>3, <1>4, <1>5, <1>6, <1>7, <1>8 DEF Next
<1>12. CASE Next /\ ~Undetached
  BY <1>12, <1>10, <1>a
<1> QED BY <1>9, <1>11, <1>12

\* DocService implements DocMembership: until somebody is detached, every
\* change and every awareness message goes to exactly the connections joined
\* to its document, but its author.
THEOREM MembershipImplemented == Spec => MembershipSpec
<1>1. Init => IndexInv /\ Membership!Init
  BY IndexInit, MembershipInit
<1>2. IndexInv /\ [Next]_vars => IndexInv'
  BY IndexStep
<1>3. IndexInv /\ [Next]_vars => [Membership!Next]_Membership!vars
  BY MembershipStep
<1> QED BY <1>1, <1>2, <1>3, PTL DEF Spec, MembershipSpec, Membership!Spec

=============================================================================
