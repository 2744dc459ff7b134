------------------------ MODULE TokenLifecycleProofs ------------------------
(***************************************************************************)
(* Proofs about TokenLifecycle, for every set of tokens and requests and   *)
(* however many updates are made at a time.                                *)
(***************************************************************************)
EXTENDS TokenLifecycle, TLAPS

\* A token that has been revoked for good has a record, and there is nobody
\* left who would make another one.
RevokedForGood ==
    \A t \in Tokens :
        revoked[t] = "final" => live[t] = 0 /\ tainted[t] > 0 /\ ~RecordUnderWay(t)

\* The new token of an update that is about to be published has its record,
\* unless another update has replaced it already.
CreatedBeforePublished ==
    \A u \in Updaters :
        At(u, "publish") => \/ live[Doing(u).new] > 0
                            \/ revoked[Doing(u).new] # "no"

IInv == TypeOK /\ RevokedForGood /\ CreatedBeforePublished /\ PublishedAccepted

\* What an updateToken under way is at is one of the updates it was asked for.
LEMMA DoingUpdate ==
    ASSUME TypeOK, NEW u \in Updaters, work[u].todo # <<>>
    PROVE  /\ Doing(u) \in Update
           /\ Doing(u).old \in Tokens /\ Doing(u).new \in Tokens
           /\ Tail(work[u].todo) \in Seq(Update)
<1>1. work[u].todo \in Seq(Update)
  BY DEF TypeOK
<1>2. Head(work[u].todo) \in Update /\ Tail(work[u].todo) \in Seq(Update)
  BY <1>1
<1>3. QED
  BY <1>2 DEF Doing, Update

\* The records and requests of the initial state are none.
LEMMA InitInvariant == Init => IInv
BY BoundsAssumption
   DEF Init, IInv, TypeOK, RevokedForGood, CreatedBeforePublished,
       PublishedAccepted, Idle, Steps, Update, At

\* Every step keeps the types.
LEMMA TypeStep == TypeOK /\ [Next]_vars => TypeOK'
<1> SUFFICES ASSUME TypeOK, [Next]_vars PROVE TypeOK'
  OBVIOUS
<1>1. ASSUME NEW t \in Tokens, CheckClientToken(t) PROVE TypeOK'
  BY <1>1, BoundsAssumption DEF TypeOK, CheckClientToken
<1>2. ASSUME NEW t \in Tokens, CreateLands(t) PROVE TypeOK'
  BY <1>2 DEF TypeOK, CreateLands
<1>3. ASSUME NEW t \in Tokens, CreateFails(t) PROVE TypeOK'
  BY <1>3 DEF TypeOK, CreateFails
<1>4. ASSUME NEW u \in Updaters, NEW r \in Requests, Begin(u, r) PROVE TypeOK'
  <2>1. r \in Seq(Update)
    BY RequestsAssumption
  <2>2. work' \in [Updaters -> [todo : Seq(Update), step : Steps]]
    BY <1>4, <2>1 DEF TypeOK, Begin, Steps
  <2>3. QED
    BY <1>4, <2>2, BoundsAssumption DEF TypeOK, Begin
<1>5. ASSUME NEW u \in Updaters, Find(u) PROVE TypeOK'
  <2>1. work' \in [Updaters -> [todo : Seq(Update), step : Steps]]
    <3>1. CASE Found(Doing(u).new)
      <4>1. Idle \in [todo : Seq(Update), step : Steps]
        BY DEF Idle, Steps
      <4>2. QED
        BY <1>5, <3>1, <4>1 DEF TypeOK, Find
    <3>2. CASE ~Found(Doing(u).new)
      <4>1. GoesOn(u, "taint")
        BY <1>5, <3>2 DEF Find
      <4>2. [todo |-> work[u].todo, step |-> "taint"] \in [todo : Seq(Update), step : Steps]
        BY DEF TypeOK, Steps
      <4>3. QED
        BY <4>1, <4>2 DEF TypeOK, GoesOn
    <3>3. QED
      BY <3>1, <3>2
  <2>2. QED
    BY <1>5, <2>1 DEF TypeOK, Find
<1>6. ASSUME NEW u \in Updaters, Taint(u) PROVE TypeOK'
  <2>1. work' \in [Updaters -> [todo : Seq(Update), step : Steps]]
    BY <1>6 DEF TypeOK, Taint, GoesOn, Steps
  <2>2. live' \in [Tokens -> Nat] /\ tainted' \in [Tokens -> Nat]
    BY <1>6 DEF TypeOK, Taint, Left, Taints
  <2>3. revoked' \in [Tokens -> {"no", "open", "final"}]
    BY <1>6 DEF TypeOK, Taint
  <2>4. QED
    BY <1>6, <2>1, <2>2, <2>3 DEF TypeOK, Taint
<1>7. ASSUME NEW u \in Updaters, Create(u) PROVE TypeOK'
  <2>1. work' \in [Updaters -> [todo : Seq(Update), step : Steps]]
    BY <1>7 DEF TypeOK, Create, GoesOn, Steps
  <2>2. live' \in [Tokens -> Nat]
    <3>1. Doing(u).new \in Tokens
      BY <1>7, DoingUpdate DEF Create, At
    <3>2. QED
      BY <1>7, <3>1 DEF TypeOK, Create
  <2>3. QED
    BY <1>7, <2>1, <2>2 DEF TypeOK, Create
<1>8. ASSUME NEW u \in Updaters, Publish(u) PROVE TypeOK'
  <2>1. Doing(u) \in Update /\ Tail(work[u].todo) \in Seq(Update)
    BY <1>8, DoingUpdate DEF Publish, At
  <2>2. work' \in [Updaters -> [todo : Seq(Update), step : Steps]]
    BY <1>8, <2>1 DEF TypeOK, Publish, Steps
  <2>3. QED
    BY <1>8, <2>1, <2>2 DEF TypeOK, Publish
<1>9. ASSUME NEW u \in Updaters, Ends(u) PROVE TypeOK'
  <2>1. work' \in [Updaters -> [todo : Seq(Update), step : Steps]]
    BY <1>9 DEF TypeOK, Ends, Idle, Steps
  <2>2. QED
    BY <1>9, <2>1 DEF TypeOK, Ends
<1>10. CASE UNCHANGED vars
  BY <1>10 DEF TypeOK, vars
<1>11. QED
  BY <1>1, <1>2, <1>3, <1>4, <1>5, <1>6, <1>7, <1>8, <1>9, <1>10 DEF Next

\* No step gives a token that is revoked for good a record that is not tainted,
\* or someone who would make one.
LEMMA RevokedStep == TypeOK /\ RevokedForGood /\ [Next]_vars => RevokedForGood'
<1> SUFFICES ASSUME TypeOK, RevokedForGood, [Next]_vars, NEW t \in Tokens,
                    revoked'[t] = "final"
             PROVE  live'[t] = 0 /\ tainted'[t] > 0 /\ ~RecordUnderWay(t)'
  BY DEF RevokedForGood
<1> DEFINE About(v) == (At(v, "taint") \/ At(v, "create")) /\ Doing(v).new = t
<1>0. revoked[t] = "final" => live[t] = 0 /\ tainted[t] > 0 /\ creating[t] = 0
                              /\ \A v \in Updaters : ~About(v)
  BY DEF RevokedForGood, RecordUnderWay, TypeOK
<1> DEFINE Stays == /\ live'[t] = 0 /\ tainted'[t] > 0 /\ creating'[t] = 0
                    /\ \A v \in Updaters : ~About(v)'
<1> SUFFICES Stays
  BY DEF RecordUnderWay
<1>1. ASSUME NEW s \in Tokens, CheckClientToken(s) PROVE Stays
  <2>1. revoked[t] = "final" /\ s # t
    BY <1>0, <1>1 DEF CheckClientToken, Found
  <2>2. QED
    BY <1>0, <1>1, <2>1 DEF CheckClientToken, TypeOK, At, Doing
<1>2. ASSUME NEW s \in Tokens, CreateLands(s) PROVE Stays
  BY <1>0, <1>2 DEF CreateLands, TypeOK, At, Doing
<1>3. ASSUME NEW s \in Tokens, CreateFails(s) PROVE Stays
  BY <1>0, <1>3 DEF CreateFails, TypeOK, At, Doing
<1>4. ASSUME NEW u \in Updaters, NEW r \in Requests, Begin(u, r) PROVE Stays
  BY <1>0, <1>4 DEF Begin, TypeOK, At, Doing
<1>5. ASSUME NEW u \in Updaters, Find(u) PROVE Stays
  <2>1. Found(t)
    BY <1>0, <1>5 DEF Find, Found
  <2>2. QED
    BY <1>0, <1>5, <2>1 DEF Find, TypeOK, At, Doing, GoesOn, Idle
<1>6. ASSUME NEW u \in Updaters, Taint(u) PROVE Stays
  <2>1. CASE revoked[t] = "final"
    BY <1>0, <1>6, <2>1 DEF Taint, TypeOK, At, Doing, GoesOn, Taints, Left
  <2>2. CASE revoked[t] # "final"
    <3>1. t = Doing(u).old /\ Found(t) /\ ~RecordUnderWay(t)
      BY <1>6, <2>2 DEF Taint, TypeOK
    <3>2. live'[t] = 0 /\ tainted'[t] > 0
      BY <1>6, <3>1 DEF Taint, TypeOK, Taints, Left, Found
    <3>3. creating'[t] = 0 /\ \A v \in Updaters : ~About(v)'
      BY <1>6, <3>1 DEF Taint, TypeOK, RecordUnderWay, At, Doing, GoesOn
    <3>4. QED
      BY <3>2, <3>3
  <2>3. QED
    BY <2>1, <2>2
<1>7. ASSUME NEW u \in Updaters, Create(u) PROVE Stays
  <2>1. revoked[t] = "final" /\ Doing(u).new # t
    BY <1>0, <1>7 DEF Create
  <2>2. QED
    BY <1>0, <1>7, <2>1 DEF Create, TypeOK, At, Doing, GoesOn
<1>8. ASSUME NEW u \in Updaters, Publish(u) PROVE Stays
  BY <1>0, <1>8 DEF Publish, TypeOK, At, Doing
<1>9. ASSUME NEW u \in Updaters, Ends(u) PROVE Stays
  BY <1>0, <1>9 DEF Ends, TypeOK, At, Doing, Idle
<1>10. CASE UNCHANGED vars
  BY <1>0, <1>10 DEF vars, At, Doing
<1>11. QED
  BY <1>1, <1>2, <1>3, <1>4, <1>5, <1>6, <1>7, <1>8, <1>9, <1>10 DEF Next

\* A token that has a record that is not tainted, or has been replaced, stays so.
LEMMA AcceptedStep ==
    ASSUME TypeOK, [Next]_vars, NEW t \in Tokens,
           live[t] > 0 \/ revoked[t] # "no"
    PROVE  live'[t] > 0 \/ revoked'[t] # "no"
<1>1. ASSUME NEW s \in Tokens, CheckClientToken(s) \/ CreateLands(s) \/ CreateFails(s)
      PROVE live'[t] > 0 \/ revoked'[t] # "no"
  BY <1>1 DEF TypeOK, CheckClientToken, CreateLands, CreateFails
<1>2. ASSUME NEW u \in Updaters, Taint(u) PROVE live'[t] > 0 \/ revoked'[t] # "no"
  BY <1>2 DEF TypeOK, Taint, Taints
<1>3. ASSUME NEW u \in Updaters, Create(u) PROVE live'[t] > 0 \/ revoked'[t] # "no"
  BY <1>3 DEF TypeOK, Create
<1>4. QED
  BY <1>1, <1>2, <1>3 DEF Next, Begin, Find, Publish, Ends, vars

\* What is about to be published has been created.
LEMMA PublishableStep ==
    TypeOK /\ CreatedBeforePublished /\ [Next]_vars => CreatedBeforePublished'
<1> SUFFICES ASSUME TypeOK, CreatedBeforePublished, [Next]_vars,
                    NEW u \in Updaters, At(u, "publish")'
             PROVE  live'[Doing(u)'.new] > 0 \/ revoked'[Doing(u)'.new] # "no"
  BY DEF CreatedBeforePublished
<1> DEFINE Waits == At(u, "publish") /\ work'[u] = work[u]
<1>1. CASE Waits
  <2>1. Doing(u)' = Doing(u) /\ Doing(u).new \in Tokens
    BY <1>1, DoingUpdate DEF At, Doing
  <2>2. QED
    BY <1>1, <2>1, AcceptedStep DEF CreatedBeforePublished
<1>2. CASE Create(u)
  <2>1. Doing(u)' = Doing(u) /\ Doing(u).new \in Tokens
    BY <1>2, DoingUpdate DEF Create, At, Doing, GoesOn, TypeOK
  <2>2. QED
    BY <1>2, <2>1 DEF Create, TypeOK
<1>3. QED
  <2>1. ASSUME NEW v \in Updaters, NEW r \in Requests, Begin(v, r) PROVE Waits
    BY <2>1 DEF Begin, At, TypeOK
  <2>2. ASSUME NEW v \in Updaters,
               Find(v) \/ Taint(v) \/ Publish(v) \/ Ends(v)
        PROVE Waits
    BY <2>2 DEF Find, Taint, Publish, Ends, At, GoesOn, Idle, TypeOK
  <2>3. ASSUME NEW v \in Updaters, Create(v), v # u PROVE Waits
    BY <2>3 DEF Create, At, GoesOn, TypeOK
  <2>4. ASSUME NEW s \in Tokens, CheckClientToken(s) \/ CreateLands(s) \/ CreateFails(s)
        PROVE Waits
    BY <2>4 DEF CheckClientToken, CreateLands, CreateFails, At
  <2>5. CASE UNCHANGED vars
    BY <1>1, <2>5 DEF vars, At
  <2>6. QED
    BY <1>1, <1>2, <2>1, <2>2, <2>3, <2>4, <2>5 DEF Next

\* What has been published was about to be.
LEMMA PublishedStep ==
    TypeOK /\ CreatedBeforePublished /\ PublishedAccepted /\ [Next]_vars
        => PublishedAccepted'
<1> SUFFICES ASSUME TypeOK, CreatedBeforePublished, PublishedAccepted, [Next]_vars,
                    NEW p \in published'
             PROVE  live'[p.new] > 0 \/ revoked'[p.new] # "no"
  BY DEF PublishedAccepted
<1>1. CASE p \in published
  <2>1. p.new \in Tokens
    BY <1>1 DEF TypeOK, Update
  <2>2. QED
    BY <1>1, <2>1, AcceptedStep DEF PublishedAccepted
<1>2. CASE p \notin published
  <2>1. PICK u \in Updaters : Publish(u) /\ p = Doing(u)
    BY <1>2 DEF Next, CheckClientToken, CreateLands, CreateFails, Begin, Find,
                Taint, Create, Publish, Ends, vars
  <2>2. p.new \in Tokens
    BY <2>1, DoingUpdate DEF Publish, At
  <2>3. QED
    BY <2>1, <2>2, AcceptedStep DEF Publish, CreatedBeforePublished
<1>3. QED
  BY <1>1, <1>2

LEMMA Invariant == Spec => []IInv
<1>1. IInv /\ [Next]_vars => IInv'
  BY TypeStep, RevokedStep, PublishableStep, PublishedStep DEF IInv
<1>2. QED
  BY InitInvariant, <1>1, PTL DEF Spec

(* The records, requests and histories of TokenLifecycle keep their types:
   updateMany never leaves fewer records than none. *)
THEOREM TypeCorrect == Spec => []TypeOK
<1>1. IInv => TypeOK
  BY DEF IInv
<1>2. QED
  BY Invariant, <1>1, PTL

(* A token whose records an update has tainted, with no record of it on its way,
   is refused ever after, for any number of tokens, checks and updates. *)
THEOREM RevokedRefusedHolds == Spec => []RevokedRefused
<1>1. IInv => RevokedRefused
  BY DEF IInv, RevokedForGood, RevokedRefused, MayAccept, Found
<1>2. QED
  BY Invariant, <1>1, PTL

(* A published new token has a record that is not tainted until an update
   replaces it, for any number of competing updates. *)
THEOREM PublishedAcceptedHolds == Spec => []PublishedAccepted
<1>1. IInv => PublishedAccepted
  BY DEF IInv
<1>2. QED
  BY Invariant, <1>1, PTL

=============================================================================
