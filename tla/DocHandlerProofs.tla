-------------------------- MODULE DocHandlerProofs --------------------------
(***************************************************************************)
(* Proofs about the document actor, for every set of users, operations and *)
(* updates, and whatever fails.  What is logged is proved for ever; what   *)
(* is stored until the late state of a failed call arrives.                *)
(***************************************************************************)
EXTENDS DocHandler, TLAPS

\* Facts about documents as sets of operations and deletions.
LEMMA UpdateType ==
    ASSUME NEW d \in YDocs, NEW e \in YDocs
    PROVE  ApplyUpdate(d, e) \in YDocs
BY DEF ApplyUpdate, YDocs

LEMMA EmptyType == EmptyYDoc \in YDocs
BY DEF EmptyYDoc, YDocs

LEMMA UpdateCovers ==
    ASSUME NEW d \in YDocs, NEW e \in YDocs
    PROVE  /\ Covers(ApplyUpdate(d, e), d)
           /\ Covers(ApplyUpdate(d, e), e)
BY DEF ApplyUpdate, Covers

LEMMA UpdateOfEmpty ==
    ASSUME NEW d \in YDocs
    PROVE  ApplyUpdate(EmptyYDoc, d) = d
BY DEF ApplyUpdate, EmptyYDoc, YDocs

LEMMA FullStateIsDoc ==
    ASSUME ydoc \in YDocs
    PROVE  FullState = ydoc
BY DEF FullState, StateAsUpdate, YDocs

LEMMA CoversTransitive ==
    ASSUME NEW d, NEW e, NEW f, Covers(d, e), Covers(e, f)
    PROVE  Covers(d, f)
BY DEF Covers

LEMMA CoversReflexive ==
    ASSUME NEW d
    PROVE  Covers(d, d)
BY DEF Covers

LEMMA SavingType ==
    ASSUME NEW call \in {"applyDiff", "syncComplete"}, NEW user \in Users,
           NEW update \in Updates
    PROVE  /\ Saving(call, user, update) \in Turns
           /\ Saving(call, user, update) # Idle
           /\ Saving(call, user, update).update = update
           /\ Saving(call, user, update).awaits = {"state", "update"}
<1>1. Saving(call, user, update) \in
          [call : {"applyDiff", "syncComplete"}, user : Users,
           update : Updates, awaits : SUBSET {"state", "update"}]
  BY DEF Saving
<1>2. Saving(call, user, update).call # Idle.call
  BY DEF Saving, Idle
<1> QED BY <1>1, <1>2 DEF Turns, Saving

\* What a write that is done leaves of the call.
LEMMA DoneType ==
    ASSUME turn \in Turns, NEW write \in {"state", "update"},
           Awaits(write), Done(write)
    PROVE  /\ turn' \in Turns /\ turn' # Idle
           /\ turn'.update = turn.update /\ turn.update \in Updates
           /\ turn'.awaits = turn.awaits \ {write}
<1>1. turn \in [call : {"applyDiff", "syncComplete"}, user : Users,
                update : Updates, awaits : SUBSET {"state", "update"}]
  BY DEF Awaits, Turns
<1>2. turn' \in [call : {"applyDiff", "syncComplete"}, user : Users,
                 update : Updates, awaits : SUBSET {"state", "update"}]
  BY <1>1 DEF Done
<1>3. turn'.call # Idle.call
  BY <1>2 DEF Idle
<1> QED BY <1>1, <1>2, <1>3 DEF Turns, Done

LEMMA TurnType ==
    ASSUME turn \in Turns, turn # Idle
    PROVE  /\ turn.update \in Updates /\ turn.user \in Users
           /\ turn.awaits \subseteq {"state", "update"}
BY DEF Turns

-----------------------------------------------------------------------------
LEMMA TypeInit == Init => TypeOK
BY EmptyType DEF Init, TypeOK, Turns

LEMMA TypeStep == TypeOK /\ [Next]_vars => TypeOK'
<1> SUFFICES ASSUME TypeOK, [Next]_vars PROVE TypeOK'
  OBVIOUS
<1>0. FullState \in YDocs /\ Idle \in Turns /\ EmptyYDoc \in YDocs
  BY FullStateIsDoc, EmptyType DEF TypeOK, Turns
<1>1. CASE Activate
  BY <1>0, <1>1, UpdateType DEF Activate, LoadedState, TypeOK, mongoVars, ackVars
<1>2. ASSUME NEW user \in Users, NEW update \in Updates,
             ApplyDiff(user, update)
      PROVE  TypeOK'
  BY <1>2, UpdateType, SavingType, UpdatesAssumption
     DEF ApplyDiff, TypeOK, mongoVars, ackVars
<1>3. ASSUME NEW user \in Users, NEW update \in Updates,
             SyncComplete(user, update)
      PROVE  TypeOK'
  <2>1. ydoc' \in YDocs
    BY <1>3, UpdateType, UpdatesAssumption DEF SyncComplete, TypeOK
  <2>2. turn' \in Turns /\ synced' \subseteq Updates
    BY <1>0, <1>3, SavingType DEF SyncComplete, TypeOK
  <2> QED BY <1>3, <2>1, <2>2 DEF SyncComplete, TypeOK, mongoVars
<1>4. CASE ApplyDiffReturns
  <2>1. turn # Idle
    BY <1>4 DEF ApplyDiffReturns, Idle
  <2> QED BY <1>0, <1>4, <2>1, TurnType
          DEF ApplyDiffReturns, TypeOK, mongoVars
<1>5. CASE SyncCompleteReturns
  <2>1. turn # Idle
    BY <1>5 DEF SyncCompleteReturns, Idle
  <2> QED BY <1>0, <1>5, <2>1, TurnType
          DEF SyncCompleteReturns, TypeOK, mongoVars
<1>6. ASSUME NEW user \in Users, SyncAwaitTimeout(user)
      PROVE  TypeOK'
  BY <1>6 DEF SyncAwaitTimeout, TypeOK, mongoVars, ackVars
<1>7. CASE StateWritten
  BY <1>0, <1>7, DoneType DEF StateWritten, TypeOK, ackVars
<1>8. CASE UpdateLogged
  BY <1>8, DoneType DEF UpdateLogged, TypeOK, ackVars
<1>9. ASSUME NEW write \in {"state", "update"}, WriteFails(write)
      PROVE  TypeOK'
  <2>1. turn # Idle
    BY <1>9 DEF WriteFails, Awaits
  <2> QED BY <1>0, <1>9, <2>1, TurnType DEF WriteFails, TypeOK, ackVars
<1>10. ASSUME NEW state \in lateStates, LateStateWritten(state)
       PROVE  TypeOK'
  BY <1>10 DEF LateStateWritten, TypeOK, actorVars, ackVars
<1>11. ASSUME NEW update \in lateUpdates, LateUpdateLogged(update)
       PROVE  TypeOK'
  BY <1>11 DEF LateUpdateLogged, TypeOK, actorVars, ackVars
<1>12. CASE Deactivate
  BY <1>0, <1>12 DEF Deactivate, TypeOK, mongoVars, ackVars
<1>13. CASE Crash
  <2>1. store' \in YDocs /\ overtaken' \in BOOLEAN
    BY <1>0, <1>13 DEF Crash, TypeOK
  <2>2. history' \subseteq Updates
    BY <1>13, TurnType DEF Crash, TypeOK, Awaits
  <2> QED BY <1>0, <1>13, <2>1, <2>2 DEF Crash, TypeOK, ackVars
<1>14. CASE UNCHANGED vars
  BY <1>14 DEF TypeOK, vars, actorVars, mongoVars, ackVars
<1> QED BY <1>1, <1>2, <1>3, <1>4, <1>5, <1>6, <1>7, <1>8, <1>9, <1>10,
           <1>11, <1>12, <1>13, <1>14 DEF Next

\* Type correctness, whether writes fail or not.
THEOREM TypeCorrect == Spec => []TypeOK
BY TypeInit, TypeStep, PTL DEF Spec

-----------------------------------------------------------------------------
(* The log.                                                                *)

\* A call that no longer awaits its log entry has it in the log.
LoggedInv ==
    /\ TypeOK
    /\ AppliedLogged
    /\ turn # Idle /\ "update" \notin turn.awaits => turn.update \in history

LEMMA LoggedStep == LoggedInv /\ [Next]_vars => LoggedInv'
<1> SUFFICES ASSUME LoggedInv, [Next]_vars PROVE LoggedInv'
  OBVIOUS
<1>t. TypeOK /\ TypeOK'
  BY TypeStep DEF LoggedInv
<1> DEFINE TurnLogged ==
        turn # Idle /\ "update" \notin turn.awaits => turn.update \in history
<1> SUFFICES AppliedLogged' /\ TurnLogged'
  BY <1>t DEF LoggedInv
<1> USE DEF LoggedInv, AppliedLogged
<1>1. CASE Activate \/ Deactivate \/ \E user \in Users : SyncAwaitTimeout(user)
  BY <1>1 DEF Activate, Deactivate, SyncAwaitTimeout, mongoVars, ackVars
<1>2. ASSUME NEW user \in Users, NEW update \in Updates,
             ApplyDiff(user, update) \/ SyncComplete(user, update)
      PROVE  AppliedLogged' /\ TurnLogged'
  BY <1>2, SavingType DEF ApplyDiff, SyncComplete, mongoVars, ackVars
<1>3. CASE ApplyDiffReturns
  <2>1. turn # Idle
    BY <1>3 DEF ApplyDiffReturns, Idle
  <2> QED BY <1>3, <2>1 DEF ApplyDiffReturns, mongoVars
<1>4. CASE SyncCompleteReturns
  BY <1>4 DEF SyncCompleteReturns, mongoVars
<1>5. CASE StateWritten
  BY <1>t, <1>5, DoneType DEF StateWritten, TypeOK, ackVars, Awaits
<1>6. CASE UpdateLogged
  BY <1>t, <1>6, DoneType DEF UpdateLogged, TypeOK, ackVars
<1>7. ASSUME NEW write \in {"state", "update"}, WriteFails(write)
      PROVE  AppliedLogged' /\ TurnLogged'
  BY <1>7 DEF WriteFails, ackVars
<1>8. ASSUME NEW state \in lateStates, LateStateWritten(state)
      PROVE  AppliedLogged' /\ TurnLogged'
  BY <1>8 DEF LateStateWritten, actorVars, ackVars
<1>9. ASSUME NEW update \in lateUpdates, LateUpdateLogged(update)
      PROVE  AppliedLogged' /\ TurnLogged'
  BY <1>9 DEF LateUpdateLogged, actorVars, ackVars
<1>10. CASE Crash
  BY <1>10 DEF Crash, ackVars
<1>11. CASE UNCHANGED vars
  BY <1>11 DEF vars, actorVars, mongoVars, ackVars
<1> QED BY <1>1, <1>2, <1>3, <1>4, <1>5, <1>6, <1>7, <1>8, <1>9, <1>10,
           <1>11 DEF Next

\* An update whose applyDiff has returned is in the changes history, whatever
\* fails.
THEOREM AppliedLoggedHolds == Spec => []AppliedLogged
<1>1. Init => LoggedInv
  BY TypeInit DEF Init, LoggedInv, AppliedLogged
<1>2. LoggedInv => AppliedLogged
  BY DEF LoggedInv
<1> QED BY <1>1, <1>2, LoggedStep, PTL DEF Spec

-----------------------------------------------------------------------------
(* The stored state, until a late one arrives.                             *)

StoredInv ==
    /\ TypeOK
    /\ AppliedStored
    /\ MemoryCoversStore
    /\ turn # Idle =>
           /\ active
           /\ Covers(ydoc, turn.update)
           /\ ~overtaken /\ "state" \notin turn.awaits => Covers(store, turn.update)

LEMMA StoredInit == Init => StoredInv
BY TypeInit DEF Init, StoredInv, AppliedStored, MemoryCoversStore

\* Nothing takes the flag back.
LEMMA OvertakenStays == overtaken /\ [Next]_vars => overtaken'
BY DEF Next, Activate, ApplyDiff, SyncComplete, ApplyDiffReturns,
       SyncCompleteReturns, SyncAwaitTimeout, StateWritten, UpdateLogged,
       WriteFails, LateStateWritten, LateUpdateLogged, Deactivate, Crash,
       vars, ackVars

\* The record only grows.
LEMMA StoreGrows ==
    StoredInv /\ [Next]_vars /\ ~overtaken' => Covers(store', store)
<1> SUFFICES ASSUME StoredInv, [Next]_vars, ~overtaken'
             PROVE  Covers(store', store)
  OBVIOUS
<1>0. FullState = ydoc /\ ~overtaken
  BY FullStateIsDoc, OvertakenStays DEF StoredInv, TypeOK
<1>1. CASE StateWritten
  BY <1>0, <1>1 DEF StateWritten, Awaits, StoredInv, MemoryCoversStore
<1>2. CASE Crash
  BY <1>0, <1>2, CoversReflexive DEF Crash, StoredInv, MemoryCoversStore
<1>3. ASSUME NEW state \in lateStates
      PROVE  ~LateStateWritten(state)
  BY DEF LateStateWritten
<1>4. CASE UNCHANGED store
  BY <1>4, CoversReflexive
<1>5. Next => StateWritten \/ Crash \/ UNCHANGED store
  BY <1>3 DEF Next, Activate, ApplyDiff, SyncComplete, ApplyDiffReturns,
       SyncCompleteReturns, SyncAwaitTimeout, UpdateLogged, WriteFails,
       LateUpdateLogged, Deactivate, mongoVars
<1> QED BY <1>1, <1>2, <1>4, <1>5 DEF vars, mongoVars

LEMMA StoredStep == StoredInv /\ [Next]_vars => StoredInv'
<1> SUFFICES ASSUME StoredInv, [Next]_vars PROVE StoredInv'
  OBVIOUS
<1>t. TypeOK /\ TypeOK'
  BY TypeStep DEF StoredInv
<1>0. FullState = ydoc
  BY <1>t, FullStateIsDoc DEF TypeOK
<1>g. ~overtaken' => ~overtaken /\ Covers(store', store)
  BY StoreGrows, OvertakenStays
<1> DEFINE TurnStored ==
        turn # Idle =>
            /\ active
            /\ Covers(ydoc, turn.update)
            /\ ~overtaken /\ "state" \notin turn.awaits
                   => Covers(store, turn.update)
<1>s. ASSUME MemoryCoversStore', TurnStored', UNCHANGED applied
      PROVE  StoredInv'
  <2>1. ASSUME ~overtaken', NEW u \in applied
        PROVE  Covers(store', u)
    BY <1>g, <2>1, CoversTransitive DEF StoredInv, AppliedStored
  <2> QED BY <1>t, <1>s, <2>1 DEF StoredInv, AppliedStored
<1>1. CASE Activate
  <2>1. turn = Idle
    BY <1>1 DEF Activate, StoredInv
  <2>2. ydoc' = store
    BY <1>1, <1>t, UpdateOfEmpty DEF Activate, LoadedState, TypeOK
  <2> QED BY <1>1, <1>s, <2>1, <2>2, CoversReflexive
          DEF Activate, StoredInv, MemoryCoversStore, mongoVars, ackVars
<1>2. ASSUME NEW user \in Users, NEW update \in Updates,
             ApplyDiff(user, update) \/ SyncComplete(user, update)
      PROVE  StoredInv'
  <2>1. ydoc' = ApplyUpdate(ydoc, update) /\ active /\ active'
    BY <1>2 DEF ApplyDiff, SyncComplete, Free
  <2>2. Covers(ydoc', ydoc) /\ Covers(ydoc', update)
    BY <2>1, <1>t, UpdateCovers, UpdatesAssumption DEF TypeOK
  <2>3. turn' = Idle \/ (/\ turn'.update = update
                         /\ turn'.awaits = {"state", "update"})
    BY <1>2, SavingType DEF ApplyDiff, SyncComplete
  <2>4. UNCHANGED <<mongoVars, applied, overtaken>>
    BY <1>2 DEF ApplyDiff, SyncComplete, ackVars
  <2>5. MemoryCoversStore'
    BY <2>1, <2>2, <2>4, CoversTransitive
       DEF StoredInv, MemoryCoversStore, mongoVars
  <2> QED BY <1>s, <2>1, <2>2, <2>3, <2>4, <2>5 DEF StoredInv, mongoVars
<1>3. CASE ApplyDiffReturns
  <2>1. turn # Idle /\ turn' = Idle
    BY <1>3 DEF ApplyDiffReturns, Idle
  <2>2. ~overtaken => Covers(store, turn.update)
    BY <1>3, <2>1 DEF ApplyDiffReturns, StoredInv
  <2> QED BY <1>3, <1>t, <2>1, <2>2
          DEF ApplyDiffReturns, StoredInv, AppliedStored, MemoryCoversStore,
              mongoVars
<1>4. CASE SyncCompleteReturns \/ \E user \in Users : SyncAwaitTimeout(user)
  BY <1>4, <1>s DEF SyncCompleteReturns, SyncAwaitTimeout, StoredInv,
                   MemoryCoversStore, mongoVars, ackVars
<1>5. CASE StateWritten
  <2>1. turn # Idle /\ turn' # Idle /\ turn'.update = turn.update
    BY <1>5, <1>t, DoneType DEF StateWritten, Awaits, TypeOK
  <2>2. /\ store' = ydoc
        /\ UNCHANGED <<active, ydoc, applied, overtaken>>
    BY <1>0, <1>5 DEF StateWritten, ackVars
  <2> QED BY <1>s, <2>1, <2>2, CoversReflexive DEF StoredInv, MemoryCoversStore
<1>6. CASE UpdateLogged
  <2>1. /\ turn # Idle /\ turn'.update = turn.update
        /\ turn'.awaits = turn.awaits \ {"update"}
    BY <1>6, <1>t, DoneType DEF UpdateLogged, Awaits, TypeOK
  <2>2. UNCHANGED <<active, ydoc, store, applied, overtaken>>
    BY <1>6 DEF UpdateLogged, ackVars
  <2> QED BY <1>s, <2>1, <2>2 DEF StoredInv, MemoryCoversStore
<1>7. ASSUME NEW write \in {"state", "update"}, WriteFails(write)
      PROVE  StoredInv'
  BY <1>7, <1>s DEF WriteFails, StoredInv, MemoryCoversStore, ackVars
<1>8. ASSUME NEW state \in lateStates, LateStateWritten(state)
      PROVE  StoredInv'
  BY <1>8, <1>s DEF LateStateWritten, StoredInv, MemoryCoversStore, actorVars
<1>9. ASSUME NEW update \in lateUpdates, LateUpdateLogged(update)
      PROVE  StoredInv'
  BY <1>9, <1>s DEF LateUpdateLogged, StoredInv, MemoryCoversStore,
                   actorVars, ackVars
<1>10. CASE Deactivate
  BY <1>10, <1>s DEF Deactivate, Free, StoredInv, MemoryCoversStore,
                    mongoVars, ackVars
<1>11. CASE Crash
  BY <1>11, <1>s DEF Crash, MemoryCoversStore
<1>12. CASE UNCHANGED vars
  BY <1>12, <1>s DEF vars, actorVars, mongoVars, ackVars, StoredInv,
                    MemoryCoversStore
<1> QED BY <1>1, <1>2, <1>3, <1>4, <1>5, <1>6, <1>7, <1>8, <1>9, <1>10,
           <1>11, <1>12 DEF Next

\* Persistence: an update whose applyDiff has returned stays in the stored
\* state, whatever crashes and whatever fails, until the late state of a
\* failed call arrives.
THEOREM AppliedStoredHolds == Spec => []AppliedStored
<1>1. StoredInv => AppliedStored
  BY DEF StoredInv
<1> QED BY <1>1, StoredInit, StoredStep, PTL DEF Spec

\* As long, the document in memory has all of the stored one.
THEOREM MemoryCoversStoreHolds == Spec => []MemoryCoversStore
<1>1. StoredInv => MemoryCoversStore
  BY DEF StoredInv
<1> QED BY <1>1, StoredInit, StoredStep, PTL DEF Spec

\* The actor implements DurableDoc.
THEOREM DurableImplemented == Spec => DurableSpec
<1>1. Init => Durable!Init
  BY DEF Init, Durable!Init, Durable!EmptyYDoc, EmptyYDoc
<1>2. StoredInv /\ [Next]_vars => [Durable!Next]_Durable!vars
  <2> SUFFICES ASSUME StoredInv, [Next]_vars
               PROVE  [Durable!Next]_Durable!vars
    OBVIOUS
  <2>0. overtaken \in BOOLEAN /\ overtaken' \in BOOLEAN
    BY TypeStep DEF StoredInv, TypeOK
  <2>1. CASE overtaken'
    <3>1. CASE overtaken
      BY <2>1, <3>1, <2>0 DEF Durable!Next
    <3>2. CASE ~overtaken
      BY <2>1, <3>2, <2>0 DEF Durable!Next, Durable!Withdraw
    <3> QED BY <3>1, <3>2
  <2>2. CASE ~overtaken'
    <3>0. ~overtaken
      BY <2>2, OvertakenStays
    <3>1. Covers(store', store)
      BY <2>2, StoreGrows
    <3>2. store' \in YDocs
      BY TypeStep DEF StoredInv, TypeOK
    <3>3. CASE ApplyDiffReturns
      <4>1. turn # Idle /\ "state" \notin turn.awaits
        BY <3>3 DEF ApplyDiffReturns, Idle
      <4>2. turn.update \in Updates /\ Covers(store, turn.update)
        BY <3>0, <4>1, TurnType DEF StoredInv, TypeOK
      <4>3. store' = store /\ applied' = applied \cup {turn.update}
        BY <3>3 DEF ApplyDiffReturns, mongoVars
      <4> QED BY <2>2, <3>0, <4>2, <4>3
              DEF Durable!Next, Durable!Promise, Durable!Covers, Covers
    <3>4. CASE UNCHANGED applied
      BY <2>2, <3>0, <3>1, <3>2, <3>4
         DEF Durable!Next, Durable!Store, Durable!Covers, Covers,
             Durable!YDocs, YDocs
    <3>5. Next => ApplyDiffReturns \/ UNCHANGED applied
      BY DEF Next, Activate, ApplyDiff, SyncComplete, SyncCompleteReturns,
             SyncAwaitTimeout, StateWritten, UpdateLogged, WriteFails,
             LateStateWritten, LateUpdateLogged, Deactivate, Crash, ackVars
    <3> QED BY <3>3, <3>4, <3>5 DEF vars, ackVars
  <2> QED BY <2>1, <2>2
<1> QED BY <1>1, <1>2, StoredInit, StoredStep, PTL
        DEF Spec, DurableSpec, Durable!Spec

=============================================================================
