----------------------------- MODULE DocHandler -----------------------------
(***************************************************************************)
(* The Dapr actor that owns one document: the Yjs document in memory, the  *)
(* document's record in MongoDB (DocModel.state) and the log of updates    *)
(* (UpdateModel).                                                          *)
(*                                                                         *)
(* Dapr gives a document one activation at a time and the activation one   *)
(* call at a time (external: the Dapr runtime).  A call that saves awaits  *)
(* two writes at once (Promise.all); they reach MongoDB in either order,   *)
(* and when one of them fails the call is over while the other is still on *)
(* its way.  The actor may be deactivated between calls, and its process   *)
(* may die at any time.                                                    *)
(***************************************************************************)
EXTENDS YDoc

CONSTANTS
    Users,       \* userId of the calls: the author's connection id
    Updates      \* the updates that users send

ASSUME UpdatesAssumption == Updates \subseteq YDocs

VARIABLES
    active,      \* the actor is activated
    ydoc,        \* its Yjs document
    syncAwait,   \* the users asked to sync less than clientSyncAwaitMs ago
    turn,        \* the call in progress, or Idle
    store,       \* DocModel.state
    history,     \* UpdateModel: the updates logged
    lateStates,  \* states written by calls that have failed, not there yet
    lateUpdates, \* log entries of such calls, not there yet
    applied,     \* history variable: updates applyDiff returned for
    synced,      \* history variable: updates syncComplete returned for
    overtaken    \* history variable: a state written by a failed call has
                 \* reached the record, over whatever was there by then

actorVars == <<active, ydoc, syncAwait, turn>>
mongoVars == <<store, history, lateStates, lateUpdates>>
ackVars   == <<applied, synced, overtaken>>
vars      == <<actorVars, mongoVars, ackVars>>

Idle == [call |-> "none"]

\* Faults: one of the two writes is not made.
SavingStateOnly(call, user, update) ==
    [call |-> call, user |-> user, update |-> update, awaits |-> {"state"}]

SavingUpdateOnly(call, user, update) ==
    [call |-> call, user |-> user, update |-> update, awaits |-> {"update"}]

\* A call at the Promise.all of saveDiff: the writes it still awaits.
Saving(call, user, update) ==
    [call |-> call, user |-> user, update |-> update,
     awaits |-> {"state", "update"}]

Turns ==
    {Idle} \cup [call : {"applyDiff", "syncComplete"}, user : Users,
                 update : Updates, awaits : SUBSET {"state", "update"}]

Init ==
    /\ active = FALSE
    /\ ydoc = EmptyYDoc
    /\ syncAwait = {}
    /\ turn = Idle
    /\ store = EmptyYDoc          \* the record's default, an empty update
    /\ history = {}
    /\ lateStates = {}
    /\ lateUpdates = {}
    /\ applied = {}
    /\ synced = {}
    /\ overtaken = FALSE

-----------------------------------------------------------------------------
(* Activation and the calls.                                               *)

\* Fault: the stored state is not loaded.
NothingLoaded == EmptyYDoc

LoadedState == ApplyUpdate(EmptyYDoc, store)

\* onActivate
Activate ==
    /\ ~active
    /\ active' = TRUE
    /\ ydoc' = LoadedState
    /\ syncAwait' = {}
    /\ UNCHANGED <<turn, mongoVars, ackVars>>

\* Faults: what is kept aside is not written; the delete set is left out.
IntegratedState == [ops |-> Integrated(ydoc), dels |-> ydoc.dels]

StructsOnlyState == [ops |-> ydoc.ops]

\* What encodeStateAsUpdate() without a vector writes: everything.
FullState == StateAsUpdate(ydoc, {})

Free == active /\ turn = Idle

\* applyDiff up to the awaits of saveDiff
ApplyDiff(user, update) ==
    /\ Free
    /\ ydoc' = ApplyUpdate(ydoc, update)
    /\ turn' = Saving("applyDiff", user, update)
    /\ UNCHANGED <<active, syncAwait, mongoVars, ackVars>>

\* saveDiff's check of a sync.  (equalVectors says that the update brought no
\* new operation; the code returns early when it did bring some.)
SkipsSave(update) ==
    StateVector(ydoc) # StateVector(ApplyUpdate(ydoc, update))

\* syncComplete
SyncComplete(user, update) ==
    /\ Free
    /\ ydoc' = ApplyUpdate(ydoc, update)
    /\ IF SkipsSave(update)
       THEN turn' = Idle /\ synced' = synced \cup {update}
       ELSE turn' = Saving("syncComplete", user, update) /\ UNCHANGED synced
    /\ UNCHANGED <<active, syncAwait, mongoVars, applied, overtaken>>

\* needSync, and that the user has not been asked already
AsksForSync(user) == user \notin syncAwait /\ Pending(ydoc)

\* Both writes are done: applyDiff returns, with syncNeeded if it asks the
\* user to sync.
ApplyDiffReturns ==
    /\ turn.call = "applyDiff" /\ turn.awaits = {}
    /\ turn' = Idle
    /\ applied' = applied \cup {turn.update}
    /\ syncAwait' = IF AsksForSync(turn.user)
                    THEN syncAwait \cup {turn.user} ELSE syncAwait
    /\ UNCHANGED <<active, ydoc, mongoVars, synced, overtaken>>

SyncCompleteReturns ==
    /\ turn.call = "syncComplete" /\ turn.awaits = {}
    /\ turn' = Idle
    /\ synced' = synced \cup {turn.update}
    /\ UNCHANGED <<active, ydoc, syncAwait, mongoVars, applied, overtaken>>

\* The setTimeout of applyDiff
SyncAwaitTimeout(user) ==
    /\ user \in syncAwait
    /\ syncAwait' = syncAwait \ {user}
    /\ UNCHANGED <<active, ydoc, turn, mongoVars, ackVars>>

-----------------------------------------------------------------------------
(* MongoDB (external): the two writes of the call in progress, and those of *)
(* failed calls.                                                            *)

Awaits(write) == turn # Idle /\ write \in turn.awaits

Done(write) == turn' = [turn EXCEPT !.awaits = @ \ {write}]

\* DocModel.updateOne
StateWritten ==
    /\ Awaits("state")
    /\ Done("state")
    /\ store' = FullState
    /\ UNCHANGED <<active, ydoc, syncAwait, history, lateStates, lateUpdates,
                   ackVars>>

\* UpdateModel.create
UpdateLogged ==
    /\ Awaits("update")
    /\ Done("update")
    /\ history' = history \cup {turn.update}
    /\ UNCHANGED <<active, ydoc, syncAwait, store, lateStates, lateUpdates,
                   ackVars>>

\* Promise.all rejects with the first failure, and the call with it.
WriteFails(write) ==
    /\ Awaits(write)
    /\ turn' = Idle
    /\ lateStates' = IF "state" \in turn.awaits \ {write}
                     THEN lateStates \cup {FullState} ELSE lateStates
    /\ lateUpdates' = IF "update" \in turn.awaits \ {write}
                      THEN lateUpdates \cup {turn.update} ELSE lateUpdates
    /\ UNCHANGED <<active, ydoc, syncAwait, store, history, ackVars>>

LateStateWritten(state) ==
    /\ state \in lateStates
    /\ store' = state
    /\ lateStates' = lateStates \ {state}
    /\ overtaken' = TRUE
    /\ UNCHANGED <<actorVars, history, lateUpdates, applied, synced>>

LateUpdateLogged(update) ==
    /\ update \in lateUpdates
    /\ history' = history \cup {update}
    /\ lateUpdates' = lateUpdates \ {update}
    /\ UNCHANGED <<actorVars, store, lateStates, ackVars>>

-----------------------------------------------------------------------------
(* The end of an activation.                                               *)

\* Dapr deactivates an idle actor; there is no onDeactivate to save anything.
Deactivate ==
    /\ Free
    /\ active' = FALSE
    /\ ydoc' = EmptyYDoc
    /\ syncAwait' = {}
    /\ UNCHANGED <<turn, mongoVars, ackVars>>

\* The process dies.  Each write under way has reached MongoDB or never will:
\* it takes Dapr longer to place the actor elsewhere than a command to arrive.
Crash ==
    /\ active
    /\ active' = FALSE
    /\ ydoc' = EmptyYDoc
    /\ syncAwait' = {}
    /\ turn' = Idle
    /\ \/ /\ store' \in {store} \cup (IF Awaits("state") THEN {FullState} ELSE {})
          /\ UNCHANGED overtaken
       \/ store' \in lateStates /\ overtaken' = TRUE
    /\ \E landed \in SUBSET (lateUpdates
                             \cup (IF Awaits("update") THEN {turn.update} ELSE {})) :
           history' = history \cup landed
    /\ lateStates' = {}
    /\ lateUpdates' = {}
    /\ UNCHANGED <<applied, synced>>

Next ==
    \/ Activate
    \/ \E user \in Users, update \in Updates :
           ApplyDiff(user, update) \/ SyncComplete(user, update)
    \/ ApplyDiffReturns
    \/ SyncCompleteReturns
    \/ \E user \in Users : SyncAwaitTimeout(user)
    \/ StateWritten
    \/ UpdateLogged
    \/ \E write \in {"state", "update"} : WriteFails(write)
    \/ \E state \in lateStates : LateStateWritten(state)
    \/ \E update \in lateUpdates : LateUpdateLogged(update)
    \/ Deactivate
    \/ Crash

Spec == Init /\ [][Next]_vars

-----------------------------------------------------------------------------
(* Type correctness of the actor, of its call in progress and of what is in
   MongoDB. *)
TypeOK ==
    /\ active \in BOOLEAN
    /\ ydoc \in YDocs
    /\ syncAwait \subseteq Users
    /\ turn \in Turns
    /\ store \in YDocs
    /\ history \subseteq Updates
    /\ lateStates \subseteq YDocs
    /\ lateUpdates \subseteq Updates
    /\ applied \subseteq Updates
    /\ synced \subseteq Updates
    /\ overtaken \in BOOLEAN

(* "Persists document data to database": an update whose applyDiff has
   returned is in the state that the next activation will load, even when it
   could not be integrated yet, and whatever crashes, deactivations and failing
   writes come in between, until a state that a failed call has left on its way
   arrives over a newer one. *)
AppliedStored == ~overtaken => \A u \in applied : Covers(store, u)

(* The same of an update that arrived by a sync, once syncComplete has
   returned. *)
SyncedStored == \A u \in synced : Covers(store, u)

(* "changes history": an update whose applyDiff has returned is in the log,
   even if the other write of its call, or of another, failed. *)
AppliedLogged == applied \subseteq history

(* The actor works on a document that has all of the stored one, so that
   saveDiff, which overwrites the record with the whole document, never
   takes away what an earlier call or an earlier activation stored. *)
MemoryCoversStore == ~overtaken /\ active => Covers(ydoc, store)

(* The actor implements DurableDoc: until a state of a failed call arrives, the
   record only grows, and only what it has is confirmed. *)
Durable == INSTANCE DurableDoc
    WITH stored <- store, promised <- applied, promising <- ~overtaken

DurableSpec == Durable!Spec

=============================================================================
