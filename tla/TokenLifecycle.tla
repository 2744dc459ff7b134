--------------------------- MODULE TokenLifecycle ---------------------------
(***************************************************************************)
(* The API's records of one consumer's tokens: checkClientToken, which     *)
(* messageProxy calls for each token it is shown, and updateToken, which   *)
(* replaces tokens by new ones.  Both are several operations on MongoDB,   *)
(* one after the other, with those of other requests in between, and a     *)
(* request may end after any of them with its process or an error.         *)
(*                                                                         *)
(* Only tokens and requests that pass the checks of signature, form and    *)
(* rights come here: the others change nothing.  The model's tokens are    *)
(* tokenIds.  MessageProxy takes each of the two requests as one step.     *)
(***************************************************************************)
EXTENDS Naturals, Sequences

CONSTANTS
    Tokens,       \* tokenIds
    Requests,     \* lists of updates that updateToken may be asked for
    Updaters,     \* bound: calls of updateToken at a time
    MaxUpdates,   \* bound: calls of updateToken
    MaxCreates    \* bound: records checkClientToken creates

Update == [old : Tokens, new : Tokens]

ASSUME RequestsAssumption == Requests \subseteq Seq(Update)

ASSUME BoundsAssumption == MaxUpdates \in Nat /\ MaxCreates \in Nat

VARIABLES
    live,       \* how many records each token has that are not tainted
    tainted,    \* how many it has that are
    creating,   \* how many records checkClientToken is creating for it
    work,       \* each updateToken under way: what is left to do, and its step
    published,  \* updates messageProxy is told of
    updates, creates,
    revoked     \* history: "final" for a token whose records have been tainted
                \* while none was being created, "open" if one was or if it had
                \* none, "no" before

vars == <<live, tainted, creating, work, published, updates, creates, revoked>>

Steps == {"find", "taint", "create", "publish"}

Idle == [todo |-> <<>>, step |-> "find"]

Init ==
    /\ live = [t \in Tokens |-> 0]
    /\ tainted = [t \in Tokens |-> 0]
    /\ creating = [t \in Tokens |-> 0]
    /\ work = [u \in Updaters |-> Idle]
    /\ published = {}
    /\ updates = 0 /\ creates = 0
    /\ revoked = [t \in Tokens |-> "no"]

\* Fault: findOne looks for records that are not tainted.
FoundUntainted(t) == live[t] > 0

\* findOne finds a record; which one, if there are several, it does not say.
Found(t) == live[t] > 0 \/ tainted[t] > 0

\* What checkClientToken may answer
MayAccept(t) == live[t] > 0 \/ ~Found(t)

\* checkClientToken of a token without a record: 200, and create is called, but
\* not awaited.  Other checks read only.
CheckClientToken(t) ==
    /\ ~Found(t)
    /\ creates < MaxCreates
    /\ creates' = creates + 1
    /\ creating' = [creating EXCEPT ![t] = @ + 1]
    /\ UNCHANGED <<live, tainted, work, published, updates, revoked>>

CreateLands(t) ==
    /\ creating[t] > 0
    /\ creating' = [creating EXCEPT ![t] = @ - 1]
    /\ live' = [live EXCEPT ![t] = @ + 1]
    /\ UNCHANGED <<tainted, work, published, updates, creates, revoked>>

\* Nobody catches that, and it ends the process unless something else does.
CreateFails(t) ==
    /\ creating[t] > 0
    /\ creating' = [creating EXCEPT ![t] = @ - 1]
    /\ UNCHANGED <<live, tainted, work, published, updates, creates, revoked>>

-----------------------------------------------------------------------------
(* updateToken, for one update after the other.                            *)

Begin(u, r) ==
    /\ work[u] = Idle
    /\ updates < MaxUpdates
    /\ updates' = updates + 1
    /\ work' = [work EXCEPT ![u] = [todo |-> r, step |-> "find"]]
    /\ UNCHANGED <<live, tainted, creating, published, creates, revoked>>

At(u, step) == work[u].todo # <<>> /\ work[u].step = step

Doing(u) == Head(work[u].todo)

GoesOn(u, step) ==
    work' = [work EXCEPT ![u] = [todo |-> work[u].todo, step |-> step]]

\* 409 if the new token has a record: the rest of the request is not done.
Find(u) ==
    /\ At(u, "find")
    /\ IF Found(Doing(u).new)
       THEN work' = [work EXCEPT ![u] = Idle]
       ELSE GoesOn(u, "taint")
    /\ UNCHANGED <<live, tainted, creating, published, updates, creates, revoked>>

\* Faults: every other token is tainted; only one of the records is.
TaintsAllOthers(t) == Tokens

OneLess(n) == n - 1

Taints(t) == {t}

\* What updateMany leaves of so many records that are not tainted
Left(n) == 0

\* A record of t may still come that this updateMany does not taint.
RecordUnderWay(t) ==
    \/ creating[t] > 0
    \/ \E v \in Updaters : /\ At(v, "taint") \/ At(v, "create")
                           /\ Doing(v).new = t

\* "Revoke all other tokens": updateMany
Taint(u) ==
    /\ At(u, "taint")
    /\ LET ts == Taints(Doing(u).old)
           old == Doing(u).old
       IN  /\ live' = [t \in Tokens |-> IF t \in ts THEN Left(live[t]) ELSE live[t]]
           /\ tainted' = [t \in Tokens |-> IF t \in ts
                                           THEN tainted[t] + (live[t] - Left(live[t]))
                                           ELSE tainted[t]]
           /\ revoked' = [revoked EXCEPT ![old] =
                             IF @ = "final" \/ (Found(old) /\ ~RecordUnderWay(old))
                             THEN "final" ELSE "open"]
    /\ GoesOn(u, "create")
    /\ UNCHANGED <<creating, published, updates, creates>>

Create(u) ==
    /\ At(u, "create")
    /\ live' = [live EXCEPT ![Doing(u).new] = @ + 1]
    /\ GoesOn(u, "publish")
    /\ UNCHANGED <<tainted, creating, published, updates, creates, revoked>>

Publish(u) ==
    /\ At(u, "publish")
    /\ published' = published \cup {Doing(u)}
    /\ work' = [work EXCEPT ![u] = [todo |-> Tail(@.todo), step |-> "find"]]
    /\ UNCHANGED <<live, tainted, creating, updates, creates, revoked>>

\* The request ends where it is: an operation fails, or the process.
Ends(u) ==
    /\ work[u].todo # <<>>
    /\ work' = [work EXCEPT ![u] = Idle]
    /\ UNCHANGED <<live, tainted, creating, published, updates, creates, revoked>>

Next ==
    \/ \E t \in Tokens : CheckClientToken(t) \/ CreateLands(t) \/ CreateFails(t)
    \/ \E u \in Updaters : \/ \E r \in Requests : Begin(u, r)
                           \/ Find(u) \/ Taint(u) \/ Create(u) \/ Publish(u)
                           \/ Ends(u)

Spec == Init /\ [][Next]_vars

-----------------------------------------------------------------------------
(* Type correctness. *)
TypeOK ==
    /\ live \in [Tokens -> Nat]
    /\ tainted \in [Tokens -> Nat]
    /\ creating \in [Tokens -> Nat]
    /\ work \in [Updaters -> [todo : Seq(Update), step : Steps]]
    /\ published \subseteq Update
    /\ updates \in 0 .. MaxUpdates
    /\ creates \in 0 .. MaxCreates
    /\ revoked \in [Tokens -> {"no", "open", "final"}]

(* "Revoke all other tokens", where it works: a token that had a record when an
   update tainted it, while no request was about to create another one, is
   refused by every later check, whatever checks and updates are made of it,
   together with others, and wherever they end. *)
RevokedRefused == \A t \in Tokens : revoked[t] = "final" => ~MayAccept(t)

(* A new token that messageProxy has been told of is accepted when it is shown,
   by whichever of two competing updates it was made, until an update replaces
   it in its turn.  (No other request taints it, and none is made for it again:
   it has a record.) *)
PublishedAccepted ==
    \A p \in published : live[p.new] > 0 \/ revoked[p.new] # "no"

=============================================================================
