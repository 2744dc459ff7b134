----------------------------- MODULE DurableDoc -----------------------------
(***************************************************************************)
(* What it means that the server persists a document: there is a stored    *)
(* state that only ever grows, and a caller is told that its update has    *)
(* been applied only once the stored state has it.  Hence nothing that was *)
(* confirmed is ever lost, whatever is restarted in between.               *)
(***************************************************************************)
EXTENDS YDoc

CONSTANT Updates

VARIABLES
    stored,    \* the state that survives a restart
    promised,  \* the updates confirmed to their authors
    promising  \* FALSE once nothing is promised any more

vars == <<stored, promised, promising>>

Init ==
    /\ stored = EmptyYDoc
    /\ promised = {}
    /\ promising = TRUE

Store ==
    /\ stored' \in YDocs
    /\ Covers(stored', stored)
    /\ UNCHANGED promised

Promise ==
    /\ \E u \in Updates : /\ Covers(stored, u)
                          /\ promised' = promised \cup {u}
    /\ UNCHANGED stored

Withdraw == promising' = FALSE

Next ==
    \/ /\ promising
       /\ \/ UNCHANGED promising /\ (Store \/ Promise)
          \/ Withdraw
    \* Nothing is promised once a write of a failed call has arrived.
    \/ ~promising /\ UNCHANGED promising

Spec == Init /\ [][Next]_vars

=============================================================================
