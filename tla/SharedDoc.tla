----------------------------- MODULE SharedDoc -----------------------------
(***************************************************************************)
(* What it means to share a document.  Somebody types an operation on top  *)
(* of what is in the document before them, or deletes one that is; the     *)
(* others, and the server, come to have what has been typed and nothing    *)
(* else, in any order and in any portions.  A client never loses anything; *)
(* the server, when it restarts, falls back on what it has saved.          *)
(***************************************************************************)
EXTENDS YDoc

CONSTANTS
    Clients,
    Author     \* the client that may type an operation

VARIABLES
    typed,     \* all that has been typed and deleted so far, by anybody
    doc,       \* what each client has of it
    server,    \* what the server has of it
    saved      \* what the server has saved

vars == <<typed, doc, server, saved>>

Init ==
    /\ typed = EmptyYDoc
    /\ doc = [c \in Clients |-> EmptyYDoc]
    /\ server = EmptyYDoc
    /\ saved = EmptyYDoc

\* What c does is in its document at once.
Types(c, u) ==
    /\ typed' = ApplyUpdate(typed, u)
    /\ doc' = [doc EXCEPT ![c] = ApplyUpdate(@, u)]
    /\ UNCHANGED <<server, saved>>

\* Nobody has typed o before, and c sees all that it presupposes.
Insert(c, o) ==
    /\ Author[o] = c /\ o \notin typed.ops
    /\ Past[o] \subseteq Integrated(doc[c])
    /\ Types(c, [ops |-> {o}, dels |-> {}])

Delete(c, o) ==
    /\ o \in Integrated(doc[c])
    /\ Types(c, [ops |-> {}, dels |-> {o}])

\* Any part of what has been typed
Parts == {u \in YDocs : Covers(typed, u)}

Learn(c) ==
    /\ \E u \in Parts : doc' = [doc EXCEPT ![c] = ApplyUpdate(@, u)]
    /\ UNCHANGED <<typed, server, saved>>

\* What of it is saved, and when, is DurableDoc's.
ServerLearns ==
    /\ \E u \in Parts : server' = ApplyUpdate(server, u)
    /\ saved' \in {d \in YDocs : Covers(server', d)}
    /\ UNCHANGED <<typed, doc>>

ServerRestarts ==
    /\ server' = saved
    /\ UNCHANGED <<typed, doc, saved>>

Next ==
    \/ \E c \in Clients : \/ \E o \in Op : Insert(c, o) \/ Delete(c, o)
                          \/ Learn(c)
    \/ ServerLearns
    \/ ServerRestarts

Spec == Init /\ [][Next]_vars

=============================================================================
