--------------------------- MODULE TokenRegistry ---------------------------
(***************************************************************************)
(* TokenService's Map tokenConnections (token id -> the connections that   *)
(* came with that token), and what its operations do to it, as operators   *)
(* on a function lists from tokens to sequences of connections; the empty  *)
(* sequence stands for a token id the Map does not have.                   *)
(*                                                                         *)
(* A token is a signed JWT: its id stands for its contents, the rights it  *)
(* gives on the documents it lists.  Whatever it does not list may still   *)
(* be public; a document it lists without rights is not.                   *)
(***************************************************************************)
EXTENDS Naturals, Sequences

Lists == INSTANCE SequencesExt

CONSTANTS
    Tokens,     \* ids of the tokens that consumers sign
    Documents,  \* document ids
    Listed,     \* Listed[t]: the documents that token t has an entry for
    Rights      \* Rights[t][d]: the rights of that entry

ASSUME TokenAssumption ==
    /\ Listed \in [Tokens -> SUBSET Documents]
    /\ Rights \in [Tokens -> [Documents -> SUBSET {"read", "write"}]]

MayRead(t, d) == d \in Listed[t] /\ "read" \in Rights[t][d]

\* The connections of a list.
InList(lists, t) == Lists!ToSet(lists[t])

AddConnection(lists, t, c) == [lists EXCEPT ![t] = Append(@, c)]

\* Fault: splice(indexOf(conn), 1) without looking whether it is there.
RemoveUnchecked(lists, t, c) ==
    [lists EXCEPT ![t] = IF c \in Lists!ToSet(@) \/ @ = <<>>
                         THEN Lists!RemoveFirst(@, c) ELSE Lists!Front(@)]

\* removeConnection looks in one list only, and takes one entry out of it.
RemoveConnection(lists, t, c) == [lists EXCEPT ![t] = Lists!RemoveFirst(@, c)]

\* Fault: the old token keeps its list.
RenamedKeepingOld(lists, old, new) == [lists EXCEPT ![new] = lists[old]]

\* The end of onUpdateTokenMessage: the old token's list becomes the new
\* token's, whatever list that one had.
Renamed(lists, old, new) == [lists EXCEPT ![old] = <<>>, ![new] = lists[old]]

\* Fault: an entry without rights is not looked for.
NothingRemoved(old, new) == {}

\* getTokenRightsDiff.  Rights are compared as array objects, so no entry is
\* ever unchanged.  An entry that is gone is put into `removed' itself, not
\* its document id, and detaches nothing: what detaches is an entry that is
\* still there without rights.
Removed(old, new) == {d \in Listed[old] \cap Listed[new] : Rights[new][d] = {}}

Added(old, new) ==
    (Listed[new] \ Listed[old])
    \cup {d \in Listed[old] \cap Listed[new] :
              Rights[new][d] # {} /\ Rights[old][d] = {}}

=============================================================================
