-------------------------------- MODULE YDoc --------------------------------
(***************************************************************************)
(* Yjs documents and updates, as far as this repository uses them          *)
(* (external: the yjs package).                                            *)
(*                                                                         *)
(* An operation is one inserted item.  It can be integrated once every     *)
(* item it was made on top of is there; until then the document keeps it   *)
(* aside (store.pendingStructs).  A deletion names the operation it        *)
(* deletes and is kept aside (store.pendingDs) until that is integrated.   *)
(* A document and an update are both sets of operations and deletions:     *)
(* applyUpdate is their union, whatever the order and the repetitions.     *)
(***************************************************************************)

CONSTANTS
    Op,    \* operations; an operation's identity is its client and clock
    Past   \* Past[o]: every operation o presupposes, directly or not

ASSUME PastAssumption ==
    /\ Past \in [Op -> SUBSET Op]
    /\ \A o \in Op : \A p \in Past[o] : Past[p] \subseteq Past[o]

YDocs == [ops : SUBSET Op, dels : SUBSET Op]

EmptyYDoc == [ops |-> {}, dels |-> {}]

Covers(d, e) == e.ops \subseteq d.ops /\ e.dels \subseteq d.dels

ApplyUpdate(d, u) == [ops |-> d.ops \cup u.ops, dels |-> d.dels \cup u.dels]

Integrated(d) == {o \in d.ops : Past[o] \subseteq d.ops}

\* encodeStateVector: how far each client's operations are integrated.  A
\* client's operation presupposes its earlier ones, so this says exactly which
\* operations are.  Deletions leave no trace in it.
StateVector(d) == Integrated(d)

\* encodeStateAsUpdate(d, v): the operations beyond v, those kept aside
\* included, and always all of the deletions.
StateAsUpdate(d, v) == [ops |-> d.ops \ v, dels |-> d.dels]

\* pendingStructs !== null || pendingDs !== null
Pending(d) == d.ops # Integrated(d) \/ ~(d.dels \subseteq Integrated(d))

=============================================================================
