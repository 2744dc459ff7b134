--------------------------- MODULE MCMessageProxy ---------------------------
(***************************************************************************)
(* MessageProxy with two tokens, the second of which is what the first may *)
(* be switched or updated to.  In most runs t1 gives d1 and t2 gives d2; a *)
(* third document, if there is one, is public.                             *)
(***************************************************************************)
EXTENDS MessageProxy, TLC

CONSTANTS t1, t2, d1, d2, d3

RightsOn(d, rights) == [e \in Docs |-> IF e = d THEN rights ELSE {}]

MCRights == t1 :> RightsOn(d1, {"read", "write"}) @@ t2 :> RightsOn(d2, {"read"})

\* An update of t1 to t2 takes d1 away, leaves d2 and adds d3.
UpdatedRights ==
    t1 :> [d \in Docs |-> IF d = d3 THEN {} ELSE {"read", "write"}]
    @@ t2 :> [d \in Docs |-> IF d = d1 THEN {} ELSE {"read"}]

ListedAll == [t \in Tokens |-> Docs]

\* t2 has no entry for d1.
ListedDropped == t1 :> {d1} @@ t2 :> {d2}

FirstToSecond == {<<t1, t2>>}

\* Connections differ by name only; documents and tokens by their rights.
Symmetry == Permutations(Connections)

=============================================================================
