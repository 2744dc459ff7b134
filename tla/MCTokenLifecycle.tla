-------------------------- MODULE MCTokenLifecycle --------------------------
(* A request for two updates, a part of it on its own, and a later one that
   competes for its second new token. *)
EXTENDS TokenLifecycle

CONSTANTS a, b, c

To(old, new) == [old |-> old, new |-> new]

MCRequests == {<<To(a, b), To(b, c)>>, <<To(a, b)>>, <<To(a, c)>>}

=============================================================================
