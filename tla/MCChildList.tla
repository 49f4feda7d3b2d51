----------------------------- MODULE MCChildList -----------------------------
(* ChildList with three keyed widgets, one of them in two types, and one     *)
(* widget without a key.                                                     *)
EXTENDS ChildList

MCWidgets ==
  {[type |-> "A", key |-> k] : k \in {"a", "b", "c", "no key"}}
    \cup {[type |-> "B", key |-> "a"]}
=============================================================================
