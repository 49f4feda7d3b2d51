---------------------------- MODULE MCBuildOwner ----------------------------
(***************************************************************************)
(* Small element trees.                                                    *)
(***************************************************************************)
EXTENDS BuildOwner

CONSTANTS r, a, b, c, d

\* a chain, and a parent of two, with one name still unused
MCTrees == {[e \in Elements |-> CASE e = a -> r [] e = b -> a [] OTHER -> None],
            [e \in Elements |-> CASE e \in {a, b} -> r [] OTHER -> None]}

=============================================================================
