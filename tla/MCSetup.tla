------------------------------- MODULE MCSetup ------------------------------
(* A small instance of Setup: four features, three of them in one branch. *)
EXTENDS Setup, TLC

CONSTANTS root, sub, leaf, other, packed, dir

MCFeature == {root, sub, leaf, other}
MCParent == (root :> NoFeature) @@ (sub :> root) @@ (leaf :> sub) @@ (other :> root)
MCSize == (root :> 1) @@ (sub :> 2) @@ (leaf :> 4) @@ (other :> 0)
MCPath == {packed, dir}
MCPackedPath == {packed}
=============================================================================
