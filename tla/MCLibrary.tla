----------------------------- MODULE MCLibrary ------------------------------
(* Two files, in one release folder or each an entry of its own. *)
EXTENDS Library, TLC

CONSTANTS f1, f2, e1, e2

OneFolder == f1 :> e1 @@ f2 :> e1
JustOne   == f1 :> e1
TwoFiles  == f1 :> e1 @@ f2 :> e2

\* Two changes and a full sweep, or one change and two full sweeps.
ThreeThings == changes + sweeps <= 3

ActorSymmetry == Permutations(Sweepers) \cup Permutations(Watchers)
=============================================================================
