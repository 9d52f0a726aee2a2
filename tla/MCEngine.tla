------------------------------ MODULE MCEngine ------------------------------
(* The engine's preparation with one torrent of two files and two requests at
   a time: enough for an add to race another add, a Remove and the loop. *)
EXTENDS Engine, TLC

\* The engine's properties speak of torrents that were not removed in the middle
\* of another call nor added again, so nothing past that is explored.
FirstLife == \A t \in Torrents : odd[t] \cap {"crossed", "readded"} = {}

CallerSymmetry == Permutations(Callers)
=============================================================================
