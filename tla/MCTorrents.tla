----------------------------- MODULE MCTorrents -----------------------------
(* One torrent found under two magnets, another one, and a row of before whose
   magnet has no hash. *)
EXTENDS Torrents, TLC

CONSTANTS m1, m2, m3, m4, h, i

Proxies == m1 :> h @@ m2 :> h @@ m3 :> i @@ m4 :> NoHash

SweeperSymmetry == Permutations(Sweepers)
=============================================================================
