---------------------------- MODULE MCEngineLive ----------------------------
(* What must go on in the engine: the preparation of one torrent, and the
   reading of one piece of a torrent by streams.  They share no state: every
   behaviour is one of one part, the other staying as it begins.  Fairness is
   each module's own, asked of the part that runs. *)
EXTENDS MCEngine, Streams

VARIABLE part

liveVars == <<part, vars, streamsVars>>

LiveInit ==
  /\ part \in {"engine", "streams"} /\ Init /\ StreamsInit
  /\ part = "engine" \/ \A t \in Torrents, f \in Files : disk[t][f].at = "none"

LiveNext ==
  /\ UNCHANGED part
  /\ \/ part = "engine" /\ Next /\ UNCHANGED streamsVars
     \/ part = "streams" /\ StreamsNext /\ UNCHANGED vars

LiveFairness ==
  /\ \A a \in Actors : WF_vars(part = "engine" /\ Continue(a))
  /\ SF_vars(part = "engine" /\ HandleEvents)
  /\ \A t \in Torrents : /\ SF_vars(part = "engine" /\ HealPartNames(t))
                         /\ WF_vars(part = "engine" /\ TorrentChecked(t))
  /\ WF_vars(part = "engine" /\ FileRenamed)
  /\ \A r \in Readers : WF_streamsVars(part = "streams" /\ ReadGoesOn(r))
  /\ WF_streamsVars(part = "streams" /\ Reply)
  /\ WF_streamsVars(part = "streams" /\ HandleAlert)

LiveSpec == LiveInit /\ [][LiveNext]_liveVars /\ LiveFairness
=============================================================================
