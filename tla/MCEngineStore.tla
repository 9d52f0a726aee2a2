---------------------------- MODULE MCEngineStore -----------------------------
(* The engine's torrents across a stop and a kill. *)
EXTENDS EngineStore, FiniteSets

\* Two ends of the program, or one and one unusual thing, and none that the
\* properties say nothing of.
OneOddity == "crossed" \notin odd /\ Cardinality(odd) <= 1 /\ ends + Cardinality(odd) <= 2

\* One SaveResume has timed out and another one is under way.
TwoAlerts == Len(alerts) <= 2
=============================================================================
