------------------------------ MODULE MCServer ------------------------------
(* The parts of the server that must go on, and of the browser's side of it.
   They share no state: every behaviour is one of one part, the others staying
   as they begin.  Fairness is each module's own, asked of the part that runs. *)
EXTENDS Requests, Connections, Titles

VARIABLE part

serverVars == <<part, requestsVars, connectionsVars, titlesVars>>

ServerInit ==
  /\ part \in {"requests", "connections", "titles"}
  /\ RequestsInit /\ ConnectionsInit /\ TitlesInit
  /\ part = "titles" \/ known = [t \in TitleIds |-> t]

ServerNext ==
  /\ UNCHANGED part
  /\ \/ /\ part = "requests" /\ RequestsNext
        /\ UNCHANGED <<connectionsVars, titlesVars>>
     \/ /\ part = "connections" /\ ConnectionsNext
        /\ UNCHANGED <<requestsVars, titlesVars>>
     \/ /\ part = "titles" /\ TitlesNext
        /\ UNCHANGED <<requestsVars, connectionsVars>>

ServerFairness ==
  /\ \A p \in Promises :
       /\ WF_requestsVars(part = "requests" /\ Timeout(p))
       /\ WF_requestsVars(part = "requests" /\ SendAgain(p))
  /\ \A c \in Conns : WF_connectionsVars(part = "connections" /\ Leaves(c))
  /\ \A h \in Handlers : WF_connectionsVars(part = "connections" /\ HandlerEnds(h))
  /\ \A w \in Writers : WF_connectionsVars(part = "connections" /\ WriteGoesOn(w))
  /\ \A p \in Pollers : WF_titlesVars(part = "titles" /\ (PollPicks(p) \/ PollWrites(p)))
  /\ WF_titlesVars(part = "titles" /\ (SweepLists \/ SweepSkips \/ SweepReads \/ SweepWrites))
  /\ \A q \in Askers : WF_titlesVars(part = "titles" /\ AskerWrites(q))

ServerSpec == ServerInit /\ [][ServerNext]_serverVars /\ ServerFairness

(* Every part's variables have their types. *)
ServerTypeOK == RequestsTypeOK /\ ConnectionsTypeOK /\ TitlesTypeOK
=============================================================================
