------------------------------- MODULE MCRows -------------------------------
(* The rows that requests, sweeps and reports of players write at the same
   time: torrents found, users, lists, and what a user has watched.  They share
   no state: every behaviour is one of one part, the others staying as they
   begin. *)
EXTENDS MCTorrents, Users, Lists, Watched

VARIABLE part

Known == {m \in Magnets : There(m)}

rowsVars == <<part, vars, usersVars, listsVars, watchedVars>>

RowsInit ==
  /\ part \in {"torrents", "users", "lists", "watched"}
  /\ Init /\ UsersInit /\ ListsInit /\ WatchedInit
  /\ part = "torrents" \/ Known = {}
  /\ part = "users" \/ config
  /\ part = "watched" \/ seen = [e \in Episodes |-> "new"]

RowsNext ==
  /\ UNCHANGED part
  /\ \/ part = "torrents" /\ Next /\ UNCHANGED <<usersVars, listsVars, watchedVars>>
     \/ part = "users" /\ UsersNext /\ UNCHANGED <<vars, listsVars, watchedVars>>
     \/ part = "lists" /\ ListsNext /\ UNCHANGED <<vars, usersVars, watchedVars>>
     \/ part = "watched" /\ WatchedNext /\ UNCHANGED <<vars, usersVars, listsVars>>

RowsSpec == RowsInit /\ [][RowsNext]_rowsVars

(* Every part's variables have their types. *)
RowsTypeOK == TypeOK /\ UsersTypeOK /\ ListsTypeOK /\ WatchedTypeOK
=============================================================================
