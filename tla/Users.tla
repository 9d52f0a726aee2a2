------------------------------- MODULE Users -------------------------------
(* The users of a household and what belongs to them: users_controller.go, the
   setup wizard, the rows that other parts write for a user and the progress
   that mpv reports.  Requests run at the same time.  saveUser and deleteUser
   run in a transaction that reads before it writes; SQLite lets such a
   transaction write only if nothing has been committed since it read
   (SQLITE_BUSY_SNAPSHOT), and a transaction that begins with a write waits for
   its turn.  The ids of deleted users are not given out again
   (AUTOINCREMENT). *)
EXTENDS Naturals

CONSTANTS
  Users,         \* ids of users, those of the future among them
  First,         \* the admin a fresh database starts with
  UserRequests,  \* bound: requests at one time
  NoUser

ASSUME UsersAssumption == First \in Users /\ NoUser \notin Users

VARIABLES
  user,      \* Users -> whether there is one with this id, and whether it is an admin
  owners,    \* users with rows in list (and listItem), userEpisode or userMetaData
  progress,  \* Users -> their watchProgress row of one movie or episode
  late,      \* users a progress ping of an open player came for after they were deleted
  config,    \* there is a configuration
  pending,   \* the setup wizard is open
  req        \* UserRequests -> a request being handled

usersVars == <<user, owners, progress, late, config, pending, req>>

NoRequest == [at |-> "none", op |-> "none", id |-> NoUser, admin |-> FALSE, stale |-> FALSE]

UsersInit ==
  /\ user = [u \in Users |-> IF u = First THEN "admin" ELSE "new"]
  /\ owners = {} /\ progress = [u \in Users |-> "none"] /\ late = {}
  /\ config \in BOOLEAN /\ pending = ~config
  /\ req = [r \in UserRequests |-> NoRequest]

Exists(u) == user[u] \in {"admin", "plain"}

Admins == {u \in Users : user[u] = "admin"}

(* A row is written and committed: what the other transactions have read is
   stale. *)
Outdated == [q \in UserRequests |-> [req[q] EXCEPT !.stale = req[q].at = "read"]]

Committed(r) == req' = [Outdated EXCEPT ![r] = NoRequest]

-----------------------------------------------------------------------------
(* onAdmin looks at the profile read when the request arrived: whether the
   user was an admin then, or the setup wizard was open. *)
Arrive(r, by) ==
  /\ req[r].at = "none"
  /\ by \in Admins \/ pending
  /\ \E op \in {"update", "delete"}, u \in {v \in Users : user[v] # "new"}, admin \in BOOLEAN :
       req' = [req EXCEPT ![r] = [at |-> "arrived", op |-> op, id |-> u,
                                  admin |-> op = "update" /\ admin, stale |-> FALSE]]
  /\ UNCHANGED <<user, owners, progress, late, config, pending>>

(* saveUser without an id inserts. *)
Create(r, by, u) ==
  /\ req[r].at = "none"
  /\ by \in Admins \/ pending
  /\ user[u] = "new"
  /\ \E kind \in {"admin", "plain"} : user' = [user EXCEPT ![u] = kind]
  /\ Committed(r)
  /\ UNCHANGED <<owners, progress, late, config, pending>>

(* keepAnAdmin: it refuses to take the role from the last admin. *)
KeepsAnAdmin(id) == user[id] = "admin" => \E u \in Admins : u # id

(* The reads of the transaction: FindUser when there is a user to update, then
   keepAnAdmin when a role is taken away. *)
Read(r) ==
  /\ req[r].at = "arrived"
  /\ LET found == req[r].op = "delete" \/ Exists(req[r].id)
         kept == req[r].admin \/ KeepsAnAdmin(req[r].id)
     IN req' = [req EXCEPT ![r] = IF found /\ kept
                                  THEN [@ EXCEPT !.at = "read", !.stale = FALSE]
                                  ELSE NoRequest]
  /\ UNCHANGED <<user, owners, progress, late, config, pending>>

MayWriteAnyway(r) == r \in UserRequests

(* SQLite lets a transaction that has read write only on what it has read. *)
MayWrite(r) == ~req[r].stale

Update(r) ==
  /\ req[r].at = "read" /\ req[r].op = "update" /\ MayWrite(r)
  /\ user' = [user EXCEPT ![req[r].id] = IF req[r].admin THEN "admin" ELSE "plain"]
  /\ Committed(r)
  /\ UNCHANGED <<owners, progress, late, config, pending>>

ProgressOfOthersKept(u) == progress

(* deleteUser takes the user's progress along, as every other table's rows. *)
ProgressOfOthers(u) == [progress EXCEPT ![u] = "none"]

Delete(r) ==
  /\ req[r].at = "read" /\ req[r].op = "delete" /\ MayWrite(r)
  /\ owners' = owners \ {req[r].id}
  /\ progress' = ProgressOfOthers(req[r].id)
  /\ user' = [user EXCEPT ![req[r].id] = "gone"]
  /\ Committed(r)
  /\ UNCHANGED <<late, config, pending>>

(* The transaction is refused and rolled back: it is stale, or another one is
   writing, for which it does not wait. *)
TurnedAway(r) ==
  /\ req[r].at = "read"
  /\ req[r].stale \/ \E q \in UserRequests : q # r /\ req[q].at = "read"
  /\ req' = [req EXCEPT ![r] = NoRequest]
  /\ UNCHANGED <<user, owners, progress, late, config, pending>>

-----------------------------------------------------------------------------
(* A request of the user creates a list or marks something watched: a row that
   refers to the user, who must exist (foreign_keys is on). *)
WriteRow(u) ==
  /\ Exists(u)
  /\ owners' = owners \union {u}
  /\ req' = Outdated
  /\ UNCHANGED <<user, progress, late, config, pending>>

ProgressLatest(old, finished) == IF finished THEN "finished" ELSE "begun"

(* UpsertWatchProgress: once finished, finished. *)
ProgressAfter(old, finished) ==
  IF finished \/ old = "finished" THEN "finished" ELSE "begun"

(* progressHandler, for the user the player was started for; watchProgress does
   not refer to it.  Pings are HTTP requests of their own and come in any
   order, so any ping may come at any time. *)
Ping(u, finished) ==
  /\ user[u] # "new"
  /\ progress' = [progress EXCEPT ![u] = ProgressAfter(@, finished)]
  /\ late' = IF Exists(u) THEN late ELSE late \union {u}
  /\ req' = Outdated
  /\ UNCHANGED <<user, owners, config, pending>>

(* setup-complete wants a user to be there. *)
SetupComplete ==
  /\ pending /\ \E u \in Users : Exists(u)
  /\ config' = TRUE /\ pending' = FALSE
  /\ UNCHANGED <<user, owners, progress, late, req>>

(* The process is killed and started again: createUserTable makes the first
   admin when there is no user at all, and the wizard opens without a
   configuration. *)
UsersRestart ==
  /\ req' = [r \in UserRequests |-> NoRequest]
  /\ user' = IF \E u \in Users : Exists(u) THEN user ELSE [user EXCEPT ![First] = "admin"]
  /\ pending' = ~config
  /\ UNCHANGED <<owners, progress, late, config>>

UsersNext ==
  \/ \E r \in UserRequests : \/ Read(r) \/ Update(r) \/ Delete(r) \/ TurnedAway(r)
                         \/ \E by \in Users \union {NoUser} :
                              Arrive(r, by) \/ \E u \in Users : Create(r, by, u)
  \/ \E u \in Users : WriteRow(u) \/ \E finished \in BOOLEAN : Ping(u, finished)
  \/ SetupComplete \/ UsersRestart

UsersSpec == UsersInit /\ [][UsersNext]_usersVars

-----------------------------------------------------------------------------
(* Properties *)

UsersTypeOK ==
  /\ user \in [Users -> {"new", "admin", "plain", "gone"}]
  /\ owners \subseteq Users /\ late \subseteq Users
  /\ progress \in [Users -> {"none", "begun", "finished"}]
  /\ config \in BOOLEAN /\ pending \in BOOLEAN
  /\ req \in [UserRequests -> [at: {"none", "arrived", "read"}, op: {"none", "update", "delete"},
                           id: Users \union {NoUser}, admin: BOOLEAN, stale: BOOLEAN]]

(* The household keeps an admin: two requests that each take the role from, or
   delete, one of the last two admins do not both succeed, though each has seen
   the other admin. *)
AdminRemains == Admins # {}

(* Nothing of a deleted user is left, but for the progress that a player still
   open reported afterwards. *)
NothingLeft ==
  \A u \in Users :
    /\ u \in owners => Exists(u)
    /\ progress[u] # "none" => Exists(u) \/ u \in late

(* What a user has finished stays finished, in whatever order the pings of its
   players arrive, for as long as the user is there. *)
FinishedStays ==
  [][\A u \in Users :
       progress[u] = "finished" /\ Exists(u) /\ Exists(u)' => progress'[u] = "finished"]_usersVars
=============================================================================
