----------------------------- MODULE RowsProofs -----------------------------
(* The household keeps an admin and nothing of those who were deleted, a series
   follows its episodes, and lists keep their order, for every number of users,
   requests, episodes, marks, titles and lists. *)
EXTENDS Users, Watched, Lists, WellFoundedInduction, FiniteSetTheorems, TLAPS

Roles == {"new", "admin", "plain", "gone"}

Request == [at: {"none", "arrived", "read"}, op: {"none", "update", "delete"},
            id: Users \union {NoUser}, admin: BOOLEAN, stale: BOOLEAN]

-----------------------------------------------------------------------------
(* Users: types *)

(* A request that is being handled is of a user. *)
OfUser == \A r \in UserRequests : req[r].at # "none" => req[r].id \in Users

UsersTypeInv == UsersTypeOK /\ OfUser

LEMMA RequestValues == NoRequest \in Request /\ NoRequest.at = "none"
BY DEF NoRequest, Request

LEMMA OutdatedType ==
  ASSUME UsersTypeInv
  PROVE  /\ Outdated \in [UserRequests -> Request]
         /\ \A q \in UserRequests : /\ Outdated[q].at = req[q].at /\ Outdated[q].op = req[q].op
                                    /\ Outdated[q].id = req[q].id
                                    /\ Outdated[q].admin = req[q].admin
                                    /\ Outdated[q].at = "read" => Outdated[q].stale
<1> SUFFICES ASSUME NEW q \in UserRequests
             PROVE  /\ Outdated[q] \in Request
                    /\ Outdated[q].at = req[q].at /\ Outdated[q].op = req[q].op
                    /\ Outdated[q].id = req[q].id /\ Outdated[q].admin = req[q].admin
                    /\ Outdated[q].at = "read" => Outdated[q].stale
  BY DEF Outdated
<1> DEFINE b == req[q].at = "read"
<1>1. b \in BOOLEAN /\ req[q] \in Request
  BY DEF UsersTypeInv, UsersTypeOK, Request
<1>2. Outdated[q] = [req[q] EXCEPT !.stale = b]
  BY DEF Outdated
<1>3. b => req[q].at = "read"
  OBVIOUS
<1>4. req[q].at = "read" => b
  OBVIOUS
<1> HIDE DEF b
<1>5. QED
  BY <1>1, <1>2, <1>3, <1>4 DEF Request

LEMMA CommittedType ==
  ASSUME UsersTypeInv, NEW r \in UserRequests, Committed(r)
  PROVE  /\ req' \in [UserRequests -> Request]
         /\ \A q \in UserRequests :
              req'[q].at # "none" => /\ q # r /\ req'[q].at = req[q].at /\ req'[q].id = req[q].id
                                     /\ req'[q].at = "read" => req'[q].stale
<1>1. req' = [Outdated EXCEPT ![r] = NoRequest]
  BY DEF Committed
<1>2. QED
  BY <1>1, OutdatedType, RequestValues

LEMMA UsersTypeInit == UsersInit => UsersTypeInv
BY RequestValues, UsersAssumption DEF UsersInit, UsersTypeInv, UsersTypeOK, OfUser, Request

LEMMA UsersTypeStep == UsersTypeInv /\ [UsersNext]_usersVars => UsersTypeInv'
<1> SUFFICES ASSUME UsersTypeInv, [UsersNext]_usersVars PROVE UsersTypeInv'
  OBVIOUS
<1> USE DEF UsersTypeInv, UsersTypeOK
<1>1. CASE UNCHANGED usersVars
  BY <1>1 DEF usersVars, OfUser
<1>2. ASSUME NEW r \in UserRequests, NEW by, Arrive(r, by)
      PROVE  UsersTypeInv'
  <2>1. PICK op \in {"update", "delete"}, u \in Users, admin \in BOOLEAN :
          req' = [req EXCEPT ![r] = [at |-> "arrived", op |-> op, id |-> u,
                                     admin |-> op = "update" /\ admin, stale |-> FALSE]]
    BY <1>2 DEF Arrive
  <2>2. PICK b \in BOOLEAN : b = (op = "update" /\ admin)
    OBVIOUS
  <2>3. PICK q \in Request : q = [at |-> "arrived", op |-> op, id |-> u,
                                 admin |-> b, stale |-> FALSE]
    BY DEF Request
  <2>4. req' = [req EXCEPT ![r] = q]
    BY <2>1, <2>2, <2>3
  <2>5. req' \in [UserRequests -> Request] /\ OfUser'
    BY <2>3, <2>4 DEF OfUser, Request
  <2>6. QED
    BY <1>2, <2>5 DEF Arrive, Request
<1>3. ASSUME NEW r \in UserRequests, NEW by, NEW u \in Users, Create(r, by, u)
      PROVE  UsersTypeInv'
  <2>1. req' \in [UserRequests -> Request] /\ OfUser'
    BY <1>3, CommittedType DEF Create, OfUser
  <2>2. user' \in [Users -> Roles]
    BY <1>3 DEF Create, Roles
  <2>3. QED
    BY <1>3, <2>1, <2>2 DEF Create, Request, Roles
<1>4. ASSUME NEW r \in UserRequests, Read(r)
      PROVE  UsersTypeInv'
  <2>1. PICK q : /\ req' = [req EXCEPT ![r] = q]
                 /\ q = [req[r] EXCEPT !.at = "read", !.stale = FALSE] \/ q = NoRequest
    BY <1>4 DEF Read
  <2>2. q \in Request /\ (q.at # "none" => q.id \in Users)
    BY <1>4, <2>1, RequestValues DEF Read, Request, OfUser
  <2>3. req' \in [UserRequests -> Request] /\ OfUser'
    BY <2>1, <2>2 DEF OfUser, Request
  <2>4. QED
    BY <1>4, <2>3 DEF Read, Request
<1>5. ASSUME NEW r \in UserRequests, Update(r) \/ Delete(r)
      PROVE  UsersTypeInv'
  <2>1. req' \in [UserRequests -> Request] /\ OfUser'
    BY <1>5, CommittedType DEF Update, Delete, OfUser
  <2>2. user' \in [Users -> Roles]
    BY <1>5 DEF Update, Delete, Roles
  <2>3. owners' \subseteq Users /\ progress' \in [Users -> {"none", "begun", "finished"}]
    BY <1>5 DEF Update, Delete, ProgressOfOthers
  <2>4. QED
    BY <1>5, <2>1, <2>2, <2>3 DEF Update, Delete, Request, Roles
<1>6. ASSUME NEW r \in UserRequests, TurnedAway(r)
      PROVE  UsersTypeInv'
  <2>1. req' \in [UserRequests -> Request] /\ OfUser'
    BY <1>6, RequestValues DEF TurnedAway, OfUser, Request
  <2>2. QED
    BY <1>6, <2>1 DEF TurnedAway, Request
<1>7. ASSUME NEW u \in Users, WriteRow(u) \/ \E finished \in BOOLEAN : Ping(u, finished)
      PROVE  UsersTypeInv'
  <2>1. req' \in [UserRequests -> Request] /\ OfUser'
    BY <1>7, OutdatedType DEF WriteRow, Ping, OfUser
  <2>2. /\ owners' \subseteq Users /\ late' \subseteq Users
        /\ progress' \in [Users -> {"none", "begun", "finished"}]
    BY <1>7 DEF WriteRow, Ping, ProgressAfter
  <2>3. QED
    BY <1>7, <2>1, <2>2 DEF WriteRow, Ping, Request
<1>8. CASE SetupComplete
  BY <1>8 DEF SetupComplete, OfUser
<1>9. CASE UsersRestart
  <2>1. req' \in [UserRequests -> Request] /\ OfUser'
    BY <1>9, RequestValues DEF UsersRestart, OfUser
  <2>2. user' \in [Users -> Roles]
    BY <1>9, UsersAssumption DEF UsersRestart, Roles
  <2>3. pending' \in BOOLEAN
    BY <1>9 DEF UsersRestart
  <2>4. QED
    BY <1>9, <2>1, <2>2, <2>3 DEF UsersRestart, Request, Roles
<1>10. QED
  BY <1>1, <1>2, <1>3, <1>4, <1>5, <1>6, <1>7, <1>8, <1>9 DEF UsersNext

(* The variables of the household keep their types. *)
THEOREM UsersTypes == UsersSpec => []UsersTypeOK
<1>1. UsersTypeInv => UsersTypeOK
  BY DEF UsersTypeInv
<1>2. QED
  BY <1>1, UsersTypeInit, UsersTypeStep, PTL DEF UsersSpec
-----------------------------------------------------------------------------
(* Users: the last admin *)

(* What a transaction that takes a role away has read, and nobody has
   overtaken, is still so. *)
ReadsHold ==
  \A r \in UserRequests :
    req[r].at = "read" /\ ~req[r].stale /\ ~req[r].admin => KeepsAnAdmin(req[r].id)

DeletionsTake == \A r \in UserRequests : req[r].op = "delete" => ~req[r].admin

AdminInv == ReadsHold /\ DeletionsTake /\ AdminRemains

LEMMA AdminInit == UsersInit => AdminInv
<1> SUFFICES ASSUME UsersInit PROVE AdminInv
  OBVIOUS
<1>1. First \in Admins
  BY UsersAssumption DEF UsersInit, Admins
<1>2. ReadsHold /\ DeletionsTake
  BY DEF UsersInit, ReadsHold, DeletionsTake, NoRequest
<1>3. QED
  BY <1>1, <1>2 DEF AdminInv, AdminRemains

(* Who commits makes all other reads stale. *)
LEMMA ReadsAfterCommit ==
  ASSUME UsersTypeInv, AdminInv, NEW r \in UserRequests, Committed(r)
  PROVE  ReadsHold' /\ DeletionsTake'
<1>1. ReadsHold'
  BY CommittedType DEF ReadsHold
<1>2. req' = [Outdated EXCEPT ![r] = NoRequest]
  BY DEF Committed
<1>3. DeletionsTake'
  BY <1>2, OutdatedType DEF DeletionsTake, AdminInv, NoRequest
<1>4. QED
  BY <1>1, <1>3

LEMMA AdminStep == UsersTypeInv /\ AdminInv /\ [UsersNext]_usersVars => AdminInv'
<1> SUFFICES ASSUME UsersTypeInv, AdminInv, [UsersNext]_usersVars PROVE AdminInv'
  OBVIOUS
<1> USE DEF UsersTypeInv, UsersTypeOK, AdminInv
<1>1. ASSUME user' = user, NEW r \in UserRequests, NEW q, req' = [req EXCEPT ![r] = q],
             q.at = "read" /\ ~q.admin => KeepsAnAdmin(q.id),
             q.op = "delete" => ~q.admin
      PROVE  AdminInv'
  BY <1>1 DEF ReadsHold, DeletionsTake, AdminRemains, Admins, KeepsAnAdmin
<1>2. CASE UNCHANGED usersVars
  BY <1>2 DEF usersVars, ReadsHold, DeletionsTake, AdminRemains, Admins, KeepsAnAdmin
<1>3. ASSUME NEW r \in UserRequests, NEW by, Arrive(r, by)
      PROVE  AdminInv'
  <2>1. PICK op \in {"update", "delete"}, u \in Users, admin \in BOOLEAN :
          req' = [req EXCEPT ![r] = [at |-> "arrived", op |-> op, id |-> u,
                                     admin |-> op = "update" /\ admin, stale |-> FALSE]]
    BY <1>3 DEF Arrive
  <2>2. QED
    BY <1>1, <1>3, <2>1 DEF Arrive
<1>4. ASSUME NEW r \in UserRequests, NEW by, NEW u \in Users, Create(r, by, u)
      PROVE  AdminInv'
  <2>1. ReadsHold' /\ DeletionsTake'
    BY <1>4, ReadsAfterCommit DEF Create
  <2>2. \A v \in Users : user[v] = "admin" => user'[v] = "admin"
    BY <1>4 DEF Create
  <2>3. QED
    BY <2>1, <2>2 DEF AdminRemains, Admins
<1>5. ASSUME NEW r \in UserRequests, Read(r)
      PROVE  AdminInv'
  <2>1. PICK q : /\ req' = [req EXCEPT ![r] = q] /\ user' = user
                 /\ \/ /\ q = [req[r] EXCEPT !.at = "read", !.stale = FALSE]
                       /\ req[r].admin \/ KeepsAnAdmin(req[r].id)
                    \/ q = NoRequest
    BY <1>5 DEF Read
  <2>2. CASE q = NoRequest
    BY <1>1, <2>1, <2>2 DEF NoRequest
  <2>3. CASE q # NoRequest
    <3>1. q.id = req[r].id /\ q.op = req[r].op /\ q.admin = req[r].admin
      BY <2>1, <2>3 DEF Request
    <3>2. QED
      BY <1>1, <2>1, <2>3, <3>1 DEF DeletionsTake
  <2>4. QED
    BY <2>2, <2>3
<1>6. ASSUME NEW r \in UserRequests, Update(r) \/ Delete(r)
      PROVE  AdminInv'
  <2>1. ReadsHold' /\ DeletionsTake'
    BY <1>6, ReadsAfterCommit DEF Update, Delete
  <2>2. /\ req[r].admin \/ KeepsAnAdmin(req[r].id)
        /\ req[r].id \in Users
    BY <1>6 DEF Update, Delete, MayWrite, ReadsHold, OfUser
  <2>3. CASE Update(r) /\ req[r].admin
    BY <2>1, <2>2, <2>3 DEF Update, AdminRemains, Admins
  <2>4. CASE Delete(r) \/ ~req[r].admin
    <3>1. KeepsAnAdmin(req[r].id)
      BY <1>6, <2>2, <2>4 DEF Delete, DeletionsTake
    <3>2. PICK u \in Admins : u # req[r].id
      BY <3>1 DEF KeepsAnAdmin, AdminRemains, Admins
    <3>3. user'[u] = "admin"
      BY <1>6, <3>2 DEF Update, Delete, Admins
    <3>4. QED
      BY <2>1, <3>2, <3>3 DEF AdminRemains, Admins
  <2>5. QED
    BY <1>6, <2>3, <2>4
<1>7. ASSUME NEW r \in UserRequests, TurnedAway(r)
      PROVE  AdminInv'
  BY <1>1, <1>7 DEF TurnedAway, NoRequest
<1>8. ASSUME NEW u \in Users, WriteRow(u) \/ \E finished \in BOOLEAN : Ping(u, finished)
      PROVE  AdminInv'
  <2>1. req' = Outdated /\ user' = user
    BY <1>8 DEF WriteRow, Ping
  <2>2. QED
    BY <2>1, OutdatedType DEF ReadsHold, DeletionsTake, AdminRemains, Admins
<1>9. CASE SetupComplete
  BY <1>9 DEF SetupComplete, ReadsHold, DeletionsTake, AdminRemains, Admins, KeepsAnAdmin
<1>10. CASE UsersRestart
  <2>1. ReadsHold' /\ DeletionsTake'
    BY <1>10 DEF UsersRestart, ReadsHold, DeletionsTake, NoRequest
  <2>2. PICK u \in Users : user[u] = "admin"
    BY DEF AdminRemains, Admins
  <2>3. user' = user
    BY <1>10, <2>2 DEF UsersRestart, Exists
  <2>4. QED
    BY <2>1, <2>3 DEF AdminRemains, Admins
<1>11. QED
  BY <1>2, <1>3, <1>4, <1>5, <1>6, <1>7, <1>8, <1>9, <1>10 DEF UsersNext

(* The household keeps an admin, however many requests take the role away at
   once. *)
THEOREM UsersAdminRemains == UsersSpec => []AdminRemains
<1>1. AdminInv => AdminRemains
  BY DEF AdminInv
<1>2. QED
  BY <1>1, UsersTypeInit, UsersTypeStep, AdminInit, AdminStep, PTL DEF UsersSpec
-----------------------------------------------------------------------------
(* Users: what belongs to them *)

LEMMA NothingLeftStep ==
  UsersTypeInv /\ NothingLeft /\ [UsersNext]_usersVars => NothingLeft'
<1> SUFFICES ASSUME UsersTypeInv, NothingLeft, [UsersNext]_usersVars PROVE NothingLeft'
  OBVIOUS
<1> USE DEF UsersTypeInv, UsersTypeOK, NothingLeft
<1>1. ASSUME owners' = owners, progress' = progress, late' = late,
             \A u \in Users : Exists(u) => Exists(u)'
      PROVE  NothingLeft'
  BY <1>1
<1>2. CASE UNCHANGED usersVars
  BY <1>1, <1>2 DEF usersVars, Exists
<1>3. ASSUME NEW r \in UserRequests,
             \/ Read(r) \/ TurnedAway(r) \/ Update(r)
             \/ \E by \in Users \union {NoUser} :
                  Arrive(r, by) \/ \E u \in Users : Create(r, by, u)
      PROVE  NothingLeft'
  BY <1>1, <1>3 DEF Read, TurnedAway, Update, Arrive, Create, Exists
<1>4. ASSUME NEW r \in UserRequests, Delete(r)
      PROVE  NothingLeft'
  <2>1. \A u \in Users : u # req[r].id =>
          /\ user'[u] = user[u] /\ progress'[u] = progress[u]
          /\ u \in owners' => u \in owners
    BY <1>4 DEF Delete, ProgressOfOthers
  <2>2. req[r].id \notin owners' /\ progress'[req[r].id] = "none"
    BY <1>4 DEF Delete, ProgressOfOthers, OfUser
  <2>3. late' = late
    BY <1>4 DEF Delete
  <2>4. QED
    BY <2>1, <2>2, <2>3 DEF Exists
<1>5. ASSUME NEW u \in Users, WriteRow(u)
      PROVE  NothingLeft'
  BY <1>5 DEF WriteRow, Exists
<1>6. ASSUME NEW u \in Users, NEW finished \in BOOLEAN, Ping(u, finished)
      PROVE  NothingLeft'
  BY <1>6 DEF Ping, Exists
<1>7. CASE SetupComplete \/ UsersRestart
  BY <1>1, <1>7 DEF SetupComplete, UsersRestart, Exists
<1>8. QED
  BY <1>2, <1>3, <1>4, <1>5, <1>6, <1>7 DEF UsersNext

(* Nothing of a deleted user is left, but what a player reported afterwards. *)
THEOREM UsersNothingLeft == UsersSpec => []NothingLeft
<1>1. UsersInit => NothingLeft
  BY DEF UsersInit, NothingLeft
<1>2. QED
  BY <1>1, UsersTypeInit, UsersTypeStep, NothingLeftStep, PTL DEF UsersSpec

LEMMA FinishedStep ==
  ASSUME UsersTypeInv, [UsersNext]_usersVars, NEW u \in Users,
         progress[u] = "finished", Exists(u), Exists(u)'
  PROVE  progress'[u] = "finished"
<1> USE DEF UsersTypeInv, UsersTypeOK
<1>1. CASE progress' = progress
  BY <1>1
<1>2. ASSUME NEW r \in UserRequests, Delete(r)
      PROVE  progress'[u] = "finished"
  <2>1. u # req[r].id
    BY <1>2 DEF Delete, Exists, OfUser
  <2>2. QED
    BY <1>2, <2>1 DEF Delete, ProgressOfOthers
<1>3. ASSUME NEW v \in Users, NEW finished \in BOOLEAN, Ping(v, finished)
      PROVE  progress'[u] = "finished"
  BY <1>3 DEF Ping, ProgressAfter
<1>4. QED
  BY <1>1, <1>2, <1>3
  DEF UsersNext, usersVars, Read, Update, TurnedAway, Arrive, Create, WriteRow, SetupComplete,
      UsersRestart

(* What a user has finished stays finished, in whatever order pings come. *)
THEOREM UsersFinishedStays == UsersSpec => FinishedStays
<1>1. UsersTypeInv /\ [UsersNext]_usersVars =>
        [\A u \in Users : progress[u] = "finished" /\ Exists(u) /\ Exists(u)'
                            => progress'[u] = "finished"]_usersVars
  BY FinishedStep
<1>2. QED
  BY <1>1, UsersTypeInit, UsersTypeStep, PTL DEF UsersSpec, FinishedStays

-----------------------------------------------------------------------------
(* Watched *)

MarkRequest == [at: {"none", "find", "write", "all", "rows", "series", "verdict"},
                of: Episodes \union {"series"}, watched: BOOLEAN, row: BOOLEAN,
                list: SUBSET Episodes, all: BOOLEAN, stale: BOOLEAN]

(* A verdict is being worked out, or written, that will be right or is known to
   be overtaken; one that will be refused does not count. *)
Underway(m) ==
  \/ mark[m].at \in {"all", "rows", "series"}
  \/ mark[m].at = "verdict" /\ (mark[m].row \/ series = "none")

(* What has been read of the episodes and not overtaken is true still. *)
StillTrue(m) ==
  ~mark[m].stale => /\ mark[m].at = "rows" => mark[m].list = Present(seen)
                    /\ mark[m].at \in {"series", "verdict"} => (mark[m].all <=> AllWatched(seen))

VerdictsTrue ==
  \A m \in Marks : /\ StillTrue(m)
                   /\ mark[m].at \in {"none", "find", "write", "all"} => ~mark[m].stale

Marked(rows) == \E e \in Episodes : rows[e] \in {"no", "yes"}

RightOrUnderway ==
  strayed = {} /\ Marked(seen) => Right \/ adding # {} \/ \E m \in Marks : Underway(m)

SeriesInv == VerdictsTrue /\ RightOrUnderway

LEMMA MarkValues == NoMark \in MarkRequest /\ NoMark.at = "none" /\ NoMark.stale = FALSE
BY DEF NoMark, MarkRequest

LEMMA BoolValue == \A v : \E b \in BOOLEAN : b = (v \in {"no", "yes"})
<1>1. TAKE v
<1>2. WITNESS (v \in {"no", "yes"}) \in BOOLEAN
<1>3. QED
  OBVIOUS

LEMMA OvertakenType ==
  ASSUME WatchedTypeOK, NEW e \in Episodes, NEW row
  PROVE  /\ Overtaken(e, row) \in [Marks -> MarkRequest]
         /\ \A m \in Marks :
              LET n == Overtaken(e, row)[m]
              IN /\ n.at = mark[m].at /\ n.row = mark[m].row /\ n.all = mark[m].all
                 /\ n.list = mark[m].list
                 /\ n.stale <=> \/ mark[m].stale
                                \/ /\ seen[e] # row
                                   /\ \/ mark[m].at \in {"series", "verdict"}
                                      \/ mark[m].at = "rows" /\ (row \in Rows <=> seen[e] \notin Rows)
<1> DEFINE Stale(m) == \/ mark[m].stale
                       \/ /\ seen[e] # row
                          /\ \/ mark[m].at \in {"series", "verdict"}
                             \/ mark[m].at = "rows" /\ (row \in Rows <=> seen[e] \notin Rows)
<1> SUFFICES ASSUME NEW m \in Marks
             PROVE  LET n == Overtaken(e, row)[m]
                    IN /\ n \in MarkRequest
                       /\ n.at = mark[m].at /\ n.row = mark[m].row /\ n.all = mark[m].all
                       /\ n.list = mark[m].list
                       /\ n.stale <=> Stale(m)
  BY DEF Overtaken
<1>1. PICK b \in BOOLEAN : b = Stale(m)
  OBVIOUS
<1>2. Overtaken(e, row)[m] = [mark[m] EXCEPT !.stale = b]
  BY <1>1 DEF Overtaken
<1>3. mark[m] \in MarkRequest
  BY DEF WatchedTypeOK, MarkRequest
<1>4. QED
  BY <1>1, <1>2, <1>3 DEF MarkRequest

LEMMA WatchedInitOK == WatchedInit => WatchedTypeOK /\ SeriesInv
<1> SUFFICES ASSUME WatchedInit PROVE WatchedTypeOK /\ SeriesInv
  OBVIOUS
<1>1. WatchedTypeOK
  BY MarkValues DEF WatchedInit, WatchedTypeOK, MarkRequest, Rows
<1>2. VerdictsTrue
  BY MarkValues DEF WatchedInit, VerdictsTrue, StillTrue
<1>3. RightOrUnderway
  BY DEF WatchedInit, RightOrUnderway, Marked
<1>4. QED
  BY <1>1, <1>2, <1>3 DEF SeriesInv

LEMMA WatchedTypeStep == WatchedTypeOK /\ [WatchedNext]_watchedVars => WatchedTypeOK'
<1> SUFFICES ASSUME WatchedTypeOK, [WatchedNext]_watchedVars PROVE WatchedTypeOK'
  OBVIOUS
<1> USE DEF WatchedTypeOK
<1>1. CASE UNCHANGED watchedVars
  BY <1>1 DEF watchedVars
<1>2. ASSUME NEW m \in Marks, NEW q \in MarkRequest, mark' = [mark EXCEPT ![m] = q]
      PROVE  mark' \in [Marks -> MarkRequest]
  BY <1>2 DEF MarkRequest
<1>3. ASSUME NEW m \in Marks, Done(m)
      PROVE  mark' \in [Marks -> MarkRequest]
  BY <1>2, <1>3, MarkValues DEF Done
<1>4. \A w \in BOOLEAN : Row(w) \in {"no", "yes"}
  BY DEF Row
<1>5. ASSUME NEW m \in Marks, Mark(m)
      PROVE  WatchedTypeOK'
  <2>1. PICK of \in Present(seen) \union {"series"}, watched \in BOOLEAN :
          mark' = [mark EXCEPT ![m] = [NoMark EXCEPT !.at = "find", !.of = of, !.watched = watched]]
    BY <1>5 DEF Mark
  <2>2. [NoMark EXCEPT !.at = "find", !.of = of, !.watched = watched] \in MarkRequest
    BY MarkValues DEF MarkRequest, Present
  <2>3. QED
    BY <1>2, <1>5, <2>1, <2>2 DEF Mark, MarkRequest
<1>6. ASSUME NEW m \in Marks, Find(m) \/ ListEpisodes(m) \/ ReadAll(m) \/ FindSeries(m)
      PROVE  WatchedTypeOK'
  <2>1. mark[m] \in MarkRequest
    BY DEF MarkRequest
  <2>2. PICK q \in MarkRequest : mark' = [mark EXCEPT ![m] = q]
    <3>1. CASE Find(m)
      <4>1. PICK b \in BOOLEAN : b = ((IF mark[m].of = "series" THEN series
                                       ELSE seen[mark[m].of]) \in {"no", "yes"})
        BY BoolValue
      <4>2. mark' = [mark EXCEPT ![m] = [mark[m] EXCEPT !.at = "write", !.row = b]]
        BY <3>1, <4>1 DEF Find
      <4>3. [mark[m] EXCEPT !.at = "write", !.row = b] \in MarkRequest
        BY <2>1 DEF MarkRequest
      <4>4. QED
        BY <4>2, <4>3
    <3>2. CASE ListEpisodes(m)
      <4>1. mark' = [mark EXCEPT ![m] = [mark[m] EXCEPT !.at = "rows", !.list = Present(seen)]]
        BY <3>2 DEF ListEpisodes
      <4>2. [mark[m] EXCEPT !.at = "rows", !.list = Present(seen)] \in MarkRequest
        BY <2>1 DEF MarkRequest, Present
      <4>3. QED
        BY <4>1, <4>2
    <3>3. CASE ReadAll(m)
      <4>1. PICK b \in BOOLEAN : b = Verdict(m)
        BY DEF Verdict
      <4>2. mark' = [mark EXCEPT ![m] = [mark[m] EXCEPT !.at = "series", !.all = b]]
        BY <3>3, <4>1 DEF ReadAll
      <4>3. [mark[m] EXCEPT !.at = "series", !.all = b] \in MarkRequest
        BY <2>1 DEF MarkRequest
      <4>4. QED
        BY <4>2, <4>3
    <3>4. CASE FindSeries(m)
      <4>1. PICK b \in BOOLEAN : b = (series # "none")
        OBVIOUS
      <4>2. mark' = [mark EXCEPT ![m] = [mark[m] EXCEPT !.at = "verdict", !.row = b]]
        BY <3>4, <4>1 DEF FindSeries
      <4>3. [mark[m] EXCEPT !.at = "verdict", !.row = b] \in MarkRequest
        BY <2>1 DEF MarkRequest
      <4>4. QED
        BY <4>2, <4>3
    <3>5. QED
      BY <1>6, <3>1, <3>2, <3>3, <3>4
  <2>3. QED
    BY <1>2, <1>6, <2>2 DEF Find, ListEpisodes, ReadAll, FindSeries, MarkRequest
<1>7. ASSUME NEW m \in Marks, WriteEpisode(m)
      PROVE  WatchedTypeOK'
  <2>1. CASE Refused(m, seen[mark[m].of])
    BY <1>3, <1>7, <2>1 DEF WriteEpisode, MarkRequest
  <2>2. CASE ~Refused(m, seen[mark[m].of])
    <3>1. PICK e \in Episodes, w \in {"no", "yes"} : e = mark[m].of /\ w = Row(mark[m].watched)
      BY <1>4, <1>7 DEF WriteEpisode
    <3>2. /\ seen' = [seen EXCEPT ![e] = w]
          /\ mark' = [Overtaken(e, w) EXCEPT ![m].at = "all"]
      BY <1>7, <2>2, <3>1 DEF WriteEpisode
    <3>3. Overtaken(e, w) \in [Marks -> MarkRequest]
      BY OvertakenType
    <3>4. mark' \in [Marks -> MarkRequest]
      <4>1. PICK new \in [Marks -> MarkRequest] : new = Overtaken(e, w)
        BY <3>3
      <4>2. [new[m] EXCEPT !.at = "all"] \in MarkRequest
        <5>1. new[m] \in MarkRequest
          OBVIOUS
        <5>2. QED
          BY <5>1 DEF MarkRequest
      <4>3. mark' = [new EXCEPT ![m] = [new[m] EXCEPT !.at = "all"]]
        BY <3>2, <4>1
      <4>4. QED
        BY <4>2, <4>3
    <3>5. QED
      BY <1>7, <3>2, <3>4 DEF WriteEpisode, MarkRequest, Rows
  <2>3. QED
    BY <2>1, <2>2
<1>8. ASSUME NEW m \in Marks, WriteVerdict(m) \/ WriteSeries(m)
      PROVE  WatchedTypeOK'
  <2>1. mark' \in [Marks -> MarkRequest] /\ seen' = seen /\ adding' = adding
    BY <1>3, <1>8 DEF WriteVerdict, WriteSeries
  <2>2. series' \in Rows /\ strayed' \subseteq Reasons
    BY <1>4, <1>8 DEF WriteVerdict, WriteSeries, Rows, Reasons
  <2>3. QED
    BY <2>1, <2>2 DEF MarkRequest
<1>9. ASSUME NEW e \in Episodes, NewEpisode(e) \/ DropEpisode(e)
      PROVE  WatchedTypeOK'
  <2>1. mark' \in [Marks -> MarkRequest]
    BY <1>9, OvertakenType DEF NewEpisode, DropEpisode
  <2>2. strayed' \subseteq Reasons
    BY <1>9 DEF NewEpisode, DropEpisode, Reasons
  <2>3. QED
    BY <1>9, <2>1, <2>2 DEF NewEpisode, DropEpisode, MarkRequest, Rows
<1>10. ASSUME NEW e \in Episodes, UnmarkSeries(e)
       PROVE  WatchedTypeOK'
  <2>1. strayed' \subseteq Reasons
    BY <1>10 DEF UnmarkSeries, Reasons
  <2>2. QED
    BY <1>10, <2>1 DEF UnmarkSeries, MarkRequest, Rows
<1>11. CASE WatchedKill
  BY <1>11, MarkValues DEF WatchedKill, MarkRequest, Reasons
<1>12. QED
  BY <1>1, <1>5, <1>6, <1>7, <1>8, <1>9, <1>10, <1>11 DEF WatchedNext

(* A request that goes on, or gives up what was not under way, and touches no
   row. *)
LEMMA SeriesAside ==
  ASSUME SeriesInv, NEW m \in Marks, \A n \in Marks : n # m => mark'[n] = mark[n],
         UNCHANGED <<seen, series, adding, strayed>>,
         Underway(m) => Underway(m)', StillTrue(m)',
         mark'[m].at \in {"none", "find", "write", "all"} => ~mark'[m].stale
  PROVE  SeriesInv'
<1> USE DEF SeriesInv
<1>1. \A n \in Marks : n # m => (StillTrue(n)' <=> StillTrue(n)) /\ (Underway(n)' <=> Underway(n))
  BY DEF StillTrue, Underway, AllWatched, Present
<1>2. VerdictsTrue'
  BY <1>1 DEF VerdictsTrue
<1>3. Right' <=> Right
  BY DEF Right, AllWatched, Present
<1>4. Marked(seen') <=> Marked(seen)
  OBVIOUS
<1>5. RightOrUnderway'
  BY <1>1, <1>3, <1>4 DEF RightOrUnderway
<1>6. QED
  BY <1>2, <1>5

LEMMA SeriesAsk ==
  ASSUME WatchedTypeOK, SeriesInv, NEW m \in Marks, Mark(m) \/ Find(m)
  PROVE  SeriesInv'
<1> USE DEF WatchedTypeOK
<1>1. mark[m] \in MarkRequest /\ ~mark[m].stale /\ mark[m].at \in {"none", "find"}
  BY DEF Mark, Find, SeriesInv, VerdictsTrue, MarkRequest
<1>2. PICK q \in MarkRequest : mark' = [mark EXCEPT ![m] = q] /\ ~q.stale /\ q.at \in {"find", "write"}
  <2>1. CASE Mark(m)
    <3>1. PICK of \in Present(seen) \union {"series"}, watched \in BOOLEAN :
            mark' = [mark EXCEPT ![m] = [NoMark EXCEPT !.at = "find", !.of = of, !.watched = watched]]
      BY <2>1 DEF Mark
    <3>2. PICK q \in MarkRequest : q = [NoMark EXCEPT !.at = "find", !.of = of, !.watched = watched]
      BY MarkValues DEF MarkRequest, Present
    <3>3. q.at = "find" /\ ~q.stale
      BY <3>2, MarkValues DEF MarkRequest
    <3>4. QED
      BY <3>1, <3>2, <3>3
  <2>2. CASE Find(m)
    <3>1. PICK b \in BOOLEAN : b = ((IF mark[m].of = "series" THEN series
                                     ELSE seen[mark[m].of]) \in {"no", "yes"})
      BY BoolValue
    <3>2. mark' = [mark EXCEPT ![m] = [mark[m] EXCEPT !.at = "write", !.row = b]]
      BY <2>2, <3>1 DEF Find
    <3>3. PICK q \in MarkRequest : q = [mark[m] EXCEPT !.at = "write", !.row = b]
      BY <1>1 DEF MarkRequest
    <3>4. q.at = "write" /\ ~q.stale
      BY <1>1, <3>3 DEF MarkRequest
    <3>5. QED
      BY <3>2, <3>3, <3>4
  <2>3. QED
    BY <2>1, <2>2
<1>3. mark'[m] = q /\ \A n \in Marks : n # m => mark'[n] = mark[n]
  BY <1>2
<1>4. ~Underway(m) /\ StillTrue(m)'
  BY <1>1, <1>2, <1>3 DEF Underway, StillTrue
<1>5. UNCHANGED <<seen, series, adding, strayed>>
  BY DEF Mark, Find
<1>6. QED
  BY <1>2, <1>3, <1>4, <1>5, SeriesAside

LEMMA SeriesRead ==
  ASSUME WatchedTypeOK, SeriesInv, NEW m \in Marks, ListEpisodes(m) \/ ReadAll(m) \/ FindSeries(m)
  PROVE  SeriesInv'
<1> USE DEF WatchedTypeOK
<1>1. /\ \A n \in Marks : n # m => mark'[n] = mark[n]
      /\ UNCHANGED <<seen, series, adding, strayed>>
  BY DEF ListEpisodes, ReadAll, FindSeries
<1>2. StillTrue(m)
  BY DEF SeriesInv, VerdictsTrue
<1>3. CASE ListEpisodes(m)
  <2>1. mark'[m].at = "rows" /\ mark'[m].list = Present(seen)
    BY <1>3 DEF ListEpisodes, MarkRequest
  <2>2. Underway(m)' /\ StillTrue(m)'
    BY <1>1, <2>1 DEF Underway, StillTrue, Present
  <2>3. QED
    BY <1>1, <2>1, <2>2, SeriesAside
<1>4. CASE ReadAll(m)
  <2>1. /\ mark[m].at = "rows" /\ mark'[m].at = "series" /\ mark'[m].stale = mark[m].stale
        /\ mark'[m].all <=> Verdict(m)
    BY <1>4 DEF ReadAll, MarkRequest
  <2>2. ~mark[m].stale => (mark'[m].all <=> AllWatched(seen))
    BY <1>2, <2>1 DEF StillTrue, Verdict, AllWatched
  <2>3. AllWatched(seen)' <=> AllWatched(seen)
    BY <1>1 DEF AllWatched, Present
  <2>4. Underway(m)' /\ StillTrue(m)'
    BY <2>1, <2>2, <2>3 DEF Underway, StillTrue
  <2>5. QED
    BY <1>1, <2>1, <2>4, SeriesAside
<1>5. CASE FindSeries(m)
  <2>1. /\ mark[m].at = "series" /\ mark'[m].at = "verdict" /\ mark'[m].all = mark[m].all
        /\ mark'[m].stale = mark[m].stale
        /\ mark'[m].row <=> series # "none"
    BY <1>5 DEF FindSeries, MarkRequest
  <2>2. AllWatched(seen)' <=> AllWatched(seen)
    BY <1>1 DEF AllWatched, Present
  <2>3. Underway(m)' /\ StillTrue(m)'
    BY <1>1, <1>2, <2>1, <2>2 DEF Underway, StillTrue
  <2>4. QED
    BY <1>1, <2>1, <2>3, SeriesAside
<1>6. QED
  BY <1>3, <1>4, <1>5

(* A changed episode makes stale whatever was read of it. *)
LEMMA OvertakenTrue ==
  ASSUME WatchedTypeOK, VerdictsTrue, NEW e \in Episodes, NEW row,
         seen' = [seen EXCEPT ![e] = row],
         NEW m \in Marks,
         mark'[m].at = Overtaken(e, row)[m].at, mark'[m].stale = Overtaken(e, row)[m].stale,
         mark'[m].list = Overtaken(e, row)[m].list, mark'[m].all = Overtaken(e, row)[m].all
  PROVE  /\ StillTrue(m)'
         /\ mark'[m].at \in {"none", "find", "write", "all"} => ~mark'[m].stale
<1>1. /\ mark'[m].at = mark[m].at /\ mark'[m].all = mark[m].all /\ mark'[m].list = mark[m].list
      /\ mark'[m].stale <=> \/ mark[m].stale
                            \/ /\ seen[e] # row
                               /\ \/ mark[m].at \in {"series", "verdict"}
                                  \/ mark[m].at = "rows" /\ (row \in Rows <=> seen[e] \notin Rows)
  BY OvertakenType
<1>2. StillTrue(m) /\ (mark[m].at \in {"none", "find", "write", "all"} => ~mark[m].stale)
  BY DEF VerdictsTrue
<1>3. seen[e] = row => seen' = seen
  BY DEF WatchedTypeOK
<1>4. (row \in Rows <=> seen[e] \in Rows) => Present(seen') = Present(seen)
  BY DEF Present, WatchedTypeOK, Rows
<1>5. CASE seen[e] = row
  <2>1. AllWatched(seen') = AllWatched(seen) /\ Present(seen') = Present(seen)
    BY <1>3, <1>5
  <2>2. QED
    BY <1>1, <1>2, <1>5, <2>1 DEF StillTrue
<1>6. CASE seen[e] # row
  BY <1>1, <1>2, <1>4, <1>6 DEF StillTrue
<1>7. QED
  BY <1>5, <1>6

LEMMA SeriesWriteEpisode ==
  ASSUME WatchedTypeOK, SeriesInv, NEW m \in Marks, WriteEpisode(m)
  PROVE  SeriesInv'
<1> USE DEF WatchedTypeOK
<1>0. ~Underway(m) /\ mark[m].at = "write" /\ ~mark[m].stale
  BY DEF WriteEpisode, Underway, SeriesInv, VerdictsTrue
<1>1. CASE Refused(m, seen[mark[m].of])
  <2>1. mark'[m] = NoMark /\ \A n \in Marks : n # m => mark'[n] = mark[n]
    BY <1>1 DEF WriteEpisode, Done
  <2>2. UNCHANGED <<seen, series, adding, strayed>>
    BY <1>1 DEF WriteEpisode
  <2>3. StillTrue(m)'
    BY <2>1, MarkValues DEF StillTrue
  <2>4. QED
    BY <1>0, <2>1, <2>2, <2>3, MarkValues, SeriesAside
<1>2. CASE ~Refused(m, seen[mark[m].of])
  <2>1. PICK e \in Episodes, w \in {"no", "yes"} : e = mark[m].of /\ w = Row(mark[m].watched)
    BY DEF WriteEpisode, MarkRequest, Row
  <2>2. /\ seen' = [seen EXCEPT ![e] = w]
        /\ mark' = [Overtaken(e, w) EXCEPT ![m].at = "all"]
    BY <1>2, <2>1 DEF WriteEpisode
  <2>3. Overtaken(e, w) \in [Marks -> MarkRequest]
    BY OvertakenType
  <2>4. /\ mark'[m].at = "all" /\ mark'[m].stale = Overtaken(e, w)[m].stale
        /\ \A n \in Marks : n # m => mark'[n] = Overtaken(e, w)[n]
    BY <2>2, <2>3 DEF MarkRequest
  <2>5. ~mark'[m].stale
    BY <1>0, <2>4, OvertakenType
  <2>6. \A n \in Marks : n # m =>
          StillTrue(n)' /\ (mark'[n].at \in {"none", "find", "write", "all"} => ~mark'[n].stale)
    <3>1. SUFFICES ASSUME NEW n \in Marks, n # m
                   PROVE  /\ StillTrue(n)'
                          /\ mark'[n].at \in {"none", "find", "write", "all"} => ~mark'[n].stale
      OBVIOUS
    <3>2. mark'[n] = Overtaken(e, w)[n] /\ VerdictsTrue
      BY <2>4, <3>1 DEF SeriesInv
    <3>3. QED
      BY <2>2, <3>2, OvertakenTrue
  <2>7. VerdictsTrue'
    BY <2>4, <2>5, <2>6 DEF VerdictsTrue, StillTrue
  <2>8. RightOrUnderway'
    BY <2>4 DEF RightOrUnderway, Underway
  <2>9. QED
    BY <2>7, <2>8 DEF SeriesInv
<1>3. QED
  BY <1>1, <1>2

LEMMA SeriesWrite ==
  ASSUME WatchedTypeOK, SeriesInv, NEW m \in Marks, WriteVerdict(m) \/ WriteSeries(m)
  PROVE  SeriesInv'
<1> USE DEF WatchedTypeOK
<1>1. /\ mark'[m] = NoMark
      /\ \A n \in Marks : n # m => mark'[n] = mark[n]
      /\ seen' = seen /\ adding' = adding
  BY DEF WriteVerdict, WriteSeries, Done
<1>2. StillTrue(m)' /\ ~mark'[m].stale
  BY <1>1, MarkValues DEF StillTrue
<1>3. CASE Refused(m, series)
  <2>1. ~Underway(m) /\ UNCHANGED <<series, strayed>>
    BY <1>3 DEF WriteVerdict, WriteSeries, Refused, Underway
  <2>2. QED
    BY <1>1, <1>2, <2>1, SeriesAside
<1>4. CASE ~Refused(m, series)
  <2>1. \A n \in Marks : n # m => (StillTrue(n)' <=> StillTrue(n))
    BY <1>1 DEF StillTrue, AllWatched, Present
  <2>2. VerdictsTrue'
    BY <1>1, <1>2, <2>1 DEF VerdictsTrue, SeriesInv
  <2>3. strayed' # {} \/ Right'
    <3>1. CASE WriteSeries(m)
      BY <1>4, <3>1 DEF WriteSeries
    <3>2. CASE WriteVerdict(m) /\ mark[m].stale
      BY <1>4, <3>2 DEF WriteVerdict
    <3>3. CASE WriteVerdict(m) /\ ~mark[m].stale
      <4>1. mark[m].all <=> AllWatched(seen)
        BY <3>3 DEF WriteVerdict, SeriesInv, VerdictsTrue, StillTrue
      <4>2. series' = Row(mark[m].all)
        BY <1>4, <3>3 DEF WriteVerdict
      <4>3. series' = "yes" <=> AllWatched(seen)
        BY <4>1, <4>2 DEF Row
      <4>4. QED
        BY <1>1, <4>3 DEF Right, AllWatched, Present
    <3>4. QED
      BY <3>1, <3>2, <3>3
  <2>4. QED
    BY <2>2, <2>3 DEF SeriesInv, RightOrUnderway
<1>5. QED
  BY <1>3, <1>4

LEMMA SeriesEpisode ==
  ASSUME WatchedTypeOK, SeriesInv, NEW e \in Episodes, NewEpisode(e) \/ DropEpisode(e)
  PROVE  SeriesInv'
<1> USE DEF WatchedTypeOK
<1>1. VerdictsTrue
  BY DEF SeriesInv
<1>2. PICK row \in {"none", "gone"} :
        /\ seen' = [seen EXCEPT ![e] = row] /\ mark' = Overtaken(e, row)
        /\ row = "gone" <=> DropEpisode(e)
  BY DEF NewEpisode, DropEpisode
<1>3. VerdictsTrue'
  BY <1>1, <1>2, OvertakenTrue DEF VerdictsTrue
<1>4. CASE NewEpisode(e)
  <2>1. adding' # {}
    BY <1>4 DEF NewEpisode
  <2>2. QED
    BY <1>3, <2>1 DEF SeriesInv, RightOrUnderway
<1>5. CASE DropEpisode(e)
  <2>1. /\ seen[e] = "none" /\ seen' = [seen EXCEPT ![e] = "gone"]
        /\ series' = series /\ adding' = adding
        /\ strayed' = strayed \union (IF AllWatched(seen') THEN {"dropped"} ELSE {})
    BY <1>5 DEF DropEpisode
  <2>2. ~AllWatched(seen)
    BY <2>1 DEF AllWatched, Present, Rows
  <2>3. Marked(seen') => Marked(seen)
    BY <2>1 DEF Marked
  <2>4. \A m \in Marks : Underway(m)' <=> Underway(m)
    BY <1>2, <2>1, OvertakenType DEF Underway
  <2>5. strayed' = {} => (Right' <=> Right)
    <3>1. strayed' = {} => ~AllWatched(seen')
      BY <2>1
    <3>2. QED
      BY <2>1, <2>2, <3>1 DEF Right
  <2>6. RightOrUnderway'
    BY <2>1, <2>3, <2>4, <2>5 DEF SeriesInv, RightOrUnderway
  <2>7. QED
    BY <1>3, <2>6 DEF SeriesInv
<1>6. QED
  BY <1>4, <1>5

LEMMA SeriesUnmark ==
  ASSUME WatchedTypeOK, SeriesInv, NEW e \in Episodes, UnmarkSeries(e)
  PROVE  SeriesInv'
<1>1. /\ seen' = seen /\ mark' = mark
      /\ series' # "yes" /\ (strayed' = {} => seen[e] \in {"none", "no"})
  BY DEF UnmarkSeries
<1>2. VerdictsTrue'
  BY <1>1 DEF SeriesInv, VerdictsTrue, StillTrue, AllWatched, Present
<1>3. strayed' # {} \/ Right'
  BY <1>1 DEF Right, AllWatched, Present, Rows
<1>4. QED
  BY <1>2, <1>3 DEF SeriesInv, RightOrUnderway

LEMMA SeriesKill ==
  ASSUME WatchedTypeOK, SeriesInv, WatchedKill
  PROVE  SeriesInv'
<1>1. \A m \in Marks : mark'[m] = NoMark
  BY DEF WatchedKill
<1>2. VerdictsTrue'
  BY <1>1, MarkValues DEF VerdictsTrue, StillTrue
<1>3. \A m \in Marks : Underway(m) => strayed' # {}
  BY DEF Underway, WatchedKill
<1>4. /\ seen' = seen /\ series' = series
      /\ strayed # {} \/ adding # {} => strayed' # {}
  BY DEF WatchedKill
<1>5. RightOrUnderway'
  BY <1>3, <1>4 DEF SeriesInv, RightOrUnderway, Right, Marked, AllWatched, Present
<1>6. QED
  BY <1>2, <1>5 DEF SeriesInv

LEMMA SeriesStep == WatchedTypeOK /\ SeriesInv /\ [WatchedNext]_watchedVars => SeriesInv'
<1> SUFFICES ASSUME WatchedTypeOK, SeriesInv, [WatchedNext]_watchedVars PROVE SeriesInv'
  OBVIOUS
<1>1. CASE UNCHANGED watchedVars
  BY <1>1 DEF watchedVars, SeriesInv, VerdictsTrue, StillTrue, RightOrUnderway, Marked,
              Right, Underway, AllWatched, Present
<1>2. QED
  BY <1>1, SeriesAsk, SeriesRead, SeriesWriteEpisode, SeriesWrite, SeriesEpisode, SeriesUnmark,
     SeriesKill DEF WatchedNext

(* The variables of the watched flags keep their types. *)
THEOREM WatchedTypes == WatchedSpec => []WatchedTypeOK
BY WatchedInitOK, WatchedTypeStep, PTL DEF WatchedSpec

(* Between requests and matches the series is watched exactly when all its
   episodes are, unless the verdict written last is of before an episode changed,
   the series was marked by itself, its last episode not watched was dropped, a
   kill left it without a verdict, or a new episode was marked or dropped before
   matching took the mark off the series. *)
THEOREM WatchedSeriesFollows == WatchedSpec => []SeriesFollows
<1>1. SeriesInv => SeriesFollows
  BY DEF SeriesInv, RightOrUnderway, SeriesFollows, Quiet, Underway, Right, Marked
<1>2. QED
  BY <1>1, WatchedInitOK, WatchedTypeStep, SeriesStep, PTL DEF WatchedSpec

-----------------------------------------------------------------------------
(* Lists: numbers and positions *)

\* A set of numbers that has a bound has a greatest one.
LEMMA Highest ==
  ASSUME NEW S \in SUBSET Nat, S # {}, NEW b \in Nat, \A p \in S : p <= b
  PROVE  \E p \in S : \A q \in S : q <= p
<1> DEFINE T == {n \in Nat : n <= b /\ b - n \in S}
           R == OpToRel(<, Nat)
<1>1. T \subseteq Nat /\ T # {}
  <2>1. PICK p \in S : TRUE
    OBVIOUS
  <2>2. b - p \in Nat /\ b - p <= b /\ b - (b - p) = p
    BY <2>1
  <2>3. b - p \in T
    BY <2>1, <2>2
  <2> QED BY <2>3
<1>2. \E n \in T : \A m \in T : <<m, n>> \notin R
  <2> HIDE DEF T
  <2> QED BY <1>1, NatLessThanWellFounded, WFMin
<1>3. PICK n \in T : \A m \in T : <<m, n>> \notin R
  BY <1>2
<1>4. ASSUME NEW q \in S PROVE q <= b - n
  <2>1. b - q \in T
    BY <1>4
  <2>2. <<b - q, n>> \notin R
    BY <1>3, <2>1
  <2>3. ~(b - q < n)
    BY <2>1, <2>2, <1>3 DEF OpToRel
  <2>4. n \in Nat /\ n <= b /\ q \in Nat /\ q <= b
    BY <1>3, <1>4
  <2> QED BY ONLY <2>3, <2>4, b \in Nat
<1> QED BY <1>3, <1>4

ListEdit == [at: {"none", "max", "insert", "remove", "reorder"}, list: ListIds \union {"none"},
             title: Shows \union {"none"}, order: Orders \union {<<>>}, next: 0 .. MaxPosition,
             stale: BOOLEAN]

\* What a request that is being handled is about.
OfList(e) ==
  /\ edit[e].at # "none" => edit[e].list \in ListIds
  /\ edit[e].at \in {"max", "insert", "remove"} => edit[e].title \in Shows
  /\ edit[e].at = "reorder" => edit[e].order \in Orders

\* Positions do not grow without end: a maximum can be read.
TopPosition == MaxPosition + Cardinality(Shows)

ListsTypeInv ==
  /\ ListsTypeOK
  /\ edit \in [Edits -> ListEdit]
  /\ \A e \in Edits : OfList(e)
  /\ \A l \in ListIds, t \in Shows : position[l][t] # Nowhere => position[l][t] <= TopPosition

LEMMA ShowsCounted == Cardinality(Shows) \in Nat /\ TopPosition \in Nat /\ Nowhere \notin Nat
                      /\ MaxPosition <= TopPosition /\ Cardinality(Shows) <= TopPosition
<1>1. Cardinality(Shows) \in Nat
  BY ListsAssumption, FS_CardinalityType
<1> QED BY <1>1, ListsAssumption DEF TopPosition

LEMMA EditValues == NoEdit \in ListEdit /\ NoEdit.at = "none" /\ ~NoEdit.stale
BY ListsAssumption DEF NoEdit, ListEdit

LEMMA PositionsKnown ==
  ASSUME ListsTypeInv, NEW l \in ListIds
  PROVE  /\ Positions(l) \subseteq Nat
         /\ \A t \in Shows : t \in Items(l) <=> position[l][t] # Nowhere
         /\ \A t \in Items(l) : t \in Shows /\ position[l][t] \in Positions(l)
         /\ \A t \in Shows : position[l][t] \in Nat \union {Nowhere}
         /\ \A p \in Positions(l) : p <= TopPosition
         /\ Items(l) # {} => Positions(l) # {}
<1>1. \A t \in Shows : position[l][t] \in Nat \union {Nowhere}
  BY DEF ListsTypeInv, ListsTypeOK
<1>2. \A t \in Shows : position[l][t] # Nowhere => position[l][t] <= TopPosition
  BY DEF ListsTypeInv
<1> QED BY <1>1, <1>2 DEF Positions, Items

\* max(position) + 1 is a position nothing in the list has come to.
LEMMA NextFree ==
  ASSUME ListsTypeInv, NEW l \in ListIds
  PROVE  NextPosition(l) \in Nat /\ \A t \in Items(l) : position[l][t] < NextPosition(l)
<1>1. CASE Items(l) = {}
  BY <1>1 DEF NextPosition
<1>2. CASE Items(l) # {}
  <2>1. \E p \in Positions(l) : \A q \in Positions(l) : q <= p
    BY <1>2, PositionsKnown, ShowsCounted, Highest
  <2> DEFINE m == CHOOSE p \in Positions(l) : \A q \in Positions(l) : q <= p
  <2>2. m \in Positions(l) /\ \A q \in Positions(l) : q <= m
    BY <2>1
  <2>3. NextPosition(l) = m + 1
    BY <1>2 DEF NextPosition
  <2> HIDE DEF m
  <2> QED BY <2>2, <2>3, PositionsKnown
<1> QED BY <1>1, <1>2

\* Orders are of titles of the list, each once: a title has one place in one.
LEMMA PlaceInOrder ==
  ASSUME NEW order \in Orders
  PROVE  /\ \A t \in ToShows(order) : \E i \in DOMAIN order :
               order[i] = t /\ PositionIn(order, t) = i - 1
         /\ \A i, j \in DOMAIN order : order[i] = order[j] => i = j
         /\ \A t \in ToShows(order) : PositionIn(order, t) \in Nat
                                      /\ PositionIn(order, t) <= TopPosition
         /\ \A i \in DOMAIN order : i \in Nat /\ order[i] \in ToShows(order)
                                    /\ PositionIn(order, order[i]) = i - 1
<1>1. PICK n \in 1 .. Cardinality(Shows) :
        order \in [1 .. n -> Shows] /\ \A i, j \in 1 .. n : order[i] = order[j] => i = j
  BY DEF Orders
<1>2. \A t \in ToShows(order) : \E i \in DOMAIN order : order[i] = t /\ PositionIn(order, t) = i - 1
  BY DEF ToShows, PositionIn
<1>3. \A i \in DOMAIN order : i \in Nat /\ 1 <= i /\ i <= TopPosition /\ order[i] \in ToShows(order)
  BY <1>1, ShowsCounted DEF ToShows
<1>4. \A t \in ToShows(order) : PositionIn(order, t) \in Nat /\ PositionIn(order, t) <= TopPosition
  BY <1>2, <1>3, ShowsCounted
<1> QED BY <1>1, <1>2, <1>3, <1>4

\* f waits as it did, or has been told that the items of l have changed.
Waited(f, l) ==
  /\ edit'[f].at = edit[f].at /\ edit'[f].list = edit[f].list /\ edit'[f].title = edit[f].title
  /\ edit'[f].order = edit[f].order /\ edit'[f].next = edit[f].next
  /\ edit[f].stale => edit'[f].stale
  /\ edit[f].at = "insert" /\ edit[f].list = l => edit'[f].stale

LEMMA StaleEdit ==
  ASSUME ListsTypeInv, NEW f \in Edits
  PROVE  LET s == [edit[f] EXCEPT !.stale = TRUE] IN
         /\ s \in ListEdit
         /\ s.at = edit[f].at /\ s.list = edit[f].list /\ s.title = edit[f].title
         /\ s.order = edit[f].order /\ s.next = edit[f].next /\ s.stale
<1>1. edit[f] \in ListEdit
  BY DEF ListsTypeInv
<1> QED BY <1>1 DEF ListEdit

LEMMA EditEnds ==
  ASSUME ListsTypeInv, NEW e \in Edits, NEW l, EndEdit(e, l)
  PROVE  /\ edit' \in [Edits -> ListEdit]
         /\ edit'[e] = NoEdit
         /\ \A f \in Edits \ {e} : Waited(f, l)
<1>1. \A f \in Edits : edit[f] \in ListEdit
  BY DEF ListsTypeInv
<1>2. edit'[e] = NoEdit /\ NoEdit \in ListEdit
  BY EditValues DEF EndEdit
<1>3. ASSUME NEW f \in Edits \ {e} PROVE edit'[f] \in ListEdit /\ Waited(f, l)
  <2> DEFINE s == [edit[f] EXCEPT !.stale = TRUE]
  <2>1. edit'[f] = IF edit[f].at = "insert" /\ edit[f].list = l THEN s ELSE edit[f]
    BY DEF EndEdit
  <2>2. s \in ListEdit /\ s.at = edit[f].at /\ s.list = edit[f].list /\ s.title = edit[f].title
        /\ s.order = edit[f].order /\ s.next = edit[f].next /\ s.stale
    BY StaleEdit
  <2> HIDE DEF s
  <2> QED BY <1>1, <2>1, <2>2 DEF Waited
<1>4. edit' = [f \in Edits |-> edit'[f]]
  BY DEF EndEdit
<1> QED BY <1>2, <1>3, <1>4

LEMMA ListDeletedEdits ==
  ASSUME ListsTypeInv, NEW l \in ListIds, NEW owner, DeleteList(l, owner)
  PROVE  edit' \in [Edits -> ListEdit] /\ \A f \in Edits : Waited(f, l)
<1>1. ASSUME NEW f \in Edits PROVE edit'[f] \in ListEdit /\ Waited(f, l)
  <2> DEFINE s == [edit[f] EXCEPT !.stale = TRUE]
  <2>1. edit'[f] = IF edit[f].at = "insert" /\ edit[f].list = l THEN s ELSE edit[f]
    BY DEF DeleteList
  <2>2. s \in ListEdit /\ s.at = edit[f].at /\ s.list = edit[f].list /\ s.title = edit[f].title
        /\ s.order = edit[f].order /\ s.next = edit[f].next /\ s.stale
    BY StaleEdit
  <2>3. edit[f] \in ListEdit
    BY DEF ListsTypeInv
  <2> HIDE DEF s
  <2> QED BY <2>1, <2>2, <2>3 DEF Waited
<1>2. edit' = [f \in Edits |-> edit'[f]]
  BY DEF DeleteList
<1> QED BY <1>1, <1>2

-----------------------------------------------------------------------------
(* Lists: what the steps do *)

LEMMA CheckSteps ==
  ASSUME ListsTypeInv, NEW e \in Edits, NEW l \in ListIds, Check(e, l)
  PROVE  /\ UNCHANGED <<position, wished, mixed>> /\ lists' = lists
         /\ edit' \in [Edits -> ListEdit]
         /\ edit'[e].at # "insert" /\ OfList(e)'
         /\ \A f \in Edits \ {e} : edit'[f] = edit[f]
<1>1. \E s \in ListEdit : /\ edit' = [edit EXCEPT ![e] = s]
                          /\ s.list = l
                          /\ \/ s.at \in {"max", "remove"} /\ s.title \in Shows
                             \/ s.at = "reorder" /\ s.order \in Orders
  <2>1. CASE \E t \in Shows, at \in {"max", "remove"} :
               edit' = [edit EXCEPT ![e] = [NoEdit EXCEPT !.at = at, !.list = l, !.title = t]]
    <3>1. PICK t \in Shows, at \in {"max", "remove"} :
            edit' = [edit EXCEPT ![e] = [NoEdit EXCEPT !.at = at, !.list = l, !.title = t]]
      BY <2>1
    <3> DEFINE s == [NoEdit EXCEPT !.at = at, !.list = l, !.title = t]
    <3>2. s \in ListEdit /\ s.at = at /\ s.list = l /\ s.title = t
      BY EditValues DEF ListEdit, NoEdit
    <3>3. edit' = [edit EXCEPT ![e] = s]
      BY <3>1
    <3> HIDE DEF s
    <3> QED BY <3>2, <3>3
  <2>2. CASE \E o \in Orders :
               edit' = [edit EXCEPT ![e] = [NoEdit EXCEPT !.at = "reorder", !.list = l, !.order = o]]
    <3>1. PICK o \in Orders :
            edit' = [edit EXCEPT ![e] = [NoEdit EXCEPT !.at = "reorder", !.list = l, !.order = o]]
      BY <2>2
    <3> DEFINE s == [NoEdit EXCEPT !.at = "reorder", !.list = l, !.order = o]
    <3>2. s \in ListEdit /\ s.at = "reorder" /\ s.list = l /\ s.order = o
      BY EditValues DEF ListEdit, NoEdit
    <3>3. edit' = [edit EXCEPT ![e] = s]
      BY <3>1
    <3> HIDE DEF s
    <3> QED BY <3>2, <3>3
  <2> QED BY <2>1, <2>2 DEF Check
<1>2. edit \in [Edits -> ListEdit]
  BY DEF ListsTypeInv
<1> QED BY <1>1, <1>2 DEF Check, OfList

LEMMA ReadMaxSteps ==
  ASSUME ListsTypeInv, NEW e \in Edits, ReadMax(e)
  PROVE  /\ UNCHANGED <<position, wished, mixed>> /\ lists' = lists
         /\ edit' \in [Edits -> ListEdit]
         /\ edit[e].list \in ListIds /\ edit'[e].list = edit[e].list
         /\ edit'[e].next = NextPosition(edit[e].list)
         /\ OfList(e)'
         /\ \A f \in Edits \ {e} : edit'[f] = edit[f]
<1> DEFINE n == NextPosition(edit[e].list)
           s == [edit[e] EXCEPT !.at = "insert", !.next = n]
<1>1. edit[e] \in ListEdit /\ edit[e].list \in ListIds /\ edit[e].title \in Shows
  BY DEF ListsTypeInv, OfList, ReadMax
<1>2. n \in 0 .. MaxPosition
  BY <1>1, NextFree, ListsAssumption DEF ReadMax
<1> HIDE DEF n
<1>3. s \in ListEdit /\ s.at = "insert" /\ s.list = edit[e].list /\ s.title = edit[e].title /\ s.next = n
  BY <1>1, <1>2 DEF ListEdit
<1>4. edit' = [edit EXCEPT ![e] = s]
  <2> USE DEF n
  <2> QED BY <1>1 DEF ReadMax, ListEdit
<1> HIDE DEF s
<1>5. edit \in [Edits -> ListEdit]
  BY DEF ListsTypeInv
<1> QED BY <1>1, <1>3, <1>4, <1>5 DEF ReadMax, OfList, n

\* What becomes of the items of the lists other than l.
Elsewhere(l) ==
  \A k \in ListIds \ {l} : /\ position'[k] = position[k]
                           /\ wished'[k] = wished[k]
                           /\ k \in mixed' <=> k \in mixed

LEMMA InsertSteps ==
  ASSUME ListsTypeInv, NEW e \in Edits, Insert(e), edit[e].list \in lists
  PROVE  LET l == edit[e].list
             t == edit[e].title IN
         /\ l \in ListIds /\ t \in Shows /\ edit[e].next \in 0 .. MaxPosition
         /\ EndEdit(e, l) /\ Elsewhere(l)
         /\ position' = [position EXCEPT ![l][t] = PositionAfterAdd(l, t, edit[e].next)]
         /\ position'[l][t] = IF position[l][t] = Nowhere THEN edit[e].next ELSE position[l][t]
         /\ \A u \in Shows \ {t} : position'[l][u] = position[l][u]
         /\ wished' = wished /\ lists' = lists
         /\ mixed \subseteq mixed' /\ mixed' \subseteq mixed \union {l}
         /\ edit[e].stale => l \in mixed'
<1>1. edit[e] \in ListEdit /\ edit[e].list \in ListIds /\ edit[e].title \in Shows
  BY DEF ListsTypeInv, OfList, Insert
<1>2. position \in [ListIds -> [Shows -> Nat \union {Nowhere}]]
  BY DEF ListsTypeInv, ListsTypeOK
<1>3. edit[e].next \in 0 .. MaxPosition
  BY <1>1 DEF ListEdit
<1> QED BY <1>1, <1>2, <1>3 DEF Insert, PositionAfterAdd, Elsewhere

LEMMA RefusedSteps ==
  ASSUME ListsTypeInv, NEW e \in Edits, Insert(e), edit[e].list \notin lists
  PROVE  /\ UNCHANGED <<position, wished, mixed>> /\ lists' = lists
         /\ edit' \in [Edits -> ListEdit]
         /\ edit'[e] = NoEdit
         /\ \A f \in Edits \ {e} : edit'[f] = edit[f]
BY EditValues DEF Insert, Reject, ListsTypeInv

LEMMA RemoveSteps ==
  ASSUME ListsTypeInv, NEW e \in Edits, Remove(e)
  PROVE  LET l == edit[e].list
             t == edit[e].title IN
         /\ l \in ListIds /\ t \in Shows
         /\ EndEdit(e, l) /\ Elsewhere(l)
         /\ position' = [position EXCEPT ![l][t] = Nowhere]
         /\ position'[l][t] = Nowhere
         /\ \A u \in Shows \ {t} : position'[l][u] = position[l][u]
         /\ wished' = [wished EXCEPT ![l] = Without(wished[l], t)]
         /\ mixed' = mixed /\ lists' = lists
<1>1. edit[e].list \in ListIds /\ edit[e].title \in Shows
  BY DEF ListsTypeInv, OfList, Remove
<1>2. position \in [ListIds -> [Shows -> Nat \union {Nowhere}]]
      /\ wished \in [ListIds -> SUBSET (Shows \X Shows)]
  BY DEF ListsTypeInv, ListsTypeOK
<1> QED BY <1>1, <1>2 DEF Remove, Elsewhere

LEMMA ReorderSteps ==
  ASSUME ListsTypeInv, NEW e \in Edits, Reorder(e)
  PROVE  LET l == edit[e].list
             order == edit[e].order IN
         /\ l \in ListIds /\ order \in Orders
         /\ EndEdit(e, l) /\ Elsewhere(l)
         /\ position' = [position EXCEPT ![l] = Reordered(l, order)]
         /\ \A t \in Shows : position'[l][t] = IF t \in Items(l) /\ t \in ToShows(order)
                                               THEN PositionIn(order, t) ELSE position[l][t]
         /\ wished' = [wished EXCEPT ![l] = Asked(l, order)]
         /\ mixed' \subseteq mixed \union {l}
         /\ l \in mixed' <=> ~(Items(l) \subseteq ToShows(order))
         /\ lists' = lists
<1>1. edit[e].list \in ListIds /\ edit[e].order \in Orders
  BY DEF ListsTypeInv, OfList, Reorder
<1>2. position \in [ListIds -> [Shows -> Nat \union {Nowhere}]]
      /\ wished \in [ListIds -> SUBSET (Shows \X Shows)]
  BY DEF ListsTypeInv, ListsTypeOK
<1> QED BY <1>1, <1>2 DEF Reorder, Reordered, Elsewhere

LEMMA DeleteListSteps ==
  ASSUME ListsTypeInv, NEW l \in ListIds, NEW owner, DeleteList(l, owner)
  PROVE  /\ Elsewhere(l)
         /\ position' = [position EXCEPT ![l] = [t \in Shows |-> Nowhere]]
         /\ \A t \in Shows : position'[l][t] = Nowhere
         /\ wished' = [wished EXCEPT ![l] = {}] /\ wished'[l] = {}
         /\ mixed' \subseteq mixed
         /\ lists' \subseteq lists
<1>2. position \in [ListIds -> [Shows -> Nat \union {Nowhere}]]
      /\ wished \in [ListIds -> SUBSET (Shows \X Shows)]
  BY DEF ListsTypeInv, ListsTypeOK
<1> QED BY <1>2 DEF DeleteList, Elsewhere

-----------------------------------------------------------------------------
(* Lists: the invariants *)

\* An addition that no change has overtaken has a position after all in its list.
Ahead(e) ==
  edit[e].at = "insert" /\ ~edit[e].stale =>
    \A t \in Items(edit[e].list) : position[edit[e].list][t] < edit[e].next

\* The order asked for is one of items of the list.
AskedItems == \A l \in ListIds : \A p \in wished[l] : p[1] \in Items(l) /\ p[2] \in Items(l)

ListsInv ==
  /\ ListsTypeInv
  /\ \A e \in Edits : Ahead(e)
  /\ AskedItems
  /\ OwnPosition
  /\ OrderStays

\* What a change of the items of l has to keep to.
Kept(l) ==
  /\ lists' \subseteq lists /\ mixed' \subseteq mixed \union {l}
  /\ edit' \in [Edits -> ListEdit]
  /\ Elsewhere(l)
  /\ position' \in [ListIds -> [Shows -> Nat \union {Nowhere}]]
  /\ wished' \in [ListIds -> SUBSET (Shows \X Shows)]
  /\ \A t \in Shows : position'[l][t] # Nowhere => position'[l][t] <= TopPosition
  /\ \A f \in Edits : edit'[f] = NoEdit \/ Waited(f, l)
  /\ l \notin mixed' => \A t, u \in Shows :
       t # u /\ position'[l][t] # Nowhere => position'[l][t] # position'[l][u]
  /\ \A p \in wished'[l] : /\ position'[l][p[1]] # Nowhere /\ position'[l][p[2]] # Nowhere
                           /\ position'[l][p[1]] < position'[l][p[2]]

LEMMA KeptKeeps ==
  ASSUME ListsInv, NEW l \in ListIds, Kept(l)
  PROVE  ListsInv'
<1>1. ListsTypeOK'
  BY DEF ListsInv, ListsTypeInv, ListsTypeOK, Kept
<1>2. ASSUME NEW f \in Edits PROVE OfList(f)'
  BY EditValues DEF ListsInv, ListsTypeInv, OfList, Kept, Waited
<1>3. \A k \in ListIds, t \in Shows : position'[k][t] # Nowhere => position'[k][t] <= TopPosition
  BY DEF ListsInv, ListsTypeInv, Kept, Elsewhere
<1>4. ListsTypeInv'
  BY <1>1, <1>2, <1>3 DEF ListsTypeInv, Kept, TopPosition
<1>5. ASSUME NEW f \in Edits PROVE Ahead(f)'
  <2> SUFFICES ASSUME edit'[f].at = "insert", ~edit'[f].stale
               PROVE  \A t \in Items(edit[f].list)' : position'[edit'[f].list][t] < edit'[f].next
    BY DEF Ahead
  <2>1. Waited(f, l)
    BY EditValues DEF Kept
  <2>2. edit[f].at = "insert" /\ ~edit[f].stale /\ edit'[f].list = edit[f].list /\ edit'[f].next = edit[f].next
        /\ edit[f].list # l /\ edit[f].stale \in BOOLEAN
    BY <2>1 DEF Waited, ListsInv, ListsTypeInv, ListEdit
  <2>3. edit[f].list \in ListIds \ {l}
    BY <2>2 DEF ListsInv, ListsTypeInv, OfList
  <2>4. position'[edit[f].list] = position[edit[f].list]
    BY <2>3 DEF Kept, Elsewhere
  <2> QED BY <2>2, <2>4 DEF ListsInv, Ahead, Items
<1>6. AskedItems'
  <2> SUFFICES ASSUME NEW k \in ListIds, NEW p \in wished'[k]
               PROVE  p[1] \in Items(k)' /\ p[2] \in Items(k)'
    BY DEF AskedItems
  <2>1. p[1] \in Shows /\ p[2] \in Shows
    BY DEF Kept
  <2>2. CASE k = l
    BY <2>1, <2>2 DEF Kept, Items
  <2>3. CASE k # l
    <3>1. p \in wished[k] /\ position'[k] = position[k]
      BY <2>3 DEF Kept, Elsewhere
    <3> QED BY <2>1, <3>1 DEF ListsInv, AskedItems, Items
  <2> QED BY <2>2, <2>3
<1>7. OwnPosition'
  BY DEF ListsInv, OwnPosition, Kept, Elsewhere, Items
<1>8. OrderStays'
  BY DEF ListsInv, OrderStays, Kept, Elsewhere
<1> QED BY <1>4, <1>5, <1>6, <1>7, <1>8 DEF ListsInv

\* Steps that change no item.
LEMMA EditsAlone ==
  ASSUME ListsInv, UNCHANGED <<position, wished, mixed>>, lists' = lists,
         NEW e \in Edits, edit' \in [Edits -> ListEdit], OfList(e)', Ahead(e)',
         \A f \in Edits \ {e} : edit'[f] = edit[f]
  PROVE  ListsInv'
<1>1. \A f \in Edits : OfList(f)' /\ Ahead(f)'
  BY DEF ListsInv, ListsTypeInv, OfList, Ahead, Items
<1>2. ListsTypeInv'
  BY <1>1 DEF ListsInv, ListsTypeInv, ListsTypeOK, TopPosition
<1> QED BY <1>1, <1>2 DEF ListsInv, AskedItems, OwnPosition, OrderStays, Items

LEMMA ListsInvInit == ListsInit => ListsInv
<1> SUFFICES ASSUME ListsInit PROVE ListsInv
  OBVIOUS
<1>1. ListsTypeInv
  BY EditValues, ShowsCounted DEF ListsInit, ListsTypeInv, ListsTypeOK, OfList
<1>2. \A l \in ListIds : Items(l) = {} /\ wished[l] = {}
  BY DEF ListsInit, Items
<1>3. \A e \in Edits : Ahead(e)
  BY EditValues DEF ListsInit, Ahead
<1> QED BY <1>1, <1>2, <1>3 DEF ListsInv, AskedItems, OwnPosition, OrderStays

LEMMA InsertKeeps ==
  ASSUME ListsInv, NEW e \in Edits, Insert(e), edit[e].list \in lists
  PROVE  ListsInv'
<1> DEFINE l == edit[e].list
           t == edit[e].title
<1>0. ListsTypeInv
  BY DEF ListsInv
<1>1. /\ l \in ListIds /\ t \in Shows /\ edit[e].next \in 0 .. MaxPosition
      /\ EndEdit(e, l) /\ Elsewhere(l)
      /\ position' = [position EXCEPT ![l][t] = PositionAfterAdd(l, t, edit[e].next)]
      /\ position'[l][t] = IF position[l][t] = Nowhere THEN edit[e].next ELSE position[l][t]
      /\ \A u \in Shows \ {t} : position'[l][u] = position[l][u]
      /\ wished' = wished /\ lists' = lists
      /\ mixed \subseteq mixed' /\ mixed' \subseteq mixed \union {l}
      /\ edit[e].stale => l \in mixed'
  BY <1>0, InsertSteps
<1>2. Ahead(e) /\ edit[e].at = "insert"
  BY DEF ListsInv, Insert
<1> HIDE DEF l, t
<1>3. edit' \in [Edits -> ListEdit] /\ \A f \in Edits : edit'[f] = NoEdit \/ Waited(f, l)
  BY <1>0, <1>1, EditEnds
<1>4. \A u \in Shows : position[l][u] \in Nat \union {Nowhere}
                       /\ (position[l][u] # Nowhere <=> u \in Items(l))
                       /\ (position[l][u] # Nowhere => position[l][u] <= TopPosition)
  BY <1>0, <1>1, PositionsKnown DEF ListsTypeInv
<1>5. position' \in [ListIds -> [Shows -> Nat \union {Nowhere}]]
  <2>1. PositionAfterAdd(l, t, edit[e].next) \in Nat \union {Nowhere}
    BY <1>1, <1>4 DEF PositionAfterAdd
  <2> QED BY <2>1, <1>0, <1>1 DEF ListsTypeInv, ListsTypeOK
<1>6. \A u \in Shows : position'[l][u] # Nowhere => position'[l][u] <= TopPosition
  BY <1>1, <1>4, ShowsCounted, ListsAssumption
<1>7. \A u \in Shows : position[l][u] # Nowhere => position'[l][u] = position[l][u]
  BY <1>1
<1>8. \A p \in wished[l] : /\ p[1] \in Shows /\ p[2] \in Shows
                           /\ position[l][p[1]] # Nowhere /\ position[l][p[2]] # Nowhere
                           /\ position[l][p[1]] < position[l][p[2]]
  BY <1>1 DEF ListsInv, AskedItems, OrderStays, Items
<1>9. \A p \in wished'[l] : /\ position'[l][p[1]] # Nowhere /\ position'[l][p[2]] # Nowhere
                            /\ position'[l][p[1]] < position'[l][p[2]]
  BY <1>1, <1>7, <1>8
<1>10. ASSUME l \notin mixed', NEW u \in Shows, NEW v \in Shows, u # v, position'[l][u] # Nowhere
       PROVE  position'[l][u] # position'[l][v]
  <2>1. \A x, y \in Shows : x # y /\ position[l][x] # Nowhere => position[l][x] # position[l][y]
    BY <1>1, <1>10 DEF ListsInv, OwnPosition, Items
  <2>2. CASE position[l][t] # Nowhere
    BY <1>1, <1>10, <2>1, <2>2
  <2>3. CASE position[l][t] = Nowhere
    <3>1. \A x \in Items(l) : position[l][x] < edit[e].next
      BY <1>1, <1>2, <1>10 DEF Ahead, l
    <3>2. position'[l][t] = edit[e].next /\ edit[e].next \in Nat
      BY <1>1, <2>3
    <3>3. \A x \in Shows \ {t} : position'[l][x] # edit[e].next
      BY <1>1, <1>4, <3>1, <3>2, ShowsCounted
    <3> QED BY <1>1, <1>10, <2>1, <3>2, <3>3
  <2> QED BY <2>2, <2>3
<1>11. Kept(l)
  <2>1. wished' \in [ListIds -> SUBSET (Shows \X Shows)]
    BY <1>0, <1>1 DEF ListsTypeInv, ListsTypeOK
  <2> QED BY <2>1, <1>1, <1>3, <1>5, <1>6, <1>9, <1>10 DEF Kept
<1> QED BY <1>1, <1>11, KeptKeeps

LEMMA RemoveKeeps ==
  ASSUME ListsInv, NEW e \in Edits, Remove(e)
  PROVE  ListsInv'
<1> DEFINE l == edit[e].list
           t == edit[e].title
<1>0. ListsTypeInv
  BY DEF ListsInv
<1>1. /\ l \in ListIds /\ t \in Shows
      /\ EndEdit(e, l) /\ Elsewhere(l)
      /\ position' = [position EXCEPT ![l][t] = Nowhere]
      /\ position'[l][t] = Nowhere
      /\ \A u \in Shows \ {t} : position'[l][u] = position[l][u]
      /\ wished' = [wished EXCEPT ![l] = Without(wished[l], t)]
      /\ mixed' = mixed /\ lists' = lists
  BY <1>0, RemoveSteps
<1> HIDE DEF l, t
<1>2. edit' \in [Edits -> ListEdit] /\ \A f \in Edits : edit'[f] = NoEdit \/ Waited(f, l)
  BY <1>0, <1>1, EditEnds
<1>3. /\ position \in [ListIds -> [Shows -> Nat \union {Nowhere}]]
      /\ wished \in [ListIds -> SUBSET (Shows \X Shows)]
  BY <1>0 DEF ListsTypeInv, ListsTypeOK
<1>4. position' \in [ListIds -> [Shows -> Nat \union {Nowhere}]]
  BY <1>1, <1>3
<1>5. wished'[l] = Without(wished[l], t) /\ wished' \in [ListIds -> SUBSET (Shows \X Shows)]
  BY <1>1, <1>3 DEF Without
<1>6. \A u \in Shows : position'[l][u] # Nowhere => position'[l][u] <= TopPosition
  BY <1>0, <1>1 DEF ListsTypeInv
<1>7. \A p \in wished'[l] : /\ position'[l][p[1]] # Nowhere /\ position'[l][p[2]] # Nowhere
                            /\ position'[l][p[1]] < position'[l][p[2]]
  <2> SUFFICES ASSUME NEW p \in wished'[l]
               PROVE  /\ position'[l][p[1]] # Nowhere /\ position'[l][p[2]] # Nowhere
                      /\ position'[l][p[1]] < position'[l][p[2]]
    OBVIOUS
  <2>1. p \in wished[l] /\ p[1] # t /\ p[2] # t /\ p \in Shows \X Shows
    BY <1>5, <1>1, <1>3 DEF Without
  <2>2. p[1] \in Items(l) /\ p[2] \in Items(l) /\ position[l][p[1]] < position[l][p[2]]
    BY <1>1, <2>1 DEF ListsInv, AskedItems, OrderStays
  <2> QED BY <1>1, <2>1, <2>2 DEF Items
<1>8. l \notin mixed' => \A u, v \in Shows :
        u # v /\ position'[l][u] # Nowhere => position'[l][u] # position'[l][v]
  BY <1>1 DEF ListsInv, OwnPosition, Items
<1>9. Kept(l)
  BY <1>1, <1>2, <1>4, <1>5, <1>6, <1>7, <1>8 DEF Kept
<1> QED BY <1>1, <1>9, KeptKeeps

LEMMA ReorderKeeps ==
  ASSUME ListsInv, NEW e \in Edits, Reorder(e)
  PROVE  ListsInv'
<1> DEFINE l == edit[e].list
           order == edit[e].order
<1>0. ListsTypeInv
  BY DEF ListsInv
<1>1. /\ l \in ListIds /\ order \in Orders
      /\ EndEdit(e, l) /\ Elsewhere(l)
      /\ position' = [position EXCEPT ![l] = Reordered(l, order)]
      /\ \A t \in Shows : position'[l][t] = IF t \in Items(l) /\ t \in ToShows(order)
                                            THEN PositionIn(order, t) ELSE position[l][t]
      /\ wished' = [wished EXCEPT ![l] = Asked(l, order)]
      /\ mixed' \subseteq mixed \union {l}
      /\ l \in mixed' <=> ~(Items(l) \subseteq ToShows(order))
      /\ lists' = lists
  BY <1>0, ReorderSteps
<1> HIDE DEF l, order
<1>2. edit' \in [Edits -> ListEdit] /\ \A f \in Edits : edit'[f] = NoEdit \/ Waited(f, l)
  BY <1>0, <1>1, EditEnds
<1>3. /\ position \in [ListIds -> [Shows -> Nat \union {Nowhere}]]
      /\ wished \in [ListIds -> SUBSET (Shows \X Shows)]
  BY <1>0 DEF ListsTypeInv, ListsTypeOK
<1>4. /\ \A t \in ToShows(order) : \E i \in DOMAIN order :
               order[i] = t /\ PositionIn(order, t) = i - 1
      /\ \A i, j \in DOMAIN order : order[i] = order[j] => i = j
      /\ \A t \in ToShows(order) : PositionIn(order, t) \in Nat
                                   /\ PositionIn(order, t) <= TopPosition
      /\ \A i \in DOMAIN order : i \in Nat /\ order[i] \in ToShows(order)
                                 /\ PositionIn(order, order[i]) = i - 1
  BY <1>1, PlaceInOrder
<1>5. position' \in [ListIds -> [Shows -> Nat \union {Nowhere}]]
  <2>1. Reordered(l, order) \in [Shows -> Nat \union {Nowhere}]
    BY <1>1, <1>3, <1>4 DEF Reordered
  <2> QED BY <1>1, <1>3, <2>1
<1>6. \A t \in Shows : position'[l][t] # Nowhere => position'[l][t] <= TopPosition
  BY <1>0, <1>1, <1>4 DEF ListsTypeInv
<1>7. wished' \in [ListIds -> SUBSET (Shows \X Shows)] /\ wished'[l] = Asked(l, order)
  <2>1. Asked(l, order) \in SUBSET (Shows \X Shows)
    BY DEF Asked, Items
  <2> QED BY <1>1, <1>3, <2>1
<1>8. ASSUME NEW p \in wished'[l]
      PROVE  /\ position'[l][p[1]] # Nowhere /\ position'[l][p[2]] # Nowhere
             /\ position'[l][p[1]] < position'[l][p[2]]
  <2>1. p[1] \in Items(l) /\ p[2] \in Items(l) /\ p[1] \in Shows /\ p[2] \in Shows
    BY <1>7 DEF Asked, Items
  <2>2. PICK i, j \in DOMAIN order : i < j /\ order[i] = p[1] /\ order[j] = p[2]
    BY <1>7 DEF Asked
  <2>3. position'[l][p[1]] = i - 1 /\ position'[l][p[2]] = j - 1 /\ i \in Nat /\ j \in Nat
    BY <1>1, <1>4, <2>1, <2>2
  <2>4. i - 1 \in Nat /\ j - 1 \in Nat
    BY <1>4, <2>2
  <2> QED BY <2>2, <2>3, <2>4, ShowsCounted
<1>9. ASSUME l \notin mixed', NEW t \in Shows, NEW u \in Shows, t # u, position'[l][t] # Nowhere
      PROVE  position'[l][t] # position'[l][u]
  <2>1. Items(l) \subseteq ToShows(order)
    BY <1>1, <1>9
  <2>2. t \in Items(l) /\ t \in ToShows(order)
    BY <1>1, <1>9, <2>1 DEF Items
  <2>3. PICK i \in DOMAIN order : order[i] = t /\ position'[l][t] = i - 1
    BY <1>1, <1>4, <2>2
  <2>4. CASE u \notin Items(l)
    <3>1. position'[l][u] = Nowhere
      BY <1>1, <2>4 DEF Items
    <3> QED BY <1>9, <3>1
  <2>5. CASE u \in Items(l)
    <3>1. PICK j \in DOMAIN order : order[j] = u /\ position'[l][u] = j - 1
      BY <1>1, <1>4, <2>1, <2>5
    <3> QED BY <1>4, <1>9, <2>3, <3>1
  <2> QED BY <2>4, <2>5
<1>10. Kept(l)
  BY <1>1, <1>2, <1>5, <1>6, <1>7, <1>8, <1>9 DEF Kept
<1> QED BY <1>1, <1>10, KeptKeeps

LEMMA DeleteListKeeps ==
  ASSUME ListsInv, NEW l \in ListIds, NEW owner, DeleteList(l, owner)
  PROVE  ListsInv'
<1>0. ListsTypeInv
  BY DEF ListsInv
<1>1. /\ Elsewhere(l)
      /\ position' = [position EXCEPT ![l] = [t \in Shows |-> Nowhere]]
      /\ \A t \in Shows : position'[l][t] = Nowhere
      /\ wished' = [wished EXCEPT ![l] = {}] /\ wished'[l] = {}
      /\ mixed' \subseteq mixed
      /\ lists' \subseteq lists
  BY <1>0, DeleteListSteps
<1>2. edit' \in [Edits -> ListEdit] /\ \A f \in Edits : Waited(f, l)
  BY <1>0, ListDeletedEdits
<1>3. position' \in [ListIds -> [Shows -> Nat \union {Nowhere}]]
      /\ wished' \in [ListIds -> SUBSET (Shows \X Shows)]
  BY <1>0, <1>1 DEF ListsTypeInv, ListsTypeOK
<1>4. Kept(l)
  BY <1>1, <1>2, <1>3 DEF Kept
<1> QED BY <1>4, KeptKeeps

LEMMA ListsInvNext == ListsInv /\ [ListsNext]_listsVars => ListsInv'
<1> SUFFICES ASSUME ListsInv, [ListsNext]_listsVars PROVE ListsInv'
  OBVIOUS
<1>0. ListsTypeInv
  BY DEF ListsInv
<1>1. ASSUME NEW e \in Edits, ReadMax(e) PROVE ListsInv'
  <2>1. /\ UNCHANGED <<position, wished, mixed>> /\ lists' = lists
        /\ edit' \in [Edits -> ListEdit]
        /\ edit[e].list \in ListIds /\ edit'[e].list = edit[e].list
        /\ edit'[e].next = NextPosition(edit[e].list)
        /\ OfList(e)'
        /\ \A f \in Edits \ {e} : edit'[f] = edit[f]
    BY <1>0, <1>1, ReadMaxSteps
  <2>2. Ahead(e)'
    BY <1>0, <2>1, NextFree DEF Ahead, Items
  <2> QED BY <2>1, <2>2, EditsAlone
<1>2. ASSUME NEW e \in Edits, Insert(e) PROVE ListsInv'
  <2>1. CASE edit[e].list \in lists
    BY <1>2, <2>1, InsertKeeps
  <2>2. CASE edit[e].list \notin lists
    <3>1. OfList(e)' /\ Ahead(e)'
      BY <1>0, <1>2, <2>2, RefusedSteps, EditValues DEF OfList, Ahead
    <3> QED BY <1>0, <1>2, <2>2, <3>1, RefusedSteps, EditsAlone
  <2> QED BY <2>1, <2>2
<1>3. ASSUME NEW e \in Edits, Remove(e) PROVE ListsInv'
  BY <1>3, RemoveKeeps
<1>4. ASSUME NEW e \in Edits, Reorder(e) PROVE ListsInv'
  BY <1>4, ReorderKeeps
<1>5. ASSUME NEW e \in Edits, NEW l \in ListIds, Check(e, l) PROVE ListsInv'
  <2>1. Ahead(e)'
    BY <1>0, <1>5, CheckSteps DEF Ahead
  <2> QED BY <1>0, <1>5, <2>1, CheckSteps, EditsAlone
<1>6. ASSUME NEW l \in ListIds, NEW owner \in BOOLEAN, DeleteList(l, owner) PROVE ListsInv'
  BY <1>6, DeleteListKeeps
<1>7. CASE UNCHANGED listsVars
  BY <1>7 DEF listsVars, ListsInv, ListsTypeInv, ListsTypeOK, OfList, TopPosition, Ahead, AskedItems,
              OwnPosition, OrderStays, Items
<1> QED BY <1>1, <1>2, <1>3, <1>4, <1>5, <1>6, <1>7 DEF ListsNext

LEMMA ListsInvariant == ListsSpec => []ListsInv
BY ListsInvInit, ListsInvNext, PTL DEF ListsSpec

(* Additions, removals, orders and deletions keep the rows of the lists well typed. *)
THEOREM ListsTypes == ListsSpec => []ListsTypeOK
<1>1. ListsInv => ListsTypeOK
  BY DEF ListsInv, ListsTypeInv
<1> QED BY <1>1, ListsInvariant, PTL

(* The items of a list have positions of their own, however many requests add,
   remove and reorder at once: AddListItem's position is after all others unless
   the list changed after it was read. *)
THEOREM ListsOwnPosition == ListsSpec => []OwnPosition
<1>1. ListsInv => OwnPosition
  BY DEF ListsInv
<1> QED BY <1>1, ListsInvariant, PTL

(* The order a user gave a list stays as long as the items do, whatever requests
   come meanwhile. *)
THEOREM ListsOrderStays == ListsSpec => []OrderStays
<1>1. ListsInv => OrderStays
  BY DEF ListsInv
<1> QED BY <1>1, ListsInvariant, PTL

=============================================================================
