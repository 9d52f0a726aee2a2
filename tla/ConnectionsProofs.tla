------------------------- MODULE ConnectionsProofs -------------------------
(* One writer at a time on a connection, and none on one that is being closed,
   for every number of connections, handlers and broadcasters; the types of what
   is fetched for titles; and the parts of the server together. *)
EXTENDS MCServer, RequestsProofs, WellFoundedInduction, TLAPS

Places == {"none", "running", "waiting", "writing", "done"}

Process == [at: Places, to: Conns \union {NoOne}, lock: Nat]

(* A handler that has been started has a connection to write to. *)
HasOrigin == \A h \in Handlers : writer[h].at # "none" => origin[h] \in Conns

ConnTypeInv == ConnectionsTypeOK /\ HasOrigin

-----------------------------------------------------------------------------
(* Types *)

LEMMA Goroutines == \A at \in Places : Goroutine(at) \in Process
BY DEF Goroutine, Process

LEMMA ConnTypeInit == ConnectionsInit => ConnTypeInv
<1> SUFFICES ASSUME ConnectionsInit PROVE ConnTypeInv
  OBVIOUS
<1>1. writer \in [Writers -> Process]
  BY Goroutines DEF ConnectionsInit, Places
<1>2. writes \in [Writers -> 0 .. MaxWrites]
  BY ConnectionsAssumption DEF ConnectionsInit
<1>3. HasOrigin
  BY ConnectionsAssumption DEF ConnectionsInit, HasOrigin, Writers, Goroutine
<1>4. QED
  BY <1>1, <1>2, <1>3 DEF ConnectionsInit, ConnTypeInv, ConnectionsTypeOK, Process, Places

(* A goroutine moves to another place. *)
LEMMA Moves ==
  ASSUME ConnTypeInv, NEW w \in Writers, NEW p \in Process,
         writer' = [writer EXCEPT ![w] = p], origin' = origin,
         p.at # "none", writer[w].at # "none"
  PROVE  writer' \in [Writers -> Process] /\ HasOrigin'
BY DEF ConnTypeInv, ConnectionsTypeOK, HasOrigin, Process, Places, Writers

(* What wsHandler does leaves the goroutines alone, but for the one it starts. *)
LEMMA TypeHandler ==
  ASSUME ConnTypeInv, NEW c \in Conns,
         \/ Accept(c) \/ StopsReading(c) \/ ReadFails(c)
         \/ LeaveClients(c) \/ DeleteLock(c) \/ Close(c)
         \/ \E h \in Handlers : Handle(c, h)
  PROVE  ConnTypeInv'
<1> USE DEF ConnTypeInv, ConnectionsTypeOK
<1>1. ASSUME NEW h \in Handlers, Handle(c, h)
      PROVE  ConnTypeInv'
  <2>1. Goroutine("running") \in Process
    BY Goroutines DEF Places
  <2>2. writer' \in [Writers -> Process]
    BY <1>1, <2>1 DEF Handle, Process, Places
  <2>3. HasOrigin'
    BY <1>1 DEF Handle, HasOrigin, Writers
  <2>4. QED
    BY <1>1, <2>2, <2>3 DEF Handle, Process, Places
<1>2. CASE \/ Accept(c) \/ StopsReading(c) \/ ReadFails(c)
           \/ LeaveClients(c) \/ DeleteLock(c) \/ Close(c)
  BY <1>2 DEF Accept, StopsReading, ReadFails, LeaveClients, DeleteLock, Close, HasOrigin
<1>3. QED
  BY <1>1, <1>2

LEMMA TypeWriter ==
  ASSUME ConnTypeInv, NEW w \in Writers,
         \/ Lock(w) \/ Written(w) \/ Broadcast(w) \/ BroadcastEnds(w)
         \/ (w \in Handlers /\ (Respond(w) \/ HandlerEnds(w)))
         \/ \E c \in Conns : BroadcastTo(w, c)
  PROVE  ConnTypeInv'
<1> USE DEF ConnTypeInv, ConnectionsTypeOK
<1>0. writer[w] \in Process
  BY DEF Process, Places
<1>1. CASE Lock(w)
  <2>1. [writer[w] EXCEPT !.at = "writing"] \in Process
    BY <1>0 DEF Process, Places
  <2>2. writer' \in [Writers -> Process] /\ HasOrigin'
    <3>1. writer' = [writer EXCEPT ![w] = [writer[w] EXCEPT !.at = "writing"]]
      BY <1>1 DEF Lock
    <3>2. [writer[w] EXCEPT !.at = "writing"].at = "writing"
      BY <1>0 DEF Process
    <3>3. QED
      BY <1>1, <2>1, <3>1, <3>2, Moves DEF Lock
  <2>3. QED
    BY <1>1, <2>2 DEF Lock, Process, Places
<1>2. CASE Written(w)
  <2>1. writer' \in [Writers -> Process] /\ HasOrigin'
    BY <1>2, Goroutines, Moves DEF Written, Goroutine, Places
  <2>2. QED
    BY <1>2, <2>1 DEF Written, Process, Places
<1>3. CASE Broadcast(w)
  BY <1>3, ConnectionsAssumption DEF Broadcast, Begin, HasOrigin
<1>4. CASE BroadcastEnds(w)
  BY <1>4 DEF BroadcastEnds, HasOrigin
<1>5. ASSUME NEW c \in Conns, TakeLock(w, c), writer[w].at = "running", origin' = origin
      PROVE  writer' \in [Writers -> Process] /\ HasOrigin' /\ stored' \subseteq Conns
  <2>1. [at |-> "waiting", to |-> c, lock |-> deleted[c]] \in Process
    BY DEF Process, Places
  <2>2. writer' \in [Writers -> Process] /\ HasOrigin'
    BY <1>5, <2>1, Moves DEF TakeLock
  <2>3. QED
    BY <1>5, <2>2 DEF TakeLock
<1>6. ASSUME w \in Handlers, Respond(w)
      PROVE  ConnTypeInv'
  <2>1. origin[w] \in Conns
    BY <1>6 DEF Respond, HasOrigin
  <2>2. writes' \in [Writers -> 0 .. MaxWrites]
    BY <1>6, ConnectionsAssumption DEF Respond, Begin
  <2>3. QED
    BY <1>5, <1>6, <2>1, <2>2 DEF Respond, Process, Places
<1>7. ASSUME w \in Handlers, HandlerEnds(w)
      PROVE  ConnTypeInv'
  <2>1. writer' \in [Writers -> Process] /\ HasOrigin'
    BY <1>7, Goroutines, Moves DEF HandlerEnds, Goroutine, Places
  <2>2. QED
    BY <1>7, <2>1 DEF HandlerEnds, Process, Places
<1>8. ASSUME NEW c \in Conns, BroadcastTo(w, c)
      PROVE  ConnTypeInv'
  BY <1>5, <1>8 DEF BroadcastTo, Process, Places
<1>9. QED
  BY <1>1, <1>2, <1>3, <1>4, <1>6, <1>7, <1>8

LEMMA ConnTypeStep == ConnTypeInv /\ [ConnectionsNext]_connectionsVars => ConnTypeInv'
<1> SUFFICES ASSUME ConnTypeInv, [ConnectionsNext]_connectionsVars PROVE ConnTypeInv'
  OBVIOUS
<1>1. CASE UNCHANGED connectionsVars
  BY <1>1 DEF connectionsVars, ConnTypeInv, ConnectionsTypeOK, HasOrigin
<1>2. CASE ConnectionsNext
  BY <1>2, TypeHandler, TypeWriter DEF ConnectionsNext, Writers
<1>3. QED
  BY <1>1, <1>2

(* The variables keep their types. *)
THEOREM ConnectionsTypes == ConnectionsSpec => []ConnectionsTypeOK
<1>1. ConnTypeInv => ConnectionsTypeOK
  BY DEF ConnTypeInv
<1>2. QED
  BY <1>1, ConnTypeInit, ConnTypeStep, PTL DEF ConnectionsSpec
-----------------------------------------------------------------------------
(* Locks *)

Busy(w) == writer[w].at \in {"waiting", "writing"}

(* A write is of a connection, and under the lock there is for it: no lock is
   deleted that somebody has or waits for. *)
LockIsCurrent ==
  \A w \in Writers : IF Busy(w)
                     THEN writer[w].to \in Conns /\ writer[w].lock = deleted[writer[w].to]
                     ELSE writer[w].to = NoOne

(* Who does not broadcast writes to the connection its request came by. *)
OwnConnection ==
  \A w \in Writers : Busy(w) /\ mutex # w => w \in Handlers /\ writer[w].to = origin[w]

(* A connection that has left the clients is of no broadcast. *)
NoBroadcastTo(c) ==
  /\ c \notin clients
  /\ mutex # NoOne => c \notin todo
  /\ \A w \in Writers : Busy(w) /\ mutex = w => writer[w].to # c

LeftAlone ==
  \A c \in Conns : conn[c] \in {"draining", "closing", "closed"} => NoBroadcastTo(c)

(* A connection whose lock has been deleted has nothing in flight. *)
Drains ==
  \A c \in Conns : conn[c] \in {"closing", "closed"} => InFlight(c) = {} /\ c \notin stored

LocksInv == LockIsCurrent /\ OwnConnection /\ LeftAlone /\ Drains /\ OneWriter

(* Nobody writes to a connection that is drained, or waits to. *)
LEMMA NobodyWrites ==
  ASSUME ConnTypeInv, LocksInv, NEW c \in Conns, NoBroadcastTo(c), InFlight(c) = {}
  PROVE  \A w \in Writers : writer[w].to # c
<1> SUFFICES ASSUME NEW w \in Writers, writer[w].to = c PROVE FALSE
  OBVIOUS
<1>1. Busy(w)
  BY ConnectionsAssumption DEF LocksInv, LockIsCurrent
<1>2. mutex # w
  BY <1>1 DEF NoBroadcastTo
<1>3. w \in InFlight(c)
  BY <1>1, <1>2 DEF LocksInv, OwnConnection, InFlight, Busy
<1>4. QED
  BY <1>3

LEMMA LocksInit == ConnectionsInit => LocksInv
BY DEF ConnectionsInit, LocksInv, LockIsCurrent, OwnConnection, LeftAlone, Drains,
       OneWriter, Busy, Goroutine

LEMMA LocksHandler ==
  ASSUME ConnTypeInv, LocksInv, NEW c \in Conns,
         \/ Accept(c) \/ StopsReading(c) \/ ReadFails(c)
         \/ LeaveClients(c) \/ DeleteLock(c) \/ Close(c)
         \/ \E h \in Handlers : Handle(c, h)
  PROVE  LocksInv'
<1> USE DEF LocksInv, ConnTypeInv, ConnectionsTypeOK
<1>1. CASE Accept(c)
  BY <1>1 DEF Accept, LockIsCurrent, OwnConnection, LeftAlone, NoBroadcastTo, Drains,
              OneWriter, Busy, InFlight
<1>2. CASE ReadFails(c)
  BY <1>2 DEF ReadFails, LockIsCurrent, OwnConnection, LeftAlone, NoBroadcastTo, Drains,
              OneWriter, Busy, InFlight
<1>3. CASE LeaveClients(c)
  <2>1. NoBroadcastTo(c)'
    BY <1>3, ConnectionsAssumption DEF LeaveClients, NoBroadcastTo, Writers
  <2>2. \A d \in Conns : NoBroadcastTo(d) => NoBroadcastTo(d)'
    BY <1>3 DEF LeaveClients, NoBroadcastTo, Busy
  <2>3. QED
    BY <1>3, <2>1, <2>2 DEF LeaveClients, LockIsCurrent, OwnConnection, LeftAlone, Drains,
              OneWriter, Busy, InFlight
<1>4. CASE DeleteLock(c)
  <2>1. NoBroadcastTo(c) /\ InFlight(c) = {}
    BY <1>4 DEF DeleteLock, Drained, LeftAlone
  <2>2. \A w \in Writers : writer[w].to # c
    BY <2>1, NobodyWrites
  <2>3. LockIsCurrent'
    BY <1>4, <2>2 DEF DeleteLock, LockIsCurrent, Busy
  <2>4. QED
    BY <1>4, <2>1, <2>3 DEF DeleteLock, OwnConnection, LeftAlone, NoBroadcastTo, Drains,
              OneWriter, Busy, InFlight
<1>5. CASE Close(c)
  BY <1>5 DEF Close, LockIsCurrent, OwnConnection, LeftAlone, NoBroadcastTo, Drains,
              OneWriter, Busy, InFlight
<1>6. ASSUME NEW h \in Handlers, Handle(c, h)
      PROVE  LocksInv'
  <2>1. h \in Writers /\ ~Busy(h) /\ ~Busy(h)'
    BY <1>6 DEF Handle, Busy, Writers, Goroutine
  <2>2. \A w \in Writers : w # h => writer'[w] = writer[w]
    BY <1>6 DEF Handle
  <2>3. writer'[h].to = NoOne
    BY <1>6, <2>1 DEF Handle, Goroutine
  <2>4. LockIsCurrent'
    BY <1>6, <2>1, <2>2, <2>3 DEF Handle, LockIsCurrent, Busy
  <2>5. OwnConnection'
    BY <1>6, <2>1, <2>2 DEF Handle, OwnConnection, Busy
  <2>6. LeftAlone'
    BY <1>6, <2>1, <2>2 DEF Handle, LeftAlone, NoBroadcastTo, Busy
  <2>7. Drains'
    BY <1>6, <2>1, <2>2 DEF Handle, Drains, InFlight, Writers
  <2>8. OneWriter'
    BY <2>1, <2>2 DEF OneWriter, Busy
  <2>9. QED
    BY <2>4, <2>5, <2>6, <2>7, <2>8
<1>7. CASE StopsReading(c)
  BY <1>7 DEF StopsReading, LockIsCurrent, OwnConnection, LeftAlone, NoBroadcastTo, Drains,
              OneWriter, Busy, InFlight
<1>8. QED
  BY <1>1, <1>2, <1>3, <1>4, <1>5, <1>6, <1>7

(* A lock is taken out of the map for a connection that somebody is in flight
   for, or that a broadcast found among the clients. *)
LEMMA LocksTaken ==
  ASSUME ConnTypeInv, LocksInv, NEW w \in Writers, NEW c \in Conns, TakeLock(w, c),
         writer[w].at = "running", UNCHANGED <<conn, clients, mutex, deleted, origin>>,
         conn[c] \notin {"closing", "closed"},
         todo' \subseteq todo,
         \/ mutex # w /\ w \in Handlers /\ origin[w] = c
         \/ mutex = w /\ conn[c] # "draining"
  PROVE  LocksInv'
<1> USE DEF LocksInv, ConnTypeInv, ConnectionsTypeOK
<1>1. /\ ~Busy(w)
      /\ writer'[w] = [at |-> "waiting", to |-> c, lock |-> deleted[c]]
      /\ \A v \in Writers : v # w => writer'[v] = writer[v]
      /\ \A v \in Writers : writer'[v].at = "done" <=> writer[v].at = "done"
  BY DEF TakeLock, Busy
<1>2. LockIsCurrent'
  BY <1>1 DEF LockIsCurrent, Busy
<1>3. OwnConnection'
  BY <1>1 DEF OwnConnection, Busy
<1>4. LeftAlone'
  BY <1>1 DEF LeftAlone, NoBroadcastTo, Busy
<1>5. Drains'
  <2>1. \A d \in Conns : InFlight(d)' = InFlight(d)
    BY <1>1 DEF InFlight, Writers
  <2>2. stored' = stored \union {c}
    BY DEF TakeLock
  <2>3. QED
    BY <2>1, <2>2 DEF Drains
<1>6. OneWriter'
  BY <1>1 DEF OneWriter
<1>7. QED
  BY <1>2, <1>3, <1>4, <1>5, <1>6

LEMMA LocksWriter ==
  ASSUME ConnTypeInv, LocksInv, NEW w \in Writers,
         \/ Lock(w) \/ Written(w) \/ Broadcast(w) \/ BroadcastEnds(w)
         \/ (w \in Handlers /\ (Respond(w) \/ HandlerEnds(w)))
         \/ \E c \in Conns : BroadcastTo(w, c)
  PROVE  LocksInv'
<1> USE DEF LocksInv, ConnTypeInv, ConnectionsTypeOK
<1>1. CASE Lock(w)
  <2>1. /\ Busy(w) /\ Busy(w)'
        /\ writer'[w].to = writer[w].to /\ writer'[w].lock = writer[w].lock
        /\ writer'[w].at = "writing"
        /\ \A v \in Writers : v # w => writer'[v] = writer[v]
    BY <1>1 DEF Lock, Busy
  <2>2. \A v \in Writers : /\ Busy(v)' <=> Busy(v)
                           /\ writer'[v].to = writer[v].to /\ writer'[v].lock = writer[v].lock
                           /\ writer'[v].at = "done" <=> writer[v].at = "done"
    BY <2>1 DEF Busy
  <2>3. LockIsCurrent' /\ OwnConnection' /\ LeftAlone' /\ Drains'
    BY <1>1, <2>2 DEF Lock, LockIsCurrent, OwnConnection, LeftAlone, NoBroadcastTo, Drains,
                      InFlight, Writers
  <2>4. ASSUME NEW v \in Writers, v # w, writer[v].at = "writing", writer[v].to = writer[w].to
        PROVE  FALSE
    <3>1. writer[v].lock = writer[w].lock
      BY <2>1, <2>4 DEF LockIsCurrent, Busy
    <3>2. writer[v] = [at |-> "writing", to |-> writer[w].to, lock |-> writer[w].lock]
      BY <2>4, <3>1
    <3>3. QED
      BY <1>1, <3>2 DEF Lock, Held
  <2>5. OneWriter'
    BY <2>1, <2>4 DEF OneWriter
  <2>6. QED
    BY <2>3, <2>5
<1>2. ASSUME UNCHANGED <<conn, mutex, todo, stored, deleted, origin>>, clients' \subseteq clients,
             NEW at \in {"running", "done"},
             writer[w].at \in {"running", "writing"},
             writer' = [writer EXCEPT ![w] = Goroutine(at)]
      PROVE  LocksInv'
  <2>1. /\ ~Busy(w)' /\ writer'[w].to = NoOne
        /\ \A v \in Writers : v # w => writer'[v] = writer[v]
    BY <1>2 DEF Busy, Goroutine
  <2>2. LockIsCurrent'
    BY <1>2, <2>1 DEF LockIsCurrent, Busy
  <2>3. OwnConnection'
    BY <1>2, <2>1 DEF OwnConnection, Busy
  <2>4. LeftAlone'
    BY <1>2, <2>1 DEF LeftAlone, NoBroadcastTo, Busy
  <2>5. Drains'
    <3>1. \A c \in Conns : InFlight(c)' \subseteq InFlight(c)
      BY <1>2, <2>1 DEF InFlight, Writers
    <3>2. QED
      BY <1>2, <3>1 DEF Drains
  <2>6. OneWriter'
    BY <2>1 DEF OneWriter, Busy
  <2>7. QED
    BY <2>2, <2>3, <2>4, <2>5, <2>6
<1>3. CASE Written(w)
  <2>1. clients' \subseteq clients
    BY <1>3 DEF Written
  <2>2. QED
    BY <1>2, <1>3, <2>1 DEF Written
<1>4. CASE Broadcast(w)
  <2>1. ~Busy(w) /\ UNCHANGED <<conn, clients, stored, deleted, writer, origin>>
        /\ todo' = clients /\ mutex' = w /\ mutex = NoOne
    BY <1>4 DEF Broadcast, Busy
  <2>2. \A c \in Conns : NoBroadcastTo(c) => NoBroadcastTo(c)'
    BY <2>1 DEF NoBroadcastTo, Busy
  <2>3. \A v \in Writers : v # NoOne
    BY ConnectionsAssumption DEF Writers
  <2>4. QED
    BY <2>1, <2>2, <2>3 DEF LockIsCurrent, OwnConnection, LeftAlone, Drains, InFlight,
                            OneWriter, Busy
<1>5. CASE BroadcastEnds(w)
  <2>1. ~Busy(w) /\ UNCHANGED <<conn, clients, todo, stored, deleted, writer, origin>>
        /\ mutex = w /\ mutex' = NoOne
    BY <1>5 DEF BroadcastEnds, Busy
  <2>2. \A v \in Writers : v # NoOne
    BY ConnectionsAssumption DEF Writers
  <2>3. QED
    BY <2>1, <2>2 DEF LockIsCurrent, OwnConnection, LeftAlone, NoBroadcastTo, Drains, InFlight,
                      OneWriter, Busy
<1>6. ASSUME w \in Handlers, Respond(w)
      PROVE  LocksInv'
  <2>1. origin[w] \in Conns /\ w \in InFlight(origin[w])
    BY <1>6 DEF Respond, HasOrigin, InFlight
  <2>2. conn[origin[w]] \notin {"closing", "closed"}
    BY <2>1 DEF Drains
  <2>3. QED
    BY <1>6, <2>1, <2>2, LocksTaken DEF Respond
<1>7. ASSUME w \in Handlers, HandlerEnds(w)
      PROVE  LocksInv'
  BY <1>2, <1>7 DEF HandlerEnds
<1>8. ASSUME NEW c \in Conns, BroadcastTo(w, c)
      PROVE  LocksInv'
  <2>1. mutex # NoOne /\ c \in todo
    BY <1>8, ConnectionsAssumption DEF BroadcastTo, Writers
  <2>2. conn[c] \notin {"draining", "closing", "closed"}
    BY <2>1 DEF LeftAlone, NoBroadcastTo
  <2>3. QED
    BY <1>8, <2>2, LocksTaken DEF BroadcastTo
<1>9. QED
  BY <1>1, <1>3, <1>4, <1>5, <1>6, <1>7, <1>8

LEMMA LocksStep ==
  ConnTypeInv /\ LocksInv /\ [ConnectionsNext]_connectionsVars => LocksInv'
<1> SUFFICES ASSUME ConnTypeInv, LocksInv, [ConnectionsNext]_connectionsVars PROVE LocksInv'
  OBVIOUS
<1>1. CASE UNCHANGED connectionsVars
  BY <1>1 DEF connectionsVars, LocksInv, LockIsCurrent, OwnConnection, LeftAlone,
              NoBroadcastTo, Drains, OneWriter, Busy, InFlight
<1>2. CASE ConnectionsNext
  BY <1>2, LocksHandler, LocksWriter DEF ConnectionsNext, Writers
<1>3. QED
  BY <1>1, <1>2

LEMMA LocksSafe == ConnTypeInv /\ LocksInv => OneWriter /\ LockGone
<1> SUFFICES ASSUME ConnTypeInv, LocksInv PROVE OneWriter /\ LockGone
  OBVIOUS
<1>1. ASSUME NEW c \in Conns, conn[c] \in {"closing", "closed"}
      PROVE  c \notin stored /\ \A w \in Writers : writer[w].to # c
  <2>1. InFlight(c) = {} /\ c \notin stored /\ NoBroadcastTo(c)
    BY <1>1 DEF LocksInv, Drains, LeftAlone
  <2>2. QED
    BY <2>1, NobodyWrites
<1>2. QED
  BY <1>1 DEF LocksInv, LockGone

LEMMA Locks == ConnectionsSpec => [](ConnTypeInv /\ LocksInv)
BY ConnTypeInit, ConnTypeStep, LocksInit, LocksStep, PTL DEF ConnectionsSpec

(* Never two writers on one connection, though its lock is found in a map, may
   be made anew, and is deleted when the connection ends. *)
THEOREM ConnectionsOneWriter == ConnectionsSpec => []OneWriter
BY Locks, LocksSafe, PTL

(* The lock of a connection that is being closed is gone for good and nobody
   writes to it. *)
THEOREM ConnectionsLockGone == ConnectionsSpec => []LockGone
BY Locks, LocksSafe, PTL
-----------------------------------------------------------------------------
(* Titles *)

\* A set of numbers that has a bound has a greatest one.
LEMMA Highest ==
  ASSUME NEW S \in SUBSET Nat, S # {}, NEW b \in Nat, \A p \in S : p <= b
  PROVE  \E p \in S : \A q \in S : q <= p
<1> DEFINE T == {n \in Nat : n <= b /\ b - n \in S}
           R == OpToRel(<, Nat)
<1>1. T \subseteq Nat /\ T # {}
  <2>1. PICK p \in S : TRUE
    OBVIOUS
  <2>2. b - p \in Nat /\ b - p <= b /\ b - (b - p) = p
    BY <2>1
  <2>3. b - p \in T
    BY <2>1, <2>2
  <2> QED BY <2>3
<1>2. \E n \in T : \A m \in T : <<m, n>> \notin R
  <2> HIDE DEF T
  <2> QED BY <1>1, NatLessThanWellFounded, WFMin
<1>3. PICK n \in T : \A m \in T : <<m, n>> \notin R
  BY <1>2
<1>4. ASSUME NEW q \in S PROVE q <= b - n
  <2>1. b - q \in T
    BY <1>4
  <2>2. <<b - q, n>> \notin R
    BY <1>3, <2>1
  <2>3. ~(b - q < n)
    BY <2>1, <2>2, <1>3 DEF OpToRel
  <2>4. n \in Nat /\ n <= b /\ q \in Nat /\ q <= b
    BY <1>3, <1>4
  <2> QED BY ONLY <2>3, <2>4, b \in Nat
<1> QED BY <1>3, <1>4

\* Whoever works on a title, or has it on a list, works on one that is there.
OnTitles ==
  /\ \A w \in sweep.rows : w.title \in titles
  /\ sweep.at = "enriching" => sweep.work.title \in titles
  /\ \A p \in Pollers : poll[p].at = "rating" => poll[p].title \in titles
  /\ \A q \in Askers : asker[q].at = "write" => asker[q].title \in titles

\* A request that has something to write back has something it asked for.
Asks == \A q \in Askers : asker[q].at = "write" => asker[q].op # "none"

TitlesTypeInv == TitlesTypeOK /\ OnTitles /\ Asks

\* A write that is refused leaves the row; what is written is a row.
LEMMA UpdateType ==
  ASSUME TitlesTypeInv, NEW t \in TitleIds, NEW new \in RowType, Update(t, new)
  PROVE  row' \in [TitleIds -> RowType] /\ failures' \in 0 .. MaxFailures
BY TitlesAssumption DEF Update, TitlesTypeInv, TitlesTypeOK

\* The title a poll or a sweep picks is one of those it picks from.
LEMMA NewestTitle ==
  ASSUME NEW ts \in SUBSET TitleIds, ts # {}
  PROVE  (CHOOSE t \in ts : \A u \in ts : u <= t) \in ts
<1>1. ts \subseteq Nat /\ MaxTitle \in Nat /\ \A t \in ts : t <= MaxTitle
  BY TitlesAssumption DEF TitleIds
<1>2. \E t \in ts : \A u \in ts : u <= t
  BY <1>1, Highest
<1>3. QED
  BY <1>2

LEMMA NewestWork ==
  ASSUME NEW ws \in SUBSET WorkType, ws # {}
  PROVE  Newest(ws) \in ws
<1> DEFINE ts == {w.title : w \in ws}
<1>1. ts \subseteq Nat /\ ts # {} /\ MaxTitle \in Nat /\ \A t \in ts : t <= MaxTitle
  BY TitlesAssumption DEF WorkType
<1>2. PICK t \in ts : \A u \in ts : u <= t
  <2> HIDE DEF ts
  <2>1. QED
    BY <1>1, Highest
<1>3. \E w \in ws : \A v \in ws : v.title <= w.title
  BY <1>2
<1>4. QED
  BY <1>3 DEF Newest

LEMMA TitleValues == Unfetched \in RowType /\ NoWork \in WorkType
BY TitlesAssumption DEF Unfetched, RowType, NoWork, WorkType

LEMMA TitlesTypeInit == TitlesInit => TitlesTypeInv
BY TitleValues, TitlesAssumption
   DEF TitleIds, TitlesInit, TitlesTypeInv, TitlesTypeOK, OnTitles, Asks, NoWork

LEMMA EnrichmentsType ==
  ASSUME NEW old \in RowType, NEW new \in Enrichments(old)
  PROVE  new \in RowType
BY DEF Enrichments

LEMMA TitlesPoll ==
  ASSUME TitlesTypeInv,
         \/ \E t \in TitleIds : Match(t)
         \/ \E p \in Pollers : PollPicks(p) \/ PollWrites(p)
  PROVE  TitlesTypeInv'
<1>1. CASE \E t \in TitleIds : Match(t)
  BY <1>1 DEF Match, TitlesTypeInv, TitlesTypeOK, OnTitles, Asks, RowType
<1>2. ASSUME NEW p \in Pollers, PollPicks(p)
      PROVE  TitlesTypeInv'
  <2> DEFINE t == CHOOSE t \in Unrated : \A u \in Unrated : u <= t
             w == [NoWork EXCEPT !.at = "rating", !.title = t]
  <2>1. Unrated \subseteq titles /\ titles \subseteq TitleIds /\ Unrated # {}
    BY <1>2 DEF PollPicks, Unrated, TitlesTypeInv, TitlesTypeOK
  <2>2. t \in titles /\ t \in 0 .. MaxTitle
    <3>1. t \in Unrated
      BY <2>1, NewestTitle
    <3> HIDE DEF t
    <3>2. \A u \in TitleIds : u \in 0 .. MaxTitle
      BY TitlesAssumption DEF TitleIds
    <3>3. QED
      BY <2>1, <3>1, <3>2
  <2>3. poll' = [poll EXCEPT ![p] = w]
    BY <1>2 DEF PollPicks
  <2> HIDE DEF t
  <2>4. w \in WorkType /\ w.title = t
    BY <2>2, TitleValues DEF NoWork, WorkType
  <2> HIDE DEF w
  <2>5. QED
    BY <1>2, <2>2, <2>3, <2>4
       DEF PollPicks, TitlesTypeInv, TitlesTypeOK, OnTitles, Asks
<1>3. ASSUME NEW p \in Pollers, PollWrites(p)
      PROVE  TitlesTypeInv'
  <2> DEFINE t == poll[p].title
             new == [row[t] EXCEPT !.rated = TRUE]
  <2>1. t \in TitleIds /\ Update(t, new)
    BY <1>3 DEF PollWrites, Rated, TitlesTypeInv, TitlesTypeOK, OnTitles
  <2>2. new \in RowType
    <3>1. row[t] \in RowType
      BY <2>1 DEF TitlesTypeInv, TitlesTypeOK
    <3>2. QED
      BY <3>1 DEF RowType
  <2> HIDE DEF t, new
  <2>3. row' \in [TitleIds -> RowType] /\ failures' \in 0 .. MaxFailures
    BY <2>1, <2>2, UpdateType
  <2>4. poll' \in [Pollers -> WorkType]
    BY <1>3, TitleValues DEF PollWrites, TitlesTypeInv, TitlesTypeOK
  <2>5. QED
    BY <1>3, <2>3, <2>4 DEF PollWrites, TitlesTypeInv, TitlesTypeOK, OnTitles, Asks, NoWork
<1>4. QED
  BY <1>1, <1>2, <1>3

LEMMA TitlesSweep ==
  ASSUME TitlesTypeInv, SweepLists \/ SweepSkips \/ SweepReads \/ SweepWrites
  PROVE  TitlesTypeInv'
<1>0. /\ row \in [TitleIds -> RowType] /\ titles \subseteq TitleIds
      /\ sweep.rows \subseteq WorkType /\ \A w \in sweep.rows : w.title \in titles
      /\ \A w \in WorkType : w.row \in RowType
      /\ \A t \in TitleIds : t \in 0 .. MaxTitle
  BY TitlesAssumption DEF TitlesTypeInv, TitlesTypeOK, OnTitles, WorkType, TitleIds
<1>1. CASE SweepLists
  <2>1. Needy \subseteq titles
    BY DEF Needy
  <2>2. \A w \in Works(Needy) : w \in WorkType /\ w.title \in titles
    BY <1>0, <2>1, TitleValues DEF Works, NoWork, WorkType
  <2>3. QED
    BY <1>1, <2>2, TitleValues DEF SweepLists, TitlesTypeInv, TitlesTypeOK, OnTitles, Asks
<1>2. CASE SweepSkips
  <2>1. CASE Complete(sweep.rows) = {}
    BY <1>2, <2>1 DEF SweepSkips, TitlesTypeInv, TitlesTypeOK, OnTitles, Asks
  <2>2. CASE Complete(sweep.rows) # {}
    <3> DEFINE w == Newest(Complete(sweep.rows))
    <3>1. w \in sweep.rows
      <4>1. Complete(sweep.rows) \in SUBSET WorkType /\ Complete(sweep.rows) \subseteq sweep.rows
        BY <1>0 DEF Complete
      <4>2. QED
        BY <2>2, <4>1, NewestWork
    <3>2. /\ Update(w.title, [w.row EXCEPT !.enriched = TRUE])
          /\ sweep' = [sweep EXCEPT !.rows = @ \ {w}]
      BY <1>2, <2>2 DEF SweepSkips
    <3> HIDE DEF w
    <3>3. [w.row EXCEPT !.enriched = TRUE] \in RowType
      BY <1>0, <3>1 DEF RowType
    <3>4. row' \in [TitleIds -> RowType] /\ failures' \in 0 .. MaxFailures
      BY <1>0, <3>1, <3>2, <3>3, UpdateType
    <3>5. QED
      BY <1>2, <3>2, <3>4 DEF SweepSkips, TitlesTypeInv, TitlesTypeOK, OnTitles, Asks
  <2>3. QED
    BY <2>1, <2>2
<1>3. CASE SweepReads
  <2>1. CASE sweep.rows = {}
    BY <1>3, <2>1, TitleValues DEF SweepReads, TitlesTypeInv, TitlesTypeOK, OnTitles, Asks
  <2>2. CASE sweep.rows # {}
    <3> DEFINE w == Newest(sweep.rows)
               v == [NoWork EXCEPT !.title = w.title, !.row = row[w.title]]
    <3>1. w \in sweep.rows
      BY <1>0, <2>2, NewestWork
    <3>2. sweep' = [at |-> IF row[w.title].enriched THEN "next" ELSE "enriching",
                    rows |-> sweep.rows \ {w}, work |-> v]
      BY <1>3, <2>2 DEF SweepReads
    <3>3. v \in WorkType /\ v.title = w.title
      BY <1>0, <3>1, TitleValues DEF NoWork, WorkType
    <3> HIDE DEF w, v
    <3>4. QED
      BY <1>0, <1>3, <3>1, <3>2, <3>3 DEF SweepReads, TitlesTypeInv, TitlesTypeOK, OnTitles, Asks
  <2>3. QED
    BY <2>1, <2>2
<1>4. CASE SweepWrites
  <2>1. PICK new \in Enrichments(sweep.work.row) : Update(sweep.work.title, new)
    BY <1>4 DEF SweepWrites
  <2>2. new \in RowType /\ sweep.work.title \in TitleIds
    BY <1>4, <2>1, EnrichmentsType DEF SweepWrites, TitlesTypeInv, TitlesTypeOK, WorkType, OnTitles
  <2>3. row' \in [TitleIds -> RowType] /\ failures' \in 0 .. MaxFailures
    BY <2>1, <2>2, UpdateType
  <2>4. QED
    BY <1>4, <2>3, TitleValues DEF SweepWrites, TitlesTypeInv, TitlesTypeOK, OnTitles, Asks
<1>5. QED
  BY <1>1, <1>2, <1>3, <1>4

LEMMA TitlesAsker ==
  ASSUME TitlesTypeInv, NEW q \in Askers, AskTitle(q) \/ AskerWrites(q)
  PROVE  TitlesTypeInv'
<1>1. CASE AskTitle(q)
  <2>1. PICK t \in titles, op \in {"enrich", "trailer", "rating"} :
          asker' = [asker EXCEPT ![q] = [at |-> "write", op |-> op, title |-> t, row |-> row[t]]]
    BY <1>1 DEF AskTitle
  <2>2. [at |-> "write", op |-> op, title |-> t, row |-> row[t]] \in WorkType
    BY TitlesAssumption DEF TitlesTypeInv, TitlesTypeOK, WorkType, TitleIds
  <2>3. asked' \in 0 .. MaxAsked
    BY <1>1, TitlesAssumption DEF AskTitle, TitlesTypeInv, TitlesTypeOK
  <2>4. QED
    BY <1>1, <2>1, <2>2, <2>3 DEF AskTitle, TitlesTypeInv, TitlesTypeOK, OnTitles, Asks
<1>2. CASE AskerWrites(q)
  <2>1. asker[q] \in WorkType /\ asker[q].op # "none" /\ asker[q].row \in RowType
    BY <1>2 DEF AskerWrites, TitlesTypeInv, TitlesTypeOK, Asks, WorkType
  <2>2. \A new \in Found(asker[q]) : new \in RowType
    BY <2>1, EnrichmentsType DEF Found, WorkType, RowType
  <2>3. row' \in [TitleIds -> RowType] /\ failures' \in 0 .. MaxFailures
    <3>1. asker[q].title \in TitleIds
      BY <1>2 DEF AskerWrites, TitlesTypeInv, TitlesTypeOK, OnTitles
    <3>2. CASE UNCHANGED <<row, failures>>
      BY <3>2 DEF TitlesTypeInv, TitlesTypeOK
    <3>3. QED
      BY <1>2, <2>2, <3>1, <3>2, UpdateType DEF AskerWrites
  <2>4. QED
    BY <1>2, <2>3, TitleValues
       DEF AskerWrites, TitlesTypeInv, TitlesTypeOK, OnTitles, Asks, NoWork
<1>3. QED
  BY <1>1, <1>2

LEMMA TitlesTypeStep == TitlesTypeInv /\ [TitlesNext]_titlesVars => TitlesTypeInv'
<1> SUFFICES ASSUME TitlesTypeInv, [TitlesNext]_titlesVars PROVE TitlesTypeInv'
  OBVIOUS
<1>1. CASE UNCHANGED titlesVars
  BY <1>1 DEF titlesVars, TitlesTypeInv, TitlesTypeOK, OnTitles, Asks
<1>2. CASE TitlesNext
  BY <1>2, TitlesPoll, TitlesSweep, TitlesAsker DEF TitlesNext
<1>3. QED
  BY <1>1, <1>2

\* Polls, sweeps and requests that write over each other keep the rows of titles
\* well typed, and each works on a title that is there.
THEOREM TitlesTypes == TitlesSpec => [](TitlesTypeOK /\ OnTitles)
<1>1. TitlesTypeInv => TitlesTypeOK /\ OnTitles
  BY DEF TitlesTypeInv
<1>2. QED
  BY <1>1, TitlesTypeInit, TitlesTypeStep, PTL DEF TitlesSpec
-----------------------------------------------------------------------------
(* The server together *)

\* A step of one part leaves the others as they are.
LEMMA OnePartMoves ==
  [ServerNext]_serverVars =>
    /\ [RequestsNext]_requestsVars /\ [ConnectionsNext]_connectionsVars
    /\ [TitlesNext]_titlesVars
<1>1. CASE UNCHANGED serverVars
  BY <1>1 DEF serverVars
<1>2. CASE ServerNext
  BY <1>2 DEF ServerNext
<1>3. QED
  BY <1>1, <1>2

\* Side by side each part of the server takes the steps it takes alone.  What it
\* must do in the end is another matter: only the part that moves is asked for it.
THEOREM ServerParts ==
  ServerSpec => /\ RequestsInit /\ [][RequestsNext]_requestsVars
                /\ ConnectionsInit /\ [][ConnectionsNext]_connectionsVars
                /\ TitlesInit /\ [][TitlesNext]_titlesVars
<1>1. ServerInit => RequestsInit /\ ConnectionsInit /\ TitlesInit
  BY DEF ServerInit
<1>2. QED
  BY <1>1, OnePartMoves, PTL DEF ServerSpec

\* Promises, connections and titles keep their types, whatever requests,
\* broadcasts, polls and broken connections do.
THEOREM ServerTypes == ServerSpec => []ServerTypeOK
<1>1. TypeInv /\ ConnTypeInv /\ TitlesTypeInv => ServerTypeOK
  BY DEF TypeInv, ConnTypeInv, TitlesTypeInv, ServerTypeOK
<1>2. QED
  BY <1>1, ServerParts, TypeInit, TypeStep, ConnTypeInit, ConnTypeStep,
     TitlesTypeInit, TitlesTypeStep, PTL
=============================================================================
