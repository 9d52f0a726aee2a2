---------------------------- MODULE Connections ----------------------------
(* Who writes to a connection and when it is closed: wsHandler, writeWS and
   BroadcastMessage of server.go.  Requests run on goroutines of their own and
   write their answers; sweeps and some handlers broadcast to every client.
   gorilla/websocket allows one writer at a time, so each connection has a
   write lock, in a map from which it is taken when the connection ends.

   A write takes the lock out of the map (or puts a new one there) and only
   then waits for it: the two may be on both sides of the deletion.  A lock is
   told apart by the number of times its connection's lock has been deleted. *)
EXTENDS Naturals

CONSTANTS
  Conns,      \* connections
  Handlers,   \* goroutines that handle a request
  Sweeps,     \* goroutines that only broadcast: sweeps, the folder watcher
  MaxWrites,  \* bound: answers, chunks and broadcasts of one goroutine
  NoOne       \* no connection, no goroutine

ASSUME ConnectionsAssumption ==
  /\ NoOne \notin Conns \union Handlers \union Sweeps
  /\ Handlers \intersect Sweeps = {} /\ MaxWrites \in Nat

Writers == Handlers \union Sweeps

VARIABLES
  conn,      \* Conns -> where wsHandler is
  clients,   \* Server.clients
  mutex,     \* the broadcaster that has Server.mutex
  todo,      \* the clients it has still to write to
  stored,    \* the connections with a lock in wsWriteLocks
  deleted,   \* Conns -> how often its lock has been deleted
  writer,    \* Writers -> where it is, writing to which connection, with which lock
  writes,    \* Writers -> the answers, chunks and broadcasts it has begun
  origin,    \* Handlers -> the connection its request came by
  silent     \* the clients that have stopped reading and not gone

connectionsVars == <<conn, clients, mutex, todo, stored, deleted, writer, writes, origin, silent>>

Goroutine(at) == [at |-> at, to |-> NoOne, lock |-> 0]

ConnectionsInit ==
  /\ conn = [c \in Conns |-> "none"]
  /\ clients = {} /\ mutex = NoOne /\ todo = {}
  /\ stored = {} /\ deleted = [c \in Conns |-> 0]
  /\ writer = [w \in Writers |-> Goroutine(IF w \in Sweeps THEN "running" ELSE "none")]
  /\ writes = [w \in Writers |-> 0]
  /\ origin = [h \in Handlers |-> NoOne]
  /\ silent = {}

-----------------------------------------------------------------------------
(* wsHandler *)

Accept(c) ==
  /\ conn[c] = "none" /\ mutex = NoOne
  /\ clients' = clients \union {c}
  /\ conn' = [conn EXCEPT ![c] = "reading"]
  /\ UNCHANGED <<mutex, todo, stored, deleted, writer, writes, origin, silent>>

(* A message starts a goroutine, counted in inFlight before it runs. *)
Handle(c, h) ==
  /\ conn[c] = "reading" /\ writer[h].at = "none"
  /\ writer' = [writer EXCEPT ![h] = Goroutine("running")]
  /\ origin' = [origin EXCEPT ![h] = c]
  /\ UNCHANGED <<conn, clients, mutex, todo, stored, deleted, writes, silent>>

InFlight(c) == {h \in Handlers : origin[h] = c /\ writer[h].at # "done"}

(* A client stays connected and reads no more: nothing times out. *)
StopsReading(c) ==
  /\ conn[c] = "reading" /\ silent' = silent \union {c}
  /\ UNCHANGED <<conn, clients, mutex, todo, stored, deleted, writer, writes, origin>>

(* ReadMessage fails: the browser has gone, or a broadcast has closed the
   connection.  The handler of a close message takes the client out already. *)
ReadFails(c) ==
  /\ conn[c] = "reading"
  /\ \/ mutex = NoOne /\ clients' = clients \ {c}
     \/ UNCHANGED clients
  /\ conn' = [conn EXCEPT ![c] = "leaving"]
  /\ silent' = silent \ {c}
  /\ UNCHANGED <<mutex, todo, stored, deleted, writer, writes, origin>>

LeaveClientsAnyway(c) ==
  /\ conn[c] = "leaving"
  /\ clients' = clients \ {c}
  /\ conn' = [conn EXCEPT ![c] = "draining"]
  /\ UNCHANGED <<mutex, todo, stored, deleted, writer, writes, origin, silent>>

LeaveClients(c) ==
  /\ conn[c] = "leaving" /\ mutex = NoOne
  /\ clients' = clients \ {c}
  /\ conn' = [conn EXCEPT ![c] = "draining"]
  /\ UNCHANGED <<mutex, todo, stored, deleted, writer, writes, origin, silent>>

DrainedAtOnce(c) == c \in Conns

Drained(c) == InFlight(c) = {}

(* The deferred calls: wait for what is in flight, delete the lock, close. *)
DeleteLock(c) ==
  /\ conn[c] = "draining" /\ Drained(c)
  /\ stored' = stored \ {c}
  /\ deleted' = [deleted EXCEPT ![c] = @ + 1]
  /\ conn' = [conn EXCEPT ![c] = "closing"]
  /\ UNCHANGED <<clients, mutex, todo, writer, writes, origin, silent>>

Close(c) ==
  /\ conn[c] = "closing"
  /\ conn' = [conn EXCEPT ![c] = "closed"]
  /\ UNCHANGED <<clients, mutex, todo, stored, deleted, writer, writes, origin, silent>>

-----------------------------------------------------------------------------
(* writeWS: LoadOrStore, Lock, write, Unlock *)

TakeLock(w, c) ==
  /\ stored' = stored \union {c}
  /\ writer' = [writer EXCEPT ![w] = [at |-> "waiting", to |-> c, lock |-> deleted[c]]]

Begin(w) == writes[w] < MaxWrites /\ writes' = [writes EXCEPT ![w] = @ + 1]

Held(c, lock) ==
  \E w \in Writers : writer[w] = [at |-> "writing", to |-> c, lock |-> lock]

Lock(w) ==
  /\ writer[w].at = "waiting"
  /\ ~Held(writer[w].to, writer[w].lock)
  /\ writer' = [writer EXCEPT ![w].at = "writing"]
  /\ UNCHANGED <<conn, clients, mutex, todo, stored, deleted, writes, origin, silent>>

(* A broadcast closes and forgets a client it cannot write to.  A client that has
   stopped reading may still have room for the frame. *)
Written(w) ==
  /\ writer[w].at = "writing"
  /\ writer' = [writer EXCEPT ![w] = Goroutine("running")]
  /\ \/ UNCHANGED clients
     \/ mutex = w /\ clients' = clients \ {writer[w].to}
  /\ UNCHANGED <<conn, mutex, todo, stored, deleted, writes, origin, silent>>

(* A handler writes chunks and answers to its own connection. *)
Respond(h) ==
  /\ writer[h].at = "running" /\ mutex # h
  /\ TakeLock(h, origin[h])
  /\ Begin(h)
  /\ UNCHANGED <<conn, clients, mutex, todo, deleted, origin, silent>>

HandlerEnds(h) ==
  /\ writer[h].at = "running" /\ mutex # h
  /\ writer' = [writer EXCEPT ![h] = Goroutine("done")]
  /\ UNCHANGED <<conn, clients, mutex, todo, stored, deleted, writes, origin, silent>>

-----------------------------------------------------------------------------
(* BroadcastMessage has the mutex from its begin to its end. *)

Broadcast(w) ==
  /\ writer[w].at = "running" /\ mutex = NoOne
  /\ mutex' = w /\ todo' = clients
  /\ Begin(w)
  /\ UNCHANGED <<conn, clients, stored, deleted, writer, origin, silent>>

BroadcastTo(w, c) ==
  /\ mutex = w /\ writer[w].at = "running" /\ c \in todo
  /\ todo' = todo \ {c}
  /\ TakeLock(w, c)
  /\ UNCHANGED <<conn, clients, mutex, deleted, writes, origin, silent>>

BroadcastEndsLocked(w) ==
  /\ mutex = w /\ writer[w].at = "running" /\ todo = {}
  /\ mutex' = IF clients = {} THEN w ELSE NoOne
  /\ UNCHANGED <<conn, clients, todo, stored, deleted, writer, writes, origin, silent>>

BroadcastEnds(w) ==
  /\ mutex = w /\ writer[w].at = "running" /\ todo = {}
  /\ mutex' = NoOne
  /\ UNCHANGED <<conn, clients, todo, stored, deleted, writer, writes, origin, silent>>

-----------------------------------------------------------------------------
ConnectionsNext ==
  \/ \E c \in Conns : \/ Accept(c) \/ StopsReading(c) \/ ReadFails(c) \/ LeaveClients(c)
                      \/ DeleteLock(c) \/ Close(c)
                      \/ \E h \in Handlers : Handle(c, h)
                      \/ \E w \in Writers : BroadcastTo(w, c)
  \/ \E h \in Handlers : Respond(h) \/ HandlerEnds(h)
  \/ \E w \in Writers : Lock(w) \/ Written(w) \/ Broadcast(w) \/ BroadcastEnds(w)

Leaves(c) == LeaveClients(c) \/ DeleteLock(c) \/ Close(c)

(* No write has a deadline, and TCP does not give up on a client that answers and
   has stopped reading. *)
WriteGoesOn(w) ==
  \/ writer[w].to \notin silent /\ Written(w)
  \/ Lock(w) \/ BroadcastEnds(w) \/ \E c \in Conns : BroadcastTo(w, c)

(* A goroutine goes on, and a handler comes to its end, unless it writes to a
   client that has stopped reading.  With MaxWrites nobody waits for a mutex for
   ever while writes end. *)
ConnectionsFairness ==
  /\ \A c \in Conns : WF_connectionsVars(Leaves(c))
  /\ \A h \in Handlers : WF_connectionsVars(HandlerEnds(h))
  /\ \A w \in Writers : WF_connectionsVars(WriteGoesOn(w))

ConnectionsSpec == ConnectionsInit /\ [][ConnectionsNext]_connectionsVars /\ ConnectionsFairness

-----------------------------------------------------------------------------
(* Properties *)

ConnectionsTypeOK ==
  /\ conn \in [Conns -> {"none", "reading", "leaving", "draining", "closing", "closed"}]
  /\ clients \subseteq Conns /\ mutex \in Writers \union {NoOne} /\ todo \subseteq Conns
  /\ stored \subseteq Conns /\ deleted \in [Conns -> Nat]
  /\ writer \in [Writers -> [at: {"none", "running", "waiting", "writing", "done"},
                             to: Conns \union {NoOne}, lock: Nat]]
  /\ writes \in [Writers -> 0 .. MaxWrites]
  /\ origin \in [Handlers -> Conns \union {NoOne}] /\ silent \subseteq Conns

(* No two goroutines write to one connection at once, whichever locks they
   hold: deleting a connection's lock does not let a second writer in beside
   one that has the old lock. *)
OneWriter ==
  \A v, w \in Writers :
    writer[v].at = "writing" /\ writer[w].at = "writing" /\ writer[v].to = writer[w].to => v = w

(* A connection that is about to be closed has no writer left, and no lock is
   put into the map for it again, where nobody would ever delete it. *)
LockGone ==
  \A c \in Conns :
    conn[c] \in {"closing", "closed"} =>
      /\ c \notin stored
      /\ \A w \in Writers : writer[w].to # c

(* A broadcast is at a client that has stopped reading: writing to it, or waiting
   for a handler that is.  It has the mutex that every connection needs to leave. *)
Stuck == mutex # NoOne /\ writer[mutex].to \in silent

(* A connection whose browser has gone is closed, however many requests are in
   flight and broadcasts under way, and though handlers may be held up by other
   clients: unless a broadcast is stuck for ever. *)
ConnectionCloses ==
  <>[]Stuck \/ \A c \in Conns : (conn[c] = "leaving") ~> (conn[c] = "closed")
=============================================================================
