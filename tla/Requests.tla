------------------------------ MODULE Requests ------------------------------
(* A request of the browser and its answer: RendererPromiseIpc.ts on one side,
   wsHandler, RouteMessage and the handlers' transmit functions on the other.
   A request waits for a socket, is entered in the queue under a reply channel
   of its own and sent; the server runs a handler for it, on a goroutine of its
   own, that writes chunks and an answer to the connection the request came
   by.  The connection may break at any moment, with what is under way on it
   lost or not; the browser finds out later and connects again.

   A handler is told apart by how it answers: "once", after some chunks
   (get-media, transmitWithPeerCounts) or none, as a route there is not; or
   "twice", with a failure and then a success (reprocess-genres when it cannot
   count).  How writes to one connection keep
   out of each other's way is module Connections. *)
EXTENDS Naturals, Sequences

CONSTANTS
  Promises,     \* calls of send()
  MaxParts,     \* bound: chunks in a streamed result
  MaxSockets    \* bound: sockets the browser opens

ASSUME RequestsAssumption == MaxParts \in Nat /\ MaxSockets \in Nat \ {0}

VARIABLES
  outcome,     \* Promises -> what has become of the promise send() returned
  settles,     \* Promises -> how often it was resolved or rejected
  queue,       \* the promises with an entry in this.queue
  heard,       \* Promises -> the chunks given to onChunk
  socket,      \* the browser's socket; a "dead" one it still takes for open
  sockets,     \* how many sockets it has made; the number of the present one
  up,          \* requests under way to the server
  down,        \* frames under way to the browser
  handler      \* Promises -> the goroutine that handles the request

browser == <<outcome, settles, queue, heard>>

requestsVars == <<outcome, settles, queue, heard, socket, sockets, up, down, handler>>

Routes == {"once", "twice"}

NoHandler == [at |-> "none", route |-> "once", parts |-> 0, sent |-> 0, socket |-> 0]

(* isSocketConnected is set by the events of the socket. *)
Connected == socket \in {"open", "dead"}

RequestsInit ==
  /\ outcome = [p \in Promises |-> "none"]
  /\ settles = [p \in Promises |-> 0]
  /\ queue = {}
  /\ heard = [p \in Promises |-> <<>>]
  /\ socket = "connecting" /\ sockets = 1
  /\ up = {} /\ down = <<>>
  /\ handler = [p \in Promises |-> NoHandler]

-----------------------------------------------------------------------------
(* The browser *)

SendLater(p) ==
  /\ outcome[p] = "none" /\ ~Connected
  /\ outcome' = [outcome EXCEPT ![p] = "waiting"]
  /\ UNCHANGED <<settles, queue, heard, socket, sockets, up, down, handler>>

(* The entry is made before the message is handed to the socket, which drops
   it silently when it is dead. *)
SendNow(p) ==
  /\ Connected
  /\ outcome' = [outcome EXCEPT ![p] = "open"]
  /\ queue' = queue \union {p}
  /\ up' = IF socket = "open" THEN up \union {[promise |-> p, socket |-> sockets]} ELSE up
  /\ UNCHANGED <<settles, heard, socket, sockets, down, handler>>

Send(p) == outcome[p] = "none" /\ SendNow(p)

(* The 300 ms timer of a call that found no socket. *)
SendAgain(p) == outcome[p] = "waiting" /\ SendNow(p)

(* Calling resolve or reject of a promise that is settled does nothing. *)
Settle(p, how) ==
  /\ outcome' = [outcome EXCEPT ![p] = IF @ = "open" THEN how ELSE @]
  /\ settles' = [settles EXCEPT ![p] = @ + 1]

OnAnswerKeeps(p, status) ==
  /\ status # "chunk"
  /\ Settle(p, IF status = "success" THEN "resolved" ELSE "rejected")
  /\ UNCHANGED <<queue, heard>>

(* A success or a failure removes the entry. *)
OnAnswer(p, status) ==
  /\ status # "chunk"
  /\ Settle(p, IF status = "success" THEN "resolved" ELSE "rejected")
  /\ queue' = queue \ {p}
  /\ UNCHANGED heard

(* A chunk keeps it, for the answer that is still to come. *)
OnChunk(p, frame) ==
  /\ frame.status = "chunk"
  /\ heard' = [heard EXCEPT ![p] = Append(@, frame.part)]
  /\ UNCHANGED <<outcome, settles, queue>>

Message ==
  /\ down # <<>>
  /\ down' = Tail(down)
  /\ LET frame == Head(down)
         p == frame.promise
     IN \/ p \in queue /\ OnChunk(p, frame)
        \/ p \in queue /\ OnAnswer(p, frame.status)
        \/ p \notin queue /\ UNCHANGED browser
  /\ UNCHANGED <<socket, sockets, up, handler>>

TimeoutWhileConnected(p) ==
  /\ p \in queue /\ Connected
  /\ queue' = queue \ {p}
  /\ Settle(p, "rejected")
  /\ UNCHANGED <<heard, socket, sockets, up, down, handler>>

(* The timer of a request, chunks or not; it finds no entry when the request
   has been answered. *)
Timeout(p) ==
  /\ p \in queue
  /\ queue' = queue \ {p}
  /\ Settle(p, "rejected")
  /\ UNCHANGED <<heard, socket, sockets, up, down, handler>>

-----------------------------------------------------------------------------
(* The connection *)

Open ==
  /\ socket = "connecting" /\ socket' = "open"
  /\ UNCHANGED <<browser, sockets, up, down, handler>>

(* What is under way on a connection that breaks arrives or not: of the
   frames, which come in order, the first ones. *)
Break ==
  /\ socket = "open" /\ socket' = "dead"
  /\ \E lost \in SUBSET {r \in up : r.socket = sockets} : up' = up \ lost
  /\ \E n \in 0 .. Len(down) : down' = SubSeq(down, 1, n)
  /\ UNCHANGED <<browser, sockets, handler>>

(* The close event comes after the messages.  The entries stay. *)
Closed ==
  /\ \/ socket = "dead" /\ down = <<>>
     \/ socket = "connecting"
  /\ socket' = "closed"
  /\ UNCHANGED <<browser, sockets, up, down, handler>>

Reconnect ==
  /\ socket = "closed" /\ sockets < MaxSockets
  /\ socket' = "connecting" /\ sockets' = sockets + 1
  /\ UNCHANGED <<browser, up, down, handler>>

-----------------------------------------------------------------------------
(* The server *)

(* A message that has arrived is handled also when its connection is gone. *)
RouteMessage(r) ==
  /\ up' = up \ {r}
  /\ \E route \in Routes, n \in 0 .. MaxParts :
       /\ route = "twice" => n = 0
       /\ handler' = [handler EXCEPT ![r.promise] =
            [NoHandler EXCEPT !.at = "running", !.route = route,
                              !.parts = n, !.socket = r.socket]]
  /\ UNCHANGED <<browser, socket, sockets, down>>

(* The connection the request came by still reaches the browser. *)
Reaches(p) == socket = "open" /\ handler[p].socket = sockets

Transmit(p, status, part) ==
  down' = IF Reaches(p)
          THEN Append(down, [promise |-> p, status |-> status, part |-> part])
          ELSE down

TransmitChunkPastEnd(p) ==
  /\ handler[p].at = "running" /\ handler[p].sent <= handler[p].parts
  /\ handler' = [handler EXCEPT ![p].sent = @ + 1]
  /\ Transmit(p, "chunk", handler[p].sent + 1)
  /\ UNCHANGED <<browser, socket, sockets, up>>

(* A write to a broken connection fails or goes unnoticed; a chunk that fails
   ends the handler without an answer. *)
TransmitChunk(p) ==
  /\ handler[p].at = "running" /\ handler[p].sent < handler[p].parts
  /\ \/ /\ handler' = [handler EXCEPT ![p].sent = @ + 1]
        /\ Transmit(p, "chunk", handler[p].sent + 1)
     \/ /\ ~Reaches(p)
        /\ handler' = [handler EXCEPT ![p].at = "failed", ![p].socket = 0]
        /\ UNCHANGED down
  /\ UNCHANGED <<browser, socket, sockets, up>>

AnswersWithoutLastBatch(h) ==
  IF h.at = "running"
  THEN {"failure"} \union
       {s \in {"success"} : h.route = "once" /\ h.sent + 1 >= h.parts}
  ELSE {"success"}

(* What a handler may answer at this point: a failure at any time, also from
   the recover of a panic; a success when everything has been sent. *)
Answers(h) ==
  IF h.at = "running"
  THEN {"failure"} \union
       {s \in {"success"} : h.route = "once" /\ h.sent = h.parts}
  ELSE {"success"}

(* reprocess-genres answers the failure and goes on to the success. *)
AfterAnswer(h) == IF h.at = "running" /\ h.route = "twice" THEN "again" ELSE "done"

Answer(p) ==
  /\ handler[p].at \in {"running", "again"}
  /\ \E status \in Answers(handler[p]) : Transmit(p, status, handler[p].sent)
  /\ handler' = [handler EXCEPT ![p].at = AfterAnswer(handler[p]),
                                ![p].socket = IF AfterAnswer(handler[p]) = "done" THEN 0 ELSE @]
  /\ UNCHANGED <<browser, socket, sockets, up>>

-----------------------------------------------------------------------------
RequestsNext ==
  \/ \E p \in Promises : \/ SendLater(p) \/ Send(p) \/ SendAgain(p) \/ Timeout(p)
                         \/ TransmitChunk(p) \/ Answer(p)
  \/ Message \/ Open \/ Break \/ Closed \/ Reconnect
  \/ \E r \in up : RouteMessage(r)

(* Timers fire; the network and the handlers owe nothing. *)
RequestsFairness ==
  \A p \in Promises :
    /\ WF_requestsVars(Timeout(p))
    /\ WF_requestsVars(SendAgain(p))

RequestsSpec == RequestsInit /\ [][RequestsNext]_requestsVars /\ RequestsFairness

-----------------------------------------------------------------------------
(* Properties *)

RequestsTypeOK ==
  /\ outcome \in [Promises -> {"none", "waiting", "open", "resolved", "rejected"}]
  /\ settles \in [Promises -> Nat]
  /\ queue \subseteq Promises
  /\ heard \in [Promises -> Seq(1 .. MaxParts)]
  /\ socket \in {"connecting", "open", "dead", "closed"} /\ sockets \in 1 .. MaxSockets
  /\ up \subseteq [promise: Promises, socket: 1 .. MaxSockets]
  /\ down \in Seq([promise: Promises, status: {"chunk", "success", "failure"}, part: 0 .. MaxParts])
  /\ handler \in [Promises -> [at: {"none", "running", "again", "done", "failed"},
                               route: Routes, parts: 0 .. MaxParts, sent: 0 .. MaxParts,
                               socket: 0 .. MaxSockets]]

Settled(p) == outcome[p] \in {"resolved", "rejected"}

(* A promise that was sent has its entry until it settles, and it is settled
   once: an answer after the timeout, a second answer (reprocess-genres) or
   chunks that go on after it settled find no entry. *)
EntryUntilSettled ==
  \A p \in Promises :
    /\ p \in queue <=> outcome[p] = "open"
    /\ settles[p] = IF Settled(p) THEN 1 ELSE 0

(* A streamed result resolves only after onChunk was given all of it, in
   order: chunks of a broken connection are not followed by the success of
   another one, and the last, smaller batch is sent too. *)
WholeResult ==
  \A p \in Promises :
    outcome[p] = "resolved" => heard[p] = [i \in 1 .. handler[p].parts |-> i]

(* RendererPromiseIpc keeps what send() promises. *)
P == INSTANCE Promised WITH call <- outcome, parts <- heard

KeepsPromises == P!Spec

(* A handler that has sent chunks of p, has more of them and can reach the
   browser. *)
Streaming(p) ==
  heard[p] # <<>> /\ handler[p].at = "running" /\ handler[p].sent < handler[p].parts /\ Reaches(p)

(* What the comment at the timer says: a request whose chunks still come is not
   rejected but by an answer of the server. *)
StreamingGoesOn ==
  [][\A p \in Promises :
       Streaming(p) /\ outcome[p] = "open" /\ outcome'[p] = "rejected" => down # down']_requestsVars
=============================================================================
