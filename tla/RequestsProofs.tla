--------------------------- MODULE RequestsProofs ---------------------------
(* What a request of the browser is promised, for every number of requests,
   chunks and connections. *)
EXTENDS Requests, SequenceTheorems, TLAPS

Outcomes == {"none", "waiting", "open", "resolved", "rejected"}

Frame == [promise: Promises, status: {"chunk", "success", "failure"}, part: 0 .. MaxParts]

Upward == [promise: Promises, socket: 1 .. MaxSockets]

HandlerRecord == [at: {"none", "running", "again", "done", "failed"}, route: Routes,
                  parts: 0 .. MaxParts, sent: 0 .. MaxParts, socket: 0 .. MaxSockets]

(* Chunks are numbered from 1. *)
ChunksCount ==
  \A i \in 1 .. Len(down) : down[i].status = "chunk" => down[i].part # 0

TypeInv == RequestsTypeOK /\ ChunksCount

-----------------------------------------------------------------------------
(* Types *)

LEMMA HandlerValues == NoHandler \in HandlerRecord
BY RequestsAssumption DEF NoHandler, HandlerRecord, Routes

LEMMA TypeInit == RequestsInit => TypeInv
<1> SUFFICES ASSUME RequestsInit PROVE TypeInv
  OBVIOUS
<1>1. handler \in [Promises -> HandlerRecord] /\ heard \in [Promises -> Seq(1 .. MaxParts)]
  BY HandlerValues, EmptySeq DEF RequestsInit
<1>2. sockets \in 1 .. MaxSockets /\ down \in Seq(Frame) /\ ChunksCount
  BY RequestsAssumption, EmptySeq DEF RequestsInit, ChunksCount
<1>3. QED
  BY <1>1, <1>2 DEF RequestsInit, TypeInv, RequestsTypeOK, HandlerRecord, Frame

(* A frame is put on the connection, or not. *)
LEMMA TransmitType ==
  ASSUME TypeInv, NEW p \in Promises, NEW status \in {"chunk", "success", "failure"},
         NEW part \in 0 .. MaxParts, status = "chunk" => part # 0, Transmit(p, status, part)
  PROVE  down' \in Seq(Frame) /\ ChunksCount'
<1> USE DEF TypeInv, RequestsTypeOK, Frame
<1>1. CASE Reaches(p)
  <2>1. PICK f \in Frame : f = [promise |-> p, status |-> status, part |-> part]
    OBVIOUS
  <2>2. down' = Append(down, f)
    BY <1>1, <2>1 DEF Transmit
  <2>3. /\ down' \in Seq(Frame) /\ Len(down') = Len(down) + 1 /\ Len(down) \in Nat
        /\ \A i \in 1 .. Len(down) : down'[i] = down[i]
        /\ down'[Len(down) + 1] = f
    BY <2>2, AppendProperties
  <2>4. ChunksCount'
    <3>1. \A i \in 1 .. Len(down') : i \in 1 .. Len(down) \/ i = Len(down) + 1
      BY <2>3
    <3>2. f.status = "chunk" => f.part # 0
      BY <2>1
    <3>3. QED
      BY <2>3, <3>1, <3>2 DEF ChunksCount
  <2>5. QED
    BY <2>3, <2>4
<1>2. CASE ~Reaches(p)
  BY <1>2 DEF Transmit, ChunksCount
<1>3. QED
  BY <1>1, <1>2

LEMMA TypeBrowser ==
  ASSUME TypeInv, NEW p \in Promises, SendLater(p) \/ Send(p) \/ SendAgain(p) \/ Timeout(p)
  PROVE  TypeInv'
<1> USE DEF TypeInv, RequestsTypeOK
<1>1. CASE SendLater(p)
  BY <1>1 DEF SendLater, ChunksCount
<1>2. CASE Send(p) \/ SendAgain(p)
  <2>1. SendNow(p)
    BY <1>2 DEF Send, SendAgain
  <2>2. up' \subseteq Upward
    BY <2>1 DEF SendNow, Upward
  <2>3. outcome' \in [Promises -> Outcomes] /\ queue' \subseteq Promises
    BY <2>1 DEF SendNow, Outcomes
  <2>4. QED
    BY <2>1, <2>2, <2>3 DEF SendNow, Upward, Outcomes, ChunksCount
<1>3. CASE Timeout(p)
  <2>1. outcome' \in [Promises -> Outcomes] /\ settles' \in [Promises -> Nat]
    BY <1>3 DEF Timeout, Settle, Outcomes
  <2>2. QED
    BY <1>3, <2>1 DEF Timeout, Outcomes, ChunksCount
<1>4. QED
  BY <1>1, <1>2, <1>3

LEMMA DownShrinks ==
  ASSUME TypeInv, NEW n \in Nat,
         \/ down # <<>> /\ down' = Tail(down)
         \/ n <= Len(down) /\ down' = SubSeq(down, 1, n)
  PROVE  down' \in Seq(Frame) /\ ChunksCount'
<1> USE DEF TypeInv, RequestsTypeOK
<1>0. down \in Seq(Frame) /\ Len(down) \in Nat
  BY LenProperties DEF Frame
<1>1. CASE down # <<>> /\ down' = Tail(down)
  <2>1. /\ down' \in Seq(Frame) /\ Len(down') = Len(down) - 1
        /\ \A i \in 1 .. Len(down') : down'[i] = down[i + 1]
    BY <1>0, <1>1, HeadTailProperties
  <2>2. \A i \in 1 .. Len(down') : i + 1 \in 1 .. Len(down)
    BY <1>0, <2>1
  <2>3. QED
    BY <2>1, <2>2 DEF ChunksCount
<1>2. CASE n <= Len(down) /\ down' = SubSeq(down, 1, n)
  <2>0. \A i \in 1 .. n : i \in 1 .. Len(down) /\ down[i] \in Frame
    BY <1>0, <1>2, ElementOfSeq
  <2>1. /\ down' \in Seq(Frame)
        /\ Len(down') = IF 1 <= n THEN n - 1 + 1 ELSE 0
        /\ \A i \in 1 .. n - 1 + 1 : down'[i] = down[1 + i - 1]
    BY <1>2, <2>0, SubSeqProperties
  <2>2. Len(down') = n /\ \A i \in 1 .. n : down'[i] = down[i]
    BY <2>1
  <2>3. QED
    BY <2>0, <2>1, <2>2 DEF ChunksCount
<1>3. QED
  BY <1>1, <1>2

LEMMA TypeMessage ==
  ASSUME TypeInv, Message
  PROVE  TypeInv'
<1> USE DEF TypeInv, RequestsTypeOK
<1>1. down' \in Seq(Frame) /\ ChunksCount'
  BY DownShrinks DEF Message
<1>2. PICK frame \in Frame : frame = Head(down) /\ (frame.status = "chunk" => frame.part # 0)
  <2>1. down \in Seq(Frame) /\ Head(down) = down[1] /\ 1 \in 1 .. Len(down)
    BY EmptySeq DEF Message, Frame
  <2>2. QED
    BY <2>1, ElementOfSeq DEF ChunksCount
<1>3. PICK p \in Promises : p = frame.promise
  BY <1>2 DEF Frame
<1>4. CASE OnChunk(p, frame)
  <2>1. Append(heard[p], frame.part) \in Seq(1 .. MaxParts)
    <3>1. frame.part \in 1 .. MaxParts
      <4>1. frame.part \in 0 .. MaxParts /\ frame.part # 0
        BY <1>2, <1>4 DEF OnChunk, Frame
      <4>2. QED
        BY <4>1, RequestsAssumption
    <3>2. QED
      BY <3>1, AppendProperties
  <2>2. QED
    BY <1>1, <1>4, <2>1 DEF Message, OnChunk, Frame
<1>5. CASE OnAnswer(p, frame.status)
  <2>1. outcome' \in [Promises -> Outcomes] /\ settles' \in [Promises -> Nat]
    BY <1>5 DEF OnAnswer, Settle, Outcomes
  <2>2. QED
    BY <1>1, <1>5, <2>1 DEF Message, OnAnswer, Outcomes, Frame
<1>6. CASE UNCHANGED browser
  BY <1>1, <1>6 DEF Message, browser, Frame
<1>7. QED
  BY <1>2, <1>3, <1>4, <1>5, <1>6 DEF Message

LEMMA TypeSocket ==
  ASSUME TypeInv, Open \/ Break \/ Closed \/ Reconnect
  PROVE  TypeInv'
<1> USE DEF TypeInv, RequestsTypeOK
<1>1. CASE Open \/ Closed
  BY <1>1 DEF Open, Closed, browser, ChunksCount
<1>2. CASE Break
  <2>1. PICK n \in 0 .. Len(down) : down' = SubSeq(down, 1, n)
    BY <1>2 DEF Break
  <2>2. n \in Nat /\ n <= Len(down)
    BY <2>1, LenProperties
  <2>3. down' \in Seq(Frame) /\ ChunksCount'
    BY <2>1, <2>2, DownShrinks
  <2>4. up' \subseteq up
    BY <1>2 DEF Break
  <2>5. QED
    BY <1>2, <2>3, <2>4 DEF Break, browser, Frame
<1>3. CASE Reconnect
  BY <1>3, RequestsAssumption DEF Reconnect, browser, ChunksCount
<1>4. QED
  BY <1>1, <1>2, <1>3

LEMMA TypeServer ==
  ASSUME TypeInv,
         \/ \E r \in up : RouteMessage(r)
         \/ \E p \in Promises : TransmitChunk(p) \/ Answer(p)
  PROVE  TypeInv'
<1> USE DEF TypeInv, RequestsTypeOK
<1>1. ASSUME NEW r \in up, RouteMessage(r)
      PROVE  TypeInv'
  <2>1. PICK route \in Routes, n \in 0 .. MaxParts :
          handler' = [handler EXCEPT ![r.promise] =
            [NoHandler EXCEPT !.at = "running", !.route = route, !.parts = n,
                              !.socket = r.socket]]
    BY <1>1 DEF RouteMessage
  <2>2. r.socket \in 0 .. MaxSockets
    BY RequestsAssumption
  <2>3. [NoHandler EXCEPT !.at = "running", !.route = route, !.parts = n,
                          !.socket = r.socket] \in HandlerRecord
    BY <2>2, HandlerValues DEF HandlerRecord
  <2>4. handler' \in [Promises -> HandlerRecord] /\ up' \subseteq up
    BY <1>1, <2>1, <2>3 DEF RouteMessage, HandlerRecord
  <2>5. QED
    BY <1>1, <2>4 DEF RouteMessage, browser, HandlerRecord, ChunksCount
<1>2. ASSUME NEW p \in Promises, TransmitChunk(p)
      PROVE  TypeInv'
  <2>1. handler[p] \in HandlerRecord /\ handler[p].sent < handler[p].parts
    BY <1>2 DEF TransmitChunk, HandlerRecord
  <2>2. PICK n \in 0 .. MaxParts : n = handler[p].sent + 1 /\ n # 0
    <3>1. handler[p].sent \in 0 .. MaxParts /\ handler[p].parts \in 0 .. MaxParts
      BY <2>1 DEF HandlerRecord
    <3>2. QED
      BY <2>1, <3>1, RequestsAssumption
  <2>3. PICK zero \in 0 .. MaxSockets : zero = 0
    BY RequestsAssumption
  <2>a. handler' \in [Promises -> HandlerRecord]
    <3>1. [handler[p] EXCEPT !.sent = n] \in HandlerRecord
      BY <2>1 DEF HandlerRecord
    <3>2. [handler[p] EXCEPT !.at = "failed", !.socket = zero] \in HandlerRecord
      BY <2>1 DEF HandlerRecord
    <3>3. \/ handler' = [handler EXCEPT ![p] = [handler[p] EXCEPT !.sent = n]]
          \/ handler' = [handler EXCEPT ![p] = [handler[p] EXCEPT !.at = "failed", !.socket = zero]]
      BY <1>2, <2>2, <2>3 DEF TransmitChunk
    <3>4. QED
      BY <3>1, <3>2, <3>3 DEF HandlerRecord
  <2>b. down' \in Seq(Frame) /\ ChunksCount'
    <3>1. CASE Transmit(p, "chunk", n)
      BY <2>2, <3>1, TransmitType
    <3>2. CASE down' = down
      BY <3>2 DEF ChunksCount, Frame
    <3>3. QED
      BY <1>2, <2>2, <3>1, <3>2 DEF TransmitChunk
  <2>4. QED
    BY <1>2, <2>a, <2>b DEF TransmitChunk, browser, HandlerRecord, Frame
<1>3. ASSUME NEW p \in Promises, Answer(p)
      PROVE  TypeInv'
  <2>1. handler[p] \in HandlerRecord
    BY DEF HandlerRecord
  <2>2. PICK status \in {"success", "failure"} : Transmit(p, status, handler[p].sent)
    BY <1>3 DEF Answer, Answers
  <2>3. down' \in Seq(Frame) /\ ChunksCount'
    <3>1. PICK part \in 0 .. MaxParts : part = handler[p].sent
      BY <2>1 DEF HandlerRecord
    <3>2. QED
      BY <2>2, <3>1, TransmitType
  <2>4. PICK at \in {"again", "done"}, s \in 0 .. MaxSockets :
          handler' = [handler EXCEPT ![p] = [handler[p] EXCEPT !.at = at, !.socket = s]]
    <3>1. PICK at \in {"again", "done"} : at = AfterAnswer(handler[p])
      BY DEF AfterAnswer
    <3>2. PICK s \in 0 .. MaxSockets : s = IF at = "done" THEN 0 ELSE handler[p].socket
      BY <2>1, RequestsAssumption DEF HandlerRecord
    <3>3. handler' = [handler EXCEPT ![p].at = at, ![p].socket = s]
      BY <1>3, <3>1, <3>2 DEF Answer
    <3>4. QED
      BY <3>3
  <2>5. [handler[p] EXCEPT !.at = at, !.socket = s] \in HandlerRecord
    BY <2>1 DEF HandlerRecord
  <2>6. handler' \in [Promises -> HandlerRecord]
    BY <2>4, <2>5 DEF HandlerRecord
  <2>7. QED
    BY <1>3, <2>3, <2>6 DEF Answer, browser, HandlerRecord, Frame
<1>4. QED
  BY <1>1, <1>2, <1>3

LEMMA TypeStep == TypeInv /\ [RequestsNext]_requestsVars => TypeInv'
<1> SUFFICES ASSUME TypeInv, [RequestsNext]_requestsVars PROVE TypeInv'
  OBVIOUS
<1>1. CASE UNCHANGED requestsVars
  BY <1>1 DEF requestsVars, TypeInv, RequestsTypeOK, ChunksCount
<1>2. CASE RequestsNext
  BY <1>2, TypeBrowser, TypeMessage, TypeSocket, TypeServer DEF RequestsNext
<1>3. QED
  BY <1>1, <1>2

(* The variables keep their types. *)
THEOREM RequestsTypes == RequestsSpec => []RequestsTypeOK
<1>1. TypeInv => RequestsTypeOK
  BY DEF TypeInv
<1>2. QED
  BY <1>1, TypeInit, TypeStep, PTL DEF RequestsSpec
-----------------------------------------------------------------------------
(* Entries *)

LEMMA EntryStep ==
  TypeInv /\ EntryUntilSettled /\ [RequestsNext]_requestsVars => EntryUntilSettled'
<1> SUFFICES ASSUME TypeInv, EntryUntilSettled, [RequestsNext]_requestsVars
             PROVE  EntryUntilSettled'
  OBVIOUS
<1> USE DEF TypeInv, RequestsTypeOK
<1>1. CASE UNCHANGED <<outcome, settles, queue>>
  BY <1>1 DEF EntryUntilSettled, Settled
<1>2. ASSUME NEW p \in Promises, SendLater(p)
      PROVE  EntryUntilSettled'
  BY <1>2 DEF SendLater, EntryUntilSettled, Settled
<1>3. ASSUME NEW p \in Promises, Send(p) \/ SendAgain(p)
      PROVE  EntryUntilSettled'
  BY <1>3 DEF Send, SendAgain, SendNow, EntryUntilSettled, Settled
<1>4. ASSUME NEW p \in Promises, p \in queue, queue' = queue \ {p},
             NEW how \in {"resolved", "rejected"}, Settle(p, how)
      PROVE  EntryUntilSettled'
  BY <1>4 DEF Settle, EntryUntilSettled, Settled
<1>5. ASSUME NEW p \in Promises, Timeout(p)
      PROVE  EntryUntilSettled'
  BY <1>4, <1>5 DEF Timeout
<1>6. CASE Message
  <2>1. PICK frame, p : /\ frame = Head(down) /\ p = frame.promise
                        /\ \/ p \in queue /\ OnChunk(p, frame)
                           \/ p \in queue /\ OnAnswer(p, frame.status)
                           \/ UNCHANGED browser
    BY <1>6 DEF Message
  <2>2. CASE p \in queue /\ OnAnswer(p, frame.status)
    BY <1>4, <2>2 DEF OnAnswer
  <2>3. QED
    BY <1>1, <2>1, <2>2 DEF OnChunk, browser
<1>7. QED
  BY <1>1, <1>2, <1>3, <1>5, <1>6
  DEF RequestsNext, requestsVars, browser, TransmitChunk, Answer, Open, Break, Closed, Reconnect,
      RouteMessage

(* A promise that was sent has its entry until it settles, once. *)
THEOREM RequestsEntries == RequestsSpec => []EntryUntilSettled
<1>1. RequestsInit => EntryUntilSettled
  BY DEF RequestsInit, EntryUntilSettled, Settled
<1>2. QED
  BY <1>1, TypeInit, TypeStep, EntryStep, PTL DEF RequestsSpec
-----------------------------------------------------------------------------
(* Frames under way, in their order *)

IsChunk(f, p) == f.promise = p /\ f.status = "chunk"

(* Before the i-th frame come the chunks n+1 .. m of p. *)
Parts(d, i, p, n, m) ==
  \A k \in n + 1 .. m : \E j \in 1 .. i - 1 : IsChunk(d[j], p) /\ d[j].part = k

(* The frames d bring p, of whose result n chunks have been heard, the next
   ones in their order, and a success after the last one. *)
Deliver(d, p, n, sent, parts) ==
  /\ \A i \in 1 .. Len(d) : IsChunk(d[i], p) =>
       n < d[i].part /\ d[i].part <= sent /\ Parts(d, i, p, n, d[i].part - 1)
  /\ \A i \in 1 .. Len(d) : d[i].promise = p /\ d[i].status = "success" => Parts(d, i, p, n, parts)
  /\ \A i, j \in 1 .. Len(d) :
       IsChunk(d[i], p) /\ IsChunk(d[j], p) /\ i < j => d[i].part < d[j].part

LEMMA FramePart ==
  ASSUME NEW d \in Seq(Frame), NEW i \in 1 .. Len(d)
  PROVE  d[i].part \in Nat /\ d[i].part - 1 \in Int
<1>1. d[i] \in Frame
  BY ElementOfSeq
<1>2. d[i].part \in 0 .. MaxParts
  BY <1>1 DEF Frame
<1>3. QED
  BY <1>2, RequestsAssumption

LEMMA DeliverPrefix ==
  ASSUME NEW d \in Seq(Frame), NEW e \in Seq(Frame), NEW p, NEW n \in Nat, NEW sent \in Nat,
         NEW parts \in Nat, Deliver(d, p, n, sent, parts), Len(e) <= Len(d),
         \A i \in 1 .. Len(e) : e[i] = d[i]
  PROVE  Deliver(e, p, n, sent, parts)
<1>0. Len(d) \in Nat /\ Len(e) \in Nat
  BY LenProperties
<1>1. \A i \in 1 .. Len(e) : i \in 1 .. Len(d)
  BY <1>0
<1>2. ASSUME NEW i \in 1 .. Len(e), NEW m \in Int, Parts(d, i, p, n, m)
      PROVE  Parts(e, i, p, n, m)
  <2>1. \A j \in 1 .. i - 1 : j \in 1 .. Len(e)
    BY <1>0
  <2>2. QED
    BY <1>2, <2>1 DEF Parts
<1>3. ASSUME NEW i \in 1 .. Len(e), IsChunk(e[i], p)
      PROVE  n < e[i].part /\ e[i].part <= sent /\ Parts(e, i, p, n, e[i].part - 1)
  <2>1. i \in 1 .. Len(d) /\ e[i] = d[i] /\ d[i].part - 1 \in Int
    BY <1>1, FramePart
  <2>2. QED
    BY <1>2, <1>3, <2>1 DEF Deliver
<1>4. ASSUME NEW i \in 1 .. Len(e), e[i].promise = p, e[i].status = "success"
      PROVE  Parts(e, i, p, n, parts)
  BY <1>1, <1>2, <1>4 DEF Deliver
<1>5. ASSUME NEW i \in 1 .. Len(e), NEW j \in 1 .. Len(e),
             IsChunk(e[i], p), IsChunk(e[j], p), i < j
      PROVE  e[i].part < e[j].part
  BY <1>1, <1>5 DEF Deliver
<1>6. QED
  BY <1>3, <1>4, <1>5 DEF Deliver

(* What came before the i-th frame comes before the (i-1)-th of the rest, but
   for the first. *)
LEMMA PartsTail ==
  ASSUME NEW d \in Seq(Frame), NEW e \in Seq(Frame), NEW p, NEW n \in Nat, NEW m \in Int,
         d # <<>>, Len(e) = Len(d) - 1, \A i \in 1 .. Len(e) : e[i] = d[i + 1],
         NEW l \in Nat, l >= n, IsChunk(d[1], p) => d[1].part <= l,
         NEW i \in 1 .. Len(e) + 1, Parts(d, i + 1, p, n, m)
  PROVE  Parts(e, i, p, l, m)
<1> SUFFICES ASSUME NEW k \in l + 1 .. m
             PROVE  \E j \in 1 .. i - 1 : IsChunk(e[j], p) /\ e[j].part = k
  BY DEF Parts
<1>0. Len(d) \in Nat /\ Len(e) \in Nat
  BY LenProperties
<1>1. k \in n + 1 .. m
  OBVIOUS
<1>2. PICK j \in 1 .. (i + 1) - 1 : IsChunk(d[j], p) /\ d[j].part = k
  BY <1>1 DEF Parts
<1>3. j # 1
  BY <1>2
<1>4. j - 1 \in 1 .. i - 1 /\ j - 1 \in 1 .. Len(e)
  BY <1>0, <1>3
<1>5. e[j - 1] = d[j]
  BY <1>4
<1>6. QED
  BY <1>2, <1>4, <1>5

LEMMA DeliverTail ==
  ASSUME NEW d \in Seq(Frame), NEW e \in Seq(Frame), NEW p, NEW n \in Nat, NEW sent \in Nat,
         NEW parts \in Nat, Deliver(d, p, n, sent, parts),
         d # <<>>, Len(e) = Len(d) - 1, \A i \in 1 .. Len(e) : e[i] = d[i + 1],
         NEW l \in Nat, IF IsChunk(d[1], p) THEN l = d[1].part ELSE l = n
  PROVE  Deliver(e, p, l, sent, parts)
<1>0. Len(d) \in Nat /\ Len(e) \in Nat /\ 1 \in 1 .. Len(d)
  BY LenProperties, EmptySeq
<1>1. l >= n /\ (IsChunk(d[1], p) => d[1].part <= l)
  <2>1. IsChunk(d[1], p) => n < d[1].part
    BY <1>0 DEF Deliver
  <2>2. QED
    BY <2>1
<1>2. \A i \in 1 .. Len(e) : i + 1 \in 1 .. Len(d) /\ i \in 1 .. Len(e) + 1 /\ 1 < i + 1
  BY <1>0
<1>3. ASSUME NEW i \in 1 .. Len(e), NEW m \in Int, Parts(d, i + 1, p, n, m)
      PROVE  Parts(e, i, p, l, m)
  BY <1>1, <1>2, <1>3, PartsTail
<1>4. ASSUME NEW i \in 1 .. Len(e), IsChunk(e[i], p)
      PROVE  l < e[i].part /\ e[i].part <= sent /\ Parts(e, i, p, l, e[i].part - 1)
  <2>1. e[i] = d[i + 1] /\ IsChunk(d[i + 1], p)
    BY <1>4
  <2>2. n < d[i + 1].part /\ d[i + 1].part <= sent /\ Parts(d, i + 1, p, n, d[i + 1].part - 1)
    BY <1>2, <2>1 DEF Deliver
  <2>3. IsChunk(d[1], p) => d[1].part < d[i + 1].part
    BY <1>0, <1>2, <2>1 DEF Deliver
  <2>4. d[i + 1].part - 1 \in Int
    BY <1>2, FramePart
  <2>5. QED
    BY <1>3, <2>1, <2>2, <2>3, <2>4
<1>5. ASSUME NEW i \in 1 .. Len(e), e[i].promise = p, e[i].status = "success"
      PROVE  Parts(e, i, p, l, parts)
  <2>1. i + 1 \in 1 .. Len(d) /\ e[i] = d[i + 1]
    BY <1>2
  <2>2. Parts(d, i + 1, p, n, parts)
    BY <1>5, <2>1 DEF Deliver
  <2>3. QED
    BY <1>3, <2>2
<1>6. ASSUME NEW i \in 1 .. Len(e), NEW j \in 1 .. Len(e),
             IsChunk(e[i], p), IsChunk(e[j], p), i < j
      PROVE  e[i].part < e[j].part
  <2>1. e[i] = d[i + 1]
    OBVIOUS
  <2>2. e[j] = d[j + 1]
    OBVIOUS
  <2>3. i + 1 < j + 1
    BY <1>6, LenProperties
  <2>4. QED
    BY <1>2, <1>6, <2>1, <2>2, <2>3 DEF Deliver
<1>7. QED
  BY <1>4, <1>5, <1>6 DEF Deliver

(* Nothing comes before the first frame, so the next chunk is the next one, and
   a success has been waited for. *)
LEMMA DeliverHead ==
  ASSUME NEW d \in Seq(Frame), NEW p, NEW n \in Nat, NEW sent \in Nat, NEW parts \in Nat,
         Deliver(d, p, n, sent, parts), d # <<>>
  PROVE  /\ IsChunk(d[1], p) => d[1].part = n + 1 /\ n + 1 <= sent
         /\ d[1].promise = p /\ d[1].status = "success" => parts <= n
<1>0. 1 \in 1 .. Len(d) /\ d[1] \in Frame
  BY LenProperties, EmptySeq, ElementOfSeq
<1>1. ASSUME NEW m \in Int, Parts(d, 1, p, n, m)
      PROVE  m <= n
  BY <1>1 DEF Parts
<1>2. d[1].part \in Int
  BY <1>0 DEF Frame
<1>3. IsChunk(d[1], p) => d[1].part = n + 1 /\ n + 1 <= sent
  <2> SUFFICES ASSUME IsChunk(d[1], p) PROVE d[1].part = n + 1 /\ n + 1 <= sent
    OBVIOUS
  <2>1. n < d[1].part /\ d[1].part <= sent /\ Parts(d, 1, p, n, d[1].part - 1)
    BY <1>0 DEF Deliver
  <2>2. d[1].part - 1 <= n
    BY <1>1, <1>2, <2>1
  <2>3. QED
    BY <1>2, <2>1, <2>2
<1>4. QED
  BY <1>0, <1>1, <1>3 DEF Deliver

(* A frame more: a chunk is the next one, a success comes after the last. *)
LEMMA PartsAppend ==
  ASSUME NEW d \in Seq(Frame), NEW e \in Seq(Frame), NEW p, NEW n \in Nat, NEW m \in Int,
         Len(e) = Len(d) + 1, \A i \in 1 .. Len(d) : e[i] = d[i]
  PROVE  /\ \A i \in 1 .. Len(d) + 1 : Parts(d, i, p, n, m) => Parts(e, i, p, n, m)
         /\ Parts(d, Len(d) + 1, p, n, m) => Parts(e, Len(e) + 1, p, n, m)
         /\ Parts(d, Len(d) + 1, p, n, m) /\ IsChunk(e[Len(e)], p) /\ e[Len(e)].part = m + 1
              => Parts(e, Len(e) + 1, p, n, m + 1)
<1>0. Len(d) \in Nat /\ Len(e) \in Nat
  BY LenProperties
<1>1. ASSUME NEW i \in 1 .. Len(d) + 1, Parts(d, i, p, n, m)
      PROVE  Parts(e, i, p, n, m)
  <2>1. \A j \in 1 .. i - 1 : j \in 1 .. Len(d)
    BY <1>0
  <2>2. QED
    BY <1>1, <2>1 DEF Parts
<1>2. ASSUME Parts(d, Len(d) + 1, p, n, m)
      PROVE  Parts(e, Len(e) + 1, p, n, m)
  <2>1. \A j \in 1 .. (Len(d) + 1) - 1 : j \in 1 .. Len(d) /\ j \in 1 .. (Len(e) + 1) - 1
    BY <1>0
  <2>2. QED
    BY <1>2, <2>1 DEF Parts
<1>3. ASSUME Parts(d, Len(d) + 1, p, n, m), IsChunk(e[Len(e)], p), e[Len(e)].part = m + 1
      PROVE  Parts(e, Len(e) + 1, p, n, m + 1)
  <2>1. \A k \in n + 1 .. m + 1 : k \in n + 1 .. m \/ k = m + 1
    OBVIOUS
  <2>2. Len(e) \in 1 .. (Len(e) + 1) - 1
    BY <1>0
  <2>3. Parts(e, Len(e) + 1, p, n, m)
    BY <1>2, <1>3
  <2>4. QED
    BY <1>3, <2>1, <2>2, <2>3 DEF Parts
<1>4. QED
  BY <1>1, <1>2, <1>3

LEMMA DeliverAppend ==
  ASSUME NEW d \in Seq(Frame), NEW f \in Frame, NEW p, NEW n \in Nat, NEW sent \in Nat,
         NEW parts \in Nat, Deliver(d, p, n, sent, parts), n <= sent,
         IsChunk(f, p) => f.part = sent + 1 /\ Parts(d, Len(d) + 1, p, n, sent),
         f.promise = p /\ f.status = "success" => Parts(d, Len(d) + 1, p, n, parts),
         NEW more \in Nat, sent <= more, IsChunk(f, p) => more = sent + 1
  PROVE  Deliver(Append(d, f), p, n, more, parts)
<1> DEFINE a == Append(d, f)
<1>0. PICK e \in Seq(Frame) : /\ e = a /\ Len(e) = Len(d) + 1 /\ Len(d) \in Nat
                              /\ e[Len(e)] = f /\ \A i \in 1 .. Len(d) : e[i] = d[i]
  <2>1. /\ a \in Seq(Frame) /\ Len(a) = Len(d) + 1 /\ a[Len(d) + 1] = f
        /\ \A i \in 1 .. Len(d) : a[i] = d[i]
    BY AppendProperties
  <2>2. Len(d) \in Nat
    BY LenProperties
  <2>3. a[Len(a)] = f
    BY <2>1
  <2> HIDE DEF a
  <2>4. QED
    BY <2>1, <2>2, <2>3
<1> HIDE DEF a
<1>1. \A i \in 1 .. Len(e) : i \in 1 .. Len(d) \/ i = Len(e)
  BY <1>0
<1>2. \A i \in 1 .. Len(d) : i \in 1 .. Len(d) + 1
  BY <1>0
<1>3. ASSUME NEW i \in 1 .. Len(e), IsChunk(e[i], p)
      PROVE  n < e[i].part /\ e[i].part <= more /\ Parts(e, i, p, n, e[i].part - 1)
  <2>0. e[i].part \in Nat /\ e[i].part - 1 \in Int
    BY FramePart
  <2>1. CASE i \in 1 .. Len(d)
    <3>1. n < e[i].part /\ e[i].part <= sent /\ Parts(d, i, p, n, e[i].part - 1)
      BY <1>0, <1>3, <2>1 DEF Deliver
    <3>2. QED
      BY <1>0, <1>2, <2>0, <2>1, <3>1, PartsAppend
  <2>2. CASE i = Len(e)
    <3>1. e[i].part = sent + 1 /\ Parts(d, Len(d) + 1, p, n, sent) /\ more = sent + 1
      BY <1>0, <1>3, <2>2
    <3>2. Len(d) + 1 \in 1 .. Len(d) + 1 /\ i = Len(d) + 1
      BY <1>0, <2>2
    <3>3. Parts(e, i, p, n, sent)
      BY <1>0, <3>1, <3>2, PartsAppend
    <3>4. e[i].part - 1 = sent
      BY <3>1
    <3>5. QED
      BY <3>1, <3>3, <3>4
  <2>3. QED
    BY <1>1, <2>1, <2>2
<1>4. ASSUME NEW i \in 1 .. Len(e), e[i].promise = p, e[i].status = "success"
      PROVE  Parts(e, i, p, n, parts)
  <2>1. i \in 1 .. Len(d) + 1 /\ Parts(d, i, p, n, parts)
    <3>1. CASE i \in 1 .. Len(d)
      BY <1>0, <1>2, <1>4, <3>1 DEF Deliver
    <3>2. CASE i = Len(e)
      BY <1>0, <1>4, <3>2
    <3>3. QED
      BY <1>1, <3>1, <3>2
  <2>2. QED
    BY <1>0, <2>1, PartsAppend
<1>5. ASSUME NEW i \in 1 .. Len(e), NEW j \in 1 .. Len(e),
             IsChunk(e[i], p), IsChunk(e[j], p), i < j
      PROVE  e[i].part < e[j].part
  <2>1. i \in 1 .. Len(d) /\ e[i] = d[i] /\ IsChunk(d[i], p)
    BY <1>0, <1>1, <1>5
  <2>2. CASE j \in 1 .. Len(d)
    BY <1>0, <1>5, <2>1, <2>2 DEF Deliver
  <2>3. CASE j = Len(e)
    <3>1. d[i].part <= sent /\ e[j].part = sent + 1 /\ d[i].part \in Nat
      BY <1>0, <1>5, <2>1, <2>3, FramePart DEF Deliver
    <3>2. QED
      BY <2>1, <3>1
  <2>4. QED
    BY <1>1, <2>2, <2>3
<1>6. Deliver(e, p, n, more, parts)
  BY <1>3, <1>4, <1>5 DEF Deliver
<1>7. QED
  BY <1>0, <1>6 DEF a
-----------------------------------------------------------------------------
(* What is heard of a result *)

(* A request has been heard in order, as far as its handler has sent, and what
   is under way goes on from there.  While the connection it came by lasts,
   nothing is lost. *)
Hearing(p) ==
  /\ heard[p] = [i \in 1 .. Len(heard[p]) |-> i]
  /\ Len(heard[p]) <= handler[p].sent /\ handler[p].sent <= handler[p].parts
  /\ handler[p].route = "twice" => handler[p].parts = 0
  /\ handler[p].at = "again" => handler[p].route = "twice"
  /\ outcome[p] = "resolved" => Len(heard[p]) = handler[p].parts
  /\ p \in queue =>
       /\ Deliver(down, p, Len(heard[p]), handler[p].sent, handler[p].parts)
       /\ Reaches(p) => Parts(down, Len(down) + 1, p, Len(heard[p]), handler[p].sent)

(* Nothing is heard of a request that no handler has taken. *)
Untaken(p) ==
  handler[p].at = "none" =>
    /\ handler[p] = NoHandler /\ heard[p] = <<>> /\ outcome[p] # "resolved"
    /\ \A i \in 1 .. Len(down) : down[i].promise # p

(* A request goes up once. *)
Unsent(p) ==
  outcome[p] \in {"none", "waiting"} =>
    handler[p].at = "none" /\ \A r \in up : r.promise # p

UpOnce ==
  \A r \in up : /\ handler[r.promise].at = "none"
                /\ \A s \in up : r.promise = s.promise => r = s

(* Nothing came by a socket that is not open yet. *)
Earlier(n) == IF socket = "connecting" THEN n < sockets ELSE n <= sockets

BySockets ==
  /\ \A r \in up : Earlier(r.socket)
  /\ \A p \in Promises : Earlier(handler[p].socket)

HeardInv ==
  /\ \A p \in Promises : Hearing(p) /\ Untaken(p) /\ Unsent(p)
  /\ UpOnce /\ BySockets

LEMMA HeardInit == RequestsInit => HeardInv
<1> SUFFICES ASSUME RequestsInit PROVE HeardInv
  OBVIOUS
<1>1. ASSUME NEW p \in Promises
      PROVE  Hearing(p) /\ Untaken(p) /\ Unsent(p)
  <2>1. heard[p] = <<>> /\ Len(heard[p]) = 0 /\ handler[p] = NoHandler
        /\ outcome[p] = "none" /\ queue = {} /\ down = <<>> /\ Len(down) = 0 /\ up = {}
    BY DEF RequestsInit
  <2>2. heard[p] = [i \in 1 .. Len(heard[p]) |-> i]
    BY <2>1
  <2>3. QED
    BY <2>1, <2>2 DEF Hearing, Untaken, Unsent, NoHandler
<1>2. UpOnce
  BY DEF RequestsInit, UpOnce
<1>3. BySockets
  BY DEF RequestsInit, BySockets, Earlier, NoHandler
<1>4. QED
  BY <1>1, <1>2, <1>3 DEF HeardInv

(* What the promise p depends on stays, and it is not heard through a new
   connection. *)
LEMMA HearingStays ==
  ASSUME TypeInv, NEW p \in Promises, Hearing(p), heard'[p] = heard[p], handler'[p] = handler[p],
         outcome'[p] = outcome[p] \/ outcome'[p] # "resolved",
         p \in queue' => p \in queue, down' = down, Reaches(p)' => Reaches(p)
  PROVE  Hearing(p)'
BY DEF Hearing

LEMMA HeardBrowser ==
  ASSUME TypeInv, HeardInv, EntryUntilSettled,
         NEW p \in Promises, SendLater(p) \/ Send(p) \/ SendAgain(p) \/ Timeout(p)
  PROVE  HeardInv'
<1> USE DEF TypeInv, RequestsTypeOK, HeardInv
<1>0. UNCHANGED <<heard, socket, sockets, down, handler>>
  BY DEF SendLater, Send, SendAgain, SendNow, Timeout
<1>1. CASE SendLater(p) \/ Timeout(p)
  <2>1. /\ \A q \in Promises : outcome'[q] = outcome[q] \/ outcome'[q] # "resolved"
        /\ \A q \in Promises : outcome'[q] \in {"none", "waiting"} => outcome[q] \in {"none", "waiting"}
        /\ queue' \subseteq queue /\ up' = up
    BY <1>1 DEF SendLater, Timeout, Settle
  <2>2. \A q \in Promises : Hearing(q)'
    BY <1>0, <2>1, HearingStays DEF Reaches
  <2>3. \A q \in Promises : Untaken(q)' /\ Unsent(q)'
    <3>1. \A q \in Promises : Untaken(q)'
      BY <1>0, <2>1 DEF Untaken
    <3>2. \A q \in Promises : Unsent(q)'
      BY <1>0, <2>1 DEF Unsent
    <3>3. QED
      BY <3>1, <3>2
  <2>4. UpOnce' /\ BySockets'
    BY <1>0, <2>1 DEF UpOnce, BySockets, Earlier
  <2>5. QED
    BY <2>2, <2>3, <2>4
<1>2. CASE Send(p) \/ SendAgain(p)
  <2>1. /\ SendNow(p) /\ outcome[p] \in {"none", "waiting"}
    BY <1>2 DEF Send, SendAgain
  <2>2. /\ outcome' = [outcome EXCEPT ![p] = "open"] /\ queue' = queue \union {p}
        /\ up' = up \/ (socket = "open" /\ up' = up \union {[promise |-> p, socket |-> sockets]})
    BY <2>1 DEF SendNow
  <2>3. /\ handler[p] = NoHandler /\ heard[p] = <<>> /\ \A r \in up : r.promise # p
        /\ \A i \in 1 .. Len(down) : down[i].promise # p
    BY <2>1 DEF Untaken, Unsent
  <2>4. Hearing(p)'
    <3>1. Deliver(down, p, Len(heard[p]), handler[p].sent, handler[p].parts)
      BY <2>3 DEF Deliver, IsChunk
    <3>2. ~Reaches(p)'
      BY <1>0, <2>3 DEF Reaches, NoHandler
    <3>3. QED
      BY <1>0, <2>2, <3>1, <3>2 DEF Hearing
  <2>5. \A q \in Promises : q # p => Hearing(q)'
    BY <1>0, <2>2, HearingStays DEF Reaches
  <2>6. \A q \in Promises : Untaken(q)' /\ Unsent(q)'
    <3>1. \A q \in Promises : Untaken(q)'
      BY <1>0, <2>2 DEF Untaken
    <3>2. \A r \in up' : r \in up \/ r.promise = p
      BY <2>2
    <3>3. \A q \in Promises : outcome'[q] = IF q = p THEN "open" ELSE outcome[q]
      BY <2>2
    <3>4. \A q \in Promises : Unsent(q)'
      BY <1>0, <3>2, <3>3 DEF Unsent
    <3>5. QED
      BY <3>1, <3>4
  <2>7. UpOnce' /\ BySockets'
    BY <1>0, <2>2, <2>3 DEF UpOnce, BySockets, Earlier, NoHandler
  <2>8. QED
    BY <2>4, <2>5, <2>6, <2>7
<1>3. QED
  BY <1>1, <1>2

LEMMA HeardSocket ==
  ASSUME TypeInv, HeardInv, Open \/ Break \/ Closed \/ Reconnect
  PROVE  HeardInv'
<1> USE DEF TypeInv, RequestsTypeOK, HeardInv
<1>0. UNCHANGED <<outcome, queue, heard, handler>>
  BY DEF Open, Break, Closed, Reconnect, browser
<1>1. CASE Open \/ Closed \/ Reconnect
  <2>1. UNCHANGED <<down, up>>
    BY <1>1 DEF Open, Closed, Reconnect
  <2>2. BySockets'
    <3>1. \A n \in 0 .. MaxSockets : Earlier(n) => Earlier(n)'
      BY <1>1, RequestsAssumption DEF Open, Closed, Reconnect, Earlier
    <3>2. /\ \A r \in up : r.socket \in 0 .. MaxSockets
          /\ \A p \in Promises : handler[p].socket \in 0 .. MaxSockets
      BY RequestsAssumption
    <3>3. QED
      BY <1>0, <2>1, <3>1, <3>2 DEF BySockets
  <2>3. \A p \in Promises : ~Reaches(p)'
    <3>1. CASE Open
      BY <1>0, <3>1 DEF Open, Reaches, BySockets, Earlier
    <3>2. CASE Closed \/ Reconnect
      BY <3>2 DEF Closed, Reconnect, Reaches
    <3>3. QED
      BY <1>1, <3>1, <3>2
  <2>4. \A p \in Promises : Hearing(p)'
    BY <1>0, <2>1, <2>3, HearingStays
  <2>5. \A p \in Promises : Untaken(p)' /\ Unsent(p)'
    BY <1>0, <2>1 DEF Untaken, Unsent
  <2>6. QED
    BY <1>0, <2>1, <2>2, <2>4, <2>5 DEF UpOnce
<1>2. CASE Break
  <2>1. PICK n \in 0 .. Len(down) : down' = SubSeq(down, 1, n)
    BY <1>2 DEF Break
  <2>2. down \in Seq(Frame) /\ Len(down) \in Nat /\ n \in Nat /\ n <= Len(down)
    BY LenProperties DEF Frame
  <2>3. down' \in Seq(Frame) /\ Len(down') = n /\ \A i \in 1 .. n : down'[i] = down[i]
    <3>1. \A i \in 1 .. n : down[i] \in Frame
      BY <2>2, ElementOfSeq
    <3>2. /\ SubSeq(down, 1, n) \in Seq(Frame)
          /\ Len(SubSeq(down, 1, n)) = IF 1 <= n THEN n - 1 + 1 ELSE 0
          /\ \A i \in 1 .. n - 1 + 1 : SubSeq(down, 1, n)[i] = down[1 + i - 1]
      BY <2>2, <3>1, SubSeqProperties
    <3>3. QED
      BY <2>1, <2>2, <3>2
  <2>4. up' \subseteq up /\ socket' = "dead" /\ sockets' = sockets /\ socket = "open"
    BY <1>2 DEF Break
  <2>5. ASSUME NEW p \in Promises
        PROVE  Hearing(p)' /\ Untaken(p)' /\ Unsent(p)'
    <3>1. Len(heard[p]) \in Nat /\ handler[p].sent \in Nat /\ handler[p].parts \in Nat
      BY LenProperties, RequestsAssumption
    <3>2. p \in queue => Deliver(down', p, Len(heard[p]), handler[p].sent, handler[p].parts)
      BY <2>2, <2>3, <3>1, DeliverPrefix DEF Hearing
    <3>3. Hearing(p)'
      BY <1>0, <2>4, <3>2 DEF Hearing, Reaches
    <3>4. \A i \in 1 .. Len(down') : i \in 1 .. Len(down) /\ down'[i] = down[i]
      <4> HIDE DEF TypeInv, RequestsTypeOK, HeardInv
      <4>1. \A i \in 1 .. n : i \in 1 .. Len(down)
        BY <2>2
      <4>2. ASSUME NEW i \in 1 .. Len(down')
            PROVE  i \in 1 .. n
        BY <2>3, <4>2
      <4>3. QED
        BY <2>3, <4>1, <4>2
    <3>5. Untaken(p)'
      <4>1. Untaken(p)
        BY <1>0
      <4>2. HIDE DEF TypeInv, RequestsTypeOK, HeardInv
      <4>3. UNCHANGED <<handler, heard, outcome>>
        BY <1>2 DEF Break, browser
      <4>4. QED
        BY <3>4, <4>1, <4>3 DEF Untaken
    <3>6. Unsent(p)'
      BY <1>0, <2>4 DEF Unsent
    <3>7. QED
      BY <3>3, <3>5, <3>6
  <2>6. UpOnce' /\ BySockets'
    BY <1>0, <2>4 DEF UpOnce, BySockets, Earlier
  <2>7. QED
    BY <2>5, <2>6
<1>3. QED
  BY <1>1, <1>2

(* What is still under way once the first frame has been taken. *)
LEMMA HearingNext ==
  ASSUME TypeInv, NEW p \in Promises, p \in queue, Hearing(p),
         down # <<>>, down' \in Seq(Frame), Len(down') = Len(down) - 1,
         \A i \in 1 .. Len(down') : down'[i] = down[i + 1],
         NEW l \in Nat, IF IsChunk(down[1], p) THEN l = down[1].part ELSE l = Len(heard[p])
  PROVE  /\ Deliver(down', p, l, handler[p].sent, handler[p].parts)
         /\ Reaches(p) => Parts(down', Len(down') + 1, p, l, handler[p].sent)
<1>1. PICK n \in Nat, sent \in Nat, parts \in Nat :
        n = Len(heard[p]) /\ sent = handler[p].sent /\ parts = handler[p].parts
  <2>1. handler[p].sent \in 0 .. MaxParts /\ handler[p].parts \in 0 .. MaxParts
    BY DEF TypeInv, RequestsTypeOK
  <2>2. heard[p] \in Seq(1 .. MaxParts)
    BY DEF TypeInv, RequestsTypeOK
  <2>3. QED
    BY <2>1, <2>2, LenProperties, RequestsAssumption
<1>2. down \in Seq(Frame) /\ Len(down) \in Nat /\ Len(down') \in Nat /\ 1 \in 1 .. Len(down)
  BY LenProperties, EmptySeq DEF TypeInv, RequestsTypeOK, Frame
<1>3. Deliver(down, p, n, sent, parts) /\ (Reaches(p) => Parts(down, Len(down) + 1, p, n, sent))
  BY <1>1 DEF Hearing
<1>4. Deliver(down', p, l, sent, parts)
  BY <1>1, <1>2, <1>3, DeliverTail
<1>5. l >= n /\ (IsChunk(down[1], p) => down[1].part <= l)
  <2>1. IsChunk(down[1], p) => n < down[1].part
    BY <1>2, <1>3 DEF Deliver
  <2>2. QED
    BY <1>1, <2>1
<1>6. ASSUME Reaches(p)
      PROVE  Parts(down', Len(down') + 1, p, l, sent)
  <2>1. PICK i \in 1 .. Len(down') + 1 : i = Len(down') + 1 /\ i + 1 = Len(down) + 1
    BY <1>2
  <2>2. Parts(down, i + 1, p, n, sent)
    BY <1>3, <1>6, <2>1
  <2>3. PICK d \in Seq(Frame), e \in Seq(Frame) : d = down /\ e = down'
    BY <1>2
  <2>4. Parts(e, i, p, l, sent)
    <3>1. /\ d # <<>> /\ Len(e) = Len(d) - 1 /\ \A j \in 1 .. Len(e) : e[j] = d[j + 1]
          /\ i \in 1 .. Len(e) + 1 /\ Parts(d, i + 1, p, n, sent)
          /\ (IsChunk(d[1], p) => d[1].part <= l) /\ l >= n /\ sent \in Int
      BY <1>5, <2>1, <2>2, <2>3
    <3>2. QED
      BY <3>1, PartsTail, Zenon
  <2>5. QED
    BY <2>1, <2>3, <2>4
<1>7. QED
  BY <1>1, <1>4, <1>6

LEMMA HeardMessage ==
  ASSUME TypeInv, HeardInv, EntryUntilSettled, Message
  PROVE  HeardInv'
<1>0. down \in Seq(Frame) /\ UNCHANGED <<socket, sockets, up, handler>>
  BY DEF TypeInv, RequestsTypeOK, Frame, Message
<1>1. /\ down # <<>> /\ down' \in Seq(Frame) /\ Len(down') = Len(down) - 1
      /\ \A i \in 1 .. Len(down') : down'[i] = down[i + 1]
      /\ Head(down) = down[1] /\ Len(down) \in Nat /\ 1 \in 1 .. Len(down)
  <2>1. down # <<>> /\ down' = Tail(down)
    BY DEF Message
  <2>2. Len(down) \in Nat /\ 1 \in 1 .. Len(down)
    BY <1>0, <2>1, LenProperties, EmptySeq
  <2>3. QED
    BY <1>0, <2>1, <2>2, HeadTailProperties
<1>2. PICK frame \in Frame, p \in Promises : frame = down[1] /\ frame = Head(down) /\ p = frame.promise
  <2>1. down[1] \in Frame
    BY <1>0, <1>1, ElementOfSeq
  <2>2. QED
    BY <1>1, <2>1 DEF Frame
<1>3. \/ p \in queue /\ OnChunk(p, frame)
      \/ p \in queue /\ OnAnswer(p, frame.status)
      \/ p \notin queue /\ UNCHANGED browser
  BY <1>2 DEF Message
<1>4. /\ \A q \in Promises : q # p =>
           heard'[q] = heard[q] /\ outcome'[q] = outcome[q] /\ (q \in queue' <=> q \in queue)
      /\ outcome'[p] \in {"none", "waiting"} => outcome'[p] = outcome[p]
  BY <1>3 DEF OnChunk, OnAnswer, Settle, browser, TypeInv, RequestsTypeOK
<1>5. handler[p].at # "none"
  BY <1>1, <1>2 DEF HeardInv, Untaken
<1>6. ASSUME NEW q \in Promises
      PROVE  Untaken(q)' /\ Unsent(q)'
  <2>1. Untaken(q) /\ Unsent(q)
    BY DEF HeardInv
  <2>2. \A i \in 1 .. Len(down') : i + 1 \in 1 .. Len(down)
    BY <1>1
  <2>3. Untaken(q)'
    BY <1>0, <1>1, <1>4, <1>5, <2>1, <2>2 DEF Untaken
  <2>4. Unsent(q)'
    BY <1>0, <1>4, <2>1 DEF Unsent
  <2>5. QED
    BY <2>3, <2>4
<1>7. ASSUME NEW q \in Promises, q # p
      PROVE  Hearing(q)'
  <2>1. Hearing(q) /\ Len(heard[q]) \in Nat
    BY LenProperties DEF HeardInv, TypeInv, RequestsTypeOK
  <2>2. ~IsChunk(down[1], q)
    BY <1>2, <1>7 DEF IsChunk
  <2>3. q \in queue =>
          /\ Deliver(down', q, Len(heard[q]), handler[q].sent, handler[q].parts)
          /\ Reaches(q) => Parts(down', Len(down') + 1, q, Len(heard[q]), handler[q].sent)
    BY <1>1, <2>1, <2>2, HearingNext
  <2>4. QED
    BY <1>0, <1>4, <1>7, <2>1, <2>3 DEF Hearing, Reaches
<1>8. PICK n \in Nat, sent \in Nat, parts \in Nat :
        n = Len(heard[p]) /\ sent = handler[p].sent /\ parts = handler[p].parts
  <2>1. handler[p].sent \in 0 .. MaxParts /\ handler[p].parts \in 0 .. MaxParts
    BY DEF TypeInv, RequestsTypeOK
  <2>2. heard[p] \in Seq(1 .. MaxParts)
    BY DEF TypeInv, RequestsTypeOK
  <2>3. QED
    BY <2>1, <2>2, LenProperties, RequestsAssumption
<1>9. Hearing(p) /\ heard[p] = [i \in 1 .. n |-> i] /\ n <= sent /\ sent <= parts
  BY <1>8 DEF HeardInv, Hearing
<1>10. p \in queue => /\ IsChunk(frame, p) => frame.part = n + 1 /\ n + 1 <= sent
                      /\ frame.status = "success" => parts <= n
  <2>1. p \in queue => Deliver(down, p, n, sent, parts)
    BY <1>8, <1>9 DEF Hearing
  <2>2. ASSUME p \in queue
        PROVE  /\ IsChunk(down[1], p) => down[1].part = n + 1 /\ n + 1 <= sent
               /\ down[1].promise = p /\ down[1].status = "success" => parts <= n
    <3>1. Deliver(down, p, n, sent, parts)
      BY <2>1, <2>2
    <3>2. down \in Seq(Frame) /\ down # <<>>
      BY <1>0, <1>1
    <3> HIDE DEF IsChunk, TypeInv, HeardInv
    <3>3. QED
      BY <3>1, <3>2, DeliverHead
  <2>3. frame = down[1] /\ p = frame.promise
    BY <1>2
  <2>4. QED
    BY <2>2, <2>3
<1>11. Hearing(p)'
  <2>1. CASE p \in queue /\ OnChunk(p, frame)
    <3>1. IsChunk(frame, p) /\ outcome[p] # "resolved" /\ UNCHANGED <<outcome, queue>>
      BY <1>2, <2>1 DEF OnChunk, IsChunk, EntryUntilSettled
    <3>2. frame.part = n + 1 /\ n + 1 <= sent
      BY <1>10, <2>1, <3>1
    <3>3. PICK new \in Seq(Nat) : /\ new = heard'[p] /\ Len(new) = n + 1
                                  /\ new = [i \in 1 .. n + 1 |-> i]
      <4>1. heard[p] \in Seq(Nat)
        BY <1>9
      <4>2. heard'[p] = Append(heard[p], n + 1)
        BY <2>1, <3>2 DEF OnChunk, TypeInv, RequestsTypeOK
      <4>3. [i \in 1 .. n + 1 |-> i] \in Seq(Nat) /\ Len([i \in 1 .. n + 1 |-> i]) = n + 1
        OBVIOUS
      <4>4. Append(heard[p], n + 1) = [i \in 1 .. n + 1 |-> i]
        BY <1>8, <1>9, <4>1, <4>3
      <4>5. QED
        BY <4>2, <4>3, <4>4
    <3>4. /\ Deliver(down', p, n + 1, sent, parts)
          /\ Reaches(p) => Parts(down', Len(down') + 1, p, n + 1, sent)
      <4>1. PICK l \in Nat : l = n + 1
        OBVIOUS
      <4>2. IsChunk(down[1], p) /\ l = down[1].part
        BY <1>2, <3>1, <3>2, <4>1
      <4>3. QED
        BY <1>1, <1>8, <1>9, <2>1, <4>1, <4>2, HearingNext
    <3>5. QED
      BY <1>0, <1>8, <1>9, <3>1, <3>2, <3>3, <3>4 DEF Hearing, Reaches
  <2>2. CASE p \in queue /\ OnAnswer(p, frame.status)
    <3>1. p \notin queue' /\ UNCHANGED heard
      BY <2>2 DEF OnAnswer
    <3>2. outcome'[p] = "resolved" => outcome[p] = "resolved" \/ frame.status = "success"
      BY <2>2 DEF OnAnswer, Settle, TypeInv, RequestsTypeOK
    <3>3. frame.status = "success" => n = parts
      BY <1>9, <1>10, <2>2
    <3>4. QED
      BY <1>0, <1>8, <1>9, <3>1, <3>2, <3>3 DEF Hearing
  <2>3. CASE p \notin queue /\ UNCHANGED browser
    BY <1>0, <1>9, <2>3 DEF Hearing, browser
  <2>4. QED
    BY <1>3, <2>1, <2>2, <2>3
<1>12. UpOnce' /\ BySockets'
  BY <1>0 DEF HeardInv, UpOnce, BySockets, Earlier
<1>13. QED
  BY <1>6, <1>7, <1>11, <1>12 DEF HeardInv

(* A frame more under way. *)
LEMMA HearingAppend ==
  ASSUME TypeInv, NEW p \in Promises, Hearing(p), p \in queue, NEW f \in Frame,
         down' = Append(down, f), NEW more \in Nat,
         IF IsChunk(f, p) THEN f.part = handler[p].sent + 1 /\ more = f.part
                          ELSE more = handler[p].sent,
         f.promise = p => Reaches(p),
         f.promise = p /\ f.status = "success" => handler[p].sent = handler[p].parts
  PROVE  /\ Deliver(down', p, Len(heard[p]), more, handler[p].parts)
         /\ Reaches(p) => Parts(down', Len(down') + 1, p, Len(heard[p]), more)
<1>1. PICK n \in Nat, sent \in Nat, parts \in Nat :
        n = Len(heard[p]) /\ sent = handler[p].sent /\ parts = handler[p].parts
  <2>1. handler[p].sent \in 0 .. MaxParts /\ handler[p].parts \in 0 .. MaxParts
    BY DEF TypeInv, RequestsTypeOK
  <2>2. heard[p] \in Seq(1 .. MaxParts)
    BY DEF TypeInv, RequestsTypeOK
  <2>3. QED
    BY <2>1, <2>2, LenProperties, RequestsAssumption
<1>2. PICK d \in Seq(Frame) : d = down
  BY DEF TypeInv, RequestsTypeOK, Frame
<1>3. /\ Deliver(d, p, n, sent, parts) /\ n <= sent
      /\ Reaches(p) => Parts(d, Len(d) + 1, p, n, sent)
  BY <1>1, <1>2 DEF Hearing
<1>4. PICK e \in Seq(Frame) : /\ e = down' /\ e = Append(d, f)
                              /\ Len(e) = Len(d) + 1 /\ Len(d) \in Nat /\ e[Len(e)] = f
                              /\ \A i \in 1 .. Len(d) : e[i] = d[i]
  <2>1. Append(d, f) \in Seq(Frame) /\ Len(d) \in Nat
    BY AppendProperties, LenProperties
  <2>2. PICK e \in Seq(Frame) : e = Append(d, f)
    BY <2>1
  <2>3. Len(e) = Len(d) + 1 /\ e[Len(d) + 1] = f /\ \A i \in 1 .. Len(d) : e[i] = d[i]
    BY <2>2, AppendProperties
  <2>4. e[Len(e)] = f
    BY <2>3
  <2>5. QED
    BY <1>2, <2>1, <2>2, <2>3, <2>4
<1>5. /\ IsChunk(f, p) => f.part = sent + 1 /\ more = sent + 1 /\ Reaches(p)
      /\ ~IsChunk(f, p) => more = sent
      /\ f.promise = p /\ f.status = "success" => sent = parts /\ Reaches(p)
  BY <1>1 DEF IsChunk
<1>6. Deliver(e, p, n, more, parts)
  <2>1. /\ IsChunk(f, p) => f.part = sent + 1 /\ Parts(d, Len(d) + 1, p, n, sent)
        /\ f.promise = p /\ f.status = "success" => Parts(d, Len(d) + 1, p, n, parts)
    BY <1>3, <1>5
  <2>2. sent <= more
    BY <1>5
  <2>3. Deliver(Append(d, f), p, n, more, parts)
    BY <1>3, <1>5, <2>1, <2>2, DeliverAppend
  <2>4. QED
    BY <1>4, <2>3
<1>7. ASSUME Reaches(p)
      PROVE  Parts(e, Len(e) + 1, p, n, more)
  <2>1. sent \in Int /\ Parts(d, Len(d) + 1, p, n, sent)
    BY <1>3, <1>7
  <2>2. CASE IsChunk(f, p)
    <3>1. IsChunk(e[Len(e)], p) /\ e[Len(e)].part = sent + 1 /\ more = sent + 1
      BY <1>4, <1>5, <2>2
    <3>2. Parts(e, Len(e) + 1, p, n, sent + 1)
      BY <1>4, <2>1, <3>1, PartsAppend
    <3>3. QED
      BY <3>1, <3>2
  <2>3. CASE ~IsChunk(f, p)
    <3>1. Parts(e, Len(e) + 1, p, n, sent)
      BY <1>4, <2>1, PartsAppend
    <3>2. QED
      BY <1>5, <2>3, <3>1
  <2>4. QED
    BY <2>2, <2>3
<1>8. QED
  BY <1>1, <1>4, <1>6, <1>7

(* A handler goes on and perhaps writes a frame: the other requests. *)
LEMMA HeardOthers ==
  ASSUME TypeInv, HeardInv, NEW p \in Promises, NEW h \in HandlerRecord, NEW f \in Frame,
         handler' = [handler EXCEPT ![p] = h], handler[p].at # "none", h.at # "none",
         h.socket = 0 \/ h.socket = handler[p].socket,
         UNCHANGED <<browser, socket, sockets, up>>,
         f.promise = p, down' = down \/ down' = Append(down, f), Hearing(p)'
  PROVE  HeardInv'
<1>0. down \in Seq(Frame) /\ \A q \in Promises : handler'[q] = IF q = p THEN h ELSE handler[q]
  BY DEF TypeInv, RequestsTypeOK, Frame
<1>1. UNCHANGED <<outcome, queue, heard>>
  BY DEF browser
<1>2. ASSUME NEW q \in Promises, q # p
      PROVE  Hearing(q)'
  <2>1. Hearing(q) /\ handler'[q] = handler[q] /\ handler[q].sent \in Nat
    BY <1>0, <1>2, RequestsAssumption DEF HeardInv, TypeInv, RequestsTypeOK
  <2>2. CASE down' = down
    BY <1>1, <2>1, <2>2, HearingStays DEF Reaches
  <2>3. CASE down' = Append(down, f)
    <3>1. ~IsChunk(f, q) /\ f.promise # q
      BY <1>2 DEF IsChunk
    <3>2. q \in queue =>
            /\ Deliver(down', q, Len(heard[q]), handler[q].sent, handler[q].parts)
            /\ Reaches(q) => Parts(down', Len(down') + 1, q, Len(heard[q]), handler[q].sent)
      BY <2>1, <2>3, <3>1, HearingAppend
    <3>3. QED
      BY <1>1, <2>1, <3>2 DEF Hearing, Reaches
  <2>4. QED
    BY <2>2, <2>3
<1>3. ASSUME NEW q \in Promises
      PROVE  Untaken(q)' /\ Unsent(q)'
  <2>1. Untaken(q) /\ Unsent(q)
    BY DEF HeardInv
  <2>2. q # p => \A i \in 1 .. Len(down') :
          down'[i].promise = q => \E j \in 1 .. Len(down) : down[j].promise = q
    <3>1. CASE down' = down
      BY <3>1
    <3>2. CASE down' = Append(down, f)
      <4>1. /\ Len(down') = Len(down) + 1 /\ Len(down) \in Nat /\ down'[Len(down) + 1] = f
            /\ \A i \in 1 .. Len(down) : down'[i] = down[i]
        BY <1>0, <3>2, AppendProperties, LenProperties
      <4>2. QED
        BY <4>1
    <3>3. QED
      BY <3>1, <3>2
  <2>3. Untaken(q)'
    BY <1>0, <1>1, <2>1, <2>2 DEF Untaken
  <2>4. Unsent(q)'
    BY <1>0, <1>1, <2>1 DEF Unsent
  <2>5. QED
    BY <2>3, <2>4
<1>4. UpOnce'
  <2>1. \A r \in up : r.promise \in Promises
    BY DEF TypeInv, RequestsTypeOK
  <2>2. QED
    BY <1>0, <2>1 DEF HeardInv, UpOnce
<1>5. BySockets'
  <2>1. Earlier(0)
    BY DEF Earlier, TypeInv, RequestsTypeOK
  <2>2. Earlier(handler[p].socket)
    BY DEF HeardInv, BySockets
  <2>3. QED
    BY <1>0, <2>1, <2>2 DEF HeardInv, BySockets, Earlier
<1>6. QED
  BY <1>2, <1>3, <1>4, <1>5 DEF HeardInv

LEMMA HeardRoute ==
  ASSUME TypeInv, HeardInv, NEW r \in up, RouteMessage(r)
  PROVE  HeardInv'
<1>1. PICK p \in Promises : p = r.promise
  BY DEF TypeInv, RequestsTypeOK
<1>2. PICK route \in Routes, parts \in 0 .. MaxParts :
        /\ route = "twice" => parts = 0
        /\ handler' = [handler EXCEPT ![p] = [NoHandler EXCEPT !.at = "running", !.route = route,
                                                !.parts = parts, !.socket = r.socket]]
  BY <1>1 DEF RouteMessage
<1>3. PICK h \in HandlerRecord : /\ handler' = [handler EXCEPT ![p] = h]
                             /\ h.at = "running" /\ h.route = route /\ h.parts = parts
                             /\ h.sent = 0 /\ h.socket = r.socket
  <2>1. r.socket \in 0 .. MaxSockets
    BY RequestsAssumption DEF TypeInv, RequestsTypeOK
  <2>2. [NoHandler EXCEPT !.at = "running", !.route = route, !.parts = parts, !.socket = r.socket]
          \in HandlerRecord
    BY <2>1, HandlerValues DEF HandlerRecord
  <2>3. QED
    BY <1>2, <2>2 DEF NoHandler
<1>4. \A q \in Promises : handler'[q] = IF q = p THEN h ELSE handler[q]
  BY <1>3 DEF TypeInv, RequestsTypeOK
<1>5. UNCHANGED <<outcome, queue, heard, socket, sockets, down>> /\ up' = up \ {r}
  BY DEF RouteMessage, browser
<1>6. /\ heard[p] = <<>> /\ outcome[p] \notin {"none", "waiting", "resolved"}
      /\ \A i \in 1 .. Len(down) : down[i].promise # p
  BY <1>1 DEF HeardInv, UpOnce, Untaken, Unsent
<1>7. Hearing(p)'
  <2>1. Len(heard[p]) = 0 /\ heard[p] = [i \in 1 .. 0 |-> i] /\ parts \in Nat
    BY <1>6, RequestsAssumption
  <2>2. Deliver(down, p, 0, 0, parts)
    BY <1>6 DEF Deliver, IsChunk
  <2>3. Parts(down, Len(down) + 1, p, 0, 0)
    BY DEF Parts
  <2>4. /\ handler'[p] = h /\ heard'[p] = heard[p] /\ down' = down
        /\ h.at # "again" /\ outcome'[p] # "resolved" /\ (h.route = "twice" => h.parts = 0)
    BY <1>2, <1>3, <1>4, <1>5, <1>6
  <2>5. /\ Deliver(down', p, Len(heard'[p]), h.sent, h.parts)
        /\ Parts(down', Len(down') + 1, p, Len(heard'[p]), h.sent)
    BY <1>3, <2>1, <2>2, <2>3, <2>4
  <2>6. /\ heard'[p] = [i \in 1 .. Len(heard'[p]) |-> i]
        /\ Len(heard'[p]) <= h.sent /\ h.sent <= h.parts
    BY <1>3, <2>1, <2>4
  <2>7. QED
    BY <2>4, <2>5, <2>6 DEF Hearing
<1>8. ASSUME NEW q \in Promises, q # p
      PROVE  Hearing(q)'
  <2>1. Hearing(q) /\ handler'[q] = handler[q]
    BY <1>4, <1>8 DEF HeardInv
  <2>2. Reaches(q)' => Reaches(q)
    BY <1>5, <2>1 DEF Reaches
  <2>3. QED
    BY <1>5, <2>1, <2>2, HearingStays
<1>9. ASSUME NEW q \in Promises
      PROVE  Untaken(q)' /\ Unsent(q)'
  <2>1. Untaken(q) /\ Unsent(q)
    BY DEF HeardInv
  <2>2. Untaken(q)'
    BY <1>3, <1>4, <1>5, <2>1 DEF Untaken
  <2>3. Unsent(q)'
    BY <1>4, <1>5, <1>6, <2>1 DEF Unsent
  <2>4. QED
    BY <2>2, <2>3
<1>10. UpOnce'
  <2>1. \A s \in up' : s \in up /\ s.promise # p /\ s.promise \in Promises
    BY <1>1, <1>5 DEF HeardInv, UpOnce, TypeInv, RequestsTypeOK
  <2>2. QED
    BY <1>4, <2>1 DEF HeardInv, UpOnce
<1>11. BySockets'
  <2>1. Earlier(h.socket)
    BY <1>3 DEF HeardInv, BySockets
  <2>2. QED
    BY <1>4, <1>5, <2>1 DEF HeardInv, BySockets, Earlier
<1>12. QED
  BY <1>7, <1>8, <1>9, <1>10, <1>11 DEF HeardInv

(* Where a handler stands. *)
LEMMA HandlerFacts ==
  ASSUME TypeInv, HeardInv, NEW p \in Promises
  PROVE  /\ handler[p] \in HandlerRecord /\ handler[p].sent \in Nat /\ handler[p].parts \in Nat
         /\ handler[p].socket \in Nat
         /\ Len(heard[p]) \in Nat /\ Hearing(p)
BY LenProperties, RequestsAssumption DEF TypeInv, RequestsTypeOK, HandlerRecord, HeardInv

LEMMA HeardTransmit ==
  ASSUME TypeInv, HeardInv, NEW p \in Promises, TransmitChunk(p)
  PROVE  HeardInv'
<1>0. UNCHANGED <<browser, outcome, queue, heard, socket, sockets, up>>
  BY DEF TransmitChunk, browser
<1>1. /\ Hearing(p) /\ handler[p] \in HandlerRecord /\ handler[p].at = "running"
      /\ handler[p].sent < handler[p].parts
  BY HandlerFacts DEF TransmitChunk
<1>2. PICK n \in Nat, sent \in Nat, parts \in Nat :
        n = Len(heard[p]) /\ sent = handler[p].sent /\ parts = handler[p].parts
  BY HandlerFacts
<1>3. PICK part \in 0 .. MaxParts : part = sent + 1
  BY <1>1, <1>2, RequestsAssumption DEF HandlerRecord
<1>4. PICK f \in Frame : f = [promise |-> p, status |-> "chunk", part |-> part]
  BY DEF Frame
<1>5. CASE /\ handler' = [handler EXCEPT ![p].sent = @ + 1]
           /\ Transmit(p, "chunk", handler[p].sent + 1)
  <2>1. PICK h \in HandlerRecord : /\ h = [handler[p] EXCEPT !.sent = part]
                               /\ h.sent = sent + 1 /\ h.parts = parts /\ h.at = "running"
                               /\ h.socket = handler[p].socket /\ h.route = handler[p].route
    <3>1. [handler[p] EXCEPT !.sent = part] \in HandlerRecord
      BY <1>1 DEF HandlerRecord
    <3>2. PICK h \in HandlerRecord : h = [handler[p] EXCEPT !.sent = part]
      BY <3>1
    <3>3. /\ h.sent = part /\ h.parts = handler[p].parts /\ h.at = handler[p].at
          /\ h.socket = handler[p].socket /\ h.route = handler[p].route
      BY <1>1, <3>2 DEF HandlerRecord
    <3>4. QED
      BY <1>1, <1>2, <1>3, <3>2, <3>3
  <2>2. handler' = [handler EXCEPT ![p] = h] /\ handler'[p] = h
    BY <1>2, <1>3, <1>5, <2>1 DEF TypeInv, RequestsTypeOK
  <2>3. Reaches(p)' <=> Reaches(p)
    BY <1>0, <2>1, <2>2 DEF Reaches
  <2>4. ASSUME p \in queue
        PROVE  /\ Deliver(down', p, n, part, parts)
               /\ Reaches(p) => Parts(down', Len(down') + 1, p, n, part)
    <3>1. CASE Reaches(p)
      <4>1. down' = Append(down, f)
        BY <1>2, <1>3, <1>4, <1>5, <3>1 DEF Transmit
      <4>2. IsChunk(f, p) /\ f.part = part /\ f.status # "success" /\ part \in Nat
        BY <1>3, <1>4 DEF IsChunk
      <4>3. QED
        BY <1>1, <1>2, <1>3, <2>4, <3>1, <4>1, <4>2, HearingAppend
    <3>2. CASE ~Reaches(p)
      <4>1. down' = down /\ Deliver(down, p, n, sent, parts)
        BY <1>1, <1>2, <1>5, <2>4, <3>2 DEF Transmit, Hearing
      <4>2. \A i \in 1 .. Len(down) : down[i].part \in Nat
        BY FramePart DEF TypeInv, RequestsTypeOK, Frame
      <4>3. \A i \in 1 .. Len(down) : down[i].part <= sent => down[i].part <= part
        BY <1>3, <4>2
      <4>4. QED
        BY <3>2, <4>1, <4>3 DEF Deliver
    <3>3. QED
      BY <3>1, <3>2
  <2>5. Hearing(p)'
    <3>1. n <= sent /\ n <= part /\ part <= parts /\ part # 0
      BY <1>1, <1>2, <1>3 DEF Hearing
    <3>2. handler[p].route # "twice"
      BY <1>1, <1>2 DEF Hearing
    <3>3. QED
      BY <1>0, <1>1, <1>2, <1>3, <2>1, <2>2, <2>3, <2>4, <3>1, <3>2 DEF Hearing
  <2>6. f.promise = p /\ (down' = down \/ down' = Append(down, f))
    BY <1>2, <1>3, <1>4, <1>5 DEF Transmit
  <2>7. QED
    BY <1>0, <1>1, <2>1, <2>2, <2>5, <2>6, HeardOthers
<1>6. CASE /\ ~Reaches(p) /\ down' = down
           /\ handler' = [handler EXCEPT ![p].at = "failed", ![p].socket = 0]
  <2>1. PICK h \in HandlerRecord : /\ h = [handler[p] EXCEPT !.at = "failed", !.socket = 0]
                               /\ h.sent = sent /\ h.parts = parts /\ h.at = "failed"
                               /\ h.socket = 0 /\ h.route = handler[p].route
    <3>1. 0 \in 0 .. MaxSockets
      BY RequestsAssumption
    <3>2. [handler[p] EXCEPT !.at = "failed", !.socket = 0] \in HandlerRecord
      BY <1>1, <3>1 DEF HandlerRecord
    <3>3. QED
      BY <1>1, <1>2, <3>2 DEF HandlerRecord
  <2>2. handler' = [handler EXCEPT ![p] = h] /\ handler'[p] = h
    BY <1>6, <2>1 DEF TypeInv, RequestsTypeOK
  <2>3. ~Reaches(p)'
    BY <1>0, <2>1, <2>2 DEF Reaches, TypeInv, RequestsTypeOK
  <2>4. Hearing(p)'
    BY <1>0, <1>1, <1>2, <1>6, <2>1, <2>2, <2>3 DEF Hearing
  <2>5. f.promise = p
    BY <1>4
  <2>6. QED
    BY <1>0, <1>1, <1>6, <2>1, <2>2, <2>4, <2>5, HeardOthers
<1>7. QED
  BY <1>5, <1>6 DEF TransmitChunk

LEMMA HeardAnswer ==
  ASSUME TypeInv, HeardInv, NEW p \in Promises, Answer(p)
  PROVE  HeardInv'
<1>0. UNCHANGED <<browser, outcome, queue, heard, socket, sockets, up>>
  BY DEF Answer, browser
<1>1. Hearing(p) /\ handler[p] \in HandlerRecord /\ handler[p].at \in {"running", "again"}
  BY HandlerFacts DEF Answer
<1>2. PICK n \in Nat, sent \in Nat, parts \in Nat :
        n = Len(heard[p]) /\ sent = handler[p].sent /\ parts = handler[p].parts
  BY HandlerFacts
<1>3. n <= sent /\ sent <= parts /\ (handler[p].at = "again" => parts = 0)
  BY <1>1, <1>2 DEF Hearing
<1>4. PICK status \in {"success", "failure"} :
        Transmit(p, status, handler[p].sent) /\ (status = "success" => sent = parts)
  <2>1. PICK status \in Answers(handler[p]) : Transmit(p, status, handler[p].sent)
    BY DEF Answer
  <2>2. status \in {"success", "failure"}
    BY DEF Answers
  <2>3. CASE handler[p].at = "again"
    BY <1>3, <2>1, <2>2, <2>3
  <2>4. CASE handler[p].at = "running"
    BY <1>2, <2>1, <2>2, <2>4 DEF Answers
  <2>5. QED
    BY <1>1, <2>3, <2>4
<1>5. PICK f \in Frame : f = [promise |-> p, status |-> status, part |-> handler[p].sent]
  BY <1>1 DEF Frame, HandlerRecord
<1>6. PICK at \in {"again", "done"} :
        at = AfterAnswer(handler[p]) /\ (at = "again" => handler[p].route = "twice")
  BY DEF AfterAnswer
<1>7. PICK h \in HandlerRecord :
        /\ handler' = [handler EXCEPT ![p] = h]
        /\ h.at = at /\ h.route = handler[p].route /\ h.parts = parts /\ h.sent = sent
        /\ h.socket = 0 \/ h.socket = handler[p].socket
  <2>1. PICK s \in 0 .. MaxSockets : s = IF at = "done" THEN 0 ELSE handler[p].socket
    BY <1>1, RequestsAssumption DEF HandlerRecord
  <2>2. handler' = [handler EXCEPT ![p] = [handler[p] EXCEPT !.at = at, !.socket = s]]
    <3>1. handler' = [handler EXCEPT ![p].at = at, ![p].socket = s]
      BY <1>6, <2>1 DEF Answer
    <3>2. QED
      BY <3>1
  <2>3. PICK h \in HandlerRecord : h = [handler[p] EXCEPT !.at = at, !.socket = s]
    BY <1>1 DEF HandlerRecord
  <2>4. QED
    BY <1>1, <1>2, <2>1, <2>2, <2>3 DEF HandlerRecord
<1>8. handler'[p] = h
  BY <1>7 DEF TypeInv, RequestsTypeOK
<1>9. Reaches(p)' => Reaches(p)
  BY <1>0, <1>7, <1>8 DEF Reaches, TypeInv, RequestsTypeOK
<1>10. f.promise = p /\ ~IsChunk(f, p) /\ (f.status = "success" => sent = parts)
  BY <1>4, <1>5 DEF IsChunk
<1>11. ASSUME p \in queue
       PROVE  /\ Deliver(down', p, n, sent, parts)
              /\ Reaches(p) => Parts(down', Len(down') + 1, p, n, sent)
  <2>1. CASE Reaches(p)
    <3>1. down' = Append(down, f)
      BY <1>4, <1>5, <2>1 DEF Transmit
    <3>2. QED
      BY <1>1, <1>2, <1>10, <1>11, <2>1, <3>1, HearingAppend
  <2>2. CASE ~Reaches(p)
    BY <1>1, <1>2, <1>4, <1>11, <2>2 DEF Transmit, Hearing
  <2>3. QED
    BY <2>1, <2>2
<1>12. Hearing(p)'
  BY <1>0, <1>1, <1>2, <1>6, <1>7, <1>8, <1>9, <1>11 DEF Hearing
<1>13. down' = down \/ down' = Append(down, f)
  BY <1>4, <1>5 DEF Transmit
<1>14. QED
  BY <1>0, <1>1, <1>7, <1>10, <1>12, <1>13, HeardOthers

LEMMA HeardStep ==
  TypeInv /\ EntryUntilSettled /\ HeardInv /\ [RequestsNext]_requestsVars => HeardInv'
<1> SUFFICES ASSUME TypeInv, EntryUntilSettled, HeardInv, [RequestsNext]_requestsVars
             PROVE  HeardInv'
  OBVIOUS
<1>1. CASE UNCHANGED requestsVars
  BY <1>1 DEF requestsVars, HeardInv, Hearing, Untaken, Unsent, UpOnce, BySockets, Earlier, Reaches
<1>2. CASE RequestsNext
  BY <1>2, HeardBrowser, HeardMessage, HeardSocket, HeardRoute, HeardTransmit, HeardAnswer
  DEF RequestsNext
<1>3. QED
  BY <1>1, <1>2

(* A streamed result resolves only when all of it was heard, in order. *)
THEOREM RequestsWholeResult == RequestsSpec => []WholeResult
<1>1. TypeInv /\ HeardInv => WholeResult
  BY DEF HeardInv, Hearing, WholeResult
<1>2. RequestsInit => EntryUntilSettled
  BY DEF RequestsInit, EntryUntilSettled, Settled
<1>3. QED
  BY <1>1, <1>2, TypeInit, TypeStep, EntryStep, HeardInit, HeardStep, PTL DEF RequestsSpec

LEMMA PromisedStep ==
  TypeInv /\ EntryUntilSettled /\ HeardInv /\ [RequestsNext]_requestsVars => [P!Next]_(P!vars)
<1> SUFFICES ASSUME TypeInv, EntryUntilSettled, HeardInv, [RequestsNext]_requestsVars
             PROVE  [P!Next]_(P!vars)
  OBVIOUS
<1>1. CASE UNCHANGED <<outcome, heard>>
  BY <1>1 DEF P!vars
<1>2. ASSUME NEW p \in Promises, SendLater(p) \/ Send(p) \/ SendAgain(p)
      PROVE  P!Next
  <2>1. P!Wait(p) \/ P!Send(p)
    BY <1>2 DEF SendLater, Send, SendAgain, SendNow, P!Wait, P!Send, P!Move
  <2>2. QED
    BY <2>1 DEF P!Next
<1>3. ASSUME NEW p \in Promises, p \in queue, UNCHANGED heard,
             NEW how \in {"resolved", "rejected"}, Settle(p, how)
      PROVE  P!Next
  <2>1. outcome[p] = "open" /\ outcome' = [outcome EXCEPT ![p] = how]
    BY <1>3 DEF EntryUntilSettled, Settle, TypeInv, RequestsTypeOK
  <2>2. P!Settle(p)
    BY <1>3, <2>1 DEF P!Settle, P!Resolve, P!Reject, P!Move
  <2>3. QED
    BY <2>2 DEF P!Next
<1>4. ASSUME NEW p \in Promises, Timeout(p)
      PROVE  P!Next
  BY <1>3, <1>4 DEF Timeout
<1>5. CASE Message
  <2>1. PICK frame, p :
          /\ frame = Head(down) /\ p = frame.promise
          /\ \/ p \in queue /\ OnChunk(p, frame)
             \/ p \in queue /\ OnAnswer(p, frame.status)
             \/ UNCHANGED browser
    BY <1>5 DEF Message
  <2>2. CASE p \in queue /\ OnChunk(p, frame)
    <3>1. down \in Seq(Frame) /\ down # <<>> /\ frame = down[1]
      BY <1>5, <2>1, EmptySeq, HeadTailProperties DEF Message, TypeInv, RequestsTypeOK, Frame
    <3>2. p \in Promises /\ Hearing(p) /\ IsChunk(down[1], p) /\ outcome[p] = "open"
      BY <2>1, <2>2, <3>1 DEF OnChunk, IsChunk, HeardInv, EntryUntilSettled, TypeInv, RequestsTypeOK
    <3>3. PICK n \in Nat, sent \in Nat, parts \in Nat :
            n = Len(heard[p]) /\ sent = handler[p].sent /\ parts = handler[p].parts
      BY <3>2, HandlerFacts
    <3>4. Deliver(down, p, n, sent, parts)
      BY <2>2, <3>2, <3>3 DEF Hearing
    <3>5. frame.part = Len(heard[p]) + 1
      BY <3>1, <3>2, <3>3, <3>4, DeliverHead
    <3>6. P!Hear(p)
      BY <2>2, <3>2, <3>5 DEF OnChunk, P!Hear
    <3>7. QED
      BY <3>2, <3>6 DEF P!Next
  <2>3. CASE p \in queue /\ OnAnswer(p, frame.status)
    BY <1>3, <2>3 DEF OnAnswer, TypeInv, RequestsTypeOK
  <2>4. CASE UNCHANGED browser
    BY <1>1, <2>4 DEF browser
  <2>5. QED
    BY <2>1, <2>2, <2>3, <2>4
<1>6. QED
  BY <1>1, <1>2, <1>4, <1>5
  DEF RequestsNext, requestsVars, browser, TransmitChunk, Answer, Open, Break, Closed, Reconnect,
      RouteMessage

(* Every step of a request is one that send() promises, or none it is told
   of. *)
THEOREM RequestsPromised == RequestsSpec => P!Init /\ [][P!Next]_(P!vars)
<1>1. RequestsInit => P!Init
  BY DEF RequestsInit, P!Init
<1>2. RequestsInit => EntryUntilSettled
  BY DEF RequestsInit, EntryUntilSettled, Settled
<1>3. QED
  BY <1>1, <1>2, TypeInit, TypeStep, EntryStep, HeardInit, HeardStep, PromisedStep, PTL
  DEF RequestsSpec
=============================================================================
