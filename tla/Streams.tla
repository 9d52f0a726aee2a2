------------------------------ MODULE Streams ------------------------------
(* Readers of one piece of a torrent: pieceReader.Read, Session.ReadPiece and
   lt_read_piece, with the alert loop that answers them.  All who wait for a
   piece share one piece_read, found in a map under the piece; the first one
   asks libtorrent for an alert, the others join in.  A reader waits half a
   second at a time and comes again until the piece is there or its request
   ends.  The alert may come when nobody, or somebody else, waits.  A stream that
   reads an earlier piece sets deadlines for those after it, this one among them.

   A piece_read is told by its address; those of piece_reads nobody holds any
   more are used again. *)
EXTENDS Naturals, FiniteSets

CONSTANTS
  Readers,     \* streams that read the piece at one time
  Addresses,   \* where a piece_read may be
  Null,        \* no piece_read
  MaxAdded,     \* bound: how often the torrent is added
  MaxReplies   \* bound: alerts under way

ASSUME StreamsAssumption ==
  /\ IsFiniteSet(Readers) /\ IsFiniteSet(Addresses)
  /\ Cardinality(Readers) < Cardinality(Addresses)
  /\ Null \notin Addresses /\ MaxAdded \in Nat /\ MaxReplies \in Nat \ {0}

VARIABLES
  added,     \* how often the torrent has been added
  here,     \* the session has it
  have,     \* the piece has been downloaded
  wanted,   \* libtorrent owes an alert once it has the piece
  replies,  \* read_piece_alerts under way
  slot,     \* the piece's entry in reads
  cell,     \* Addresses -> the piece_read there
  reader,   \* Readers -> where it is, and with which piece_read
  unasked   \* history: why nobody will be told of the piece through the entry

streamsVars == <<added, here, have, wanted, replies, slot, cell, reader, unasked>>

torrent == <<added, here, have>>

Fresh == [done |-> FALSE, waiters |-> 0]

\* threw:       whoever made the entry could not ask.
\* gone:        the torrent was removed, and no alert told so.
\* overwritten: deadlines set for another stream's readahead took the alert off.
Reasons == {"threw", "gone", "overwritten"}

Idle == [at |-> "idle", of |-> Null, life |-> 0]

StreamsInit ==
  /\ added = 0 /\ here = FALSE /\ have = FALSE /\ wanted = FALSE /\ replies = 0
  /\ slot = Null
  /\ cell = [a \in Addresses |-> Fresh]
  /\ reader = [r \in Readers |-> Idle]
  /\ unasked = {}

-----------------------------------------------------------------------------
(* lt_read_piece *)

Unused == CHOOSE a \in Addresses : a # slot /\ \A r \in Readers : reader[r].of # a

(* The torrent is looked up, then the piece_read made or shared, under mu.  The
   handle is of the torrent as it is now. *)
Join(r) ==
  /\ reader[r].at \in {"idle", "again"} /\ here
  /\ LET a == IF slot = Null THEN Unused ELSE slot
     IN /\ slot' = a
        /\ cell' = [cell EXCEPT ![a].waiters = @ + 1]
        /\ reader' = [reader EXCEPT ![r] =
             [at |-> IF slot = Null THEN "asking" ELSE "waiting", of |-> a, life |-> added]]
  /\ UNCHANGED <<torrent, wanted, replies, unasked>>

(* "torrent not found" ends the stream. *)
NotFound(r) ==
  /\ reader[r].at = "again" /\ ~here
  /\ reader' = [reader EXCEPT ![r] = Idle]
  /\ UNCHANGED <<torrent, wanted, replies, slot, cell, unasked>>

(* Mutant: libtorrent is not asked for a piece it has. *)
AskForMissing ==
  IF have THEN UNCHANGED <<wanted, replies>>
  ELSE wanted' = TRUE /\ UNCHANGED replies

(* set_piece_deadline with alert_when_available: libtorrent reads a piece it
   has right away, and notes that it owes an alert for one it has not. *)
AskFor ==
  IF have THEN replies' = replies + 1 /\ UNCHANGED wanted
  ELSE wanted' = TRUE /\ UNCHANGED replies

AskPiece(r) ==
  /\ reader[r].at = "asking" /\ here /\ reader[r].life = added /\ replies < MaxReplies
  /\ AskFor
  /\ reader' = [reader EXCEPT ![r].at = "waiting"]
  /\ unasked' = {}
  /\ UNCHANGED <<torrent, slot, cell>>

(* The torrent has been removed in between: set_piece_deadline throws, past the
   lines that count the waiter out. *)
AskPieceThrows(r) ==
  /\ reader[r].at = "asking" /\ (~here \/ reader[r].life # added)
  /\ reader' = [reader EXCEPT ![r] = Idle]
  /\ unasked' = unasked \union {"threw"}
  /\ UNCHANGED <<torrent, wanted, replies, slot, cell>>

(* Mutant: whoever leaves takes the entry out of the map. *)
LeaveAlone(a) == slot' = Null /\ cell' = [cell EXCEPT ![a] = Fresh] /\ unasked' = {}

(* The last one who waits takes the entry out of the map. *)
Leave(a) ==
  IF cell[a].waiters = 1 /\ slot = a
  THEN slot' = Null /\ cell' = [cell EXCEPT ![a] = Fresh] /\ unasked' = {}
  ELSE cell' = [cell EXCEPT ![a].waiters = @ - 1] /\ UNCHANGED <<slot, unasked>>

(* The data, or an error. *)
Wake(r) ==
  /\ reader[r].at = "waiting" /\ cell[reader[r].of].done
  /\ Leave(reader[r].of)
  /\ reader' = [reader EXCEPT ![r] = Idle]
  /\ UNCHANGED <<torrent, wanted, replies>>

(* Not here yet: ReadPiece comes again, unless the request has ended. *)
TimedOut(r) ==
  /\ reader[r].at = "waiting" /\ ~cell[reader[r].of].done
  /\ Leave(reader[r].of)
  /\ \E at \in {"again", "idle"} : reader' = [reader EXCEPT ![r] = [Idle EXCEPT !.at = at]]
  /\ UNCHANGED <<torrent, wanted, replies>>

(* What becomes of the entry when libtorrent forgets that it owes an alert. *)
Lost(why) ==
  IF slot # Null /\ ~cell[slot].done THEN unasked \union {why} ELSE unasked

(* pieceReader.Read for an earlier piece: readahead sets a deadline for this one
   too.  Of a piece libtorrent has not got that replaces the flags it was asked
   for with, alert_when_available with them. *)
SetDeadlines(r) ==
  /\ reader[r].at = "idle" /\ here /\ ~have /\ wanted
  /\ wanted' = FALSE /\ unasked' = Lost("overwritten")
  /\ UNCHANGED <<torrent, replies, slot, cell, reader>>

-----------------------------------------------------------------------------
(* libtorrent and its alerts *)

(* The alert it owes, with the piece or the error of reading it. *)
Reply ==
  /\ wanted /\ here /\ have /\ replies < MaxReplies
  /\ wanted' = FALSE /\ replies' = replies + 1
  /\ UNCHANGED <<torrent, slot, cell, reader, unasked>>

(* handle() finds the entry of the piece, whoever made it; a late alert finds
   none, or one that is done. *)
HandleAlert ==
  /\ replies > 0 /\ replies' = replies - 1
  /\ IF slot = Null
     THEN UNCHANGED <<cell, unasked>>
     ELSE cell' = [cell EXCEPT ![slot].done = TRUE] /\ unasked' = {}
  /\ UNCHANGED <<torrent, wanted, slot, reader>>

AddTorrent ==
  /\ ~here /\ added < MaxAdded
  /\ added' = added + 1 /\ here' = TRUE /\ have' \in BOOLEAN
  /\ UNCHANGED <<wanted, replies, slot, cell, reader, unasked>>

Download ==
  /\ here /\ ~have /\ have' = TRUE
  /\ UNCHANGED <<added, here, wanted, replies, slot, cell, reader, unasked>>

(* With the torrent goes what it owes, with an alert that says so or without. *)
RemoveTorrent ==
  /\ here /\ here' = FALSE /\ have' = FALSE /\ wanted' = FALSE
  /\ \/ wanted /\ replies < MaxReplies /\ replies' = replies + 1 /\ UNCHANGED unasked
     \/ /\ UNCHANGED replies
        /\ unasked' = IF wanted THEN Lost("gone") ELSE unasked
  /\ UNCHANGED <<added, slot, cell, reader>>

StreamsNext ==
  \/ \E r \in Readers : \/ Join(r) \/ NotFound(r) \/ AskPiece(r) \/ AskPieceThrows(r)
                        \/ Wake(r) \/ TimedOut(r) \/ SetDeadlines(r)
  \/ Reply \/ HandleAlert \/ AddTorrent \/ Download \/ RemoveTorrent

ReadGoesOn(r) ==
  \/ reader[r].at = "again" /\ Join(r)
  \/ NotFound(r) \/ AskPiece(r) \/ AskPieceThrows(r) \/ Wake(r) \/ TimedOut(r)

(* A call goes on, waits end, and libtorrent answers for a piece it has; nobody
   need add a torrent, give it data, or watch it. *)
StreamsFairness ==
  /\ \A r \in Readers : WF_streamsVars(ReadGoesOn(r))
  /\ WF_streamsVars(Reply)
  /\ WF_streamsVars(HandleAlert)

StreamsSpec == StreamsInit /\ [][StreamsNext]_streamsVars /\ StreamsFairness

-----------------------------------------------------------------------------
(* Properties *)

StreamsTypeOK ==
  /\ added \in 0 .. MaxAdded /\ here \in BOOLEAN /\ have \in BOOLEAN /\ wanted \in BOOLEAN
  /\ replies \in 0 .. MaxReplies
  /\ slot \in Addresses \union {Null}
  /\ cell \in [Addresses -> [done: BOOLEAN, waiters: Nat]]
  /\ reader \in [Readers -> [at: {"idle", "asking", "waiting", "again"},
                             of: Addresses \union {Null}, life: 0 .. MaxAdded]]
  /\ unasked \in SUBSET Reasons

Reading(a) == {r \in Readers : reader[r].at \in {"asking", "waiting"} /\ reader[r].of = a}

(* All who wait for the piece wait for the one piece_read that the alert loop
   finds: a reader that times out does not take it from under the others, and
   one that comes meanwhile does not make another. *)
ReadersShare ==
  \A r \in Readers :
    reader[r].at \in {"asking", "waiting"} =>
      /\ reader[r].of = slot
      /\ Cardinality(Reading(slot)) <= cell[slot].waiters

(* An answer is on its way to the entry there is. *)
Owed ==
  wanted \/ replies > 0 \/ \E r \in Readers : reader[r].at = "asking" /\ reader[r].of = slot

(* Those who join in do not ask, so whoever made the entry must have: an entry
   that is not done has an answer on its way, whatever was answered late, unless
   its request threw, went with the torrent, or was overwritten by deadlines set
   for another stream. *)
AnswerOwed == slot # Null /\ ~cell[slot].done /\ unasked = {} => Owed

(* The piece is there to stay, and half a second is enough for libtorrent to
   answer whom it owes an answer. *)
PieceIsThere ==
  <>[](here /\ have) /\ <>[][\A r \in Readers : TimedOut(r) => ~Owed]_streamsVars

(* A stream goes on once its piece is there, unless nobody asks on its behalf
   any more, for one of the three reasons AnswerOwed names. *)
PieceComes ==
  PieceIsThere =>
    \A r \in Readers : (reader[r].at = "waiting") ~> (reader[r].at = "idle" \/ unasked # {})
=============================================================================
