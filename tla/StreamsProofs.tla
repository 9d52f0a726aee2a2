--------------------------- MODULE StreamsProofs ---------------------------
(* The readers of a piece share one piece_read that an answer is owed to, for
   every number of readers and whatever becomes of the torrent. *)
EXTENDS Streams, FiniteSetTheorems, TLAPS

Cell == [done: BOOLEAN, waiters: Nat]

Place == [at: {"idle", "asking", "waiting", "again"},
          of: Addresses \union {Null}, life: 0 .. MaxAdded]

Waits(r) == reader[r].at \in {"asking", "waiting"}

(* Who waits has the entry's piece_read; no other one is in use. *)
OneCell ==
  /\ \A r \in Readers : IF Waits(r) THEN reader[r].of = slot /\ slot # Null
                                    ELSE reader[r].of = Null
  /\ \A a \in Addresses : a # slot => cell[a] = Fresh

(* Those who wait are counted; a leaked waiter counts nobody. *)
Counted == slot # Null => Cardinality(Reading(slot)) <= cell[slot].waiters

StreamsInv == StreamsTypeOK /\ OneCell /\ Counted

LEMMA Values ==
  /\ Fresh \in Cell /\ Fresh.done = FALSE /\ Fresh.waiters = 0
  /\ \A at \in {"idle", "again"} : [Idle EXCEPT !.at = at] \in Place
  /\ Idle \in Place
BY StreamsAssumption DEF Fresh, Cell, Idle, Place

LEMMA StreamsInvInit == StreamsInit => StreamsInv
<1> SUFFICES ASSUME StreamsInit PROVE StreamsInv
  OBVIOUS
<1>1. StreamsTypeOK
  <2>1. cell \in [Addresses -> Cell] /\ reader \in [Readers -> Place]
    BY Values DEF StreamsInit
  <2>2. added \in 0 .. MaxAdded /\ replies \in 0 .. MaxReplies
    BY StreamsAssumption DEF StreamsInit
  <2>3. QED
    BY <2>1, <2>2 DEF StreamsInit, StreamsTypeOK, Cell, Place
<1>2. OneCell
  BY DEF StreamsInit, OneCell, Waits, Idle
<1>3. Counted
  BY DEF StreamsInit, Counted
<1>4. QED
  BY <1>1, <1>2, <1>3 DEF StreamsInv

(* The set of readers is finite, and changes by one reader at a time. *)
LEMMA ReadingFinite ==
  ASSUME NEW a
  PROVE  IsFiniteSet(Reading(a)) /\ Cardinality(Reading(a)) \in Nat
BY StreamsAssumption, FS_Subset, FS_CardinalityType DEF Reading

LEMMA ReadingMore ==
  ASSUME NEW a, NEW r, Reading(a)' = Reading(a) \union {r}
  PROVE  Cardinality(Reading(a)') <= Cardinality(Reading(a)) + 1
BY ReadingFinite, FS_AddElement

LEMMA ReadingLess ==
  ASSUME NEW a, NEW r \in Reading(a), Reading(a)' = Reading(a) \ {r}
  PROVE  Cardinality(Reading(a)') = Cardinality(Reading(a)) - 1 /\ Cardinality(Reading(a)) >= 1
<1>1. Cardinality(Reading(a)') = Cardinality(Reading(a)) - 1
  BY ReadingFinite, FS_RemoveElement
<1>2. Cardinality(Reading(a)) # 0
  BY ReadingFinite, FS_EmptySet
<1>3. QED
  BY <1>1, <1>2, ReadingFinite

(* The only one counted is the only one who waits. *)
LEMMA ReadingOne ==
  ASSUME NEW a, NEW r \in Reading(a), Cardinality(Reading(a)) <= 1
  PROVE  Reading(a) = {r}
<1>1. Cardinality(Reading(a) \ {r}) = Cardinality(Reading(a)) - 1
  BY ReadingFinite, FS_RemoveElement
<1>2. IsFiniteSet(Reading(a) \ {r}) /\ Cardinality(Reading(a) \ {r}) \in Nat
  BY ReadingFinite, FS_RemoveElement, FS_CardinalityType
<1>3. Cardinality(Reading(a) \ {r}) = 0
  BY <1>1, <1>2, ReadingFinite
<1>4. Reading(a) \ {r} = {}
  BY <1>2, <1>3, FS_EmptySet
<1>5. QED
  BY <1>4
-----------------------------------------------------------------------------
(* Readers *)

LEMMA InvJoin ==
  ASSUME StreamsInv, NEW r \in Readers, Join(r)
  PROVE  StreamsInv'
<1> USE DEF StreamsInv, StreamsTypeOK
<1> DEFINE found == IF slot = Null THEN Unused ELSE slot
<1>1. found \in Addresses
  <2>1. CASE slot = Null
    <3>1. \A s \in Readers : reader[s].of = Null
      BY <2>1 DEF OneCell
    <3>2. PICK b : b \in Addresses
      <4>1. Cardinality(Readers) \in Nat /\ Cardinality(Addresses) \in Nat
        BY StreamsAssumption, FS_CardinalityType
      <4>2. Cardinality(Addresses) # 0
        BY <4>1, StreamsAssumption
      <4>3. QED
        BY <4>2, FS_EmptySet
    <3>3. b # slot /\ \A s \in Readers : reader[s].of # b
      BY <2>1, <3>1, <3>2, StreamsAssumption
    <3>4. Unused \in Addresses
      BY <3>2, <3>3 DEF Unused
    <3>5. QED
      BY <2>1, <3>4, StreamsAssumption
  <2>2. CASE slot # Null
    BY <2>2
  <2>3. QED
    BY <2>1, <2>2
<1>0. PICK a \in Addresses : a = found
  BY <1>1
<1>a. a # Null /\ (slot # Null => a = slot)
  BY <1>0, StreamsAssumption
<1>b. PICK q \in Place : q = [at |-> IF slot = Null THEN "asking" ELSE "waiting",
                            of |-> a, life |-> added]
  BY DEF Place
<1>2. /\ slot' = a
      /\ cell' = [cell EXCEPT ![a].waiters = @ + 1]
      /\ reader' = [reader EXCEPT ![r] = q]
      /\ UNCHANGED <<added, here, have, wanted, replies, unasked>>
      /\ ~Waits(r)
  BY <1>0, <1>b DEF Join, torrent, Waits
<1>3. q.at \in {"asking", "waiting"} /\ q.of = a
  BY <1>b
<1>4. /\ reader'[r] = q
      /\ \A s \in Readers : s # r => reader'[s] = reader[s]
      /\ reader' \in [Readers -> Place]
  BY <1>2, <1>3 DEF Place
<1>5. cell'[a] = [cell[a] EXCEPT !.waiters = @ + 1] /\ cell[a] \in Cell
  BY <1>2 DEF Cell
<1>6. StreamsTypeOK'
  BY <1>2, <1>4, <1>5 DEF Cell, Place
<1>8. OneCell'
  <2>1. \A b \in Addresses : b # slot' => cell'[b] = Fresh
    <3>1. \A b \in Addresses : b # a => cell'[b] = cell[b] /\ b # slot
      BY <1>a, <1>2, StreamsAssumption
    <3>2. QED
      BY <1>2, <3>1 DEF OneCell
  <2>2. \A s \in Readers : IF Waits(s)' THEN reader'[s].of = slot' /\ slot' # Null
                                        ELSE reader'[s].of = Null
    BY <1>a, <1>2, <1>3, <1>4 DEF OneCell, Waits
  <2>3. QED
    BY <2>1, <2>2 DEF OneCell
<1>9. Counted'
  <2>1. Reading(a)' = Reading(a) \union {r}
    BY <1>3, <1>4 DEF Reading
  <2>2. Cardinality(Reading(a)) <= cell[a].waiters
    <3>1. CASE slot # Null
      BY <3>1, <1>a DEF Counted
    <3>2. CASE slot = Null
      <4>1. Reading(a) = {}
        BY <3>2 DEF OneCell, Waits, Reading
      <4>2. cell[a].waiters \in Nat
        BY <1>5 DEF Cell
      <4>3. QED
        BY <4>1, <4>2, FS_EmptySet
    <3>3. QED
      BY <3>1, <3>2
  <2>3. cell'[a].waiters = cell[a].waiters + 1 /\ cell[a].waiters \in Nat
    BY <1>5 DEF Cell
  <2>4. Cardinality(Reading(a)') <= cell'[a].waiters
    <3>1. Cardinality(Reading(a)') <= Cardinality(Reading(a)) + 1
      BY <2>1, ReadingMore
    <3>2. IsFiniteSet(Reading(a)') /\ Cardinality(Reading(a)') \in Nat
      <4>1. IsFiniteSet(Reading(a) \union {r})
        BY ReadingFinite, FS_AddElement
      <4>2. QED
        BY <2>1, <4>1, FS_CardinalityType
    <3>3. QED
      BY <3>1, <3>2, <2>2, <2>3, ReadingFinite
  <2>5. Reading(slot)' = Reading(a)'
    BY <1>2 DEF Reading
  <2>6. QED
    BY <1>2, <2>4, <2>5 DEF Counted
<1>10. QED
  BY <1>6, <1>8, <1>9

(* A reader that does not wait goes elsewhere, or one that waits stays. *)
LEMMA InvElsewhere ==
  ASSUME StreamsInv, NEW r \in Readers, NEW p \in Place,
         reader' = [reader EXCEPT ![r] = p], slot' = slot, cell' = cell,
         IF Waits(r) THEN p.of = slot /\ p.at \in {"asking", "waiting"}
                     ELSE p.of = Null /\ p.at \in {"idle", "again"}
  PROVE  reader' \in [Readers -> Place] /\ OneCell' /\ Counted'
<1> USE DEF StreamsInv, StreamsTypeOK
<1>1. reader' \in [Readers -> Place] /\ reader'[r] = p
      /\ \A s \in Readers : s # r => reader'[s] = reader[s]
  BY DEF Place
<1>2. OneCell'
  BY <1>1 DEF OneCell, Waits
<1>3. Reading(slot)' = Reading(slot)
  BY <1>1 DEF Reading, OneCell, Waits
<1>4. QED
  BY <1>1, <1>2, <1>3 DEF Counted

(* A reader that throws leaves without being counted out. *)
LEMMA InvThrows ==
  ASSUME StreamsInv, NEW r \in Readers, AskPieceThrows(r)
  PROVE  StreamsInv'
<1> USE DEF StreamsInv, StreamsTypeOK
<1>1. /\ reader' = [reader EXCEPT ![r] = Idle] /\ slot' = slot /\ cell' = cell
      /\ Waits(r) /\ Idle \in Place /\ Idle.at = "idle" /\ Idle.of = Null
  BY Values DEF AskPieceThrows, Waits, Idle
<1>2. /\ reader' \in [Readers -> Place] /\ reader'[r] = Idle
      /\ \A s \in Readers : s # r => reader'[s] = reader[s]
  BY <1>1 DEF Place
<1>3. OneCell'
  BY <1>1, <1>2 DEF OneCell, Waits
<1>0. PICK a \in Addresses : a = slot
  BY <1>1 DEF OneCell
<1>4. Reading(a)' = Reading(a) \ {r} /\ r \in Reading(a)
  BY <1>0, <1>1, <1>2 DEF Reading, Waits, OneCell
<1>5. Cardinality(Reading(a)') = Cardinality(Reading(a)) - 1
  BY <1>4, ReadingLess
<1>6. Counted'
  <2>1. Cardinality(Reading(a)) <= cell[a].waiters /\ cell[a].waiters \in Nat
    BY <1>0, StreamsAssumption DEF Counted, Cell
  <2>2. Cardinality(Reading(a)') <= cell[a].waiters
    BY <2>1, <1>5, ReadingFinite
  <2>3. Reading(slot)' = Reading(a)'
    BY <1>0, <1>1 DEF Reading
  <2>4. QED
    BY <1>0, <1>1, <2>2, <2>3 DEF Counted
<1>7. StreamsTypeOK'
  <2>1. unasked' \in SUBSET Reasons
    BY DEF AskPieceThrows, Reasons
  <2>2. QED
    BY <1>1, <1>2, <2>1 DEF AskPieceThrows, torrent, Place
<1>8. QED
  BY <1>3, <1>6, <1>7

(* A reader leaves its piece_read, which goes with the last one counted. *)
LEMMA InvLeaves ==
  ASSUME StreamsInv, NEW r \in Readers, Wake(r) \/ TimedOut(r)
  PROVE  StreamsInv'
<1> USE DEF StreamsInv, StreamsTypeOK
<1>0. PICK a \in Addresses : a = slot
  BY DEF Wake, TimedOut, OneCell, Waits
<1>1. reader[r].of = a /\ r \in Reading(a)
  BY <1>0 DEF Wake, TimedOut, OneCell, Waits, Reading
<1>2. PICK p \in Place : /\ p.at \in {"idle", "again"} /\ p.of = Null
                         /\ reader' = [reader EXCEPT ![r] = p]
  <2>1. \A at \in {"idle", "again"} : /\ [Idle EXCEPT !.at = at].at = at
                                      /\ [Idle EXCEPT !.at = at].of = Null
    BY DEF Idle
  <2>2. Idle.at = "idle" /\ Idle.of = Null
    BY DEF Idle
  <2>3. CASE Wake(r)
    BY <2>2, <2>3, Values DEF Wake
  <2>4. CASE TimedOut(r)
    <3>1. PICK at \in {"again", "idle"} : reader' = [reader EXCEPT ![r] = [Idle EXCEPT !.at = at]]
      BY <2>4 DEF TimedOut
    <3>2. QED
      BY <3>1, <2>1, Values
  <2>5. QED
    BY <2>3, <2>4
<1>3. /\ reader' \in [Readers -> Place] /\ reader'[r] = p
      /\ \A s \in Readers : s # r => reader'[s] = reader[s]
  BY <1>2 DEF Place
<1>4. Leave(a) /\ UNCHANGED <<added, here, have, wanted, replies>>
  BY <1>1 DEF Wake, TimedOut, torrent
<1>5. /\ cell[a] \in Cell /\ Cardinality(Reading(a)) <= cell[a].waiters
      /\ Cardinality(Reading(a)) >= 1
  <2>1. Cardinality(Reading(a)) # 0
    BY <1>1, ReadingFinite, FS_EmptySet
  <2>2. QED
    BY <1>0, <2>1, ReadingFinite, StreamsAssumption DEF Counted, Cell
<1>6. CASE cell[a].waiters = 1
  <2>1. slot' = Null /\ cell' = [cell EXCEPT ![a] = Fresh] /\ unasked' = {}
    BY <1>0, <1>4, <1>6 DEF Leave
  <2>2. Reading(a) = {r}
    BY <1>1, <1>5, <1>6, ReadingOne
  <2>3. \A s \in Readers : ~Waits(s)'
    BY <1>0, <1>2, <1>3, <2>2 DEF Waits, Reading, OneCell
  <2>4. OneCell' /\ Counted'
    BY <1>0, <1>2, <1>3, <2>1, <2>2, <2>3 DEF OneCell, Counted, Waits, Reading
  <2>5. StreamsTypeOK'
    BY <1>3, <1>4, <2>1, Values DEF Cell, Place
  <2>6. QED
    BY <2>4, <2>5
<1>7. CASE cell[a].waiters # 1
  <2>1. /\ cell' = [cell EXCEPT ![a].waiters = @ - 1]
        /\ slot' = slot /\ unasked' = unasked
    BY <1>0, <1>4, <1>7 DEF Leave
  <2>2. cell'[a] = [cell[a] EXCEPT !.waiters = @ - 1] /\ cell[a].waiters - 1 \in Nat
    BY <1>1, <1>5, <1>7, <2>1, ReadingFinite DEF Cell
  <2>3. cell'[a] \in Cell /\ cell'[a].waiters = cell[a].waiters - 1
    BY <1>5, <2>2 DEF Cell
  <2>4. Reading(a)' = Reading(a) \ {r}
    BY <1>2, <1>3, <2>1 DEF Reading
  <2>5. Cardinality(Reading(a)') = Cardinality(Reading(a)) - 1
    BY <1>1, <2>4, ReadingLess
  <2>a. Reading(slot)' = Reading(a)'
    BY <1>0, <2>1 DEF Reading
  <2>6. Counted'
    BY <1>0, <1>5, <2>1, <2>3, <2>5, <2>a, ReadingFinite DEF Counted, Cell
  <2>7. OneCell'
    BY <1>0, <1>2, <1>3, <2>1 DEF OneCell, Waits
  <2>8. StreamsTypeOK'
    BY <1>3, <1>4, <2>1, <2>3 DEF Cell, Place
  <2>9. QED
    BY <2>6, <2>7, <2>8
<1>8. QED
  BY <1>6, <1>7
-----------------------------------------------------------------------------
(* Steps *)

LEMMA InvStep == StreamsInv /\ [StreamsNext]_streamsVars => StreamsInv'
<1> SUFFICES ASSUME StreamsInv, [StreamsNext]_streamsVars PROVE StreamsInv'
  OBVIOUS
<1> USE DEF StreamsInv, StreamsTypeOK
<1>1. CASE UNCHANGED streamsVars
  BY <1>1 DEF streamsVars, OneCell, Counted, Waits, Reading
<1>2. ASSUME NEW r \in Readers, NotFound(r)
      PROVE  StreamsInv'
  <2>1. ~Waits(r) /\ Idle \in Place /\ Idle.of = Null /\ Idle.at = "idle"
    BY <1>2, Values DEF NotFound, Waits, Idle
  <2>2. reader' \in [Readers -> Place] /\ OneCell' /\ Counted'
    BY <1>2, <2>1, InvElsewhere DEF NotFound
  <2>3. QED
    BY <1>2, <2>2 DEF NotFound, torrent, Place
<1>3. ASSUME NEW r \in Readers, AskPiece(r)
      PROVE  StreamsInv'
  <2>1. PICK p \in Place : p = [reader[r] EXCEPT !.at = "waiting"]
    BY DEF Place
  <2>2. /\ Waits(r) /\ p.of = slot /\ p.at = "waiting"
        /\ reader' = [reader EXCEPT ![r] = p]
    BY <1>3, <2>1 DEF AskPiece, Waits, OneCell, Place
  <2>3. reader' \in [Readers -> Place] /\ OneCell' /\ Counted'
    BY <1>3, <2>2, InvElsewhere DEF AskPiece
  <2>4. wanted' \in BOOLEAN /\ replies' \in 0 .. MaxReplies
    <3>1. replies < MaxReplies /\ AskFor
      BY <1>3 DEF AskPiece
    <3>2. CASE have
      BY <3>1, <3>2, StreamsAssumption DEF AskFor
    <3>3. CASE ~have
      BY <3>1, <3>3 DEF AskFor
    <3>4. QED
      BY <3>2, <3>3
  <2>5. QED
    BY <1>3, <2>3, <2>4 DEF AskPiece, torrent, Place
<1>4. CASE HandleAlert
  <2>1. replies' \in 0 .. MaxReplies
    BY <1>4, StreamsAssumption DEF HandleAlert
  <2>2. CASE slot = Null
    BY <1>4, <2>1, <2>2 DEF HandleAlert, torrent, OneCell, Counted, Waits, Reading
  <2>3. CASE slot # Null
    <3>1. PICK a \in Addresses : a = slot
      BY <2>3
    <3>2. /\ cell' = [cell EXCEPT ![a].done = TRUE] /\ unasked' = {}
          /\ UNCHANGED <<added, here, have, wanted, slot, reader>>
      BY <1>4, <2>3, <3>1 DEF HandleAlert, torrent
    <3>3. cell' \in [Addresses -> Cell] /\ cell'[a].waiters = cell[a].waiters
      BY <3>2 DEF Cell
    <3>4. OneCell' /\ Counted'
      BY <3>1, <3>2, <3>3 DEF OneCell, Counted, Waits, Reading
    <3>5. QED
      BY <2>1, <3>2, <3>3, <3>4 DEF Cell
  <2>4. QED
    BY <2>2, <2>3
<1>5. CASE Reply \/ AddTorrent \/ Download \/ RemoveTorrent \/ \E r \in Readers : SetDeadlines(r)
  <2>1. slot' = slot /\ cell' = cell /\ reader' = reader
    BY <1>5 DEF Reply, AddTorrent, Download, RemoveTorrent, SetDeadlines
  <2>2. OneCell' /\ Counted'
    BY <2>1 DEF OneCell, Counted, Waits, Reading
  <2>3. StreamsTypeOK'
    <3>1. added' \in 0 .. MaxAdded
      BY <1>5, StreamsAssumption DEF Reply, AddTorrent, Download, RemoveTorrent, SetDeadlines, torrent
    <3>2. replies' \in 0 .. MaxReplies
      BY <1>5, StreamsAssumption DEF Reply, AddTorrent, Download, RemoveTorrent, SetDeadlines, torrent
    <3>3. CASE Reply
      BY <2>1, <3>1, <3>2, <3>3 DEF Reply, torrent
    <3>4. CASE AddTorrent
      BY <2>1, <3>1, <3>2, <3>4 DEF AddTorrent
    <3>5. CASE Download
      BY <2>1, <3>1, <3>2, <3>5 DEF Download
    <3>6. CASE RemoveTorrent
      <4>1. unasked' \in SUBSET Reasons
        BY <3>6 DEF RemoveTorrent, Lost, Reasons
      <4>2. QED
        BY <2>1, <3>1, <3>2, <3>6, <4>1 DEF RemoveTorrent
    <3>7. CASE \E r \in Readers : SetDeadlines(r)
      <4>1. unasked' \in SUBSET Reasons
        BY <3>7 DEF SetDeadlines, Lost, Reasons
      <4>2. QED
        BY <2>1, <3>1, <3>2, <3>7, <4>1 DEF SetDeadlines, torrent
    <3>8. QED
      BY <1>5, <3>3, <3>4, <3>5, <3>6, <3>7
  <2>4. QED
    BY <2>2, <2>3
<1>6. QED
  BY <1>1, <1>2, <1>3, <1>4, <1>5, InvJoin, InvThrows, InvLeaves DEF StreamsNext

(* The variables keep their types. *)
THEOREM StreamsTypes == StreamsSpec => []StreamsTypeOK
<1>1. StreamsInv => StreamsTypeOK
  BY DEF StreamsInv
<1>2. QED
  BY <1>1, StreamsInvInit, InvStep, PTL DEF StreamsSpec

(* All readers that wait share the one piece_read that the alert loop finds. *)
THEOREM StreamsShare == StreamsSpec => []ReadersShare
<1>1. StreamsInv => ReadersShare
  <2> SUFFICES ASSUME StreamsInv, NEW r \in Readers, Waits(r)
               PROVE  reader[r].of = slot /\ Cardinality(Reading(slot)) <= cell[slot].waiters
    BY DEF ReadersShare, Waits
  <2>1. QED
    BY DEF StreamsInv, OneCell, Counted
<1>2. QED
  BY <1>1, StreamsInvInit, InvStep, PTL DEF StreamsSpec

LEMMA OwedStep ==
  StreamsInv /\ AnswerOwed /\ [StreamsNext]_streamsVars => AnswerOwed'
<1> SUFFICES ASSUME StreamsInv, AnswerOwed, [StreamsNext]_streamsVars,
                    (slot # Null)', (~cell[slot].done)', (unasked = {})'
             PROVE  Owed'
  BY DEF AnswerOwed
<1> USE DEF StreamsInv, StreamsTypeOK
<1>1. ASSUME Owed, slot' = slot, wanted' = wanted, replies' = replies,
             \A r \in Readers : reader[r].at = "asking" => reader'[r] = reader[r]
      PROVE  Owed'
  BY <1>1 DEF Owed
<1>2. CASE UNCHANGED streamsVars
  BY <1>2 DEF streamsVars, AnswerOwed, Owed
<1>3. ASSUME NEW r \in Readers, Join(r)
      PROVE  Owed'
  <2>0. reader'[r].at = (IF slot = Null THEN "asking" ELSE "waiting") /\ reader'[r].of = slot'
    BY <1>3 DEF Join
  <2>1. CASE slot = Null
    BY <2>0, <2>1 DEF Owed
  <2>2. CASE slot # Null
    <3>1. slot' = slot /\ unasked' = unasked /\ cell'[slot].done = cell[slot].done
          /\ UNCHANGED <<wanted, replies>>
          /\ \A s \in Readers : reader[s].at = "asking" => reader'[s] = reader[s]
      BY <1>3, <2>2 DEF Join
    <3>2. QED
      BY <2>2, <3>1, <1>1 DEF AnswerOwed
  <2>3. QED
    BY <2>1, <2>2
<1>4. ASSUME NEW r \in Readers, NotFound(r)
      PROVE  Owed'
  BY <1>1, <1>4 DEF NotFound, AnswerOwed
<1>5. ASSUME NEW r \in Readers, AskPiece(r)
      PROVE  Owed'
  BY <1>5 DEF AskPiece, AskFor, Owed
<1>6. ASSUME NEW r \in Readers, AskPieceThrows(r)
      PROVE  Owed'
  BY <1>6 DEF AskPieceThrows
<1>7. ASSUME NEW r \in Readers, Wake(r) \/ TimedOut(r)
      PROVE  Owed'
  <2>1. reader[r].of = slot /\ slot \in Addresses
    BY <1>7 DEF Wake, TimedOut, OneCell, Waits
  <2>2. Leave(slot) /\ UNCHANGED <<wanted, replies>>
    BY <1>7, <2>1 DEF Wake, TimedOut
  <2>3. slot' = slot /\ unasked' = unasked /\ cell' = [cell EXCEPT ![slot].waiters = @ - 1]
    BY <2>2 DEF Leave
  <2>4. cell'[slot].done = cell[slot].done
    BY <2>1, <2>3
  <2>5. \A s \in Readers : reader[s].at = "asking" => reader'[s] = reader[s]
    BY <1>7 DEF Wake, TimedOut
  <2>6. QED
    BY <1>1, <2>2, <2>3, <2>4, <2>5 DEF AnswerOwed
<1>8. CASE Reply
  BY <1>8 DEF Reply, Owed
<1>9. CASE HandleAlert
  BY <1>9 DEF HandleAlert
<1>10. CASE AddTorrent \/ Download
  BY <1>1, <1>10 DEF AddTorrent, Download, AnswerOwed
<1>11. CASE RemoveTorrent
  <2>1. slot # Null /\ ~cell[slot].done /\ replies \in Nat /\ reader' = reader /\ slot' = slot
    BY <1>11, StreamsAssumption DEF RemoveTorrent
  <2>2. CASE replies' = replies + 1
    BY <2>1, <2>2 DEF Owed
  <2>3. CASE replies' = replies /\ unasked' = IF wanted THEN Lost("gone") ELSE unasked
    <3>1. Lost("gone") = unasked \union {"gone"}
      BY <2>1 DEF Lost
    <3>2. ~wanted /\ unasked = {}
      BY <2>3, <3>1
    <3>3. replies > 0 \/ \E r \in Readers : reader[r].at = "asking" /\ reader[r].of = slot
      BY <2>1, <3>2 DEF AnswerOwed, Owed
    <3>4. QED
      BY <2>1, <2>3, <3>3 DEF Owed
  <2>4. QED
    BY <1>11, <2>2, <2>3 DEF RemoveTorrent
<1>12. ASSUME NEW r \in Readers, SetDeadlines(r)
       PROVE  Owed'
  <2>1. slot # Null /\ ~cell[slot].done
    BY <1>12 DEF SetDeadlines
  <2>2. unasked' = unasked \union {"overwritten"}
    BY <1>12, <2>1 DEF SetDeadlines, Lost
  <2>3. QED
    BY <2>2
<1>13. QED
  BY <1>2, <1>3, <1>4, <1>5, <1>6, <1>7, <1>8, <1>9, <1>10, <1>11, <1>12 DEF StreamsNext

(* Who joins a piece_read that is there does not ask: somebody has, or is about
   to, unless the request threw, went with the torrent or was overwritten by the
   deadlines of another stream's readahead. *)
THEOREM StreamsAnswerOwed == StreamsSpec => []AnswerOwed
<1>1. StreamsInit => AnswerOwed
  BY DEF StreamsInit, AnswerOwed
<1>2. QED
  BY <1>1, StreamsInvInit, InvStep, OwedStep, PTL DEF StreamsSpec
=============================================================================
