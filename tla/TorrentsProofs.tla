--------------------------- MODULE TorrentsProofs ---------------------------
(* One row for each torrent as long as no two sweeps have run at once, and a
   feed that counts what the sweeps matched, for every number of magnets,
   sweeps and kills. *)
EXTENDS MCRows, RowsProofs, TLAPS

TorrentRow == [there: BOOLEAN, stamped: BOOLEAN, titled: BOOLEAN]
Local == [found: SUBSET Magnets, m: Magnets, todo: SUBSET Magnets]

LEMMA Values == NoRow \in TorrentRow /\ NoLocal \in Local
<1>1. (CHOOSE m \in Magnets : TRUE) \in Magnets
  BY TorrentsAssumption
<1>2. QED
  BY <1>1 DEF NoRow, TorrentRow, NoLocal, Local

\* The migration runs before any sweep starts, and a row that is being stamped
\* is there.
Orderly ==
    /\ boot # "up" => \A s \in Sweepers : pc[s] = "idle"
    /\ \A s \in Sweepers : pc[s] = "stamp" => There(loc[s].m)

\* TypeOK says of stamped rows what a row has to have for it.
TypeInv == TypeOK /\ Orderly
-----------------------------------------------------------------------------
(* Types *)

LEMMA TypeInit == Init => TypeInv
<1> SUFFICES ASSUME Init PROVE TypeInv
  OBVIOUS
<1> DEFINE Old == {NoRow, [NoRow EXCEPT !.there = TRUE, !.titled = TRUE]}
<1>0. Old \subseteq TorrentRow /\ \A r \in Old : ~r.stamped
  <2> DEFINE titled == [NoRow EXCEPT !.there = TRUE, !.titled = TRUE]
  <2>1. titled \in TorrentRow /\ titled.stamped = NoRow.stamped
    BY Values DEF TorrentRow
  <2>2. NoRow.stamped = FALSE
    BY DEF NoRow
  <2> HIDE DEF titled
  <2>3. Old = {NoRow, titled}
    BY DEF titled, Old
  <2>4. QED
    BY <2>1, <2>2, <2>3, Values
<1>00. rows \in [Magnets -> Old]
  BY DEF Init
<1> HIDE DEF Old
<1>1. rows \in [Magnets -> TorrentRow]
  BY <1>0, <1>00
<1>2. \A m \in Magnets : ~rows[m].stamped
  BY <1>0, <1>00
<1>3. TypeOK
  <2>1. feed \subseteq Magnets
    BY DEF Init, Titled
  <2>2. loc \in [Sweepers -> Local] /\ pc \in [Sweepers -> Labels]
    BY Values DEF Init, Labels
  <2>3. sweeps \in 0..MaxSweeps /\ crashes \in 0..MaxCrashes
    BY TorrentsAssumption DEF Init
  <2>4. QED
    BY <1>1, <1>2, <2>1, <2>2, <2>3 DEF Init, TypeOK, TorrentRow, Local
<1>4. QED
  BY <1>3 DEF Init, TypeInv, Orderly

\* A row is replaced by one of which the same is true.
LEMMA RowType ==
    ASSUME TypeOK, NEW m \in Magnets, NEW r \in TorrentRow,
           r.stamped => r.there /\ HashOf[m] # NoHash,
           rows' = [rows EXCEPT ![m] = r]
    PROVE  /\ rows' \in [Magnets -> TorrentRow]
           /\ \A n \in Magnets : rows'[n].stamped => rows'[n].there /\ HashOf[n] # NoHash
BY DEF TypeOK, TorrentRow

LEMMA TypeMigrate ==
    ASSUME TypeInv, Migrate \/ Restart
    PROVE  TypeInv'
<1> USE DEF TypeInv
<1>1. CASE Backfill
  <2>1. /\ rows' \in [Magnets -> TorrentRow]
        /\ \A m \in Magnets : rows'[m].stamped => rows'[m].there /\ HashOf[m] # NoHash
    <3>1. CASE rows' = rows
      BY <3>1 DEF TypeOK, TorrentRow
    <3>2. CASE rows' = [m \in Magnets |-> [rows[m] EXCEPT !.stamped = m \in Stampable]]
      <4>1. \A m \in Magnets : (m \in Stampable) \in BOOLEAN
        OBVIOUS
      <4>2. \A m \in Magnets : [rows[m] EXCEPT !.stamped = m \in Stampable] \in TorrentRow
        BY <4>1 DEF TypeOK, TorrentRow
      <4>3. QED
        BY <3>2, <4>2 DEF TypeOK, TorrentRow, Stampable, There
    <3>3. QED
      BY <1>1, <3>1, <3>2 DEF Backfill
  <2>2. boot' \in {"dedupe", "up"} /\ boot = "backfill"
    BY <1>1 DEF Backfill
  <2>3. QED
    BY <1>1, <2>1, <2>2 DEF Backfill, TypeOK, Orderly, TorrentRow
<1>2. CASE Dedupe
  <2>1. PICK kept \in SUBSET {m \in Magnets : Stamped(m)} :
          rows' = [m \in Magnets |-> IF Stamped(m) /\ m \notin kept THEN NoRow ELSE rows[m]]
    BY <1>2 DEF Dedupe
  <2>2. /\ rows' \in [Magnets -> TorrentRow]
        /\ \A m \in Magnets : rows'[m].stamped => rows'[m].there /\ HashOf[m] # NoHash
    BY <2>1, Values DEF TypeOK, TorrentRow, NoRow
  <2>3. QED
    BY <1>2, <2>2 DEF Dedupe, TypeOK, Orderly, TorrentRow
<1>3. CASE CreateIndex
  BY <1>3 DEF CreateIndex, TypeOK, Orderly, There
<1>4. CASE Restart
  BY <1>4, Values, TorrentsAssumption DEF Restart, TypeOK, Orderly, Local, Labels
<1>5. QED
  BY <1>1, <1>2, <1>3, <1>4 DEF Migrate

LEMMA TypeSweep ==
    ASSUME TypeInv, NEW s \in Sweepers, Sweep(s)
    PROVE  TypeInv'
<1> USE DEF TypeInv, Continue, Goto
<1>0. /\ loc[s] \in Local /\ boot = "up"
      /\ boot' = "up" /\ index' = index
  <2>1. loc[s] \in Local
    BY DEF TypeOK, Local
  <2>2. boot = "up"
    BY DEF Sweep, GetTorrents, NextTorrent, SelectByHash, InsertRow, StampHash,
           ReadUntitled, MatchTorrent, MatchDone, RebuildFeeds, Orderly
  <2>3. boot' = "up" /\ index' = index
    BY <2>2 DEF Sweep, GetTorrents, NextTorrent, SelectByHash, InsertRow, StampHash,
           ReadUntitled, MatchTorrent, MatchDone, RebuildFeeds
  <2>4. QED
    BY <2>1, <2>2, <2>3
<1>1. CASE GetTorrents(s)
  <2>1. PICK found \in SUBSET Magnets :
          loc' = [loc EXCEPT ![s] = [NoLocal EXCEPT !.found = found]]
    BY <1>1 DEF GetTorrents
  <2>2. [NoLocal EXCEPT !.found = found] \in Local
    BY Values DEF Local
  <2>3. sweeps' \in 0..MaxSweeps
    BY <1>1, TorrentsAssumption DEF GetTorrents, TypeOK
  <2>4. QED
    BY <1>1, <2>1, <2>2, <2>3 DEF GetTorrents, TypeOK, Orderly, There, Local, Labels
<1>2. CASE NextTorrent(s)
  <2>1. PICK m \in Magnets : /\ loc' = [loc EXCEPT ![s].found = @ \ {m}, ![s].m = m]
                             /\ pc' = [pc EXCEPT ![s] = IF HashOf[m] = NoHash THEN "insert" ELSE "select"]
    BY <1>2, <1>0 DEF NextTorrent, Local
  <2>2. [loc[s] EXCEPT !.found = @ \ {m}, !.m = m] \in Local
    BY <1>0 DEF Local
  <2>3. loc' = [loc EXCEPT ![s] = [loc[s] EXCEPT !.found = @ \ {m}, !.m = m]]
    BY <2>1
  <2>4. loc' \in [Sweepers -> Local]
    BY <2>2, <2>3 DEF TypeOK, Local
  <2>5. QED
    BY <1>0, <1>2, <2>1, <2>3, <2>4 DEF NextTorrent, TypeOK, Orderly, There, Local, Labels
<1>3. CASE SelectByHash(s)
  BY <1>0, <1>3 DEF SelectByHash, TypeOK, Orderly, There, Labels
<1>4. CASE InsertRow(s)
  <2>1. CASE There(loc[s].m)
    BY <1>0, <1>4, <2>1 DEF InsertRow, TypeOK, Orderly, There, Labels
  <2>2. CASE ~There(loc[s].m)
    <3> DEFINE r == [NoRow EXCEPT !.there = TRUE]
    <3>1. r \in TorrentRow /\ r.there /\ r.stamped = NoRow.stamped
      BY Values DEF TorrentRow
    <3>2. ~r.stamped
      BY <3>1 DEF NoRow
    <3>3. rows' = [rows EXCEPT ![loc[s].m] = r]
      BY <1>4, <2>2 DEF InsertRow
    <3>4. loc[s].m \in Magnets
      BY <1>0 DEF Local
    <3> HIDE DEF r
    <3>5. /\ rows' \in [Magnets -> TorrentRow]
          /\ \A n \in Magnets : rows'[n].stamped => rows'[n].there /\ HashOf[n] # NoHash
      BY <3>1, <3>2, <3>3, <3>4, RowType
    <3>6. pc' = [pc EXCEPT ![s] = "stamp"] /\ UNCHANGED <<feed, loc, sweeps, crashes, overlapped>>
      BY <1>4, <2>2 DEF InsertRow
    <3>7. \A n \in Magnets : There(n) => rows'[n].there
      BY <3>1, <3>3, <3>4 DEF TypeOK, There
    <3>8. rows'[loc[s].m].there
      BY <3>1, <3>3, <3>4 DEF TypeOK
    <3>9. TypeOK'
      BY <1>0, <3>5, <3>6 DEF TypeOK, Labels, TorrentRow
    <3>10. Orderly'
      BY <1>0, <3>6, <3>7, <3>8 DEF Orderly, There, TypeOK
    <3>11. QED
      BY <3>9, <3>10
  <2>3. QED
    BY <2>1, <2>2
<1>5. CASE StampHash(s)
  <2> DEFINE m == loc[s].m
  <2>1. m \in Magnets /\ There(m)
    BY <1>0, <1>5 DEF StampHash, Orderly, Local
  <2>2. /\ rows' \in [Magnets -> TorrentRow]
        /\ \A n \in Magnets : rows'[n].stamped => rows'[n].there /\ HashOf[n] # NoHash
        /\ \A n \in Magnets : rows'[n].there = rows[n].there
    <3>1. CASE rows' = rows
      BY <3>1 DEF TypeOK, TorrentRow
    <3>2. CASE HashOf[m] # NoHash /\ rows' = [rows EXCEPT ![m].stamped = TRUE]
      <4> DEFINE r == [rows[m] EXCEPT !.stamped = TRUE]
      <4>1. r \in TorrentRow /\ r.there
        BY <2>1 DEF TypeOK, TorrentRow, There
      <4>2. rows' = [rows EXCEPT ![m] = r]
        BY <3>2
      <4> HIDE DEF r
      <4>3. HashOf[m] # NoHash
        BY <3>2
      <4>4. /\ rows' \in [Magnets -> TorrentRow]
            /\ \A n \in Magnets : rows'[n].stamped => rows'[n].there /\ HashOf[n] # NoHash
        BY <2>1, <4>1, <4>2, <4>3, RowType
      <4>5. \A n \in Magnets : rows'[n].there = rows[n].there
        BY <2>1, <4>1, <4>2 DEF There, TypeOK, TorrentRow
      <4>6. QED
        BY <4>4, <4>5
    <3>3. QED
      BY <1>5, <3>1, <3>2 DEF StampHash
  <2>3. QED
    BY <1>0, <1>5, <2>2 DEF StampHash, TypeOK, Orderly, There, Labels, TorrentRow
<1>6. CASE ReadUntitled(s)
  <2>1. [loc[s] EXCEPT !.todo = Untitled] \in Local
    BY <1>0 DEF Local, Untitled
  <2>2. loc' = [loc EXCEPT ![s] = [loc[s] EXCEPT !.todo = Untitled]]
    BY <1>6 DEF ReadUntitled
  <2>3. loc' \in [Sweepers -> Local]
    BY <2>1, <2>2 DEF TypeOK, Local
  <2>4. pc' = [pc EXCEPT ![s] = "match"] /\ UNCHANGED <<rows, feed, sweeps, crashes, overlapped>>
    BY <1>6 DEF ReadUntitled
  <2>5. \A r \in Sweepers : r # s => loc'[r] = loc[r]
    BY <2>2 DEF TypeOK
  <2>6. TypeOK'
    BY <1>0, <2>3, <2>4 DEF TypeOK, Labels, Local
  <2>7. Orderly'
    BY <1>0, <2>4, <2>5 DEF Orderly, There, TypeOK
  <2>8. QED
    BY <2>6, <2>7
<1>7. CASE MatchTorrent(s)
  <2>1. PICK m \in Magnets, titled \in BOOLEAN :
          /\ rows' = [rows EXCEPT ![m].titled = @ \/ titled]
          /\ loc' = [loc EXCEPT ![s].todo = @ \ {m}]
    BY <1>0, <1>7 DEF MatchTorrent, Local
  <2> DEFINE r == [rows[m] EXCEPT !.titled = @ \/ titled]
             l == [loc[s] EXCEPT !.todo = @ \ {m}]
  <2>2. r \in TorrentRow /\ r.there = rows[m].there /\ r.stamped = rows[m].stamped
    BY DEF TypeOK, TorrentRow
  <2>3. l \in Local /\ l.m = loc[s].m
    BY <1>0 DEF Local
  <2>4. rows' = [rows EXCEPT ![m] = r] /\ loc' = [loc EXCEPT ![s] = l]
    BY <2>1
  <2> HIDE DEF r, l
  <2>5. /\ rows' \in [Magnets -> TorrentRow]
        /\ \A n \in Magnets : rows'[n].stamped => rows'[n].there /\ HashOf[n] # NoHash
        /\ \A n \in Magnets : rows'[n].there = rows[n].there
    BY <2>2, <2>4, RowType DEF TypeOK
  <2>6. loc' \in [Sweepers -> Local] /\ \A q \in Sweepers : loc'[q].m = loc[q].m
    BY <2>3, <2>4 DEF TypeOK, Local
  <2>7. UNCHANGED <<feed, pc, sweeps, crashes, overlapped>>
    BY <1>7 DEF MatchTorrent
  <2>8. TypeOK'
    BY <1>0, <2>5, <2>6, <2>7 DEF TypeOK, TorrentRow, Local
  <2>9. Orderly'
    BY <1>0, <2>5, <2>6, <2>7 DEF Orderly, There, TypeOK, Local
  <2>10. QED
    BY <2>8, <2>9
<1>8. CASE MatchDone(s)
  BY <1>0, <1>8 DEF MatchDone, TypeOK, Orderly, There, Labels
<1>9. CASE RebuildFeeds(s)
  BY <1>0, <1>9, Values DEF RebuildFeeds, TypeOK, Orderly, There, Labels, Local, Titled
<1>10. QED
  BY <1>1, <1>2, <1>3, <1>4, <1>5, <1>6, <1>7, <1>8, <1>9 DEF Sweep

\* Every step keeps rows, index and locals typed, only rows that are there and
\* have a hash are stamped, and no sweep works while the migration does.
THEOREM TypeInvariant == Spec => []TypeInv
<1>1. TypeInv /\ [Next]_vars => TypeInv'
  <2> SUFFICES ASSUME TypeInv, [Next]_vars PROVE TypeInv'
    OBVIOUS
  <2>1. CASE UNCHANGED vars
    BY <2>1 DEF vars, TypeInv, TypeOK, Orderly, There
  <2>2. QED
    BY <2>1, TypeMigrate, TypeSweep DEF Next
<1>2. QED
  BY <1>1, TypeInit, PTL DEF Spec

\* The type invariant that the run checks.
THEOREM TypeCorrect == Spec => []TypeOK
<1>1. TypeInv => TypeOK
  BY DEF TypeInv
<1>2. QED
  BY <1>1, TypeInvariant, PTL
-----------------------------------------------------------------------------
(* One row for each torrent *)

\* Rows whose magnet has a hash have it stamped, but for the one that a sweep
\* has inserted and is about to stamp.
AllStamped ==
    \A m \in Stampable : Stamped(m) \/ \E s \in Sweepers : pc[s] = "stamp" /\ loc[s].m = m

\* What keeps duplicates out as long as one sweep works at a time.  A kill may
\* leave a row unstamped; then the index is there already or the next start
\* finds nothing it has to drop.
KeptApart ==
    /\ \A r, s \in Sweepers : pc[r] # "idle" /\ pc[s] # "idle" => r = s
    /\ boot \in {"index", "up"} \/ index => OneRowEach
    /\ boot # "backfill" => AllStamped
    /\ \A s \in Sweepers : pc[s] = "insert" => \A n \in Magnets : ~(There(n) /\ Same(loc[s].m, n))

KeptRows == overlapped \/ KeptApart

LEMMA RowsMigrate ==
    ASSUME TypeInv, KeptApart, Migrate \/ Restart
    PROVE  KeptApart'
<1> USE DEF TypeInv
<1>1. CASE Backfill
  <2>0. boot = "backfill" /\ \A s \in Sweepers : pc[s] = "idle" /\ pc'[s] = "idle"
    BY <1>1 DEF Backfill, Orderly
  <2>1. ~(index /\ \E m, n \in Stampable : m # n /\ Same(m, n))
    BY DEF KeptApart, OneRowEach, Stampable
  <2>2. /\ rows' = [m \in Magnets |-> [rows[m] EXCEPT !.stamped = m \in Stampable]]
        /\ boot' = "dedupe" /\ UNCHANGED index
    BY <1>1, <2>1 DEF Backfill
  <2>3. \A m \in Magnets : /\ rows'[m].there = rows[m].there
                           /\ rows'[m].stamped = (m \in Stampable)
    BY <2>2 DEF TypeOK
  <2>4. OneRowEach => OneRowEach'
    BY <2>3 DEF OneRowEach, There, Same
  <2>5. AllStamped'
    BY <2>3 DEF AllStamped, Stampable, Stamped, There
  <2>6. QED
    BY <2>0, <2>2, <2>4, <2>5 DEF KeptApart
<1>2. CASE Dedupe
  <2>0. boot = "dedupe" /\ \A s \in Sweepers : pc[s] = "idle" /\ pc'[s] = "idle"
    BY <1>2 DEF Dedupe, Orderly
  <2>1. PICK kept \in SUBSET {m \in Magnets : Stamped(m)} :
          /\ \A m \in Magnets : Stamped(m) =>
               \E k \in kept : Same(m, k) /\ \A l \in kept : Same(m, l) => l = k
          /\ rows' = [m \in Magnets |-> IF Stamped(m) /\ m \notin kept THEN NoRow ELSE rows[m]]
    BY <1>2 DEF Dedupe
  <2>2. \A m \in Stampable : Stamped(m)
    BY <2>0 DEF KeptApart, AllStamped
  <2>3. \A m \in Magnets : /\ rows'[m].there => rows[m].there /\ (Stamped(m) => m \in kept)
                           /\ rows'[m].there => rows'[m].stamped = rows[m].stamped
    BY <2>1 DEF NoRow
  <2>4. OneRowEach'
    <3> SUFFICES ASSUME NEW m \in Magnets, NEW n \in Magnets,
                        rows'[m].there, rows'[n].there, Same(m, n)
                 PROVE  m = n
      BY DEF OneRowEach, There, Same
    <3>1. m \in kept /\ n \in kept
      BY <2>2, <2>3 DEF Stampable, There, Same
    <3>2. Stamped(m) /\ Same(m, m)
      BY <3>1, <2>1 DEF Same
    <3>3. QED
      BY <2>1, <3>1, <3>2
  <2>5. AllStamped'
    BY <2>2, <2>3 DEF AllStamped, Stampable, Stamped, There
  <2>6. QED
    BY <2>0, <2>4, <2>5 DEF KeptApart
<1>3. CASE CreateIndex
  BY <1>3 DEF CreateIndex, KeptApart, OneRowEach, AllStamped, Stampable, Stamped, There, Same
<1>4. CASE Restart
  BY <1>4 DEF Restart, KeptApart, OneRowEach, There, Same
<1>5. QED
  BY <1>1, <1>2, <1>3, <1>4 DEF Migrate

LEMMA RowsSweep ==
    ASSUME TypeInv, KeptRows, NEW s \in Sweepers, Sweep(s)
    PROVE  KeptRows'
<1> USE DEF TypeInv, Continue, Goto
<1>1. CASE overlapped
  BY <1>1 DEF Sweep, GetTorrents, NextTorrent, SelectByHash, InsertRow, StampHash,
              ReadUntitled, MatchTorrent, MatchDone, RebuildFeeds, KeptRows
<1> SUFFICES ASSUME KeptApart, ~overlapped' PROVE KeptApart'
  BY <1>1 DEF KeptRows
<1>2. boot = "up" /\ boot' = "up" /\ UNCHANGED index
  <2>1. boot = "up"
    BY DEF Sweep, GetTorrents, NextTorrent, SelectByHash, InsertRow, StampHash,
           ReadUntitled, MatchTorrent, MatchDone, RebuildFeeds, Orderly
  <2>2. QED
    BY <2>1 DEF Sweep, GetTorrents, NextTorrent, SelectByHash, InsertRow, StampHash,
                ReadUntitled, MatchTorrent, MatchDone, RebuildFeeds
\* The others are idle.
<1>3. \A r \in Sweepers \ {s} : pc[r] = "idle" /\ pc'[r] = "idle" /\ loc'[r] = loc[r]
  <2>1. CASE GetTorrents(s)
    BY <2>1 DEF GetTorrents, TypeOK
  <2>2. CASE pc[s] # "idle"
    BY <2>2 DEF Sweep, GetTorrents, NextTorrent, SelectByHash, InsertRow, StampHash,
                ReadUntitled, MatchTorrent, MatchDone, RebuildFeeds, KeptApart, TypeOK
  <2>3. QED
    BY <2>1, <2>2 DEF Sweep, NextTorrent, SelectByHash, InsertRow, StampHash,
                      ReadUntitled, MatchTorrent, MatchDone, RebuildFeeds
<1>4. \A m, n \in Magnets : There(m) /\ There(n) /\ Same(m, n) => m = n
  BY <1>2 DEF KeptApart, OneRowEach
<1>5. pc[s] # "stamp" => \A m \in Stampable : Stamped(m)
  BY <1>2, <1>3 DEF KeptApart, AllStamped
<1>6. pc' \in [Sweepers -> Labels] /\ loc' \in [Sweepers -> Local] /\ rows' \in [Magnets -> TorrentRow]
  BY TypeSweep DEF TypeOK, Local, TorrentRow
\* It is enough to say what becomes of the rows and of s.
<1> SUFFICES /\ OneRowEach'
             /\ \A m \in Stampable' : Stamped(m)' \/ (pc'[s] = "stamp" /\ loc'[s].m = m)
             /\ pc'[s] = "insert" => \A n \in Magnets : ~(There(n)' /\ Same(loc'[s].m, n))
  BY <1>2, <1>3 DEF KeptApart, AllStamped
<1>7. CASE rows' = rows /\ pc[s] # "stamp" /\ pc'[s] # "insert"
  BY <1>4, <1>5, <1>7 DEF OneRowEach, Stampable, Stamped, There, Same
<1>8. CASE GetTorrents(s)
  BY <1>7, <1>8 DEF GetTorrents, TypeOK
<1>9. CASE NextTorrent(s)
  <2>1. rows' = rows /\ pc[s] = "look"
    BY <1>9 DEF NextTorrent
  <2>2. CASE pc'[s] # "insert"
    BY <1>7, <2>1, <2>2
  <2>3. CASE pc'[s] = "insert"
    <3>1. HashOf[loc'[s].m] = NoHash
      <4>1. PICK m \in loc[s].found :
               /\ loc' = [loc EXCEPT ![s].found = @ \ {m}, ![s].m = m]
               /\ pc' = [pc EXCEPT ![s] = IF HashOf[m] = NoHash THEN "insert" ELSE "select"]
        BY <1>9 DEF NextTorrent
      <4>2. loc'[s].m = m
        BY <4>1 DEF TypeOK
      <4>3. QED
        BY <2>3, <4>1, <4>2 DEF TypeOK
    <3>2. QED
      BY <1>4, <1>5, <2>1, <3>1 DEF OneRowEach, Stampable, Stamped, There, Same
  <2>4. QED
    BY <2>2, <2>3
<1>10. CASE SelectByHash(s)
  <2>1. rows' = rows /\ loc' = loc /\ pc[s] = "select"
    BY <1>10 DEF SelectByHash
  <2>2. CASE \E n \in Magnets : Stamped(n) /\ Same(loc[s].m, n)
    <3>1. pc'[s] = "look"
      BY <1>10, <2>2 DEF SelectByHash, TypeOK
    <3>2. QED
      BY <1>7, <2>1, <3>1
  <2>3. CASE ~\E n \in Magnets : Stamped(n) /\ Same(loc[s].m, n)
    <3>1. \A n \in Magnets : ~(There(n) /\ Same(loc[s].m, n))
      BY <1>5, <2>1, <2>3 DEF Stampable, Same
    <3>2. QED
      BY <1>4, <1>5, <2>1, <3>1 DEF OneRowEach, Stampable, Stamped, There, Same
  <2>4. QED
    BY <2>2, <2>3
<1>11. CASE InsertRow(s)
  <2> DEFINE m == loc[s].m
  <2>0. m \in Magnets /\ pc[s] = "insert" /\ loc' = loc
    BY <1>11 DEF InsertRow, TypeOK
  <2>1. CASE There(m)
    <3>1. rows' = rows /\ pc'[s] = "look"
      BY <1>11, <2>1 DEF InsertRow, TypeOK
    <3>2. QED
      BY <1>7, <2>0, <3>1
  <2>2. CASE ~There(m)
    <3>1. rows' = [rows EXCEPT ![m] = [NoRow EXCEPT !.there = TRUE]] /\ pc'[s] = "stamp"
      BY <1>11, <2>2 DEF InsertRow, TypeOK
    <3>2. \A n \in Magnets : n # m => rows'[n] = rows[n]
      BY <2>0, <3>1 DEF TypeOK
    <3>3. \A n \in Magnets : ~(There(n) /\ (Same(m, n) \/ Same(n, m)))
      BY <2>0 DEF KeptApart, Same
    <3>4. OneRowEach'
      BY <1>4, <2>0, <3>2, <3>3 DEF OneRowEach, There, Same
    <3>5. QED
      BY <1>5, <2>0, <3>1, <3>2, <3>4 DEF Stampable, Stamped, There
  <2>3. QED
    BY <2>1, <2>2
<1>12. CASE StampHash(s)
  <2> DEFINE m == loc[s].m
  <2>0. m \in Magnets /\ pc[s] = "stamp" /\ pc'[s] = "look" /\ There(m)
    BY <1>12 DEF StampHash, TypeOK, Orderly
  <2>1. ~(index /\ \E n \in Magnets \ {m} : Stamped(n) /\ Same(m, n))
    BY <1>4, <2>0 DEF Stamped
  <2>2. rows' = IF HashOf[m] # NoHash THEN [rows EXCEPT ![m].stamped = TRUE] ELSE rows
    BY <1>12, <2>1 DEF StampHash
  <2>3. \A n \in Magnets : /\ rows'[n].there = rows[n].there
                           /\ rows'[n].stamped = (rows[n].stamped \/ (n = m /\ HashOf[m] # NoHash))
    BY <2>0, <2>2 DEF TypeOK
  <2>4. \A n \in Stampable : Stamped(n) \/ n = m
    BY <1>2, <1>3 DEF KeptApart, AllStamped
  <2>5. QED
    BY <1>4, <2>0, <2>3, <2>4 DEF OneRowEach, Stampable, Stamped, There, Same
<1>13. CASE ReadUntitled(s)
  BY <1>7, <1>13 DEF ReadUntitled, TypeOK
<1>14. CASE MatchTorrent(s)
  <2>1. \A n \in Magnets : rows'[n].there = rows[n].there /\ rows'[n].stamped = rows[n].stamped
    BY <1>14 DEF MatchTorrent, TypeOK
  <2>2. pc[s] = "match" /\ pc' = pc
    BY <1>14 DEF MatchTorrent
  <2>3. QED
    BY <1>4, <1>5, <2>1, <2>2 DEF OneRowEach, Stampable, Stamped, There, Same
<1>15. CASE MatchDone(s)
  BY <1>7, <1>15 DEF MatchDone, TypeOK
<1>16. CASE RebuildFeeds(s)
  BY <1>7, <1>16 DEF RebuildFeeds, TypeOK
<1>17. QED
  BY <1>8, <1>9, <1>10, <1>11, <1>12, <1>13, <1>14, <1>15, <1>16 DEF Sweep

\* "Dedupe by infohash": while sweeps run one at a time a torrent has one row,
\* under however many magnets it is found and however often the program is
\* killed between the INSERT and the stamp.
THEOREM OneRowCorrect == Spec => []NoDuplicates
<1>1. Init => KeptRows
  <2> SUFFICES ASSUME Init PROVE KeptApart
    BY DEF KeptRows
  <2>1. QED
    BY DEF Init, KeptApart
<1>2. TypeInv /\ KeptRows /\ [Next]_vars => KeptRows'
  <2> SUFFICES ASSUME TypeInv, KeptRows, [Next]_vars PROVE KeptRows'
    OBVIOUS
  <2>1. CASE UNCHANGED vars
    BY <2>1 DEF vars, KeptRows, KeptApart, OneRowEach, AllStamped, Stampable, Stamped, There, Same
  <2>2. CASE Migrate \/ Restart
    <3>1. overlapped' = overlapped
      BY <2>2 DEF Migrate, Backfill, Dedupe, CreateIndex, Restart
    <3>2. QED
      BY <2>2, <3>1, RowsMigrate DEF KeptRows
  <2>3. QED
    BY <2>1, <2>2, RowsSweep DEF Next
<1>3. KeptRows => NoDuplicates
  <2> SUFFICES ASSUME KeptApart, boot = "up" PROVE OneRowEach
    BY DEF KeptRows, NoDuplicates
  <2>1. QED
    BY DEF KeptApart
<1>4. QED
  BY <1>1, <1>2, <1>3, TypeInvariant, PTL DEF Spec
-----------------------------------------------------------------------------
(* The feed *)

\* Until the program is started again the migration is not run again, so no row
\* goes away once a sweep has started; and a sweep that gave rows titles counts
\* them before it is over, whatever the others do.
FeedInv == crashes = 0 => FeedFollows /\ (sweeps > 0 => boot = "up")

\* A step of a sweep either leaves that sweep unfinished or counts the rows.
LEMMA FeedSweep ==
    ASSUME TypeOK, FeedInv, NEW s \in Sweepers, Sweep(s)
    PROVE  FeedInv'
<1> USE DEF Continue, Goto
<1>1. crashes' = crashes /\ (boot = "up" => boot' = "up")
  BY DEF Sweep, GetTorrents, NextTorrent, SelectByHash, InsertRow, StampHash,
         ReadUntitled, MatchTorrent, MatchDone, RebuildFeeds
<1>2. sweeps' > 0 => sweeps > 0 \/ boot = "up"
  BY DEF Sweep, GetTorrents, NextTorrent, SelectByHash, InsertRow, StampHash,
         ReadUntitled, MatchTorrent, MatchDone, RebuildFeeds
<1>3. CASE RebuildFeeds(s)
  <2>1. feed' = Titled /\ rows' = rows
    BY <1>3 DEF RebuildFeeds
  <2>2. feed' = Titled'
    BY <2>1 DEF Titled, There
  <2>3. QED
    BY <1>1, <1>2, <2>2 DEF FeedInv, FeedFollows
<1>4. CASE pc'[s] # "idle"
  BY <1>1, <1>2, <1>4 DEF FeedInv, FeedFollows
<1>5. ~RebuildFeeds(s) => pc'[s] # "idle"
  <2>1. GetTorrents(s) \/ NextTorrent(s) \/ SelectByHash(s) => pc'[s] # "idle"
    BY DEF GetTorrents, NextTorrent, SelectByHash, TypeOK
  <2>2. InsertRow(s) \/ StampHash(s) => pc'[s] # "idle"
    BY DEF InsertRow, StampHash, TypeOK
  <2>3. ReadUntitled(s) \/ MatchTorrent(s) \/ MatchDone(s) => pc'[s] # "idle"
    BY DEF ReadUntitled, MatchTorrent, MatchDone, TypeOK
  <2>4. QED
    BY <2>1, <2>2, <2>3 DEF Sweep
<1>6. QED
  BY <1>3, <1>4, <1>5

LEMMA FeedMigrate ==
    ASSUME TypeOK, FeedInv, Migrate \/ Restart
    PROVE  FeedInv'
<1>1. CASE Restart
  BY <1>1 DEF Restart, FeedInv, TypeOK
<1>2. CASE Migrate
  <2>1. boot # "up" /\ UNCHANGED <<sweeps, crashes>>
    BY <1>2 DEF Migrate, Backfill, Dedupe, CreateIndex
  <2>2. QED
    BY <2>1 DEF FeedInv, FeedFollows, TypeOK
<1>3. QED
  BY <1>1, <1>2

\* When all sweeps are over and none was killed, the feed counts the rows that
\* have a title, however the sweeps overlapped.
THEOREM FeedCorrect == Spec => []FeedFollows
<1>1. Init => FeedInv
  BY DEF Init, FeedInv, FeedFollows
<1>2. TypeInv /\ FeedInv /\ [Next]_vars => FeedInv'
  <2> SUFFICES ASSUME TypeInv, FeedInv, [Next]_vars PROVE FeedInv'
    OBVIOUS
  <2>1. CASE UNCHANGED vars
    BY <2>1 DEF vars, FeedInv, FeedFollows, Titled, There
  <2>2. QED
    BY <2>1, FeedMigrate, FeedSweep DEF Next, TypeInv
<1>3. FeedInv => FeedFollows
  BY DEF FeedInv, FeedFollows
<1>4. QED
  BY <1>1, <1>2, <1>3, TypeInvariant, PTL DEF Spec
-----------------------------------------------------------------------------
(* The rows together *)

\* A step of one part leaves the others as they are.
LEMMA OnePartMoves ==
    [RowsNext]_rowsVars =>
        /\ [Next]_vars /\ [UsersNext]_usersVars
        /\ [ListsNext]_listsVars /\ [WatchedNext]_watchedVars
<1>1. CASE UNCHANGED rowsVars
  BY <1>1 DEF rowsVars
<1>2. CASE RowsNext
  BY <1>2 DEF RowsNext
<1>3. QED
  BY <1>1, <1>2

\* Side by side each part behaves as it does alone: what the theorems about the
\* parts say holds of what requests, sweeps and players write at the same time.
THEOREM RowsParts == RowsSpec => Spec /\ UsersSpec /\ ListsSpec /\ WatchedSpec
<1>1. RowsInit => Init /\ UsersInit /\ ListsInit /\ WatchedInit
  BY DEF RowsInit
<1>2. QED
  BY <1>1, OnePartMoves, PTL DEF RowsSpec, Spec, UsersSpec, ListsSpec, WatchedSpec

\* The rows of torrents, users, lists and of what was watched keep their types,
\* whatever requests, sweeps, players, kills and migrations do.
THEOREM RowsTypes == RowsSpec => []RowsTypeOK
<1>1. TypeOK /\ UsersTypeOK /\ ListsTypeOK /\ WatchedTypeOK => RowsTypeOK
  BY DEF RowsTypeOK
<1>2. QED
  BY <1>1, RowsParts, TypeCorrect, UsersTypes, ListsTypes, WatchedTypes, PTL
=============================================================================
