------------------------------ MODULE Torrents ------------------------------
(***************************************************************************)
(* How found torrents get into the database (torrents/torrent-fetcher.go)  *)
(* and how the start-up migration keeps them apart                         *)
(* (db/torrentInfoHashMigration.go).  A torrent is known by the info hash  *)
(* in its magnet; a magnet also has the name the torrent goes by and, in   *)
(* rows of before, the trackers of the proxy it was found on.              *)
(* The table knows magnets to be unique, and the hashes that have been     *)
(* stamped on rows.  Sweeps are started by the tray, the schedule and      *)
(* browsers and nothing keeps two from running at once.                    *)
(*                                                                         *)
(* Rows are named by their magnets.  The title a row is matched to is      *)
(* reduced to whether it has one; peer counts are left out, and so are the *)
(* reload and the event at the end, which module Library has.              *)
(***************************************************************************)
EXTENDS Integers, FiniteSets

CONSTANTS Magnets,
          HashOf,      \* the info hash in a magnet, or NoHash
          NoHash,
          Sweepers,    \* goroutines of GetTorrents
          MaxSweeps, MaxCrashes

ASSUME TorrentsAssumption ==
    /\ Magnets # {}
    /\ MaxSweeps \in Nat /\ MaxCrashes \in Nat

VARIABLES rows,     \* torrentFile: each magnet's row
          index,    \* the unique index on infoHash exists
          boot,     \* what the migration does next, or "up"
          feed,     \* the rows counted in feed_torrents
          pc, loc,  \* each goroutine's next statement and its locals
          sweeps, crashes,
          overlapped  \* history: two sweeps ran at once

vars == <<rows, index, boot, feed, pc, loc, sweeps, crashes, overlapped>>

NoRow == [there |-> FALSE, stamped |-> FALSE, titled |-> FALSE]
NoLocal == [found |-> {}, m |-> CHOOSE m \in Magnets : TRUE, todo |-> {}]

Labels == {"idle", "look", "select", "insert", "stamp", "match", "rebuild"}

TypeOK ==
    /\ rows \in [Magnets -> [there: BOOLEAN, stamped: BOOLEAN, titled: BOOLEAN]]
    /\ index \in BOOLEAN
    /\ boot \in {"backfill", "dedupe", "index", "up"}
    /\ feed \in SUBSET Magnets
    /\ pc \in [Sweepers -> Labels]
    /\ loc \in [Sweepers -> [found: SUBSET Magnets, m: Magnets, todo: SUBSET Magnets]]
    /\ sweeps \in 0..MaxSweeps /\ crashes \in 0..MaxCrashes
    /\ overlapped \in BOOLEAN
    /\ \A m \in Magnets : rows[m].stamped => rows[m].there /\ HashOf[m] # NoHash

There(m) == rows[m].there
Same(m, n) == HashOf[m] # NoHash /\ HashOf[m] = HashOf[n]
Stamped(m) == There(m) /\ rows[m].stamped
Titled == {m \in Magnets : There(m) /\ rows[m].titled}
Untitled == {m \in Magnets : There(m) /\ ~rows[m].titled}

\* A database of before the migration: no hash is stamped and there is no index.
Init ==
    /\ rows \in [Magnets -> {NoRow, [NoRow EXCEPT !.there = TRUE, !.titled = TRUE]}]
    /\ index = FALSE /\ boot = "backfill"
    /\ feed = Titled
    /\ pc = [s \in Sweepers |-> "idle"]
    /\ loc = [s \in Sweepers |-> NoLocal]
    /\ sweeps = 0 /\ crashes = 0 /\ overlapped = FALSE

Goto(s, label) == pc' = [pc EXCEPT ![s] = label]
-----------------------------------------------------------------------------
(* MigrateAddTorrentInfoHash *)

\* One UPDATE for all rows without a hash.  With the index there it fails as a
\* whole if it would stamp a hash twice, and the migration ends there.
Stampable == {m \in Magnets : There(m) /\ HashOf[m] # NoHash}

\* Mutant: leaves the rows stamping was interrupted on as they are.
BackfillOnce ==
    /\ boot = "backfill"
    /\ rows' = IF index THEN rows
               ELSE [m \in Magnets |-> [rows[m] EXCEPT !.stamped = m \in Stampable]]
    /\ boot' = "dedupe"
    /\ UNCHANGED <<index, feed, pc, loc, sweeps, crashes, overlapped>>

Backfill ==
    /\ boot = "backfill"
    /\ IF index /\ \E m, n \in Stampable : m # n /\ Same(m, n)
       THEN boot' = "up" /\ UNCHANGED rows
       ELSE /\ rows' = [m \in Magnets |-> [rows[m] EXCEPT !.stamped = m \in Stampable]]
            /\ boot' = "dedupe"
    /\ UNCHANGED <<index, feed, pc, loc, sweeps, crashes, overlapped>>

\* Of the rows with one hash only that with the longest magnet stays.
Dedupe ==
    /\ boot = "dedupe"
    /\ \E kept \in SUBSET {m \in Magnets : Stamped(m)} :
         /\ \A m \in Magnets : Stamped(m) =>
              \E k \in kept : Same(m, k) /\ \A l \in kept : Same(m, l) => l = k
         /\ rows' = [m \in Magnets |-> IF Stamped(m) /\ m \notin kept THEN NoRow ELSE rows[m]]
    /\ boot' = "index"
    /\ UNCHANGED <<index, feed, pc, loc, sweeps, crashes, overlapped>>

CreateIndex ==
    /\ boot = "index"
    /\ index' = (index \/ ~\E m, n \in Magnets :
                              m # n /\ Stamped(m) /\ Stamped(n) /\ Same(m, n))
    /\ boot' = "up"
    /\ UNCHANGED <<rows, feed, pc, loc, sweeps, crashes, overlapped>>

\* The program is killed, or just stopped, and started again.
Restart ==
    /\ crashes < MaxCrashes
    /\ crashes' = crashes + 1
    /\ boot' = "backfill"
    /\ pc' = [s \in Sweepers |-> "idle"]
    /\ loc' = [s \in Sweepers |-> NoLocal]
    /\ UNCHANGED <<rows, index, feed, sweeps, overlapped>>
-----------------------------------------------------------------------------
(* GetTorrents *)

\* tpb.Lookup finds some torrents, or fails and finds none.  The magnets it
\* makes have hashes.
GetTorrents(s) ==
    /\ boot = "up" /\ pc[s] = "idle" /\ sweeps < MaxSweeps
    /\ sweeps' = sweeps + 1
    /\ \E found \in SUBSET {m \in Magnets : HashOf[m] # NoHash} :
         loc' = [loc EXCEPT ![s] = [NoLocal EXCEPT !.found = found]]
    /\ Goto(s, "look")
    /\ overlapped' = (overlapped \/ \E r \in Sweepers \ {s} : pc[r] # "idle")
    /\ UNCHANGED <<rows, index, boot, feed, crashes>>

Continue(s) == UNCHANGED <<index, boot, sweeps, crashes, overlapped>>

\* The next torrent of the list.
NextTorrent(s) ==
    /\ pc[s] = "look"
    /\ \E m \in loc[s].found :
         /\ loc' = [loc EXCEPT ![s].found = @ \ {m}, ![s].m = m]
         /\ Goto(s, IF HashOf[m] = NoHash THEN "insert" ELSE "select")
    /\ UNCHANGED <<rows, feed>> /\ Continue(s)

\* A torrent that is known by its hash only has its peer counts refreshed.
SelectByHash(s) ==
    /\ pc[s] = "select"
    /\ Goto(s, IF \E n \in Magnets : Stamped(n) /\ Same(loc[s].m, n) THEN "look" ELSE "insert")
    /\ UNCHANGED <<rows, feed, loc>> /\ Continue(s)

\* The row goes in without its hash, unless the magnet is there already.
InsertRow(s) ==
    LET m == loc[s].m IN
    /\ pc[s] = "insert"
    /\ IF There(m) THEN Goto(s, "look") /\ UNCHANGED rows
       ELSE /\ rows' = [rows EXCEPT ![m] = [NoRow EXCEPT !.there = TRUE]]
            /\ Goto(s, "stamp")
    /\ UNCHANGED <<feed, loc>> /\ Continue(s)

\* Mutant: stamps all rows whose magnet is of the torrent.
StampEvery(s) ==
    /\ pc[s] = "stamp"
    /\ rows' = [n \in Magnets |-> [rows[n] EXCEPT !.stamped = @ \/ Same(loc[s].m, n)]]
    /\ Goto(s, "look")
    /\ UNCHANGED <<feed, loc>> /\ Continue(s)

\* The UPDATE that sets the hash, refused by the index if another row has it.
\* What is set along with the hash is not set then either.
StampHash(s) ==
    LET m == loc[s].m IN
    /\ pc[s] = "stamp"
    /\ rows' = IF /\ HashOf[m] # NoHash
                  /\ ~(index /\ \E n \in Magnets \ {m} : Stamped(n) /\ Same(m, n))
               THEN [rows EXCEPT ![m].stamped = TRUE] ELSE rows
    /\ Goto(s, "look")
    /\ UNCHANGED <<feed, loc>> /\ Continue(s)

\* GetMetaDataFromInternet: the rows without a title are looked up one by one.
ReadUntitled(s) ==
    /\ pc[s] = "look" /\ loc[s].found = {}
    /\ loc' = [loc EXCEPT ![s].todo = Untitled]
    /\ Goto(s, "match")
    /\ UNCHANGED <<rows, feed>> /\ Continue(s)

\* A row for which no title is found stays as it is: the title 0 that
\* HandleMetaDataGettingErr sets is refused by the foreign key.
MatchTorrent(s) ==
    /\ pc[s] = "match"
    /\ \E m \in loc[s].todo, titled \in BOOLEAN :
         /\ rows' = [rows EXCEPT ![m].titled = @ \/ titled]
         /\ loc' = [loc EXCEPT ![s].todo = @ \ {m}]
    /\ UNCHANGED <<feed, pc>> /\ Continue(s)

\* Mutant: the feed is not rebuilt for new titles.
MatchDoneRebuilt(s) ==
    /\ pc[s] = "match" /\ loc[s].todo = {}
    /\ Goto(s, "idle")
    /\ loc' = [loc EXCEPT ![s] = NoLocal]
    /\ UNCHANGED <<rows, feed>> /\ Continue(s)

MatchDone(s) ==
    /\ pc[s] = "match" /\ loc[s].todo = {}
    /\ Goto(s, "rebuild")
    /\ UNCHANGED <<rows, feed, loc>> /\ Continue(s)

\* RebuildFeeds, then the reload of the browsers, which read the feed then.
RebuildFeeds(s) ==
    /\ pc[s] = "rebuild"
    /\ feed' = Titled
    /\ Goto(s, "idle")
    /\ loc' = [loc EXCEPT ![s] = NoLocal]
    /\ UNCHANGED rows /\ Continue(s)
-----------------------------------------------------------------------------
Migrate == Backfill \/ Dedupe \/ CreateIndex

Sweep(s) ==
    \/ GetTorrents(s) \/ NextTorrent(s) \/ SelectByHash(s) \/ InsertRow(s) \/ StampHash(s)
    \/ ReadUntitled(s) \/ MatchTorrent(s) \/ MatchDone(s) \/ RebuildFeeds(s)

Next == Migrate \/ Restart \/ \E s \in Sweepers : Sweep(s)

Spec == Init /\ [][Next]_vars
-----------------------------------------------------------------------------
(* Properties *)

OneRowEach == \A m, n \in Magnets : There(m) /\ There(n) /\ Same(m, n) => m = n

\* "Dedupe by infohash": with one sweep at a time a torrent has one row, however
\* many magnets it is found with and wherever the program was killed.
NoDuplicates == boot = "up" /\ ~overlapped => OneRowEach

\* The migration "removes duplicate rows that share the same infohash" and is
\* "safe to run multiple times": after it no torrent has two rows, and the index
\* "backstops the SELECT-then-INSERT check against concurrent sweeps".
CleanAfterBoot == [][boot # "up" /\ boot' = "up" => OneRowEach']_vars

\* When all sweeps are over the feed counts the rows that have a title, unless
\* one was killed or the migration dropped rows after the feed was built.
FeedFollows == crashes = 0 /\ sweeps > 0 /\ (\A s \in Sweepers : pc[s] = "idle") => feed = Titled
=============================================================================
