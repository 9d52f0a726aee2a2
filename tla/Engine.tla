------------------------------- MODULE Engine -------------------------------
(***************************************************************************)
(* How the torrent engine gets a new torrent ready to download             *)
(* (src/engine/engine.go, files.go, loop.go).  A torrent added without     *)
(* resume data stays in libtorrent's upload mode until its files carry     *)
(* their part names and the data a rename pointed at has been queued for   *)
(* a recheck.  The work is spread over the goroutine of the request that   *)
(* adds the torrent, the loop goroutine that handles libtorrent's events   *)
(* and libtorrent's own threads; an actor's label says which call it makes *)
(* next, and everything done under one hold of `mu` is one step.           *)
(*                                                                         *)
(* `client` and `disk` stand for libtorrent and the file system.  A file's *)
(* data is followed in one place: under its real name, under its part name *)
(* or nowhere.  Stopping, crashing and the seeding limits are modelled     *)
(* elsewhere; a Remove here stands for the user's and for endSeeding's.    *)
(***************************************************************************)
EXTENDS Integers, Sequences

CONSTANTS Torrents,     \* info hashes
          FileCount,    \* the number of files of each torrent
          Callers,      \* goroutines serving requests
          Loop,         \* the goroutine of loop()
          MaxAdds,      \* how many requests add one torrent
          MaxRefusals,  \* how many renames the disk refuses
          MaxQueue      \* queue lengths up to which peers and heals add work

ASSUME EngineAssumption ==
    /\ Loop \notin Callers
    /\ Torrents # {}
    /\ FileCount \in Nat
    /\ MaxAdds \in Nat /\ MaxRefusals \in Nat /\ MaxQueue \in Nat

VARIABLES sessions,   \* Go: the entry of each torrent, or NoEntry
          client,     \* libtorrent: one handle per torrent
          disk,       \* where each file's data is and whether it is all there
          renames,    \* renames libtorrent still has to carry out, in order
          events,     \* what ses.Events() returns next
          pc, loc,    \* each actor's next call and its local variables
          doomed,     \* torrents whose files deleteWithRetry still deletes
          adds,       \* requests so far to add each torrent
          refusals,   \* renames refused so far
          odd         \* history: the unusual things that befell each torrent

vars == <<sessions, client, disk, renames, events, pc, loc, doomed,
          adds, refusals, odd>>

Actors == Callers \cup {Loop}
Files == 1..FileCount

NoHandle == [here |-> FALSE, id |-> 0, meta |-> FALSE, upload |-> FALSE,
             checking |-> FALSE, name |-> [f \in Files |-> "real"],
             done |-> [f \in Files |-> FALSE]]

NoEntry == [id |-> 0, preparing |-> FALSE, pending |-> 0, recheck |-> FALSE]

\* A session entry; `id` tells the entry a pointer refers to from a later one.
Entry == [id: Nat, preparing: BOOLEAN, pending: Nat, recheck: BOOLEAN]

Names == {"real", "part"}

Handle == [here: BOOLEAN, id: Nat, meta: BOOLEAN, upload: BOOLEAN,
           checking: BOOLEAN, name: [Files -> Names], done: [Files -> BOOLEAN]]

Labels == {"idle", "status", "insert", "metadata", "fix", "rename", "finish",
           "recheck", "start", "drop"}

\* "progress" is "checked" or "file_completed", "renamed" is "file_renamed" or
\* "file_rename_failed": handleEvents treats the two of each alike.
Kinds == {"metadata", "progress", "renamed"}

\* An actor's torrent and entry pointer, what it read of the entry and of the
\* status, the renames it still has to ask for, and what fixPartNames returns.
Todo == SUBSET (Files \X Names)

Local == [t: Torrents, id: Nat, preparing: BOOLEAN, hasMeta: BOOLEAN,
          todo: Todo, n: Nat, recheck: BOOLEAN, delete: BOOLEAN]

NoLocal == [t |-> CHOOSE t \in Torrents : TRUE, id |-> 0, preparing |-> FALSE,
            hasMeta |-> FALSE, todo |-> {}, n |-> 0, recheck |-> FALSE,
            delete |-> FALSE]

\* refused:  a rename failed.
\* unlisted: an event was handled before add had written the entry.
\* early:    a rename's event was handled before the renames were counted.
\* twice:    onMetadata ran again before its first run had finished preparing.
\* crossed:  a Remove ran into another call on the torrent.
\* readded:  the torrent was added again after a Remove.
Oddities == {"refused", "unlisted", "early", "twice", "crossed", "readded"}

TypeOK ==
    /\ sessions \in [Torrents -> Entry]
    /\ client \in [Torrents -> Handle]
    /\ disk \in [Torrents -> [Files -> [at: Names \cup {"none"}, full: BOOLEAN]]]
    /\ renames \in Seq([t: Torrents, id: Nat, f: Files, to: Names])
    /\ events \in Seq([kind: Kinds, t: Torrents])
    /\ pc \in [Actors -> Labels]
    /\ loc \in [Actors -> Local]
    /\ doomed \in SUBSET Torrents
    /\ adds \in [Torrents -> Nat]
    /\ refusals \in Nat
    /\ odd \in [Torrents -> SUBSET Oddities]

Known(t) == sessions[t].id # 0
IsPreparing(t) == Known(t) /\ sessions[t].preparing

Goto(a, label) == pc' = [pc EXCEPT ![a] = label]
Emit(kind, t) == events' = Append(events, [kind |-> kind, t |-> t])
Note(t, what) == odd' = [odd EXCEPT ![t] = @ \cup what]

\* The actors other than a with a call on t under way.
Others(a, t) == {b \in Actors \ {a} : pc[b] # "idle" /\ loc[b].t = t}

Init ==
    /\ sessions = [t \in Torrents |-> NoEntry]
    /\ client = [t \in Torrents |-> NoHandle]
    /\ disk \in [Torrents -> [Files -> {[at |-> "none", full |-> FALSE],
                                        [at |-> "part", full |-> FALSE],
                                        [at |-> "part", full |-> TRUE],
                                        [at |-> "real", full |-> TRUE]}]]
    /\ renames = <<>> /\ events = <<>> 
    /\ pc = [a \in Actors |-> "idle"]
    /\ loc = [a \in Actors |-> NoLocal]
    /\ doomed = {} /\ refusals = 0
    /\ adds = [t \in Torrents |-> 0]
    /\ odd = [t \in Torrents |-> {}]
-----------------------------------------------------------------------------
(* libtorrent and the file system *)

\* Mutant: a .torrent file, its files being known, needs no upload mode.
FreshHandleReady(i, withMeta) ==
    [NoHandle EXCEPT !.here = TRUE, !.id = i, !.meta = withMeta,
                     !.checking = withMeta, !.upload = ~withMeta]

FreshHandle(i, withMeta) ==
    [NoHandle EXCEPT !.here = TRUE, !.id = i, !.meta = withMeta,
                     !.checking = withMeta, !.upload = TRUE]

\* A peer sent the metadata of a magnet: its files are checked from here on.
MetadataReceived(t) ==
    /\ client[t].here /\ ~client[t].meta
    /\ Len(events) < MaxQueue
    /\ client' = [client EXCEPT ![t].meta = TRUE, ![t].checking = TRUE]
    /\ Emit("metadata", t)
    /\ UNCHANGED <<sessions, disk, renames, pc, loc, doomed, adds, refusals, odd>>

\* The check of the data on disk ended.
TorrentChecked(t) ==
    /\ client[t].here /\ client[t].checking
    /\ Len(events) < MaxQueue
    /\ client' = [client EXCEPT
         ![t].checking = FALSE,
         ![t].done = [f \in Files |-> disk[t][f].full /\ disk[t][f].at = client[t].name[f]]]
    /\ Emit("progress", t)
    /\ UNCHANGED <<sessions, disk, renames, pc, loc, doomed, adds, refusals, odd>>

Downloading(t) ==
    client[t].here /\ client[t].meta /\ ~client[t].upload /\ ~client[t].checking

\* The first piece of a file is written under the name the file has now.
PieceWritten(t, f) ==
    /\ Downloading(t) /\ ~client[t].done[f]
    /\ disk[t][f].at # client[t].name[f]
    /\ disk' = [disk EXCEPT ![t][f] = [at |-> client[t].name[f], full |-> FALSE]]
    /\ UNCHANGED <<sessions, client, renames, events, pc, loc, doomed, adds, refusals, odd>>

\* The last one is.
FileCompleted(t, f) ==
    /\ Downloading(t) /\ ~client[t].done[f]
    /\ disk[t][f].at = client[t].name[f]
    /\ Len(events) < MaxQueue
    /\ disk' = [disk EXCEPT ![t][f].full = TRUE]
    /\ client' = [client EXCEPT ![t].done[f] = TRUE]
    /\ Emit("progress", t)
    /\ UNCHANGED <<sessions, renames, pc, loc, doomed, adds, refusals, odd>>

\* The oldest rename is carried out: the data, if there is any under the old
\* name, moves, and the event names only the info hash.  One for a handle that
\* was removed comes to nothing.
FileRenamed ==
    /\ renames # <<>>
    /\ LET r == Head(renames)
           old == client[r.t].name[r.f] IN
       IF client[r.t].here /\ client[r.t].id = r.id
       THEN /\ client' = [client EXCEPT ![r.t].name[r.f] = r.to]
            /\ disk' = IF disk[r.t][r.f].at = old
                       THEN [disk EXCEPT ![r.t][r.f].at = r.to] ELSE disk
            /\ Emit("renamed", r.t)
       ELSE UNCHANGED <<client, disk, events>>
    /\ renames' = Tail(renames)
    /\ UNCHANGED <<sessions, pc, loc, doomed, adds, refusals, odd>>

\* The disk refuses it, as when a player has the file open.
FileRenameFailed ==
    /\ renames # <<>>
    /\ refusals < MaxRefusals
    /\ LET r == Head(renames) IN
       /\ client[r.t].here /\ client[r.t].id = r.id
       /\ Emit("renamed", r.t)
       /\ Note(r.t, {"refused"})
    /\ renames' = Tail(renames)
    /\ refusals' = refusals + 1
    /\ UNCHANGED <<sessions, client, disk, pc, loc, doomed, adds>>

\* deleteWithRetry, on a goroutine of its own.
DeleteWithRetry(t) ==
    /\ t \in doomed
    /\ disk' = [disk EXCEPT ![t] = [f \in Files |-> [at |-> "none", full |-> FALSE]]]
    /\ doomed' = doomed \ {t}
    /\ UNCHANGED <<sessions, client, renames, events, pc, loc, adds, refusals, odd>>
-----------------------------------------------------------------------------
(* The calls of add, onMetadata, finishPreparing, onRenamed and Remove *)

\* The actor's routine is over: back to serving requests, or to the events.
Done(a) ==
    /\ Goto(a, "idle")
    /\ loc' = [loc EXCEPT ![a] = NoLocal]

\* add, for a magnet or a .torrent file: both are preparing, no hash being
\* known yet to find resume data by.  A torrent the client has already is left
\* as it is.
Add(c, t, isFile) ==
    /\ pc[c] = "idle" /\ adds[t] < MaxAdds
    /\ adds' = [adds EXCEPT ![t] = @ + 1]
    /\ client' = IF client[t].here THEN client
                 ELSE [client EXCEPT ![t] = FreshHandle(adds[t] + 1, isFile)]
    /\ Note(t, (IF adds[t] > 0 /\ ~client[t].here THEN {"readded"} ELSE {}) \cup
               (IF \E b \in Others(c, t) : pc[b] = "drop" THEN {"crossed"} ELSE {}))
    /\ Goto(c, "status")
    /\ loc' = [loc EXCEPT ![c] = [NoLocal EXCEPT !.t = t, !.id = adds[t] + 1]]
    /\ UNCHANGED <<sessions, disk, renames, events, doomed, refusals>>

AddStatus(c) ==
    /\ pc[c] = "status"
    /\ loc' = [loc EXCEPT ![c].hasMeta = client[loc[c].t].here /\ client[loc[c].t].meta]
    /\ Goto(c, "insert")
    /\ UNCHANGED <<sessions, client, disk, renames, events, doomed, adds, refusals, odd>>

AddInsert(c) ==
    LET t == loc[c].t IN
    /\ pc[c] = "insert"
    /\ IF Known(t)
       THEN Done(c) /\ UNCHANGED sessions
       ELSE /\ sessions' = [sessions EXCEPT ![t] =
                 [NoEntry EXCEPT !.id = loc[c].id, !.preparing = TRUE]]
            /\ IF loc[c].hasMeta
               THEN Goto(c, "metadata") /\ loc' = [loc EXCEPT ![c].hasMeta = FALSE]
               ELSE Done(c)
    /\ UNCHANGED <<client, disk, renames, events, doomed, adds, refusals, odd>>

\* onMetadata has been started on t's preparation before and has not ended it.
AlreadyOn(a, t) ==
    \/ \E b \in Others(a, t) : pc[b] \in {"metadata", "fix", "rename"}
    \/ sessions[t].preparing /\ sessions[t].pending > 0

\* onMetadata reads the entry; a torrent that has none is nobody's business.
\* What applySequential does to the piece priorities is left out.
OnMetadata(a) ==
    LET t == loc[a].t IN
    /\ pc[a] = "metadata"
    /\ IF Known(t)
       THEN /\ loc' = [loc EXCEPT ![a].id = sessions[t].id,
                                  ![a].preparing = sessions[t].preparing]
            /\ Goto(a, "fix")
            /\ Note(t, IF AlreadyOn(a, t) THEN {"twice"} ELSE {})
       ELSE Done(a) /\ UNCHANGED odd
    /\ UNCHANGED <<sessions, client, disk, renames, events, doomed, adds, refusals>>

\* partName: while preparing a file keeps its real name only if it is on disk
\* under it; afterwards, once it is complete.
PartName(t, f, preparing) ==
    LET unfinished == IF preparing THEN disk[t][f].at # "real" ELSE ~client[t].done[f]
    IN  IF unfinished THEN "part" ELSE "real"

\* The renames fixPartNames asks for by the status of t: none without the
\* metadata, and none during a check unless the torrent is preparing.
Renames(t, preparing) ==
    {r \in Files \X Names :
        /\ client[t].here /\ client[t].meta
        /\ preparing \/ ~client[t].checking
        /\ r[2] = PartName(t, r[1], preparing)
        /\ r[2] # client[t].name[r[1]]}

Request(t, r) == [t |-> t, id |-> client[t].id, f |-> r[1], to |-> r[2]]

FixPartNames(a) ==
    /\ pc[a] = "fix"
    /\ loc' = [loc EXCEPT ![a].todo = Renames(loc[a].t, loc[a].preparing)]
    /\ Goto(a, "rename")
    /\ UNCHANGED <<sessions, client, disk, renames, events, doomed, adds, refusals, odd>>

\* ses.RenameFile, file by file, and the look whether data is there already.
RenameFile(a) ==
    /\ pc[a] = "rename"
    /\ \E r \in loc[a].todo :
         LET t == loc[a].t
             asked == client[t].here IN
         /\ \A s \in loc[a].todo : r[1] <= s[1]
         /\ renames' = IF asked
                       THEN Append(renames, Request(t, r))
                       ELSE renames
         /\ loc' = [loc EXCEPT
              ![a].todo = @ \ {r},
              ![a].n = IF asked THEN @ + 1 ELSE @,
              ![a].recheck = @ \/ (asked /\ disk[t][r[1]].at = r[2])]
    /\ UNCHANGED <<sessions, client, disk, events, pc, doomed, adds, refusals, odd>>

\* Back in onMetadata: while preparing, the count goes into the entry the
\* pointer refers to.
SetPending(a) ==
    LET t == loc[a].t IN
    /\ pc[a] = "rename" /\ loc[a].todo = {}
    /\ IF loc[a].preparing
       THEN /\ sessions' = IF sessions[t].id = loc[a].id
                           THEN [sessions EXCEPT ![t].pending = loc[a].n,
                                                 ![t].recheck = loc[a].recheck]
                           ELSE sessions
            /\ IF loc[a].n = 0
               THEN Goto(a, "finish") /\ loc' = [loc EXCEPT ![a] = [NoLocal EXCEPT !.t = t]]
               ELSE Done(a)
       ELSE Done(a) /\ UNCHANGED sessions
    /\ UNCHANGED <<client, disk, renames, events, doomed, adds, refusals, odd>>

\* Mutant: the recheck flag is cleared before it is looked at.
FinishWithoutRecheck(a) ==
    /\ pc[a] = "finish"
    /\ sessions' = [sessions EXCEPT ![loc[a].t].preparing = FALSE,
                                    ![loc[a].t].recheck = FALSE]
    /\ Goto(a, "start")
    /\ UNCHANGED <<client, disk, renames, events, loc, doomed, adds, refusals, odd>>

FinishPreparing(a) ==
    LET t == loc[a].t IN
    /\ pc[a] = "finish"
    /\ sessions' = [sessions EXCEPT ![t].preparing = FALSE, ![t].recheck = FALSE]
    /\ Goto(a, IF sessions[t].recheck THEN "recheck" ELSE "start")
    /\ UNCHANGED <<client, disk, renames, events, loc, doomed, adds, refusals, odd>>

ForceRecheck(a) ==
    LET t == loc[a].t IN
    /\ pc[a] = "recheck"
    /\ client' = IF client[t].here /\ client[t].meta
                 THEN [client EXCEPT ![t].checking = TRUE] ELSE client
    /\ Goto(a, "start")
    /\ UNCHANGED <<sessions, disk, renames, events, loc, doomed, adds, refusals, odd>>

LeaveUploadMode(a) ==
    LET t == loc[a].t IN
    /\ pc[a] = "start"
    /\ client' = IF client[t].here THEN [client EXCEPT ![t].upload = FALSE] ELSE client
    /\ Done(a)
    /\ UNCHANGED <<sessions, disk, renames, events, doomed, adds, refusals, odd>>

\* Remove: the status tells the paths, then the client drops the torrent ...
RemoveFromClient(c, t, deleteFiles) ==
    /\ pc[c] = "idle" /\ client[t].here
    /\ client' = [client EXCEPT ![t] = NoHandle]
    /\ Goto(c, "drop")
    /\ loc' = [loc EXCEPT ![c] = [NoLocal EXCEPT
                 !.t = t, !.delete = deleteFiles /\ client[t].meta]]
    /\ Note(t, IF Others(c, t) # {} THEN {"crossed"} ELSE {})
    /\ UNCHANGED <<sessions, disk, renames, events, doomed, adds, refusals>>

\* Mutant: a torrent whose files are kept keeps its entry too.
RemoveEntryWithFiles(c) ==
    LET t == loc[c].t IN
    /\ pc[c] = "drop"
    /\ sessions' = IF loc[c].delete THEN [sessions EXCEPT ![t] = NoEntry] ELSE sessions
    /\ doomed' = IF loc[c].delete THEN doomed \cup {t} ELSE doomed
    /\ Done(c)
    /\ Note(t, IF Others(c, t) # {} THEN {"crossed"} ELSE {})
    /\ UNCHANGED <<client, disk, renames, events, adds, refusals>>

\* ... the entry goes, and a goroutine deletes the files.
RemoveEntry(c) ==
    LET t == loc[c].t IN
    /\ pc[c] = "drop"
    /\ sessions' = [sessions EXCEPT ![t] = NoEntry]
    /\ doomed' = IF loc[c].delete THEN doomed \cup {t} ELSE doomed
    /\ Done(c)
    /\ Note(t, IF Others(c, t) # {} THEN {"crossed"} ELSE {})
    /\ UNCHANGED <<client, disk, renames, events, adds, refusals>>
-----------------------------------------------------------------------------
(* loop *)

\* handleEvents works through what ses.Events() returned, in order.  Since
\* libtorrent only appends, it takes the oldest event when it gets to it.
NextOfKind(kind) ==
    /\ pc[Loop] = "idle" /\ events # <<>>
    /\ Head(events).kind = kind
    /\ events' = Tail(events)

\* What happens to an event of a torrent the client has and add has not entered.
Unlisted(t) == IF client[t].here /\ ~Known(t) THEN {"unlisted"} ELSE {}

LoopTakes(label, t) ==
    /\ Goto(Loop, label)
    /\ loc' = [loc EXCEPT ![Loop] = [NoLocal EXCEPT !.t = t]]

\* The lists of a set of renames in the order of the files.
InFileOrder(rs) ==
    {q \in UNION {[1..n -> rs] : n \in 0..FileCount} :
        /\ \A r \in rs : \E i \in DOMAIN q : q[i] = r
        /\ \A i, j \in DOMAIN q : i < j => q[i][1] < q[j][1]}

\* fixPartNames(hash, false) as the loop calls it, dropping the result.  Nobody
\* else touches the names of a torrent that is done preparing.
PutNamesRight(t) ==
    \E q \in InFileOrder(Renames(t, FALSE)) :
        renames' = renames \o [i \in DOMAIN q |-> Request(t, q[i])]

HandleMetadata ==
    /\ NextOfKind("metadata")
    /\ LoopTakes("metadata", Head(events).t)
    /\ Note(Head(events).t, Unlisted(Head(events).t))
    /\ UNCHANGED <<sessions, client, disk, renames, doomed, adds, refusals>>

\* "checked" and "file_completed" put the names right, unless preparing.
HandleProgress ==
    /\ NextOfKind("progress")
    /\ LET t == Head(events).t IN
       /\ IF IsPreparing(t) THEN UNCHANGED renames ELSE PutNamesRight(t)
       /\ Note(t, Unlisted(t))
    /\ UNCHANGED <<sessions, client, disk, pc, loc, doomed, adds, refusals>>

\* Mutant: finishes at the first rename, not the last.
HandleFirstRenamed ==
    /\ NextOfKind("renamed")
    /\ LET t == Head(events).t
           counts == IsPreparing(t) /\ sessions[t].pending > 0 IN
       /\ sessions' = IF counts THEN [sessions EXCEPT ![t].pending = @ - 1] ELSE sessions
       /\ IF counts THEN LoopTakes("finish", t) ELSE UNCHANGED <<pc, loc>>
       /\ Note(t, IF IsPreparing(t) /\ ~counts THEN {"early"} ELSE {})
    /\ UNCHANGED <<client, disk, renames, doomed, adds, refusals>>

\* Mutant: compares the count of before the decrement.
HandleRenamedLate ==
    /\ NextOfKind("renamed")
    /\ LET t == Head(events).t
           counts == IsPreparing(t) /\ sessions[t].pending > 0 IN
       /\ sessions' = IF counts THEN [sessions EXCEPT ![t].pending = @ - 1] ELSE sessions
       /\ IF counts /\ sessions[t].pending = 0
          THEN LoopTakes("finish", t) ELSE UNCHANGED <<pc, loc>>
       /\ Note(t, IF IsPreparing(t) /\ ~counts THEN {"early"} ELSE {})
    /\ UNCHANGED <<client, disk, renames, doomed, adds, refusals>>

\* Mutant: counts renames nobody waits for.
HandleAnyRenamed ==
    /\ NextOfKind("renamed")
    /\ LET t == Head(events).t IN
       /\ sessions' = IF IsPreparing(t) THEN [sessions EXCEPT ![t].pending = @ - 1]
                      ELSE sessions
       /\ IF IsPreparing(t) /\ sessions[t].pending = 1
          THEN LoopTakes("finish", t) ELSE UNCHANGED <<pc, loc>>
       /\ Note(t, {})
    /\ UNCHANGED <<client, disk, renames, doomed, adds, refusals>>

\* onRenamed, for a rename that succeeded and for one that failed.
HandleRenamed ==
    /\ NextOfKind("renamed")
    /\ LET t == Head(events).t
           counts == IsPreparing(t) /\ sessions[t].pending > 0 IN
       /\ sessions' = IF counts THEN [sessions EXCEPT ![t].pending = @ - 1] ELSE sessions
       /\ IF counts /\ sessions[t].pending = 1
          THEN LoopTakes("finish", t)
          ELSE UNCHANGED <<pc, loc>>
       /\ Note(t, IF IsPreparing(t) /\ ~counts THEN {"early"} ELSE {})
    /\ UNCHANGED <<client, disk, renames, doomed, adds, refusals>>

\* Mutant: heals the unfinished torrents only.
HealUnfinished(t) ==
    /\ pc[Loop] = "idle"
    /\ Len(renames) < MaxQueue /\ Len(events) < MaxQueue
    /\ Known(t) /\ ~sessions[t].preparing
    /\ \E f \in Files : ~client[t].done[f]
    /\ PutNamesRight(t)
    /\ UNCHANGED <<sessions, client, disk, events, pc, loc, doomed, adds, refusals, odd>>

\* Every thirty ticks healPartNames takes the torrents that are not preparing.
HealPartNames(t) ==
    /\ pc[Loop] = "idle"
    /\ Len(renames) < MaxQueue /\ Len(events) < MaxQueue
    /\ Known(t) /\ ~sessions[t].preparing
    /\ PutNamesRight(t)
    /\ UNCHANGED <<sessions, client, disk, events, pc, loc, doomed, adds, refusals, odd>>
-----------------------------------------------------------------------------
\* The rest of a routine an actor has begun.
Continue(a) ==
    \/ AddStatus(a) \/ AddInsert(a) \/ OnMetadata(a) \/ FixPartNames(a)
    \/ RenameFile(a) \/ SetPending(a) \/ FinishPreparing(a) \/ ForceRecheck(a)
    \/ LeaveUploadMode(a) \/ RemoveEntry(a)

HandleEvents == HandleMetadata \/ HandleProgress \/ HandleRenamed

Requests(c) ==
    \E t \in Torrents, flag \in BOOLEAN : Add(c, t, flag) \/ RemoveFromClient(c, t, flag)

Client(t) ==
    \/ MetadataReceived(t) \/ TorrentChecked(t) \/ DeleteWithRetry(t)
    \/ \E f \in Files : PieceWritten(t, f) \/ FileCompleted(t, f)

Next ==
    \/ \E c \in Callers : Requests(c)
    \/ \E a \in Actors : Continue(a)
    \/ HandleEvents
    \/ \E t \in Torrents : HealPartNames(t) \/ Client(t)
    \/ FileRenamed \/ FileRenameFailed

\* Goroutines run on, the loop ticks, libtorrent carries out renames and
\* checks.  Nothing promises that requests come, that peers send anything.
Fairness ==
    /\ \A a \in Actors : WF_vars(Continue(a))
    /\ SF_vars(HandleEvents)
    /\ \A t \in Torrents : SF_vars(HealPartNames(t)) /\ WF_vars(TorrentChecked(t))
    /\ WF_vars(FileRenamed)

Spec == Init /\ [][Next]_vars
FairSpec == Spec /\ Fairness
-----------------------------------------------------------------------------
(* Properties *)

\* "It stays in upload mode, connected but downloading nothing, until its files
\* have their part names": while the entry says preparing, the client does not
\* download the torrent.  Only a Remove in the middle of something else, or an
\* add after a Remove, can undo that.
PreparingHolds ==
    \A t \in Torrents :
        IsPreparing(t) /\ client[t].here /\ odd[t] \cap {"crossed", "readded"} = {}
            => client[t].upload

\* A file that was on disk nowhere gets its first data under its part name.  Its
\* real name it may get only if a rename was refused, an event was handled before
\* add had written the entry, onMetadata ran twice at once, a Remove ran into
\* another call or the torrent was added again; a rename's event that was not
\* counted ("early") is no excuse.
HiddenUntilFinished ==
    [][\A t \in Torrents, f \in Files :
          /\ disk[t][f].at = "none" /\ disk'[t][f].at = "real"
          => odd[t] \ {"early"} # {}]_vars

KnowsItsData(t) ==
    \A f \in Files : disk[t][f].full /\ disk[t][f].at = client[t].name[f] => client[t].done[f]

\* A torrent that left preparation knows what is on disk: a rename that points at
\* data is followed by a recheck before anything is fetched.  Of what may befall it
\* only events not counted ("early") are allowed for: refused renames, events
\* handled before the entry was there, two runs of onMetadata at once, a Remove
\* across another call and a second add may each lose the recheck.
DataOnDiskKnown ==
    \A t \in Torrents : Downloading(t) /\ odd[t] \subseteq {"early"} => KnowsItsData(t)

\* finishPreparing lets the torrent download "after rechecking the data on disk
\* when a rename pointed it at data libtorrent hasn't checked yet": the same also
\* when the request that adds a torrent and the loop both run onMetadata.
DataRechecked ==
    \A t \in Torrents : Downloading(t) /\ odd[t] \subseteq {"early", "twice"} => KnowsItsData(t)

\* When nobody is at work on a torrent, the engine has an entry for it exactly
\* if the client has the torrent, so List and a restart show what really runs.
EntriesMatchClient ==
    \A t \in Torrents :
        /\ \A a \in Actors : pc[a] = "idle" \/ loc[a].t # t
        /\ "crossed" \notin odd[t]
        => (Known(t) <=> client[t].here)

\* onRenamed "counts down a preparing torrent's renames and finishes preparing it
\* after the last": a torrent with its metadata is let go by the preparation,
\* refused renames or not.  Excepted are a rename's event that was handled before
\* the renames were counted, an event before add had written the entry, two runs of
\* onMetadata at once, a Remove across another call and a second add.
PreparationEnds ==
    \A t \in Torrents :
        IsPreparing(t) /\ client[t].meta
            ~> ~IsPreparing(t) \/ odd[t] \ {"refused"} # {}

\* "retried by healPartNames": a complete file of a torrent that is done
\* preparing gets its real name however often the disk refused before.
FinishedFilesShown ==
    \A t \in Torrents, f \in Files :
        Known(t) /\ ~sessions[t].preparing /\ client[t].done[f]
            ~> client[t].name[f] = "real" \/ ~client[t].done[f] \/ ~Known(t)
=============================================================================
