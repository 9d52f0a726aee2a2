------------------------------ MODULE Library -------------------------------
(***************************************************************************)
(* How the files in the media folders get into the library and onto the    *)
(* screen (src/walker/walker.go, db/feed.go, event-bus/EventBus.go and the *)
(* listener of main.go).  The watcher waits until a path has been quiet    *)
(* and then sweeps it; a full sweep, guarded by the file sweep.lock, walks *)
(* everything.  Both insert rows, look up titles, drop the rows of files   *)
(* that are gone, rebuild the feed and tell the browser to reload.         *)
(*                                                                         *)
(* An entry is what lies directly under a watched folder: a file, or a     *)
(* release folder with the files under it.  The title a row is matched to  *)
(* is reduced to whether it has one.  Genres, which a full sweep reprocesses, *)
(* and the feed of torrents do not matter to the files and are left out,   *)
(* as are panics.                                                          *)
(***************************************************************************)
EXTENDS Integers, Sequences, FiniteSets

CONSTANTS Entries,     \* paths directly under the watched folders
          Files,       \* media files
          EntryOf,     \* the entry a file lies in
          Sweepers,    \* goroutines of full sweeps: tray, schedule, browser
          Watchers,    \* goroutines of the timers that have fired
          Nobody,
          MaxChanges,  \* how often a file comes or goes
          MaxSweeps    \* how many full sweeps are asked for

ASSUME LibraryAssumption ==
    /\ IsFiniteSet(Files) /\ Entries # {}
    /\ EntryOf \in [Files -> Entries]
    /\ Sweepers \cap Watchers = {}
    /\ Nobody \notin Sweepers \cup Watchers
    /\ MaxChanges \in Nat /\ MaxSweeps \in Nat

VARIABLES disk,       \* the files there are
          rows,       \* mediaFile: each file's row
          lastId,     \* the last row id given out
          feed, ui,   \* the rows in feed_folders, and those the browser shows
          reloading,  \* the browser has been told to reload and has not yet
          timers,     \* the map of timers: each entry's captured event
          orphans,    \* timers running that the map has forgotten
          lock,       \* sweep.lock exists
          queue, replying,  \* dataChannel, and the request being answered
          pc, loc,    \* each goroutine's next call and its local variables
          changes, sweeps,
          odd         \* history: the unusual things that happened

vars == <<disk, rows, lastId, feed, ui, reloading, timers, orphans, lock,
          queue, replying, pc, loc, changes, sweeps, odd>>

library == <<rows, lastId>>
screen  == <<feed, ui, reloading>>
watch   == <<timers, orphans>>
bus     == <<queue, replying>>
bounds  == <<changes, sweeps>>

Actors == Sweepers \cup Watchers

Ops == {"create", "remove", "rename", "write"}
NoTimer == [op |-> "none", armed |-> FALSE]
NoRow == [id |-> 0, titled |-> FALSE]

\* What a goroutine does: a watcher's callback sweeps, resyncs or prunes.
Tasks == {"full", "sweep", "resync", "prune"}
NoLocal == [task |-> "full", entry |-> CHOOSE e \in Entries : TRUE, found |-> {},
            todo |-> {}, total |-> 0, titled |-> FALSE, changed |-> FALSE,
            early |-> FALSE]

Labels == {"idle", "lock", "walk", "known", "insert", "match", "list", "prune",
           "delete", "rebuild", "reload", "unlock", "send", "sent", "waiting"}

RowRefs == Files \X Nat

\* staleOp:    a timer kept an event of another kind than the last one.
\* overlapped: two callbacks of one entry ran at once.
\* unlocked:   two full sweeps got past sweep.lock.
\* miscounted: a sweep took a title it found for no change.
\* returned:   a row was deleted whose file had come back since it was looked for.
Oddities == {"staleOp", "overlapped", "unlocked", "miscounted", "returned"}

TypeOK ==
    /\ disk \in SUBSET Files
    /\ rows \in [Files -> [id: Nat, titled: BOOLEAN]]
    /\ lastId \in Nat
    /\ feed \in SUBSET RowRefs /\ ui \in SUBSET RowRefs /\ reloading \in BOOLEAN
    /\ timers \in [Entries -> [op: Ops, armed: BOOLEAN] \cup {NoTimer}]
    /\ orphans \in SUBSET (Entries \X Ops)
    /\ lock \in BOOLEAN
    /\ queue \in Seq(Actors) /\ replying \in Actors \cup {Nobody}
    /\ pc \in [Actors -> Labels]
    /\ loc \in [Actors -> [task: Tasks, entry: Entries, found: SUBSET Files,
                           todo: SUBSET RowRefs, total: Nat, titled: BOOLEAN,
                           changed: BOOLEAN, early: BOOLEAN]]
    /\ changes \in 0..MaxChanges /\ sweeps \in 0..MaxSweeps
    /\ odd \in SUBSET Oddities

HasRow(f) == rows[f].id # 0
Ref(f) == <<f, rows[f].id>>
Rows == {Ref(f) : f \in {g \in Files : HasRow(g)}}
Unmatched == {Ref(f) : f \in {g \in Files : HasRow(g) /\ ~rows[g].titled}}
Titled == {Ref(f) : f \in {g \in Files : HasRow(g) /\ rows[g].titled}}
FilesIn(e) == {f \in disk : EntryOf[f] = e}

FirstId == CHOOSE g \in [Files -> 1..Cardinality(Files)] :
              \A f, h \in Files : g[f] = g[h] => f = h

\* The rows a goroutine has listed come in the order of their ids.
First(a, r) == r \in loc[a].todo /\ \A q \in loc[a].todo : r[2] <= q[2]

Init ==
    /\ disk \in SUBSET Files
    /\ rows = [f \in Files |-> IF f \in disk THEN [id |-> FirstId[f], titled |-> TRUE]
                                              ELSE NoRow]
    /\ lastId = Cardinality(Files)
    /\ feed = Titled /\ ui = feed /\ reloading = FALSE
    /\ timers = [e \in Entries |-> NoTimer] /\ orphans = {}
    /\ lock = FALSE /\ queue = <<>> /\ replying = Nobody
    /\ pc = [a \in Actors |-> "idle"]
    /\ loc = [a \in Actors |-> NoLocal]
    /\ changes = 0 /\ sweeps = 0 /\ odd = {}

Goto(a, label) == pc' = [pc EXCEPT ![a] = label]
Set(a, l) == loc' = [loc EXCEPT ![a] = l]
-----------------------------------------------------------------------------
(* Files come and go, and the watcher waits for each entry to settle *)

\* The first event of an entry sets its timer, which remembers that event; a
\* later one restarts the timer, whatever has happened meanwhile.
Event(e, op) ==
    /\ timers' = [timers EXCEPT ![e] =
         [op |-> IF @.op = "none" THEN op ELSE @.op, armed |-> TRUE]]
    /\ odd' = IF timers[e].op \in {"none", op} THEN odd ELSE odd \cup {"staleOp"}

FileComes(f) ==
    /\ f \notin disk /\ changes < MaxChanges
    /\ disk' = disk \cup {f}
    /\ Event(EntryOf[f], IF FilesIn(EntryOf[f]) = {} THEN "create" ELSE "write")
    /\ changes' = changes + 1
    /\ UNCHANGED <<library, screen, orphans, lock, bus, pc, loc, sweeps>>

\* The entry goes with its last file, deleted or moved away.
FileGoes(f) ==
    /\ f \in disk /\ changes < MaxChanges
    /\ disk' = disk \ {f}
    /\ IF FilesIn(EntryOf[f]) = {f}
       THEN \E op \in {"remove", "rename"} : Event(EntryOf[f], op)
       ELSE Event(EntryOf[f], "write")
    /\ changes' = changes + 1
    /\ UNCHANGED <<library, screen, orphans, lock, bus, pc, loc, sweeps>>

\* Mutant: what was moved away is looked for under its old path only.
TaskOfNoResync(op, e) ==
    CASE op \in {"create", "rename"} -> "sweep"
      [] op = "remove" -> "prune"
      [] op = "write"  -> IF FilesIn(e) = {} THEN "prune" ELSE "resync"

\* What the callback does for the event its timer remembered.  A write to a
\* folder that is gone counts as a removal.
TaskOf(op, e) ==
    CASE op = "create" -> "sweep"
      [] op = "remove" -> "prune"
      [] op = "rename" -> "resync"
      [] op = "write"  -> IF FilesIn(e) = {} THEN "prune" ELSE "resync"

\* A callback of the entry's timer is running.
Busy(v, e) == pc[v] # "idle" /\ loc[v].entry = e

Call(w, e, op) ==
    LET task == TaskOf(op, e) IN
    /\ pc[w] = "idle"
    /\ Goto(w, IF task = "prune" THEN "list" ELSE "walk")
    /\ Set(w, [NoLocal EXCEPT !.task = task, !.entry = e])
    /\ odd' = IF \E v \in Watchers : Busy(v, e) THEN odd \cup {"overlapped"} ELSE odd
    /\ UNCHANGED <<disk, library, screen, lock, bus, bounds>>

\* A timer that has fired stays in the map until its callback returns.
TimerFires(w, e) ==
    /\ timers[e].armed
    /\ Call(w, e, timers[e].op)
    /\ timers' = [timers EXCEPT ![e].armed = FALSE]
    /\ UNCHANGED orphans

OrphanFires(w, o) ==
    /\ Call(w, o[1], o[2])
    /\ orphans' = orphans \ {o}
    /\ UNCHANGED timers

\* Mutant: forgets the event of the timer and not that it is running.
ReturnForgets(w) ==
    /\ Goto(w, "idle") /\ Set(w, NoLocal)
    /\ timers' = [timers EXCEPT ![loc[w].entry].op = "none"]
    /\ UNCHANGED orphans

\* The callback returns and takes its entry's timer off the map, even one that
\* has been restarted and will fire all the same.
Return(w) ==
    LET e == loc[w].entry IN
    /\ Goto(w, "idle") /\ Set(w, NoLocal)
    /\ timers' = [timers EXCEPT ![e] = NoTimer]
    /\ orphans' = IF timers[e].armed THEN orphans \cup {<<e, timers[e].op>>} ELSE orphans
-----------------------------------------------------------------------------
(* FullSweep and its lock *)

\* Mutant: does not mind the lock.
FullSweepAnyway(s) ==
    /\ pc[s] = "idle" /\ sweeps < MaxSweeps
    /\ sweeps' = sweeps + 1
    /\ Goto(s, "lock")
    /\ UNCHANGED <<disk, library, screen, watch, lock, bus, loc, changes, odd>>

\* Asked for from the tray, by the schedule or by a browser.
FullSweep(s) ==
    /\ pc[s] = "idle" /\ sweeps < MaxSweeps
    /\ sweeps' = sweeps + 1
    /\ IF lock THEN UNCHANGED pc ELSE Goto(s, "lock")
    /\ UNCHANGED <<disk, library, screen, watch, lock, bus, loc, changes, odd>>

\* os.Create does not mind that the file has been created since the look.
CreateLock(s) ==
    /\ pc[s] = "lock"
    /\ lock' = TRUE
    /\ odd' = IF \E r \in Sweepers \ {s} : pc[r] = "lock"
              THEN odd \cup {"unlocked"} ELSE odd
    /\ Goto(s, "walk")
    /\ Set(s, [NoLocal EXCEPT !.task = "full"])
    /\ UNCHANGED <<disk, library, screen, watch, bus, bounds>>

Working(s) == pc[s] \notin {"idle", "lock", "send", "sent", "waiting"} \/ loc[s].early

\* releaseLock, by the full sweep that made the lock at its end, or by any
\* sweep that finds no files.
Unlock(a) ==
    /\ pc[a] = "unlock"
    /\ lock' = FALSE
    /\ odd' = IF loc[a].early /\ \E s \in Sweepers : Working(s)
              THEN odd \cup {"unlocked"} ELSE odd
    /\ Goto(a, "send")
    /\ UNCHANGED <<disk, library, screen, watch, bus, loc, bounds>>

\* SendEvent: the request is queued first, the answer awaited afterwards.
Send(a) ==
    /\ pc[a] = "send"
    /\ queue' = Append(queue, a)
    /\ Goto(a, "sent")
    /\ UNCHANGED <<disk, library, screen, watch, lock, replying, loc, bounds, odd>>

AwaitReply(a) ==
    /\ pc[a] = "sent"
    /\ Goto(a, "waiting")
    /\ UNCHANGED <<disk, library, screen, watch, lock, bus, loc, bounds, odd>>

\* The listener takes a request ...
Receive ==
    /\ replying = Nobody /\ queue # <<>>
    /\ replying' = Head(queue)
    /\ queue' = Tail(queue)
    /\ UNCHANGED <<disk, library, screen, watch, lock, pc, loc, bounds, odd>>

\* The sender goes on: after a sweep without files with what the task has left,
\* after a full sweep with nothing.
Resume(a) ==
    IF loc[a].early
    THEN CASE loc[a].task = "sweep" -> Return(a)
           [] OTHER -> /\ Goto(a, "list") /\ Set(a, [loc[a] EXCEPT !.early = FALSE])
                       /\ UNCHANGED watch
    ELSE Goto(a, "idle") /\ Set(a, NoLocal) /\ UNCHANGED watch

\* ... and answers it if the sender is waiting, else drops the answer.
Reply ==
    /\ replying # Nobody
    /\ IF pc[replying] = "waiting" THEN Resume(replying)
       ELSE UNCHANGED <<pc, loc, watch>>
    /\ replying' = Nobody
    /\ UNCHANGED <<disk, library, screen, lock, queue, bounds, odd>>
-----------------------------------------------------------------------------
(* Sweep and removeDeletedMediaFiles *)

Walk(a) ==
    LET found == IF loc[a].task = "full" THEN disk ELSE FilesIn(loc[a].entry) IN
    /\ pc[a] = "walk"
    /\ IF found = {}
       THEN Goto(a, "unlock") /\ Set(a, [loc[a] EXCEPT !.early = TRUE])
       ELSE Goto(a, "known") /\ Set(a, [loc[a] EXCEPT !.found = found])
    /\ UNCHANGED <<disk, library, screen, watch, lock, bus, bounds, odd>>

\* insertMediaFilesToDB reads which paths have rows and inserts the others.
ReadKnown(a) ==
    /\ pc[a] = "known"
    /\ Set(a, [loc[a] EXCEPT !.found = {f \in @ : ~HasRow(f)}])
    /\ Goto(a, "insert")
    /\ UNCHANGED <<disk, library, screen, watch, lock, bus, bounds, odd>>

\* The path is unique: a row somebody else inserted since is not a change.
Insert(a, f) ==
    /\ pc[a] = "insert" /\ f \in loc[a].found
    /\ IF HasRow(f) THEN UNCHANGED library
       ELSE /\ rows' = [rows EXCEPT ![f] = [id |-> lastId + 1, titled |-> FALSE]]
            /\ lastId' = lastId + 1
    /\ Set(a, [loc[a] EXCEPT !.found = @ \ {f}, !.changed = @ \/ ~HasRow(f)])
    /\ UNCHANGED <<disk, screen, watch, lock, bus, pc, bounds, odd>>

ReadUnmatched(a) ==
    /\ pc[a] = "insert" /\ loc[a].found = {}
    /\ Set(a, [loc[a] EXCEPT !.todo = Unmatched, !.total = Cardinality(Unmatched)])
    /\ Goto(a, "match")
    /\ UNCHANGED <<disk, library, screen, watch, lock, bus, bounds, odd>>

\* GetMetaDataAndSaveToDB finds a title for the row read before, or none.  A row
\* deleted since is not updated; nor is one without a title, since the title 0
\* HandleMetaDataGettingErr sets is no title and the foreign key refuses it.
Match(a, r) ==
    LET row == rows[r[1]] IN
    /\ pc[a] = "match" /\ First(a, r)
    /\ \E found \in BOOLEAN :
         IF found /\ row.id = r[2]
         THEN /\ rows' = [rows EXCEPT ![r[1]].titled = TRUE]
              /\ Set(a, [loc[a] EXCEPT !.todo = @ \ {r}, !.titled = @ \/ ~row.titled])
         ELSE UNCHANGED rows /\ Set(a, [loc[a] EXCEPT !.todo = @ \ {r}])
    /\ UNCHANGED <<disk, lastId, screen, watch, lock, bus, pc, bounds, odd>>

\* A callback that changed nothing is over; a full sweep always goes on.
AfterTask(a, changed) ==
    IF loc[a].task = "full" \/ changed
    THEN /\ Goto(a, "rebuild") /\ Set(a, [loc[a] EXCEPT !.changed = changed, !.titled = FALSE])
         /\ UNCHANGED watch
    ELSE Return(a)

\* Mutant: only a new file is a change.
SweepDoneNewFiles(a) ==
    /\ pc[a] = "match" /\ loc[a].todo = {}
    /\ IF loc[a].task = "sweep" THEN AfterTask(a, loc[a].changed)
       ELSE /\ Goto(a, "list") /\ Set(a, [loc[a] EXCEPT !.total = 0, !.titled = FALSE])
            /\ UNCHANGED watch
    /\ UNCHANGED <<disk, library, screen, lock, bus, bounds, odd>>

\* Sweep is over: it changed the library if fewer files lack metadata now, those
\* others inserted meanwhile included.
SweepDone(a) ==
    LET changed == \/ loc[a].changed
                   \/ loc[a].total > 0 /\ Cardinality(Unmatched) < loc[a].total IN
    /\ pc[a] = "match" /\ loc[a].todo = {}
    /\ IF loc[a].task = "sweep" THEN AfterTask(a, changed)
       ELSE /\ Goto(a, "list")
            /\ Set(a, [loc[a] EXCEPT !.changed = changed, !.total = 0, !.titled = FALSE])
            /\ UNCHANGED watch
    /\ odd' = IF loc[a].titled /\ ~changed THEN odd \cup {"miscounted"} ELSE odd
    /\ UNCHANGED <<disk, library, screen, lock, bus, bounds>>

\* removeAllDeletedMediaFiles reads all rows, ...
ListRows(a) ==
    /\ pc[a] = "list"
    /\ Set(a, [loc[a] EXCEPT !.todo = Rows])
    /\ Goto(a, "prune")
    /\ UNCHANGED <<disk, library, screen, watch, lock, bus, bounds, odd>>

\* ... looks for the file of each, ...
Look(a, r) ==
    /\ pc[a] = "prune" /\ First(a, r)
    /\ IF r[1] \in disk THEN Set(a, [loc[a] EXCEPT !.todo = @ \ {r}]) /\ UNCHANGED pc
       ELSE Goto(a, "delete") /\ UNCHANGED loc
    /\ UNCHANGED <<disk, library, screen, watch, lock, bus, bounds, odd>>

\* ... and deletes the row if there was none.  What counts is that the statement
\* succeeds, not that the row was still there.
DeleteRow(a, r) ==
    LET there == rows[r[1]].id = r[2] IN
    /\ pc[a] = "delete" /\ First(a, r)
    /\ rows' = IF there THEN [rows EXCEPT ![r[1]] = NoRow] ELSE rows
    /\ Goto(a, "prune")
    /\ Set(a, [loc[a] EXCEPT !.todo = @ \ {r}, !.changed = TRUE])
    /\ odd' = IF there /\ r[1] \in disk THEN odd \cup {"returned"} ELSE odd
    /\ UNCHANGED <<disk, lastId, screen, watch, lock, bus, bounds>>

PruneDone(a) ==
    /\ pc[a] = "prune" /\ loc[a].todo = {}
    /\ AfterTask(a, loc[a].changed)
    /\ UNCHANGED <<disk, library, screen, lock, bus, bounds, odd>>

\* RebuildFeeds, a transaction under its mutex.
RebuildFeeds(a) ==
    /\ pc[a] = "rebuild"
    /\ feed' = Titled
    /\ Goto(a, "reload")
    /\ UNCHANGED <<disk, library, ui, reloading, watch, lock, bus, loc, bounds, odd>>

BroadcastReload(a) ==
    /\ pc[a] = "reload"
    /\ reloading' = TRUE
    /\ IF loc[a].task = "full"
       THEN Goto(a, "unlock") /\ UNCHANGED <<loc, watch>>
       ELSE Return(a)
    /\ UNCHANGED <<disk, library, feed, ui, lock, bus, bounds, odd>>

\* The browser asks for the feed again.
Reload ==
    /\ reloading
    /\ ui' = feed
    /\ reloading' = FALSE
    /\ UNCHANGED <<disk, library, feed, watch, lock, bus, pc, loc, bounds, odd>>
-----------------------------------------------------------------------------
Sweep(a) ==
    \/ Walk(a) \/ ReadKnown(a) \/ ReadUnmatched(a) \/ SweepDone(a) \/ ListRows(a)
    \/ \E f \in Files : Insert(a, f)
    \/ \E r \in loc[a].todo : Match(a, r) \/ Look(a, r) \/ DeleteRow(a, r)
    \/ PruneDone(a) \/ RebuildFeeds(a) \/ BroadcastReload(a)
    \/ Unlock(a) \/ Send(a) \/ AwaitReply(a)

Listen == Receive \/ Reply

Fires(w) ==
    \/ \E e \in Entries : TimerFires(w, e)
    \/ \E o \in orphans : OrphanFires(w, o)

Next ==
    \/ \E f \in Files : FileComes(f) \/ FileGoes(f)
    \/ \E w \in Watchers : Fires(w)
    \/ \E s \in Sweepers : FullSweep(s) \/ CreateLock(s)
    \/ \E a \in Actors : Sweep(a)
    \/ Listen \/ Reload

\* Goroutines run on, the listener listens, timers fire and browsers reload.
\* Nobody has to change a file or to ask for a full sweep.
Fairness ==
    /\ \A a \in Actors : WF_vars(Sweep(a))
    /\ \A s \in Sweepers : WF_vars(CreateLock(s))
    /\ \A w \in Watchers : WF_vars(Fires(w))
    /\ WF_vars(Listen) /\ WF_vars(Reload)

Spec == Init /\ [][Next]_vars
FairSpec == Spec /\ Fairness
-----------------------------------------------------------------------------
(* Properties *)

\* A sender whose answer was dropped waits for ever.
Hung(a) ==
    /\ pc[a] \in {"sent", "waiting"}
    /\ replying # a /\ \A i \in DOMAIN queue : queue[i] # a

\* Nothing is left to do.
Quiet ==
    /\ \A a \in Actors : pc[a] = "idle" \/ Hung(a)
    /\ \A e \in Entries : ~timers[e].armed
    /\ orphans = {} /\ ~reloading

\* "After any mutation, refresh the materialised feed snapshots so the UI's
\* reload hits fresh aggregates": once nothing is going on the browser shows the
\* titled rows, however sweeps, callbacks and reloads overlapped; unless a sweep
\* titled a file and counted as many without a title as before, because another
\* one had inserted a file meanwhile.
ShownWhenCounted == Quiet /\ "miscounted" \notin odd => ui = Titled

\* The library holds the files there are, unless a sender hangs, a timer kept an
\* event of another kind than the last one, two callbacks of one entry ran at
\* once (the first to return takes the timer of the other off the map), or a file
\* came back between the look for it and the deletion of its row.
TrackedWhenQuiet ==
    Quiet /\ odd \cap {"staleOp", "overlapped", "returned"} = {} /\ (\A a \in Actors : ~Hung(a))
        => {f \in Files : HasRow(f)} = disk

\* The watcher's comment on what it watches: "that is enough", a file added or
\* removed is a Create or a Remove: no exception for what the timer remembered.
FilesTracked ==
    Quiet /\ (\A a \in Actors : ~Hung(a)) => {f \in Files : HasRow(f)} = disk

\* Two full sweeps run at once only when both looked for the lock before either
\* made it, or when a sweep that found no files took the lock away.
OneFullSweep ==
    (\E s, t \in Sweepers : s # t /\ Working(s) /\ Working(t)) => "unlocked" \in odd

\* "Always unblock the sender": whoever sends an event gets on with its work.
SendersGoOn == \A a \in Actors : pc[a] = "waiting" ~> pc[a] # "waiting"
=============================================================================
