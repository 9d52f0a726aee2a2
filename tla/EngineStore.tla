----------------------------- MODULE EngineStore ------------------------------
(***************************************************************************)
(* How the torrent engine keeps its torrents across a stop or a kill of    *)
(* the program (src/engine/engine.go, loop.go and the resume data of       *)
(* lt/shim.cpp), and when it ends their seeding.  Three kinds of files     *)
(* are written at different times: the session file lists the torrents     *)
(* with what libtorrent does not know of them, the loop writing it when    *)
(* `dirty` says so; the resume data of a torrent holds what libtorrent     *)
(* knows, written as alerts come in; and a .torrent file is kept for       *)
(* torrents that have no magnet.                                           *)
(*                                                                         *)
(* How a torrent gets out of upload mode is module Engine's and one step   *)
(* here.  Loop stands for main's goroutine in Start, for loop(), and for   *)
(* that of onExit in Stop: each begins when the one before has ended.      *)
(***************************************************************************)
EXTENDS Integers, Sequences

CONSTANTS Torrents, Callers, Loop,
          MaxRequests,
          MaxEnds,      \* how often the program stops or is killed
          MaxFailures   \* how many writes of the session file fail

ASSUME StoreAssumption ==
    /\ Torrents # {} /\ Loop \notin Callers
    /\ MaxRequests \in Nat /\ MaxEnds \in Nat /\ MaxFailures \in Nat

VARIABLES phase,        \* of the program
          sessions, dirty,
          client,       \* libtorrent's torrents
          over,         \* the seeding limits are reached, by what the entry says
          alerts,       \* resume data on its way from libtorrent to its file
          pending,      \* pending_resume
          sessionFile, resumeFile, torrentFile,
          pc, loc,      \* each goroutine's next call and its local variables
          requests, ends, failures,
          odd           \* history: the unusual things that happened

vars == <<phase, sessions, dirty, client, over, alerts, pending, sessionFile,
          resumeFile, torrentFile, pc, loc, requests, ends, failures, odd>>

entries == <<sessions, dirty>>
resume  == <<alerts, pending>>
files   == <<sessionFile, resumeFile, torrentFile>>
bounds  == <<requests, ends, failures>>

Actors == Callers \cup {Loop}

\* An entry of sessions as the session file has it, and whether it is preparing;
\* `id` tells it from the entry of a later add of the same torrent.
NoEntry == [id |-> 0, magnet |-> FALSE, resumed |-> FALSE, preparing |-> FALSE]
Entry == [id: Nat, magnet: BOOLEAN, resumed: BOOLEAN, preparing: BOOLEAN]

\* A torrent is paused outright (not auto-managed) by the user or by a limit.
Pauses == {"no", "user", "limit"}

\* What resume data holds of a torrent.
Resume == [id: Nat, upload: BOOLEAN, paused: Pauses, done: BOOLEAN]
NoResume == [id |-> 0, upload |-> FALSE, paused |-> "no", done |-> FALSE]

\* `unsaved` is need_save_resume_data.
Handle == [here: BOOLEAN, unsaved: BOOLEAN, data: Resume]
NoHandle == [here |-> FALSE, unsaved |-> FALSE, data |-> NoResume]

Labels == {"idle", "insert", "keep", "status", "update", "drop", "unresume",
           "untorrent", "start", "limits", "seed", "save", "await", "flush",
           "truncate", "write", "close"}

NoEntries == [t \in Torrents |-> NoEntry]
NoLocal == [t |-> CHOOSE t \in Torrents : TRUE, entry |-> NoEntry, keep |-> FALSE,
            todo |-> {}, list |-> NoEntries]

Phases == {"down", "starting", "up", "stopping"}

\* late:    something happened to the torrents when Stop had begun.
\* timeout: SaveResume gave up waiting.
\* leaked:  a request for resume data was counted and never made.
\* failed:  the session file could not be written.
\* crossed: two calls on one torrent overlapped.
\* unkept:  a kill came before the .torrent file had its name.
\* listed:  a kill found a torrent listed that had been removed.
\* stale:   resume data outlived the removal of its torrent, or the torrent a
\*          kill that came before it was listed.
Oddities == {"late", "timeout", "leaked", "failed", "crossed", "unkept",
             "listed", "stale"}

TypeOK ==
    /\ phase \in Phases
    /\ sessions \in [Torrents -> Entry] /\ dirty \in BOOLEAN
    /\ client \in [Torrents -> Handle]
    /\ over \in [Torrents -> BOOLEAN]
    /\ alerts \in Seq([t: Torrents, data: Resume]) /\ pending \in Nat
    /\ sessionFile \in [torn: BOOLEAN, list: [Torrents -> Entry]]
    /\ resumeFile \in [Torrents -> Resume]
    /\ torrentFile \in [Torrents -> BOOLEAN]
    /\ pc \in [Actors -> Labels]
    /\ loc \in [Actors -> [t: Torrents, entry: Entry, keep: BOOLEAN,
                           todo: SUBSET Torrents, list: [Torrents -> Entry]]]
    /\ requests \in 0..MaxRequests
    /\ ends \in 0..MaxEnds /\ failures \in 0..MaxFailures
    /\ odd \in SUBSET Oddities

Known(t) == sessions[t].id # 0
HasResume(t) == resumeFile[t].id # 0
Listed(t) == ~sessionFile.torn /\ sessionFile.list[t].id # 0
Saved(e) == [e EXCEPT !.preparing = FALSE]

Goto(a, label) == pc' = [pc EXCEPT ![a] = label]
Set(a, l) == loc' = [loc EXCEPT ![a] = l]

\* A request is served; the loop goes on with the torrents still to be ended,
\* or to be started.
Return(a) ==
    /\ Goto(a, IF a # Loop THEN "idle" ELSE IF phase = "starting" THEN "start" ELSE "seed")
    /\ Set(a, IF a # Loop THEN NoLocal ELSE loc[a])

\* Start has yet to add t to sessions.
ToStart(t) ==
    /\ phase = "starting"
    /\ t \in loc[Loop].todo \/ (pc[Loop] = "insert" /\ loc[Loop].t = t)

\* Another call is at t, or will be when Start has got to it.
Crosses(a, t) ==
    \/ \E b \in Actors \ {a} :
          loc[b].t = t /\ pc[b] \in {"insert", "keep", "drop", "unresume", "untorrent"}
    \/ a # Loop /\ phase = "starting" /\ t \in loc[Loop].todo

\* Something has been done to t by a.
Note(a, t) ==
    odd' = odd \cup (IF phase = "stopping" THEN {"late"} ELSE {})
               \cup (IF Crosses(a, t) THEN {"crossed"} ELSE {})

Init ==
    /\ phase = "down"
    /\ sessions = NoEntries /\ dirty = FALSE
    /\ client = [t \in Torrents |-> NoHandle]
    /\ over = [t \in Torrents |-> FALSE]
    /\ alerts = <<>> /\ pending = 0
    /\ sessionFile = [torn |-> FALSE, list |-> NoEntries]
    /\ resumeFile = [t \in Torrents |-> NoResume]
    /\ torrentFile = [t \in Torrents |-> FALSE]
    /\ pc = [a \in Actors |-> "idle"] /\ loc = [a \in Actors |-> NoLocal]
    /\ requests = 0 /\ ends = 0 /\ failures = 0
    /\ odd = {}
-----------------------------------------------------------------------------
(* Start, Stop and a kill *)

\* loadSession: a torn file lists nothing.
Start ==
    /\ phase = "down" /\ phase' = "starting"
    /\ Goto(Loop, "start")
    /\ Set(Loop, [NoLocal EXCEPT !.todo = {t \in Torrents : Listed(t)}, !.list = sessionFile.list])
    /\ UNCHANGED <<entries, client, over, resume, files, bounds, odd>>

Fresh(id, paused) ==
    [here |-> TRUE, unsaved |-> TRUE,
     data |-> [id |-> id, upload |-> TRUE, paused |-> paused, done |-> FALSE]]

\* A torrent the client has already is left as it is.
Join(t, h) == client' = IF client[t].here THEN client ELSE [client EXCEPT ![t] = h]

\* Mutant: with resume data there is nothing to prepare.
StartAddPrepared(t) ==
    /\ pc[Loop] = "start" /\ t \in loc[Loop].todo
    /\ LET rest == [loc[Loop] EXCEPT !.todo = @ \ {t}, !.t = t]
           entry == loc[Loop].list[t] IN
       IF HasResume(t) \/ entry.magnet \/ torrentFile[t]
       THEN /\ Join(t, IF HasResume(t)
                       THEN [here |-> TRUE, unsaved |-> FALSE, data |-> resumeFile[t]]
                       ELSE Fresh(entry.id, "no"))
            /\ Set(Loop, [rest EXCEPT !.entry = [entry EXCEPT !.preparing = ~HasResume(t)]])
            /\ Goto(Loop, "insert")
       ELSE Set(Loop, rest) /\ UNCHANGED <<client, pc>>
    /\ odd' = IF client[t].here \/ Known(t) \/ \E c \in Callers : pc[c] # "idle" /\ loc[c].t = t
              THEN odd \cup {"crossed"} ELSE odd
    /\ UNCHANGED <<phase, entries, over, resume, files, bounds>>

\* add, of a torrent the session file lists: from its resume data, still in
\* upload mode if it was saved in it, else from its .torrent file or magnet,
\* else not at all.
StartAdd(t) ==
    /\ pc[Loop] = "start" /\ t \in loc[Loop].todo
    /\ LET rest == [loc[Loop] EXCEPT !.todo = @ \ {t}, !.t = t]
           entry == loc[Loop].list[t] IN
       IF HasResume(t) \/ entry.magnet \/ torrentFile[t]
       THEN /\ Join(t, IF HasResume(t)
                       THEN [here |-> TRUE, unsaved |-> FALSE, data |-> resumeFile[t]]
                       ELSE Fresh(entry.id, "no"))
            /\ Set(Loop, [rest EXCEPT !.entry =
                 [entry EXCEPT !.preparing = ~HasResume(t) \/ client'[t].data.upload]])
            /\ Goto(Loop, "insert")
       ELSE Set(Loop, rest) /\ UNCHANGED <<client, pc>>
    /\ odd' = IF client[t].here \/ Known(t) \/ \E c \in Callers : pc[c] # "idle" /\ loc[c].t = t
              THEN odd \cup {"crossed"} ELSE odd
    /\ UNCHANGED <<phase, entries, over, resume, files, bounds>>

StartDone ==
    /\ pc[Loop] = "start" /\ loc[Loop].todo = {}
    /\ phase' = "up"
    /\ Goto(Loop, "idle") /\ Set(Loop, NoLocal)
    /\ UNCHANGED <<entries, client, over, resume, files, bounds, odd>>

\* Mutant: only the session file is written.
StopWithoutResume ==
    /\ phase = "up" /\ pc[Loop] = "idle" /\ ends < MaxEnds
    /\ phase' = "stopping"
    /\ ends' = ends + 1
    /\ Goto(Loop, "flush")
    /\ UNCHANGED <<entries, client, over, resume, files, loc, requests, failures, odd>>

\* The loop ends before its next tick; resume data of all torrents is asked for.
Stop ==
    /\ phase = "up" /\ pc[Loop] = "idle" /\ ends < MaxEnds
    /\ phase' = "stopping"
    /\ ends' = ends + 1
    /\ Goto(Loop, "save")
    /\ Set(Loop, [NoLocal EXCEPT !.todo = {t \in Torrents : client[t].here}])
    /\ UNCHANGED <<entries, client, over, resume, files, requests, failures, odd>>

\* Nothing is left in memory.
Down ==
    /\ phase' = "down"
    /\ sessions' = NoEntries /\ dirty' = FALSE
    /\ client' = [t \in Torrents |-> NoHandle]
    /\ alerts' = <<>> /\ pending' = 0
    /\ pc' = [a \in Actors |-> "idle"] /\ loc' = [a \in Actors |-> NoLocal]

\* What the files alone cannot tell from a torrent that is there.
LeftBehind ==
    (IF \E a \in Actors : pc[a] = "keep" THEN {"unkept"} ELSE {}) \cup
    (IF \E t \in Torrents : /\ Listed(t) /\ sessionFile.list[t].id # sessions[t].id
                            /\ ~ToStart(t)
     THEN {"listed"} ELSE {}) \cup
    (IF \E t \in Torrents : HasResume(t) /\ sessionFile.list[t].id # resumeFile[t].id
     THEN {"stale"} ELSE {})

\* The client is closed and the program exits, whatever requests are under way.
Close ==
    /\ pc[Loop] = "close"
    /\ Down
    /\ odd' = odd \cup LeftBehind \cup (IF \E c \in Callers : pc[c] # "idle" THEN {"late"} ELSE {})
    /\ UNCHANGED <<over, files, bounds>>

Kill ==
    /\ phase # "down" /\ ends < MaxEnds
    /\ ends' = ends + 1
    /\ Down
    /\ odd' = odd \cup LeftBehind
    /\ UNCHANGED <<over, files, requests, failures>>
-----------------------------------------------------------------------------
(* Requests *)

Serves(c) ==
    /\ phase # "down" /\ pc[c] = "idle"
    /\ requests < MaxRequests /\ requests' = requests + 1

\* add, of a magnet or of a .torrent file, which is kept under another name
\* until the hash is known.  Settings may ask for a paused start.
Add(c, t, magnet, paused) ==
    /\ Serves(c)
    /\ Join(t, Fresh(requests + 1, IF paused THEN "user" ELSE "no"))
    /\ Goto(c, "insert")
    /\ Set(c, [NoLocal EXCEPT !.t = t, !.keep = ~magnet, !.entry =
         [NoEntry EXCEPT !.id = requests + 1, !.magnet = magnet, !.preparing = TRUE]])
    /\ Note(c, t)
    /\ UNCHANGED <<phase, entries, over, resume, files, ends, failures>>

\* An entry there already keeps its settings; a new one starts the limits anew.
AddInsert(a) ==
    LET t == loc[a].t IN
    /\ pc[a] = "insert"
    /\ IF Known(t) THEN UNCHANGED <<entries, over>>
       ELSE /\ sessions' = [sessions EXCEPT ![t] = loc[a].entry] /\ dirty' = TRUE
            /\ over' = IF a = Loop THEN over ELSE [over EXCEPT ![t] = FALSE]
    /\ IF loc[a].keep THEN Goto(a, "keep") /\ UNCHANGED loc ELSE Return(a)
    /\ Note(a, t)
    /\ UNCHANGED <<phase, client, resume, files, bounds>>

\* Mutant: the temporary file is removed before it gets its name.
KeepNothing(c) ==
    /\ pc[c] = "keep"
    /\ Return(c)
    /\ Note(c, loc[c].t)
    /\ UNCHANGED <<phase, entries, client, over, resume, files, bounds>>

KeepTorrentFile(c) ==
    /\ pc[c] = "keep"
    /\ torrentFile' = [torrentFile EXCEPT ![loc[c].t] = TRUE]
    /\ Return(c)
    /\ Note(c, loc[c].t)
    /\ UNCHANGED <<phase, entries, client, over, resume, sessionFile, resumeFile, bounds>>

SetPausedIn(t, pause) ==
    client' = [client EXCEPT ![t].data.paused = pause, ![t].unsaved = TRUE]

Pause(c, t) ==
    /\ Serves(c) /\ client[t].here
    /\ SetPausedIn(t, "user")
    /\ Note(c, t)
    /\ UNCHANGED <<phase, entries, over, resume, files, pc, loc, ends, failures>>

\* SetPaused(hash, false): the queue has the torrent again; if it is finished,
\* the limits count from here, by an update of the entry.
Unpause(c, t) ==
    /\ Serves(c) /\ client[t].here
    /\ SetPausedIn(t, "no")
    /\ Goto(c, "status") /\ Set(c, [NoLocal EXCEPT !.t = t])
    /\ Note(c, t)
    /\ UNCHANGED <<phase, entries, over, resume, files, ends, failures>>

UnpauseStatus(c) ==
    /\ pc[c] = "status"
    /\ IF client[loc[c].t].here /\ client[loc[c].t].data.done
       THEN Goto(c, "update") /\ UNCHANGED loc ELSE Return(c)
    /\ UNCHANGED <<phase, entries, client, over, resume, files, bounds, odd>>

UnpauseUpdate(c) ==
    LET t == loc[c].t IN
    /\ pc[c] = "update"
    /\ IF Known(t)
       THEN /\ sessions' = [sessions EXCEPT ![t].resumed = TRUE] /\ dirty' = TRUE
            /\ over' = [over EXCEPT ![t] = FALSE]
       ELSE UNCHANGED <<entries, over>>
    /\ Return(c)
    /\ Note(c, t)
    /\ UNCHANGED <<phase, client, resume, files, bounds>>

\* Remove, by a request or by endSeeding: from the client, from sessions, and
\* then the files that hold the torrent.
Remove(a, t) ==
    /\ client' = [client EXCEPT ![t] = NoHandle]
    /\ Goto(a, "drop")
    /\ Note(a, t)

RemoveRequest(c, t) ==
    /\ Serves(c) /\ client[t].here
    /\ Remove(c, t)
    /\ Set(c, [NoLocal EXCEPT !.t = t])
    /\ UNCHANGED <<phase, entries, over, resume, files, ends, failures>>

RemoveEntry(a) ==
    /\ pc[a] = "drop"
    /\ sessions' = [sessions EXCEPT ![loc[a].t] = NoEntry] /\ dirty' = TRUE
    /\ Goto(a, "unresume")
    /\ Note(a, loc[a].t)
    /\ UNCHANGED <<phase, client, over, resume, files, loc, bounds>>

\* Mutant: leaves the resume data, as if Remove deleted downloaded files only.
RemoveNoResume(a) ==
    /\ pc[a] = "unresume"
    /\ Goto(a, "untorrent")
    /\ Note(a, loc[a].t)
    /\ UNCHANGED <<phase, entries, client, over, resume, files, loc, bounds>>

RemoveResumeFile(a) ==
    /\ pc[a] = "unresume"
    /\ resumeFile' = [resumeFile EXCEPT ![loc[a].t] = NoResume]
    /\ Goto(a, "untorrent")
    /\ Note(a, loc[a].t)
    /\ UNCHANGED <<phase, entries, client, over, resume, sessionFile, torrentFile, loc, bounds>>

RemoveTorrentFile(a) ==
    /\ pc[a] = "untorrent"
    /\ torrentFile' = [torrentFile EXCEPT ![loc[a].t] = FALSE]
    /\ Return(a)
    /\ Note(a, loc[a].t)
    /\ UNCHANGED <<phase, entries, client, over, resume, sessionFile, resumeFile, bounds>>
-----------------------------------------------------------------------------
(* What becomes of a torrent meanwhile *)

Lately == odd' = IF phase = "stopping" THEN odd \cup {"late"} ELSE odd

\* finishPreparing.
FinishPreparing(t) ==
    /\ client[t].here /\ sessions[t].preparing
    /\ sessions' = [sessions EXCEPT ![t].preparing = FALSE]
    /\ client' = [client EXCEPT ![t].data.upload = FALSE, ![t].unsaved = TRUE]
    /\ Lately
    /\ UNCHANGED <<phase, dirty, over, resume, files, pc, loc, bounds>>

Finished(t) ==
    /\ client[t].here /\ ~client[t].data.upload /\ ~client[t].data.done
    /\ client[t].data.paused = "no"
    /\ client' = [client EXCEPT ![t].data.done = TRUE, ![t].unsaved = TRUE]
    /\ Lately
    /\ UNCHANGED <<phase, entries, over, resume, files, pc, loc, bounds>>

\* Time goes by, and peers download: seedingDone by what the entry says.
LimitReached(t) ==
    /\ client[t].here /\ client[t].data.done /\ Known(t) /\ ~over[t]
    /\ over' = [over EXCEPT ![t] = TRUE]
    /\ UNCHANGED <<phase, entries, client, resume, files, pc, loc, bounds, odd>>

\* The alert thread: resume data gets to its file.  For a torrent that is not
\* there any more it may fail instead.
SaveAlert ==
    /\ alerts # <<>>
    /\ LET a == Head(alerts)
           gone == client[a.t].data.id # a.data.id
           removing == \E b \in Actors : pc[b] \in {"drop", "unresume"} /\ loc[b].t = a.t IN
       \/ /\ resumeFile' = [resumeFile EXCEPT ![a.t] = a.data]
          /\ odd' = IF gone /\ ~removing THEN odd \cup {"stale"} ELSE odd
       \/ gone /\ UNCHANGED <<resumeFile, odd>>
    /\ alerts' = Tail(alerts)
    /\ pending' = pending - 1
    /\ UNCHANGED <<phase, entries, client, over, sessionFile, torrentFile, pc, loc, bounds>>
-----------------------------------------------------------------------------
(* A tick of the loop *)

\* seedingFinished: first the statuses ...
Statuses ==
    /\ phase = "up" /\ pc[Loop] = "idle"
    /\ Set(Loop, [NoLocal EXCEPT !.todo = {t \in Torrents :
         client[t].here /\ client[t].data.done /\ client[t].data.paused = "no"}])
    /\ Goto(Loop, "limits")
    /\ UNCHANGED <<phase, entries, client, over, resume, files, bounds, odd>>

\* ... then, under mu, which of them have reached a limit.
SeedingFinished ==
    /\ pc[Loop] = "limits"
    /\ Set(Loop, [loc[Loop] EXCEPT !.todo = {t \in @ : Known(t) /\ over[t]}])
    /\ Goto(Loop, "seed")
    /\ UNCHANGED <<phase, entries, client, over, resume, files, bounds, odd>>

\* The seed end action is a setting.
EndSeeding(t) ==
    /\ pc[Loop] = "seed" /\ t \in loc[Loop].todo
    /\ Set(Loop, [loc[Loop] EXCEPT !.todo = @ \ {t}, !.t = t])
    /\ IF ~client[t].here THEN UNCHANGED <<client, pc, odd>>
       ELSE \/ SetPausedIn(t, "limit") /\ Note(Loop, t) /\ UNCHANGED pc
            \/ Remove(Loop, t)
    /\ UNCHANGED <<phase, entries, over, resume, files, bounds>>

\* Every so many ticks resume data that has changed is saved.
SeedingEnded ==
    /\ pc[Loop] = "seed" /\ loc[Loop].todo = {}
    /\ \/ Goto(Loop, "flush") /\ Set(Loop, NoLocal)
       \/ /\ Goto(Loop, "save")
          /\ Set(Loop, [NoLocal EXCEPT !.todo =
               {t \in Torrents : client[t].here /\ client[t].unsaved}])
    /\ UNCHANGED <<phase, entries, client, over, resume, files, bounds, odd>>

\* Mutant: counts the alerts still to come of all torrents, saved or not.
SaveResumeRecount(t) ==
    /\ pc[Loop] = "save" /\ t \in loc[Loop].todo
    /\ Set(Loop, [loc[Loop] EXCEPT !.todo = @ \ {t}])
    /\ IF client[t].here
       THEN /\ alerts' = Append(alerts, [t |-> t, data |-> client[t].data])
            /\ pending' = 1
            /\ client' = [client EXCEPT ![t].unsaved = FALSE]
       ELSE UNCHANGED <<resume, client>>
    /\ UNCHANGED <<phase, entries, over, files, pc, bounds, odd>>

\* lt_save_resume asks for the resume data of a torrent.  One that is removed
\* when it has been counted ends the whole call.
SaveResume(t) ==
    /\ pc[Loop] = "save" /\ t \in loc[Loop].todo
    /\ IF client[t].here
       THEN /\ alerts' = Append(alerts, [t |-> t, data |-> client[t].data])
            /\ pending' = pending + 1
            /\ client' = [client EXCEPT ![t].unsaved = FALSE]
            /\ Set(Loop, [loc[Loop] EXCEPT !.todo = @ \ {t}])
            /\ UNCHANGED <<pc, odd>>
       ELSE /\ UNCHANGED <<alerts, client>>
            /\ \/ Set(Loop, [loc[Loop] EXCEPT !.todo = @ \ {t}]) /\ UNCHANGED <<pending, pc, odd>>
               \/ /\ pending' = pending + 1 /\ odd' = odd \cup {"leaked"}
                  /\ Goto(Loop, "flush") /\ Set(Loop, NoLocal)
    /\ UNCHANGED <<phase, entries, over, files, bounds>>

AllAskedFor ==
    /\ pc[Loop] = "save" /\ loc[Loop].todo = {}
    /\ Goto(Loop, "await")
    /\ UNCHANGED <<phase, entries, client, over, resume, files, loc, bounds, odd>>

\* Mutant: a timeout forgets what it has waited for.
AwaitResumeForgets ==
    /\ pc[Loop] = "await"
    /\ pending' = 0
    /\ Goto(Loop, "flush")
    /\ odd' = IF pending > 0 THEN odd \cup {"timeout"} ELSE odd
    /\ UNCHANGED <<phase, entries, client, over, alerts, files, loc, bounds>>

\* Its wait ends with the last alert, or at the timeout.
AwaitResume ==
    /\ pc[Loop] = "await"
    /\ Goto(Loop, "flush")
    /\ odd' = IF pending > 0 THEN odd \cup {"timeout"} ELSE odd
    /\ UNCHANGED <<phase, entries, client, over, resume, files, loc, bounds>>

Flushed == IF phase = "stopping" THEN "close" ELSE "idle"

\* flushSession under mu: what is written is of this moment, and no longer dirty.
FlushSession ==
    /\ pc[Loop] = "flush"
    /\ IF dirty
       THEN /\ dirty' = FALSE
            /\ Set(Loop, [NoLocal EXCEPT !.list = [t \in Torrents |-> Saved(sessions[t])]])
            /\ Goto(Loop, "truncate")
       ELSE Set(Loop, NoLocal) /\ Goto(Loop, Flushed) /\ UNCHANGED dirty
    /\ UNCHANGED <<phase, sessions, client, over, resume, files, bounds, odd>>

\* os.WriteFile truncates the file before it writes it ...
TruncateSession ==
    /\ pc[Loop] = "truncate"
    /\ sessionFile' = [torn |-> TRUE, list |-> NoEntries]
    /\ Goto(Loop, "write")
    /\ UNCHANGED <<phase, entries, client, over, resume, resumeFile, torrentFile, loc, bounds, odd>>

\* Mutant: the file is up to date only once it is written.
WriteSessionClears ==
    /\ pc[Loop] = "write"
    /\ sessionFile' = [torn |-> FALSE, list |-> loc[Loop].list]
    /\ dirty' = FALSE
    /\ Goto(Loop, Flushed) /\ Set(Loop, NoLocal)
    /\ UNCHANGED <<phase, sessions, client, over, resume, resumeFile, torrentFile, bounds, odd>>

WriteSession ==
    /\ pc[Loop] = "write"
    /\ sessionFile' = [torn |-> FALSE, list |-> loc[Loop].list]
    /\ Goto(Loop, Flushed) /\ Set(Loop, NoLocal)
    /\ UNCHANGED <<phase, entries, client, over, resume, resumeFile, torrentFile, bounds, odd>>

\* ... and may fail before that or after it.
WriteFails ==
    /\ pc[Loop] \in {"truncate", "write"} /\ failures < MaxFailures
    /\ failures' = failures + 1
    /\ odd' = odd \cup {"failed"}
    /\ Goto(Loop, Flushed) /\ Set(Loop, NoLocal)
    /\ UNCHANGED <<phase, entries, client, over, resume, files, requests, ends>>
-----------------------------------------------------------------------------
Program == Start \/ StartDone \/ Stop \/ Close \/ Kill \/ \E t \in Torrents : StartAdd(t)

Removes(a) == RemoveEntry(a) \/ RemoveResumeFile(a) \/ RemoveTorrentFile(a)

Requests(c) ==
    \/ \E t \in Torrents, magnet, paused \in BOOLEAN : Add(c, t, magnet, paused)
    \/ \E t \in Torrents : Pause(c, t) \/ Unpause(c, t) \/ RemoveRequest(c, t)
    \/ KeepTorrentFile(c) \/ UnpauseStatus(c) \/ UnpauseUpdate(c)

Client == SaveAlert \/ \E t \in Torrents : FinishPreparing(t) \/ Finished(t) \/ LimitReached(t)

Tick ==
    \/ Statuses \/ SeedingFinished \/ SeedingEnded \/ AllAskedFor \/ AwaitResume
    \/ \E t \in Torrents : EndSeeding(t) \/ SaveResume(t)
    \/ FlushSession \/ TruncateSession \/ WriteSession \/ WriteFails

Next ==
    \/ Program \/ Client \/ Tick
    \/ \E c \in Callers : Requests(c)
    \/ \E a \in Actors : AddInsert(a) \/ Removes(a)

Spec == Init /\ [][Next]_vars
-----------------------------------------------------------------------------
(* Properties *)

\* "resume data saved mid-preparation restores it still in upload mode": whatever
\* was saved when, a torrent in upload mode is one the engine is preparing, so
\* that something ends it.
UploadIsPreparing ==
    \A t \in Torrents :
        Known(t) /\ client[t].here /\ client[t].data.upload /\ "crossed" \notin odd
            => sessions[t].preparing

\* "dirty means the session file is out of date": when it is not set and the loop
\* is not writing, a kill loses nothing of the list, unless a write failed, a start
\* found a torrent listed that it could not add, or two calls on a torrent overlapped.
DirtyTells ==
    phase = "up" /\ ~dirty /\ pc[Loop] \notin {"truncate", "write"}
    /\ odd \cap {"failed", "unkept", "listed", "crossed"} = {}
        => \A t \in Torrents : sessionFile.list[t] = Saved(sessions[t])

\* What a start makes of t: whether it runs, and how.
Restored(t) ==
    CASE ~Listed(t) -> NoResume
      [] Listed(t) /\ HasResume(t) -> resumeFile[t]
      [] Listed(t) /\ ~HasResume(t) ->
            IF sessionFile.list[t].magnet \/ torrentFile[t]
            THEN Fresh(sessionFile.list[t].id, "no").data ELSE NoResume

\* "Stop saves resume data and the session": a start after a stop finds the
\* torrents as they were, paused or not, finished or not, unless requests went on,
\* a write failed or a wait timed out.
StopKeeps ==
    [][phase = "stopping" /\ pc[Loop] = "close" /\ phase' = "down" /\ ends' = ends
       /\ odd' \cap {"late", "timeout", "leaked", "failed", "crossed", "stale"} = {}
       => \A t \in Torrents : Restored(t) = client[t].data]_vars

\* "to add the torrent again after a restart that comes before libtorrent has
\* saved resume data for it": what the session file lists can be added again by
\* a start, unless a kill came before the .torrent file had its name, the torrent
\* was being removed, or two calls on it overlapped.
Restartable ==
    phase = "down" /\ odd \cap {"unkept", "listed", "crossed"} = {} => \A t \in Torrents :
        Listed(t) => HasResume(t) \/ sessionFile.list[t].magnet \/ torrentFile[t]

\* Resume data is of the torrent there is, and not of one that was removed, while
\* no Remove is under way; unless an alert that came after the Remove wrote the
\* removed torrent's file again or a kill left resume data of a torrent the session
\* file does not list (stale), or two calls on a torrent overlapped (crossed).
OwnResume ==
    phase = "up" /\ odd \cap {"stale", "crossed"} = {} => \A t \in Torrents :
        HasResume(t) /\ (\A a \in Actors : loc[a].t = t => pc[a] \notin {"drop", "unresume"})
            => resumeFile[t].id = client[t].data.id

\* What SaveResume waits for is what is on its way, however many calls have timed
\* out before, unless a torrent was removed when it had been counted and before
\* its resume data was asked for (leaked).
PendingCounts == "leaked" \notin odd => pending = Len(alerts)

\* "seeding limits count from here again": a torrent that a limit has paused has
\* reached it by what its entry says, once nobody is resuming it.
LimitsCountFromResume ==
    \A t \in Torrents :
        client[t].here /\ client[t].data.paused = "limit" /\ Known(t)
        /\ (\A c \in Callers : pc[c] = "idle" \/ loc[c].t # t)
            => over[t]
=============================================================================
