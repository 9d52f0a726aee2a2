-------------------------- MODULE EngineStoreProofs --------------------------
(* What holds of the engine's files for every number of torrents, callers and
   requests: the types, that what SaveResume waits for is on its way, and, unless
   the oddities each property names have happened, that a torrent in upload mode
   is preparing, that what the session file lists can be started, that resume data
   is of its torrent, that without dirty the session file is up to date, and that
   a stop leaves the files as the torrents were. *)
EXTENDS EngineStore, TLAPS

Alert == [t: Torrents, data: Resume]
SessionFile == [torn: BOOLEAN, list: [Torrents -> Entry]]
Local == [t: Torrents, entry: Entry, keep: BOOLEAN, todo: SUBSET Torrents,
          list: [Torrents -> Entry]]

\* No alert comes that was not counted.
Counted == pending >= Len(alerts) /\ PendingCounts

Inv == TypeOK /\ Counted

LEMMA Values ==
    /\ NoEntry \in Entry /\ NoEntries \in [Torrents -> Entry]
    /\ NoResume \in Resume /\ NoHandle \in Handle
    /\ NoLocal \in Local
<1>1. NoEntry \in Entry /\ NoEntries \in [Torrents -> Entry]
  BY DEF NoEntry, NoEntries, Entry
<1>2. NoResume \in Resume
  BY DEF NoResume, Resume, Pauses
<1>3. NoHandle \in Handle
  BY <1>2 DEF NoHandle, Handle
<1>4. (CHOOSE t \in Torrents : TRUE) \in Torrents
  BY StoreAssumption
<1>5. NoLocal \in Local
  BY <1>1, <1>4 DEF NoLocal, Local
<1>6. QED
  BY <1>1, <1>2, <1>3, <1>5

LEMMA FreshType ==
    ASSUME NEW id \in Nat, NEW paused \in Pauses
    PROVE  Fresh(id, paused) \in Handle
<1>1. [id |-> id, upload |-> TRUE, paused |-> paused, done |-> FALSE] \in Resume
  BY DEF Resume
<1>2. QED
  BY <1>1 DEF Fresh, Handle

LEMMA SavedType ==
    ASSUME NEW e \in Entry
    PROVE  Saved(e) \in Entry
BY DEF Saved, Entry

\* A local variable of a is set.
LEMMA SetType ==
    ASSUME TypeOK, NEW a \in Actors, NEW l \in Local, Set(a, l)
    PROVE  loc' \in [Actors -> Local]
BY DEF TypeOK, Set, Local

LEMMA GotoType ==
    ASSUME TypeOK, NEW a \in Actors, NEW label \in Labels, Goto(a, label)
    PROVE  pc' \in [Actors -> Labels]
BY DEF TypeOK, Goto

LEMMA ReturnType ==
    ASSUME TypeOK, NEW a \in Actors, Return(a)
    PROVE  pc' \in [Actors -> Labels] /\ loc' \in [Actors -> Local]
<1>1. PICK label \in {"idle", "start", "seed"} : Goto(a, label)
  BY DEF Return
<1>2. PICK l \in {NoLocal, loc[a]} : Set(a, l)
  BY DEF Return
<1>3. label \in Labels /\ l \in Local
  BY Values DEF Labels, TypeOK, Local
<1>4. QED
  BY <1>1, <1>2, <1>3, GotoType, SetType

LEMMA NoteType ==
    ASSUME TypeOK, NEW a, NEW t, Note(a, t)
    PROVE  odd' \in SUBSET Oddities
BY DEF TypeOK, Note, Oddities

LEMMA RecordsType ==
    ASSUME TypeOK, NEW t \in Torrents
    PROVE  sessions[t] \in Entry /\ client[t] \in Handle /\ client[t].data \in Resume
BY DEF TypeOK, Handle

\* A torrent of the client is put in the place of another one.
LEMMA HandleType ==
    ASSUME TypeOK, NEW t \in Torrents, NEW h \in Handle,
           client' = [client EXCEPT ![t] = h]
    PROVE  client' \in [Torrents -> Handle]
BY DEF TypeOK

LEMMA JoinType ==
    ASSUME TypeOK, NEW t \in Torrents, NEW h \in Handle, Join(t, h)
    PROVE  client' \in [Torrents -> Handle]
BY DEF TypeOK, Join

LEMMA SetPausedType ==
    ASSUME TypeOK, NEW t \in Torrents, NEW pause \in Pauses, SetPausedIn(t, pause)
    PROVE  client' \in [Torrents -> Handle]
<1> DEFINE d == client[t].data
           r == [d EXCEPT !.paused = pause]
           h == [client[t] EXCEPT !.data = r, !.unsaved = TRUE]
<1>1. client[t] \in Handle /\ d \in Resume
  BY DEF TypeOK, Handle
<1>2. r \in Resume
  BY <1>1 DEF Resume
<1> HIDE DEF r
<1>3. h \in Handle
  BY <1>1, <1>2 DEF Handle
<1> USE DEF r
<1>4. client' = [client EXCEPT ![t] = h]
  BY DEF SetPausedIn, TypeOK
<1> HIDE DEF h, d, r
<1>5. QED
  BY <1>3, <1>4, HandleType

LEMMA InvInit == Init => Inv
<1> SUFFICES ASSUME Init PROVE Inv
  OBVIOUS
<1>1. /\ sessions \in [Torrents -> Entry] /\ client \in [Torrents -> Handle]
      /\ resumeFile \in [Torrents -> Resume] /\ loc \in [Actors -> Local]
      /\ sessionFile \in SessionFile
  BY Values DEF Init, SessionFile
<1>2. alerts \in Seq(Alert) /\ pending \in Nat /\ pending = Len(alerts)
  BY DEF Init
<1>3. /\ requests \in 0..MaxRequests /\ ends \in 0..MaxEnds
      /\ failures \in 0..MaxFailures
  BY StoreAssumption DEF Init
<1>4. phase \in Phases /\ pc \in [Actors -> Labels]
  BY DEF Init, Phases, Labels
<1>5. /\ dirty \in BOOLEAN /\ over \in [Torrents -> BOOLEAN]
      /\ torrentFile \in [Torrents -> BOOLEAN] /\ odd \in SUBSET Oddities
  BY DEF Init
<1>6. TypeOK
  BY <1>1, <1>2, <1>3, <1>4, <1>5 DEF TypeOK, SessionFile, Local, Alert
<1>7. QED
  BY <1>2, <1>6 DEF Inv, Counted, PendingCounts
-----------------------------------------------------------------------------
(* Start, Stop and a kill *)

LEMMA DownType ==
    ASSUME TypeOK, Down
    PROVE  /\ phase' \in Phases
           /\ sessions' \in [Torrents -> Entry] /\ dirty' \in BOOLEAN
           /\ client' \in [Torrents -> Handle]
           /\ alerts' \in Seq(Alert) /\ pending' \in Nat /\ pending' = Len(alerts')
           /\ pc' \in [Actors -> Labels]
           /\ loc' \in [Actors -> Local]
<1>1. sessions' \in [Torrents -> Entry] /\ client' \in [Torrents -> Handle]
  BY Values DEF Down
<1>2. loc' \in [Actors -> Local] /\ pc' \in [Actors -> Labels]
  BY Values DEF Down, Labels
<1>3. alerts' \in Seq(Alert) /\ pending' \in Nat /\ pending' = Len(alerts')
  BY DEF Down
<1>4. phase' \in Phases /\ dirty' \in BOOLEAN
  BY DEF Down, Phases
<1>5. QED
  BY <1>1, <1>2, <1>3, <1>4

LEMMA StartAddStep ==
    ASSUME Inv, NEW t \in Torrents, StartAdd(t)
    PROVE  Inv'
<1> USE DEF Inv
<1> DEFINE l == loc[Loop]
           rest == [l EXCEPT !.todo = @ \ {t}, !.t = t]
           entry == l.list[t]
<1>1. Loop \in Actors /\ l \in Local /\ entry \in Entry
  BY DEF Actors, TypeOK, Local
<1>2. rest \in Local
  BY <1>1 DEF Local
<1>3. UNCHANGED <<phase, sessions, dirty, over, alerts, pending, sessionFile, resumeFile,
                  torrentFile, requests, ends, failures>>
  BY DEF StartAdd, entries, resume, files, bounds
<1>4. odd' \in SUBSET Oddities /\ ("leaked" \in odd <=> "leaked" \in odd')
  BY DEF StartAdd, TypeOK, Oddities
<1>5. /\ client' \in [Torrents -> Handle]
      /\ pc' \in [Actors -> Labels]
      /\ loc' \in [Actors -> Local]
  <2>1. CASE HasResume(t) \/ entry.magnet \/ torrentFile[t]
    <3> DEFINE h == IF HasResume(t)
                    THEN [here |-> TRUE, unsaved |-> FALSE, data |-> resumeFile[t]]
                    ELSE Fresh(entry.id, "no")
    <3>1. h \in Handle
      <4>1. [here |-> TRUE, unsaved |-> FALSE, data |-> resumeFile[t]] \in Handle
        BY DEF TypeOK, Handle
      <4>2. Fresh(entry.id, "no") \in Handle
        BY <1>1, FreshType DEF Entry, Pauses
      <4>3. QED
        BY <4>1, <4>2
    <3> HIDE DEF h
    <3>2. Join(t, h)
      BY <2>1 DEF StartAdd, h
    <3>3. client' \in [Torrents -> Handle]
      BY <3>1, <3>2, JoinType
    <3> DEFINE e == [entry EXCEPT !.preparing = ~HasResume(t) \/ client'[t].data.upload]
    <3>4. e \in Entry
      BY <1>1, <3>3 DEF Entry, Handle, Resume
    <3> HIDE DEF e
    <3>5. [rest EXCEPT !.entry = e] \in Local
      BY <1>2, <3>4 DEF Local
    <3>6. Set(Loop, [rest EXCEPT !.entry = e]) /\ Goto(Loop, "insert")
      BY <2>1 DEF StartAdd, e
    <3>7. QED
      BY <1>1, <3>3, <3>5, <3>6, SetType, GotoType DEF Labels
  <2>2. CASE ~(HasResume(t) \/ entry.magnet \/ torrentFile[t])
    <3>1. Set(Loop, rest) /\ UNCHANGED <<client, pc>>
      BY <2>2 DEF StartAdd
    <3>2. QED
      BY <1>1, <1>2, <3>1, SetType DEF TypeOK
  <2>3. QED
    BY <2>1, <2>2
<1>6. TypeOK'
  BY <1>3, <1>4, <1>5 DEF TypeOK, Local
<1>7. Counted'
  BY <1>3, <1>4 DEF Counted, PendingCounts
<1>8. QED
  BY <1>6, <1>7

LEMMA ProgramStep ==
    ASSUME Inv, Program
    PROVE  Inv'
<1> USE DEF Inv
<1>0. Loop \in Actors
  BY DEF Actors
<1>1. CASE Start
  <2> DEFINE l == [NoLocal EXCEPT !.todo = {t \in Torrents : Listed(t)}, !.list = sessionFile.list]
  <2>1. l \in Local
    BY Values DEF Local, TypeOK
  <2> HIDE DEF l
  <2>2. Set(Loop, l) /\ Goto(Loop, "start")
    BY <1>1 DEF Start, l
  <2>3. loc' \in [Actors -> Local] /\ pc' \in [Actors -> Labels]
    BY <1>0, <2>1, <2>2, SetType, GotoType DEF Labels
  <2>4. phase' \in Phases
    BY <1>1 DEF Start, Phases
  <2>5. UNCHANGED <<entries, client, over, resume, files, bounds, odd>>
    BY <1>1 DEF Start
  <2>6. QED
    BY <2>3, <2>4, <2>5 DEF TypeOK, Local, entries, resume, files, bounds, Counted, PendingCounts
<1>2. CASE StartDone
  <2>1. loc' \in [Actors -> Local] /\ pc' \in [Actors -> Labels]
    BY <1>0, <1>2, Values, SetType, GotoType DEF StartDone, Labels
  <2>2. phase' \in Phases /\ UNCHANGED <<entries, client, over, resume, files, bounds, odd>>
    BY <1>2 DEF StartDone, Phases
  <2>3. QED
    BY <2>1, <2>2 DEF TypeOK, Local, entries, resume, files, bounds, Counted, PendingCounts
<1>3. CASE Stop
  <2> DEFINE l == [NoLocal EXCEPT !.todo = {t \in Torrents : client[t].here}]
  <2>1. l \in Local
    BY Values DEF Local
  <2> HIDE DEF l
  <2>2. Set(Loop, l) /\ Goto(Loop, "save")
    BY <1>3 DEF Stop, l
  <2>3. loc' \in [Actors -> Local] /\ pc' \in [Actors -> Labels]
    BY <1>0, <2>1, <2>2, SetType, GotoType DEF Labels
  <2>4. /\ phase' \in Phases /\ ends' \in 0..MaxEnds
        /\ UNCHANGED <<entries, client, over, resume, files, requests, failures, odd>>
    BY <1>3, StoreAssumption DEF Stop, Phases, TypeOK
  <2>5. QED
    BY <2>3, <2>4 DEF TypeOK, Local, entries, resume, files, bounds, Counted, PendingCounts
<1>4. CASE Close
  <2>1. odd' \in SUBSET Oddities /\ UNCHANGED <<over, files, bounds>>
    BY <1>4 DEF Close, LeftBehind, Oddities, TypeOK
  <2>2. QED
    BY <1>4, <2>1, DownType
       DEF Close, TypeOK, Local, Alert, files, bounds, Counted, PendingCounts
<1>5. CASE Kill
  <2>1. odd' \in SUBSET Oddities /\ UNCHANGED <<over, files, requests, failures>>
    BY <1>5 DEF Kill, LeftBehind, Oddities, TypeOK
  <2>2. ends' \in 0..MaxEnds
    BY <1>5, StoreAssumption DEF Kill, TypeOK
  <2>3. QED
    BY <1>5, <2>1, <2>2, DownType
       DEF Kill, TypeOK, Local, Alert, files, bounds, Counted, PendingCounts
<1>6. QED
  BY <1>1, <1>2, <1>3, <1>4, <1>5, StartAddStep DEF Program
-----------------------------------------------------------------------------
(* Requests *)

LEMMA ServesType ==
    ASSUME TypeOK, NEW c \in Callers, Serves(c)
    PROVE  /\ c \in Actors
           /\ requests + 1 \in Nat /\ requests' \in 0..MaxRequests
BY StoreAssumption DEF TypeOK, Serves, Actors

LEMMA AddStep ==
    ASSUME Inv, NEW c \in Callers, NEW t \in Torrents,
           NEW magnet \in BOOLEAN, NEW paused \in BOOLEAN, Add(c, t, magnet, paused)
    PROVE  Inv'
<1> USE DEF Inv
<1> DEFINE e == [NoEntry EXCEPT !.id = requests + 1, !.magnet = magnet, !.preparing = TRUE]
           l == [NoLocal EXCEPT !.t = t, !.keep = ~magnet, !.entry = e]
<1>1. /\ c \in Actors
      /\ requests + 1 \in Nat /\ requests' \in 0..MaxRequests
  BY ServesType DEF Add
<1>2. Fresh(requests + 1, IF paused THEN "user" ELSE "no") \in Handle
  BY <1>1, FreshType DEF Pauses
<1>3. client' \in [Torrents -> Handle]
  BY <1>2, JoinType DEF Add
<1>4. e \in Entry
  BY <1>1, Values DEF Entry
<1> HIDE DEF e
<1>5. l \in Local
  BY <1>4, Values DEF Local
<1> HIDE DEF l
<1>6. Set(c, l) /\ Goto(c, "insert")
  BY DEF Add, l, e
<1>7. loc' \in [Actors -> Local] /\ pc' \in [Actors -> Labels]
  BY <1>1, <1>5, <1>6, SetType, GotoType DEF Labels
<1>8. odd' \in SUBSET Oddities /\ ("leaked" \in odd <=> "leaked" \in odd')
  BY NoteType DEF Add, Note
<1>9. UNCHANGED <<phase, entries, over, resume, files, ends, failures>>
  BY DEF Add
<1>10. QED
  BY <1>1, <1>3, <1>7, <1>8, <1>9
     DEF TypeOK, Local, entries, resume, files, bounds, Counted, PendingCounts

LEMMA InsertStep ==
    ASSUME Inv, NEW a \in Actors, AddInsert(a)
    PROVE  Inv'
<1> USE DEF Inv
<1> DEFINE t == loc[a].t
<1>1. t \in Torrents /\ loc[a] \in Local /\ loc[a].entry \in Entry
  BY DEF TypeOK, Local
<1>2. /\ sessions' \in [Torrents -> Entry] /\ dirty' \in BOOLEAN
      /\ over' \in [Torrents -> BOOLEAN]
  <2>1. CASE Known(t)
    BY <2>1 DEF AddInsert, entries, TypeOK
  <2>2. CASE ~Known(t)
    BY <1>1, <2>2 DEF AddInsert, TypeOK
  <2>3. QED
    BY <2>1, <2>2
<1>3. loc' \in [Actors -> Local] /\ pc' \in [Actors -> Labels]
  <2>1. CASE loc[a].keep
    BY <2>1, GotoType DEF AddInsert, Labels, TypeOK, Local
  <2>2. CASE ~loc[a].keep
    BY <2>2, ReturnType DEF AddInsert
  <2>3. QED
    BY <2>1, <2>2
<1>4. odd' \in SUBSET Oddities /\ ("leaked" \in odd <=> "leaked" \in odd')
  BY NoteType DEF AddInsert, Note
<1>5. UNCHANGED <<phase, client, resume, files, bounds>>
  BY DEF AddInsert
<1>6. QED
  BY <1>2, <1>3, <1>4, <1>5
     DEF TypeOK, Local, resume, files, bounds, Counted, PendingCounts

LEMMA RequestStep ==
    ASSUME Inv, NEW c \in Callers, Requests(c)
    PROVE  Inv'
<1> USE DEF Inv
<1>0. c \in Actors
  BY DEF Actors
<1>1. ASSUME NEW t \in Torrents, Pause(c, t)
      PROVE  Inv'
  <2>1. client' \in [Torrents -> Handle]
    BY <1>1, SetPausedType DEF Pause, Pauses
  <2>2. odd' \in SUBSET Oddities /\ ("leaked" \in odd <=> "leaked" \in odd')
    BY <1>1, NoteType DEF Pause, Note
  <2>3. requests' \in 0..MaxRequests
    BY <1>1, ServesType DEF Pause
  <2>4. UNCHANGED <<phase, entries, over, resume, files, pc, loc, ends, failures>>
    BY <1>1 DEF Pause
  <2>5. QED
    BY <2>1, <2>2, <2>3, <2>4 DEF TypeOK, entries, resume, files, Counted, PendingCounts
<1>2. ASSUME NEW t \in Torrents, Unpause(c, t) \/ RemoveRequest(c, t)
      PROVE  Inv'
  <2>1. client' \in [Torrents -> Handle]
    <3>1. CASE Unpause(c, t)
      BY <3>1, SetPausedType DEF Unpause, Pauses
    <3>2. CASE RemoveRequest(c, t)
      BY <3>2, Values, HandleType DEF RemoveRequest, Remove
    <3>3. QED
      BY <1>2, <3>1, <3>2
  <2>2. odd' \in SUBSET Oddities /\ ("leaked" \in odd <=> "leaked" \in odd')
    BY <1>2, NoteType DEF Unpause, RemoveRequest, Remove, Note
  <2>3. requests' \in 0..MaxRequests
    BY <1>2, ServesType DEF Unpause, RemoveRequest
  <2>4. [NoLocal EXCEPT !.t = t] \in Local
    BY Values DEF Local
  <2>5. loc' \in [Actors -> Local] /\ pc' \in [Actors -> Labels]
    BY <1>0, <1>2, <2>4, SetType, GotoType DEF Unpause, RemoveRequest, Remove, Labels
  <2>6. UNCHANGED <<phase, entries, over, resume, files, ends, failures>>
    BY <1>2 DEF Unpause, RemoveRequest
  <2>7. QED
    BY <2>1, <2>2, <2>3, <2>5, <2>6
       DEF TypeOK, Local, entries, resume, files, Counted, PendingCounts
<1>3. CASE KeepTorrentFile(c)
  <2>1. torrentFile' \in [Torrents -> BOOLEAN]
    BY <1>3 DEF KeepTorrentFile, TypeOK
  <2>2. loc' \in [Actors -> Local] /\ pc' \in [Actors -> Labels]
    BY <1>0, <1>3, ReturnType DEF KeepTorrentFile
  <2>3. odd' \in SUBSET Oddities /\ ("leaked" \in odd <=> "leaked" \in odd')
    BY <1>3, NoteType DEF KeepTorrentFile, Note
  <2>4. UNCHANGED <<phase, entries, client, over, resume, sessionFile, resumeFile, bounds>>
    BY <1>3 DEF KeepTorrentFile
  <2>5. QED
    BY <2>1, <2>2, <2>3, <2>4
       DEF TypeOK, Local, entries, resume, bounds, Counted, PendingCounts
<1>4. CASE UnpauseStatus(c)
  <2>1. loc' \in [Actors -> Local] /\ pc' \in [Actors -> Labels]
    BY <1>0, <1>4, ReturnType, GotoType DEF UnpauseStatus, Labels, TypeOK, Local
  <2>2. UNCHANGED <<phase, entries, client, over, resume, files, bounds, odd>>
    BY <1>4 DEF UnpauseStatus
  <2>3. QED
    BY <2>1, <2>2
       DEF TypeOK, Local, entries, resume, files, bounds, Counted, PendingCounts
<1>5. CASE UnpauseUpdate(c)
  <2> DEFINE t == loc[c].t
  <2>1. loc' \in [Actors -> Local] /\ pc' \in [Actors -> Labels]
    BY <1>0, <1>5, ReturnType DEF UnpauseUpdate
  <2>2. /\ sessions' \in [Torrents -> Entry] /\ dirty' \in BOOLEAN
        /\ over' \in [Torrents -> BOOLEAN]
    <3>1. CASE Known(t)
      <4>1. t \in Torrents /\ sessions[t] \in Entry
        BY <1>0 DEF TypeOK
      <4>2. [sessions[t] EXCEPT !.resumed = TRUE] \in Entry
        BY <4>1 DEF Entry
      <4>3. sessions' = [sessions EXCEPT ![t] = [sessions[t] EXCEPT !.resumed = TRUE]]
        BY <1>5, <3>1 DEF UnpauseUpdate, TypeOK
      <4>4. dirty' = TRUE /\ over' = [over EXCEPT ![t] = FALSE]
        BY <1>5, <3>1 DEF UnpauseUpdate
      <4>5. QED
        BY <4>1, <4>2, <4>3, <4>4 DEF TypeOK
    <3>2. CASE ~Known(t)
      BY <1>5, <3>2 DEF UnpauseUpdate, entries, TypeOK
    <3>3. QED
      BY <3>1, <3>2
  <2>3. odd' \in SUBSET Oddities /\ ("leaked" \in odd <=> "leaked" \in odd')
    BY <1>5, NoteType DEF UnpauseUpdate, Note
  <2>4. UNCHANGED <<phase, client, resume, files, bounds>>
    BY <1>5 DEF UnpauseUpdate
  <2>5. QED
    BY <2>1, <2>2, <2>3, <2>4
       DEF TypeOK, Local, resume, files, bounds, Counted, PendingCounts
<1>6. QED
  BY <1>1, <1>2, <1>3, <1>4, <1>5, AddStep DEF Requests

LEMMA RemovesStep ==
    ASSUME Inv, NEW a \in Actors, Removes(a)
    PROVE  Inv'
<1> USE DEF Inv
<1>1. odd' \in SUBSET Oddities /\ ("leaked" \in odd <=> "leaked" \in odd')
  BY NoteType DEF Removes, RemoveEntry, RemoveResumeFile, RemoveTorrentFile, Note
<1>2. CASE RemoveEntry(a)
  <2>1. sessions' \in [Torrents -> Entry] /\ dirty' \in BOOLEAN
    BY <1>2, Values DEF RemoveEntry, TypeOK
  <2>2. pc' \in [Actors -> Labels]
    BY <1>2, GotoType DEF RemoveEntry, Labels
  <2>3. UNCHANGED <<phase, client, over, resume, files, loc, bounds>>
    BY <1>2 DEF RemoveEntry
  <2>4. QED
    BY <1>1, <2>1, <2>2, <2>3 DEF TypeOK, resume, files, bounds, Counted, PendingCounts
<1>3. CASE RemoveResumeFile(a)
  <2>1. resumeFile' \in [Torrents -> Resume]
    BY <1>3, Values DEF RemoveResumeFile, TypeOK
  <2>2. pc' \in [Actors -> Labels]
    BY <1>3, GotoType DEF RemoveResumeFile, Labels
  <2>3. UNCHANGED <<phase, entries, client, over, resume, sessionFile, torrentFile, loc, bounds>>
    BY <1>3 DEF RemoveResumeFile
  <2>4. QED
    BY <1>1, <2>1, <2>2, <2>3 DEF TypeOK, entries, resume, bounds, Counted, PendingCounts
<1>4. CASE RemoveTorrentFile(a)
  <2>1. torrentFile' \in [Torrents -> BOOLEAN]
    BY <1>4 DEF RemoveTorrentFile, TypeOK
  <2>2. pc' \in [Actors -> Labels] /\ loc' \in [Actors -> Local]
    BY <1>4, ReturnType DEF RemoveTorrentFile
  <2>3. UNCHANGED <<phase, entries, client, over, resume, sessionFile, resumeFile, bounds>>
    BY <1>4 DEF RemoveTorrentFile
  <2>4. QED
    BY <1>1, <2>1, <2>2, <2>3
       DEF TypeOK, Local, entries, resume, bounds, Counted, PendingCounts
<1>5. QED
  BY <1>2, <1>3, <1>4 DEF Removes
-----------------------------------------------------------------------------
(* libtorrent *)

\* An alert that has come is one of those counted.
LEMMA SaveAlertStep ==
    ASSUME Inv, SaveAlert
    PROVE  Inv'
<1> USE DEF Inv
<1> DEFINE a == Head(alerts)
<1>1. alerts \in Seq(Alert) /\ alerts # <<>>
  BY DEF SaveAlert, TypeOK, Alert
<1>2. /\ a \in Alert
      /\ alerts' \in Seq(Alert) /\ Len(alerts') = Len(alerts) - 1 /\ Len(alerts) >= 1
  BY <1>1 DEF SaveAlert
<1>3. pending' = pending - 1 /\ pending' \in Nat
  BY <1>2 DEF SaveAlert, TypeOK, Counted
<1>4. resumeFile' \in [Torrents -> Resume]
  BY <1>2 DEF SaveAlert, TypeOK, Alert
<1>5. odd' \in SUBSET Oddities /\ ("leaked" \in odd <=> "leaked" \in odd')
  BY DEF SaveAlert, TypeOK, Oddities
<1>6. UNCHANGED <<phase, entries, client, over, sessionFile, torrentFile, pc, loc, bounds>>
  BY DEF SaveAlert
<1>7. TypeOK'
  BY <1>2, <1>3, <1>4, <1>5, <1>6 DEF TypeOK, Alert, entries, bounds
<1>8. Counted'
  BY <1>2, <1>3, <1>5 DEF Counted, PendingCounts, TypeOK
<1>9. QED
  BY <1>7, <1>8

LEMMA ClientStep ==
    ASSUME Inv, Client
    PROVE  Inv'
<1> USE DEF Inv
<1>1. ASSUME NEW t \in Torrents, FinishPreparing(t)
      PROVE  Inv'
  <2> DEFINE e == [sessions[t] EXCEPT !.preparing = FALSE]
             r == [client[t].data EXCEPT !.upload = FALSE]
             h == [client[t] EXCEPT !.data = r, !.unsaved = TRUE]
  <2>0. sessions[t] \in Entry /\ client[t] \in Handle /\ client[t].data \in Resume
    BY RecordsType
  <2>1. e \in Entry
    BY <2>0 DEF Entry
  <2>2. r \in Resume /\ client[t] \in Handle
    BY <2>0 DEF Resume
  <2> HIDE DEF r
  <2>3. h \in Handle
    BY <2>2 DEF Handle
  <2>4. sessions' = [sessions EXCEPT ![t] = e] /\ client' = [client EXCEPT ![t] = h]
    BY <1>1 DEF FinishPreparing, TypeOK, r
  <2> HIDE DEF e, h
  <2>5. sessions' \in [Torrents -> Entry] /\ client' \in [Torrents -> Handle]
    BY <2>1, <2>3, <2>4, HandleType DEF TypeOK
  <2>6. odd' \in SUBSET Oddities /\ ("leaked" \in odd <=> "leaked" \in odd')
    BY <1>1 DEF FinishPreparing, Lately, TypeOK, Oddities
  <2>7. UNCHANGED <<phase, dirty, over, resume, files, pc, loc, bounds>>
    BY <1>1 DEF FinishPreparing
  <2>8. QED
    BY <2>5, <2>6, <2>7 DEF TypeOK, resume, files, bounds, Counted, PendingCounts
<1>2. ASSUME NEW t \in Torrents, Finished(t)
      PROVE  Inv'
  <2> DEFINE r == [client[t].data EXCEPT !.done = TRUE]
             h == [client[t] EXCEPT !.data = r, !.unsaved = TRUE]
  <2>0. client[t] \in Handle /\ client[t].data \in Resume
    BY RecordsType
  <2>1. r \in Resume /\ client[t] \in Handle
    BY <2>0 DEF Resume
  <2> HIDE DEF r
  <2>2. h \in Handle
    BY <2>1 DEF Handle
  <2>3. client' = [client EXCEPT ![t] = h]
    BY <1>2 DEF Finished, TypeOK, r
  <2> HIDE DEF h
  <2>4. client' \in [Torrents -> Handle]
    BY <2>2, <2>3, HandleType
  <2>5. odd' \in SUBSET Oddities /\ ("leaked" \in odd <=> "leaked" \in odd')
    BY <1>2 DEF Finished, Lately, TypeOK, Oddities
  <2>6. UNCHANGED <<phase, entries, over, resume, files, pc, loc, bounds>>
    BY <1>2 DEF Finished
  <2>7. QED
    BY <2>4, <2>5, <2>6 DEF TypeOK, entries, resume, files, bounds, Counted, PendingCounts
<1>3. ASSUME NEW t \in Torrents, LimitReached(t)
      PROVE  Inv'
  BY <1>3 DEF LimitReached, TypeOK, entries, resume, files, bounds, Counted, PendingCounts
<1>4. QED
  BY <1>1, <1>2, <1>3, SaveAlertStep DEF Client
-----------------------------------------------------------------------------
(* The loop *)

\* Every request for resume data is counted, and one more if it is not made.
LEMMA SaveResumeStep ==
    ASSUME Inv, NEW t \in Torrents, SaveResume(t)
    PROVE  Inv'
<1> USE DEF Inv
<1> DEFINE l == [loc[Loop] EXCEPT !.todo = @ \ {t}]
<1>1. Loop \in Actors /\ l \in Local /\ NoLocal \in Local
  BY Values DEF Actors, TypeOK, Local
<1> HIDE DEF l
<1>2. UNCHANGED <<phase, entries, over, files, bounds>>
  BY DEF SaveResume
<1>3. CASE client[t].here
  <2>1. Set(Loop, l) /\ UNCHANGED <<pc, odd>>
    BY <1>3 DEF SaveResume, l
  <2>2. loc' \in [Actors -> Local]
    BY <1>1, <2>1, SetType
  <2> DEFINE new == [t |-> t, data |-> client[t].data]
             h == [client[t] EXCEPT !.unsaved = FALSE]
  <2>3. new \in Alert /\ h \in Handle
    <3>1. client[t] \in Handle /\ client[t].data \in Resume
      BY RecordsType
    <3>2. new \in Alert
      BY <3>1 DEF Alert
    <3>3. h \in Handle
      BY <3>1 DEF Handle
    <3>4. QED
      BY <3>2, <3>3
  <2>4. alerts' = Append(alerts, new) /\ pending' = pending + 1
    BY <1>3 DEF SaveResume
  <2>5. client' = [client EXCEPT ![t] = h]
    BY <1>3 DEF SaveResume, TypeOK
  <2> HIDE DEF new, h
  <2>6. client' \in [Torrents -> Handle]
    BY <2>3, <2>5, HandleType
  <2>7. alerts' \in Seq(Alert) /\ Len(alerts') = Len(alerts) + 1
    BY <2>3, <2>4 DEF TypeOK, Alert
  <2>8. TypeOK'
    BY <1>2, <2>1, <2>2, <2>4, <2>6, <2>7 DEF TypeOK, Local, Alert, entries, files, bounds
  <2>9. Counted'
    <3>1. Len(alerts) \in Nat /\ pending \in Nat
      BY DEF TypeOK
    <3>2. Len(alerts') = Len(alerts) + 1 /\ pending' = pending + 1 /\ odd' = odd
      BY <2>1, <2>4, <2>7
    <3>3. QED
      BY <3>1, <3>2 DEF Counted, PendingCounts
  <2>10. QED
    BY <2>8, <2>9
<1>4. CASE ~client[t].here
  <2>0. UNCHANGED <<alerts, client>>
    BY <1>4 DEF SaveResume
  <2>1. CASE Set(Loop, l) /\ UNCHANGED <<pending, pc, odd>>
    <3>1. loc' \in [Actors -> Local]
      BY <1>1, <2>1, SetType
    <3>2. QED
      BY <1>2, <2>0, <2>1, <3>1
         DEF TypeOK, Local, entries, files, bounds, Counted, PendingCounts
  <2>2. CASE /\ pending' = pending + 1 /\ odd' = odd \cup {"leaked"}
             /\ Goto(Loop, "flush") /\ Set(Loop, NoLocal)
    <3>1. loc' \in [Actors -> Local] /\ pc' \in [Actors -> Labels]
      BY <1>1, <2>2, SetType, GotoType DEF Labels
    <3>2. odd' \in SUBSET Oddities /\ pending' \in Nat
      BY <2>2 DEF TypeOK, Oddities
    <3>3. TypeOK'
      BY <1>2, <2>0, <3>1, <3>2 DEF TypeOK, Local, entries, files, bounds
    <3>4. Len(alerts) \in Nat
      BY DEF TypeOK
    <3>5. Counted'
      BY <2>0, <2>2, <3>4 DEF Counted, PendingCounts, TypeOK
    <3>6. QED
      BY <3>3, <3>5
  <2>3. QED
    BY <1>4, <2>1, <2>2 DEF SaveResume, l
<1>5. QED
  BY <1>3, <1>4

LEMMA EndSeedingStep ==
    ASSUME Inv, NEW t \in Torrents, EndSeeding(t)
    PROVE  Inv'
<1> USE DEF Inv
<1> DEFINE l == [loc[Loop] EXCEPT !.todo = @ \ {t}, !.t = t]
<1>1. Loop \in Actors /\ l \in Local
  <2>1. Loop \in Actors
    BY DEF Actors
  <2>2. loc[Loop] \in Local
    <3>1. loc \in [Actors -> Local]
      BY DEF TypeOK, Local
    <3> HIDE DEF Inv
    <3>2. QED
      BY <2>1, <3>1
  <2>3. \A todo \in SUBSET Torrents : [loc[Loop] EXCEPT !.todo = todo, !.t = t] \in Local
    BY <2>2 DEF Local
  <2>4. loc[Loop].todo \ {t} \in SUBSET Torrents
    BY <2>2 DEF Local
  <2>5. QED
    BY <2>1, <2>3, <2>4
<1> HIDE DEF l
<1>2. loc' \in [Actors -> Local]
  BY <1>1, SetType DEF EndSeeding, l
<1>3. /\ client' \in [Torrents -> Handle] /\ pc' \in [Actors -> Labels]
      /\ odd' \in SUBSET Oddities /\ ("leaked" \in odd <=> "leaked" \in odd')
  <2>1. CASE UNCHANGED <<client, pc, odd>>
    BY <2>1 DEF TypeOK
  <2>2. CASE SetPausedIn(t, "limit") /\ Note(Loop, t) /\ UNCHANGED pc
    BY <2>2, SetPausedType, NoteType DEF Note, Pauses, TypeOK
  <2>3. CASE Remove(Loop, t)
    BY <1>1, <2>3, Values, HandleType, GotoType, NoteType DEF Remove, Note, Labels
  <2>4. QED
    BY <2>1, <2>2, <2>3 DEF EndSeeding
<1>4. UNCHANGED <<phase, entries, over, resume, files, bounds>>
  BY DEF EndSeeding
<1>5. QED
  BY <1>2, <1>3, <1>4
     DEF TypeOK, Local, entries, resume, files, bounds, Counted, PendingCounts

\* The steps of a tick that change the loop's label and locals only.
LEMMA QuietStep ==
    ASSUME Inv, Statuses \/ SeedingFinished \/ SeedingEnded \/ AllAskedFor \/ AwaitResume
    PROVE  Inv'
<1> USE DEF Inv
<1>0. Loop \in Actors
  BY DEF Actors
<1>1. \A todo \in SUBSET Torrents : [NoLocal EXCEPT !.todo = todo] \in Local
  BY Values DEF Local
<1>2. UNCHANGED <<phase, entries, client, over, resume, files, bounds>>
  BY DEF Statuses, SeedingFinished, SeedingEnded, AllAskedFor, AwaitResume
<1>3. odd' \in SUBSET Oddities /\ ("leaked" \in odd <=> "leaked" \in odd')
  BY DEF Statuses, SeedingFinished, SeedingEnded, AllAskedFor, AwaitResume, TypeOK, Oddities
<1>4. pc' \in [Actors -> Labels]
  BY <1>0, GotoType DEF Statuses, SeedingFinished, SeedingEnded, AllAskedFor, AwaitResume, Labels
<1>5. loc' \in [Actors -> Local]
  <2>1. CASE Statuses
    <3>1. PICK todo \in SUBSET Torrents : Set(Loop, [NoLocal EXCEPT !.todo = todo])
      BY <2>1 DEF Statuses
    <3>2. QED
      BY <1>0, <1>1, <3>1, SetType
  <2>2. CASE SeedingFinished
    <3> DEFINE l == [loc[Loop] EXCEPT !.todo = {t \in @ : Known(t) /\ over[t]}]
    <3>1. l \in Local
      BY <1>0 DEF TypeOK, Local
    <3> HIDE DEF l
    <3>2. Set(Loop, l)
      BY <2>2 DEF SeedingFinished, l
    <3>3. QED
      BY <1>0, <3>1, <3>2, SetType
  <2>3. CASE SeedingEnded
    <3>1. CASE Set(Loop, NoLocal)
      BY <1>0, <3>1, Values, SetType
    <3>2. CASE ~Set(Loop, NoLocal)
      <4>1. PICK todo \in SUBSET Torrents : Set(Loop, [NoLocal EXCEPT !.todo = todo])
        BY <2>3, <3>2 DEF SeedingEnded
      <4>2. QED
        BY <1>0, <1>1, <4>1, SetType
    <3>3. QED
      BY <3>1, <3>2
  <2>4. CASE AllAskedFor \/ AwaitResume
    BY <2>4 DEF AllAskedFor, AwaitResume, TypeOK, Local
  <2>5. QED
    BY <2>1, <2>2, <2>3, <2>4
<1>6. QED
  BY <1>2, <1>3, <1>4, <1>5
     DEF TypeOK, Local, entries, resume, files, bounds, Counted, PendingCounts

LEMMA FlushStep ==
    ASSUME Inv, FlushSession \/ TruncateSession \/ WriteSession \/ WriteFails
    PROVE  Inv'
<1> USE DEF Inv
<1>0. Loop \in Actors /\ Flushed \in Labels /\ NoLocal \in Local
  BY Values DEF Actors, Flushed, Labels
<1>1. CASE FlushSession
  <2> DEFINE list == [t \in Torrents |-> Saved(sessions[t])]
  <2>1. list \in [Torrents -> Entry]
    BY SavedType DEF TypeOK
  <2> HIDE DEF list
  <2>2. [NoLocal EXCEPT !.list = list] \in Local
    BY <1>0, <2>1 DEF Local
  <2>3. loc' \in [Actors -> Local] /\ pc' \in [Actors -> Labels] /\ dirty' \in BOOLEAN
    <3>1. CASE dirty
      <4>1. /\ Set(Loop, [NoLocal EXCEPT !.list = list]) /\ Goto(Loop, "truncate")
            /\ dirty' = FALSE
        BY <1>1, <3>1 DEF FlushSession, list
      <4>2. QED
        BY <1>0, <2>2, <4>1, SetType, GotoType DEF Labels
    <3>2. CASE ~dirty
      <4>1. Set(Loop, NoLocal) /\ Goto(Loop, Flushed) /\ UNCHANGED dirty
        BY <1>1, <3>2 DEF FlushSession
      <4>2. QED
        BY <1>0, <4>1, SetType, GotoType DEF TypeOK
    <3>3. QED
      BY <3>1, <3>2
  <2>4. UNCHANGED <<phase, sessions, client, over, resume, files, bounds, odd>>
    BY <1>1 DEF FlushSession
  <2>5. QED
    BY <2>3, <2>4 DEF TypeOK, Local, resume, files, bounds, Counted, PendingCounts
<1>2. CASE TruncateSession
  <2>1. sessionFile' \in SessionFile
    BY <1>2, Values DEF TruncateSession, SessionFile
  <2>2. pc' \in [Actors -> Labels]
    BY <1>0, <1>2, GotoType DEF TruncateSession, Labels
  <2>3. UNCHANGED <<phase, entries, client, over, resume, resumeFile, torrentFile, loc, bounds, odd>>
    BY <1>2 DEF TruncateSession
  <2>4. QED
    BY <2>1, <2>2, <2>3
       DEF TypeOK, SessionFile, entries, resume, bounds, Counted, PendingCounts
<1>3. CASE WriteSession
  <2>1. sessionFile' \in SessionFile
    BY <1>0, <1>3 DEF WriteSession, SessionFile, TypeOK
  <2>2. loc' \in [Actors -> Local] /\ pc' \in [Actors -> Labels]
    BY <1>0, <1>3, SetType, GotoType DEF WriteSession
  <2>3. UNCHANGED <<phase, entries, client, over, resume, resumeFile, torrentFile, bounds, odd>>
    BY <1>3 DEF WriteSession
  <2>4. QED
    BY <2>1, <2>2, <2>3
       DEF TypeOK, SessionFile, Local, entries, resume, bounds, Counted, PendingCounts
<1>4. CASE WriteFails
  <2>1. loc' \in [Actors -> Local] /\ pc' \in [Actors -> Labels]
    BY <1>0, <1>4, SetType, GotoType DEF WriteFails
  <2>2. failures' \in 0..MaxFailures
    BY <1>4, StoreAssumption DEF WriteFails, TypeOK
  <2>3. odd' \in SUBSET Oddities /\ ("leaked" \in odd <=> "leaked" \in odd')
    BY <1>4 DEF WriteFails, TypeOK, Oddities
  <2>4. UNCHANGED <<phase, entries, client, over, resume, files, requests, ends>>
    BY <1>4 DEF WriteFails
  <2>5. QED
    BY <2>1, <2>2, <2>3, <2>4
       DEF TypeOK, Local, entries, resume, files, Counted, PendingCounts
<1>5. QED
  BY <1>1, <1>2, <1>3, <1>4
-----------------------------------------------------------------------------
THEOREM Invariant == Spec => []Inv
<1>1. Inv /\ [Next]_vars => Inv'
  <2> SUFFICES ASSUME Inv, [Next]_vars PROVE Inv'
    OBVIOUS
  <2>1. CASE UNCHANGED vars
    BY <2>1 DEF vars, entries, resume, files, bounds, Inv, TypeOK, Counted, PendingCounts
  <2>2. CASE Program
    BY <2>2, ProgramStep
  <2>3. CASE Client
    BY <2>3, ClientStep
  <2>4. CASE Tick
    BY <2>4, EndSeedingStep, SaveResumeStep, QuietStep, FlushStep DEF Tick
  <2>5. ASSUME NEW c \in Callers, Requests(c)
        PROVE  Inv'
    BY <2>5, RequestStep
  <2>6. ASSUME NEW a \in Actors, AddInsert(a) \/ Removes(a)
        PROVE  Inv'
    BY <2>6, InsertStep, RemovesStep
  <2>7. QED
    BY <2>1, <2>2, <2>3, <2>4, <2>5, <2>6 DEF Next
<1>2. QED
  BY <1>1, InvInit, PTL DEF Spec

\* Requests, the loop, libtorrent, stops and kills keep the engine's state, its
\* files and its alerts well typed; pending_resume in particular is never below 0.
THEOREM TypeCorrect == Spec => []TypeOK
<1>1. Inv => TypeOK
  BY DEF Inv
<1>2. QED
  BY <1>1, Invariant, PTL

\* SaveResume "waits for the writes": pending_resume is the number of alerts that
\* are still to come, after timeouts and kills as well, until a torrent is removed
\* while it is asked for its data.
THEOREM PendingCorrect == Spec => []PendingCounts
<1>1. Inv => PendingCounts
  BY DEF Inv, Counted
<1>2. QED
  BY <1>1, Invariant, PTL

-----------------------------------------------------------------------------
(* What the steps do, as far as the invariants below read it. *)

Busy == {"insert", "keep", "drop", "unresume", "untorrent"}
Writing == {"truncate", "write"}
At(a, t, labels) == loc[a].t = t /\ pc[a] \in labels
Free(names) == odd \cap names = {}

stored == <<sessionFile, resumeFile, torrentFile>>

\* Only a's next call and its local variables change.
Apart(a) == \A b \in Actors \ {a} : pc'[b] = pc[b] /\ loc'[b] = loc[b]

\* What has been noted of a step of a on t.
Noted(a, t) ==
    /\ odd \subseteq odd'
    /\ phase = "stopping" => "late" \in odd'
    /\ "crossed" \notin odd' =>
         /\ \A b \in Actors \ {a} : ~At(b, t, Busy)
         /\ a # Loop /\ phase = "starting" => t \notin loc[Loop].todo

LEMMA NoteEffect ==
    ASSUME NEW a, NEW t, Note(a, t)
    PROVE  Noted(a, t)
BY DEF Note, Crosses, Noted, At, Busy

LEMMA GotoEffect ==
    ASSUME TypeOK, NEW a \in Actors, NEW label, Goto(a, label)
    PROVE  pc'[a] = label /\ \A b \in Actors \ {a} : pc'[b] = pc[b]
BY DEF TypeOK, Goto

LEMMA SetEffect ==
    ASSUME TypeOK, NEW a \in Actors, NEW l, Set(a, l)
    PROVE  loc'[a] = l /\ \A b \in Actors \ {a} : loc'[b] = loc[b]
BY DEF TypeOK, Set

LEMMA ReturnEffect ==
    ASSUME TypeOK, NEW a \in Actors, Return(a)
    PROVE  /\ Apart(a)
           /\ a = Loop => loc'[a] = loc[a]
           /\ a # Loop => loc'[a] = NoLocal
           /\ a # Loop => pc'[a] = "idle"
           /\ a = Loop => pc'[a] = IF phase = "starting" THEN "start" ELSE "seed"
<1>1. Goto(a, IF a # Loop THEN "idle" ELSE IF phase = "starting" THEN "start" ELSE "seed")
  BY DEF Return
<1>2. Set(a, IF a # Loop THEN NoLocal ELSE loc[a])
  BY DEF Return
<1>3. QED
  BY <1>1, <1>2, GotoEffect, SetEffect DEF Apart

\* What a caller starts with.
LEMMA Locals ==
    ASSUME NEW t \in Torrents
    PROVE  /\ NoLocal.keep = FALSE /\ NoLocal.todo = {} /\ NoLocal.list = NoEntries
           /\ [NoLocal EXCEPT !.t = t].t = t
           /\ [NoLocal EXCEPT !.t = t].keep = FALSE
BY DEF NoLocal

LEMMA StartEffect ==
    ASSUME Inv, Start
    PROVE  /\ phase = "down" /\ phase' = "starting"
           /\ UNCHANGED <<sessions, dirty, client, alerts, pending, stored, requests, odd>>
           /\ Apart(Loop) /\ pc'[Loop] = "start"
           /\ loc'[Loop].list = sessionFile.list /\ ~loc'[Loop].keep
           /\ loc'[Loop].todo = {t \in Torrents : Listed(t)}
<1> DEFINE l == [NoLocal EXCEPT !.todo = {t \in Torrents : Listed(t)}, !.list = sessionFile.list]
<1>1. l.list = sessionFile.list /\ ~l.keep /\ l.todo = {t \in Torrents : Listed(t)}
  BY DEF NoLocal
<1>2. Set(Loop, l) /\ Goto(Loop, "start") /\ Loop \in Actors
  BY DEF Start, Actors
<1> HIDE DEF l
<1>3. loc'[Loop] = l /\ Apart(Loop) /\ pc'[Loop] = "start"
  BY <1>2, GotoEffect, SetEffect DEF Inv, Apart
<1>4. QED
  BY <1>1, <1>3 DEF Start, entries, resume, files, bounds, stored

LEMMA StartAddEffect ==
    ASSUME Inv, NEW t \in Torrents, StartAdd(t)
    PROVE  /\ t \in loc[Loop].todo /\ pc[Loop] = "start"
           /\ UNCHANGED <<phase, sessions, dirty, alerts, pending, stored, requests>>
           /\ Apart(Loop)
           /\ loc'[Loop].todo = loc[Loop].todo \ {t} /\ loc'[Loop].t = t
           /\ loc'[Loop].list = loc[Loop].list /\ loc'[Loop].keep = loc[Loop].keep
           /\ odd \subseteq odd'
           /\ "crossed" \notin odd' => /\ ~client[t].here /\ ~Known(t)
                                       /\ \A c \in Callers : pc[c] # "idle" => loc[c].t # t
           /\ \A u \in Torrents : u # t \/ client[t].here => client'[u] = client[u]
           /\ \/ /\ HasResume(t) \/ loc[Loop].list[t].magnet \/ torrentFile[t]
                 /\ pc'[Loop] = "insert"
                 /\ loc'[Loop].entry.id = loc[Loop].list[t].id
                 /\ loc'[Loop].entry.magnet = loc[Loop].list[t].magnet
                 /\ client'[t].data.upload => loc'[Loop].entry.preparing
                 /\ HasResume(t) /\ ~client[t].here =>
                       client'[t] = [here |-> TRUE, unsaved |-> FALSE, data |-> resumeFile[t]]
                 /\ ~HasResume(t) /\ ~client[t].here =>
                       client'[t] = Fresh(loc[Loop].list[t].id, "no")
              \/ /\ ~(HasResume(t) \/ loc[Loop].list[t].magnet \/ torrentFile[t])
                 /\ pc' = pc /\ client' = client
<1> DEFINE l == loc[Loop]
           rest == [l EXCEPT !.todo = @ \ {t}, !.t = t]
           entry == l.list[t]
           e == [entry EXCEPT !.preparing = ~HasResume(t) \/ client'[t].data.upload]
           full == [rest EXCEPT !.entry = e]
           has == HasResume(t) \/ entry.magnet \/ torrentFile[t]
           h == IF HasResume(t) THEN [here |-> TRUE, unsaved |-> FALSE, data |-> resumeFile[t]]
                ELSE Fresh(entry.id, "no")
<1>0. TypeOK /\ Loop \in Actors /\ l \in Local /\ entry \in Entry
  BY DEF Inv, Actors, TypeOK, Local
<1>1. /\ rest.todo = l.todo \ {t} /\ rest.t = t /\ rest.list = l.list /\ rest.keep = l.keep
      /\ full.todo = l.todo \ {t} /\ full.t = t /\ full.list = l.list /\ full.keep = l.keep
      /\ full.entry = e
  BY <1>0 DEF Local
<1>2. e.id = entry.id /\ e.magnet = entry.magnet /\ (client'[t].data.upload => e.preparing)
  BY <1>0 DEF Entry
<1>3. /\ t \in l.todo /\ pc[Loop] = "start"
      /\ has => Join(t, h) /\ Set(Loop, full) /\ Goto(Loop, "insert")
      /\ ~has => Set(Loop, rest) /\ UNCHANGED <<client, pc>>
  BY DEF StartAdd
<1>4. /\ UNCHANGED <<phase, sessions, dirty, alerts, pending, stored, requests>>
      /\ odd' = IF client[t].here \/ Known(t) \/ \E c \in Callers : pc[c] # "idle" /\ loc[c].t = t
                THEN odd \cup {"crossed"} ELSE odd
  BY DEF StartAdd, entries, resume, files, bounds, stored
<1> HIDE DEF l, rest, e, full, h, entry
<1>5. CASE has
  <2>1. loc'[Loop] = full /\ pc'[Loop] = "insert" /\ Apart(Loop)
    BY <1>0, <1>3, <1>5, GotoEffect, SetEffect DEF Apart
  <2>2. \A u \in Torrents : u # t \/ client[t].here => client'[u] = client[u]
    BY <1>0, <1>3, <1>5 DEF Join, TypeOK
  <2>3. ~client[t].here => client'[t] = h
    BY <1>0, <1>3, <1>5 DEF Join, TypeOK
  <2>4. QED
    BY <1>1, <1>2, <1>3, <1>4, <1>5, <2>1, <2>2, <2>3 DEF h, l, entry
<1>6. CASE ~has
  <2>1. loc'[Loop] = rest /\ pc' = pc /\ client' = client /\ Apart(Loop)
    BY <1>0, <1>3, <1>6, SetEffect DEF Apart
  <2>2. QED
    BY <1>1, <1>3, <1>4, <1>6, <2>1 DEF l, entry
<1>7. QED
  BY <1>5, <1>6

LEMMA StartDoneEffect ==
    ASSUME Inv, StartDone
    PROVE  /\ pc[Loop] = "start" /\ loc[Loop].todo = {} /\ phase' = "up"
           /\ UNCHANGED <<sessions, dirty, client, alerts, pending, stored, requests, odd>>
           /\ Apart(Loop) /\ pc'[Loop] = "idle" /\ loc'[Loop] = NoLocal
<1>1. Loop \in Actors /\ Goto(Loop, "idle") /\ Set(Loop, NoLocal)
  BY DEF StartDone, Actors
<1>2. Apart(Loop) /\ pc'[Loop] = "idle" /\ loc'[Loop] = NoLocal
  BY <1>1, GotoEffect, SetEffect DEF Inv, Apart
<1>3. QED
  BY <1>2 DEF StartDone, entries, resume, files, bounds, stored

LEMMA StopEffect ==
    ASSUME Inv, Stop
    PROVE  /\ phase = "up" /\ pc[Loop] = "idle" /\ phase' = "stopping"
           /\ UNCHANGED <<sessions, dirty, client, alerts, pending, stored, requests, odd>>
           /\ Apart(Loop) /\ pc'[Loop] = "save" /\ ~loc'[Loop].keep
           /\ loc'[Loop].list = NoEntries
           /\ \A t \in Torrents : client[t].here => t \in loc'[Loop].todo
<1> DEFINE l == [NoLocal EXCEPT !.todo = {t \in Torrents : client[t].here}]
<1>1. Loop \in Actors /\ Goto(Loop, "save") /\ Set(Loop, l)
  BY DEF Stop, Actors
<1>2. ~l.keep /\ l.list = NoEntries /\ \A t \in Torrents : client[t].here => t \in l.todo
  BY DEF NoLocal
<1> HIDE DEF l
<1>3. Apart(Loop) /\ pc'[Loop] = "save" /\ loc'[Loop] = l
  BY <1>1, GotoEffect, SetEffect DEF Inv, Apart
<1>4. QED
  BY <1>2, <1>3 DEF Stop, entries, resume, files, bounds, stored

LEMMA EndEffect ==
    ASSUME Inv, Close \/ Kill
    PROVE  /\ Down /\ UNCHANGED <<stored, requests>>
           /\ odd \subseteq odd'
           /\ "unkept" \notin odd' => \A a \in Actors : pc[a] # "keep"
           /\ "listed" \notin odd' =>
                \A t \in Torrents : Listed(t) => sessionFile.list[t].id = sessions[t].id \/ ToStart(t)
           /\ "stale" \notin odd' =>
                \A t \in Torrents : HasResume(t) => sessionFile.list[t].id = resumeFile[t].id
<1>1. odd \cup LeftBehind \subseteq odd'
  BY DEF Close, Kill
<1>2. Down /\ UNCHANGED <<stored, requests>>
  BY DEF Close, Kill, files, bounds, stored
<1>3. QED
  BY <1>1, <1>2 DEF LeftBehind

LEMMA AddEffect ==
    ASSUME Inv, NEW c \in Callers, NEW t \in Torrents, NEW magnet \in BOOLEAN,
           NEW paused \in BOOLEAN, Add(c, t, magnet, paused)
    PROVE  /\ phase # "down" /\ pc[c] = "idle" /\ requests' = requests + 1
           /\ UNCHANGED <<phase, sessions, dirty, alerts, pending, stored>>
           /\ Apart(c) /\ pc'[c] = "insert" /\ Noted(c, t)
           /\ loc'[c].t = t /\ loc'[c].keep = ~magnet
           /\ loc'[c].entry.id = requests + 1 /\ loc'[c].entry.magnet = magnet
           /\ loc'[c].entry.preparing
           /\ \A u \in Torrents : u # t \/ client[t].here => client'[u] = client[u]
           /\ ~client[t].here => /\ client'[t].here /\ client'[t].data.id = requests + 1
                                 /\ client'[t].data.upload
<1> DEFINE e == [NoEntry EXCEPT !.id = requests + 1, !.magnet = magnet, !.preparing = TRUE]
           l == [NoLocal EXCEPT !.t = t, !.keep = ~magnet, !.entry = e]
           h == Fresh(requests + 1, IF paused THEN "user" ELSE "no")
<1>1. e.id = requests + 1 /\ e.magnet = magnet /\ e.preparing
  BY DEF NoEntry
<1>2. l.t = t /\ l.keep = ~magnet /\ l.entry = e
  BY DEF NoLocal
<1>3. h.here /\ h.data.id = requests + 1 /\ h.data.upload
  BY DEF Fresh
<1>4. c \in Actors /\ Goto(c, "insert") /\ Set(c, l) /\ Join(t, h) /\ Note(c, t)
  BY DEF Add, Actors
<1>5. /\ phase # "down" /\ pc[c] = "idle" /\ requests' = requests + 1
      /\ UNCHANGED <<phase, sessions, dirty, alerts, pending, stored>>
  BY DEF Add, Serves, entries, resume, files, stored
<1> HIDE DEF e, l, h
<1>6. Apart(c) /\ pc'[c] = "insert" /\ loc'[c] = l
  BY <1>4, GotoEffect, SetEffect DEF Inv, Apart
<1>7. /\ \A u \in Torrents : u # t \/ client[t].here => client'[u] = client[u]
      /\ ~client[t].here => client'[t] = h
  BY <1>4 DEF Join, Inv, TypeOK
<1>8. Noted(c, t)
  BY <1>4, NoteEffect
<1>9. QED
  BY <1>1, <1>2, <1>3, <1>5, <1>6, <1>7, <1>8

LEMMA InsertEffect ==
    ASSUME Inv, NEW a \in Actors, AddInsert(a)
    PROVE  LET t == loc[a].t IN
           /\ t \in Torrents /\ pc[a] = "insert" /\ Noted(a, t)
           /\ UNCHANGED <<phase, client, alerts, pending, stored, requests>>
           /\ \/ Known(t) /\ sessions' = sessions /\ dirty' = dirty
              \/ ~Known(t) /\ sessions' = [sessions EXCEPT ![t] = loc[a].entry] /\ dirty'
           /\ Apart(a)
           /\ \/ loc[a].keep /\ pc'[a] = "keep" /\ loc'[a] = loc[a]
              \/ /\ ~loc[a].keep
                 /\ a = Loop => loc'[a] = loc[a]
                 /\ a # Loop => loc'[a] = NoLocal
                 /\ a # Loop => pc'[a] = "idle"
                 /\ a = Loop => pc'[a] = IF phase = "starting" THEN "start" ELSE "seed"
<1> DEFINE t == loc[a].t
<1>1. t \in Torrents
  BY DEF Inv, TypeOK
<1>2. pc[a] = "insert" /\ Note(a, t)
  BY DEF AddInsert
<1>3. UNCHANGED <<phase, client, alerts, pending, stored, requests>>
  BY DEF AddInsert, resume, files, stored, bounds
<1>4. \/ Known(t) /\ sessions' = sessions /\ dirty' = dirty
      \/ ~Known(t) /\ sessions' = [sessions EXCEPT ![t] = loc[a].entry] /\ dirty'
  BY DEF AddInsert, entries
<1>5. CASE loc[a].keep
  <2>1. Goto(a, "keep") /\ loc' = loc
    BY <1>5 DEF AddInsert
  <2>2. Apart(a) /\ pc'[a] = "keep" /\ loc'[a] = loc[a]
    BY <2>1, GotoEffect DEF Inv, Apart
  <2>3. QED
    BY <1>1, <1>2, <1>3, <1>4, <1>5, <2>2, NoteEffect
<1>6. CASE ~loc[a].keep
  <2>1. Return(a)
    BY <1>6 DEF AddInsert
  <2>2. QED
    BY <1>1, <1>2, <1>3, <1>4, <1>6, <2>1, NoteEffect, ReturnEffect DEF Inv
<1>7. QED
  BY <1>5, <1>6

LEMMA KeepEffect ==
    ASSUME Inv, NEW c \in Callers, KeepTorrentFile(c)
    PROVE  LET t == loc[c].t IN
           /\ t \in Torrents /\ pc[c] = "keep" /\ Noted(c, t)
           /\ torrentFile' = [torrentFile EXCEPT ![t] = TRUE]
           /\ UNCHANGED <<phase, sessions, dirty, client, alerts, pending, sessionFile,
                          resumeFile, requests>>
           /\ Apart(c) /\ pc'[c] = "idle" /\ loc'[c] = NoLocal
<1>1. loc[c].t \in Torrents /\ c \in Actors /\ c # Loop
  BY StoreAssumption DEF Inv, TypeOK, Actors
<1>2. Return(c) /\ Note(c, loc[c].t)
  BY DEF KeepTorrentFile
<1>3. Apart(c) /\ pc'[c] = "idle" /\ loc'[c] = NoLocal
  BY <1>1, <1>2, ReturnEffect DEF Inv
<1>4. QED
  BY <1>1, <1>2, <1>3, NoteEffect DEF KeepTorrentFile, entries, resume, bounds

LEMMA RemoveEffect ==
    ASSUME Inv, NEW a \in Actors, NEW t \in Torrents,
           \/ a \in Callers /\ RemoveRequest(a, t)
           \/ a = Loop /\ EndSeeding(t) /\ pc' # pc
    PROVE  /\ client' = [client EXCEPT ![t] = NoHandle] /\ client[t].here /\ Noted(a, t)
           /\ UNCHANGED <<phase, sessions, dirty, alerts, pending, stored>>
           /\ requests \in Nat /\ requests' \in Nat /\ requests' >= requests
           /\ pc[a] = IF a = Loop THEN "seed" ELSE "idle"
           /\ Apart(a) /\ pc'[a] = "drop"
           /\ loc'[a].t = t /\ loc'[a].keep = IF a = Loop THEN loc[a].keep ELSE FALSE
           /\ a = Loop => loc'[a].list = loc[a].list
<1>0. TypeOK /\ requests \in Nat
  BY StoreAssumption DEF Inv, TypeOK
<1>1. CASE a \in Callers /\ RemoveRequest(a, t)
  <2>1. Set(a, [NoLocal EXCEPT !.t = t]) /\ Goto(a, "drop") /\ Note(a, t)
    BY <1>1 DEF RemoveRequest, Remove
  <2>2. Apart(a) /\ pc'[a] = "drop" /\ loc'[a] = [NoLocal EXCEPT !.t = t]
    BY <1>0, <2>1, GotoEffect, SetEffect DEF Apart
  <2>3. a # Loop
    BY <1>1, StoreAssumption
  <2>4. loc'[a].t = t /\ loc'[a].keep = FALSE
    BY <2>2, Locals
  <2>5. /\ client' = [client EXCEPT ![t] = NoHandle] /\ client[t].here
        /\ UNCHANGED <<phase, sessions, dirty, alerts, pending, stored>>
        /\ requests' = requests + 1 /\ pc[a] = "idle"
    BY <1>1 DEF RemoveRequest, Remove, Serves, entries, resume, files, stored
  <2>6. Noted(a, t)
    BY <2>1, NoteEffect
  <2>7. requests' \in Nat /\ requests' >= requests
    BY <1>0, <2>5
  <2>8. QED
    BY <1>0, <2>2, <2>3, <2>4, <2>5, <2>6, <2>7
<1>2. CASE a = Loop /\ EndSeeding(t) /\ pc' # pc
  <2> DEFINE l == [loc[Loop] EXCEPT !.todo = @ \ {t}, !.t = t]
  <2>1. client[t].here /\ Remove(a, t) /\ Set(a, l) /\ pc[a] = "seed"
    BY <1>2 DEF EndSeeding
  <2>2. UNCHANGED <<phase, sessions, dirty, alerts, pending, stored, requests>>
    BY <1>2 DEF EndSeeding, entries, resume, files, stored, bounds
  <2>3. l.t = t /\ l.keep = loc[a].keep /\ l.list = loc[a].list
    BY <1>0, <1>2 DEF TypeOK
  <2> HIDE DEF l
  <2>4. Apart(a) /\ pc'[a] = "drop" /\ loc'[a] = l
    BY <1>0, <2>1, GotoEffect, SetEffect DEF Apart, Remove
  <2>5. client' = [client EXCEPT ![t] = NoHandle] /\ Noted(a, t)
    BY <2>1, NoteEffect DEF Remove
  <2>6. QED
    BY <1>0, <1>2, <2>1, <2>2, <2>3, <2>4, <2>5
<1>3. QED
  BY <1>1, <1>2

LEMMA RemovesEffect ==
    ASSUME Inv, NEW a \in Actors, Removes(a)
    PROVE  LET t == loc[a].t IN
           /\ t \in Torrents /\ Noted(a, t)
           /\ UNCHANGED <<phase, client, alerts, pending, sessionFile, requests>>
           /\ Apart(a)
           /\ \/ /\ pc[a] = "drop" /\ pc'[a] = "unresume" /\ loc'[a] = loc[a]
                 /\ sessions' = [sessions EXCEPT ![t] = NoEntry] /\ dirty'
                 /\ UNCHANGED <<resumeFile, torrentFile>>
              \/ /\ pc[a] = "unresume" /\ pc'[a] = "untorrent" /\ loc'[a] = loc[a]
                 /\ resumeFile' = [resumeFile EXCEPT ![t] = NoResume]
                 /\ UNCHANGED <<sessions, dirty, torrentFile>>
              \/ /\ pc[a] = "untorrent"
                 /\ torrentFile' = [torrentFile EXCEPT ![t] = FALSE]
                 /\ UNCHANGED <<sessions, dirty, resumeFile>>
                 /\ a = Loop => loc'[a] = loc[a]
                 /\ a # Loop => loc'[a] = NoLocal
                 /\ a # Loop => pc'[a] = "idle"
                 /\ a = Loop => pc'[a] = IF phase = "starting" THEN "start" ELSE "seed"
<1> DEFINE t == loc[a].t
<1>0. TypeOK /\ t \in Torrents
  BY DEF Inv, TypeOK
<1>1. CASE RemoveEntry(a)
  <2>1. Goto(a, "unresume") /\ Note(a, t) /\ loc' = loc
    BY <1>1 DEF RemoveEntry
  <2>2. Apart(a) /\ pc'[a] = "unresume"
    BY <1>0, <2>1, GotoEffect DEF Apart
  <2>3. QED
    BY <1>0, <1>1, <2>1, <2>2, NoteEffect DEF RemoveEntry, resume, files, bounds
<1>2. CASE RemoveResumeFile(a)
  <2>1. Goto(a, "untorrent") /\ Note(a, t) /\ loc' = loc
    BY <1>2 DEF RemoveResumeFile
  <2>2. Apart(a) /\ pc'[a] = "untorrent"
    BY <1>0, <2>1, GotoEffect DEF Apart
  <2>3. QED
    BY <1>0, <1>2, <2>1, <2>2, NoteEffect DEF RemoveResumeFile, entries, resume, bounds
<1>3. CASE RemoveTorrentFile(a)
  <2>1. Return(a) /\ Note(a, t)
    BY <1>3 DEF RemoveTorrentFile
  <2>2. QED
    BY <1>0, <1>3, <2>1, NoteEffect, ReturnEffect
       DEF RemoveTorrentFile, entries, resume, bounds
<1>4. QED
  BY <1>1, <1>2, <1>3 DEF Removes

-----------------------------------------------------------------------------
(* Which calls are made in which phase, and what is blank. *)

CallerLabels == {"idle", "status", "update"} \cup Busy

LoopLabels == [down     |-> {"idle"},
               starting |-> {"start", "insert"},
               up       |-> {"idle", "limits", "seed", "drop", "unresume", "untorrent",
                             "save", "await", "flush"} \cup Writing,
               stopping |-> {"save", "await", "flush", "close"} \cup Writing]

Control ==
    /\ \A c \in Callers : pc[c] \in CallerLabels
    /\ \A c \in Callers : pc[c] \in {"status", "update"} => ~loc[c].keep
    /\ ~loc[Loop].keep
    /\ pc[Loop] \in LoopLabels[phase]
    /\ phase = "down" => /\ \A a \in Actors : pc[a] = "idle"
                         /\ sessions = NoEntries /\ ~dirty
                         /\ client = [t \in Torrents |-> NoHandle]
    /\ phase \in {"down", "starting"} => alerts = <<>>
    /\ phase = "starting" =>
         /\ loc[Loop].list = sessionFile.list
         /\ \A t \in Torrents : ToStart(t) => Listed(t)
         /\ pc[Loop] = "insert" =>
              loc[Loop].entry.magnet = sessionFile.list[loc[Loop].t].magnet
         /\ ~dirty => sessions = NoEntries

Blank(e) == e.id = 0 => e = NoEntry

HandleShape(t) ==
    /\ client[t].here <=> client[t].data.id # 0
    /\ ~client[t].here => client[t] = NoHandle

Shape ==
    /\ \A t \in Torrents : HandleShape(t)
    /\ \A t \in Torrents : Blank(sessions[t])
    /\ \A t \in Torrents : Blank(sessionFile.list[t]) /\ Blank(loc[Loop].list[t])
    /\ \A i \in 1..Len(alerts) : alerts[i].data.id # 0
    /\ sessionFile.torn => sessionFile.list = NoEntries
    /\ \A a \in Actors : pc[a] = "insert" => loc[a].entry.id # 0
-----------------------------------------------------------------------------
(* Steps that leave the torrents what they are. *)

\* What libtorrent knows of t changes, but not which torrent it is, and it is not
\* put in upload mode; nothing that the session file has changes without dirty.
Tinkered(t) ==
    /\ client'[t].here = client[t].here /\ client'[t].data.id = client[t].data.id
    /\ client'[t] = client[t] \/ client[t].here
    /\ client'[t].data.upload =>
         client[t].data.upload /\ sessions'[t].preparing = sessions[t].preparing
    /\ sessions'[t].id = sessions[t].id /\ sessions'[t].magnet = sessions[t].magnet
    /\ sessions'[t] = sessions[t] \/ Known(t)
    /\ dirty' \/ Saved(sessions'[t]) = Saved(sessions[t])

LoopMoves == {<<"idle", "limits">>, <<"limits", "seed">>, <<"seed", "seed">>, <<"seed", "flush">>,
              <<"seed", "save">>, <<"save", "await">>, <<"await", "flush">>}

\* A goroutine that is not at work on a torrent goes on, or a request comes.
Wanders(a) ==
    \/ pc'[a] = pc[a] /\ loc'[a] = loc[a]
    \/ /\ a # Loop /\ pc[a] \in {"idle", "status", "update"} /\ ~loc'[a].keep
       /\ pc'[a] \in {"idle", "status", "update"}
       /\ pc[a] = "idle" => Noted(a, loc'[a].t)
       /\ pc[a] # "idle" => pc'[a] = "idle" \/ loc'[a] = loc[a]
    \/ /\ a = Loop /\ <<pc[a], pc'[a]>> \in LoopMoves
       /\ pc[a] = "idle" => phase = "up"
       /\ loc'[a].keep => loc[a].keep
       /\ loc'[a].list \in {loc[a].list, NoEntries}

Tinkers ==
    /\ UNCHANGED <<phase, alerts, pending, stored>> /\ phase # "down"
    /\ requests \in Nat /\ requests' \in Nat /\ requests' >= requests
    /\ odd \subseteq odd'
    /\ dirty => dirty'
    /\ \A t \in Torrents : Tinkered(t)
    /\ \A a \in Actors : Wanders(a)
    /\ phase = "stopping" => "late" \in odd' \/ UNCHANGED <<sessions, dirty, client>>

LEMMA Unmoved ==
    ASSUME NEW t \in Torrents, client' = client, sessions' = sessions
    PROVE  Tinkered(t)
BY DEF Tinkered

\* One torrent of the client is changed and its entry is not.
LEMMA HandleChanged ==
    ASSUME TypeOK, NEW t \in Torrents, NEW h \in Handle, client[t].here, h.here,
           h.data.id = client[t].data.id, h.data.upload => client[t].data.upload,
           client' = [client EXCEPT ![t] = h], sessions' = sessions
    PROVE  \A u \in Torrents : Tinkered(u)
BY DEF TypeOK, Tinkered

LEMMA SetPausedEffect ==
    ASSUME TypeOK, NEW t \in Torrents, NEW pause \in Pauses, client[t].here,
           SetPausedIn(t, pause), sessions' = sessions
    PROVE  \A u \in Torrents : Tinkered(u)
<1> DEFINE d == [client[t].data EXCEPT !.paused = pause]
           h == [client[t] EXCEPT !.data = d, !.unsaved = TRUE]
<1>1. client[t] \in Handle /\ client[t].data \in Resume
  BY RecordsType
<1>2. d \in Resume /\ d.id = client[t].data.id /\ d.upload = client[t].data.upload
  BY <1>1 DEF Resume
<1> HIDE DEF d
<1>3. h \in Handle /\ h.here = client[t].here /\ h.data = d
  BY <1>1, <1>2 DEF Handle
<1> USE DEF d
<1>4. client' = [client EXCEPT ![t] = h]
  BY DEF SetPausedIn, TypeOK
<1> HIDE DEF d, h
<1>5. QED
  BY <1>2, <1>3, <1>4, HandleChanged

LEMMA OddNoted ==
    ASSUME NEW a, NEW t, Noted(a, t)
    PROVE  odd \subseteq odd' /\ (phase = "stopping" => "late" \in odd')
BY DEF Noted

LEMMA RequestTinkers ==
    ASSUME Inv, Control, Shape, NEW c \in Callers,
           \/ \E t \in Torrents : Pause(c, t) \/ Unpause(c, t)
           \/ UnpauseStatus(c) \/ UnpauseUpdate(c)
    PROVE  Tinkers
<1>0. TypeOK /\ c \in Actors /\ c # Loop /\ requests \in Nat
  BY StoreAssumption DEF Inv, TypeOK, Actors
<1>1. ASSUME NEW t \in Torrents, Pause(c, t)
      PROVE  Tinkers
  <2>1. SetPausedIn(t, "user") /\ client[t].here /\ Noted(c, t) /\ pc' = pc /\ loc' = loc
    BY <1>1, NoteEffect DEF Pause
  <2>2. /\ UNCHANGED <<phase, alerts, pending, stored, sessions, dirty>> /\ phase # "down"
        /\ requests' = requests + 1
    BY <1>1 DEF Pause, Serves, entries, resume, files, stored
  <2>3. \A u \in Torrents : Tinkered(u)
    BY <1>0, <2>1, <2>2, SetPausedEffect DEF Pauses
  <2>4. requests' \in Nat /\ requests' >= requests
    BY <1>0, <2>2
  <2>5. \A a \in Actors : Wanders(a)
    BY <2>1 DEF Wanders
  <2>6. odd \subseteq odd' /\ (phase = "stopping" => "late" \in odd')
    BY <2>1, OddNoted
  <2>7. QED
    BY <1>0, <2>2, <2>3, <2>4, <2>5, <2>6 DEF Tinkers
<1>2. ASSUME NEW t \in Torrents, Unpause(c, t)
      PROVE  Tinkers
  <2> DEFINE l == [NoLocal EXCEPT !.t = t]
  <2>1. /\ SetPausedIn(t, "no") /\ client[t].here /\ Noted(c, t) /\ pc[c] = "idle"
        /\ Goto(c, "status") /\ Set(c, l)
    BY <1>2, NoteEffect DEF Unpause, Serves
  <2>2. l.t = t /\ ~l.keep
    BY Locals
  <2> HIDE DEF l
  <2>3. Apart(c) /\ pc'[c] = "status" /\ loc'[c] = l
    BY <1>0, <2>1, GotoEffect, SetEffect DEF Apart
  <2>4. /\ UNCHANGED <<phase, alerts, pending, stored, sessions, dirty>> /\ phase # "down"
        /\ requests' = requests + 1
    BY <1>2 DEF Unpause, Serves, entries, resume, files, stored
  <2>5. \A u \in Torrents : Tinkered(u)
    BY <1>0, <2>1, <2>4, SetPausedEffect DEF Pauses
  <2>6. requests' \in Nat /\ requests' >= requests
    BY <1>0, <2>4
  <2>7. \A a \in Actors : Wanders(a)
    BY <1>0, <2>1, <2>2, <2>3 DEF Wanders, Apart
  <2>8. odd \subseteq odd' /\ (phase = "stopping" => "late" \in odd')
    BY <2>1, OddNoted
  <2>9. QED
    BY <1>0, <2>4, <2>5, <2>6, <2>7, <2>8 DEF Tinkers
<1>3. CASE UnpauseStatus(c)
  <2>1. /\ UNCHANGED <<phase, alerts, pending, stored, sessions, dirty, client, requests, odd>>
        /\ pc[c] = "status"
    BY <1>3 DEF UnpauseStatus, entries, resume, files, stored, bounds
  <2>2. phase # "down"
    BY <1>0, <2>1 DEF Control
  <2>3. /\ Apart(c) /\ pc'[c] \in {"idle", "update"} /\ loc'[c] \in {loc[c], NoLocal}
        /\ pc'[c] = "idle" \/ loc'[c] = loc[c]
    <3>1. CASE Goto(c, "update") /\ UNCHANGED loc
      BY <1>0, <3>1, GotoEffect DEF Apart
    <3>2. CASE Return(c)
      BY <1>0, <3>2, ReturnEffect
    <3>3. QED
      BY <1>3, <3>1, <3>2 DEF UnpauseStatus
  <2>4. ~loc'[c].keep
    BY <1>0, <2>1, <2>3 DEF Control, NoLocal
  <2>5. \A a \in Actors : Wanders(a)
    BY <1>0, <2>1, <2>3, <2>4 DEF Wanders, Apart
  <2>6. \A t \in Torrents : Tinkered(t)
    BY <2>1, Unmoved
  <2>7. QED
    BY <1>0, <2>1, <2>2, <2>5, <2>6 DEF Tinkers
<1>4. CASE UnpauseUpdate(c)
  <2> DEFINE t == loc[c].t
             e == [sessions[t] EXCEPT !.resumed = TRUE]
  <2>0. t \in Torrents
    BY <1>0 DEF TypeOK
  <2>1. /\ UNCHANGED <<phase, alerts, pending, stored, client, requests>>
        /\ pc[c] = "update" /\ Return(c) /\ Note(c, t)
    BY <1>4 DEF UnpauseUpdate, resume, files, stored, bounds
  <2>2. phase # "down"
    BY <1>0, <2>1 DEF Control
  <2>3. Apart(c) /\ pc'[c] = "idle" /\ loc'[c] = NoLocal
    BY <1>0, <2>1, ReturnEffect
  <2>4. \A a \in Actors : Wanders(a)
    BY <1>0, <2>1, <2>3 DEF Wanders, Apart, NoLocal
  <2>5. \/ Known(t) /\ sessions' = [sessions EXCEPT ![t] = e] /\ dirty'
        \/ sessions' = sessions /\ dirty' = dirty
    BY <1>4 DEF UnpauseUpdate, entries
  <2>6. e.id = sessions[t].id /\ e.magnet = sessions[t].magnet /\ e.preparing = sessions[t].preparing
    BY <1>0, <2>0 DEF TypeOK, Entry
  <2> HIDE DEF e
  <2>7. (dirty => dirty') /\ \A u \in Torrents : Tinkered(u)
    BY <1>0, <2>0, <2>1, <2>5, <2>6 DEF Tinkered, TypeOK
  <2>8. QED
    BY <1>0, <2>1, <2>2, <2>4, <2>7, NoteEffect DEF Tinkers, Noted
<1>5. QED
  BY <1>1, <1>2, <1>3, <1>4

LEMMA ClientTinkers ==
    ASSUME Inv, Control, Shape,
           \E t \in Torrents : FinishPreparing(t) \/ Finished(t) \/ LimitReached(t)
    PROVE  Tinkers
<1>0. TypeOK /\ requests \in Nat
  BY StoreAssumption DEF Inv, TypeOK
<1>1. PICK t \in Torrents : FinishPreparing(t) \/ Finished(t) \/ LimitReached(t)
  OBVIOUS
<1>2. client[t].here
  BY <1>1 DEF FinishPreparing, Finished, LimitReached
<1>3. phase # "down"
  BY <1>2 DEF Control, NoHandle
<1>4. UNCHANGED <<phase, alerts, pending, stored, dirty, requests, pc, loc>>
  BY <1>1 DEF FinishPreparing, Finished, LimitReached, entries, resume, files, stored, bounds
<1>5. \A a \in Actors : Wanders(a)
  BY <1>4 DEF Wanders
<1>6. odd \subseteq odd' /\ (phase = "stopping" => "late" \in odd' \/ UNCHANGED <<sessions, client>>)
  BY <1>1 DEF FinishPreparing, Finished, LimitReached, Lately, entries
<1>7. \A u \in Torrents : Tinkered(u)
  <2>1. client[t] \in Handle /\ client[t].data \in Resume
    BY <1>0, RecordsType
  <2>2. CASE FinishPreparing(t)
    <3> DEFINE d == [client[t].data EXCEPT !.upload = FALSE]
               h == [client[t] EXCEPT !.data = d, !.unsaved = TRUE]
               e == [sessions[t] EXCEPT !.preparing = FALSE]
    <3>1. d \in Resume /\ d.id = client[t].data.id /\ ~d.upload
      BY <2>1 DEF Resume
    <3> HIDE DEF d
    <3>2. h.here /\ h.data = d
      BY <1>2, <2>1, <3>1 DEF Handle
    <3> USE DEF d
    <3>3. client' = [client EXCEPT ![t] = h] /\ sessions' = [sessions EXCEPT ![t] = e]
      BY <1>0, <2>2 DEF FinishPreparing, TypeOK
    <3> HIDE DEF d, h
    <3>4. e.id = sessions[t].id /\ e.magnet = sessions[t].magnet /\ Saved(e) = Saved(sessions[t])
      <4>1. sessions[t] \in Entry
        BY <1>0 DEF TypeOK
      <4> QED BY <4>1 DEF Entry, Saved
    <3>5. Known(t)
      <4>1. sessions[t] # NoEntry
        BY <2>2 DEF FinishPreparing, NoEntry
      <4>2. Blank(sessions[t])
        BY DEF Shape
      <4> QED BY <4>1, <4>2 DEF Blank, Known
    <3> HIDE DEF e
    <3>6. client' \in [Torrents -> Handle \cup {h}] /\ client'[t] = h /\ sessions'[t] = e
      BY <1>0, <3>3 DEF TypeOK
    <3>7. \A u \in Torrents \ {t} : client'[u] = client[u] /\ sessions'[u] = sessions[u]
      BY <1>0, <3>3 DEF TypeOK
    <3>8. Tinkered(t)
      BY <1>2, <3>1, <3>2, <3>4, <3>5, <3>6 DEF Tinkered
    <3>9. \A u \in Torrents \ {t} : Tinkered(u)
      BY <3>7 DEF Tinkered
    <3>10. QED
      BY <3>8, <3>9
  <2>3. CASE Finished(t)
    <3> DEFINE d == [client[t].data EXCEPT !.done = TRUE]
               h == [client[t] EXCEPT !.data = d, !.unsaved = TRUE]
    <3>1. d \in Resume /\ d.id = client[t].data.id /\ d.upload = client[t].data.upload
      BY <2>1 DEF Resume
    <3> HIDE DEF d
    <3>2. h \in Handle /\ h.here /\ h.data = d
      BY <1>2, <2>1, <3>1 DEF Handle
    <3> USE DEF d
    <3>3. client' = [client EXCEPT ![t] = h] /\ sessions' = sessions
      BY <1>0, <2>3 DEF Finished, TypeOK, entries
    <3> HIDE DEF d, h
    <3>4. QED
      BY <1>0, <1>2, <3>1, <3>2, <3>3, HandleChanged
  <2>4. CASE LimitReached(t)
    BY <2>4, Unmoved DEF LimitReached, entries
  <2>5. QED
    BY <1>1, <2>2, <2>3, <2>4
<1>8. QED
  BY <1>0, <1>3, <1>4, <1>5, <1>6, <1>7 DEF Tinkers

LEMMA LoopTinkers ==
    ASSUME Inv, Control,
           \/ Statuses \/ SeedingFinished \/ SeedingEnded \/ AllAskedFor \/ AwaitResume
           \/ \E t \in Torrents : EndSeeding(t) /\ pc' = pc
    PROVE  Tinkers
<1>0. TypeOK /\ requests \in Nat /\ Loop \in Actors
  BY StoreAssumption DEF Inv, TypeOK, Actors
<1>1. /\ UNCHANGED <<phase, alerts, pending, stored, sessions, dirty, requests>>
      /\ odd \subseteq odd'
  <2>1. CASE Statuses
    BY <2>1 DEF Statuses, entries, resume, files, stored, bounds
  <2>2. CASE SeedingFinished
    BY <2>2 DEF SeedingFinished, entries, resume, files, stored, bounds
  <2>3. CASE SeedingEnded
    BY <2>3 DEF SeedingEnded, entries, resume, files, stored, bounds
  <2>4. CASE AllAskedFor
    BY <2>4 DEF AllAskedFor, entries, resume, files, stored, bounds
  <2>5. CASE AwaitResume
    BY <2>5 DEF AwaitResume, entries, resume, files, stored, bounds
  <2>6. ASSUME NEW t \in Torrents, EndSeeding(t) /\ pc' = pc
        PROVE  /\ UNCHANGED <<phase, alerts, pending, stored, sessions, dirty, requests>>
               /\ odd \subseteq odd'
    BY <2>6, NoteEffect DEF EndSeeding, entries, resume, files, stored, bounds, Remove, Noted
  <2>7. QED
    BY <2>1, <2>2, <2>3, <2>4, <2>5, <2>6
<1>2. CASE Statuses
  <2> DEFINE l == [NoLocal EXCEPT !.todo = {t \in Torrents :
                     client[t].here /\ client[t].data.done /\ client[t].data.paused = "no"}]
  <2>1. ~l.keep /\ l.list = NoEntries
    BY DEF NoLocal
  <2>2. Set(Loop, l) /\ Goto(Loop, "limits") /\ pc[Loop] = "idle" /\ phase = "up"
    BY <1>2 DEF Statuses
  <2> HIDE DEF l
  <2>3. Apart(Loop) /\ loc'[Loop] = l /\ pc'[Loop] = "limits"
    BY <1>0, <2>2, GotoEffect, SetEffect DEF Apart
  <2>4. \A a \in Actors : Wanders(a)
    BY <2>1, <2>2, <2>3 DEF Wanders, Apart, LoopMoves
  <2>5. client' = client
    BY <1>2 DEF Statuses
  <2>6. QED
    BY <1>0, <1>1, <2>2, <2>4, <2>5, Unmoved DEF Tinkers
<1>3. CASE SeedingFinished
  <2> DEFINE l == [loc[Loop] EXCEPT !.todo = {t \in @ : Known(t) /\ over[t]}]
  <2>1. l.keep = loc[Loop].keep /\ l.list = loc[Loop].list
    BY <1>0 DEF TypeOK
  <2>2. Set(Loop, l) /\ Goto(Loop, "seed") /\ pc[Loop] = "limits"
    BY <1>3 DEF SeedingFinished
  <2> HIDE DEF l
  <2>3. Apart(Loop) /\ loc'[Loop] = l /\ pc'[Loop] = "seed"
    BY <1>0, <2>2, GotoEffect, SetEffect DEF Apart
  <2>4. \A a \in Actors : Wanders(a)
    BY <2>1, <2>2, <2>3 DEF Wanders, Apart, LoopMoves
  <2>5. client' = client /\ phase # "down"
    BY <1>0, <1>3, <2>2 DEF SeedingFinished, Control
  <2>6. QED
    BY <1>0, <1>1, <2>4, <2>5, Unmoved DEF Tinkers
<1>4. CASE SeedingEnded
  <2>1. PICK l \in Local, label \in {"flush", "save"} :
             ~l.keep /\ l.list = NoEntries /\ Set(Loop, l) /\ Goto(Loop, label)
    <3> DEFINE l == [NoLocal EXCEPT !.todo = {t \in Torrents : client[t].here /\ client[t].unsaved}]
    <3>1. l \in Local /\ ~l.keep /\ l.list = NoEntries
      BY Values DEF Local, NoLocal
    <3>2. ~NoLocal.keep /\ NoLocal.list = NoEntries
      BY DEF NoLocal
    <3>3. QED
      BY <1>4, <3>1, <3>2, Values DEF SeedingEnded
  <2>2. pc[Loop] = "seed" /\ client' = client
    BY <1>4 DEF SeedingEnded
  <2>3. Apart(Loop) /\ loc'[Loop] = l /\ pc'[Loop] = label
    BY <1>0, <2>1, GotoEffect, SetEffect DEF Apart
  <2>4. \A a \in Actors : Wanders(a)
    BY <2>1, <2>2, <2>3 DEF Wanders, Apart, LoopMoves
  <2>5. phase # "down"
    BY <1>0, <2>2 DEF Control
  <2>6. QED
    BY <1>0, <1>1, <2>2, <2>4, <2>5, Unmoved DEF Tinkers
<1>5. CASE AllAskedFor \/ AwaitResume
  <2>1. PICK label \in {"await", "flush"} : Goto(Loop, label) /\ <<pc[Loop], label>> \in LoopMoves
    BY <1>5 DEF AllAskedFor, AwaitResume, LoopMoves
  <2>2. loc' = loc /\ client' = client /\ pc[Loop] # "idle"
    BY <1>5 DEF AllAskedFor, AwaitResume
  <2>3. Apart(Loop) /\ pc'[Loop] = label
    BY <1>0, <2>1, <2>2, GotoEffect DEF Apart
  <2>4. \A a \in Actors : Wanders(a)
    BY <2>1, <2>2, <2>3 DEF Wanders, Apart
  <2>5. phase # "down"
    BY <1>0, <2>2 DEF Control
  <2>6. QED
    BY <1>0, <1>1, <2>2, <2>4, <2>5, Unmoved DEF Tinkers
<1>6. ASSUME NEW t \in Torrents, EndSeeding(t) /\ pc' = pc
      PROVE  Tinkers
  <2> DEFINE l == [loc[Loop] EXCEPT !.todo = @ \ {t}, !.t = t]
  <2>1. l.keep = loc[Loop].keep /\ l.list = loc[Loop].list
    BY <1>0 DEF TypeOK
  <2>2. Set(Loop, l) /\ pc[Loop] = "seed"
    BY <1>6 DEF EndSeeding
  <2> HIDE DEF l
  <2>3. Apart(Loop) /\ loc'[Loop] = l
    BY <1>0, <1>6, <2>2, SetEffect DEF Apart
  <2>4. \A a \in Actors : Wanders(a)
    BY <1>6, <2>1, <2>2, <2>3 DEF Wanders, Apart, LoopMoves
  <2>5. \/ client' = client
        \/ client[t].here /\ SetPausedIn(t, "limit") /\ Note(Loop, t)
    <3>1. ~Remove(Loop, t)
      BY <1>0, <1>6, <2>2 DEF Remove, Goto, TypeOK
    <3>2. QED
      BY <1>6, <3>1 DEF EndSeeding
  <2>6. \A u \in Torrents : Tinkered(u)
    <3>1. CASE client' = client
      BY <1>1, <3>1, Unmoved
    <3>2. CASE client[t].here /\ SetPausedIn(t, "limit")
      BY <1>0, <1>1, <3>2, SetPausedEffect DEF Pauses
    <3>3. QED
      BY <2>5, <3>1, <3>2
  <2>7. phase # "down" /\ (phase = "stopping" => client' = client \/ "late" \in odd')
    BY <1>0, <2>2, <2>5, NoteEffect, OddNoted DEF Control
  <2>8. QED
    BY <1>0, <1>1, <2>4, <2>6, <2>7 DEF Tinkers
<1>7. QED
  BY <1>2, <1>3, <1>4, <1>5, <1>6

\* Which steps these are.
LEMMA AllTinkers ==
    ASSUME Inv, Control, Shape,
           \/ \E c \in Callers : \/ \E t \in Torrents : Pause(c, t) \/ Unpause(c, t)
                                 \/ UnpauseStatus(c) \/ UnpauseUpdate(c)
           \/ \E t \in Torrents : FinishPreparing(t) \/ Finished(t) \/ LimitReached(t)
           \/ Statuses \/ SeedingFinished \/ SeedingEnded \/ AllAskedFor \/ AwaitResume
           \/ \E t \in Torrents : EndSeeding(t) /\ pc' = pc
    PROVE  Tinkers
BY RequestTinkers, ClientTinkers, LoopTinkers

-----------------------------------------------------------------------------
(* Alerts and the session file. *)

\* Resume data is asked for.
LEMMA SaveResumeEffect ==
    ASSUME Inv, NEW t \in Torrents, SaveResume(t)
    PROVE  /\ pc[Loop] = "save" /\ t \in loc[Loop].todo
           /\ UNCHANGED <<phase, sessions, dirty, stored, requests>>
           /\ odd \subseteq odd' /\ Apart(Loop)
           /\ \A u \in Torrents : /\ client'[u].here = client[u].here
                                  /\ client'[u].data = client[u].data
                                  /\ client'[u] = client[u] \/ client[u].here
           /\ (loc'[Loop].keep => loc[Loop].keep) /\ loc'[Loop].list \in {loc[Loop].list, NoEntries}
           /\ \/ /\ client[t].here /\ alerts' = Append(alerts, [t |-> t, data |-> client[t].data])
                 /\ pc'[Loop] = "save" /\ loc'[Loop].todo = loc[Loop].todo \ {t}
              \/ /\ ~client[t].here /\ alerts' = alerts
                 /\ \/ pc'[Loop] = "save" /\ loc'[Loop].todo = loc[Loop].todo \ {t}
                    \/ pc'[Loop] = "flush" /\ "leaked" \in odd'
<1> DEFINE l == [loc[Loop] EXCEPT !.todo = @ \ {t}]
<1>0. TypeOK /\ Loop \in Actors /\ client[t] \in Handle
  BY RecordsType DEF Inv, Actors
<1>1. /\ pc[Loop] = "save" /\ t \in loc[Loop].todo
      /\ UNCHANGED <<phase, sessions, dirty, stored, requests>>
  BY DEF SaveResume, entries, files, stored, bounds
<1>2. l.keep = loc[Loop].keep /\ l.list = loc[Loop].list /\ l.todo = loc[Loop].todo \ {t}
  BY <1>0 DEF TypeOK
<1>3. ~NoLocal.keep /\ NoLocal.list = NoEntries
  BY DEF NoLocal
<1>4. CASE client[t].here
  <2> DEFINE h == [client[t] EXCEPT !.unsaved = FALSE]
  <2>1. h.here = client[t].here /\ h.data = client[t].data
    BY <1>0 DEF Handle
  <2>2. client' = [client EXCEPT ![t] = h]
    BY <1>0, <1>4 DEF SaveResume, TypeOK
  <2> HIDE DEF h
  <2>3. \A u \in Torrents : /\ client'[u].here = client[u].here
                            /\ client'[u].data = client[u].data
                            /\ client'[u] = client[u] \/ client[u].here
    BY <1>0, <1>4, <2>1, <2>2 DEF TypeOK
  <2>4. /\ alerts' = Append(alerts, [t |-> t, data |-> client[t].data])
        /\ Set(Loop, l) /\ pc' = pc /\ odd' = odd
    BY <1>4 DEF SaveResume
  <2> HIDE DEF l
  <2>5. Apart(Loop) /\ loc'[Loop] = l
    BY <1>0, <2>4, SetEffect DEF Apart
  <2>6. QED
    BY <1>1, <1>2, <1>4, <2>3, <2>4, <2>5
<1>5. CASE ~client[t].here
  <2>1. alerts' = alerts /\ client' = client
    BY <1>5 DEF SaveResume
  <2>2. \/ Set(Loop, l) /\ pc' = pc /\ odd' = odd
        \/ Set(Loop, NoLocal) /\ Goto(Loop, "flush") /\ odd' = odd \cup {"leaked"}
    BY <1>5 DEF SaveResume
  <2> HIDE DEF l
  <2>3. CASE Set(Loop, l) /\ pc' = pc /\ odd' = odd
    <3>1. Apart(Loop) /\ loc'[Loop] = l
      BY <1>0, <2>3, SetEffect DEF Apart
    <3>2. QED
      BY <1>1, <1>2, <1>5, <2>1, <2>3, <3>1
  <2>4. CASE Set(Loop, NoLocal) /\ Goto(Loop, "flush") /\ odd' = odd \cup {"leaked"}
    <3>1. Apart(Loop) /\ loc'[Loop] = NoLocal /\ pc'[Loop] = "flush"
      BY <1>0, <2>4, GotoEffect, SetEffect DEF Apart
    <3>2. QED
      BY <1>1, <1>3, <1>5, <2>1, <2>4, <3>1
  <2>5. QED
    BY <2>2, <2>3, <2>4
<1>6. QED
  BY <1>4, <1>5

LEMMA SaveAlertEffect ==
    ASSUME Inv, SaveAlert
    PROVE  LET a == Head(alerts) IN
           /\ alerts # <<>> /\ a \in Alert /\ a = alerts[1] /\ alerts' = Tail(alerts)
           /\ UNCHANGED <<phase, sessions, dirty, client, sessionFile, torrentFile, pc, loc, requests>>
           /\ odd \subseteq odd'
           /\ \/ /\ resumeFile' = [resumeFile EXCEPT ![a.t] = a.data]
                 /\ \/ client[a.t].data.id = a.data.id
                    \/ \E b \in Actors : At(b, a.t, {"drop", "unresume"})
                    \/ "stale" \in odd'
              \/ resumeFile' = resumeFile /\ client[a.t].data.id # a.data.id
<1>1. alerts # <<>> /\ alerts \in Seq(Alert) /\ alerts' = Tail(alerts)
  BY DEF SaveAlert, Inv, TypeOK, Alert
<1>2. Head(alerts) \in Alert /\ Head(alerts) = alerts[1]
  BY <1>1
<1>3. QED
  BY <1>1, <1>2 DEF SaveAlert, entries, bounds, At

\* The session file is written in three steps.
LEMMA FlushEffect ==
    ASSUME Inv, FlushSession
    PROVE  /\ pc[Loop] = "flush" /\ Apart(Loop) /\ ~loc'[Loop].keep
           /\ UNCHANGED <<phase, sessions, client, alerts, stored, requests, odd>>
           /\ \/ /\ dirty /\ ~dirty' /\ pc'[Loop] = "truncate"
                 /\ loc'[Loop].list = [t \in Torrents |-> Saved(sessions[t])]
              \/ ~dirty /\ ~dirty' /\ pc'[Loop] = Flushed /\ loc'[Loop].list = NoEntries
<1> DEFINE l == [NoLocal EXCEPT !.list = [t \in Torrents |-> Saved(sessions[t])]]
<1>1. ~l.keep /\ l.list = [t \in Torrents |-> Saved(sessions[t])]
  BY DEF NoLocal
<1>2. ~NoLocal.keep /\ NoLocal.list = NoEntries
  BY DEF NoLocal
<1>3. TypeOK /\ Loop \in Actors
  BY DEF Inv, Actors
<1>4. pc[Loop] = "flush" /\ UNCHANGED <<phase, sessions, client, alerts, stored, requests, odd>>
  BY DEF FlushSession, resume, files, stored, bounds
<1>5. CASE dirty
  <2>1. dirty' = FALSE /\ Set(Loop, l) /\ Goto(Loop, "truncate")
    BY <1>5 DEF FlushSession
  <2> HIDE DEF l
  <2>2. Apart(Loop) /\ loc'[Loop] = l /\ pc'[Loop] = "truncate"
    BY <1>3, <2>1, GotoEffect, SetEffect DEF Apart
  <2>3. QED
    BY <1>1, <1>4, <1>5, <2>1, <2>2
<1>6. CASE ~dirty
  <2>1. dirty' = dirty /\ Set(Loop, NoLocal) /\ Goto(Loop, Flushed)
    BY <1>6 DEF FlushSession
  <2>2. Apart(Loop) /\ loc'[Loop] = NoLocal /\ pc'[Loop] = Flushed
    BY <1>3, <2>1, GotoEffect, SetEffect DEF Apart
  <2>3. QED
    BY <1>2, <1>4, <1>6, <2>1, <2>2
<1>7. QED
  BY <1>5, <1>6

LEMMA WriteEffect ==
    ASSUME Inv, TruncateSession \/ WriteSession \/ WriteFails
    PROVE  /\ pc[Loop] \in Writing /\ Apart(Loop)
           /\ UNCHANGED <<phase, sessions, dirty, client, alerts, resumeFile, torrentFile, requests>>
           /\ odd \subseteq odd'
           /\ \/ /\ pc[Loop] = "truncate" /\ pc'[Loop] = "write" /\ loc'[Loop] = loc[Loop]
                 /\ sessionFile'.torn /\ sessionFile'.list = NoEntries
              \/ /\ pc[Loop] = "write" /\ pc'[Loop] = Flushed /\ loc'[Loop] = NoLocal
                 /\ ~sessionFile'.torn /\ sessionFile'.list = loc[Loop].list
              \/ /\ pc'[Loop] = Flushed /\ loc'[Loop] = NoLocal
                 /\ sessionFile' = sessionFile /\ "failed" \in odd'
<1>0. TypeOK /\ Loop \in Actors
  BY DEF Inv, Actors
<1>1. CASE TruncateSession
  <2>1. Goto(Loop, "write") /\ loc' = loc
    BY <1>1 DEF TruncateSession
  <2>2. Apart(Loop) /\ pc'[Loop] = "write"
    BY <1>0, <2>1, GotoEffect DEF Apart
  <2>3. QED
    BY <1>1, <2>1, <2>2 DEF TruncateSession, Writing, entries, resume, bounds
<1>2. CASE WriteSession
  <2>1. Goto(Loop, Flushed) /\ Set(Loop, NoLocal)
    BY <1>2 DEF WriteSession
  <2>2. Apart(Loop) /\ pc'[Loop] = Flushed /\ loc'[Loop] = NoLocal
    BY <1>0, <2>1, GotoEffect, SetEffect DEF Apart
  <2>3. QED
    BY <1>2, <2>2 DEF WriteSession, Writing, entries, resume, bounds
<1>3. CASE WriteFails
  <2>1. Goto(Loop, Flushed) /\ Set(Loop, NoLocal)
    BY <1>3 DEF WriteFails
  <2>2. Apart(Loop) /\ pc'[Loop] = Flushed /\ loc'[Loop] = NoLocal
    BY <1>0, <2>1, GotoEffect, SetEffect DEF Apart
  <2>3. QED
    BY <1>3, <2>2 DEF WriteFails, Writing, entries, resume, files
<1>4. QED
  BY <1>1, <1>2, <1>3
-----------------------------------------------------------------------------
(* Control and Shape *)

\* The removal of a torrent, by a request or at the end of its seeding.
Removal(a, t) ==
    \/ a \in Callers /\ RemoveRequest(a, t)
    \/ a = Loop /\ EndSeeding(t) /\ pc' # pc

Tinkering ==
    \/ \E c \in Callers : \/ \E t \in Torrents : Pause(c, t) \/ Unpause(c, t)
                          \/ UnpauseStatus(c) \/ UnpauseUpdate(c)
    \/ \E t \in Torrents : FinishPreparing(t) \/ Finished(t) \/ LimitReached(t)
    \/ Statuses \/ SeedingFinished \/ SeedingEnded \/ AllAskedFor \/ AwaitResume
    \/ \E t \in Torrents : EndSeeding(t) /\ pc' = pc

\* The steps, as the lemmas about them are cut.
LEMMA Steps ==
    ASSUME Next
    PROVE  \/ Start \/ StartDone \/ Stop \/ Close \/ Kill
           \/ \E t \in Torrents : StartAdd(t) \/ SaveResume(t)
           \/ \E c \in Callers, t \in Torrents, magnet \in BOOLEAN, paused \in BOOLEAN :
                 Add(c, t, magnet, paused)
           \/ \E a \in Actors : AddInsert(a) \/ Removes(a)
           \/ \E a \in Actors, t \in Torrents : Removal(a, t)
           \/ \E c \in Callers : KeepTorrentFile(c)
           \/ Tinkering \/ SaveAlert
           \/ FlushSession \/ TruncateSession \/ WriteSession \/ WriteFails
<1>1. CASE \E c \in Callers : Requests(c)
  BY <1>1 DEF Requests, Removal, Tinkering, Actors
<1>2. CASE Tick
  BY <1>2 DEF Tick, Removal, Tinkering, Actors
<1>3. CASE Client
  BY <1>3 DEF Client, Tinkering
<1>4. CASE Program
  BY <1>4 DEF Program
<1>5. QED
  BY <1>1, <1>2, <1>3, <1>4 DEF Next

LEMMA ControlInit == Init => Control
<1> SUFFICES ASSUME Init PROVE Control
  OBVIOUS
<1>1. Loop \in Actors /\ Callers \subseteq Actors
  BY DEF Actors
<1>2. ~loc[Loop].keep
  BY <1>1 DEF Init, NoLocal
<1>3. QED
  BY <1>1, <1>2 DEF Init, Control, CallerLabels, LoopLabels

LEMMA ActorSets ==
    /\ Loop \in Actors /\ Loop \notin Callers /\ Actors = Callers \cup {Loop}
    /\ \A c \in Callers : c # Loop /\ c \in Actors
BY StoreAssumption DEF Actors

LEMMA LoopPhase ==
    ASSUME Inv, Control
    PROVE  /\ pc[Loop] \in {"start", "insert"} => phase = "starting"
           /\ pc[Loop] \in {"limits", "seed", "drop", "unresume", "untorrent"} => phase = "up"
           /\ pc[Loop] \in {"save", "await", "flush"} \cup Writing => phase \in {"up", "stopping"}
           /\ pc[Loop] = "close" => phase = "stopping"
           /\ pc[Loop] # "keep"
           /\ phase = "starting" => pc[Loop] \in {"start", "insert"}
<1>1. phase \in Phases
  BY DEF Inv, TypeOK
<1>2. pc[Loop] \in LoopLabels[phase]
  BY DEF Control
<1>3. QED
  BY <1>1, <1>2 DEF LoopLabels, Phases, Writing

\* A step of a caller leaves what the loop does as it is.
LEMMA ControlCaller ==
    ASSUME Control, NEW c \in Callers, Apart(c), phase # "down",
           UNCHANGED <<phase, alerts, sessionFile>>,
           pc'[c] \in CallerLabels, pc'[c] \in {"status", "update"} => ~loc'[c].keep,
           dirty' \/ (sessions' = sessions /\ dirty' = dirty)
    PROVE  Control'
<1>1. pc'[Loop] = pc[Loop] /\ loc'[Loop] = loc[Loop]
  BY ActorSets DEF Apart
<1>2. /\ \A b \in Callers : pc'[b] \in CallerLabels
      /\ \A b \in Callers : pc'[b] \in {"status", "update"} => ~loc'[b].keep
  BY ActorSets DEF Apart, Control
<1>3. \A t \in Torrents : ToStart(t)' => Listed(t)'
  BY <1>1 DEF Control, ToStart, Listed
<1>4. QED
  BY <1>1, <1>2, <1>3 DEF Control

\* A step of the loop itself.
LEMMA ControlLoop ==
    ASSUME Control, Apart(Loop), ~loc'[Loop].keep, pc'[Loop] \in LoopLabels[phase'],
           phase' \in {"up", "stopping"}
    PROVE  Control'
<1>1. /\ \A b \in Callers : pc'[b] \in CallerLabels
      /\ \A b \in Callers : pc'[b] \in {"status", "update"} => ~loc'[b].keep
  BY ActorSets DEF Apart, Control
<1>2. QED
  BY <1>1 DEF Control

LEMMA ControlRequest ==
    ASSUME Inv, Control, NEW a \in Actors,
           \/ AddInsert(a) \/ Removes(a)
           \/ \E t \in Torrents : Removal(a, t)
           \/ a \in Callers /\ \E t \in Torrents, magnet \in BOOLEAN, paused \in BOOLEAN :
                 Add(a, t, magnet, paused)
           \/ a \in Callers /\ KeepTorrentFile(a)
    PROVE  Control'
<1>1. CASE a = Loop
  <2>1. CASE AddInsert(Loop)
    <3>1. pc[Loop] = "insert" /\ phase = "starting" /\ ~loc[Loop].keep
      BY <1>1, <2>1, InsertEffect, LoopPhase DEF Control
    <3>2. /\ Apart(Loop) /\ pc'[Loop] = "start" /\ loc'[Loop] = loc[Loop]
          /\ UNCHANGED <<phase, alerts, sessionFile>>
          /\ dirty' \/ (sessions' = sessions /\ dirty' = dirty)
      BY <1>1, <2>1, <3>1, InsertEffect DEF stored
    <3>3. \A t \in Torrents : ToStart(t)' => Listed(t)'
      BY <3>1, <3>2 DEF Control, ToStart, Listed
    <3>4. /\ \A b \in Callers : pc'[b] \in CallerLabels
          /\ \A b \in Callers : pc'[b] \in {"status", "update"} => ~loc'[b].keep
      BY <3>2, ActorSets DEF Apart, Control
    <3>5. QED
      BY <3>1, <3>2, <3>3, <3>4 DEF Control, LoopLabels
  <2>2. CASE Removes(Loop)
    <3>1. pc[Loop] \in {"drop", "unresume", "untorrent"} /\ Loop \in Actors
      BY <1>1, <2>2, RemovesEffect, ActorSets
    <3>2. phase = "up"
      BY <3>1, LoopPhase
    <3>3. /\ Apart(Loop) /\ loc'[Loop] = loc[Loop] /\ phase' = phase
          /\ pc'[Loop] \in {"unresume", "untorrent", "seed"}
      BY <3>1, <3>2, <2>2, RemovesEffect
    <3>4. QED
      BY <3>2, <3>3, ControlLoop DEF LoopLabels, Control
  <2>3. ASSUME NEW t \in Torrents, Removal(Loop, t)
        PROVE  Control'
    <3>1. pc[Loop] = "seed" /\ phase' = phase /\ Apart(Loop) /\ pc'[Loop] = "drop"
          /\ loc'[Loop].keep = loc[Loop].keep
      BY <2>3, RemoveEffect, ActorSets DEF Removal
    <3>2. phase = "up"
      BY <3>1, LoopPhase
    <3>3. QED
      BY <3>1, <3>2, ControlLoop DEF LoopLabels, Control
  <2>4. QED
    BY <1>1, <2>1, <2>2, <2>3, ActorSets
<1>2. CASE a \in Callers
  <2>0. a # Loop
    BY <1>2, ActorSets
  <2>1. CASE AddInsert(a)
    <3>1. /\ pc[a] = "insert" /\ Apart(a) /\ UNCHANGED <<phase, alerts, sessionFile>>
          /\ dirty' \/ (sessions' = sessions /\ dirty' = dirty)
          /\ pc'[a] \in {"keep", "idle"}
      BY <2>0, <2>1, InsertEffect DEF stored
    <3>2. phase # "down"
      BY <3>1 DEF Control
    <3>3. QED
      BY <1>2, <3>1, <3>2, ControlCaller DEF CallerLabels, Busy
  <2>2. CASE Removes(a)
    <3>1. /\ pc[a] \in {"drop", "unresume", "untorrent"}
          /\ Apart(a) /\ UNCHANGED <<phase, alerts, sessionFile>>
          /\ dirty' \/ (sessions' = sessions /\ dirty' = dirty)
          /\ pc'[a] \in {"unresume", "untorrent", "idle"}
      BY <2>0, <2>2, RemovesEffect
    <3>2. phase # "down"
      BY <3>1 DEF Control
    <3>3. QED
      BY <1>2, <3>1, <3>2, ControlCaller DEF CallerLabels, Busy
  <2>3. ASSUME NEW t \in Torrents, Removal(a, t)
        PROVE  Control'
    <3>1. /\ client[t].here /\ Apart(a) /\ UNCHANGED <<phase, alerts, sessionFile, sessions, dirty>>
          /\ pc'[a] = "drop"
      BY <2>0, <2>3, RemoveEffect DEF Removal, stored
    <3>2. phase # "down"
      BY <3>1 DEF Control, NoHandle
    <3>3. QED
      BY <1>2, <3>1, <3>2, ControlCaller DEF CallerLabels, Busy
  <2>4. ASSUME NEW t \in Torrents, NEW magnet \in BOOLEAN, NEW paused \in BOOLEAN,
               Add(a, t, magnet, paused)
        PROVE  Control'
    <3>1. /\ phase # "down" /\ Apart(a) /\ UNCHANGED <<phase, alerts, sessionFile, sessions, dirty>>
          /\ pc'[a] = "insert"
      BY <1>2, <2>4, AddEffect DEF stored
    <3>2. QED
      BY <1>2, <3>1, ControlCaller DEF CallerLabels, Busy
  <2>5. CASE KeepTorrentFile(a)
    <3>1. /\ pc[a] = "keep" /\ Apart(a) /\ UNCHANGED <<phase, alerts, sessionFile, sessions, dirty>>
          /\ pc'[a] = "idle"
      BY <1>2, <2>5, KeepEffect
    <3>2. phase # "down"
      BY <1>2, <3>1, ActorSets DEF Control
    <3>3. QED
      BY <1>2, <3>1, <3>2, ControlCaller DEF CallerLabels, Busy
  <2>6. QED
    BY <1>2, <2>1, <2>2, <2>3, <2>4, <2>5
<1>3. QED
  BY <1>1, <1>2, ActorSets

LEMMA ControlStart ==
    ASSUME Inv, Control,
           \/ Start \/ StartDone \/ Stop \/ Close \/ Kill \/ \E t \in Torrents : StartAdd(t)
    PROVE  Control'
<1>0. Inv => TypeOK
  BY DEF Inv
<1>1. CASE Start
  <2>1. /\ phase' = "starting" /\ Apart(Loop) /\ pc'[Loop] = "start" /\ ~loc'[Loop].keep
        /\ loc'[Loop].list = sessionFile.list /\ loc'[Loop].todo = {t \in Torrents : Listed(t)}
        /\ UNCHANGED <<sessions, dirty, alerts, sessionFile>> /\ phase = "down"
    BY <1>1, StartEffect DEF stored
  <2>2. \A t \in Torrents : ToStart(t)' => Listed(t)'
    BY <2>1 DEF ToStart, Listed
  <2>3. /\ \A b \in Callers : pc'[b] \in CallerLabels
        /\ \A b \in Callers : pc'[b] \in {"status", "update"} => ~loc'[b].keep
    BY <2>1, ActorSets DEF Apart, Control
  <2>4. QED
    BY <2>1, <2>2, <2>3 DEF Control, LoopLabels
<1>2. CASE StartDone
  <2>1. ~NoLocal.keep
    BY DEF NoLocal
  <2>2. QED
    BY <1>2, <2>1, StartDoneEffect, ControlLoop DEF LoopLabels
<1>3. CASE Stop
  BY <1>3, StopEffect, ControlLoop DEF LoopLabels
<1>4. CASE Close \/ Kill
  <2>1. Down
    BY <1>4, EndEffect
  <2>2. ~NoLocal.keep
    BY DEF NoLocal
  <2>3. QED
    BY <2>1, <2>2, ActorSets DEF Down, Control, LoopLabels, CallerLabels
<1>5. ASSUME NEW t \in Torrents, StartAdd(t)
      PROVE  Control'
  <2>1. /\ UNCHANGED <<phase, sessions, dirty, alerts, sessionFile>>
        /\ Apart(Loop) /\ pc[Loop] = "start" /\ t \in loc[Loop].todo
        /\ loc'[Loop].todo = loc[Loop].todo \ {t} /\ loc'[Loop].t = t
        /\ loc'[Loop].list = loc[Loop].list /\ loc'[Loop].keep = loc[Loop].keep
        /\ \/ /\ pc'[Loop] = "insert"
              /\ loc'[Loop].entry.magnet = loc[Loop].list[t].magnet
           \/ pc'[Loop] = "start"
    BY <1>5, StartAddEffect DEF stored
  <2>2. phase = "starting"
    BY <2>1, LoopPhase
  <2>3. \A u \in Torrents : ToStart(u)' => Listed(u)'
    BY <2>1, <2>2 DEF ToStart, Listed, Control
  <2>4. /\ \A b \in Callers : pc'[b] \in CallerLabels
        /\ \A b \in Callers : pc'[b] \in {"status", "update"} => ~loc'[b].keep
    BY <2>1, ActorSets DEF Apart, Control
  <2>5. QED
    BY <2>1, <2>2, <2>3, <2>4 DEF Control, LoopLabels
<1>6. QED
  BY <1>1, <1>2, <1>3, <1>4, <1>5

LEMMA ControlRest ==
    ASSUME Inv, Inv', Control, Shape,
           \/ Tinkering \/ SaveAlert \/ \E t \in Torrents : SaveResume(t)
           \/ FlushSession \/ TruncateSession \/ WriteSession \/ WriteFails
    PROVE  Control'
<1>0. phase \in Phases
  BY DEF Inv, TypeOK
<1>1. CASE Tinkering
  <2>1. Tinkers
    BY <1>1, AllTinkers DEF Tinkering
  <2>2. /\ phase' = phase /\ phase # "down" /\ alerts' = alerts /\ sessionFile' = sessionFile
        /\ \A a \in Actors : Wanders(a)
    BY <2>1 DEF Tinkers, stored
  <2>3. /\ \A b \in Callers : pc'[b] \in CallerLabels
        /\ \A b \in Callers : pc'[b] \in {"status", "update"} => ~loc'[b].keep
    BY <2>2, ActorSets DEF Wanders, Control, CallerLabels
  <2>4. ~loc'[Loop].keep
    BY <2>2, ActorSets DEF Wanders, Control
  <2>5. phase = "starting" => pc'[Loop] = pc[Loop] /\ loc'[Loop] = loc[Loop]
    BY <2>2, ActorSets DEF Wanders, Control, LoopLabels, LoopMoves
  <2>6. pc'[Loop] \in LoopLabels[phase]
    BY <1>0, <2>2, ActorSets DEF Wanders, Control, LoopLabels, LoopMoves, Writing, Phases
  <2>7. phase = "starting" /\ ~dirty' => sessions' = NoEntries
    <3>1. SUFFICES ASSUME phase = "starting", ~dirty' PROVE sessions' = NoEntries
      OBVIOUS
    <3>2. sessions = NoEntries
      BY <2>1, <3>1 DEF Tinkers, Control
    <3>3. \A t \in Torrents : sessions'[t] = sessions[t]
      BY <2>1, <3>2 DEF Tinkers, Tinkered, Known, NoEntries, NoEntry
    <3>4. sessions \in [Torrents -> Entry] /\ sessions' \in [Torrents -> Entry]
      BY DEF Inv, TypeOK
    <3>5. QED
      BY <3>2, <3>3, <3>4
  <2>8. \A t \in Torrents : phase = "starting" /\ ToStart(t)' => Listed(t)'
    BY <2>2, <2>5 DEF ToStart, Listed, Control
  <2>9. QED
    BY <2>2, <2>3, <2>4, <2>5, <2>6, <2>7, <2>8 DEF Control, ToStart
<1>2. CASE SaveAlert
  <2>1. /\ UNCHANGED <<phase, sessions, dirty, client, sessionFile, pc, loc>>
        /\ alerts # <<>>
    BY <1>2, SaveAlertEffect
  <2>2. QED
    BY <2>1 DEF Control, ToStart, Listed
<1>3. ASSUME NEW t \in Torrents, SaveResume(t)
      PROVE  Control'
  <2>1. /\ pc[Loop] = "save" /\ phase' = phase /\ Apart(Loop) /\ pc'[Loop] \in {"save", "flush"}
        /\ ~loc'[Loop].keep
    BY <1>3, SaveResumeEffect DEF Control
  <2>2. phase \in {"up", "stopping"}
    BY <2>1, LoopPhase
  <2>3. QED
    BY <2>1, <2>2, ControlLoop DEF LoopLabels
<1>4. CASE FlushSession
  <2>1. /\ pc[Loop] = "flush" /\ phase' = phase /\ Apart(Loop)
        /\ pc'[Loop] \in {"truncate", Flushed} /\ ~loc'[Loop].keep
    BY <1>4, FlushEffect
  <2>2. phase \in {"up", "stopping"}
    BY <2>1, LoopPhase
  <2>3. QED
    BY <2>1, <2>2, ControlLoop DEF LoopLabels, Flushed, Writing
<1>5. CASE TruncateSession \/ WriteSession \/ WriteFails
  <2>1. /\ pc[Loop] \in Writing /\ phase' = phase /\ Apart(Loop)
        /\ pc'[Loop] \in {"write", Flushed} /\ loc'[Loop] \in {loc[Loop], NoLocal}
    BY <1>5, WriteEffect
  <2>2. ~loc'[Loop].keep
    BY <2>1 DEF NoLocal, Control
  <2>3. phase \in {"up", "stopping"}
    BY <2>1, LoopPhase
  <2>4. QED
    BY <2>1, <2>2, <2>3, ControlLoop DEF LoopLabels, Flushed, Writing
<1>6. QED
  BY <1>1, <1>2, <1>3, <1>4, <1>5

LEMMA SavedEntry ==
    ASSUME NEW e \in Entry
    PROVE  /\ Saved(e).id = e.id /\ Saved(e).magnet = e.magnet
           /\ e = NoEntry => Saved(e) = NoEntry
<1>1. Saved(e).id = e.id /\ Saved(e).magnet = e.magnet
  BY DEF Entry, Saved
<1>2. Saved(NoEntry) = NoEntry
  <2>1. NoEntry.preparing = FALSE /\ NoEntry \in Entry
    BY Values DEF NoEntry
  <2>2. \A d \in Entry : d.preparing = FALSE => Saved(d) = d
    BY DEF Saved, Entry
  <2>3. QED
    BY <2>1, <2>2
<1>3. QED
  BY <1>1, <1>2

LEMMA ShapeInit == Init => Shape
<1> SUFFICES ASSUME Init PROVE Shape
  OBVIOUS
<1>1. NoHandle.here = FALSE /\ NoHandle.data.id = 0 /\ NoLocal.list = NoEntries
  BY DEF NoHandle, NoResume, NoLocal
<1>2. \A t \in Torrents : client[t] = NoHandle /\ sessions[t] = NoEntry /\ NoEntries[t] = NoEntry
  BY DEF Init, NoEntries
<1>3. sessionFile.list = NoEntries /\ loc[Loop] = NoLocal
  BY ActorSets DEF Init
<1>4. QED
  BY <1>1, <1>2, <1>3 DEF Init, Shape, HandleShape, Blank

\* What a step of one actor has to leave so that the entries and handles are as
\* they should.
LEMMA ShapeKept ==
    ASSUME Shape, NEW a \in Actors, Apart(a),
           \A t \in Torrents : HandleShape(t)',
           \A t \in Torrents : Blank(sessions[t])',
           alerts' = alerts, sessionFile' = sessionFile,
           pc'[a] = "insert" => loc'[a].entry.id # 0,
           a = Loop => loc'[a].list \in {loc[a].list, sessionFile.list, NoEntries}
    PROVE  Shape'
<1>1. \A t \in Torrents : Blank(loc'[Loop].list[t])
  BY ActorSets DEF Apart, Shape, Blank, NoEntries
<1>2. \A b \in Actors : pc'[b] = "insert" => loc'[b].entry.id # 0
  BY DEF Apart, Shape
<1>3. QED
  BY <1>1, <1>2 DEF Shape, Blank

LEMMA ShapeProgram ==
    ASSUME Inv, Control, Shape,
           \/ Start \/ StartDone \/ Stop \/ Close \/ Kill \/ \E t \in Torrents : StartAdd(t)
    PROVE  Shape'
<1>0. NoHandle.here = FALSE /\ NoHandle.data.id = 0 /\ NoLocal.list = NoEntries
  BY DEF NoHandle, NoResume, NoLocal
<1>1. CASE Start
  BY <1>1, StartEffect, ActorSets, ShapeKept DEF stored, Shape, HandleShape, Blank
<1>2. CASE StartDone
  BY <1>0, <1>2, StartDoneEffect, ActorSets, ShapeKept DEF stored, Shape, HandleShape, Blank
<1>3. CASE Stop
  BY <1>3, StopEffect, ActorSets, ShapeKept DEF stored, Shape, HandleShape, Blank
<1>4. CASE Close \/ Kill
  <2>1. Down /\ sessionFile' = sessionFile
    BY <1>4, EndEffect DEF stored
  <2>2. \A t \in Torrents : client'[t] = NoHandle /\ sessions'[t] = NoEntry /\ NoEntries[t] = NoEntry
    BY <2>1 DEF Down, NoEntries
  <2>3. alerts' = <<>> /\ loc'[Loop] = NoLocal /\ \A a \in Actors : pc'[a] = "idle"
    BY <2>1, ActorSets DEF Down
  <2>4. QED
    BY <1>0, <2>1, <2>2, <2>3 DEF Shape, HandleShape, Blank
<1>5. ASSUME NEW t \in Torrents, StartAdd(t)
      PROVE  Shape'
  <2>1. /\ t \in loc[Loop].todo /\ pc[Loop] = "start" /\ Apart(Loop)
        /\ UNCHANGED <<sessions, alerts, sessionFile>>
        /\ loc'[Loop].list = loc[Loop].list
        /\ \A u \in Torrents : u # t \/ client[t].here => client'[u] = client[u]
        /\ \/ /\ pc'[Loop] = "insert" /\ loc'[Loop].entry.id = loc[Loop].list[t].id
              /\ HasResume(t) /\ ~client[t].here =>
                    client'[t] = [here |-> TRUE, unsaved |-> FALSE, data |-> resumeFile[t]]
              /\ ~HasResume(t) /\ ~client[t].here =>
                    client'[t] = Fresh(loc[Loop].list[t].id, "no")
           \/ pc' = pc /\ client' = client
    BY <1>5, StartAddEffect DEF stored
  <2>2. phase = "starting"
    BY <2>1, LoopPhase
  <2>3. loc[Loop].list[t].id # 0
    BY <2>1, <2>2 DEF Control, ToStart, Listed
  <2>4. \A u \in Torrents : HandleShape(u)'
    BY <2>1, <2>3 DEF Shape, HandleShape, HasResume, Fresh
  <2>5. QED
    BY <2>1, <2>3, <2>4, ActorSets, ShapeKept DEF Shape
<1>6. QED
  BY <1>1, <1>2, <1>3, <1>4, <1>5

LEMMA ShapeRequest ==
    ASSUME Inv, Control, Shape, NEW a \in Actors,
           \/ AddInsert(a) \/ Removes(a)
           \/ \E t \in Torrents : Removal(a, t)
           \/ a \in Callers /\ \E t \in Torrents, magnet \in BOOLEAN, paused \in BOOLEAN :
                 Add(a, t, magnet, paused)
           \/ a \in Callers /\ KeepTorrentFile(a)
    PROVE  Shape'
<1>0. sessions \in [Torrents -> Entry] /\ client \in [Torrents -> Handle] /\ requests \in Nat
  BY StoreAssumption DEF Inv, TypeOK
<1>1. CASE AddInsert(a)
  <2>1. \A u \in Torrents : Blank(sessions[u])'
    BY <1>0, <1>1, InsertEffect DEF Shape, Blank
  <2>2. /\ UNCHANGED <<client, alerts, sessionFile>> /\ Apart(a)
        /\ a = Loop => loc'[a] = loc[a]
        /\ pc'[a] # "insert"
    BY <1>1, InsertEffect DEF stored
  <2>3. QED
    BY <2>1, <2>2, ShapeKept DEF Shape, HandleShape
<1>2. CASE Removes(a)
  <2>1. \A u \in Torrents : Blank(sessions[u])'
    BY <1>0, <1>2, RemovesEffect DEF Shape, Blank
  <2>2. /\ UNCHANGED <<client, alerts, sessionFile>> /\ Apart(a)
        /\ a = Loop => loc'[a] = loc[a]
        /\ pc'[a] # "insert"
    BY <1>2, RemovesEffect
  <2>3. QED
    BY <2>1, <2>2, ShapeKept DEF Shape, HandleShape
<1>3. ASSUME NEW t \in Torrents, Removal(a, t)
      PROVE  Shape'
  <2>1. /\ client' = [client EXCEPT ![t] = NoHandle]
        /\ UNCHANGED <<sessions, alerts, sessionFile>> /\ Apart(a)
        /\ pc'[a] # "insert" /\ (a = Loop => loc'[a].list = loc[a].list)
    BY <1>3, RemoveEffect DEF Removal, stored
  <2>2. NoHandle.here = FALSE /\ NoHandle.data.id = 0
    BY DEF NoHandle, NoResume
  <2>3. \A u \in Torrents : HandleShape(u)'
    BY <1>0, <2>1, <2>2 DEF Shape, HandleShape
  <2>4. QED
    BY <2>1, <2>3, ShapeKept DEF Shape, Blank
<1>4. ASSUME a \in Callers, NEW t \in Torrents, NEW magnet \in BOOLEAN, NEW paused \in BOOLEAN,
             Add(a, t, magnet, paused)
      PROVE  Shape'
  <2>1. /\ UNCHANGED <<sessions, alerts, sessionFile>> /\ Apart(a)
        /\ loc'[a].entry.id = requests + 1
        /\ \A u \in Torrents : u # t \/ client[t].here => client'[u] = client[u]
        /\ ~client[t].here => client'[t].here /\ client'[t].data.id = requests + 1
    BY <1>4, AddEffect DEF stored
  <2>2. requests + 1 # 0 /\ a # Loop
    BY <1>0, <1>4, ActorSets
  <2>3. \A u \in Torrents : HandleShape(u)'
    BY <2>1, <2>2 DEF Shape, HandleShape
  <2>4. QED
    BY <2>1, <2>2, <2>3, ShapeKept DEF Shape, Blank
<1>5. CASE a \in Callers /\ KeepTorrentFile(a)
  <2>1. /\ UNCHANGED <<sessions, client, alerts, sessionFile>> /\ Apart(a) /\ pc'[a] = "idle"
    BY <1>5, KeepEffect
  <2>2. QED
    BY <1>5, <2>1, ShapeKept, ActorSets DEF Shape, HandleShape, Blank
<1>6. QED
  BY <1>1, <1>2, <1>3, <1>4, <1>5

LEMMA ShapeRest ==
    ASSUME Inv, Inv', Control, Shape,
           \/ Tinkering \/ SaveAlert \/ \E t \in Torrents : SaveResume(t)
           \/ FlushSession \/ TruncateSession \/ WriteSession \/ WriteFails
    PROVE  Shape'
<1>0. \A t \in Torrents : NoEntries[t] = NoEntry
  BY DEF NoEntries
<1>00. /\ alerts \in Seq(Alert) /\ sessions \in [Torrents -> Entry]
       /\ sessionFile \in SessionFile
  BY DEF Inv, TypeOK, SessionFile, Alert
<1>1. CASE Tinkering
  <2>1. Tinkers
    BY <1>1, AllTinkers DEF Tinkering
  <2>2. \A t \in Torrents : HandleShape(t)' /\ Blank(sessions[t])'
    BY <2>1 DEF Tinkers, Tinkered, Shape, HandleShape, Blank, Known
  <2>3. alerts' = alerts /\ sessionFile' = sessionFile
    BY <2>1 DEF Tinkers, stored
  <2>4. \A t \in Torrents : Blank(loc'[Loop].list[t])
    BY <1>0, <2>1, ActorSets DEF Tinkers, Wanders, Shape, Blank
  <2>5. \A a \in Actors : pc'[a] = "insert" => loc'[a].entry.id # 0
    BY <2>1, ActorSets DEF Tinkers, Wanders, Shape, LoopMoves
  <2>6. QED
    BY <2>2, <2>3, <2>4, <2>5 DEF Shape, Blank
<1>2. CASE SaveAlert
  <2>1. /\ UNCHANGED <<sessions, client, sessionFile, pc, loc>>
        /\ alerts # <<>> /\ alerts' = Tail(alerts)
    BY <1>2, SaveAlertEffect
  <2>2. \A i \in 1..Len(alerts') : alerts'[i] = alerts[i+1] /\ i+1 \in 1..Len(alerts)
    BY <1>00, <2>1
  <2>3. QED
    BY <2>1, <2>2 DEF Shape, HandleShape, Blank
<1>3. ASSUME NEW t \in Torrents, SaveResume(t)
      PROVE  Shape'
  <2>1. /\ UNCHANGED <<sessions, sessionFile>> /\ Apart(Loop) /\ pc'[Loop] \in {"save", "flush"}
        /\ loc'[Loop].list \in {loc[Loop].list, NoEntries}
        /\ \A u \in Torrents : /\ client'[u].here = client[u].here
                               /\ client'[u].data = client[u].data
                               /\ client'[u] = client[u] \/ client[u].here
        /\ \/ alerts' = alerts
           \/ client[t].here /\ alerts' = Append(alerts, [t |-> t, data |-> client[t].data])
    BY <1>3, SaveResumeEffect DEF stored
  <2>2. \A u \in Torrents : HandleShape(u)'
    BY <2>1 DEF Shape, HandleShape
  <2>3. \A i \in 1..Len(alerts') : alerts'[i].data.id # 0
    <3>1. CASE alerts' = alerts
      BY <3>1 DEF Shape
    <3>2. CASE client[t].here /\ alerts' = Append(alerts, [t |-> t, data |-> client[t].data])
      <4>1. client[t].data.id # 0
        BY <3>2 DEF Shape, HandleShape
      <4>2. [t |-> t, data |-> client[t].data] \in Alert
        BY RecordsType DEF Inv, Alert
      <4>3. \A i \in 1..Len(alerts') : \/ i \in 1..Len(alerts) /\ alerts'[i] = alerts[i]
                                       \/ alerts'[i] = [t |-> t, data |-> client[t].data]
        BY <1>00, <3>2, <4>2
      <4>4. QED
        BY <4>1, <4>3 DEF Shape
    <3>3. QED
      BY <2>1, <3>1, <3>2
  <2>4. \A a \in Actors : pc'[a] = "insert" => loc'[a].entry.id # 0
    BY <2>1, ActorSets DEF Apart, Shape
  <2>5. \A u \in Torrents : Blank(loc'[Loop].list[u])
    BY <1>0, <2>1 DEF Shape, Blank
  <2>6. QED
    BY <2>1, <2>2, <2>3, <2>4, <2>5 DEF Shape, Blank
<1>4. CASE FlushSession
  <2>1. /\ Apart(Loop) /\ UNCHANGED <<sessions, client, alerts, sessionFile>>
        /\ pc'[Loop] # "insert"
        /\ loc'[Loop].list \in {NoEntries, [u \in Torrents |-> Saved(sessions[u])]}
    BY <1>4, FlushEffect DEF stored, Flushed
  <2>2. \A u \in Torrents : Blank(Saved(sessions[u]))
    BY <1>00, SavedEntry DEF Shape, Blank
  <2>3. \A u \in Torrents : Blank(loc'[Loop].list[u])
    BY <1>0, <2>1, <2>2 DEF Blank
  <2>4. \A a \in Actors : pc'[a] = "insert" => loc'[a].entry.id # 0
    BY <2>1, ActorSets DEF Apart, Shape
  <2>5. QED
    BY <2>1, <2>3, <2>4 DEF Shape, HandleShape, Blank
<1>5. CASE TruncateSession \/ WriteSession \/ WriteFails
  <2>1. /\ Apart(Loop) /\ UNCHANGED <<sessions, client, alerts>>
        /\ pc'[Loop] # "insert" /\ loc'[Loop] \in {loc[Loop], NoLocal}
        /\ \/ sessionFile'.torn /\ sessionFile'.list = NoEntries
           \/ ~sessionFile'.torn /\ sessionFile'.list = loc[Loop].list
           \/ sessionFile' = sessionFile
    BY <1>5, WriteEffect DEF Flushed
  <2>2. NoLocal.list = NoEntries
    BY DEF NoLocal
  <2>3. \A u \in Torrents : Blank(loc'[Loop].list[u]) /\ Blank(sessionFile'.list[u])
    BY <1>0, <2>1, <2>2 DEF Shape, Blank
  <2>4. \A a \in Actors : pc'[a] = "insert" => loc'[a].entry.id # 0
    BY <2>1, ActorSets DEF Apart, Shape
  <2>5. sessionFile'.torn => sessionFile'.list = NoEntries
    BY <2>1 DEF Shape
  <2>6. QED
    BY <2>1, <2>3, <2>4, <2>5 DEF Shape, HandleShape, Blank
<1>6. QED
  BY <1>1, <1>2, <1>3, <1>4, <1>5

\* Each goroutine does what the phase of the program has it do, no alert is under
\* way before the torrents are loaded, and what is not there is blank.
THEOREM ControlInvariant == Spec => [](Control /\ Shape)
<1>1. Inv /\ Inv' /\ Control /\ Shape /\ [Next]_vars => (Control /\ Shape)'
  <2> SUFFICES ASSUME Inv, Inv', Control, Shape, [Next]_vars PROVE Control' /\ Shape'
    OBVIOUS
  <2>1. CASE UNCHANGED vars
    <3>1. UNCHANGED <<phase, sessions, dirty, client, alerts, sessionFile, pc, loc>>
      BY <2>1 DEF vars
    <3>2. QED
      BY <3>1 DEF Control, Shape, ToStart, Listed, HandleShape, Blank
  <2>2. CASE Next
    <3>1. CASE \/ Start \/ StartDone \/ Stop \/ Close \/ Kill \/ \E t \in Torrents : StartAdd(t)
      BY <3>1, ControlStart, ShapeProgram
    <3>2. ASSUME NEW a \in Actors,
                 \/ AddInsert(a) \/ Removes(a)
                 \/ \E t \in Torrents : Removal(a, t)
                 \/ a \in Callers /\ \E t \in Torrents, magnet \in BOOLEAN, paused \in BOOLEAN :
                       Add(a, t, magnet, paused)
                 \/ a \in Callers /\ KeepTorrentFile(a)
          PROVE  Control' /\ Shape'
      BY <3>2, ControlRequest, ShapeRequest
    <3>3. CASE \/ Tinkering \/ SaveAlert \/ \E t \in Torrents : SaveResume(t)
               \/ FlushSession \/ TruncateSession \/ WriteSession \/ WriteFails
      BY <3>3, ControlRest, ShapeRest
    <3>4. QED
      BY <2>2, <3>1, <3>2, <3>3, Steps, ActorSets
  <2>3. QED
    BY <2>1, <2>2
<1>2. QED
  BY <1>1, ControlInit, ShapeInit, Invariant, PTL DEF Spec
-----------------------------------------------------------------------------
(* An entry keeps its magnet *)

\* The entries of t, where there is one, in sessions, in the session file, in what
\* is written to it, and with those that are about to insert it.
EntriesOf(t) ==
    {NoEntry, sessions[t], sessionFile.list[t], loc[Loop].list[t]}
        \cup {loc[a].entry : a \in {b \in Actors : At(b, t, {"insert"})}}

\* Those of one add are of one kind: with a magnet or without.
Magnets ==
    \A t \in Torrents : \A e, f \in EntriesOf(t) :
        e.id <= requests /\ (e.id = f.id => e.magnet = f.magnet)

Like(e, t) == \E f \in EntriesOf(t) : e.id = f.id /\ e.magnet = f.magnet

LEMMA LikeOld ==
    ASSUME NEW t \in Torrents
    PROVE  /\ Like(NoEntry, t) /\ Like(sessions[t], t) /\ Like(sessionFile.list[t], t)
           /\ Like(loc[Loop].list[t], t)
           /\ \A a \in Actors : At(a, t, {"insert"}) => Like(loc[a].entry, t)
BY DEF Like, EntriesOf

\* Entries are handed on, and none is made.
LEMMA MagnetsKept ==
    ASSUME Magnets, requests \in Nat, requests' \in Nat, requests' >= requests,
           \A t \in Torrents : /\ Like(sessions'[t], t) /\ Like(sessionFile'.list[t], t)
                               /\ Like(loc'[Loop].list[t], t),
           \A a \in Actors : pc'[a] = "insert" => Like(loc'[a].entry, loc'[a].t),
           \A t \in Torrents : \A e \in EntriesOf(t) : e.id \in Nat
    PROVE  Magnets'
<1>1. ASSUME NEW t \in Torrents, NEW e \in EntriesOf(t)'
      PROVE  Like(e, t)
  BY LikeOld DEF EntriesOf, At
<1>2. ASSUME NEW t \in Torrents, NEW e \in EntriesOf(t)', NEW f \in EntriesOf(t)'
      PROVE  e.id <= requests' /\ (e.id = f.id => e.magnet = f.magnet)
  <2>1. PICK d \in EntriesOf(t) : e.id = d.id /\ e.magnet = d.magnet
    BY <1>1 DEF Like
  <2>2. PICK g \in EntriesOf(t) : f.id = g.id /\ f.magnet = g.magnet
    BY <1>1 DEF Like
  <2>3. d.id \in Nat /\ d.id <= requests
    BY <2>1 DEF Magnets
  <2>4. d.id = g.id => d.magnet = g.magnet
    BY <2>1, <2>2 DEF Magnets
  <2>5. QED
    BY <2>1, <2>2, <2>3, <2>4
<1>3. QED
  BY <1>2 DEF Magnets

LEMMA EntriesType ==
    ASSUME Inv, NEW t \in Torrents
    PROVE  /\ \A e \in EntriesOf(t) : e \in Entry /\ e.id \in Nat
           /\ requests \in Nat
<1>1. sessions[t] \in Entry /\ sessionFile.list[t] \in Entry /\ requests \in Nat
  BY StoreAssumption DEF Inv, TypeOK
<1>2. loc \in [Actors -> Local]
  BY DEF Inv, TypeOK, Local
<1>3. loc[Loop].list[t] \in Entry /\ \A a \in Actors : loc[a].entry \in Entry
  BY <1>2, ActorSets DEF Local
<1>4. QED
  BY <1>1, <1>3, Values DEF EntriesOf, Entry

LEMMA MagnetsInit == Init => Magnets
<1> SUFFICES ASSUME Init PROVE Magnets
  OBVIOUS
<1>1. \A t \in Torrents : sessions[t] = NoEntry /\ sessionFile.list[t] = NoEntry
  BY DEF Init, NoEntries
<1>2. \A t \in Torrents : loc[Loop].list[t] = NoEntry
  BY ActorSets DEF Init, NoLocal, NoEntries
<1>3. \A a \in Actors : pc[a] = "idle"
  BY DEF Init
<1>4. \A t \in Torrents : \A e \in EntriesOf(t) : e = NoEntry
  BY <1>1, <1>2, <1>3 DEF EntriesOf, At
<1>5. NoEntry.id = 0 /\ requests = 0
  BY DEF NoEntry, Init
<1>6. QED
  BY <1>4, <1>5 DEF Magnets

LEMMA MagnetsStep ==
    ASSUME Inv, Inv', Control, Shape, Magnets, Next
    PROVE  Magnets'
<1>0. /\ \A t \in Torrents : NoEntries[t] = NoEntry
      /\ sessions \in [Torrents -> Entry] /\ sessionFile \in SessionFile
      /\ \A a \in Actors : loc[a].t \in Torrents /\ loc'[a].t \in Torrents
  <2>1. Inv => TypeOK /\ (TypeOK => loc \in [Actors -> Local])
    BY DEF Inv, TypeOK, Local
  <2>2. \A a \in Actors : loc[a].t \in Torrents
    BY DEF Inv, TypeOK
  <2>3. \A a \in Actors : loc'[a].t \in Torrents
    BY DEF Inv, TypeOK
  <2>4. QED
    BY <2>2, <2>3 DEF NoEntries, Inv, TypeOK, SessionFile
<1>00. NoLocal.list = NoEntries
  BY DEF NoLocal
<1>N. requests \in Nat /\ requests' \in Nat
  BY StoreAssumption DEF Inv, TypeOK
<1>E. \A t \in Torrents : \A e \in EntriesOf(t) : e \in Entry /\ e.id \in Nat
  BY EntriesType
\* A step of an actor that hands on what there is.
<1>K. ASSUME NEW a \in Actors, Apart(a), requests' >= requests,
             \A t \in Torrents : Like(sessions'[t], t),
             \A t \in Torrents : Like(sessionFile'.list[t], t),
             pc'[a] = "insert" => Like(loc'[a].entry, loc'[a].t),
             a = Loop => \A t \in Torrents : Like(loc'[a].list[t], t)
      PROVE  Magnets'
  <2>1. \A t \in Torrents : Like(loc'[Loop].list[t], t)
    BY <1>K, LikeOld, ActorSets DEF Apart
  <2>2. \A b \in Actors : pc'[b] = "insert" => Like(loc'[b].entry, loc'[b].t)
    BY <1>0, <1>K, LikeOld DEF Apart, At
  <2>3. QED
    BY <1>N, <1>E, <1>K, <2>1, <2>2, MagnetsKept
<1>1. CASE \/ Start \/ StartDone \/ Stop \/ \E t \in Torrents : StartAdd(t)
  <2>1. /\ UNCHANGED <<sessions, sessionFile, requests>> /\ Apart(Loop)
        /\ loc'[Loop].list \in {loc[Loop].list, sessionFile.list, NoEntries}
    BY <1>00, <1>1, StartEffect, StartDoneEffect, StopEffect, StartAddEffect DEF stored
  <2>2. \A t \in Torrents : Like(loc'[Loop].list[t], t)
    BY <1>0, <2>1, LikeOld
  <2>3. pc'[Loop] = "insert" => Like(loc'[Loop].entry, loc'[Loop].t)
    <3>1. CASE Start \/ StartDone \/ Stop
      BY <3>1, StartEffect, StartDoneEffect, StopEffect
    <3>2. ASSUME NEW t \in Torrents, StartAdd(t), pc'[Loop] = "insert"
          PROVE  Like(loc'[Loop].entry, loc'[Loop].t)
      <4>1. /\ loc'[Loop].t = t /\ pc[Loop] # "insert"
            /\ \/ pc' = pc
               \/ /\ loc'[Loop].entry.id = loc[Loop].list[t].id
                  /\ loc'[Loop].entry.magnet = loc[Loop].list[t].magnet
        BY <3>2, StartAddEffect
      <4>2. loc[Loop].list[t] \in EntriesOf(t)
        BY DEF EntriesOf
      <4>3. QED
        BY <3>2, <4>1, <4>2 DEF Like
    <3>3. QED
      BY <1>1, <3>1, <3>2
  <2>4. QED
    BY <1>K, <1>N, <2>1, <2>2, <2>3, LikeOld, ActorSets
<1>2. CASE Close \/ Kill
  <2>1. Down /\ sessionFile' = sessionFile /\ requests' = requests
    BY <1>2, EndEffect DEF stored
  <2>2. \A t \in Torrents : sessions'[t] = NoEntry /\ loc'[Loop].list[t] = NoEntry
    BY <1>0, <1>00, <2>1, ActorSets DEF Down
  <2>3. \A a \in Actors : pc'[a] # "insert"
    BY <2>1 DEF Down
  <2>4. QED
    BY <1>N, <1>E, <2>1, <2>2, <2>3, LikeOld, MagnetsKept
<1>3. ASSUME NEW c \in Callers, NEW t \in Torrents, NEW magnet \in BOOLEAN, NEW paused \in BOOLEAN,
             Add(c, t, magnet, paused)
      PROVE  Magnets'
  <2>1. /\ UNCHANGED <<sessions, sessionFile>> /\ Apart(c) /\ requests' = requests + 1
        /\ loc'[c].t = t /\ loc'[c].entry.id = requests + 1
    BY <1>3, AddEffect DEF stored
  <2>2. loc'[Loop] = loc[Loop]
    BY <2>1, ActorSets DEF Apart
  <2>3. ASSUME NEW u \in Torrents, NEW e \in EntriesOf(u)'
        PROVE  e \in EntriesOf(u) \/ e = loc'[c].entry
    <3>1. ASSUME NEW a \in Actors, At(a, u, {"insert"})', a # c
          PROVE  loc'[a].entry \in EntriesOf(u)
      BY <2>1, <3>1 DEF Apart, EntriesOf, At
    <3>2. QED
      BY <2>1, <2>2, <2>3, <3>1 DEF EntriesOf
  <2>4. ASSUME NEW u \in Torrents, NEW e \in EntriesOf(u)', NEW f \in EntriesOf(u)'
        PROVE  e.id <= requests' /\ (e.id = f.id => e.magnet = f.magnet)
    <3>1. \A d \in EntriesOf(u) : d.id \in Nat /\ d.id <= requests
      BY <1>E DEF Magnets
    <3>2. CASE e \in EntriesOf(u) /\ f \in EntriesOf(u)
      <4>1. e.id = f.id => e.magnet = f.magnet
        BY <3>2 DEF Magnets
      <4>2. QED
        BY <1>N, <2>1, <3>1, <3>2, <4>1
    <3>3. CASE e = loc'[c].entry \/ f = loc'[c].entry
      <4>1. e \in EntriesOf(u) \/ e = loc'[c].entry
        BY <2>3
      <4>2. f \in EntriesOf(u) \/ f = loc'[c].entry
        BY <2>3
      <4>3. QED
        BY <1>N, <2>1, <3>1, <3>3, <4>1, <4>2
    <3>4. QED
      BY <2>3, <3>2, <3>3
  <2>5. QED
    BY <2>4 DEF Magnets
<1>4. ASSUME NEW a \in Actors, AddInsert(a) \/ Removes(a)
      PROVE  Magnets'
  <2>1. /\ UNCHANGED <<sessionFile, requests>> /\ Apart(a)
        /\ pc'[a] # "insert" /\ (a = Loop => loc'[a] = loc[a])
    BY <1>4, InsertEffect, RemovesEffect DEF stored
  <2>2. \A t \in Torrents : Like(sessions'[t], t)
    <3>1. CASE AddInsert(a)
      <4>1. pc[a] = "insert" /\ sessions' \in {sessions, [sessions EXCEPT ![loc[a].t] = loc[a].entry]}
        BY <3>1, InsertEffect
      <4>2. Like(loc[a].entry, loc[a].t)
        BY <1>0, <4>1, LikeOld DEF At
      <4>3. QED
        BY <1>0, <4>1, <4>2, LikeOld
    <3>2. CASE Removes(a)
      <4>1. sessions' \in {sessions, [sessions EXCEPT ![loc[a].t] = NoEntry]}
        BY <3>2, RemovesEffect
      <4>2. QED
        BY <1>0, <4>1, LikeOld
    <3>3. QED
      BY <1>4, <3>1, <3>2
  <2>3. QED
    BY <1>K, <1>N, <2>1, <2>2, LikeOld
<1>5. ASSUME NEW a \in Actors,
             (\E t \in Torrents : Removal(a, t)) \/ (a \in Callers /\ KeepTorrentFile(a))
      PROVE  Magnets'
  <2>1. /\ UNCHANGED <<sessions, sessionFile>> /\ requests' >= requests /\ Apart(a)
        /\ pc'[a] # "insert" /\ (a = Loop => loc'[a].list = loc[a].list)
    <3>1. ASSUME NEW t \in Torrents, Removal(a, t)
          PROVE  /\ UNCHANGED <<sessions, sessionFile>> /\ requests' >= requests /\ Apart(a)
                 /\ pc'[a] # "insert" /\ (a = Loop => loc'[a].list = loc[a].list)
      BY <3>1, RemoveEffect DEF Removal, stored
    <3>2. CASE a \in Callers /\ KeepTorrentFile(a)
      BY <1>N, <3>2, KeepEffect, ActorSets
    <3>3. QED
      BY <1>5, <3>1, <3>2
  <2>2. QED
    BY <1>K, <2>1, LikeOld
<1>6. CASE Tinkering
  <2>1. Tinkers
    BY <1>6, AllTinkers DEF Tinkering
  <2>2. sessionFile' = sessionFile /\ requests' >= requests
    BY <2>1 DEF Tinkers, stored
  <2>3. \A t \in Torrents : Like(sessions'[t], t)
    <3>1. \A t \in Torrents : sessions'[t].id = sessions[t].id /\ sessions'[t].magnet = sessions[t].magnet
      BY <2>1 DEF Tinkers, Tinkered
    <3>2. \A t \in Torrents : sessions[t] \in EntriesOf(t)
      BY DEF EntriesOf
    <3>3. QED
      BY <3>1, <3>2 DEF Like
  <2>4. \A t \in Torrents : Like(loc'[Loop].list[t], t)
    BY <1>0, <2>1, LikeOld, ActorSets DEF Tinkers, Wanders
  <2>5. \A b \in Actors : pc'[b] = "insert" => Like(loc'[b].entry, loc'[b].t)
    <3>1. \A b \in Actors : pc'[b] = "insert" => pc[b] = "insert" /\ loc'[b] = loc[b]
      BY <2>1 DEF Tinkers, Wanders, LoopMoves
    <3>2. QED
      BY <1>0, <3>1, LikeOld DEF At
  <2>6. QED
    BY <1>N, <1>E, <2>2, <2>3, <2>4, <2>5, LikeOld, MagnetsKept
<1>7. CASE SaveAlert
  <2>1. UNCHANGED <<sessions, sessionFile, pc, loc, requests>>
    BY <1>7, SaveAlertEffect
  <2>2. QED
    BY <2>1 DEF Magnets, EntriesOf, At
<1>8. CASE \/ \E t \in Torrents : SaveResume(t)
           \/ FlushSession \/ TruncateSession \/ WriteSession \/ WriteFails
  <2>1. UNCHANGED <<sessions, requests>> /\ Apart(Loop) /\ pc'[Loop] # "insert"
    BY <1>8, SaveResumeEffect, FlushEffect, WriteEffect DEF Flushed
  <2>2. /\ \/ loc'[Loop].list \in {loc[Loop].list, NoEntries}
           \/ loc'[Loop].list = [t \in Torrents |-> Saved(sessions[t])]
        /\ sessionFile' = sessionFile \/ sessionFile'.list \in {NoEntries, loc[Loop].list}
    BY <1>00, <1>8, SaveResumeEffect, FlushEffect, WriteEffect DEF stored
  <2>3. \A t \in Torrents : Like(Saved(sessions[t]), t)
    <3>1. \A t \in Torrents : sessions[t] \in EntriesOf(t)
      BY DEF EntriesOf
    <3>2. QED
      BY <1>0, <3>1, SavedEntry DEF Like
  <2>4. \A t \in Torrents : Like(loc'[Loop].list[t], t)
    BY <1>0, <2>2, <2>3, LikeOld
  <2>5. \A t \in Torrents : Like(sessionFile'.list[t], t)
    BY <1>0, <2>2, LikeOld
  <2>6. QED
    BY <1>K, <1>N, <2>1, <2>4, <2>5, LikeOld, ActorSets
<1>9. QED
  BY <1>1, <1>2, <1>3, <1>4, <1>5, <1>6, <1>7, <1>8, Steps, ActorSets

\* No two entries of one add differ in their magnet.
LEMMA MagnetsInvariant == Spec => []Magnets
<1>1. Inv /\ Inv' /\ Control /\ Shape /\ Magnets /\ [Next]_vars => Magnets'
  <2>1. CASE UNCHANGED vars
    BY <2>1 DEF vars, Magnets, EntriesOf, At
  <2>2. QED
    BY <2>1, MagnetsStep
<1>2. QED
  BY <1>1, MagnetsInit, ControlInvariant, Invariant, PTL DEF Spec

-----------------------------------------------------------------------------
(* One call at a time on a torrent. *)

\* While no two calls on a torrent have overlapped: one that is in one of client and
\* sessions and not in the other is being added or removed, one that is in upload
\* mode is preparing, and Start adds the torrents that nobody has touched.
Settled(t) ==
    /\ Known(t) /\ client[t].here /\ client[t].data.upload => sessions[t].preparing
    /\ Known(t) /\ ~client[t].here => \E a \in Actors : At(a, t, {"drop"})
    /\ ~Known(t) /\ client[t].here => \E a \in Actors : At(a, t, {"insert"})
    /\ \A a \in Actors : At(a, t, {"insert"}) =>
         client[t].here /\ (client[t].data.upload => loc[a].entry.preparing)
    /\ \A a \in Actors : At(a, t, {"keep"}) => Known(t)
    /\ \A a \in Actors : At(a, t, {"drop", "unresume", "untorrent"}) => ~client[t].here
    /\ \A a \in Actors : At(a, t, {"unresume", "untorrent"}) => ~Known(t)
    /\ ToStart(t) => ~Known(t) /\ \A c \in Callers : pc[c] = "idle" \/ loc[c].t # t
    /\ phase = "starting" /\ t \in loc[Loop].todo =>
         ~client[t].here /\ ~At(Loop, t, {"insert"})

Uncrossed == "crossed" \notin odd => \A t \in Torrents : Settled(t)

\* The step of an actor that does not begin or end anything on t.
LEMMA SettledKept ==
    ASSUME NEW t \in Torrents, Settled(t), NEW a \in Actors, Apart(a),
           client'[t].here = client[t].here,
           client'[t].data.upload = client[t].data.upload,
           sessions'[t].id = sessions[t].id, sessions'[t].preparing = sessions[t].preparing,
           ~At(a, t, {"insert", "drop"}), ~At(a, t, Busy)',
           a # Loop /\ pc'[a] # "idle" /\ loc'[a].t = t => pc[a] # "idle" /\ loc[a].t = t,
           phase' = "starting" => phase = "starting" /\ loc'[Loop].todo \subseteq loc[Loop].todo
    PROVE  Settled(t)'
<1>1. \A b \in Actors : At(b, t, Busy)' => At(b, t, Busy) /\ pc'[b] = pc[b] /\ loc'[b] = loc[b]
  BY DEF At, Apart
<1>2. \A b \in Actors : At(b, t, {"insert", "drop"}) => pc'[b] = pc[b] /\ loc'[b] = loc[b]
  BY DEF At, Apart
<1>3. ToStart(t)' => ToStart(t)
  BY <1>1, ActorSets DEF ToStart, At, Busy
<1>4. \A c \in Callers : pc[c] = "idle" \/ loc[c].t # t => pc'[c] = "idle" \/ loc'[c].t # t
  BY ActorSets DEF Apart
<1>5. /\ (Known(t) /\ client[t].here /\ client[t].data.upload => sessions[t].preparing)'
      /\ (Known(t) /\ ~client[t].here => \E b \in Actors : At(b, t, {"drop"}))'
      /\ (~Known(t) /\ client[t].here => \E b \in Actors : At(b, t, {"insert"}))'
  BY <1>2 DEF Settled, Known, At
<1>6. /\ (\A b \in Actors : At(b, t, {"insert"}) =>
            client[t].here /\ (client[t].data.upload => loc[b].entry.preparing))'
      /\ (\A b \in Actors : At(b, t, {"keep"}) => Known(t))'
      /\ (\A b \in Actors : At(b, t, {"drop", "unresume", "untorrent"}) => ~client[t].here)'
      /\ (\A b \in Actors : At(b, t, {"unresume", "untorrent"}) => ~Known(t))'
  BY <1>1 DEF Settled, Known, At, Busy
<1>7. (ToStart(t) => ~Known(t) /\ \A c \in Callers : pc[c] = "idle" \/ loc[c].t # t)'
  BY <1>3, <1>4 DEF Settled, Known
<1>8. (phase = "starting" /\ t \in loc[Loop].todo => ~client[t].here /\ ~At(Loop, t, {"insert"}))'
  BY <1>1, ActorSets DEF Settled, At, Busy
<1>9. QED
  BY <1>5, <1>6, <1>7, <1>8 DEF Settled

LEMMA SettledRequest ==
    ASSUME Inv, Control, Shape, NEW t \in Torrents, Settled(t), "crossed" \notin odd',
           NEW a \in Actors,
           \/ AddInsert(a) \/ Removes(a)
           \/ Removal(a, t)
           \/ a \in Callers /\ \E magnet \in BOOLEAN, paused \in BOOLEAN : Add(a, t, magnet, paused)
           \/ a \in Callers /\ KeepTorrentFile(a)
    PROVE  Settled(t)'
<1>T. TypeOK
  BY DEF Inv
<1>1. CASE AddInsert(a)
  <2>1. /\ loc[a].t \in Torrents /\ pc[a] = "insert" /\ Noted(a, loc[a].t)
        /\ UNCHANGED <<phase, client>> /\ Apart(a)
        /\ \/ Known(loc[a].t) /\ sessions' = sessions
           \/ ~Known(loc[a].t) /\ sessions' = [sessions EXCEPT ![loc[a].t] = loc[a].entry]
        /\ \/ loc[a].keep /\ pc'[a] = "keep" /\ loc'[a] = loc[a]
           \/ /\ a = Loop => loc'[a] = loc[a]
              /\ a # Loop => pc'[a] = "idle"
              /\ a = Loop => pc'[a] = IF phase = "starting" THEN "start" ELSE "seed"
    BY <1>1, InsertEffect
  <2>2. loc[a].entry.id # 0
    BY <2>1 DEF Shape
  <2>3. CASE loc[a].t # t
    <3>1. sessions'[t] = sessions[t]
      BY <1>T, <2>1, <2>3 DEF TypeOK
    <3>2. ~At(a, t, {"insert", "drop"}) /\ ~At(a, t, Busy)'
      BY <2>1, <2>3 DEF At, Busy
    <3>3. a # Loop /\ pc'[a] # "idle" /\ loc'[a].t = t => pc[a] # "idle" /\ loc[a].t = t
      BY <2>1, <2>3
    <3>4. phase' = "starting" => phase = "starting" /\ loc'[Loop].todo \subseteq loc[Loop].todo
      BY <2>1, ActorSets DEF Apart
    <3>5. QED
      BY <2>1, <3>1, <3>2, <3>3, <3>4, SettledKept
  <2>4. CASE loc[a].t = t
    <3>1. client[t].here /\ (client[t].data.upload => loc[a].entry.preparing)
      BY <2>1, <2>4 DEF Settled, At
    <3>2. sessions'[t] = IF Known(t) THEN sessions[t] ELSE loc[a].entry
      BY <1>T, <2>1, <2>4 DEF TypeOK
    <3>3. Known(t)' /\ (client[t].data.upload => sessions'[t].preparing)
      BY <2>2, <3>1, <3>2 DEF Known, Settled
    <3>4. \A b \in Actors : At(b, t, Busy)' => pc'[b] = "keep"
      BY <2>1, <2>4 DEF Noted, At, Apart, Busy
    <3>5. ~ToStart(t)' /\ ~(phase' = "starting" /\ t \in loc'[Loop].todo)
      <4>1. CASE a = Loop
        <5>1. phase = "starting"
          BY <2>1, <4>1, LoopPhase
        <5>2. pc'[Loop] = "start" /\ loc'[Loop] = loc[Loop]
          BY <2>1, <4>1, <5>1 DEF Control
        <5>3. t \notin loc[Loop].todo
          BY <2>1, <2>4, <4>1, <5>1 DEF Settled, At
        <5>4. QED
          BY <2>1, <5>2, <5>3 DEF ToStart
      <4>2. CASE a # Loop
        <5>1. ~ToStart(t)
          BY <2>1, <2>4, <4>2, ActorSets DEF Settled
        <5>2. pc'[Loop] = pc[Loop] /\ loc'[Loop] = loc[Loop]
          BY <2>1, <4>2, ActorSets DEF Apart
        <5>3. QED
          BY <2>1, <5>1, <5>2 DEF ToStart
      <4>3. QED
        BY <4>1, <4>2
    <3>6. QED
      BY <2>1, <3>1, <3>3, <3>4, <3>5 DEF Settled, At, Busy
  <2>5. QED
    BY <2>3, <2>4
<1>2. CASE Removes(a)
  <2>1. /\ loc[a].t \in Torrents /\ Noted(a, loc[a].t) /\ UNCHANGED <<phase, client>> /\ Apart(a)
        /\ \/ /\ pc[a] = "drop" /\ pc'[a] = "unresume" /\ loc'[a] = loc[a]
              /\ sessions' = [sessions EXCEPT ![loc[a].t] = NoEntry]
           \/ /\ pc[a] = "unresume" /\ pc'[a] = "untorrent" /\ loc'[a] = loc[a]
              /\ sessions' = sessions
           \/ /\ pc[a] = "untorrent" /\ sessions' = sessions
              /\ a = Loop => loc'[a] = loc[a]
              /\ a # Loop => pc'[a] = "idle"
              /\ a = Loop => pc'[a] = IF phase = "starting" THEN "start" ELSE "seed"
    BY <1>2, RemovesEffect
  <2>2. phase' = "starting" => phase = "starting" /\ loc'[Loop].todo \subseteq loc[Loop].todo
    BY <2>1, ActorSets DEF Apart
  <2>3. a # Loop /\ pc'[a] # "idle" /\ loc'[a].t = t => pc[a] # "idle" /\ loc[a].t = t
    BY <2>1
  <2>4. CASE loc[a].t # t
    <3>1. sessions'[t] = sessions[t]
      BY <1>T, <2>1, <2>4 DEF TypeOK
    <3>2. ~At(a, t, {"insert", "drop"}) /\ ~At(a, t, Busy)'
      BY <2>1, <2>4 DEF At, Busy
    <3>3. QED
      BY <2>1, <2>2, <2>3, <3>1, <3>2, SettledKept
  <2>5. CASE loc[a].t = t /\ pc[a] = "untorrent"
    <3>1. ~At(a, t, {"insert", "drop"}) /\ ~At(a, t, Busy)'
      BY <2>1, <2>5 DEF At, Busy
    <3>2. QED
      BY <2>1, <2>2, <2>3, <2>5, <3>1, SettledKept
  <2>6. CASE loc[a].t = t /\ pc[a] # "untorrent"
    <3>1. ~client[t].here
      BY <2>1, <2>6 DEF Settled, At
    <3>2. ~Known(t)'
      <4>1. pc[a] = "drop" => sessions'[t] = NoEntry
        BY <1>T, <2>1, <2>6 DEF TypeOK
      <4>2. pc[a] = "unresume" => sessions' = sessions /\ ~Known(t)
        BY <2>1, <2>6 DEF Settled, At
      <4>3. NoEntry.id = 0
        BY DEF NoEntry
      <4>4. QED
        BY <2>1, <2>6, <4>1, <4>2, <4>3 DEF Known
    <3>3. \A b \in Actors : At(b, t, Busy)' => pc'[b] \in {"unresume", "untorrent"}
      BY <2>1, <2>6 DEF Noted, At, Apart, Busy
    <3>4. ToStart(t)' => ToStart(t)
      BY <2>1, <2>2, <2>6, ActorSets DEF ToStart, Apart
    <3>5. \A c \in Callers : pc[c] = "idle" \/ loc[c].t # t => pc'[c] = "idle" \/ loc'[c].t # t
      BY <2>1, <2>3, ActorSets DEF Apart
    <3>6. (ToStart(t) => ~Known(t) /\ \A c \in Callers : pc[c] = "idle" \/ loc[c].t # t)'
      BY <3>2, <3>4, <3>5 DEF Settled
    <3>7. (phase = "starting" /\ t \in loc[Loop].todo => ~client[t].here /\ ~At(Loop, t, {"insert"}))'
      BY <2>1, <3>1, <3>3, ActorSets DEF At, Busy
    <3>8. QED
      BY <2>1, <3>1, <3>2, <3>3, <3>6, <3>7 DEF Settled, At, Busy
  <2>7. QED
    BY <2>4, <2>5, <2>6
<1>3. CASE Removal(a, t)
  <2>1. /\ client' = [client EXCEPT ![t] = NoHandle] /\ client[t].here /\ Noted(a, t)
        /\ UNCHANGED <<phase, sessions>> /\ Apart(a) /\ pc'[a] = "drop" /\ loc'[a].t = t
        /\ pc[a] = IF a = Loop THEN "seed" ELSE "idle"
    BY <1>3, RemoveEffect DEF Removal
  <2>2. ~client'[t].here
    BY <1>T, <2>1 DEF TypeOK, NoHandle
  <2>3. \A b \in Actors : At(b, t, Busy)' => b = a
    BY <2>1 DEF Noted, At, Apart
  <2>4. ~ToStart(t)' /\ ~(phase' = "starting" /\ t \in loc'[Loop].todo)
    <3>1. CASE a = Loop
      BY <2>1, <3>1, LoopPhase DEF ToStart
    <3>2. CASE a # Loop
      <4>1. pc'[Loop] = pc[Loop] /\ loc'[Loop] = loc[Loop]
        BY <2>1, <3>2, ActorSets DEF Apart
      <4>2. phase = "starting" => t \notin loc[Loop].todo /\ ~At(Loop, t, {"insert"})
        BY <2>1, <3>2, ActorSets DEF Noted, At, Busy
      <4>3. QED
        BY <2>1, <4>1, <4>2 DEF ToStart, At
    <3>3. QED
      BY <3>1, <3>2
  <2>5. QED
    BY <2>1, <2>2, <2>3, <2>4 DEF Settled, At, Busy
<1>4. ASSUME a \in Callers, NEW magnet \in BOOLEAN, NEW paused \in BOOLEAN,
             Add(a, t, magnet, paused)
      PROVE  Settled(t)'
  <2>1. /\ UNCHANGED <<phase, sessions>> /\ Apart(a) /\ pc'[a] = "insert" /\ Noted(a, t)
        /\ pc[a] = "idle" /\ loc'[a].t = t /\ loc'[a].entry.preparing
        /\ client[t].here => client'[t] = client[t]
        /\ ~client[t].here => client'[t].here
    BY <1>4, AddEffect
  <2>2. a # Loop /\ pc'[Loop] = pc[Loop] /\ loc'[Loop] = loc[Loop]
    BY <1>4, <2>1, ActorSets DEF Apart
  <2>3. \A b \in Actors : At(b, t, Busy)' => b = a
    BY <2>1 DEF Noted, At, Apart
  <2>4. \A b \in Actors : ~At(b, t, Busy)
    BY <2>1 DEF Noted, At, Busy
  <2>5. ~ToStart(t)' /\ ~(phase' = "starting" /\ t \in loc'[Loop].todo)
    BY <2>1, <2>2, <2>4, ActorSets DEF ToStart, Noted, At, Busy
  <2>6. Known(t) => client[t].here
    BY <2>4 DEF Settled, At, Busy
  <2>7. client'[t].here /\ (Known(t)' /\ client'[t].data.upload => sessions'[t].preparing)
    BY <2>1, <2>6 DEF Settled, Known
  <2>8. QED
    BY <2>1, <2>3, <2>5, <2>7 DEF Settled, At, Busy
<1>5. CASE a \in Callers /\ KeepTorrentFile(a)
  <2>1. /\ pc[a] = "keep" /\ UNCHANGED <<phase, sessions, client>> /\ Apart(a)
        /\ pc'[a] = "idle" /\ a # Loop
    BY <1>5, KeepEffect, ActorSets
  <2>2. ~At(a, t, {"insert", "drop"}) /\ ~At(a, t, Busy)'
    BY <2>1 DEF At, Busy
  <2>3. phase' = "starting" => phase = "starting" /\ loc'[Loop].todo \subseteq loc[Loop].todo
    BY <2>1, ActorSets DEF Apart
  <2>4. QED
    BY <2>1, <2>2, <2>3, SettledKept
<1>6. QED
  BY <1>1, <1>2, <1>3, <1>4, <1>5

\* What is asked for another torrent.
LEMMA SettledOther ==
    ASSUME Inv, Control, NEW t \in Torrents, Settled(t), NEW a \in Actors,
           NEW u \in Torrents \ {t},
           \/ Removal(a, u)
           \/ a \in Callers /\ \E magnet \in BOOLEAN, paused \in BOOLEAN : Add(a, u, magnet, paused)
    PROVE  Settled(t)'
<1>T. TypeOK
  BY DEF Inv
<1>1. /\ UNCHANGED <<phase, sessions>> /\ client'[t] = client[t] /\ Apart(a) /\ loc'[a].t = u
      /\ pc[a] \in {"idle", "seed"}
  <2>1. CASE Removal(a, u)
    <3>1. /\ client' = [client EXCEPT ![u] = NoHandle]
          /\ UNCHANGED <<phase, sessions>> /\ Apart(a) /\ loc'[a].t = u
          /\ pc[a] = IF a = Loop THEN "seed" ELSE "idle"
      BY <2>1, RemoveEffect DEF Removal
    <3>2. QED
      BY <1>T, <3>1 DEF TypeOK
  <2>2. ASSUME a \in Callers, NEW magnet \in BOOLEAN, NEW paused \in BOOLEAN,
               Add(a, u, magnet, paused)
        PROVE  /\ UNCHANGED <<phase, sessions>> /\ client'[t] = client[t] /\ Apart(a)
               /\ loc'[a].t = u /\ pc[a] = "idle"
    BY <2>2, AddEffect
  <2>3. QED
    BY <2>1, <2>2
<1>2. ~At(a, t, {"insert", "drop"}) /\ ~At(a, t, Busy)'
  BY <1>1 DEF At
<1>3. phase' = "starting" => phase = "starting" /\ loc'[Loop].todo \subseteq loc[Loop].todo
  <2>1. a = Loop => phase # "starting"
    <3>1. CASE Removal(a, u) /\ a = Loop
      <4>1. pc[Loop] = "seed"
        BY <3>1, RemoveEffect DEF Removal
      <4>2. QED
        BY <4>1, LoopPhase
    <3>2. QED
      BY <3>1, ActorSets
  <2>2. QED
    BY <1>1, <2>1, ActorSets DEF Apart
<1>4. QED
  BY <1>1, <1>2, <1>3, SettledKept

LEMMA SettledTinkers ==
    ASSUME Inv, Control, NEW t \in Torrents, Settled(t), "crossed" \notin odd', Tinkers
    PROVE  Settled(t)'
<1>1. phase' = phase /\ Tinkered(t) /\ \A a \in Actors : Wanders(a)
  BY DEF Tinkers
<1>2. \A a \in Actors : At(a, t, Busy) \/ At(a, t, Busy)' => pc'[a] = pc[a] /\ loc'[a] = loc[a]
  <2>1. ASSUME NEW a \in Actors, pc'[a] # pc[a] \/ loc'[a] # loc[a]
        PROVE  pc[a] \notin Busy /\ pc'[a] \notin Busy
    <3>1. CASE a # Loop
      BY <1>1, <2>1, <3>1 DEF Wanders, Busy
    <3>2. CASE a = Loop
      BY <1>1, <2>1, <3>2 DEF Wanders, Busy, LoopMoves
    <3>3. QED
      BY <3>1, <3>2
  <2>2. QED
    BY <2>1 DEF At
<1>3. /\ \A a \in Actors, labels \in SUBSET Busy : At(a, t, labels)' <=> At(a, t, labels)
      /\ \A a \in Actors : At(a, t, Busy)' => loc'[a] = loc[a]
  BY <1>2 DEF At
<1>4. /\ Known(t)' = Known(t) /\ client'[t].here = client[t].here
      /\ client'[t].data.upload => client[t].data.upload /\ sessions'[t].preparing = sessions[t].preparing
  BY <1>1 DEF Tinkered, Known
<1>5. phase = "starting" => pc'[Loop] = pc[Loop] /\ loc'[Loop] = loc[Loop]
  BY <1>1, LoopPhase, ActorSets DEF Wanders, LoopMoves
<1>6. ASSUME NEW c \in Callers, phase = "starting", ToStart(t),
             pc[c] = "idle" \/ loc[c].t # t
      PROVE  pc'[c] = "idle" \/ loc'[c].t # t
  <2>1. Wanders(c) /\ c # Loop
    BY <1>1, ActorSets
  <2>2. CASE pc'[c] = pc[c] /\ loc'[c] = loc[c]
    BY <1>6, <2>2
  <2>3. CASE pc[c] = "idle" /\ Noted(c, loc'[c].t)
    <3>1. t # loc'[c].t
      BY <1>6, <2>1, <2>3, ActorSets DEF Noted, ToStart, At, Busy
    <3>2. QED
      BY <3>1
  <2>4. CASE pc[c] \in {"status", "update"} /\ pc'[c] # "idle"
    <3>1. loc'[c].t = loc[c].t
      BY <2>1, <2>4 DEF Wanders
    <3>2. QED
      BY <1>6, <2>4, <3>1
  <2>5. QED
    BY <2>1, <2>2, <2>3, <2>4 DEF Wanders
<1>7. /\ (Known(t) /\ client[t].here /\ client[t].data.upload => sessions[t].preparing)'
      /\ (Known(t) /\ ~client[t].here => \E a \in Actors : At(a, t, {"drop"}))'
      /\ (~Known(t) /\ client[t].here => \E a \in Actors : At(a, t, {"insert"}))'
  <2>1. {"drop"} \in SUBSET Busy /\ {"insert"} \in SUBSET Busy
    BY DEF Busy
  <2>2. QED
    BY <1>3, <1>4, <2>1 DEF Settled
<1>8. ASSUME NEW a \in Actors
      PROVE  /\ (At(a, t, {"insert"}) =>
                   client[t].here /\ (client[t].data.upload => loc[a].entry.preparing))'
             /\ (At(a, t, {"keep"}) => Known(t))'
             /\ (At(a, t, {"drop", "unresume", "untorrent"}) => ~client[t].here)'
             /\ (At(a, t, {"unresume", "untorrent"}) => ~Known(t))'
  <2>1. /\ At(a, t, {"insert"})' => At(a, t, {"insert"}) /\ loc'[a] = loc[a]
        /\ At(a, t, {"keep"})' => At(a, t, {"keep"})
        /\ At(a, t, {"drop", "unresume", "untorrent"})' => At(a, t, {"drop", "unresume", "untorrent"})
        /\ At(a, t, {"unresume", "untorrent"})' => At(a, t, {"unresume", "untorrent"})
    BY <1>2 DEF At, Busy
  <2>2. QED
    BY <1>4, <2>1 DEF Settled
<1>9. (ToStart(t) => ~Known(t) /\ \A c \in Callers : pc[c] = "idle" \/ loc[c].t # t)'
  BY <1>1, <1>4, <1>5, <1>6 DEF Settled, ToStart
<1>10. (phase = "starting" /\ t \in loc[Loop].todo => ~client[t].here /\ ~At(Loop, t, {"insert"}))'
  BY <1>1, <1>4, <1>5 DEF Settled, At
<1>11. QED
  BY <1>7, <1>8, <1>9, <1>10 DEF Settled

LEMMA SettledStartAdd ==
    ASSUME Inv, Control, Shape, NEW t \in Torrents, Settled(t), "crossed" \notin odd',
           NEW u \in Torrents, StartAdd(u)
    PROVE  Settled(t)'
<1>1. /\ u \in loc[Loop].todo /\ pc[Loop] = "start" /\ UNCHANGED <<phase, sessions>> /\ Apart(Loop)
      /\ loc'[Loop].todo = loc[Loop].todo \ {u} /\ loc'[Loop].t = u
      /\ ~client[u].here /\ ~Known(u) /\ \A c \in Callers : pc[c] # "idle" => loc[c].t # u
      /\ \A v \in Torrents : v # u => client'[v] = client[v]
      /\ \/ /\ pc'[Loop] = "insert"
            /\ client'[u].data.upload => loc'[Loop].entry.preparing
            /\ HasResume(u) => client'[u] = [here |-> TRUE, unsaved |-> FALSE, data |-> resumeFile[u]]
            /\ ~HasResume(u) => client'[u] = Fresh(loc[Loop].list[u].id, "no")
         \/ pc' = pc /\ client' = client
  BY StartAddEffect
<1>2. phase = "starting"
  BY <1>1, LoopPhase
<1>3. CASE t # u
  <2>1. ~At(Loop, t, {"insert", "drop"}) /\ ~At(Loop, t, Busy)'
    BY <1>1, <1>3 DEF At
  <2>2. QED
    BY <1>1, <1>2, <1>3, <2>1, ActorSets, SettledKept
<1>4. CASE t = u
  <2>1. \A c \in Callers : pc'[c] = "idle" \/ loc'[c].t # t
    BY <1>1, <1>4, ActorSets DEF Apart
  <2>2. \A c \in Callers : ~At(c, t, Busy)'
    BY <2>1 DEF At, Busy
  <2>3. ~Known(t)' /\ t \notin loc'[Loop].todo
    BY <1>1, <1>4 DEF Known
  <2>4. CASE pc'[Loop] = "insert"
    <3>1. client'[t].here /\ (client'[t].data.upload => loc'[Loop].entry.preparing)
      BY <1>1, <1>4, <2>4 DEF Fresh
    <3>2. At(Loop, t, {"insert"})' /\ ~At(Loop, t, Busy \ {"insert"})'
      BY <1>1, <1>4, <2>4 DEF At
    <3>3. QED
      BY <1>1, <2>1, <2>2, <2>3, <3>1, <3>2, ActorSets DEF Settled, At, Busy
  <2>5. CASE pc' = pc /\ client' = client
    <3>1. ~client'[t].here /\ ~At(Loop, t, Busy)'
      BY <1>1, <1>4, <2>5 DEF At, Busy
    <3>2. QED
      BY <1>1, <2>1, <2>2, <2>3, <3>1, ActorSets DEF Settled, At, Busy
  <2>6. QED
    BY <1>1, <2>4, <2>5
<1>5. QED
  BY <1>3, <1>4

LEMMA SettledProgram ==
    ASSUME Inv, Control, Shape, NEW t \in Torrents, Settled(t),
           Start \/ StartDone \/ Stop \/ Close \/ Kill
    PROVE  Settled(t)'
<1>0. NoHandle.here = FALSE /\ NoEntry.id = 0 /\ NoEntries[t] = NoEntry
  BY DEF NoHandle, NoEntry, NoEntries
<1>1. CASE Start
  <2>1. /\ phase = "down" /\ Apart(Loop) /\ pc'[Loop] = "start" /\ UNCHANGED <<sessions, client>>
    BY <1>1, StartEffect
  <2>2. ~Known(t)' /\ ~client'[t].here
    BY <1>0, <2>1 DEF Control, Known
  <2>3. \A a \in Actors : pc'[a] \in {"idle", "start"}
    BY <2>1 DEF Control, Apart
  <2>4. \A c \in Callers : pc'[c] = "idle"
    BY <2>1, ActorSets DEF Control, Apart
  <2>5. QED
    BY <2>2, <2>3, <2>4, ActorSets DEF Settled, At
<1>2. CASE StartDone \/ Stop
  <2>1. /\ Apart(Loop) /\ UNCHANGED <<sessions, client>> /\ phase' # "starting"
        /\ pc[Loop] \in {"start", "idle"} /\ pc'[Loop] \in {"idle", "save"}
    BY <1>2, StartDoneEffect, StopEffect
  <2>2. ~At(Loop, t, {"insert", "drop"}) /\ ~At(Loop, t, Busy)'
    BY <2>1 DEF At, Busy
  <2>3. QED
    BY <2>1, <2>2, ActorSets, SettledKept
<1>3. CASE Close \/ Kill
  <2>1. Down
    BY <1>3, EndEffect
  <2>2. ~Known(t)' /\ ~client'[t].here /\ phase' = "down"
    BY <1>0, <2>1 DEF Down, Known
  <2>3. \A a \in Actors : pc'[a] = "idle"
    BY <2>1 DEF Down
  <2>4. QED
    BY <2>2, <2>3 DEF Settled, At, ToStart
<1>4. QED
  BY <1>1, <1>2, <1>3

LEMMA SettledTick ==
    ASSUME Inv, Control, Shape, NEW t \in Torrents, Settled(t),
           \/ SaveAlert \/ \E u \in Torrents : SaveResume(u)
           \/ FlushSession \/ TruncateSession \/ WriteSession \/ WriteFails
    PROVE  Settled(t)'
<1>1. CASE SaveAlert
  <2>1. UNCHANGED <<phase, sessions, client, pc, loc>>
    BY <1>1, SaveAlertEffect
  <2>2. QED
    BY <2>1 DEF Settled, Known, At, ToStart
<1>2. CASE \/ \E u \in Torrents : SaveResume(u)
           \/ FlushSession \/ TruncateSession \/ WriteSession \/ WriteFails
  <2>1. /\ Apart(Loop) /\ UNCHANGED <<phase, sessions>>
        /\ pc[Loop] \in {"save", "flush"} \cup Writing
        /\ pc'[Loop] \in {"save", "flush", "truncate", "write", "close", "idle"}
        /\ client'[t].here = client[t].here /\ client'[t].data.upload = client[t].data.upload
    BY <1>2, SaveResumeEffect, FlushEffect, WriteEffect DEF Flushed
  <2>2. phase # "starting"
    BY <2>1, LoopPhase
  <2>3. ~At(Loop, t, {"insert", "drop"}) /\ ~At(Loop, t, Busy)'
    BY <2>1 DEF At, Busy, Writing
  <2>4. QED
    BY <2>1, <2>2, <2>3, ActorSets, SettledKept
<1>3. QED
  BY <1>1, <1>2

\* What is noted stays noted.
LEMMA OddGrows ==
    ASSUME Inv, Control, Shape, Next
    PROVE  odd \subseteq odd'
<1>1. CASE Start \/ StartDone \/ Stop \/ Close \/ Kill \/ \E t \in Torrents : StartAdd(t)
  BY <1>1, StartEffect, StartDoneEffect, StopEffect, EndEffect, StartAddEffect
<1>2. ASSUME NEW c \in Callers, NEW t \in Torrents, NEW magnet \in BOOLEAN, NEW paused \in BOOLEAN,
             Add(c, t, magnet, paused)
      PROVE  odd \subseteq odd'
  BY <1>2, AddEffect DEF Noted
<1>3. ASSUME NEW a \in Actors, AddInsert(a) \/ Removes(a)
      PROVE  odd \subseteq odd'
  BY <1>3, InsertEffect, RemovesEffect DEF Noted
<1>4. ASSUME NEW a \in Actors, NEW t \in Torrents, Removal(a, t)
      PROVE  odd \subseteq odd'
  BY <1>4, RemoveEffect DEF Removal, Noted
<1>5. ASSUME NEW c \in Callers, KeepTorrentFile(c)
      PROVE  odd \subseteq odd'
  BY <1>5, KeepEffect DEF Noted
<1>6. CASE Tinkering
  BY <1>6, AllTinkers DEF Tinkers, Tinkering
<1>7. CASE \/ SaveAlert \/ \E t \in Torrents : SaveResume(t)
           \/ FlushSession \/ TruncateSession \/ WriteSession \/ WriteFails
  BY <1>7, SaveAlertEffect, SaveResumeEffect, FlushEffect, WriteEffect
<1>8. QED
  BY <1>1, <1>2, <1>3, <1>4, <1>5, <1>6, <1>7, Steps

LEMMA UncrossedStep ==
    ASSUME Inv, Control, Shape, Uncrossed, Next
    PROVE  Uncrossed'
<1> SUFFICES ASSUME "crossed" \notin odd', NEW t \in Torrents
             PROVE  Settled(t)'
  BY DEF Uncrossed
<1>0. Settled(t)
  BY OddGrows DEF Uncrossed
<1>1. CASE Start \/ StartDone \/ Stop \/ Close \/ Kill
  BY <1>0, <1>1, SettledProgram
<1>2. CASE \E u \in Torrents : StartAdd(u)
  BY <1>0, <1>2, SettledStartAdd
<1>3. ASSUME NEW c \in Callers, NEW u \in Torrents, NEW magnet \in BOOLEAN, NEW paused \in BOOLEAN,
             Add(c, u, magnet, paused)
      PROVE  Settled(t)'
  <2>1. CASE u = t
    BY <1>0, <1>3, <2>1, SettledRequest, ActorSets
  <2>2. CASE u # t
    BY <1>0, <1>3, <2>2, SettledOther, ActorSets
  <2>3. QED
    BY <2>1, <2>2
<1>4. ASSUME NEW a \in Actors, AddInsert(a) \/ Removes(a) \/ (a \in Callers /\ KeepTorrentFile(a))
      PROVE  Settled(t)'
  BY <1>0, <1>4, SettledRequest
<1>5. ASSUME NEW a \in Actors, NEW u \in Torrents, Removal(a, u)
      PROVE  Settled(t)'
  <2>1. CASE u = t
    BY <1>0, <1>5, <2>1, SettledRequest
  <2>2. CASE u # t
    BY <1>0, <1>5, <2>2, SettledOther
  <2>3. QED
    BY <2>1, <2>2
<1>6. CASE Tinkering
  <2>1. Tinkers
    BY <1>6, AllTinkers DEF Tinkering
  <2>2. QED
    BY <1>0, <2>1, SettledTinkers
<1>7. CASE \/ SaveAlert \/ \E u \in Torrents : SaveResume(u)
           \/ FlushSession \/ TruncateSession \/ WriteSession \/ WriteFails
  BY <1>0, <1>7, SettledTick
<1>8. QED
  BY <1>1, <1>2, <1>3, <1>4, <1>5, <1>6, <1>7, Steps, ActorSets

LEMMA UncrossedInit == Init => Uncrossed
<1> SUFFICES ASSUME Init, NEW t \in Torrents PROVE Settled(t)
  BY DEF Uncrossed
<1>1. ~Known(t) /\ ~client[t].here
  BY DEF Init, NoEntries, NoEntry, NoHandle, Known
<1>2. (\A a \in Actors : pc[a] = "idle") /\ phase = "down"
  BY DEF Init
<1>3. QED
  BY <1>1, <1>2 DEF Settled, At, ToStart

LEMMA UncrossedInvariant == Spec => []Uncrossed
<1>1. Inv /\ Control /\ Shape /\ Uncrossed /\ [Next]_vars => Uncrossed'
  <2>1. CASE UNCHANGED vars
    BY <2>1 DEF vars, Uncrossed, Settled, Known, At, ToStart
  <2>2. QED
    BY <2>1, UncrossedStep
<1>2. QED
  BY <1>1, UncrossedInit, ControlInvariant, Invariant, PTL DEF Spec

\* "resume data saved mid-preparation restores it still in upload mode": a torrent
\* that libtorrent has in upload mode is one the engine is preparing, after any stop
\* or kill, as long as no two calls on one torrent overlap.
THEOREM UploadPrepared == Spec => []UploadIsPreparing
<1>1. Uncrossed => UploadIsPreparing
  BY DEF Uncrossed, Settled, UploadIsPreparing
<1>2. QED
  BY <1>1, UncrossedInvariant, PTL

-----------------------------------------------------------------------------
\* Between a start and an end Start only gets on with its list, and the session
\* file is not written before it is through.
GetsOn(t) ==
    /\ phase # "down" /\ phase' # "down"
    /\ phase' = "starting" => /\ phase = "starting" /\ sessionFile' = sessionFile
                              /\ loc'[Loop].todo \subseteq loc[Loop].todo
    /\ ToStart(t)' => ToStart(t)
    /\ phase' = "starting" /\ ToStart(t) =>
         ToStart(t)' \/ AddInsert(Loop) \/ (StartAdd(t) /\ pc' = pc)

LEMMA Starting ==
    ASSUME Inv, Control, Shape, Next, ~Start, ~Close, ~Kill, NEW t \in Torrents
    PROVE  GetsOn(t)
<1>0. phase = "down" => \A a \in Actors : pc[a] = "idle"
  BY DEF Control
\* A caller's step.
<1>C. ASSUME NEW c \in Callers, Apart(c), phase' = phase, phase # "down", sessionFile' = sessionFile
      PROVE  GetsOn(t)
  <2>1. pc'[Loop] = pc[Loop] /\ loc'[Loop] = loc[Loop]
    BY <1>C, ActorSets DEF Apart
  <2>2. QED
    BY <1>C, <2>1 DEF GetsOn, ToStart
\* A step when Start is through.
<1>U. ASSUME phase' # "down", phase' # "starting", phase # "down"
      PROVE  GetsOn(t)
  BY <1>U DEF GetsOn, ToStart
<1>1. CASE StartDone \/ Stop
  <2>1. phase' # "down" /\ phase' # "starting" /\ pc[Loop] \in {"start", "idle"}
        /\ (pc[Loop] = "idle" => phase = "up")
    BY <1>1, StartDoneEffect, StopEffect
  <2>2. phase # "down"
    BY <1>0, <2>1, ActorSets
  <2>3. QED
    BY <1>U, <2>1, <2>2
<1>2. ASSUME NEW u \in Torrents, StartAdd(u)
      PROVE  GetsOn(t)
  <2>1. /\ phase' = phase /\ sessionFile' = sessionFile /\ pc[Loop] = "start"
        /\ u \in loc[Loop].todo
        /\ loc'[Loop].todo = loc[Loop].todo \ {u} /\ loc'[Loop].t = u
        /\ pc' = pc \/ pc'[Loop] = "insert"
    BY <1>2, StartAddEffect DEF stored
  <2>2. phase = "starting"
    BY <2>1, LoopPhase
  <2>3. ToStart(t)' => ToStart(t)
    BY <2>1, <2>2 DEF ToStart
  <2>4. ToStart(t) => ToStart(t)' \/ (t = u /\ pc' = pc)
    BY <2>1, <2>2 DEF ToStart
  <2>5. QED
    BY <1>2, <2>1, <2>2, <2>3, <2>4 DEF GetsOn
<1>3. ASSUME NEW a \in Actors, AddInsert(a)
      PROVE  GetsOn(t)
  <2>1. /\ phase' = phase /\ sessionFile' = sessionFile /\ Apart(a) /\ pc[a] = "insert"
        /\ a = Loop /\ ~loc[a].keep => loc'[a] = loc[a] /\ pc'[a] \in {"start", "seed"}
    BY <1>3, InsertEffect DEF stored
  <2>2. phase # "down"
    BY <1>0, <2>1
  <2>3. CASE a = Loop
    <3>1. loc'[Loop] = loc[Loop] /\ pc'[Loop] # "insert"
      BY <2>1, <2>3 DEF Control
    <3>2. ToStart(t)' => ToStart(t)
      BY <2>1, <3>1 DEF ToStart
    <3>3. QED
      BY <1>3, <2>1, <2>2, <2>3, <3>1, <3>2 DEF GetsOn
  <2>4. QED
    BY <1>C, <2>1, <2>2, <2>3, ActorSets
<1>4. ASSUME NEW a \in Actors, Removes(a)
      PROVE  GetsOn(t)
  <2>1. /\ phase' = phase /\ sessionFile' = sessionFile /\ Apart(a)
        /\ pc[a] \in {"drop", "unresume", "untorrent"}
    BY <1>4, RemovesEffect
  <2>2. phase # "down"
    BY <1>0, <2>1
  <2>3. a = Loop => phase = "up"
    BY <2>1, LoopPhase
  <2>4. QED
    BY <1>C, <1>U, <2>1, <2>2, <2>3, ActorSets
<1>5. ASSUME NEW a \in Actors, NEW u \in Torrents, Removal(a, u)
      PROVE  GetsOn(t)
  <2>1. /\ phase' = phase /\ sessionFile' = sessionFile /\ Apart(a) /\ client[u].here
        /\ a = Loop => pc[a] = "seed"
    BY <1>5, RemoveEffect DEF Removal, stored
  <2>2. phase # "down"
    BY <2>1 DEF Control, NoHandle
  <2>3. a = Loop => phase = "up"
    BY <2>1, LoopPhase
  <2>4. QED
    BY <1>C, <1>U, <2>1, <2>2, <2>3, ActorSets
<1>6. ASSUME NEW c \in Callers, NEW u \in Torrents, NEW magnet \in BOOLEAN, NEW paused \in BOOLEAN,
             Add(c, u, magnet, paused)
      PROVE  GetsOn(t)
  <2>1. phase' = phase /\ sessionFile' = sessionFile /\ Apart(c) /\ phase # "down"
    BY <1>6, AddEffect DEF stored
  <2>2. QED
    BY <1>C, <2>1
<1>7. ASSUME NEW c \in Callers, KeepTorrentFile(c)
      PROVE  GetsOn(t)
  <2>1. phase' = phase /\ sessionFile' = sessionFile /\ Apart(c) /\ pc[c] = "keep"
    BY <1>7, KeepEffect
  <2>2. phase # "down"
    BY <1>0, <2>1, ActorSets
  <2>3. QED
    BY <1>C, <2>1, <2>2
<1>8. CASE Tinkering
  <2>1. Tinkers
    BY <1>8, AllTinkers DEF Tinkering
  <2>2. phase' = phase /\ sessionFile' = sessionFile /\ phase # "down" /\ Wanders(Loop)
    BY <2>1, ActorSets DEF Tinkers, stored
  <2>3. phase = "starting" => pc'[Loop] = pc[Loop] /\ loc'[Loop] = loc[Loop]
    BY <2>2, LoopPhase DEF Wanders, LoopMoves
  <2>4. QED
    BY <2>2, <2>3 DEF GetsOn, ToStart
<1>9. CASE SaveAlert
  <2>1. UNCHANGED <<phase, sessionFile, pc, loc>> /\ alerts # <<>>
    BY <1>9, SaveAlertEffect
  <2>2. phase # "down"
    BY <2>1 DEF Control
  <2>3. QED
    BY <2>1, <2>2 DEF GetsOn, ToStart
<1>10. CASE \/ \E u \in Torrents : SaveResume(u)
            \/ FlushSession \/ TruncateSession \/ WriteSession \/ WriteFails
  <2>1. phase' = phase /\ pc[Loop] \in {"save", "flush"} \cup Writing
    BY <1>10, SaveResumeEffect, FlushEffect, WriteEffect
  <2>2. phase \in {"up", "stopping"}
    BY <2>1, LoopPhase
  <2>3. QED
    BY <1>U, <2>1, <2>2
<1>11. QED
  BY <1>1, <1>2, <1>3, <1>4, <1>5, <1>6, <1>7, <1>8, <1>9, <1>10, Steps
-----------------------------------------------------------------------------
(* What the session file lists can be added again *)

Startable(t, e) == HasResume(t) \/ e.magnet \/ torrentFile[t]

\* The engine can add again what it knows, but for a torrent whose file has yet to get
\* its name, and Start what it has yet to add.
Restorable(t) ==
    /\ Known(t) => Startable(t, sessions[t]) \/ \E a \in Actors : At(a, t, {"keep"})
    /\ phase = "down" \/ ToStart(t) => (Listed(t) => Startable(t, sessionFile.list[t]))
    /\ \A c \in Callers : At(c, t, {"insert"}) => loc[c].keep \/ loc[c].entry.magnet

RestartInv ==
    Free({"unkept", "listed", "crossed"}) => \A t \in Torrents : Restorable(t)

\* The step of an actor that removes no file of t and does not insert it.
LEMMA RestorableKept ==
    ASSUME NEW t \in Torrents, Restorable(t), NEW a \in Actors, Apart(a), GetsOn(t),
           HasResume(t) => HasResume(t)', torrentFile[t] => torrentFile'[t],
           sessions'[t].id = 0 \/ (sessions'[t].id = sessions[t].id
                                   /\ sessions'[t].magnet = sessions[t].magnet),
           At(a, t, {"keep"}) => torrentFile'[t],
           At(a, t, {"insert"})' => loc'[a].keep \/ loc'[a].entry.magnet
    PROVE  Restorable(t)'
<1>1. Known(t)' => Startable(t, sessions[t])' \/ (\E b \in Actors : At(b, t, {"keep"}))'
  <2>1. ASSUME Known(t)', NEW b \in Actors, At(b, t, {"keep"})
        PROVE  torrentFile'[t] \/ (\E d \in Actors : At(d, t, {"keep"}))'
    BY <2>1 DEF Apart, At
  <2>2. QED
    BY <2>1 DEF Restorable, Startable, Known
<1>2. (phase = "down" \/ ToStart(t) => (Listed(t) => Startable(t, sessionFile.list[t])))'
  BY DEF Restorable, Startable, GetsOn, ToStart, Listed
<1>3. \A c \in Callers : At(c, t, {"insert"})' => loc'[c].keep \/ loc'[c].entry.magnet
  BY ActorSets DEF Restorable, Apart, At
<1>4. QED
  BY <1>1, <1>2, <1>3 DEF Restorable

LEMMA RestorableRequest ==
    ASSUME Inv, Control, Shape, Uncrossed, "crossed" \notin odd, NEW t \in Torrents, Restorable(t),
           GetsOn(t), NEW a \in Actors,
           \/ AddInsert(a) \/ Removes(a)
           \/ \E u \in Torrents : Removal(a, u)
           \/ a \in Callers /\ \E u \in Torrents, magnet \in BOOLEAN, paused \in BOOLEAN :
                 Add(a, u, magnet, paused)
           \/ a \in Callers /\ KeepTorrentFile(a)
    PROVE  Restorable(t)'
<1>T. TypeOK /\ Settled(t)
  BY DEF Inv, Uncrossed
<1>1. CASE AddInsert(a)
  <2>1. /\ loc[a].t \in Torrents /\ pc[a] = "insert" /\ UNCHANGED stored /\ phase' = phase /\ Apart(a)
        /\ \/ Known(loc[a].t) /\ sessions' = sessions
           \/ ~Known(loc[a].t) /\ sessions' = [sessions EXCEPT ![loc[a].t] = loc[a].entry]
        /\ pc'[a] # "insert"
        /\ loc[a].keep => pc'[a] = "keep" /\ loc'[a] = loc[a]
    BY <1>1, InsertEffect
  <2>2. HasResume(t)' = HasResume(t) /\ torrentFile' = torrentFile /\ sessionFile' = sessionFile
    BY <2>1 DEF stored, HasResume
  <2>3. CASE sessions'[t] = sessions[t]
    <3>1. /\ ~At(a, t, {"keep"}) /\ ~At(a, t, {"insert"})'
      BY <2>1 DEF At
    <3>2. QED
      BY <2>1, <2>2, <2>3, <3>1, RestorableKept
  <2>4. CASE loc[a].t = t /\ sessions'[t] = loc[a].entry
    <3>1. Startable(t, loc[a].entry) \/ (At(a, t, {"keep"}))'
      <4>1. CASE a \in Callers
        BY <2>1, <2>4, <4>1 DEF Restorable, At, Startable
      <4>2. CASE a = Loop
        <5>1. phase = "starting" /\ ToStart(t)
          BY <2>1, <2>4, <4>2, LoopPhase DEF ToStart
        <5>2. Startable(t, sessionFile.list[t])
          BY <5>1 DEF Restorable, Control
        <5>3. loc[a].entry.magnet = sessionFile.list[t].magnet
          BY <2>1, <2>4, <4>2, <5>1 DEF Control
        <5>4. QED
          BY <5>2, <5>3 DEF Startable
      <4>3. QED
        BY <4>1, <4>2, ActorSets
    <3>2. Known(t)' => Startable(t, sessions[t])' \/ (\E b \in Actors : At(b, t, {"keep"}))'
      BY <2>2, <2>4, <3>1 DEF Startable
    <3>3. (phase = "down" \/ ToStart(t) => (Listed(t) => Startable(t, sessionFile.list[t])))'
      BY <2>2 DEF Restorable, Startable, GetsOn, ToStart, Listed
    <3>4. \A c \in Callers : At(c, t, {"insert"})' => loc'[c].keep \/ loc'[c].entry.magnet
      BY <2>1, ActorSets DEF Restorable, Apart, At
    <3>5. QED
      BY <3>2, <3>3, <3>4 DEF Restorable
  <2>5. QED
    BY <1>T, <2>1, <2>3, <2>4 DEF TypeOK
<1>2. CASE Removes(a)
  <2>1. /\ loc[a].t \in Torrents /\ sessionFile' = sessionFile /\ Apart(a)
        /\ pc[a] \in {"drop", "unresume", "untorrent"} /\ pc'[a] # "insert"
        /\ sessions' = sessions \/ sessions' = [sessions EXCEPT ![loc[a].t] = NoEntry]
        /\ \/ UNCHANGED <<resumeFile, torrentFile>>
           \/ /\ pc[a] \in {"unresume", "untorrent"} /\ sessions' = sessions
              /\ \/ resumeFile' = [resumeFile EXCEPT ![loc[a].t] = NoResume] /\ torrentFile' = torrentFile
                 \/ torrentFile' = [torrentFile EXCEPT ![loc[a].t] = FALSE] /\ resumeFile' = resumeFile
    BY <1>2, RemovesEffect
  <2>2. sessions'[t].id = 0 \/ sessions'[t] = sessions[t]
    <3>1. NoEntry.id = 0
      BY DEF NoEntry
    <3>2. QED
      BY <1>T, <2>1, <3>1 DEF TypeOK
  <2>3. ~At(a, t, {"keep"}) /\ ~At(a, t, {"insert"})'
    BY <2>1 DEF At
  <2>4. CASE HasResume(t)' = HasResume(t) /\ torrentFile'[t] = torrentFile[t]
    BY <2>1, <2>2, <2>3, <2>4, RestorableKept
  <2>5. CASE loc[a].t = t /\ pc[a] \in {"unresume", "untorrent"} /\ sessions' = sessions
    <3>1. ~Known(t)'
      BY <1>T, <2>5 DEF Settled, At, Known
    <3>2. ~ToStart(t)
      <4>1. CASE a \in Callers
        BY <1>T, <2>5, <4>1 DEF Settled
      <4>2. CASE a = Loop
        BY <2>5, <4>2, LoopPhase DEF ToStart
      <4>3. QED
        BY <4>1, <4>2, ActorSets
    <3>3. \A c \in Callers : At(c, t, {"insert"})' => loc'[c].keep \/ loc'[c].entry.magnet
      BY <2>1, ActorSets DEF Restorable, Apart, At
    <3>4. QED
      BY <3>1, <3>2, <3>3 DEF Restorable, GetsOn
  <2>6. QED
    BY <1>T, <2>1, <2>4, <2>5 DEF TypeOK, HasResume
<1>3. ASSUME NEW u \in Torrents, Removal(a, u)
      PROVE  Restorable(t)'
  <2>1. UNCHANGED <<sessions, stored>> /\ Apart(a) /\ pc'[a] = "drop" /\ pc[a] \in {"idle", "seed"}
    BY <1>3, RemoveEffect DEF Removal
  <2>2. ~At(a, t, {"keep"}) /\ ~At(a, t, {"insert"})'
    BY <2>1 DEF At
  <2>3. QED
    BY <2>1, <2>2, RestorableKept DEF stored, HasResume
<1>4. ASSUME a \in Callers, NEW u \in Torrents, NEW magnet \in BOOLEAN, NEW paused \in BOOLEAN,
             Add(a, u, magnet, paused)
      PROVE  Restorable(t)'
  <2>1. /\ UNCHANGED <<sessions, stored>> /\ Apart(a) /\ pc[a] = "idle"
        /\ loc'[a].keep = ~magnet /\ loc'[a].entry.magnet = magnet
    BY <1>4, AddEffect
  <2>2. ~At(a, t, {"keep"})
    BY <2>1 DEF At
  <2>3. QED
    BY <2>1, <2>2, RestorableKept DEF stored, HasResume
<1>5. CASE a \in Callers /\ KeepTorrentFile(a)
  <2>1. /\ loc[a].t \in Torrents /\ UNCHANGED <<sessions, resumeFile>> /\ Apart(a) /\ pc'[a] = "idle"
        /\ torrentFile' = [torrentFile EXCEPT ![loc[a].t] = TRUE]
    BY <1>5, KeepEffect
  <2>2. /\ torrentFile[t] => torrentFile'[t]
        /\ loc[a].t = t => torrentFile'[t]
    BY <1>T, <2>1 DEF TypeOK
  <2>3. /\ At(a, t, {"keep"}) => torrentFile'[t]
        /\ ~At(a, t, {"insert"})'
    BY <2>1, <2>2 DEF At
  <2>4. QED
    BY <2>1, <2>2, <2>3, RestorableKept DEF HasResume
<1>6. QED
  BY <1>1, <1>2, <1>3, <1>4, <1>5

LEMMA RestorableRest ==
    ASSUME Inv, Control, Shape, NEW t \in Torrents, Restorable(t), GetsOn(t),
           \/ StartDone \/ Stop \/ \E u \in Torrents : StartAdd(u) \/ SaveResume(u)
           \/ Tinkering \/ SaveAlert
           \/ FlushSession \/ TruncateSession \/ WriteSession \/ WriteFails
    PROVE  Restorable(t)'
<1>T. TypeOK
  BY DEF Inv
<1>1. CASE Tinkering
  <2>1. Tinkers
    BY <1>1, AllTinkers DEF Tinkering
  <2>2. UNCHANGED stored /\ Tinkered(t) /\ \A a \in Actors : Wanders(a)
    BY <2>1 DEF Tinkers
  <2>3. \A a \in Actors : pc[a] \in {"keep", "insert"} \/ pc'[a] \in {"keep", "insert"}
                            => pc'[a] = pc[a] /\ loc'[a] = loc[a]
    BY <2>2 DEF Wanders, LoopMoves
  <2>4. sessions'[t].id = sessions[t].id /\ sessions'[t].magnet = sessions[t].magnet
    BY <2>2 DEF Tinkered
  <2>5. HasResume(t)' = HasResume(t) /\ torrentFile' = torrentFile /\ sessionFile' = sessionFile
    BY <2>2 DEF stored, HasResume
  <2>6. (Known(t) => Startable(t, sessions[t]) \/ \E a \in Actors : At(a, t, {"keep"}))'
    <3>1. \A a \in Actors : At(a, t, {"keep"}) => At(a, t, {"keep"})'
      BY <2>3 DEF At
    <3>2. QED
      BY <2>4, <2>5, <3>1 DEF Restorable, Startable, Known
  <2>7. (phase = "down" \/ ToStart(t) => (Listed(t) => Startable(t, sessionFile.list[t])))'
    BY <2>5 DEF Restorable, Startable, GetsOn, Listed
  <2>8. \A c \in Callers : At(c, t, {"insert"})' => loc'[c].keep \/ loc'[c].entry.magnet
    BY <2>3, ActorSets DEF Restorable, At
  <2>9. QED
    BY <2>6, <2>7, <2>8 DEF Restorable
<1>2. CASE SaveAlert
  <2>1. /\ UNCHANGED <<sessions, torrentFile, sessionFile, pc, loc>>
        /\ Head(alerts) = alerts[1] /\ alerts # <<>>
        /\ resumeFile' \in {resumeFile, [resumeFile EXCEPT ![Head(alerts).t] = Head(alerts).data]}
    BY <1>2, SaveAlertEffect
  <2>2. Head(alerts).data.id # 0
    BY <1>T, <2>1 DEF Shape, TypeOK
  <2>3. HasResume(t) => HasResume(t)'
    BY <1>T, <2>1, <2>2 DEF HasResume, TypeOK
  <2>4. QED
    BY <2>1, <2>3 DEF Restorable, GetsOn, Known, Startable, At, ToStart, Listed
<1>3. CASE \/ StartDone \/ Stop \/ \E u \in Torrents : SaveResume(u)
           \/ FlushSession \/ TruncateSession \/ WriteSession \/ WriteFails
  <2>1. /\ UNCHANGED <<sessions, resumeFile, torrentFile>> /\ Apart(Loop)
        /\ pc'[Loop] # "insert" /\ pc[Loop] # "keep"
    BY <1>3, StartDoneEffect, StopEffect, SaveResumeEffect, FlushEffect, WriteEffect
       DEF Flushed, stored, Writing
  <2>2. ~At(Loop, t, {"keep"}) /\ ~At(Loop, t, {"insert"})'
    BY <2>1 DEF At
  <2>3. QED
    BY <2>1, <2>2, RestorableKept, ActorSets DEF HasResume
<1>4. ASSUME NEW u \in Torrents, StartAdd(u)
      PROVE  Restorable(t)'
  <2>1. UNCHANGED <<sessions, stored>> /\ Apart(Loop) /\ pc[Loop] = "start"
    BY <1>4, StartAddEffect
  <2>2. /\ Known(t)' = Known(t) /\ Startable(t, sessions[t])' = Startable(t, sessions[t])
        /\ Startable(t, sessionFile.list[t])' = Startable(t, sessionFile.list[t])
        /\ Listed(t)' = Listed(t)
    BY <2>1 DEF stored, Known, Startable, HasResume, Listed
  <2>3. \A a \in Actors : At(a, t, {"keep"}) => At(a, t, {"keep"})'
    BY <2>1, ActorSets DEF Apart, At
  <2>4. \A c \in Callers : At(c, t, {"insert"})' => At(c, t, {"insert"}) /\ loc'[c] = loc[c]
    BY <2>1, ActorSets DEF Apart, At
  <2>5. QED
    BY <2>2, <2>3, <2>4 DEF Restorable, GetsOn
<1>5. QED
  BY <1>1, <1>2, <1>3, <1>4

LEMMA RestartStep ==
    ASSUME Inv, Control, Shape, Magnets, Uncrossed, RestartInv, Next
    PROVE  RestartInv'
<1> SUFFICES ASSUME Free({"unkept", "listed", "crossed"})', NEW t \in Torrents
             PROVE  Restorable(t)'
  BY DEF RestartInv
<1>0. Restorable(t) /\ "crossed" \notin odd /\ {"unkept", "listed", "crossed"} \cap odd' = {}
  BY OddGrows DEF RestartInv, Free
<1>1. CASE Start
  <2>1. /\ phase = "down" /\ phase' = "starting" /\ UNCHANGED <<sessions, stored>>
        /\ Apart(Loop) /\ pc'[Loop] = "start"
    BY <1>1, StartEffect
  <2>2. \A a \in Actors : pc'[a] # "insert"
    BY <2>1 DEF Control, Apart
  <2>3. ~Known(t)'
    BY <2>1 DEF Control, Known, NoEntries, NoEntry
  <2>4. Listed(t)' => Startable(t, sessionFile.list[t])'
    BY <1>0, <2>1 DEF Restorable, Listed, Startable, HasResume, stored
  <2>5. QED
    BY <2>2, <2>3, <2>4, ActorSets DEF Restorable, At
<1>2. CASE Close \/ Kill
  <2>1. /\ Down /\ UNCHANGED stored
        /\ \A a \in Actors : pc[a] # "keep"
        /\ Listed(t) => sessionFile.list[t].id = sessions[t].id \/ ToStart(t)
    BY <1>0, <1>2, EndEffect
  <2>2. ~Known(t)' /\ \A a \in Actors : pc'[a] # "insert"
    BY <2>1 DEF Down, Known, NoEntries, NoEntry
  <2>3. Listed(t) => Startable(t, sessionFile.list[t])
    <3>1. CASE ToStart(t)
      BY <1>0, <3>1 DEF Restorable
    <3>2. ASSUME Listed(t), sessionFile.list[t].id = sessions[t].id
          PROVE  Startable(t, sessionFile.list[t])
      <4>1. Startable(t, sessions[t])
        BY <1>0, <2>1, <3>2 DEF Restorable, Known, Listed, At
      <4>2. sessionFile.list[t].magnet = sessions[t].magnet
        BY <3>2 DEF Magnets, EntriesOf
      <4>3. QED
        BY <4>1, <4>2 DEF Startable
    <3>3. QED
      BY <2>1, <3>1, <3>2
  <2>4. Listed(t)' => Startable(t, sessionFile.list[t])'
    BY <2>1, <2>3 DEF Listed, Startable, HasResume, stored
  <2>5. QED
    BY <2>2, <2>4, ActorSets DEF Restorable, At
<1>3. CASE ~Start /\ ~Close /\ ~Kill
  <2>1. GetsOn(t)
    BY <1>3, Starting
  <2>2. CASE \E a \in Actors :
                \/ AddInsert(a) \/ Removes(a)
                \/ \E u \in Torrents : Removal(a, u)
                \/ a \in Callers /\ \E u \in Torrents, magnet \in BOOLEAN, paused \in BOOLEAN :
                      Add(a, u, magnet, paused)
                \/ a \in Callers /\ KeepTorrentFile(a)
    BY <1>0, <2>1, <2>2, RestorableRequest
  <2>3. CASE \/ StartDone \/ Stop \/ \E u \in Torrents : StartAdd(u) \/ SaveResume(u)
             \/ Tinkering \/ SaveAlert
             \/ FlushSession \/ TruncateSession \/ WriteSession \/ WriteFails
    BY <1>0, <2>1, <2>3, RestorableRest
  <2>4. QED
    BY <1>3, <2>2, <2>3, Steps, ActorSets
<1>4. QED
  BY <1>1, <1>2, <1>3

LEMMA RestartInit == Init => RestartInv
<1> SUFFICES ASSUME Init, NEW t \in Torrents PROVE Restorable(t)
  BY DEF RestartInv
<1>1. ~Known(t) /\ ~Listed(t)
  BY DEF Init, NoEntries, NoEntry, Known, Listed
<1>2. \A c \in Callers : pc[c] = "idle"
  BY ActorSets DEF Init
<1>3. QED
  BY <1>1, <1>2 DEF Restorable, At

LEMMA RestartInvariant == Spec => []RestartInv
<1>1. Inv /\ Control /\ Shape /\ Magnets /\ Uncrossed /\ RestartInv /\ [Next]_vars => RestartInv'
  <2>1. CASE UNCHANGED vars
    BY <2>1 DEF vars, RestartInv, Restorable, Startable, HasResume, Known, Listed, At, ToStart, Free
  <2>2. QED
    BY <2>1, RestartStep
<1>2. QED
  BY <1>1, RestartInit, UncrossedInvariant, MagnetsInvariant, ControlInvariant, Invariant,
     PTL DEF Spec

\* "to add the torrent again after a restart that comes before libtorrent has saved
\* resume data for it": while the program is down every torrent of the session file
\* has resume data, a magnet or a .torrent file, but for a kill that came before the
\* .torrent file had its name or within a removal, and two calls at once on one torrent.
THEOREM RestartPossible == Spec => []Restartable
<1>1. RestartInv => Restartable
  BY DEF RestartInv, Restartable, Restorable, Startable, Free
<1>2. QED
  BY <1>1, RestartInvariant, PTL

-----------------------------------------------------------------------------
(* Whose resume data it is *)

\* Start has yet to get to t.
Waits(t) == phase = "starting" /\ t \in loc[Loop].todo

\* Resume data is of the torrent the client has, or is about to be removed; of one that
\* Start has yet to add it is of the entry of the session file.
Owned(t) ==
    HasResume(t) =>
        IF phase = "down" \/ Waits(t)
        THEN Listed(t) /\ sessionFile.list[t].id = resumeFile[t].id
        ELSE resumeFile[t].id = client[t].data.id \/ \E a \in Actors : At(a, t, {"drop", "unresume"})

OwnInv == Free({"stale", "crossed"}) => \A t \in Torrents : Owned(t)

LEMMA OwnedKept ==
    ASSUME NEW t \in Torrents, Owned(t), GetsOn(t),
           resumeFile'[t] = resumeFile[t], client'[t].data.id = client[t].data.id,
           \A a \in Actors : At(a, t, {"drop", "unresume"}) => At(a, t, {"drop", "unresume"})',
           Waits(t) => Waits(t)'
    PROVE  Owned(t)'
BY DEF Owned, GetsOn, Waits, HasResume, Listed

LEMMA OwnedRequest ==
    ASSUME Inv, Control, Shape, NEW t \in Torrents, Settled(t), Owned(t),
           "crossed" \notin odd', GetsOn(t), NEW a \in Actors,
           \/ AddInsert(a) \/ Removes(a)
           \/ \E u \in Torrents : Removal(a, u)
           \/ a \in Callers /\ \E u \in Torrents, magnet \in BOOLEAN, paused \in BOOLEAN :
                 Add(a, u, magnet, paused)
           \/ a \in Callers /\ KeepTorrentFile(a)
    PROVE  Owned(t)'
<1>T. TypeOK
  BY DEF Inv
\* A step that neither begins nor ends the removal of t's resume data.
<1>K. ASSUME Apart(a), phase' = phase, resumeFile'[t] = resumeFile[t],
             client'[t].data.id = client[t].data.id,
             At(a, t, {"drop", "unresume"}) => At(a, t, {"drop", "unresume"})',
             a = Loop /\ phase = "starting" => loc'[a] = loc[a]
      PROVE  Owned(t)'
  <2>1. \A b \in Actors : At(b, t, {"drop", "unresume"}) => At(b, t, {"drop", "unresume"})'
    BY <1>K DEF Apart, At
  <2>2. Waits(t) => Waits(t)'
    BY <1>K, ActorSets DEF Apart, Waits
  <2>3. QED
    BY <1>K, <2>1, <2>2, OwnedKept
<1>1. CASE AddInsert(a)
  <2>1. /\ pc[a] = "insert" /\ UNCHANGED <<phase, client, stored>> /\ Apart(a)
        /\ loc[a].keep \/ a # Loop \/ loc'[a] = loc[a]
    BY <1>1, InsertEffect
  <2>2. ~At(a, t, {"drop", "unresume"})
    BY <2>1 DEF At
  <2>3. a = Loop => loc'[a] = loc[a]
    BY <2>1 DEF Control
  <2>4. QED
    BY <1>K, <2>1, <2>2, <2>3 DEF stored
<1>2. CASE Removes(a)
  <2>1. /\ loc[a].t \in Torrents /\ UNCHANGED <<phase, client>> /\ Apart(a)
        /\ a = Loop => loc'[a] = loc[a]
        /\ \/ pc[a] = "drop" /\ pc'[a] = "unresume" /\ loc'[a] = loc[a] /\ resumeFile' = resumeFile
           \/ pc[a] = "unresume" /\ resumeFile' = [resumeFile EXCEPT ![loc[a].t] = NoResume]
           \/ pc[a] = "untorrent" /\ resumeFile' = resumeFile
    BY <1>2, RemovesEffect
  <2>2. CASE pc[a] = "unresume" /\ loc[a].t = t
    <3>1. resumeFile'[t] = NoResume
      BY <1>T, <2>1, <2>2 DEF TypeOK
    <3>2. QED
      BY <3>1 DEF Owned, HasResume, NoResume
  <2>3. CASE ~(pc[a] = "unresume" /\ loc[a].t = t)
    <3>1. resumeFile'[t] = resumeFile[t]
      BY <1>T, <2>1, <2>3 DEF TypeOK
    <3>2. At(a, t, {"drop", "unresume"}) => At(a, t, {"drop", "unresume"})'
      BY <2>1, <2>3 DEF At
    <3>3. QED
      BY <1>K, <2>1, <3>1, <3>2
  <2>4. QED
    BY <2>2, <2>3
<1>3. ASSUME NEW u \in Torrents, Removal(a, u)
      PROVE  Owned(t)'
  <2>1. /\ UNCHANGED <<phase, stored>> /\ Apart(a) /\ pc'[a] = "drop" /\ loc'[a].t = u
        /\ client' = [client EXCEPT ![u] = NoHandle] /\ client[u].here
        /\ pc[a] = IF a = Loop THEN "seed" ELSE "idle"
    BY <1>3, RemoveEffect DEF Removal
  <2>2. a = Loop => phase # "starting"
    BY <2>1, LoopPhase
  <2>3. CASE u # t
    <3>1. client'[t] = client[t]
      BY <1>T, <2>1, <2>3 DEF TypeOK
    <3>2. ~At(a, t, {"drop", "unresume"})
      BY <2>1 DEF At
    <3>3. QED
      BY <1>K, <2>1, <2>2, <3>1, <3>2 DEF stored
  <2>4. CASE u = t
    <3>1. At(a, t, {"drop", "unresume"})'
      BY <2>1, <2>4 DEF At
    <3>2. ~Waits(t)'
      BY <2>1, <2>2, <2>4, ActorSets DEF Waits, Settled, Apart
    <3>3. QED
      BY <3>1, <3>2 DEF Owned, GetsOn
  <2>5. QED
    BY <2>3, <2>4
<1>4. ASSUME a \in Callers, NEW u \in Torrents, NEW magnet \in BOOLEAN, NEW paused \in BOOLEAN,
             Add(a, u, magnet, paused)
      PROVE  Owned(t)'
  <2>1. /\ UNCHANGED <<phase, stored>> /\ Apart(a) /\ pc[a] = "idle" /\ Noted(a, u) /\ a # Loop
        /\ t # u \/ client[t].here => client'[t] = client[t]
    BY <1>4, AddEffect, ActorSets
  <2>2. ~At(a, t, {"drop", "unresume"})
    BY <2>1 DEF At
  <2>3. CASE client'[t] = client[t]
    BY <1>K, <2>1, <2>2, <2>3 DEF stored
  <2>4. CASE t = u /\ ~client[t].here
    <3>1. client[t].data.id = 0
      BY <2>4 DEF Shape, HandleShape
    <3>2. \A b \in Actors : ~At(b, t, {"drop", "unresume"})
      BY <2>1, <2>2, <2>4 DEF Noted, At, Busy
    <3>3. ~Waits(t) /\ phase # "down"
      BY <2>1, <2>4 DEF Noted, Waits, GetsOn
    <3>4. ~HasResume(t)
      BY <3>1, <3>2, <3>3 DEF Owned, HasResume
    <3>5. QED
      BY <2>1, <3>4 DEF Owned, HasResume, stored
  <2>5. QED
    BY <2>1, <2>3, <2>4
<1>5. CASE a \in Callers /\ KeepTorrentFile(a)
  <2>1. UNCHANGED <<phase, client, resumeFile>> /\ Apart(a) /\ pc[a] = "keep" /\ a # Loop
    BY <1>5, KeepEffect, ActorSets
  <2>2. ~At(a, t, {"drop", "unresume"})
    BY <2>1 DEF At
  <2>3. QED
    BY <1>K, <2>1, <2>2
<1>6. QED
  BY <1>1, <1>2, <1>3, <1>4, <1>5

LEMMA OwnedStartAdd ==
    ASSUME Inv, Control, Shape, NEW t \in Torrents, Owned(t),
           "crossed" \notin odd', GetsOn(t), NEW u \in Torrents, StartAdd(u)
    PROVE  Owned(t)'
<1>1. /\ u \in loc[Loop].todo /\ pc[Loop] = "start" /\ UNCHANGED <<phase, stored>> /\ Apart(Loop)
      /\ loc'[Loop].todo = loc[Loop].todo \ {u} /\ ~client[u].here
      /\ u # t => client'[t] = client[t]
      /\ \/ /\ HasResume(u) => client'[u] = [here |-> TRUE, unsaved |-> FALSE, data |-> resumeFile[u]]
         \/ ~HasResume(u)
  BY StartAddEffect
<1>2. phase = "starting"
  BY <1>1, LoopPhase
<1>3. CASE u # t
  <2>1. \A a \in Actors : At(a, t, {"drop", "unresume"}) => At(a, t, {"drop", "unresume"})'
    BY <1>1, ActorSets DEF Apart, At
  <2>2. Waits(t) => Waits(t)'
    BY <1>1, <1>3 DEF Waits
  <2>3. QED
    BY <1>1, <1>3, <2>1, <2>2, OwnedKept DEF stored
<1>4. CASE u = t
  <2>1. HasResume(t) => resumeFile'[t].id = client'[t].data.id
    BY <1>1, <1>4 DEF stored
  <2>2. ~Waits(t)' /\ (HasResume(t)' => HasResume(t))
    BY <1>1, <1>4 DEF Waits, stored, HasResume
  <2>3. QED
    BY <2>1, <2>2 DEF Owned, GetsOn
<1>5. QED
  BY <1>3, <1>4

LEMMA OwnedRest ==
    ASSUME Inv, Control, Shape, NEW t \in Torrents, Owned(t), "stale" \notin odd', GetsOn(t),
           \/ StartDone \/ Stop \/ \E u \in Torrents : SaveResume(u)
           \/ Tinkering \/ SaveAlert
           \/ FlushSession \/ TruncateSession \/ WriteSession \/ WriteFails
    PROVE  Owned(t)'
<1>T. TypeOK
  BY DEF Inv
<1>1. CASE Tinkering
  <2>1. Tinkers
    BY <1>1, AllTinkers DEF Tinkering
  <2>2. UNCHANGED <<phase, stored>> /\ Tinkered(t) /\ \A a \in Actors : Wanders(a)
    BY <2>1 DEF Tinkers
  <2>3. \A a \in Actors : pc[a] \in {"drop", "unresume"} => pc'[a] = pc[a] /\ loc'[a] = loc[a]
    BY <2>2 DEF Wanders, LoopMoves
  <2>4. \A a \in Actors : At(a, t, {"drop", "unresume"}) => At(a, t, {"drop", "unresume"})'
    BY <2>3 DEF At
  <2>5. Waits(t) => Waits(t)'
    BY <2>2, ActorSets, LoopPhase DEF Waits, Wanders, LoopMoves
  <2>6. client'[t].data.id = client[t].data.id /\ resumeFile' = resumeFile
    BY <2>2 DEF Tinkered, stored
  <2>7. QED
    BY <2>4, <2>5, <2>6, OwnedKept
<1>2. CASE SaveAlert
  <2> DEFINE al == Head(alerts)
  <2>1. /\ UNCHANGED <<phase, client, pc, loc>> /\ alerts # <<>> /\ al \in Alert
        /\ \/ /\ resumeFile' = [resumeFile EXCEPT ![al.t] = al.data]
              /\ \/ client[al.t].data.id = al.data.id
                 \/ \E b \in Actors : At(b, al.t, {"drop", "unresume"})
           \/ resumeFile' = resumeFile
    BY <1>2, SaveAlertEffect
  <2> HIDE DEF al
  <2>2. phase # "down" /\ ~Waits(t)
    BY <2>1 DEF Control, Waits
  <2>3. CASE resumeFile'[t] = resumeFile[t]
    BY <2>1, <2>3, OwnedKept DEF At, Waits
  <2>4. CASE /\ al.t = t /\ resumeFile'[t] = al.data
             /\ client[t].data.id = al.data.id \/ \E b \in Actors : At(b, t, {"drop", "unresume"})
    BY <2>1, <2>2, <2>4 DEF Owned, At, Waits
  <2>5. QED
    BY <1>T, <2>1, <2>3, <2>4 DEF TypeOK
<1>3. CASE \/ StartDone \/ Stop \/ \E u \in Torrents : SaveResume(u)
           \/ FlushSession \/ TruncateSession \/ WriteSession \/ WriteFails
  <2>1. /\ UNCHANGED resumeFile /\ Apart(Loop) /\ client'[t].data = client[t].data
        /\ pc[Loop] \in {"start", "idle", "save", "flush"} \cup Writing
        /\ pc[Loop] = "start" => loc[Loop].todo = {}
    BY <1>3, StartDoneEffect, StopEffect, SaveResumeEffect, FlushEffect, WriteEffect
       DEF stored, Writing
  <2>2. \A a \in Actors : At(a, t, {"drop", "unresume"}) => At(a, t, {"drop", "unresume"})'
    BY <2>1 DEF At, Apart, Writing
  <2>3. ~Waits(t)
    BY <2>1, LoopPhase DEF Waits, Writing
  <2>4. QED
    BY <2>1, <2>2, <2>3, OwnedKept
<1>4. QED
  BY <1>1, <1>2, <1>3

LEMMA OwnStep ==
    ASSUME Inv, Control, Shape, Uncrossed, OwnInv, Next
    PROVE  OwnInv'
<1> SUFFICES ASSUME Free({"stale", "crossed"})', NEW t \in Torrents
             PROVE  Owned(t)'
  BY DEF OwnInv
<1>0. Owned(t) /\ Settled(t) /\ "crossed" \notin odd' /\ "stale" \notin odd'
  BY OddGrows DEF OwnInv, Free, Uncrossed
<1>1. CASE Start
  <2>1. /\ phase = "down" /\ phase' = "starting" /\ UNCHANGED stored
        /\ loc'[Loop].todo = {u \in Torrents : Listed(u)}
    BY <1>1, StartEffect
  <2>2. QED
    BY <1>0, <2>1 DEF Owned, Waits, HasResume, Listed, stored
<1>2. CASE Close \/ Kill
  <2>1. /\ Down /\ UNCHANGED stored
        /\ HasResume(t) => sessionFile.list[t].id = resumeFile[t].id
    BY <1>0, <1>2, EndEffect
  <2>2. HasResume(t) => Listed(t)
    BY <2>1 DEF HasResume, Listed, Shape, NoEntries, NoEntry
  <2>3. QED
    BY <2>1, <2>2 DEF Owned, HasResume, Listed, stored, Down
<1>3. CASE ~Start /\ ~Close /\ ~Kill
  <2>1. GetsOn(t)
    BY <1>3, Starting
  <2>2. CASE \E a \in Actors :
                \/ AddInsert(a) \/ Removes(a)
                \/ \E u \in Torrents : Removal(a, u)
                \/ a \in Callers /\ \E u \in Torrents, magnet \in BOOLEAN, paused \in BOOLEAN :
                      Add(a, u, magnet, paused)
                \/ a \in Callers /\ KeepTorrentFile(a)
    BY <1>0, <2>1, <2>2, OwnedRequest
  <2>3. CASE \E u \in Torrents : StartAdd(u)
    BY <1>0, <2>1, <2>3, OwnedStartAdd
  <2>4. CASE \/ StartDone \/ Stop \/ \E u \in Torrents : SaveResume(u)
             \/ Tinkering \/ SaveAlert
             \/ FlushSession \/ TruncateSession \/ WriteSession \/ WriteFails
    BY <1>0, <2>1, <2>4, OwnedRest
  <2>5. QED
    BY <1>3, <2>2, <2>3, <2>4, Steps, ActorSets
<1>4. QED
  BY <1>1, <1>2, <1>3

LEMMA OwnInit == Init => OwnInv
BY DEF Init, OwnInv, Owned, HasResume, NoResume

LEMMA OwnInvariant == Spec => []OwnInv
<1>1. Inv /\ Control /\ Shape /\ Uncrossed /\ OwnInv /\ [Next]_vars => OwnInv'
  <2>1. CASE UNCHANGED vars
    BY <2>1 DEF vars, OwnInv, Owned, Waits, HasResume, Listed, At, Free
  <2>2. QED
    BY <2>1, OwnStep
<1>2. QED
  BY <1>1, OwnInit, UncrossedInvariant, ControlInvariant, Invariant, PTL DEF Spec

\* Remove takes the resume data of its torrent with it: a torrent that is added again
\* never runs on what was saved of the one before, but for alerts that came after the
\* removal and kills within it.
THEOREM ResumeOwned == Spec => []OwnResume
<1>1. OwnInv => OwnResume
  BY DEF OwnInv, OwnResume, Owned, Waits, At, Free
<1>2. QED
  BY <1>1, OwnInvariant, PTL

-----------------------------------------------------------------------------
(* What the session file lacks *)

\* Nobody knows t: what the session file lists of it cannot be added.
Lost(t) ==
    /\ ~Known(t)
    /\ \A a \in Actors : ~At(a, t, Busy \ {"insert"})
    /\ Startable(t, sessionFile.list[t]) => \E a \in Actors : At(a, t, {"insert"})

Skipped(t) == ~Free({"unkept", "listed"}) /\ ("stale" \in odd \/ Lost(t))

\* Without dirty the session file, or what is being written to it, has the entries of
\* sessions, but for those that Start has yet to add or could not add.
InFile(t) ==
    /\ phase = "starting" => (Listed(t) => ToStart(t) \/ Skipped(t))
    /\ phase \in {"up", "stopping"} =>
         IF pc[Loop] \in Writing THEN loc[Loop].list[t] = Saved(sessions[t])
         ELSE sessionFile.list[t] = Saved(sessions[t]) \/ Skipped(t)

DirtyInv == Free({"failed", "crossed"}) /\ ~dirty => \A t \in Torrents : InFile(t)

\* The step of an actor that does nothing to t but ask for its insertion.
LEMMA LostKept ==
    ASSUME NEW t \in Torrents, Lost(t), NEW a \in Actors, Apart(a), ~Known(t)',
           Startable(t, sessionFile.list[t])' => Startable(t, sessionFile.list[t]),
           ~At(a, t, Busy \ {"insert"})', ~At(a, t, {"insert"})
    PROVE  Lost(t)'
<1>1. \A b \in Actors : ~At(b, t, Busy \ {"insert"})'
  BY DEF Lost, Apart, At
<1>2. \A b \in Actors : At(b, t, {"insert"}) => At(b, t, {"insert"})'
  BY DEF Apart, At
<1>3. QED
  BY <1>1, <1>2 DEF Lost

LEMMA LostRequest ==
    ASSUME Inv, Control, Shape, NEW t \in Torrents, Settled(t), Lost(t),
           "crossed" \notin odd', ~dirty', NEW a \in Actors,
           \/ AddInsert(a) \/ Removes(a)
           \/ \E u \in Torrents : Removal(a, u)
           \/ a \in Callers /\ \E u \in Torrents, magnet \in BOOLEAN, paused \in BOOLEAN :
                 Add(a, u, magnet, paused)
           \/ a \in Callers /\ KeepTorrentFile(a)
    PROVE  Lost(t)'
<1>T. TypeOK
  BY DEF Inv
<1>1. CASE AddInsert(a)
  <2>1. /\ pc[a] = "insert" /\ UNCHANGED stored /\ Apart(a) /\ sessions' = sessions
        /\ Known(loc[a].t) /\ pc'[a] \in {"keep", "idle", "start", "seed"}
        /\ pc'[a] = "keep" => loc'[a] = loc[a]
    BY <1>1, InsertEffect
  <2>2. loc[a].t # t
    BY <2>1 DEF Lost
  <2>3. ~At(a, t, Busy \ {"insert"})' /\ ~At(a, t, {"insert"})
    BY <2>1, <2>2 DEF At, Busy
  <2>4. QED
    BY <2>1, <2>3, LostKept DEF Lost, Known, Startable, HasResume, stored
<1>2. CASE Removes(a)
  <2>1. /\ loc[a].t \in Torrents /\ sessionFile' = sessionFile /\ Apart(a) /\ sessions' = sessions
        /\ pc[a] \in {"unresume", "untorrent"}
        /\ pc'[a] \in {"untorrent", "idle", "start", "seed"}
        /\ pc'[a] = "untorrent" => loc'[a] = loc[a]
        /\ \/ resumeFile' = [resumeFile EXCEPT ![loc[a].t] = NoResume] /\ torrentFile' = torrentFile
           \/ torrentFile' = [torrentFile EXCEPT ![loc[a].t] = FALSE] /\ resumeFile' = resumeFile
    BY <1>2, RemovesEffect
  <2>2. loc[a].t # t
    BY <2>1 DEF Lost, At, Busy
  <2>3. resumeFile'[t] = resumeFile[t] /\ torrentFile'[t] = torrentFile[t]
    BY <1>T, <2>1, <2>2 DEF TypeOK
  <2>4. ~At(a, t, Busy \ {"insert"})' /\ ~At(a, t, {"insert"})
    BY <2>1, <2>2 DEF At, Busy
  <2>5. QED
    BY <2>1, <2>3, <2>4, LostKept DEF Lost, Known, Startable, HasResume
<1>3. ASSUME NEW u \in Torrents, Removal(a, u)
      PROVE  Lost(t)'
  <2>1. /\ UNCHANGED <<sessions, stored>> /\ Apart(a) /\ pc'[a] = "drop" /\ loc'[a].t = u
        /\ client[u].here /\ Noted(a, u) /\ pc[a] \in {"idle", "seed"}
    BY <1>3, RemoveEffect DEF Removal
  <2>2. u # t
    <3>1. SUFFICES ASSUME u = t PROVE FALSE
      OBVIOUS
    <3>2. PICK b \in Actors : At(b, t, {"insert"})
      BY <2>1, <3>1 DEF Settled, Lost
    <3>3. b # a
      BY <2>1, <3>2 DEF At
    <3>4. QED
      BY <2>1, <3>1, <3>2, <3>3 DEF Noted, At, Busy
  <2>3. ~At(a, t, Busy \ {"insert"})' /\ ~At(a, t, {"insert"})
    BY <2>1, <2>2 DEF At
  <2>4. QED
    BY <2>1, <2>3, LostKept DEF Lost, Known, Startable, HasResume, stored
<1>4. ASSUME a \in Callers, NEW u \in Torrents, NEW magnet \in BOOLEAN, NEW paused \in BOOLEAN,
             Add(a, u, magnet, paused)
      PROVE  Lost(t)'
  <2>1. UNCHANGED <<sessions, stored>> /\ Apart(a) /\ pc'[a] = "insert" /\ pc[a] = "idle"
    BY <1>4, AddEffect
  <2>2. ~At(a, t, Busy \ {"insert"})' /\ ~At(a, t, {"insert"})
    BY <2>1 DEF At
  <2>3. QED
    BY <2>1, <2>2, LostKept DEF Lost, Known, Startable, HasResume, stored
<1>5. CASE a \in Callers /\ KeepTorrentFile(a)
  <2>1. /\ loc[a].t \in Torrents /\ UNCHANGED <<sessions, resumeFile, sessionFile>> /\ Apart(a)
        /\ pc'[a] = "idle" /\ pc[a] = "keep"
        /\ torrentFile' = [torrentFile EXCEPT ![loc[a].t] = TRUE]
    BY <1>5, KeepEffect
  <2>2. loc[a].t # t
    BY <2>1 DEF Lost, At, Busy
  <2>3. torrentFile'[t] = torrentFile[t]
    BY <1>T, <2>1, <2>2 DEF TypeOK
  <2>4. ~At(a, t, Busy \ {"insert"})' /\ ~At(a, t, {"insert"})
    BY <2>1, <2>2 DEF At, Busy
  <2>5. QED
    BY <2>1, <2>3, <2>4, LostKept DEF Lost, Known, Startable, HasResume
<1>6. QED
  BY <1>1, <1>2, <1>3, <1>4, <1>5

LEMMA LostRest ==
    ASSUME Inv, Control, Shape, NEW t \in Torrents, Settled(t), Lost(t), "stale" \notin odd',
           sessionFile' = sessionFile,
           \/ StartDone \/ Stop \/ \E u \in Torrents : StartAdd(u) \/ SaveResume(u)
           \/ Tinkering \/ SaveAlert
           \/ FlushSession \/ TruncateSession \/ WriteSession \/ WriteFails
    PROVE  Lost(t)'
<1>T. TypeOK
  BY DEF Inv
<1>1. CASE Tinkering
  <2>1. Tinkers
    BY <1>1, AllTinkers DEF Tinkering
  <2>2. UNCHANGED stored /\ Tinkered(t) /\ \A a \in Actors : Wanders(a)
    BY <2>1 DEF Tinkers
  <2>3. \A a \in Actors : pc[a] \in Busy \/ pc'[a] \in Busy => pc'[a] = pc[a] /\ loc'[a] = loc[a]
    BY <2>2 DEF Wanders, LoopMoves, Busy
  <2>4. ~Known(t)'
    BY <2>2 DEF Tinkered, Lost, Known
  <2>5. /\ \A a \in Actors : ~At(a, t, Busy \ {"insert"})'
        /\ \A a \in Actors : At(a, t, {"insert"}) => At(a, t, {"insert"})'
    BY <2>3 DEF Lost, At, Busy
  <2>6. QED
    BY <2>2, <2>4, <2>5 DEF Lost, Startable, HasResume, stored
<1>2. CASE SaveAlert
  <2> DEFINE al == Head(alerts)
  <2>1. /\ UNCHANGED <<sessions, torrentFile, pc, loc>> /\ alerts # <<>> /\ al = alerts[1]
        /\ \/ /\ resumeFile' = [resumeFile EXCEPT ![al.t] = al.data]
              /\ \/ client[al.t].data.id = al.data.id
                 \/ \E b \in Actors : At(b, al.t, {"drop", "unresume"})
           \/ resumeFile' = resumeFile
    BY <1>2, SaveAlertEffect
  <2>2. al.data.id # 0
    BY <1>T, <2>1 DEF Shape, TypeOK
  <2> HIDE DEF al
  <2>3. CASE resumeFile'[t] = resumeFile[t]
    BY <2>1, <2>3 DEF Lost, Known, Startable, HasResume, At
  <2>4. CASE /\ al.t = t
             /\ client[t].data.id = al.data.id \/ \E b \in Actors : At(b, t, {"drop", "unresume"})
    <3>1. client[t].here
      BY <2>2, <2>4 DEF Lost, At, Busy, Shape, HandleShape
    <3>2. \E b \in Actors : At(b, t, {"insert"})
      BY <3>1 DEF Settled, Lost
    <3>3. QED
      BY <2>1, <3>2 DEF Lost, Known, At
  <2>5. QED
    BY <1>T, <2>1, <2>3, <2>4 DEF TypeOK
<1>3. CASE \/ StartDone \/ Stop \/ \E u \in Torrents : SaveResume(u)
           \/ FlushSession \/ TruncateSession \/ WriteSession \/ WriteFails
  <2>1. /\ UNCHANGED <<sessions, resumeFile, torrentFile>> /\ Apart(Loop)
        /\ pc'[Loop] \in {"idle", "save", "flush", "truncate", "write", "close"}
        /\ pc[Loop] # "insert"
    BY <1>3, StartDoneEffect, StopEffect, SaveResumeEffect, FlushEffect, WriteEffect
       DEF Flushed, stored, Writing
  <2>2. ~At(Loop, t, Busy \ {"insert"})' /\ ~At(Loop, t, {"insert"})
    BY <2>1 DEF At, Busy
  <2>3. QED
    BY <2>1, <2>2, LostKept, ActorSets DEF Lost, Known, Startable, HasResume
<1>4. ASSUME NEW u \in Torrents, StartAdd(u)
      PROVE  Lost(t)'
  <2>1. /\ UNCHANGED <<sessions, stored>> /\ Apart(Loop) /\ pc[Loop] = "start"
        /\ pc'[Loop] \in {"start", "insert"}
    BY <1>4, StartAddEffect
  <2>2. ~At(Loop, t, Busy \ {"insert"})' /\ ~At(Loop, t, {"insert"})
    BY <2>1 DEF At, Busy
  <2>3. QED
    BY <2>1, <2>2, LostKept, ActorSets DEF Lost, Known, Startable, HasResume, stored
<1>5. QED
  BY <1>1, <1>2, <1>3, <1>4

LEMMA SkippedKept ==
    ASSUME Inv, Control, Shape, Next, ~Start, ~Close, ~Kill, NEW t \in Torrents, Settled(t),
           Skipped(t), "crossed" \notin odd', ~dirty', sessionFile' = sessionFile
    PROVE  Skipped(t)'
<1>1. odd \subseteq odd'
  BY OddGrows
<1>2. CASE "stale" \in odd'
  BY <1>1, <1>2 DEF Skipped, Free
<1>3. CASE "stale" \notin odd'
  <2>1. Lost(t)
    BY <1>1, <1>3 DEF Skipped
  <2>2. CASE \E a \in Actors :
                \/ AddInsert(a) \/ Removes(a)
                \/ \E u \in Torrents : Removal(a, u)
                \/ a \in Callers /\ \E u \in Torrents, magnet \in BOOLEAN, paused \in BOOLEAN :
                      Add(a, u, magnet, paused)
                \/ a \in Callers /\ KeepTorrentFile(a)
    <3>1. Lost(t)'
      BY <2>1, <2>2, LostRequest
    <3>2. QED
      BY <1>1, <3>1 DEF Skipped, Free
  <2>3. CASE \/ StartDone \/ Stop \/ \E u \in Torrents : StartAdd(u) \/ SaveResume(u)
             \/ Tinkering \/ SaveAlert
             \/ FlushSession \/ TruncateSession \/ WriteSession \/ WriteFails
    <3>1. Lost(t)'
      BY <1>3, <2>1, <2>3, LostRest
    <3>2. QED
      BY <1>1, <3>1 DEF Skipped, Free
  <2>4. QED
    BY <2>2, <2>3, Steps, ActorSets
<1>4. QED
  BY <1>2, <1>3

\* A step that neither writes the session file nor sets dirty.
Leaves(t) ==
    /\ ~dirty /\ sessionFile' = sessionFile /\ Saved(sessions'[t]) = Saved(sessions[t])
    /\ pc'[Loop] \in Writing <=> pc[Loop] \in Writing
    /\ pc[Loop] \in Writing => loc'[Loop] = loc[Loop]
    /\ phase' = phase \/ StartDone \/ Stop

LEMMA Unwritten ==
    ASSUME Inv, Control, Shape, Next, ~Start, ~Close, ~Kill, NEW t \in Torrents, ~dirty',
           ~FlushSession, ~TruncateSession, ~WriteSession, ~WriteFails
    PROVE  Leaves(t)
\* A step of an actor that is not writing.
<1>C. ASSUME NEW a \in Actors, Apart(a), phase' = phase \/ StartDone \/ Stop,
             sessionFile' = sessionFile, ~dirty, sessions'[t] = sessions[t],
             a = Loop => pc[a] \notin Writing /\ pc'[a] \notin Writing
      PROVE  Leaves(t)
  <2>1. a # Loop => pc'[Loop] = pc[Loop] /\ loc'[Loop] = loc[Loop]
    BY <1>C, ActorSets DEF Apart
  <2>2. QED
    BY <1>C, <2>1 DEF Leaves
<1>1. CASE StartDone \/ Stop
  <2>1. /\ UNCHANGED <<sessions, dirty, stored>> /\ Apart(Loop)
        /\ pc[Loop] \notin Writing /\ pc'[Loop] \notin Writing
    BY <1>1, StartDoneEffect, StopEffect DEF Writing
  <2>2. QED
    BY <1>1, <1>C, <2>1, ActorSets DEF stored
<1>2. ASSUME NEW u \in Torrents, StartAdd(u)
      PROVE  Leaves(t)
  <2>1. /\ UNCHANGED <<phase, sessions, dirty, stored>> /\ Apart(Loop)
        /\ pc[Loop] \notin Writing /\ pc'[Loop] \notin Writing
    BY <1>2, StartAddEffect DEF Writing
  <2>2. QED
    BY <1>C, <2>1, ActorSets DEF stored
<1>3. ASSUME NEW a \in Actors, AddInsert(a)
      PROVE  Leaves(t)
  <2>1. /\ UNCHANGED <<phase, sessions, dirty, stored>> /\ Apart(a)
        /\ pc[a] \notin Writing /\ pc'[a] \notin Writing
    BY <1>3, InsertEffect DEF Writing
  <2>2. QED
    BY <1>C, <2>1 DEF stored
<1>4. ASSUME NEW a \in Actors, Removes(a)
      PROVE  Leaves(t)
  <2>1. /\ UNCHANGED <<phase, sessions, dirty, sessionFile>> /\ Apart(a)
        /\ pc[a] \notin Writing /\ pc'[a] \notin Writing
    BY <1>4, RemovesEffect DEF Writing
  <2>2. QED
    BY <1>C, <2>1
<1>5. ASSUME NEW a \in Actors, NEW u \in Torrents, Removal(a, u)
      PROVE  Leaves(t)
  <2>1. /\ UNCHANGED <<phase, sessions, dirty, stored>> /\ Apart(a)
        /\ pc[a] \notin Writing /\ pc'[a] \notin Writing
    BY <1>5, RemoveEffect DEF Removal, Writing
  <2>2. QED
    BY <1>C, <2>1 DEF stored
<1>6. ASSUME NEW c \in Callers, NEW u \in Torrents, NEW magnet \in BOOLEAN, NEW paused \in BOOLEAN,
             Add(c, u, magnet, paused)
      PROVE  Leaves(t)
  <2>1. UNCHANGED <<phase, sessions, dirty, stored>> /\ Apart(c)
    BY <1>6, AddEffect
  <2>2. QED
    BY <1>C, <2>1, ActorSets DEF stored
<1>7. ASSUME NEW c \in Callers, KeepTorrentFile(c)
      PROVE  Leaves(t)
  <2>1. UNCHANGED <<phase, sessions, dirty, sessionFile>> /\ Apart(c)
    BY <1>7, KeepEffect
  <2>2. QED
    BY <1>C, <2>1, ActorSets
<1>8. CASE Tinkering
  <2>1. Tinkers
    BY <1>8, AllTinkers DEF Tinkering
  <2>2. /\ phase' = phase /\ sessionFile' = sessionFile /\ ~dirty
        /\ Saved(sessions'[t]) = Saved(sessions[t]) /\ Wanders(Loop)
    BY <2>1, ActorSets DEF Tinkers, stored, Tinkered
  <2>3. pc[Loop] \in Writing \/ pc'[Loop] \in Writing => pc'[Loop] = pc[Loop] /\ loc'[Loop] = loc[Loop]
    BY <2>2 DEF Wanders, LoopMoves, Writing
  <2>4. QED
    BY <2>2, <2>3 DEF Leaves
<1>9. CASE SaveAlert
  <2>1. UNCHANGED <<phase, sessions, dirty, sessionFile, pc, loc>>
    BY <1>9, SaveAlertEffect
  <2>2. QED
    BY <2>1 DEF Leaves
<1>10. ASSUME NEW u \in Torrents, SaveResume(u)
       PROVE  Leaves(t)
  <2>1. /\ UNCHANGED <<phase, sessions, dirty, stored>> /\ Apart(Loop)
        /\ pc[Loop] \notin Writing /\ pc'[Loop] \notin Writing
    BY <1>10, SaveResumeEffect DEF Writing
  <2>2. QED
    BY <1>C, <2>1, ActorSets DEF stored
<1>11. QED
  BY <1>1, <1>2, <1>3, <1>4, <1>5, <1>6, <1>7, <1>8, <1>9, <1>10, Steps, ActorSets

\* Start passes over what cannot be added.
LEMMA StartSkips ==
    ASSUME Inv, Control, Shape, RestartInv, NEW t \in Torrents, Settled(t), GetsOn(t),
           "crossed" \notin odd', odd \subseteq odd', ToStart(t), Listed(t),
           StartAdd(t), pc' = pc
    PROVE  Skipped(t)'
<1>1. /\ UNCHANGED <<sessions, stored, phase>> /\ pc[Loop] = "start" /\ Apart(Loop)
      /\ loc'[Loop].t = t
      /\ ~(HasResume(t) \/ loc[Loop].list[t].magnet \/ torrentFile[t])
  BY StartAddEffect
<1>2. ~Startable(t, sessionFile.list[t])
  BY <1>1, LoopPhase DEF Control, Startable
<1>3. ~Free({"unkept", "listed"})
  BY <1>2 DEF RestartInv, Restorable, Free
<1>4. ~Known(t)' /\ ~Startable(t, sessionFile.list[t])'
  BY <1>1, <1>2 DEF Settled, Known, Startable, HasResume, stored
<1>5. \A a \in Actors : ~At(a, t, Busy \ {"insert"})'
  BY <1>1, ActorSets DEF Settled, Apart, At, Busy
<1>6. QED
  BY <1>3, <1>4, <1>5 DEF Skipped, Lost, Free

LEMMA DirtyStep ==
    ASSUME Inv, Control, Shape, Control', Uncrossed, RestartInv, DirtyInv, Next
    PROVE  DirtyInv'
<1> SUFFICES ASSUME Free({"failed", "crossed"})', ~dirty', NEW t \in Torrents
             PROVE  InFile(t)'
  BY DEF DirtyInv
<1>0. /\ odd \subseteq odd' /\ Settled(t) /\ "crossed" \notin odd' /\ "failed" \notin odd'
      /\ ~dirty => InFile(t)
  BY OddGrows DEF DirtyInv, Free, Uncrossed
<1>N. Saved(NoEntry) = NoEntry /\ NoEntries[t] = NoEntry
  BY Values, SavedEntry DEF NoEntries
<1>1. CASE Start
  <2>1. /\ phase' = "starting" /\ UNCHANGED stored
        /\ loc'[Loop].todo = {u \in Torrents : Listed(u)}
    BY <1>1, StartEffect
  <2>2. QED
    BY <2>1 DEF InFile, ToStart, Listed, stored
<1>2. CASE Close \/ Kill
  BY <1>2, EndEffect DEF Down, InFile
<1>3. CASE FlushSession
  <2>1. /\ pc[Loop] = "flush" /\ UNCHANGED <<phase, sessions, stored>>
        /\ \/ dirty /\ pc'[Loop] = "truncate" /\ loc'[Loop].list = [u \in Torrents |-> Saved(sessions[u])]
           \/ ~dirty /\ pc'[Loop] = Flushed
    BY <1>3, FlushEffect
  <2>2. phase \in {"up", "stopping"}
    BY <2>1, LoopPhase
  <2>3. CASE dirty
    BY <2>1, <2>2, <2>3 DEF InFile, Writing
  <2>4. CASE ~dirty
    <3>1. sessionFile.list[t] = Saved(sessions[t]) \/ Skipped(t)
      BY <1>0, <2>1, <2>2, <2>4 DEF InFile, Writing
    <3>2. ~Start /\ ~Close /\ ~Kill
      BY <2>1, <2>2 DEF Start, Close, Kill, Down
    <3>3. Skipped(t) => Skipped(t)'
      BY <1>0, <2>1, <3>2, SkippedKept DEF stored
    <3>4. QED
      BY <2>1, <2>2, <2>4, <3>1, <3>3 DEF InFile, Writing, Flushed, stored
  <2>5. QED
    BY <2>3, <2>4
<1>4. CASE TruncateSession \/ WriteSession \/ WriteFails
  <2>1. /\ pc[Loop] \in Writing /\ UNCHANGED <<phase, sessions, dirty>>
        /\ \/ pc[Loop] = "truncate" /\ pc'[Loop] = "write" /\ loc'[Loop] = loc[Loop]
           \/ pc'[Loop] = Flushed /\ sessionFile'.list = loc[Loop].list
    BY <1>0, <1>4, WriteEffect
  <2>2. phase \in {"up", "stopping"}
    BY <2>1, LoopPhase
  <2>3. loc[Loop].list[t] = Saved(sessions[t])
    BY <1>0, <2>1, <2>2 DEF InFile
  <2>4. QED
    BY <2>1, <2>2, <2>3 DEF InFile, Writing, Flushed
<1>5. CASE /\ ~Start /\ ~Close /\ ~Kill
           /\ ~FlushSession /\ ~TruncateSession /\ ~WriteSession /\ ~WriteFails
  <2>1. Leaves(t) /\ GetsOn(t)
    BY <1>5, Unwritten, Starting
  <2>2. Skipped(t) => Skipped(t)'
    BY <1>0, <1>5, <2>1, SkippedKept DEF Leaves
  <2>3. InFile(t)
    BY <1>0, <2>1 DEF Leaves
  <2>4. CASE phase' = "starting"
    <3>1. phase = "starting" /\ Listed(t)' = Listed(t)
      BY <2>1, <2>4 DEF GetsOn, Listed
    <3>2. Listed(t) => ToStart(t) \/ Skipped(t)
      BY <2>3, <3>1 DEF InFile
    <3>3. ASSUME ToStart(t), ~ToStart(t)', Listed(t)
          PROVE  Skipped(t)'
      <4>1. CASE StartAdd(t) /\ pc' = pc
        BY <1>0, <2>1, <3>3, <4>1, StartSkips
      <4>2. CASE AddInsert(Loop)
        <5>1. pc[Loop] = "insert" /\ loc[Loop].t \in Torrents /\ (Known(loc[Loop].t) \/ dirty')
          BY <4>2, InsertEffect, ActorSets
        <5>2. ToStart(loc[Loop].t)
          BY <3>1, <5>1 DEF ToStart
        <5>3. ~Known(loc[Loop].t)
          BY <1>0, <5>1, <5>2 DEF Uncrossed, Settled
        <5>4. QED
          BY <5>1, <5>3
      <4>3. QED
        BY <2>1, <2>4, <3>3, <4>1, <4>2 DEF GetsOn
    <3>4. QED
      BY <2>2, <2>4, <3>1, <3>2, <3>3 DEF InFile
  <2>5. CASE StartDone
    <3>1. /\ pc[Loop] = "start" /\ loc[Loop].todo = {} /\ UNCHANGED sessions
          /\ pc'[Loop] = "idle" /\ phase' = "up"
      BY <2>5, StartDoneEffect
    <3>2. phase = "starting" /\ ~ToStart(t) /\ sessions[t] = NoEntry
      BY <1>N, <2>1, <3>1, LoopPhase DEF ToStart, Control, Leaves
    <3>3. Listed(t) => Skipped(t)
      BY <2>3, <3>2 DEF InFile
    <3>4. ~Listed(t) => sessionFile.list[t] = NoEntry
      BY <1>N DEF Listed, Shape, Blank
    <3>5. QED
      BY <1>N, <2>1, <2>2, <3>1, <3>2, <3>3, <3>4 DEF InFile, Writing, Leaves
  <2>6. CASE phase' \in {"up", "stopping"} /\ ~StartDone
    <3>1. phase \in {"up", "stopping"}
      BY <2>1, <2>6, StopEffect DEF Leaves
    <3>2. QED
      BY <2>1, <2>2, <2>3, <2>6, <3>1 DEF InFile, Leaves
  <2>7. QED
    BY <2>4, <2>5, <2>6 DEF InFile
<1>6. QED
  BY <1>1, <1>2, <1>3, <1>4, <1>5

LEMMA DirtyInit == Init => DirtyInv
BY DEF Init, DirtyInv, InFile

LEMMA DirtyInvariant == Spec => []DirtyInv
<1>1. /\ Inv /\ Control /\ Shape /\ Control' /\ Uncrossed /\ RestartInv /\ DirtyInv /\ [Next]_vars
      => DirtyInv'
  <2>1. CASE UNCHANGED vars
    BY <2>1 DEF vars, DirtyInv, InFile, Skipped, Lost, Startable, HasResume, Known, Listed, At,
       ToStart, Free
  <2>2. QED
    BY <2>1, DirtyStep
<1>2. QED
  BY <1>1, DirtyInit, RestartInvariant, UncrossedInvariant, ControlInvariant, Invariant, PTL DEF Spec

\* "dirty means the session file is out of date": while the program is up and dirty is
\* not set, and the loop is not writing, the session file has the entries of sessions,
\* so that a kill loses none of them; but for a write that failed, a kill within an add or a
\* removal and two calls at once on one torrent.
THEOREM DirtyCorrect == Spec => []DirtyTells
<1>1. DirtyInv => DirtyTells
  BY DEF DirtyInv, DirtyTells, InFile, Skipped, Writing, Free
<1>2. QED
  BY <1>1, DirtyInvariant, PTL

-----------------------------------------------------------------------------
(* What a stop waits for *)

\* The file of t has, or will have when all alerts have come, what the client has.
OnItsWay(t) ==
    \/ \E i \in 1..Len(alerts) :
          /\ alerts[i].t = t /\ alerts[i].data = client[t].data
          /\ \A j \in (i + 1)..Len(alerts) : alerts[j].t # t
    \/ (\A i \in 1..Len(alerts) : alerts[i].t # t) /\ resumeFile[t] = client[t].data

SaveInv ==
    Free({"late", "timeout", "leaked"}) /\ phase = "stopping" =>
        /\ pc[Loop] \in Writing \cup {"close"} => ~dirty
        /\ pc[Loop] \in {"flush", "close"} \cup Writing => alerts = <<>>
        /\ \A t \in Torrents :
             client[t].here => OnItsWay(t) \/ (pc[Loop] = "save" /\ t \in loc[Loop].todo)

\* One more torrent is asked for.
LEMMA WayAppend ==
    ASSUME Inv, NEW t \in Torrents, NEW u \in Torrents,
           alerts' = Append(alerts, [t |-> u, data |-> client[u].data]),
           resumeFile' = resumeFile, client'[t].data = client[t].data,
           t = u \/ OnItsWay(t)
    PROVE  OnItsWay(t)'
<1> DEFINE al == [t |-> u, data |-> client[u].data]
<1>0. alerts \in Seq(Alert) /\ al \in Alert /\ al.t = u /\ al.data = client[u].data
  BY RecordsType DEF Inv, TypeOK, Alert
<1> HIDE DEF al
<1>1. /\ Len(alerts') = Len(alerts) + 1 /\ alerts'[Len(alerts) + 1] = al /\ Len(alerts) \in Nat
      /\ \A i \in 1..Len(alerts) : alerts'[i] = alerts[i]
  BY <1>0 DEF al
<1>2. CASE t = u
  <2>1. Len(alerts) + 1 \in 1..Len(alerts')
    BY <1>1
  <2>2. \A j \in ((Len(alerts) + 1) + 1)..Len(alerts') : FALSE
    BY <1>1
  <2>3. QED
    BY <1>0, <1>1, <1>2, <2>1, <2>2 DEF OnItsWay
<1>3. CASE t # u /\ OnItsWay(t)
  <2>1. ASSUME NEW i \in 1..Len(alerts), alerts[i].t = t, alerts[i].data = client[t].data,
               \A j \in (i + 1)..Len(alerts) : alerts[j].t # t
        PROVE  OnItsWay(t)'
    <3>1. i \in 1..Len(alerts') /\ alerts'[i] = alerts[i]
      BY <1>1
    <3>2. ASSUME NEW j \in (i + 1)..Len(alerts')
          PROVE  alerts'[j].t # t
      <4>1. CASE j = Len(alerts) + 1
        BY <1>0, <1>1, <1>3, <4>1
      <4>2. CASE j # Len(alerts) + 1
        <5>1. j \in (i + 1)..Len(alerts) /\ j \in 1..Len(alerts)
          BY <1>1, <4>2
        <5>2. QED
          BY <1>1, <2>1, <5>1
      <4>3. QED
        BY <4>1, <4>2
    <3>3. QED
      BY <2>1, <3>1, <3>2 DEF OnItsWay
  <2>2. CASE (\A i \in 1..Len(alerts) : alerts[i].t # t) /\ resumeFile[t] = client[t].data
    <3>1. ASSUME NEW j \in 1..Len(alerts')
          PROVE  alerts'[j].t # t
      <4>1. CASE j = Len(alerts) + 1
        BY <1>0, <1>1, <1>3, <4>1
      <4>2. CASE j # Len(alerts) + 1
        <5>1. j \in 1..Len(alerts)
          BY <1>1, <4>2
        <5>2. QED
          BY <1>1, <2>2, <5>1
      <4>3. QED
        BY <4>1, <4>2
    <3>2. QED
      BY <2>2, <3>1 DEF OnItsWay
  <2>3. QED
    BY <1>3, <2>1, <2>2 DEF OnItsWay
<1>4. QED
  BY <1>2, <1>3

\* The first alert gets to its file.
LEMMA WayAlert ==
    ASSUME Inv, NEW t \in Torrents, SaveAlert, OnItsWay(t)
    PROVE  OnItsWay(t)'
<1> DEFINE al == Head(alerts)
<1>1. /\ alerts # <<>> /\ al = alerts[1] /\ al \in Alert /\ alerts' = Tail(alerts) /\ client' = client
      /\ \/ resumeFile' = [resumeFile EXCEPT ![al.t] = al.data]
         \/ resumeFile' = resumeFile /\ client[al.t].data.id # al.data.id
  BY SaveAlertEffect
<1>2. alerts \in Seq(Alert) /\ resumeFile \in [Torrents -> Resume]
  BY DEF Inv, TypeOK, Alert
<1> HIDE DEF al
<1>3. /\ Len(alerts) \in Nat /\ Len(alerts) >= 1 /\ Len(alerts') = Len(alerts) - 1
      /\ \A i \in 1..(Len(alerts) - 1) : alerts'[i] = alerts[i + 1]
  BY <1>1, <1>2
<1>4. resumeFile'[t] = IF al.t = t /\ client[t].data.id = al.data.id THEN al.data ELSE resumeFile'[t]
  BY <1>1, <1>2
<1>5. al.t # t => resumeFile'[t] = resumeFile[t]
  BY <1>1, <1>2
<1>6. ASSUME NEW i \in 1..Len(alerts), alerts[i].t = t, alerts[i].data = client[t].data,
             \A j \in (i + 1)..Len(alerts) : alerts[j].t # t
      PROVE  OnItsWay(t)'
  <2>1. CASE i = 1
    <3>1. al.t = t /\ resumeFile'[t] = client[t].data
      BY <1>1, <1>4, <1>6, <2>1
    <3>2. ASSUME NEW j \in 1..Len(alerts')
          PROVE  alerts'[j].t # t
      <4>1. j \in 1..(Len(alerts) - 1) /\ j + 1 \in (i + 1)..Len(alerts)
        BY <1>3, <2>1
      <4>2. QED
        BY <1>3, <1>6, <4>1
    <3>3. QED
      BY <1>1, <3>1, <3>2 DEF OnItsWay
  <2>2. CASE i # 1
    <3>1. i - 1 \in 1..Len(alerts') /\ i - 1 \in 1..(Len(alerts) - 1) /\ (i - 1) + 1 = i
      BY <1>3, <2>2
    <3>2. alerts'[i - 1] = alerts[i]
      BY <1>3, <3>1
    <3>3. ASSUME NEW j \in ((i - 1) + 1)..Len(alerts')
          PROVE  alerts'[j].t # t
      <4>1. j \in 1..(Len(alerts) - 1) /\ j + 1 \in (i + 1)..Len(alerts)
        BY <1>3
      <4>2. QED
        BY <1>3, <1>6, <4>1
    <3>4. QED
      BY <1>1, <1>6, <3>1, <3>2, <3>3 DEF OnItsWay
  <2>3. QED
    BY <2>1, <2>2
<1>7. CASE (\A i \in 1..Len(alerts) : alerts[i].t # t) /\ resumeFile[t] = client[t].data
  <2>1. al.t # t
    BY <1>1, <1>3, <1>7
  <2>2. ASSUME NEW j \in 1..Len(alerts')
        PROVE  alerts'[j].t # t
    <3>1. j \in 1..(Len(alerts) - 1) /\ j + 1 \in 1..Len(alerts)
      BY <1>3
    <3>2. QED
      BY <1>3, <1>7, <3>1
  <2>3. QED
    BY <1>1, <1>5, <1>7, <2>1, <2>2 DEF OnItsWay
<1>8. QED
  BY <1>6, <1>7 DEF OnItsWay

\* Requests that go on when Stop has begun are noted.
LEMMA LateNoted ==
    ASSUME Inv, Control, Shape, phase = "stopping",
           \/ \E a \in Actors : AddInsert(a) \/ Removes(a)
           \/ \E a \in Actors, u \in Torrents : Removal(a, u)
           \/ \E c \in Callers, u \in Torrents, magnet \in BOOLEAN, paused \in BOOLEAN :
                 Add(c, u, magnet, paused)
           \/ \E c \in Callers : \/ KeepTorrentFile(c) \/ UnpauseUpdate(c)
                                 \/ \E u \in Torrents : Pause(c, u) \/ Unpause(c, u)
           \/ \E u \in Torrents : FinishPreparing(u) \/ Finished(u)
    PROVE  "late" \in odd'
<1>1. ASSUME NEW a \in Actors, AddInsert(a) \/ Removes(a)
      PROVE  "late" \in odd'
  BY <1>1, InsertEffect, RemovesEffect DEF Noted
<1>2. ASSUME NEW a \in Actors, NEW u \in Torrents, Removal(a, u)
      PROVE  "late" \in odd'
  BY <1>2, RemoveEffect DEF Removal, Noted
<1>3. ASSUME NEW c \in Callers, NEW u \in Torrents, NEW magnet \in BOOLEAN, NEW paused \in BOOLEAN,
             Add(c, u, magnet, paused)
      PROVE  "late" \in odd'
  BY <1>3, AddEffect DEF Noted
<1>4. ASSUME NEW c \in Callers, KeepTorrentFile(c)
      PROVE  "late" \in odd'
  BY <1>4, KeepEffect DEF Noted
<1>5. ASSUME NEW c \in Callers, UnpauseUpdate(c)
      PROVE  "late" \in odd'
  BY <1>5 DEF UnpauseUpdate, Note
<1>6. ASSUME NEW c \in Callers, NEW u \in Torrents, Pause(c, u) \/ Unpause(c, u)
      PROVE  "late" \in odd'
  BY <1>6 DEF Pause, Unpause, Note
<1>7. ASSUME NEW u \in Torrents, FinishPreparing(u) \/ Finished(u)
      PROVE  "late" \in odd'
  BY <1>7 DEF FinishPreparing, Finished, Lately
<1>8. QED
  BY <1>1, <1>2, <1>3, <1>4, <1>5, <1>6, <1>7

LEMMA SaveStep ==
    ASSUME Inv, Control, Shape, SaveInv, Next
    PROVE  SaveInv'
<1> SUFFICES ASSUME "late" \notin odd', "timeout" \notin odd', "leaked" \notin odd',
                    phase' = "stopping"
             PROVE  SaveInv'
  BY DEF SaveInv, Free
<1>0. /\ odd \subseteq odd'
      /\ phase = "stopping" =>
           /\ pc[Loop] \in Writing \cup {"close"} => ~dirty
           /\ pc[Loop] \in {"flush", "close"} \cup Writing => alerts = <<>>
           /\ \A t \in Torrents :
                client[t].here => OnItsWay(t) \/ (pc[Loop] = "save" /\ t \in loc[Loop].todo)
  BY OddGrows DEF SaveInv, Free
<1>1. CASE Stop
  <2>1. pc'[Loop] = "save" /\ client' = client /\ \A t \in Torrents : client[t].here => t \in loc'[Loop].todo
    BY <1>1, StopEffect
  <2>2. QED
    BY <2>1 DEF SaveInv, Writing
<1>2. CASE phase = "stopping"
  <2>1. CASE \E t \in Torrents : SaveResume(t)
    <3>1. PICK u \in Torrents : SaveResume(u)
      BY <2>1
    <3>2. /\ pc[Loop] = "save" /\ UNCHANGED <<dirty, stored>>
          /\ \A t \in Torrents : client'[t].here = client[t].here /\ client'[t].data = client[t].data
          /\ pc'[Loop] = "save" /\ loc'[Loop].todo = loc[Loop].todo \ {u}
          /\ \/ client[u].here /\ alerts' = Append(alerts, [t |-> u, data |-> client[u].data])
             \/ ~client[u].here /\ alerts' = alerts
      BY <3>1, SaveResumeEffect
    <3>3. ASSUME NEW t \in Torrents, client'[t].here, t \notin loc'[Loop].todo
          PROVE  OnItsWay(t)'
      <4>1. t = u \/ OnItsWay(t)
        BY <1>0, <1>2, <3>2, <3>3
      <4>2. CASE client[u].here
        BY <3>2, <4>1, <4>2, WayAppend DEF stored
      <4>3. CASE ~client[u].here
        BY <3>2, <3>3, <4>1, <4>3 DEF OnItsWay, stored
      <4>4. QED
        BY <4>2, <4>3
    <3>4. QED
      BY <3>2, <3>3 DEF SaveInv, Writing
  <2>2. CASE SaveAlert
    <3>1. UNCHANGED <<client, dirty, pc, loc>> /\ alerts # <<>>
      BY <2>2, SaveAlertEffect
    <3>2. QED
      BY <1>0, <1>2, <2>2, <3>1, WayAlert DEF SaveInv
  <2>3. CASE AllAskedFor
    <3>1. pc[Loop] = "save" /\ loc[Loop].todo = {} /\ UNCHANGED <<client, alerts, resumeFile>>
      BY <2>3 DEF AllAskedFor, resume, files
    <3>2. pc'[Loop] = "await"
      BY <2>3, GotoEffect, ActorSets DEF AllAskedFor, Inv
    <3>3. QED
      BY <1>0, <1>2, <3>1, <3>2 DEF SaveInv, Writing, OnItsWay
  <2>4. CASE AwaitResume
    <3>1. /\ pc[Loop] = "await" /\ UNCHANGED <<client, alerts, resumeFile, pending>> /\ ~(pending > 0)
      BY <2>4 DEF AwaitResume, resume, files
    <3>2. pc'[Loop] = "flush"
      BY <2>4, GotoEffect, ActorSets DEF AwaitResume, Inv
    <3>3. alerts = <<>>
      <4>1. pending >= Len(alerts) /\ pending \in Nat /\ alerts \in Seq(Alert)
        BY DEF Inv, Counted, TypeOK, Alert
      <4>2. QED
        BY <3>1, <4>1
    <3>4. QED
      BY <1>0, <1>2, <3>1, <3>2, <3>3 DEF SaveInv, Writing, OnItsWay
  <2>5. CASE FlushSession
    <3>1. /\ pc[Loop] = "flush" /\ UNCHANGED <<client, alerts, resumeFile>> /\ ~dirty'
          /\ pc'[Loop] \in {"truncate", "close"}
      BY <1>2, <2>5, FlushEffect DEF Flushed, stored
    <3>2. QED
      BY <1>0, <1>2, <3>1 DEF SaveInv, Writing, OnItsWay
  <2>6. CASE TruncateSession \/ WriteSession \/ WriteFails
    <3>1. /\ pc[Loop] \in Writing /\ UNCHANGED <<client, alerts, resumeFile, dirty>>
          /\ pc'[Loop] \in {"write", "close"}
      BY <1>2, <2>6, WriteEffect DEF Flushed
    <3>2. QED
      BY <1>0, <1>2, <3>1 DEF SaveInv, Writing, OnItsWay
  <2>7. CASE (\E c \in Callers : UnpauseStatus(c)) \/ \E t \in Torrents : LimitReached(t)
    <3>1. UNCHANGED <<client, alerts, resumeFile, dirty>>
      BY <2>7 DEF UnpauseStatus, LimitReached, entries, resume, files
    <3>2. pc'[Loop] = pc[Loop] /\ loc'[Loop] = loc[Loop]
      <4>1. ASSUME NEW c \in Callers, UnpauseStatus(c)
            PROVE  Apart(c)
        <5>1. c \in Actors /\ TypeOK
          BY ActorSets DEF Inv
        <5>2. CASE Goto(c, "update") /\ UNCHANGED loc
          BY <5>1, <5>2, GotoEffect DEF Apart
        <5>3. CASE Return(c)
          BY <5>1, <5>3, ReturnEffect
        <5>4. QED
          BY <4>1, <5>2, <5>3 DEF UnpauseStatus
      <4>2. ASSUME NEW t \in Torrents, LimitReached(t)
            PROVE  pc' = pc /\ loc' = loc
        BY <4>2 DEF LimitReached
      <4>3. QED
        BY <2>7, <4>1, <4>2, ActorSets DEF Apart
    <3>3. QED
      BY <1>0, <1>2, <3>1, <3>2 DEF SaveInv, OnItsWay
  <2>8. CASE Statuses \/ SeedingFinished \/ SeedingEnded \/ \E t \in Torrents : EndSeeding(t) /\ pc' = pc
    <3>1. phase = "up" \/ pc[Loop] \in {"limits", "seed"}
      BY <2>8 DEF Statuses, SeedingFinished, SeedingEnded, EndSeeding
    <3>2. QED
      BY <1>2, <3>1, LoopPhase
  <2>9. CASE \/ Start \/ StartDone \/ Stop \/ Close \/ Kill \/ \E t \in Torrents : StartAdd(t)
    <3>1. CASE \E t \in Torrents : StartAdd(t)
      <4>1. pc[Loop] = "start"
        BY <3>1 DEF StartAdd
      <4>2. QED
        BY <1>2, <4>1, LoopPhase
    <3>2. QED
      BY <1>2, <2>9, <3>1 DEF Start, StartDone, Stop, Close, Kill, Down
  <2>10. QED
    BY <1>2, <2>1, <2>2, <2>3, <2>4, <2>5, <2>6, <2>7, <2>8, <2>9, LateNoted, Steps DEF Tinkering
<1>3. CASE phase # "stopping" /\ ~Stop
  <2>1. phase' = phase
    <3>1. CASE Start \/ StartDone \/ Close \/ Kill
      BY <3>1 DEF Start, StartDone, Close, Kill, Down
    <3>2. CASE ~Start /\ ~Close /\ ~Kill /\ ~StartDone
      <4>1. CASE FlushSession \/ TruncateSession \/ WriteSession \/ WriteFails
        BY <4>1 DEF FlushSession, TruncateSession, WriteSession, WriteFails
      <4>2. CASE Tinkering
        BY <4>2, AllTinkers DEF Tinkers, Tinkering
      <4>3. ASSUME NEW t \in Torrents, StartAdd(t) \/ SaveResume(t)
            PROVE  phase' = phase
        BY <4>3 DEF StartAdd, SaveResume
      <4>4. ASSUME NEW a \in Actors, AddInsert(a) \/ Removes(a)
            PROVE  phase' = phase
        BY <4>4, InsertEffect, RemovesEffect
      <4>5. ASSUME NEW a \in Actors, NEW t \in Torrents, Removal(a, t)
            PROVE  phase' = phase
        BY <4>5, RemoveEffect DEF Removal
      <4>6. CASE \/ \E c \in Callers, u \in Torrents, magnet \in BOOLEAN, paused \in BOOLEAN :
                       Add(c, u, magnet, paused)
                 \/ \E c \in Callers : KeepTorrentFile(c)
                 \/ SaveAlert
        BY <4>6 DEF Add, KeepTorrentFile, SaveAlert
      <4>7. QED
        BY <1>3, <3>2, <4>1, <4>2, <4>3, <4>4, <4>5, <4>6, Steps
    <3>3. QED
      BY <3>1, <3>2
  <2>2. QED
    BY <1>3, <2>1
<1>4. QED
  BY <1>1, <1>2, <1>3

\* When the program has ended its files have what the client had.
LEMMA StopStep ==
    ASSUME Inv, Control, Shape, Uncrossed, DirtyInv, SaveInv, Next,
           phase = "stopping", pc[Loop] = "close", phase' = "down", ends' = ends,
           odd' \cap {"late", "timeout", "leaked", "failed", "crossed", "stale"} = {},
           NEW t \in Torrents
    PROVE  Restored(t) = client[t].data
<1>1. Close
  <2>1. ~Start
    BY DEF Start
  <2>2. ~Kill
    BY DEF Kill, Inv, TypeOK
  <2>3. Close \/ GetsOn(t)
    BY <2>1, <2>2, Starting
  <2>4. QED
    BY <2>3 DEF GetsOn
<1>2. odd \subseteq odd' /\ \A c \in Callers : pc[c] = "idle"
  BY <1>1 DEF Close
<1>3. \A a \in Actors : ~At(a, t, Busy)
  BY <1>2, ActorSets DEF At, Busy
<1>4. Settled(t) /\ (Known(t) <=> client[t].here)
  BY <1>2, <1>3 DEF Uncrossed, Settled, At, Busy
<1>5. ~dirty /\ (client[t].here => resumeFile[t] = client[t].data)
  BY <1>2 DEF SaveInv, Free, OnItsWay
<1>6. sessionFile.list[t] = Saved(sessions[t]) \/ Lost(t)
  BY <1>2, <1>5 DEF DirtyInv, InFile, Writing, Free, Skipped
<1>7. HandleShape(t) /\ Blank(sessions[t]) /\ sessions[t] \in Entry
  BY RecordsType DEF Shape, Inv
<1>8. CASE client[t].here
  <2>1. Known(t) /\ HasResume(t) /\ resumeFile[t] = client[t].data
    BY <1>4, <1>5, <1>7, <1>8 DEF HandleShape, HasResume
  <2>2. sessionFile.list[t].id # 0
    BY <1>6, <1>7, <2>1, SavedEntry DEF Lost, Known
  <2>3. Listed(t)
    BY <2>2 DEF Listed, Shape, NoEntries, NoEntry
  <2>4. QED
    BY <2>1, <2>3 DEF Restored
<1>9. CASE ~client[t].here
  <2>1. client[t].data = NoResume
    BY <1>7, <1>9 DEF HandleShape, NoHandle
  <2>2. Listed(t) => ~Startable(t, sessionFile.list[t])
    <3>1. CASE Lost(t)
      BY <1>3, <3>1 DEF Lost, At, Busy
    <3>2. CASE sessionFile.list[t] = Saved(sessions[t])
      BY <1>4, <1>7, <1>9, <3>2, SavedEntry DEF Known, Listed
    <3>3. QED
      BY <1>6, <3>1, <3>2
  <2>3. QED
    BY <2>1, <2>2 DEF Restored, Startable
<1>10. QED
  BY <1>8, <1>9

LEMMA SaveInit == Init => SaveInv
BY DEF Init, SaveInv

LEMMA SaveInvariant == Spec => []SaveInv
<1>1. Inv /\ Control /\ Shape /\ SaveInv /\ [Next]_vars => SaveInv'
  <2>1. CASE UNCHANGED vars
    BY <2>1 DEF vars, SaveInv, OnItsWay, Free
  <2>2. QED
    BY <2>1, SaveStep
<1>2. QED
  BY <1>1, SaveInit, ControlInvariant, Invariant, PTL DEF Spec

\* "Stop saves resume data and the session": a start after a stop restores every torrent
\* as the client had it, and no other, if nothing went on meanwhile, no write failed and
\* no wait was cut short.
THEOREM StopSaved == Spec => StopKeeps
<1>1. Inv /\ Control /\ Shape /\ Uncrossed /\ DirtyInv /\ SaveInv /\ [Next]_vars =>
        [phase = "stopping" /\ pc[Loop] = "close" /\ phase' = "down" /\ ends' = ends
         /\ odd' \cap {"late", "timeout", "leaked", "failed", "crossed", "stale"} = {}
         => \A t \in Torrents : Restored(t) = client[t].data]_vars
  BY StopStep
<1>2. QED
  BY <1>1, SaveInvariant, DirtyInvariant, UncrossedInvariant, ControlInvariant, Invariant,
     PTL DEF Spec, StopKeeps
=============================================================================
