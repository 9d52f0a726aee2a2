---------------------------- MODULE EngineProofs ----------------------------
(* What holds of the engine's preparation for every number of torrents, files
   and requests: the types, that the client downloads nothing of a torrent that
   is preparing, that entries and client agree once everyone is done, that a
   torrent let go knows the data on disk, and that no unfinished file gets its
   real name. *)
EXTENDS Engine, FiniteSetTheorems, TLAPS

Event == [kind: Kinds, t: Torrents]
Rename == [t: Torrents, id: Nat, f: Files, to: Names]
Where == [at: Names \cup {"none"}, full: BOOLEAN]

\* The parts of the state the functions of the actions range over.
LEMMA Values ==
    /\ NoHandle \in Handle
    /\ NoEntry \in Entry
    /\ NoLocal \in Local
<1>1. NoHandle \in Handle
  BY DEF NoHandle, Handle, Names
<1>2. NoEntry \in Entry
  BY DEF NoEntry, Entry
<1>3. NoLocal \in Local
  <2>1. (CHOOSE t \in Torrents : TRUE) \in Torrents
    BY EngineAssumption
  <2>2. QED
    BY <2>1 DEF NoLocal, Local, Todo
<1>4. QED
  BY <1>1, <1>2, <1>3

LEMMA FreshHandleType ==
    ASSUME NEW i \in Nat, NEW withMeta \in BOOLEAN
    PROVE  /\ FreshHandle(i, withMeta) \in Handle
           /\ FreshHandle(i, withMeta).here
           /\ FreshHandle(i, withMeta).upload
BY Values DEF FreshHandle, NoHandle, Handle

\* Renames are put in the queue as renames.
LEMMA PutNamesRightType ==
    ASSUME TypeOK, NEW t \in Torrents, PutNamesRight(t)
    PROVE  renames' \in Seq(Rename)
<1>1. PICK q \in InFileOrder(Renames(t, FALSE)) :
        renames' = renames \o [i \in DOMAIN q |-> Request(t, q[i])]
  BY DEF PutNamesRight
<1>2. PICK n \in 0..FileCount : q \in [1..n -> Renames(t, FALSE)]
  BY <1>1 DEF InFileOrder
<1>3. n \in Nat /\ DOMAIN q = 1..n
  BY <1>2, EngineAssumption
<1>4. \A i \in 1..n : q[i] \in Files \X Names
  BY <1>2 DEF Renames
<1>5. \A i \in 1..n : Request(t, q[i]) \in Rename
  BY <1>4 DEF Request, Rename, TypeOK, Handle
<1>6. [i \in 1..n |-> Request(t, q[i])] \in Seq(Rename)
  BY <1>3, <1>5
<1>7. renames \in Seq(Rename)
  BY DEF TypeOK, Rename
<1>8. QED
  BY <1>1, <1>3, <1>6, <1>7
-----------------------------------------------------------------------------
(* Types *)

LEMMA TypeInit == Init => TypeOK
<1> SUFFICES ASSUME Init PROVE TypeOK
  OBVIOUS
<1>1. disk \in [Torrents -> [Files -> [at: Names \cup {"none"}, full: BOOLEAN]]]
  <2> DEFINE Found == {[at |-> "none", full |-> FALSE], [at |-> "part", full |-> FALSE],
                       [at |-> "part", full |-> TRUE], [at |-> "real", full |-> TRUE]}
  <2>1. Found \subseteq [at: Names \cup {"none"}, full: BOOLEAN]
    BY DEF Names
  <2>2. disk \in [Torrents -> [Files -> Found]]
    BY DEF Init
  <2> HIDE DEF Found
  <2>3. QED
    BY <2>1, <2>2
<1>2. renames \in Seq(Rename) /\ events \in Seq(Event)
  BY DEF Init
<1>3. QED
  BY <1>1, <1>2, Values DEF Init, TypeOK, Labels, Event, Rename

\* Emit keeps the type of the queue.
LEMMA EmitType ==
    ASSUME TypeOK, NEW kind \in Kinds, NEW t \in Torrents, Emit(kind, t)
    PROVE  events' \in Seq([kind: Kinds, t: Torrents])
BY DEF TypeOK, Emit

\* A handle put in the place of another one.
LEMMA HandleType ==
    ASSUME TypeOK, NEW t \in Torrents, NEW h \in Handle,
           client' = [client EXCEPT ![t] = h]
    PROVE  client' \in [Torrents -> Handle]
BY DEF TypeOK

\* A file's place put in the place of another one.
LEMMA DiskType ==
    ASSUME TypeOK, NEW t \in Torrents, NEW f \in Files, NEW w \in Where
    PROVE  [disk EXCEPT ![t][f] = w] \in [Torrents -> [Files -> Where]]
<1> DEFINE d == disk[t]
<1>1. disk \in [Torrents -> [Files -> Where]]
  BY DEF TypeOK, Where
<1>2. [d EXCEPT ![f] = w] \in [Files -> Where]
  BY <1>1
<1> HIDE DEF d
<1>3. [disk EXCEPT ![t] = [d EXCEPT ![f] = w]] \in [Torrents -> [Files -> Where]]
  BY <1>1, <1>2
<1>4. QED
  BY <1>3 DEF d

\* What the client and the file system do keeps the types.
LEMMA TypeClient ==
    ASSUME TypeOK, NEW t \in Torrents, Client(t)
    PROVE  TypeOK'
<1> USE DEF TypeOK
<1> DEFINE h == client[t]
<1>0. h \in Handle
  OBVIOUS
<1>1. CASE MetadataReceived(t)
  <2>1. [h EXCEPT !.meta = TRUE, !.checking = TRUE] \in Handle
    BY <1>0 DEF Handle
  <2>2. client' = [client EXCEPT ![t] = [h EXCEPT !.meta = TRUE, !.checking = TRUE]]
    BY <1>1 DEF MetadataReceived
  <2>3. client' \in [Torrents -> Handle]
    BY <2>1, <2>2
  <2>4. events' \in Seq([kind: Kinds, t: Torrents])
    BY <1>1, EmitType DEF MetadataReceived, Kinds
  <2>5. QED
    BY <1>1, <2>3, <2>4 DEF MetadataReceived
<1>2. CASE TorrentChecked(t)
  <2> DEFINE found == [f \in Files |-> disk[t][f].full /\ disk[t][f].at = client[t].name[f]]
  <2>1. found \in [Files -> BOOLEAN]
    OBVIOUS
  <2>2. client' \in [Torrents -> Handle]
    <3>1. client' = [client EXCEPT ![t] = [h EXCEPT !.checking = FALSE, !.done = found]]
      BY <1>2 DEF TorrentChecked
    <3> HIDE DEF found
    <3>2. [h EXCEPT !.checking = FALSE, !.done = found] \in Handle
      BY <1>0, <2>1 DEF Handle
    <3>3. QED
      BY <3>1, <3>2
  <2>3. events' \in Seq([kind: Kinds, t: Torrents])
    BY <1>2, EmitType DEF TorrentChecked, Kinds
  <2>4. QED
    BY <1>2, <2>2, <2>3 DEF TorrentChecked
<1>3. CASE DeleteWithRetry(t)
  BY <1>3 DEF DeleteWithRetry
<1>4. ASSUME NEW f \in Files, PieceWritten(t, f)
      PROVE  TypeOK'
  BY <1>4 DEF PieceWritten, Handle
<1>5. ASSUME NEW f \in Files, FileCompleted(t, f)
      PROVE  TypeOK'
  <2>1. client' \in [Torrents -> Handle]
    <3>1. client' = [client EXCEPT ![t] = [h EXCEPT !.done = [h.done EXCEPT ![f] = TRUE]]]
      BY <1>5, Zenon DEF FileCompleted
    <3>2. [h EXCEPT !.done = [h.done EXCEPT ![f] = TRUE]] \in Handle
      BY <1>0 DEF Handle
    <3>3. QED
      BY <3>1, <3>2
  <2>2. disk' \in [Torrents -> [Files -> [at: Names \cup {"none"}, full: BOOLEAN]]]
    <3>1. [disk[t][f] EXCEPT !.full = TRUE] \in Where
      <4>1. disk[t][f] \in Where
        BY DEF Where
      <4>2. QED
        BY <4>1 DEF Where
    <3>2. disk' = [disk EXCEPT ![t][f] = [disk[t][f] EXCEPT !.full = TRUE]]
      BY <1>5, Zenon DEF FileCompleted
    <3>3. QED
      BY <3>1, <3>2, DiskType DEF Where
  <2>3. events' \in Seq([kind: Kinds, t: Torrents])
    BY <1>5, EmitType DEF FileCompleted, Kinds
  <2>4. QED
    BY <1>5, <2>1, <2>2, <2>3 DEF FileCompleted
<1>6. QED
  BY <1>1, <1>2, <1>3, <1>4, <1>5 DEF Client

LEMMA TypeRenames ==
    ASSUME TypeOK, FileRenamed \/ FileRenameFailed
    PROVE  TypeOK'
<1> DEFINE r == Head(renames)
<1>1. renames # <<>> /\ renames' = Tail(renames)
  BY DEF FileRenamed, FileRenameFailed
<1>2. renames \in Seq(Rename)
  BY DEF TypeOK, Rename
<1>3. r \in Rename /\ Tail(renames) \in Seq(Rename)
  BY <1>1, <1>2
<1>4. r.t \in Torrents /\ r.f \in Files /\ r.to \in Names
  BY <1>3 DEF Rename
<1>5. renames' \in Seq([t: Torrents, id: Nat, f: Files, to: Names])
  BY <1>1, <1>3 DEF Rename
<1> HIDE DEF r
<1>6. CASE FileRenamed
  <2>1. CASE client[r.t].here /\ client[r.t].id = r.id
    <3>1. client' = [client EXCEPT ![r.t].name[r.f] = r.to]
      BY <1>6, <2>1 DEF FileRenamed, r
    <3>2. client' \in [Torrents -> Handle]
      <4> DEFINE h == client[r.t]
      <4>1. h \in Handle
        BY <1>4 DEF TypeOK
      <4>2. client' = [client EXCEPT ![r.t] = [h EXCEPT !.name = [h.name EXCEPT ![r.f] = r.to]]]
        BY <3>1
      <4>3. [h EXCEPT !.name = [h.name EXCEPT ![r.f] = r.to]] \in Handle
        BY <4>1, <1>4 DEF Handle
      <4>4. QED
        BY <4>2, <4>3, <1>4, HandleType
    <3>3. disk' = disk \/ disk' = [disk EXCEPT ![r.t][r.f].at = r.to]
      BY <1>6, <2>1 DEF FileRenamed, r
    <3>4. disk' \in [Torrents -> [Files -> [at: Names \cup {"none"}, full: BOOLEAN]]]
      <4>1. disk[r.t][r.f] \in Where
        BY <1>4 DEF TypeOK, Where
      <4>2. [disk[r.t][r.f] EXCEPT !.at = r.to] \in Where
        BY <4>1, <1>4 DEF Where
      <4>3. disk' = disk \/ disk' = [disk EXCEPT ![r.t][r.f] = [disk[r.t][r.f] EXCEPT !.at = r.to]]
        BY <3>3, Zenon
      <4>4. [disk EXCEPT ![r.t][r.f] = [disk[r.t][r.f] EXCEPT !.at = r.to]]
              \in [Torrents -> [Files -> Where]]
        BY <4>2, <1>4, DiskType
      <4>5. disk \in [Torrents -> [Files -> Where]]
        BY DEF TypeOK, Where
      <4>6. QED
        BY <4>3, <4>4, <4>5 DEF Where
    <3>5. events' \in Seq([kind: Kinds, t: Torrents])
      <4>1. Emit("renamed", r.t)
        BY <1>6, <2>1 DEF FileRenamed, r
      <4>2. QED
        BY <4>1, <1>4, EmitType DEF Kinds
    <3>6. QED
      BY <1>5, <1>6, <3>2, <3>4, <3>5 DEF FileRenamed, TypeOK
  <2>2. CASE ~(client[r.t].here /\ client[r.t].id = r.id)
    BY <1>5, <1>6, <2>2 DEF FileRenamed, r, TypeOK
  <2>3. QED
    BY <2>1, <2>2
<1>7. CASE FileRenameFailed
  <2>1. Emit("renamed", r.t)
    BY <1>7 DEF FileRenameFailed, r
  <2>2. events' \in Seq([kind: Kinds, t: Torrents])
    BY <2>1, <1>4, EmitType DEF Kinds
  <2>3. odd' \in [Torrents -> SUBSET Oddities]
    BY <1>7, <1>4 DEF FileRenameFailed, r, TypeOK, Note, Oddities
  <2>4. QED
    BY <1>5, <1>7, <2>2, <2>3 DEF FileRenameFailed, TypeOK
<1>8. QED
  BY <1>6, <1>7

\* The local variables of an actor and what Goto, Done and Note make of them.
LEMMA Locals ==
    ASSUME TypeOK, NEW a \in Actors
    PROVE  /\ loc[a] \in Local
           /\ loc[a].t \in Torrents /\ loc[a].id \in Nat /\ loc[a].n \in Nat
           /\ loc[a].preparing \in BOOLEAN /\ loc[a].recheck \in BOOLEAN
           /\ loc[a].hasMeta \in BOOLEAN /\ loc[a].delete \in BOOLEAN
           /\ loc[a].todo \in Todo
<1>1. loc[a] \in Local
  BY DEF TypeOK
<1>2. QED
  BY <1>1 DEF Local

LEMMA GotoType ==
    ASSUME TypeOK, NEW a \in Actors, NEW label \in Labels, Goto(a, label)
    PROVE  pc' \in [Actors -> Labels]
BY DEF TypeOK, Goto

LEMMA LocType ==
    ASSUME TypeOK, NEW a \in Actors, NEW l \in Local, loc' = [loc EXCEPT ![a] = l]
    PROVE  loc' \in [Actors -> Local]
BY DEF TypeOK

LEMMA DoneType ==
    ASSUME TypeOK, NEW a \in Actors, Done(a)
    PROVE  pc' \in [Actors -> Labels] /\ loc' \in [Actors -> Local]
BY Values, GotoType, LocType DEF Done, Labels

LEMMA NoteType ==
    ASSUME TypeOK, NEW t \in Torrents, NEW what \in SUBSET Oddities, Note(t, what)
    PROVE  odd' \in [Torrents -> SUBSET Oddities]
BY DEF TypeOK, Note

LEMMA EntryType ==
    ASSUME TypeOK, NEW t \in Torrents, NEW e \in Entry,
           sessions' = [sessions EXCEPT ![t] = e]
    PROVE  sessions' \in [Torrents -> Entry]
BY DEF TypeOK

LEMMA TypeRequests ==
    ASSUME TypeOK, NEW c \in Callers, Requests(c)
    PROVE  TypeOK'
<1> PICK t \in Torrents, flag \in BOOLEAN : Add(c, t, flag) \/ RemoveFromClient(c, t, flag)
  BY DEF Requests
<1> c \in Actors
  BY DEF Actors
<1>1. CASE Add(c, t, flag)
  <2>1. adds' \in [Torrents -> Nat]
    BY <1>1 DEF Add, TypeOK
  <2>2. client' \in [Torrents -> Handle]
    <3>1. adds[t] + 1 \in Nat
      BY DEF TypeOK
    <3>2. client' = client \/ client' = [client EXCEPT ![t] = FreshHandle(adds[t] + 1, flag)]
      BY <1>1 DEF Add
    <3>3. QED
      BY <3>1, <3>2, FreshHandleType, HandleType DEF TypeOK
  <2>3. pc' \in [Actors -> Labels]
    BY <1>1, GotoType DEF Add, Labels
  <2>4. loc' \in [Actors -> Local]
    <3>1. adds[t] + 1 \in Nat
      BY DEF TypeOK
    <3>2. [NoLocal EXCEPT !.t = t, !.id = adds[t] + 1] \in Local
      BY <3>1, Values DEF Local
    <3>3. QED
      BY <1>1, <3>2, LocType DEF Add
  <2>5. odd' \in [Torrents -> SUBSET Oddities]
    BY <1>1, NoteType DEF Add, Oddities
  <2>6. QED
    BY <1>1, <2>1, <2>2, <2>3, <2>4, <2>5 DEF Add, TypeOK
<1>2. CASE RemoveFromClient(c, t, flag)
  <2>1. client' \in [Torrents -> Handle]
    BY <1>2, Values, HandleType DEF RemoveFromClient
  <2>2. pc' \in [Actors -> Labels]
    BY <1>2, GotoType DEF RemoveFromClient, Labels
  <2>3. loc' \in [Actors -> Local]
    <3>1. client[t].meta \in BOOLEAN
      BY DEF TypeOK, Handle
    <3>2. [NoLocal EXCEPT !.t = t, !.delete = flag /\ client[t].meta] \in Local
      BY <3>1, Values DEF Local
    <3>3. QED
      BY <1>2, <3>2, LocType DEF RemoveFromClient
  <2>4. odd' \in [Torrents -> SUBSET Oddities]
    BY <1>2, NoteType DEF RemoveFromClient, Oddities
  <2>5. QED
    BY <1>2, <2>1, <2>2, <2>3, <2>4 DEF RemoveFromClient, TypeOK
<1>3. QED
  BY <1>1, <1>2

LEMMA TypeContinue ==
    ASSUME TypeOK, NEW a \in Actors, Continue(a)
    PROVE  TypeOK'
<1> DEFINE t == loc[a].t
<1> t \in Torrents
  BY Locals
<1> USE Locals
<1>e. sessions[t] \in Entry
  BY DEF TypeOK
<1>h. client[t] \in Handle
  BY DEF TypeOK
<1>1. CASE AddStatus(a)
  <2>2. [loc[a] EXCEPT !.hasMeta = client[t].here /\ client[t].meta] \in Local
    BY DEF TypeOK, Handle, Local
  <2>3. loc' \in [Actors -> Local]
    BY <1>1, <2>2, LocType DEF AddStatus
  <2>4. pc' \in [Actors -> Labels]
    BY <1>1, GotoType DEF AddStatus, Labels
  <2>5. QED
    BY <1>1, <2>3, <2>4 DEF AddStatus, TypeOK
<1>2. CASE AddInsert(a)
  <2>1. [NoEntry EXCEPT !.id = loc[a].id, !.preparing = TRUE] \in Entry
    BY Values DEF Entry
  <2>2. sessions' \in [Torrents -> Entry]
    BY <1>2, <2>1, EntryType DEF AddInsert, TypeOK
  <2>3. [loc[a] EXCEPT !.hasMeta = FALSE] \in Local
    BY DEF Local
  <2>4. pc' \in [Actors -> Labels] /\ loc' \in [Actors -> Local]
    BY <1>2, <2>3, DoneType, GotoType, LocType DEF AddInsert, Labels
  <2>5. QED
    BY <1>2, <2>2, <2>4 DEF AddInsert, TypeOK
<1>3. CASE OnMetadata(a)
  <2>1. sessions[t].id \in Nat /\ sessions[t].preparing \in BOOLEAN
    BY DEF TypeOK, Entry
  <2>2. [loc[a] EXCEPT !.id = sessions[t].id, !.preparing = sessions[t].preparing] \in Local
    BY <2>1 DEF Local
  <2>3. pc' \in [Actors -> Labels] /\ loc' \in [Actors -> Local]
    <3>1. CASE Known(t)
      <4>1. /\ Goto(a, "fix")
            /\ loc' = [loc EXCEPT ![a] = [loc[a] EXCEPT !.id = sessions[t].id,
                                           !.preparing = sessions[t].preparing]]
        BY <1>3, <3>1 DEF OnMetadata
      <4>2. QED
        BY <4>1, <2>2, GotoType, LocType DEF Labels
    <3>2. CASE ~Known(t)
      BY <1>3, <3>2, DoneType DEF OnMetadata
    <3>3. QED
      BY <3>1, <3>2
  <2>4. odd' \in [Torrents -> SUBSET Oddities]
    BY <1>3, NoteType DEF OnMetadata, Oddities, TypeOK
  <2>5. QED
    BY <1>3, <2>3, <2>4 DEF OnMetadata, TypeOK
<1>4. CASE FixPartNames(a)
  <2>1. Renames(t, loc[a].preparing) \in Todo
    BY DEF Renames, Todo
  <2>2. [loc[a] EXCEPT !.todo = Renames(t, loc[a].preparing)] \in Local
    BY <2>1 DEF Local
  <2>3. pc' \in [Actors -> Labels] /\ loc' \in [Actors -> Local]
    BY <1>4, <2>2, GotoType, LocType DEF FixPartNames, Labels
  <2>4. QED
    BY <1>4, <2>3 DEF FixPartNames, TypeOK
<1>5. CASE RenameFile(a)
  <2> PICK r \in loc[a].todo :
        /\ renames' = IF client[t].here THEN Append(renames, Request(t, r)) ELSE renames
        /\ loc' = [loc EXCEPT
              ![a].todo = @ \ {r},
              ![a].n = IF client[t].here THEN @ + 1 ELSE @,
              ![a].recheck = @ \/ (client[t].here /\ disk[t][r[1]].at = r[2])]
    BY <1>5 DEF RenameFile
  <2>1. Request(t, r) \in Rename
    <3>1. r \in Files \X Names
      BY DEF Todo
    <3>2. r[1] \in Files /\ r[2] \in Names /\ client[t].id \in Nat
      BY <3>1, <1>h DEF Handle
    <3>3. QED
      BY <3>2 DEF Request, Rename
  <2>2. renames' \in Seq([t: Torrents, id: Nat, f: Files, to: Names])
    <3>1. renames \in Seq(Rename)
      BY DEF TypeOK, Rename
    <3>2. renames' \in Seq(Rename)
      BY <2>1, <3>1
    <3>3. QED
      BY <3>2 DEF Rename
  <2> DEFINE l == [loc[a] EXCEPT
              !.todo = @ \ {r},
              !.n = IF client[t].here THEN @ + 1 ELSE @,
              !.recheck = @ \/ (client[t].here /\ disk[t][r[1]].at = r[2])]
  <2>3. l \in Local
    <3>1. (IF client[t].here THEN loc[a].n + 1 ELSE loc[a].n) \in Nat
      OBVIOUS
    <3>2. (loc[a].recheck \/ (client[t].here /\ disk[t][r[1]].at = r[2])) \in BOOLEAN
      OBVIOUS
    <3>3. loc[a].todo \ {r} \in Todo
      BY DEF Todo
    <3>4. \A n \in Nat, todo \in Todo, recheck \in BOOLEAN :
            [loc[a] EXCEPT !.todo = todo, !.n = n, !.recheck = recheck] \in Local
      BY DEF Local
    <3>5. QED
      BY <3>1, <3>2, <3>3, <3>4, Zenon
  <2>4. loc' = [loc EXCEPT ![a] = l]
    BY Zenon
  <2>5. loc' \in [Actors -> Local]
    <3>1. PICK new \in Local : loc' = [loc EXCEPT ![a] = new]
      BY <2>3, <2>4, Zenon
    <3>2. QED
      BY <3>1, LocType
  <2>6. pc' \in [Actors -> Labels]
    BY <1>5 DEF RenameFile, TypeOK
  <2>7. UNCHANGED <<sessions, client, disk, events, doomed, adds, refusals, odd>>
    BY <1>5 DEF RenameFile
  <2>8. QED
    BY <2>2, <2>5, <2>6, <2>7 DEF TypeOK
<1>6. CASE SetPending(a)
  <2>1. [sessions[t] EXCEPT !.pending = loc[a].n, !.recheck = loc[a].recheck] \in Entry
    BY <1>e DEF Entry
  <2>2. sessions' \in [Torrents -> Entry]
    BY <1>6, <2>1 DEF SetPending, TypeOK
  <2>3. [NoLocal EXCEPT !.t = t] \in Local
    BY Values DEF Local
  <2>4. pc' \in [Actors -> Labels] /\ loc' \in [Actors -> Local]
    BY <1>6, <2>3, DoneType, GotoType, LocType DEF SetPending, Labels
  <2>5. QED
    BY <1>6, <2>2, <2>4 DEF SetPending, TypeOK
<1>7. CASE FinishPreparing(a)
  <2>1. [sessions[t] EXCEPT !.preparing = FALSE, !.recheck = FALSE] \in Entry
    BY <1>e DEF Entry
  <2>2. sessions' \in [Torrents -> Entry]
    BY <1>7, <2>1 DEF FinishPreparing, TypeOK
  <2>3. pc' \in [Actors -> Labels]
    BY <1>7, GotoType DEF FinishPreparing, Labels
  <2>4. QED
    BY <1>7, <2>2, <2>3 DEF FinishPreparing, TypeOK
<1>8. CASE ForceRecheck(a)
  <2>1. [client[t] EXCEPT !.checking = TRUE] \in Handle
    BY <1>h DEF Handle
  <2>2. client' \in [Torrents -> Handle]
    BY <1>8, <2>1 DEF ForceRecheck, TypeOK
  <2>3. pc' \in [Actors -> Labels]
    BY <1>8, GotoType DEF ForceRecheck, Labels
  <2>4. QED
    BY <1>8, <2>2, <2>3 DEF ForceRecheck, TypeOK
<1>9. CASE LeaveUploadMode(a)
  <2>1. [client[t] EXCEPT !.upload = FALSE] \in Handle
    BY <1>h DEF Handle
  <2>2. client' \in [Torrents -> Handle]
    BY <1>9, <2>1 DEF LeaveUploadMode, TypeOK
  <2>3. QED
    BY <1>9, <2>2, DoneType DEF LeaveUploadMode, TypeOK
<1>10. CASE RemoveEntry(a)
  <2>1. sessions' \in [Torrents -> Entry]
    BY <1>10, Values, EntryType DEF RemoveEntry
  <2>2. doomed' \in SUBSET Torrents
    BY <1>10 DEF RemoveEntry, TypeOK
  <2>3. odd' \in [Torrents -> SUBSET Oddities]
    BY <1>10, NoteType DEF RemoveEntry, Oddities
  <2>4. QED
    BY <1>10, <2>1, <2>2, <2>3, DoneType DEF RemoveEntry, TypeOK
<1>11. QED
  BY <1>1, <1>2, <1>3, <1>4, <1>5, <1>6, <1>7, <1>8, <1>9, <1>10 DEF Continue

\* What the loop does when it takes an event.
LEMMA TypeEvents ==
    ASSUME TypeOK, HandleEvents
    PROVE  TypeOK'
<1> DEFINE t == Head(events).t
<1>1. t \in Torrents /\ events' \in Seq([kind: Kinds, t: Torrents])
  <2>1. events # <<>> /\ events' = Tail(events)
    BY DEF HandleEvents, HandleMetadata, HandleProgress, HandleRenamed, NextOfKind
  <2>2. events \in Seq(Event)
    BY DEF TypeOK, Event
  <2>3. Head(events) \in Event /\ Tail(events) \in Seq(Event)
    BY <2>1, <2>2
  <2>4. QED
    BY <2>1, <2>3 DEF Event
<1> HIDE DEF t
<1>2. Loop \in Actors /\ [NoLocal EXCEPT !.t = t] \in Local
  BY <1>1, Values DEF Actors, Local
<1>3. ASSUME NEW label \in Labels, LoopTakes(label, t)
      PROVE  pc' \in [Actors -> Labels] /\ loc' \in [Actors -> Local]
  BY <1>2, <1>3, GotoType, LocType DEF LoopTakes
<1>4. CASE HandleMetadata
  <2>1. odd' \in [Torrents -> SUBSET Oddities]
    BY <1>1, <1>4, NoteType DEF HandleMetadata, Unlisted, Oddities, t
  <2>2. pc' \in [Actors -> Labels] /\ loc' \in [Actors -> Local]
    BY <1>3, <1>4 DEF HandleMetadata, Labels, t
  <2>3. QED
    BY <1>1, <1>4, <2>1, <2>2 DEF HandleMetadata, TypeOK
<1>5. CASE HandleProgress
  <2>1. odd' \in [Torrents -> SUBSET Oddities]
    BY <1>1, <1>5, NoteType DEF HandleProgress, Unlisted, Oddities, t
  <2>2. renames' \in Seq([t: Torrents, id: Nat, f: Files, to: Names])
    BY <1>1, <1>5, PutNamesRightType DEF HandleProgress, Rename, TypeOK, t
  <2>3. QED
    BY <1>1, <1>5, <2>1, <2>2 DEF HandleProgress, TypeOK
<1>6. CASE HandleRenamed
  <2>1. odd' \in [Torrents -> SUBSET Oddities]
    BY <1>1, <1>6, NoteType DEF HandleRenamed, Oddities, t
  <2>2. sessions' \in [Torrents -> Entry]
    <3>1. sessions[t].pending > 0 =>
            [sessions[t] EXCEPT !.pending = @ - 1] \in Entry
      <4>1. sessions[t] \in Entry
        BY <1>1 DEF TypeOK
      <4>2. QED
        BY <4>1 DEF Entry
    <3>2. \/ sessions' = sessions
          \/ /\ sessions[t].pending > 0
             /\ sessions' = [sessions EXCEPT ![t] = [sessions[t] EXCEPT !.pending = @ - 1]]
      BY <1>6 DEF HandleRenamed, t
    <3>3. QED
      BY <3>1, <3>2, <1>1, EntryType DEF TypeOK
  <2>3. pc' \in [Actors -> Labels] /\ loc' \in [Actors -> Local]
    BY <1>3, <1>6 DEF HandleRenamed, Labels, TypeOK, t
  <2>4. QED
    BY <1>1, <1>6, <2>1, <2>2, <2>3 DEF HandleRenamed, TypeOK
<1>7. QED
  BY <1>4, <1>5, <1>6 DEF HandleEvents

LEMMA TypeStep == TypeOK /\ [Next]_vars => TypeOK'
<1> SUFFICES ASSUME TypeOK, [Next]_vars PROVE TypeOK'
  OBVIOUS
<1>1. ASSUME NEW t \in Torrents, HealPartNames(t) PROVE TypeOK'
  <2>1. renames' \in Seq([t: Torrents, id: Nat, f: Files, to: Names])
    BY <1>1, PutNamesRightType DEF HealPartNames, Rename
  <2>2. QED
    BY <1>1, <2>1 DEF HealPartNames, TypeOK
<1>2. CASE UNCHANGED vars
  BY <1>2 DEF vars, TypeOK
<1>3. QED
  BY <1>1, <1>2, TypeClient, TypeRenames, TypeRequests, TypeContinue, TypeEvents DEF Next

\* The state keeps its types; in particular no renaming event makes
\* pendingRenames negative (onRenamed in files.go).
THEOREM TypeCorrect == Spec => []TypeOK
BY TypeInit, TypeStep, PTL DEF Spec
-----------------------------------------------------------------------------
(* A torrent that is preparing downloads nothing *)

Clean(t) == "crossed" \notin odd[t] /\ "readded" \notin odd[t]

\* What keeps PreparingHolds true: an actor about to let a torrent go has
\* written down that it is prepared, and a torrent without an entry, about to
\* get one, is in upload mode too.
Held(t) ==
    client[t].here /\ (Known(t) => sessions[t].preparing) => client[t].upload

Working(a, t) ==
    loc[a].t = t =>
        /\ pc[a] \in {"fix", "rename", "finish", "recheck", "start"} => Known(t)
        /\ pc[a] \in {"recheck", "start"} => ~sessions[t].preparing
        /\ pc[a] = "drop" => ~client[t].here

Adding(a) == pc[a] \in {"status", "insert"} => loc[a].id # 0

PreparingInv ==
    /\ \A a \in Actors : Adding(a)
    /\ \A t \in Torrents : Clean(t) => Held(t) /\ \A a \in Actors : Working(a, t)

\* Nothing that befell a torrent is forgotten.
LEMMA OddGrows ==
    ASSUME TypeOK, [Next]_vars, NEW t \in Torrents
    PROVE  odd[t] \subseteq odd'[t]
<1>1. ASSUME NEW u \in Torrents, NEW what, Note(u, what) PROVE odd[t] \subseteq odd'[t]
  BY <1>1 DEF Note, TypeOK
<1>2. ASSUME NEW c \in Callers, Requests(c) PROVE odd[t] \subseteq odd'[t]
  BY <1>1, <1>2 DEF Requests, Add, RemoveFromClient
<1>3. ASSUME NEW a \in Actors, Continue(a) PROVE odd[t] \subseteq odd'[t]
  <2>1. loc[a].t \in Torrents
    BY Locals
  <2>2. QED
    BY <1>1, <1>3, <2>1 DEF Continue, AddStatus, AddInsert, OnMetadata, FixPartNames,
       RenameFile, SetPending, FinishPreparing, ForceRecheck, LeaveUploadMode, RemoveEntry
<1>4. ASSUME HandleEvents PROVE odd[t] \subseteq odd'[t]
  <2>1. events # <<>> /\ events \in Seq(Event)
    BY <1>4 DEF HandleEvents, HandleMetadata, HandleProgress, HandleRenamed, NextOfKind,
       TypeOK, Event
  <2>2. Head(events) \in Event
    BY <2>1
  <2>3. QED
    BY <1>1, <1>4, <2>2 DEF HandleEvents, HandleMetadata, HandleProgress, HandleRenamed, Event
<1>5. ASSUME FileRenamed \/ FileRenameFailed PROVE odd[t] \subseteq odd'[t]
  <2>1. renames # <<>> /\ renames \in Seq(Rename)
    BY <1>5 DEF FileRenamed, FileRenameFailed, TypeOK, Rename
  <2>2. Head(renames) \in Rename
    BY <2>1
  <2>3. QED
    BY <1>1, <1>5, <2>2 DEF FileRenamed, FileRenameFailed, Rename
<1>6. ASSUME NEW u \in Torrents, HealPartNames(u) \/ Client(u)
      PROVE  odd[t] \subseteq odd'[t]
  BY <1>6 DEF HealPartNames, Client, MetadataReceived, TorrentChecked, DeleteWithRetry,
     PieceWritten, FileCompleted
<1>7. CASE UNCHANGED vars
  BY <1>7 DEF vars
<1>8. QED
  BY <1>2, <1>3, <1>4, <1>5, <1>6, <1>7 DEF Next

\* A step that leaves the entries and the actors alone, and the client's
\* handles where they are, disturbs nothing.
LEMMA PreparingFrame ==
    ASSUME TypeOK, [Next]_vars, PreparingInv, UNCHANGED <<sessions, pc, loc>>,
           \A t \in Torrents : client'[t].here = client[t].here
                               /\ client'[t].upload = client[t].upload
    PROVE  PreparingInv'
BY OddGrows DEF PreparingInv, Adding, Held, Working, Clean, Known

\* What the client does by itself moves no handle in or out of upload mode.
LEMMA ClientFrame ==
    ASSUME TypeOK, NEW u \in Torrents,
           Client(u) \/ HealPartNames(u) \/ FileRenamed \/ FileRenameFailed
    PROVE  /\ UNCHANGED <<sessions, pc, loc>>
           /\ \A t \in Torrents : /\ client'[t].here = client[t].here
                                  /\ client'[t].upload = client[t].upload
<1>1. client \in [Torrents -> Handle]
  BY DEF TypeOK
<1> DEFINE h == client[u]
<1>2. CASE MetadataReceived(u) \/ TorrentChecked(u)
  <2> DEFINE found == [f \in Files |-> disk[u][f].full /\ disk[u][f].at = client[u].name[f]]
  <2>1. \/ client' = [client EXCEPT ![u] = [h EXCEPT !.meta = TRUE, !.checking = TRUE]]
        \/ client' = [client EXCEPT ![u] = [h EXCEPT !.checking = FALSE, !.done = found]]
    BY <1>2 DEF MetadataReceived, TorrentChecked
  <2> HIDE DEF found
  <2>2. client'[u].here = h.here /\ client'[u].upload = h.upload
    <3>1. \/ client'[u] = [h EXCEPT !.meta = TRUE, !.checking = TRUE]
          \/ client'[u] = [h EXCEPT !.checking = FALSE, !.done = found]
      BY <1>1, <2>1
    <3>2. h \in Handle
      BY <1>1
    <3>3. QED
      BY <3>1, <3>2 DEF Handle
  <2>3. \A t \in Torrents \ {u} : client'[t] = client[t]
    BY <1>1, <2>1
  <2>4. QED
    BY <1>2, <2>2, <2>3 DEF MetadataReceived, TorrentChecked
<1>3. ASSUME NEW f \in Files, FileCompleted(u, f)
      PROVE  /\ UNCHANGED <<sessions, pc, loc>>
             /\ \A t \in Torrents : /\ client'[t].here = client[t].here
                                    /\ client'[t].upload = client[t].upload
  BY <1>1, <1>3 DEF FileCompleted, Handle
<1>4. CASE FileRenamed
  BY <1>1, <1>4 DEF FileRenamed, Handle
<1>5. CASE \/ HealPartNames(u) \/ FileRenameFailed \/ DeleteWithRetry(u)
           \/ \E f \in Files : PieceWritten(u, f)
  BY <1>5 DEF HealPartNames, FileRenameFailed, DeleteWithRetry, PieceWritten
<1>6. QED
  BY <1>2, <1>3, <1>4, <1>5 DEF Client

LEMMA PreparingRequests ==
    ASSUME TypeOK, PreparingInv, [Next]_vars, NEW c \in Callers, Requests(c)
    PROVE  PreparingInv'
<1> PICK u \in Torrents, flag \in BOOLEAN : Add(c, u, flag) \/ RemoveFromClient(c, u, flag)
  BY DEF Requests
<1> c \in Actors
  BY DEF Actors
<1>t. /\ pc \in [Actors -> Labels] /\ loc \in [Actors -> Local]
      /\ client \in [Torrents -> Handle] /\ odd \in [Torrents -> SUBSET Oddities]
      /\ adds \in [Torrents -> Nat]
  BY DEF TypeOK
<1>g. \A t \in Torrents : Clean(t)' => Clean(t)
  BY OddGrows DEF Clean
<1>1. CASE Add(c, u, flag)
  <2>1. /\ pc' = [pc EXCEPT ![c] = "status"]
        /\ loc' = [loc EXCEPT ![c] = [NoLocal EXCEPT !.t = u, !.id = adds[u] + 1]]
        /\ sessions' = sessions /\ pc[c] = "idle"
    BY <1>1 DEF Add, Goto
  <2>2. loc'[c].t = u /\ loc'[c].id # 0 /\ pc'[c] = "status"
    <3>1. adds[u] + 1 # 0
      BY <1>t
    <3>2. QED
      BY <2>1, <3>1, <1>t DEF NoLocal
  <2>3. \A a \in Actors \ {c} : pc'[a] = pc[a] /\ loc'[a] = loc[a]
    BY <2>1, <1>t
  <2>4. \/ client' = client
        \/ /\ client'[u].upload
           /\ \A t \in Torrents \ {u} : client'[t] = client[t]
    <3>1. adds[u] + 1 \in Nat
      BY <1>t
    <3>2. QED
      BY <1>1, <3>1, <1>t, FreshHandleType DEF Add
  <2>5. Clean(u)' => \A a \in Actors \ {c} : ~(pc[a] = "drop" /\ loc[a].t = u)
    BY <1>1, <1>t DEF Add, Note, Others, Clean, Oddities
  <2>6. \A a \in Actors : Adding(a)'
    BY <2>2, <2>3 DEF PreparingInv, Adding
  <2>7. ASSUME NEW t \in Torrents, Clean(t)'
        PROVE  Held(t)' /\ \A a \in Actors : Working(a, t)'
    BY <1>g, <2>1, <2>2, <2>3, <2>4, <2>5, <2>7 DEF PreparingInv, Held, Working, Known
  <2>8. QED
    BY <2>6, <2>7 DEF PreparingInv
<1>2. CASE RemoveFromClient(c, u, flag)
  <2>1. /\ pc' = [pc EXCEPT ![c] = "drop"]
        /\ loc' = [loc EXCEPT ![c] = [NoLocal EXCEPT !.t = u, !.delete = flag /\ client[u].meta]]
        /\ client' = [client EXCEPT ![u] = NoHandle]
        /\ sessions' = sessions
    BY <1>2 DEF RemoveFromClient, Goto
  <2>2. loc'[c].t = u /\ pc'[c] = "drop" /\ ~client'[u].here
    BY <2>1, <1>t DEF NoLocal, NoHandle
  <2>3. \A a \in Actors \ {c} : pc'[a] = pc[a] /\ loc'[a] = loc[a]
    BY <2>1, <1>t
  <2>4. \A t \in Torrents \ {u} : client'[t] = client[t]
    BY <2>1, <1>t
  <2>5. QED
    BY <1>g, <2>1, <2>2, <2>3, <2>4 DEF PreparingInv, Held, Working, Known, Adding
<1>3. QED
  BY <1>1, <1>2

\* An actor's steps, other than those of Remove, change its own label and
\* locals; what they make of the entry and the handle of its torrent is this.
LEMMA PreparingContinue ==
    ASSUME TypeOK, PreparingInv, [Next]_vars, NEW a \in Actors, Continue(a)
    PROVE  PreparingInv'
<1>u. PICK u \in Torrents : u = loc[a].t
  BY Locals
<1>t. /\ pc \in [Actors -> Labels] /\ loc \in [Actors -> Local]
      /\ client \in [Torrents -> Handle] /\ odd \in [Torrents -> SUBSET Oddities]
      /\ sessions \in [Torrents -> Entry]
      /\ u \in Torrents /\ sessions[u] \in Entry /\ client[u] \in Handle
  BY DEF TypeOK
<1>g. \A t \in Torrents : Clean(t)' => Clean(t)
  BY OddGrows DEF Clean
<1>n. NoLocal.t \in Torrents
  BY Values DEF Local
<1> DEFINE Mine ==
      \A b \in Actors \ {a} : pc'[b] = pc[b] /\ loc'[b] = loc[b]
<1>m. Mine
  BY <1>t, <1>u DEF Continue, AddStatus, AddInsert, OnMetadata, FixPartNames,
     RenameFile, SetPending, FinishPreparing, ForceRecheck, LeaveUploadMode, RemoveEntry,
     Goto, Done
<1>1. CASE AddStatus(a)
  <2>1. loc'[a].t = u /\ loc'[a].id = loc[a].id /\ pc[a] = "status" /\ pc'[a] = "insert"
    BY <1>1, <1>t, <1>u DEF AddStatus, Goto, Local
  <2>2. sessions' = sessions /\ client' = client
    BY <1>1 DEF AddStatus
  <2>3. QED
    BY <1>g, <1>m, <1>u, <2>1, <2>2 DEF PreparingInv, Held, Working, Known, Adding
<1>2. CASE AddInsert(a)
  <2>1. client' = client /\ pc[a] = "insert" /\ pc'[a] \in {"idle", "metadata"}
    BY <1>2, <1>t, <1>u DEF AddInsert, Goto, Done
  <2>2. \A t \in Torrents \ {u} : sessions'[t] = sessions[t]
    BY <1>2, <1>t, <1>u DEF AddInsert
  <2>3. \/ sessions'[u] = sessions[u]
        \/ ~Known(u) /\ sessions'[u].id = loc[a].id /\ sessions'[u].preparing
    <3>1. CASE Known(u)
      BY <1>2, <1>u, <3>1 DEF AddInsert
    <3>2. CASE ~Known(u)
      <4>1. sessions' = [sessions EXCEPT ![u] = [NoEntry EXCEPT !.id = loc[a].id, !.preparing = TRUE]]
        BY <1>2, <1>u, <3>2 DEF AddInsert
      <4>2. sessions'[u] = [NoEntry EXCEPT !.id = loc[a].id, !.preparing = TRUE]
        BY <1>t, <4>1
      <4>3. QED
        BY <3>2, <4>2 DEF NoEntry
    <3>3. QED
      BY <3>1, <3>2
  <2>4. \A b \in Actors : Adding(b)'
    BY <1>m, <2>1 DEF PreparingInv, Adding
  <2>5. ASSUME NEW t \in Torrents, Clean(t)'
        PROVE  Held(t)' /\ \A b \in Actors : Working(b, t)'
    <3>1. Held(t) /\ \A b \in Actors : Working(b, t)
      <4>1. Clean(t)
        BY <1>g, <2>5
      <4>2. QED
        BY <4>1 DEF PreparingInv
    <3>2. CASE t # u
      <4>1. client'[t] = client[t] /\ sessions'[t] = sessions[t]
        BY <2>1, <2>2, <3>2
      <4>2. Held(t)'
        BY <3>1, <4>1 DEF Held, Known
      <4>3. ASSUME NEW b \in Actors
            PROVE  Working(b, t)'
        <5>1. CASE b = a
          BY <2>1, <5>1 DEF Working
        <5>2. CASE b # a
          BY <1>m, <3>1, <4>1, <5>2 DEF Working, Known
        <5>3. QED
          BY <5>1, <5>2
      <4>4. QED
        BY <4>2, <4>3
    <3>3. CASE t = u
      <4>1. \/ sessions'[t] = sessions[t]
            \/ ~Known(t) /\ Known(t)' /\ sessions'[t].preparing
        <5>1. loc[a].id # 0
          BY <2>1 DEF PreparingInv, Adding
        <5>2. QED
          BY <2>3, <3>3, <5>1 DEF Known
      <4>2. Held(t)'
        BY <2>1, <3>1, <4>1 DEF Held, Known
      <4>3. ASSUME NEW b \in Actors
            PROVE  Working(b, t)'
        <5>1. CASE b = a
          BY <2>1, <5>1 DEF Working
        <5>2. CASE b # a
          BY <1>m, <2>1, <3>1, <4>1, <5>2 DEF Working, Known
        <5>3. QED
          BY <5>1, <5>2
      <4>4. QED
        BY <4>2, <4>3
    <3>4. QED
      BY <3>2, <3>3
  <2>6. QED
    BY <2>4, <2>5 DEF PreparingInv
<1>3. CASE OnMetadata(a) \/ FixPartNames(a) \/ RenameFile(a)
  <2>1. sessions' = sessions /\ client' = client
    BY <1>3 DEF OnMetadata, FixPartNames, RenameFile
  <2>2. pc'[a] # "idle" => /\ loc'[a].t = u
                           /\ pc'[a] \in {"fix", "rename"}
                           /\ Known(u) \/ pc[a] \in {"fix", "rename"}
    <3>1. CASE OnMetadata(a)
      <4>1. CASE Known(u)
        <5>1. /\ loc' = [loc EXCEPT ![a] = [loc[a] EXCEPT !.id = sessions[u].id,
                                            !.preparing = sessions[u].preparing]]
              /\ pc' = [pc EXCEPT ![a] = "fix"]
          BY <3>1, <4>1, <1>u DEF OnMetadata, Goto
        <5>2. loc[a] \in Local
          BY <1>t
        <5>3. loc'[a].t = u /\ pc'[a] = "fix"
          BY <5>1, <5>2, <1>t, <1>u DEF Local
        <5>4. QED
          BY <4>1, <5>3
      <4>2. CASE ~Known(u)
        BY <3>1, <4>2, <1>t, <1>u DEF OnMetadata, Goto, Done
      <4>3. QED
        BY <4>1, <4>2
    <3>2. CASE FixPartNames(a)
      BY <3>2, <1>t, <1>u DEF FixPartNames, Goto
    <3>3. CASE RenameFile(a)
      BY <3>3, <1>t, <1>u DEF RenameFile
    <3>4. QED
      BY <1>3, <3>1, <3>2, <3>3
  <2>3. QED
    BY <1>g, <1>m, <1>t, <1>u, <2>1, <2>2 DEF PreparingInv, Held, Working, Known, Adding
<1>4. CASE SetPending(a)
  <2>1. client' = client /\ pc[a] = "rename"
        /\ \A t \in Torrents : sessions'[t].id = sessions[t].id
                               /\ sessions'[t].preparing = sessions[t].preparing
    BY <1>4, <1>t, <1>u DEF SetPending, Entry
  <2>2. pc'[a] # "idle" => loc'[a].t = u /\ pc'[a] = "finish"
    BY <1>4, <1>t, <1>u DEF SetPending, Goto, Done, NoLocal
  <2>3. QED
    BY <1>g, <1>m, <1>t, <1>u, <2>1, <2>2 DEF PreparingInv, Held, Working, Known, Adding
<1>5. CASE FinishPreparing(a)
  <2>1. /\ client' = client /\ pc[a] = "finish" /\ loc' = loc
        /\ pc'[a] \in {"recheck", "start"}
        /\ \A t \in Torrents \ {u} : sessions'[t] = sessions[t]
        /\ sessions'[u].id = sessions[u].id /\ ~sessions'[u].preparing
    BY <1>5, <1>t, <1>u DEF FinishPreparing, Goto, Entry
  <2>2. QED
    BY <1>g, <1>m, <1>t, <1>u, <2>1 DEF PreparingInv, Held, Working, Known, Adding
<1>6. CASE ForceRecheck(a) \/ LeaveUploadMode(a)
  <2>1. /\ sessions' = sessions /\ pc[a] \in {"recheck", "start"}
        /\ pc'[a] # "idle" => pc[a] = "recheck" /\ pc'[a] = "start" /\ loc'[a] = loc[a]
    BY <1>6, <1>t, <1>u DEF ForceRecheck, LeaveUploadMode, Goto, Done
  <2>2. /\ \A t \in Torrents \ {u} : client'[t] = client[t]
        /\ client'[u].here = client[u].here
    BY <1>6, <1>t, <1>u DEF ForceRecheck, LeaveUploadMode, Handle
  <2>3. QED
    BY <1>g, <1>m, <1>t, <1>u, <2>1, <2>2 DEF PreparingInv, Held, Working, Known, Adding
<1>7. CASE RemoveEntry(a)
  <2>1. /\ client' = client /\ pc[a] = "drop" /\ pc'[a] = "idle"
        /\ \A t \in Torrents \ {u} : sessions'[t] = sessions[t]
    BY <1>7, <1>t, <1>u DEF RemoveEntry, Goto, Done
  <2>2. Clean(u)' => \A b \in Actors \ {a} : pc[b] = "idle" \/ loc[b].t # u
    BY <1>7, <1>t, <1>u DEF RemoveEntry, Note, Others, Clean, Oddities
  <2>3. QED
    BY <1>g, <1>m, <1>t, <1>u, <2>1, <2>2 DEF PreparingInv, Held, Working, Known, Adding
<1>8. QED
  BY <1>1, <1>2, <1>3, <1>4, <1>5, <1>6, <1>7 DEF Continue

LEMMA PreparingEvents ==
    ASSUME TypeOK, PreparingInv, [Next]_vars, HandleEvents
    PROVE  PreparingInv'
<1> DEFINE u == Head(events).t
<1>t. /\ pc \in [Actors -> Labels] /\ loc \in [Actors -> Local]
      /\ sessions \in [Torrents -> Entry] /\ Loop \in Actors
  BY DEF TypeOK, Actors
<1>u. u \in Torrents
  <2>1. events # <<>> /\ events \in Seq(Event)
    BY DEF HandleEvents, HandleMetadata, HandleProgress, HandleRenamed, NextOfKind,
       TypeOK, Event
  <2>2. Head(events) \in Event
    BY <2>1
  <2>3. QED
    BY <2>2 DEF Event
<1> HIDE DEF u
<1>g. \A t \in Torrents : Clean(t)' => Clean(t)
  BY OddGrows DEF Clean
<1>1. CASE HandleMetadata
  <2>1. /\ UNCHANGED <<sessions, client>>
        /\ pc'[Loop] = "metadata"
        /\ \A b \in Actors \ {Loop} : pc'[b] = pc[b] /\ loc'[b] = loc[b]
    BY <1>1, <1>t DEF HandleMetadata, LoopTakes, Goto
  <2>2. QED
    BY <1>g, <1>t, <2>1 DEF PreparingInv, Held, Working, Known, Adding
<1>2. CASE HandleProgress
  <2>1. UNCHANGED <<sessions, client, pc, loc>>
    BY <1>2 DEF HandleProgress
  <2>2. QED
    BY <2>1, PreparingFrame
<1>3. CASE HandleRenamed
  <2>1. /\ client' = client
        /\ \A t \in Torrents : sessions'[t].id = sessions[t].id
                               /\ sessions'[t].preparing = sessions[t].preparing
    BY <1>3, <1>t DEF HandleRenamed, Entry
  <2>2. \/ UNCHANGED <<pc, loc>>
        \/ /\ Known(u) /\ pc'[Loop] = "finish" /\ loc'[Loop].t = u
           /\ \A b \in Actors \ {Loop} : pc'[b] = pc[b] /\ loc'[b] = loc[b]
    BY <1>3, <1>t DEF HandleRenamed, LoopTakes, Goto, NoLocal, IsPreparing, u
  <2>3. QED
    BY <1>g, <1>t, <1>u, <2>1, <2>2 DEF PreparingInv, Held, Working, Known, Adding
<1>4. QED
  BY <1>1, <1>2, <1>3 DEF HandleEvents

LEMMA PreparingStep == TypeOK /\ PreparingInv /\ [Next]_vars => PreparingInv'
<1> SUFFICES ASSUME TypeOK, PreparingInv, [Next]_vars PROVE PreparingInv'
  OBVIOUS
<1>1. ASSUME NEW t \in Torrents, HealPartNames(t) \/ Client(t) PROVE PreparingInv'
  BY <1>1, ClientFrame, PreparingFrame
<1>2. CASE FileRenamed \/ FileRenameFailed
  <2>1. PICK t \in Torrents : TRUE
    BY EngineAssumption
  <2>2. QED
    BY <1>2, <2>1, ClientFrame, PreparingFrame
<1>3. CASE UNCHANGED vars
  BY <1>3, PreparingFrame DEF vars
<1>4. QED
  BY <1>1, <1>2, <1>3, PreparingRequests, PreparingContinue, PreparingEvents DEF Next

LEMMA PreparingInit == Init => PreparingInv
BY DEF Init, PreparingInv, Held, Working, Adding, NoHandle

LEMMA PreparingImplies == TypeOK /\ PreparingInv => PreparingHolds
BY DEF PreparingInv, PreparingHolds, Held, Clean, IsPreparing, TypeOK

\* While an entry says preparing, libtorrent has the torrent in upload mode, for
\* any number of torrents, files and requests (add, finishPreparing).
THEOREM PreparingCorrect == Spec => []PreparingHolds
BY TypeCorrect, PreparingInit, PreparingStep, PreparingImplies, PTL DEF Spec
-----------------------------------------------------------------------------
(* The entries and the client agree *)

\* While the two differ somebody is on the way to bring them together: an add
\* that has not written its entry, or a Remove that has not deleted it.
AddsWhatIsHere(a, t) ==
    loc[a].t = t => /\ pc[a] \in {"status", "insert"} => client[t].here
                    /\ pc[a] = "drop" => ~client[t].here

BroughtTogether(t) ==
    /\ Known(t) /\ ~client[t].here =>
         \E a \in Actors : pc[a] = "drop" /\ loc[a].t = t
    /\ ~Known(t) /\ client[t].here =>
         \E a \in Actors : pc[a] \in {"status", "insert"} /\ loc[a].t = t

EntriesInv ==
    /\ \A a \in Actors : Adding(a)
    /\ \A t \in Torrents : "crossed" \notin odd[t] =>
         BroughtTogether(t) /\ \A a \in Actors : AddsWhatIsHere(a, t)

LEMMA EntriesFrame ==
    ASSUME TypeOK, [Next]_vars, EntriesInv, UNCHANGED <<pc, loc>>,
           \A t \in Torrents : /\ client'[t].here = client[t].here
                               /\ sessions'[t].id = sessions[t].id
    PROVE  EntriesInv'
BY OddGrows DEF EntriesInv, Adding, BroughtTogether, AddsWhatIsHere, Known

LEMMA EntriesRequests ==
    ASSUME TypeOK, EntriesInv, [Next]_vars, NEW c \in Callers, Requests(c)
    PROVE  EntriesInv'
<1> PICK u \in Torrents, flag \in BOOLEAN : Add(c, u, flag) \/ RemoveFromClient(c, u, flag)
  BY DEF Requests
<1> c \in Actors
  BY DEF Actors
<1>t. /\ pc \in [Actors -> Labels] /\ loc \in [Actors -> Local]
      /\ client \in [Torrents -> Handle] /\ odd \in [Torrents -> SUBSET Oddities]
      /\ adds \in [Torrents -> Nat]
  BY DEF TypeOK
<1>g. \A t \in Torrents : "crossed" \notin odd'[t] => "crossed" \notin odd[t]
  BY OddGrows
<1>1. CASE Add(c, u, flag)
  <2>1. /\ pc' = [pc EXCEPT ![c] = "status"]
        /\ loc' = [loc EXCEPT ![c] = [NoLocal EXCEPT !.t = u, !.id = adds[u] + 1]]
        /\ sessions' = sessions /\ pc[c] = "idle"
    BY <1>1 DEF Add, Goto
  <2>2. loc'[c].t = u /\ loc'[c].id # 0 /\ pc'[c] = "status"
    <3>1. adds[u] + 1 # 0
      BY <1>t
    <3>2. QED
      BY <2>1, <3>1, <1>t DEF NoLocal
  <2>3. \A a \in Actors \ {c} : pc'[a] = pc[a] /\ loc'[a] = loc[a]
    BY <2>1, <1>t
  <2>4. client'[u].here /\ \A t \in Torrents \ {u} : client'[t] = client[t]
    <3>1. adds[u] + 1 \in Nat
      BY <1>t
    <3>2. QED
      BY <1>1, <3>1, <1>t, FreshHandleType DEF Add
  <2>5. "crossed" \notin odd'[u] => \A a \in Actors \ {c} : ~(pc[a] = "drop" /\ loc[a].t = u)
    BY <1>1, <1>t DEF Add, Note, Others, Oddities
  <2>6. \A a \in Actors : Adding(a)'
    BY <2>2, <2>3 DEF EntriesInv, Adding
  <2>7. ASSUME NEW t \in Torrents, "crossed" \notin odd'[t]
        PROVE  BroughtTogether(t)' /\ \A a \in Actors : AddsWhatIsHere(a, t)'
    <3>1. BroughtTogether(t) /\ \A a \in Actors : AddsWhatIsHere(a, t)
      BY <1>g, <2>7 DEF EntriesInv
    <3>2. \A a \in Actors : AddsWhatIsHere(a, t)'
      BY <3>1, <2>1, <2>2, <2>3, <2>4, <2>5, <2>7 DEF AddsWhatIsHere
    <3>3. BroughtTogether(t)'
      BY <3>1, <2>1, <2>2, <2>3, <2>4, <2>5, <2>7 DEF BroughtTogether, Known
    <3>4. QED
      BY <3>2, <3>3
  <2>8. QED
    BY <2>6, <2>7 DEF EntriesInv
<1>2. CASE RemoveFromClient(c, u, flag)
  <2>1. /\ pc' = [pc EXCEPT ![c] = "drop"] /\ pc[c] = "idle"
        /\ loc' = [loc EXCEPT ![c] = [NoLocal EXCEPT !.t = u, !.delete = flag /\ client[u].meta]]
        /\ client' = [client EXCEPT ![u] = NoHandle]
        /\ sessions' = sessions
    BY <1>2 DEF RemoveFromClient, Goto
  <2>2. loc'[c].t = u /\ pc'[c] = "drop" /\ ~client'[u].here
    BY <2>1, <1>t DEF NoLocal, NoHandle
  <2>3. \A a \in Actors \ {c} : pc'[a] = pc[a] /\ loc'[a] = loc[a]
    BY <2>1, <1>t
  <2>4. \A t \in Torrents \ {u} : client'[t] = client[t]
    BY <2>1, <1>t
  <2>5. "crossed" \notin odd'[u] => \A a \in Actors \ {c} : pc[a] = "idle" \/ loc[a].t # u
    BY <1>2, <1>t DEF RemoveFromClient, Note, Others, Oddities
  <2>6. \A a \in Actors : Adding(a)'
    BY <2>2, <2>3 DEF EntriesInv, Adding
  <2>7. ASSUME NEW t \in Torrents, "crossed" \notin odd'[t]
        PROVE  BroughtTogether(t)' /\ \A a \in Actors : AddsWhatIsHere(a, t)'
    <3>1. BroughtTogether(t) /\ \A a \in Actors : AddsWhatIsHere(a, t)
      BY <1>g, <2>7 DEF EntriesInv
    <3>2. \A a \in Actors : AddsWhatIsHere(a, t)'
      BY <3>1, <2>1, <2>2, <2>3, <2>4, <2>5, <2>7 DEF AddsWhatIsHere
    <3>3. BroughtTogether(t)'
      BY <3>1, <2>1, <2>2, <2>3, <2>4, <2>5, <2>7 DEF BroughtTogether, Known
    <3>4. QED
      BY <3>2, <3>3
  <2>8. QED
    BY <2>6, <2>7 DEF EntriesInv
<1>3. QED
  BY <1>1, <1>2

LEMMA EntriesContinue ==
    ASSUME TypeOK, EntriesInv, [Next]_vars, NEW a \in Actors, Continue(a)
    PROVE  EntriesInv'
<1>u. PICK u \in Torrents : u = loc[a].t
  BY Locals
<1>t. /\ pc \in [Actors -> Labels] /\ loc \in [Actors -> Local]
      /\ client \in [Torrents -> Handle] /\ odd \in [Torrents -> SUBSET Oddities]
      /\ sessions \in [Torrents -> Entry]
      /\ sessions[u] \in Entry /\ client[u] \in Handle /\ loc[a] \in Local
  BY <1>u DEF TypeOK
<1>g. \A t \in Torrents : "crossed" \notin odd'[t] => "crossed" \notin odd[t]
  BY OddGrows
<1>m. \A b \in Actors \ {a} : pc'[b] = pc[b] /\ loc'[b] = loc[b]
  BY <1>t DEF Continue, AddStatus, AddInsert, OnMetadata, FixPartNames,
     RenameFile, SetPending, FinishPreparing, ForceRecheck, LeaveUploadMode, RemoveEntry,
     Goto, Done
<1>s. ASSUME \A t \in Torrents : client'[t].here = client[t].here
                                 /\ sessions'[t].id = sessions[t].id,
             pc[a] \notin {"status", "insert", "drop"},
             pc'[a] \notin {"status", "insert", "drop"}
      PROVE  EntriesInv'
  BY <1>g, <1>m, <1>s DEF EntriesInv, BroughtTogether, AddsWhatIsHere, Known, Adding
<1>1. CASE AddStatus(a)
  <2>1. loc'[a].t = u /\ loc'[a].id = loc[a].id /\ pc[a] = "status" /\ pc'[a] = "insert"
    BY <1>1, <1>t, <1>u DEF AddStatus, Goto, Local
  <2>2. sessions' = sessions /\ client' = client
    BY <1>1 DEF AddStatus
  <2>3. QED
    BY <1>g, <1>m, <1>u, <2>1, <2>2 DEF EntriesInv, BroughtTogether, AddsWhatIsHere, Known, Adding
<1>2. CASE AddInsert(a)
  <2>1. client' = client /\ pc[a] = "insert" /\ pc'[a] \in {"idle", "metadata"}
    BY <1>2, <1>t DEF AddInsert, Goto, Done
  <2>2. \A t \in Torrents \ {u} : sessions'[t] = sessions[t]
    BY <1>2, <1>t, <1>u DEF AddInsert
  <2>3. Known(u)'
    <3>1. CASE Known(u)
      BY <1>2, <3>1, <1>u DEF AddInsert, Known
    <3>2. CASE ~Known(u)
      <4>1. sessions' = [sessions EXCEPT ![u] = [NoEntry EXCEPT !.id = loc[a].id, !.preparing = TRUE]]
        BY <1>2, <3>2, <1>u DEF AddInsert
      <4>2. sessions'[u].id = loc[a].id
        BY <4>1, <1>t DEF NoEntry
      <4>3. QED
        BY <2>1, <4>2 DEF EntriesInv, Adding, Known
    <3>3. QED
      BY <3>1, <3>2
  <2>4. QED
    BY <1>g, <1>m, <1>u, <2>1, <2>2, <2>3
       DEF EntriesInv, BroughtTogether, AddsWhatIsHere, Known, Adding
<1>3. CASE OnMetadata(a) \/ FixPartNames(a) \/ RenameFile(a)
  <2>1. /\ sessions' = sessions /\ client' = client
        /\ pc[a] \in {"metadata", "fix", "rename"} /\ pc'[a] \in {"idle", "fix", "rename"}
    BY <1>3, <1>t DEF OnMetadata, FixPartNames, RenameFile, Goto, Done
  <2>2. QED
    BY <1>s, <2>1
<1>4. CASE SetPending(a)
  <2>1. client' = client /\ pc[a] = "rename" /\ pc'[a] \in {"idle", "finish"}
        /\ \A t \in Torrents : sessions'[t].id = sessions[t].id
    BY <1>4, <1>t, <1>u DEF SetPending, Goto, Done, Entry
  <2>2. QED
    BY <1>s, <2>1
<1>5. CASE FinishPreparing(a)
  <2>1. /\ client' = client /\ pc[a] = "finish" /\ pc'[a] \in {"recheck", "start"}
        /\ \A t \in Torrents : sessions'[t].id = sessions[t].id
    BY <1>5, <1>t, <1>u DEF FinishPreparing, Goto, Entry
  <2>2. QED
    BY <1>s, <2>1
<1>6. CASE ForceRecheck(a) \/ LeaveUploadMode(a)
  <2>1. /\ sessions' = sessions /\ pc[a] \in {"recheck", "start"}
        /\ pc'[a] \in {"idle", "start"}
    BY <1>6, <1>t DEF ForceRecheck, LeaveUploadMode, Goto, Done
  <2>2. \A t \in Torrents : client'[t].here = client[t].here
    <3>1. /\ \A t \in Torrents \ {u} : client'[t] = client[t]
          /\ client'[u].here = client[u].here
      BY <1>6, <1>t, <1>u DEF ForceRecheck, LeaveUploadMode, Handle
    <3>2. QED
      BY <3>1
  <2>3. QED
    BY <1>s, <2>1, <2>2
<1>7. CASE RemoveEntry(a)
  <2>1. /\ client' = client /\ pc[a] = "drop" /\ pc'[a] = "idle"
        /\ \A t \in Torrents \ {u} : sessions'[t] = sessions[t]
        /\ sessions'[u].id = 0
    BY <1>7, <1>t, <1>u DEF RemoveEntry, Goto, Done, NoEntry
  <2>2. "crossed" \notin odd'[u] => \A b \in Actors \ {a} : pc[b] = "idle" \/ loc[b].t # u
    BY <1>7, <1>t, <1>u DEF RemoveEntry, Note, Others, Oddities
  <2>3. QED
    BY <1>g, <1>m, <1>t, <1>u, <2>1, <2>2
       DEF EntriesInv, BroughtTogether, AddsWhatIsHere, Known, Adding
<1>8. QED
  BY <1>1, <1>2, <1>3, <1>4, <1>5, <1>6, <1>7 DEF Continue

LEMMA EntriesEvents ==
    ASSUME TypeOK, EntriesInv, [Next]_vars, HandleEvents
    PROVE  EntriesInv'
<1>t. /\ pc \in [Actors -> Labels] /\ loc \in [Actors -> Local]
      /\ sessions \in [Torrents -> Entry] /\ Loop \in Actors
  BY DEF TypeOK, Actors
<1>g. \A t \in Torrents : "crossed" \notin odd'[t] => "crossed" \notin odd[t]
  BY OddGrows
<1>1. client' = client /\ \A t \in Torrents : sessions'[t].id = sessions[t].id
  BY <1>t DEF HandleEvents, HandleMetadata, HandleProgress, HandleRenamed, Entry
<1>2. /\ pc[Loop] = "idle" /\ pc'[Loop] \in {"idle", "metadata", "finish"}
      /\ \A b \in Actors \ {Loop} : pc'[b] = pc[b] /\ loc'[b] = loc[b]
  BY <1>t DEF HandleEvents, HandleMetadata, HandleProgress, HandleRenamed, NextOfKind,
     LoopTakes, Goto
<1>3. QED
  BY <1>g, <1>t, <1>1, <1>2 DEF EntriesInv, BroughtTogether, AddsWhatIsHere, Known, Adding

LEMMA EntriesStep == TypeOK /\ EntriesInv /\ [Next]_vars => EntriesInv'
<1> SUFFICES ASSUME TypeOK, EntriesInv, [Next]_vars PROVE EntriesInv'
  OBVIOUS
<1>1. ASSUME NEW t \in Torrents, HealPartNames(t) \/ Client(t) PROVE EntriesInv'
  BY <1>1, ClientFrame, EntriesFrame
<1>2. CASE FileRenamed \/ FileRenameFailed
  <2>1. PICK t \in Torrents : TRUE
    BY EngineAssumption
  <2>2. QED
    BY <1>2, <2>1, ClientFrame, EntriesFrame
<1>3. CASE UNCHANGED vars
  BY <1>3, EntriesFrame DEF vars
<1>4. QED
  BY <1>1, <1>2, <1>3, EntriesRequests, EntriesContinue, EntriesEvents DEF Next

LEMMA EntriesInit == Init => EntriesInv
BY DEF Init, EntriesInv, BroughtTogether, AddsWhatIsHere, Adding, Known, NoHandle, NoEntry

LEMMA EntriesImplies == EntriesInv => EntriesMatchClient
BY DEF EntriesInv, EntriesMatchClient, BroughtTogether

\* Once nobody is at work on a torrent, the engine lists it exactly if the
\* client has it, whatever adds, removals and events went before, as long as no
\* Remove ran into another call (add and Remove in engine.go).
THEOREM EntriesCorrect == Spec => []EntriesMatchClient
BY TypeCorrect, EntriesInit, EntriesStep, EntriesImplies, PTL DEF Spec
-----------------------------------------------------------------------------
(* What is queued *)

\* The places of a queue that hold a member of a set.
Hits(s, S) == {i \in 1..Len(s) : s[i] \in S}

LEMMA HitsFinite ==
    ASSUME NEW S, NEW T, NEW s \in Seq(S)
    PROVE  IsFiniteSet(Hits(s, T)) /\ Cardinality(Hits(s, T)) \in Nat
<1>1. Len(s) \in Nat /\ 1 \in Int
  OBVIOUS
<1>2. IsFiniteSet(1..Len(s))
  BY <1>1, FS_Interval
<1>3. Hits(s, T) \in SUBSET (1..Len(s))
  BY DEF Hits
<1> QED BY <1>2, <1>3, FS_Subset, FS_CardinalityType

\* What appending a member, and taking the first one, adds and takes.
LEMMA HitsAppend ==
    ASSUME NEW S, NEW T, NEW s \in Seq(S), NEW x \in S
    PROVE  Cardinality(Hits(Append(s, x), T)) =
             Cardinality(Hits(s, T)) + (IF x \in T THEN 1 ELSE 0)
<1>1. /\ Len(Append(s, x)) = Len(s) + 1 /\ Len(s) \in Nat
      /\ \A i \in 1..Len(s) : Append(s, x)[i] = s[i]
      /\ Append(s, x)[Len(s) + 1] = x
  OBVIOUS
<1>2. Len(s) + 1 \notin Hits(s, T)
  BY <1>1 DEF Hits
<1>3. Hits(Append(s, x), T) = IF x \in T THEN Hits(s, T) \cup {Len(s) + 1} ELSE Hits(s, T)
  <2>1. ASSUME NEW i PROVE i \in 1..(Len(s) + 1) <=> i \in 1..Len(s) \/ i = Len(s) + 1
    BY <1>1
  <2> QED BY <1>1, <2>1 DEF Hits
<1>4. IsFiniteSet(Hits(s, T)) /\ Cardinality(Hits(s, T)) \in Nat
  BY HitsFinite
<1>5. Cardinality(Hits(s, T) \cup {Len(s) + 1}) = Cardinality(Hits(s, T)) + 1
  BY <1>2, <1>4, FS_AddElement
<1>6. CASE x \in T
  BY <1>3, <1>5, <1>6
<1>7. CASE x \notin T
  BY <1>3, <1>4, <1>7
<1> QED BY <1>6, <1>7

LEMMA HitsTail ==
    ASSUME NEW S, NEW T, NEW s \in Seq(S), s # <<>>
    PROVE  Cardinality(Hits(s, T)) =
             Cardinality(Hits(Tail(s), T)) + (IF Head(s) \in T THEN 1 ELSE 0)
<1> DEFINE A == Hits(Tail(s), T)
           B == Hits(s, T) \ {1}
           next == [i \in A |-> i + 1]
<1>1. /\ Len(s) \in Nat \ {0} /\ Tail(s) \in Seq(S) /\ Len(Tail(s)) = Len(s) - 1
      /\ \A i \in 1..(Len(s) - 1) : Tail(s)[i] = s[i + 1]
      /\ Head(s) = s[1]
  OBVIOUS
<1>2. next \in Bijection(A, B)
  <2>1. \A i \in A : i \in Nat /\ i + 1 \in B
    BY <1>1 DEF Hits
  <2>2. \A j \in B : j \in Nat /\ j - 1 \in A /\ next[j - 1] = j
    <3> SUFFICES ASSUME NEW j \in B PROVE j \in Nat /\ j - 1 \in A /\ next[j - 1] = j
      OBVIOUS
    <3>1. j \in 2..Len(s) /\ s[j] \in T
      BY <1>1 DEF Hits
    <3>2. j - 1 \in 1..(Len(s) - 1) /\ (j - 1) + 1 = j
      BY <1>1, <3>1
    <3>3. Tail(s)[j - 1] = s[j]
      BY <1>1, <3>2
    <3> QED BY <1>1, <3>1, <3>2, <3>3 DEF Hits
  <2>3. next \in [A -> B]
    BY <2>1
  <2>4. \A i, j \in A : next[i] = next[j] => i = j
    BY <2>1
  <2> HIDE DEF A, B, next
  <2> QED BY <2>2, <2>3, <2>4 DEF Bijection, Injection, Surjection, IsInjective
<1>3. IsFiniteSet(A) /\ IsFiniteSet(Hits(s, T)) /\ Cardinality(A) \in Nat
      /\ Cardinality(Hits(s, T)) \in Nat
  BY <1>1, HitsFinite
<1>4. Cardinality(B) = Cardinality(A)
  BY <1>2, <1>3, FS_Bijection DEF ExistsBijection
<1>5. 1 \in Hits(s, T) <=> Head(s) \in T
  BY <1>1 DEF Hits
<1>6. Cardinality(B) = IF 1 \in Hits(s, T) THEN Cardinality(Hits(s, T)) - 1
                                             ELSE Cardinality(Hits(s, T))
  BY <1>3, FS_RemoveElement
<1> HIDE DEF A, B
<1>7. CASE Head(s) \in T
  BY <1>3, <1>4, <1>5, <1>6, <1>7 DEF A
<1>8. CASE Head(s) \notin T
  BY <1>3, <1>4, <1>5, <1>6, <1>8 DEF A
<1> QED BY <1>7, <1>8

RenamesOf(t) == {r \in Rename : r.t = t}
RenamedOf(t) == {[kind |-> "renamed", t |-> t]}

\* The renames of t that are still to come, and how many of them onRenamed has
\* not counted: those and the events of those that were.
Queued(t) == {renames[i] : i \in Hits(renames, RenamesOf(t))}
Uncounted(t) == Cardinality(Hits(renames, RenamesOf(t))) + Cardinality(Hits(events, RenamedOf(t)))

MentionedIn(t) == \E i \in DOMAIN events : events[i].t = t
MetadataIn(t) == \E i \in DOMAIN events : events[i] = [kind |-> "metadata", t |-> t]

SameQueues(t) ==
    /\ Queued(t)' = Queued(t) /\ Uncounted(t)' = Uncounted(t)
    /\ MentionedIn(t)' => MentionedIn(t)
    /\ MetadataIn(t)' => MetadataIn(t)

LEMMA QueueTypes ==
    ASSUME TypeOK, NEW t \in Torrents
    PROVE  /\ renames \in Seq(Rename) /\ events \in Seq(Event)
           /\ Cardinality(Hits(renames, RenamesOf(t))) \in Nat
           /\ Cardinality(Hits(events, RenamedOf(t))) \in Nat
           /\ Uncounted(t) \in Nat
           /\ \A r : r \in Queued(t) <=> r.t = t /\ \E i \in 1..Len(renames) : renames[i] = r
           /\ Queued(t) \subseteq Rename
<1>1. renames \in Seq(Rename) /\ events \in Seq(Event)
  BY DEF TypeOK, Rename, Event
<1>2. /\ Cardinality(Hits(renames, RenamesOf(t))) \in Nat
      /\ Cardinality(Hits(events, RenamedOf(t))) \in Nat
  BY <1>1, HitsFinite
<1>3. \A i \in 1..Len(renames) : renames[i] \in Rename
  BY <1>1
<1>4. \A r : r \in Queued(t) <=> r.t = t /\ \E i \in 1..Len(renames) : renames[i] = r
  BY <1>3 DEF Queued, Hits, RenamesOf
<1> QED BY <1>1, <1>2, <1>3, <1>4 DEF Uncounted

LEMMA NothingQueued ==
    ASSUME TypeOK, NEW t \in Torrents, Uncounted(t) = 0
    PROVE  Queued(t) = {}
<1>1. Cardinality(Hits(renames, RenamesOf(t))) = 0
  BY QueueTypes DEF Uncounted
<1>2. Hits(renames, RenamesOf(t)) = {}
  BY <1>1, QueueTypes, HitsFinite, FS_EmptySet
<1> QED BY <1>2 DEF Queued

\* Emit, for an event of any kind.
LEMMA Emitted ==
    ASSUME TypeOK, NEW kind \in Kinds, NEW u \in Torrents, Emit(kind, u), renames' = renames,
           NEW t \in Torrents
    PROVE  /\ t # u => SameQueues(t)
           /\ kind # "renamed" => Uncounted(t)' = Uncounted(t)
           /\ Queued(t)' = Queued(t)
           /\ kind # "metadata" => (MetadataIn(t)' => MetadataIn(t))
<1> DEFINE e == [kind |-> kind, t |-> u]
<1>1. events' = Append(events, e) /\ e \in Event /\ events \in Seq(Event)
  BY QueueTypes DEF Emit, Event
<1>2. \A i \in DOMAIN events' : events'[i] = e \/ (i \in DOMAIN events /\ events'[i] = events[i])
  BY <1>1
<1>3. e \in RenamedOf(t) <=> kind = "renamed" /\ u = t
  BY DEF RenamedOf
<1>4. Queued(t)' = Queued(t)
  BY DEF Queued
<1>5. e \notin RenamedOf(t) => Uncounted(t)' = Uncounted(t)
  BY <1>1, QueueTypes, HitsAppend DEF Uncounted
<1>6. kind # "metadata" \/ t # u => (MetadataIn(t)' => MetadataIn(t))
  BY <1>2 DEF MetadataIn
<1>7. t # u => (MentionedIn(t)' => MentionedIn(t))
  BY <1>2 DEF MentionedIn
<1> QED BY <1>3, <1>4, <1>5, <1>6, <1>7 DEF SameQueues

\* handleEvents takes an event.
LEMMA EventTaken ==
    ASSUME TypeOK, events # <<>>, events' = Tail(events), NEW t \in Torrents
    PROVE  /\ Cardinality(Hits(events', RenamedOf(t))) \in Nat
           /\ Cardinality(Hits(events, RenamedOf(t))) =
                Cardinality(Hits(events', RenamedOf(t)))
                  + (IF Head(events) = [kind |-> "renamed", t |-> t] THEN 1 ELSE 0)
           /\ renames' = renames =>
                /\ Queued(t)' = Queued(t) /\ Uncounted(t)' \in Nat
                /\ Uncounted(t) = Uncounted(t)' +
                     (IF Head(events) = [kind |-> "renamed", t |-> t] THEN 1 ELSE 0)
           /\ MentionedIn(t)' => MentionedIn(t)
           /\ MetadataIn(t)' => MetadataIn(t)
<1>1. events \in Seq(Event) /\ Len(events) \in Nat \ {0}
  BY QueueTypes
<1>2. \A i \in DOMAIN events' : i + 1 \in DOMAIN events /\ events'[i] = events[i + 1]
  BY <1>1
<1>3. renames' = renames => Queued(t)' = Queued(t)
  BY DEF Queued
<1>4. Cardinality(Hits(events, RenamedOf(t))) =
         Cardinality(Hits(events', RenamedOf(t)))
           + (IF Head(events) \in RenamedOf(t) THEN 1 ELSE 0)
  BY <1>1, HitsTail
<1>5. Cardinality(Hits(events', RenamedOf(t))) \in Nat
  <2>1. events' \in Seq(Event)
    BY <1>1
  <2> QED BY <2>1, HitsFinite
<1>6. Head(events) \in RenamedOf(t) <=> Head(events) = [kind |-> "renamed", t |-> t]
  BY DEF RenamedOf
<1>7. renames' = renames =>
        Uncounted(t)' = Cardinality(Hits(renames, RenamesOf(t))) + Cardinality(Hits(events', RenamedOf(t)))
  BY DEF Uncounted, RenamesOf, RenamedOf
<1>8. renames' = renames =>
        Uncounted(t) = Uncounted(t)' +
          (IF Head(events) = [kind |-> "renamed", t |-> t] THEN 1 ELSE 0)
  BY <1>4, <1>5, <1>6, <1>7, QueueTypes DEF Uncounted
<1>9. (MentionedIn(t)' => MentionedIn(t)) /\ (MetadataIn(t)' => MetadataIn(t))
  BY <1>2 DEF MentionedIn, MetadataIn
<1>10. renames' = renames => Uncounted(t)' \in Nat
  BY <1>5, <1>7, QueueTypes
<1> QED BY <1>3, <1>4, <1>5, <1>6, <1>8, <1>9, <1>10

LEMMA HeadMentioned ==
    ASSUME TypeOK, events # <<>>
    PROVE  /\ Head(events) \in Event /\ Head(events).t \in Torrents
           /\ MentionedIn(Head(events).t)
           /\ Head(events).kind = "metadata" => MetadataIn(Head(events).t)
<1>1. events \in Seq(Event) /\ Len(events) \in Nat \ {0}
  BY EngineAssumption, QueueTypes
<1>2. Head(events) \in Event /\ Head(events) = events[1] /\ 1 \in DOMAIN events
  BY <1>1
<1>3. Head(events) = [kind |-> Head(events).kind, t |-> Head(events).t]
  BY <1>2 DEF Event
<1> QED BY <1>2, <1>3 DEF MentionedIn, MetadataIn, Event

\* RenameFile asks for a rename.
LEMMA RenameAsked ==
    ASSUME TypeOK, NEW x \in Rename, renames' = Append(renames, x), events' = events,
           NEW t \in Torrents
    PROVE  /\ t # x.t => SameQueues(t)
           /\ t = x.t => Queued(t)' = Queued(t) \cup {x} /\ Uncounted(t)' = Uncounted(t) + 1
           /\ MentionedIn(t)' <=> MentionedIn(t)
           /\ MetadataIn(t)' <=> MetadataIn(t)
<1>1. renames \in Seq(Rename) /\ Len(renames) \in Nat
  BY QueueTypes
<1>2. /\ Len(renames') = Len(renames) + 1 /\ renames'[Len(renames) + 1] = x
      /\ \A i \in 1..Len(renames) : renames'[i] = renames[i]
  BY <1>1
<1>3. \A i : i \in 1..Len(renames') <=> i \in 1..Len(renames) \/ i = Len(renames) + 1
  BY <1>1, <1>2
<1>4. x \in RenamesOf(t) <=> x.t = t
  BY DEF RenamesOf
<1>5. Cardinality(Hits(renames', RenamesOf(t))) =
        Cardinality(Hits(renames, RenamesOf(t))) + (IF x.t = t THEN 1 ELSE 0)
  BY <1>1, <1>4, HitsAppend
<1>6. Queued(t)' = {renames'[i] : i \in Hits(renames', RenamesOf(t))}
  BY DEF Queued, RenamesOf
<1>7. Uncounted(t)' = Cardinality(Hits(renames', RenamesOf(t))) + Cardinality(Hits(events, RenamedOf(t)))
  BY DEF Uncounted, RenamesOf, RenamedOf
<1>8. Queued(t)' = IF x.t = t THEN Queued(t) \cup {x} ELSE Queued(t)
  BY <1>1, <1>2, <1>3, <1>4, <1>6 DEF Hits, Queued
<1>9. MentionedIn(t)' = MentionedIn(t) /\ MetadataIn(t)' = MetadataIn(t)
  BY DEF MentionedIn, MetadataIn
<1> QED BY <1>5, <1>7, <1>8, <1>9, QueueTypes DEF SameQueues, Uncounted

\* The client carries a rename out, or finds it void.
LEMMA RenameTaken ==
    ASSUME TypeOK, renames # <<>>, renames' = Tail(renames),
           Emit("renamed", Head(renames).t) \/ events' = events,
           NEW t \in Torrents
    PROVE  /\ Head(renames) \in Rename /\ Head(renames).t \in Torrents
           /\ t # Head(renames).t => SameQueues(t)
           /\ Queued(t)' \subseteq Queued(t)
           /\ t = Head(renames).t =>
                /\ Head(renames) \in Queued(t)
                /\ Queued(t) \subseteq Queued(t)' \cup {Head(renames)}
                /\ Emit("renamed", t) => Uncounted(t)' = Uncounted(t)
           /\ MetadataIn(t)' => MetadataIn(t)
<1> DEFINE x == Head(renames)
           e == [kind |-> "renamed", t |-> x.t]
<1>1. renames \in Seq(Rename) /\ Len(renames) \in Nat \ {0} /\ events \in Seq(Event)
  BY QueueTypes
<1>2. x \in Rename /\ x = renames[1] /\ x.t \in Torrents
  <2>1. x \in Rename /\ x = renames[1]
    BY <1>1
  <2> QED BY <2>1 DEF Rename
<1>3. /\ Len(renames') = Len(renames) - 1
      /\ \A i \in 1..Len(renames') : i + 1 \in 1..Len(renames) /\ renames'[i] = renames[i + 1]
  BY <1>1
<1>4. \A i \in 1..Len(renames) : i = 1 \/ (i - 1 \in 1..Len(renames') /\ renames'[i - 1] = renames[i])
  BY <1>1, <1>3
<1>5. x \in RenamesOf(t) <=> x.t = t
  BY <1>2 DEF RenamesOf
<1>6. Queued(t)' = {renames'[i] : i \in Hits(renames', RenamesOf(t))}
  BY DEF Queued, RenamesOf
<1>7. Uncounted(t)' = Cardinality(Hits(renames', RenamesOf(t))) + Cardinality(Hits(events', RenamedOf(t)))
  BY DEF Uncounted, RenamesOf, RenamedOf
<1>8. Cardinality(Hits(renames, RenamesOf(t))) =
        Cardinality(Hits(renames', RenamesOf(t))) + (IF x.t = t THEN 1 ELSE 0)
  BY <1>1, <1>5, HitsTail
<1>9. Cardinality(Hits(renames', RenamesOf(t))) \in Nat
  <2>1. renames' \in Seq(Rename)
    BY <1>1
  <2> QED BY <2>1, HitsFinite
<1>10. /\ Queued(t)' \subseteq Queued(t)
       /\ Queued(t) \subseteq Queued(t)' \cup (IF x.t = t THEN {x} ELSE {})
       /\ x.t = t => x \in Queued(t)
  <2>1. Queued(t)' \subseteq Queued(t)
    BY <1>3, <1>6 DEF Hits, Queued
  <2>2. ASSUME NEW r \in Queued(t) PROVE r \in Queued(t)' \/ (x.t = t /\ r = x)
    <3>1. PICK i \in 1..Len(renames) : renames[i] = r /\ r \in RenamesOf(t)
      BY <2>2 DEF Hits, Queued
    <3>2. CASE i = 1
      BY <3>1, <3>2, <1>2, <1>5
    <3>3. CASE i # 1
      BY <3>1, <3>3, <1>4, <1>6 DEF Hits
    <3> QED BY <3>2, <3>3
  <2>3. x.t = t => x \in Queued(t)
    <3>1. 1 \in 1..Len(renames)
      BY <1>1
    <3> QED BY <1>2, <1>5, <3>1 DEF Hits, Queued
  <2> QED BY <2>1, <2>2, <2>3
<1>11. events' = Append(events, e) =>
         Cardinality(Hits(events', RenamedOf(t))) =
            Cardinality(Hits(events, RenamedOf(t))) + (IF x.t = t THEN 1 ELSE 0)
  <2>1. e \in Event
    BY <1>2 DEF Event, Kinds
  <2>2. e \in RenamedOf(t) <=> x.t = t
    BY DEF RenamedOf
  <2> QED BY <1>1, <2>1, <2>2, HitsAppend
<1>12. events' = Append(events, e) \/ events' = events
  BY DEF Emit
<1>13. \A i \in DOMAIN events' : events'[i] = e \/ (i \in DOMAIN events /\ events'[i] = events[i])
  BY <1>1, <1>12
<1>14. MetadataIn(t)' => MetadataIn(t)
  BY <1>13 DEF MetadataIn
<1>15. x.t # t => (MentionedIn(t)' => MentionedIn(t))
  BY <1>13 DEF MentionedIn
<1>16. x.t # t => Uncounted(t)' = Uncounted(t)
  BY <1>7, <1>8, <1>9, <1>11, <1>12, QueueTypes DEF Uncounted
<1>17. x.t = t /\ Emit("renamed", t) => Uncounted(t)' = Uncounted(t)
  BY <1>7, <1>8, <1>9, <1>11, QueueTypes DEF Uncounted, Emit
<1> QED BY <1>2, <1>10, <1>14, <1>15, <1>16, <1>17 DEF SameQueues

\* The loop asks for renames of one torrent.
LEMMA RenamesAsked ==
    ASSUME TypeOK, NEW u \in Torrents, PutNamesRight(u), NEW t \in Torrents
    PROVE  /\ t # u => Queued(t)' = Queued(t)
                       /\ Cardinality(Hits(renames', RenamesOf(t))) = Cardinality(Hits(renames, RenamesOf(t)))
           /\ \A r \in Queued(u)' : r \in Queued(u) \/ \E q \in Renames(u, FALSE) : r = Request(u, q)
<1>1. PICK q \in InFileOrder(Renames(u, FALSE)) :
        renames' = renames \o [i \in DOMAIN q |-> Request(u, q[i])]
  BY DEF PutNamesRight
<1>2. PICK n \in 0..FileCount : q \in [1..n -> Renames(u, FALSE)]
  BY <1>1 DEF InFileOrder
<1> DEFINE asked == [i \in 1..n |-> Request(u, q[i])]
<1>3. n \in Nat /\ renames' = renames \o asked
  BY <1>1, <1>2, EngineAssumption
<1>4. \A i \in 1..n : q[i] \in Renames(u, FALSE) /\ asked[i] = Request(u, q[i]) /\ asked[i].t = u
  BY <1>2 DEF Request
<1>5. renames \in Seq(Rename) /\ Len(renames) \in Nat
  BY QueueTypes
<1>6. asked \in Seq(Rename)
  <2>1. \A i \in 1..n : Request(u, q[i]) \in Rename
    BY <1>4 DEF Request, Rename, TypeOK, Handle, Renames
  <2> QED BY <1>3, <2>1
<1> HIDE DEF asked
<1>7. /\ \A i \in 1..Len(renames) : i \in 1..Len(renames') /\ renames'[i] = renames[i]
      /\ \A i \in 1..Len(renames') : i \in 1..Len(renames) \/
            \E j \in 1..n : renames'[i] = asked[j]
  <2>1. Len(asked) = n /\ Len(renames') = Len(renames) + n
    BY <1>3, <1>5, <1>6 DEF asked
  <2>2. \A i \in 1..Len(renames) : i \in 1..Len(renames') /\ renames'[i] = renames[i]
    BY <1>3, <1>5, <1>6, <2>1
  <2>3. ASSUME NEW i \in 1..Len(renames'), i \notin 1..Len(renames)
        PROVE  \E j \in 1..n : renames'[i] = asked[j]
    <3>1. i - Len(renames) \in 1..n
      BY <1>3, <1>5, <2>1, <2>3
    <3>2. renames'[i] = asked[i - Len(renames)]
      BY <1>3, <1>5, <1>6, <2>1, <2>3
    <3> QED BY <3>1, <3>2
  <2> QED BY <2>2, <2>3
<1>8. Queued(t)' = {renames'[i] : i \in Hits(renames', RenamesOf(t))}
      /\ Queued(u)' = {renames'[i] : i \in Hits(renames', RenamesOf(u))}
  BY DEF Queued, RenamesOf
<1>9. t # u => Hits(renames', RenamesOf(t)) = Hits(renames, RenamesOf(t))
  BY <1>4, <1>7 DEF Hits, RenamesOf
<1>10. t # u => Queued(t)' = Queued(t)
  BY <1>7, <1>8, <1>9 DEF Queued, Hits
<1>11. ASSUME NEW r \in Queued(u)'
       PROVE  r \in Queued(u) \/ \E p \in Renames(u, FALSE) : r = Request(u, p)
  <2>1. PICK i \in 1..Len(renames') : r = renames'[i] /\ r \in RenamesOf(u)
    BY <1>8, <1>11 DEF Hits
  <2>2. CASE i \in 1..Len(renames)
    BY <1>7, <2>1, <2>2 DEF Queued, Hits
  <2>3. CASE i \notin 1..Len(renames)
    BY <1>4, <1>7, <2>1, <2>3
  <2> QED BY <2>2, <2>3
<1> QED BY <1>9, <1>10, <1>11
-----------------------------------------------------------------------------
(* What the client knows of the data on disk *)

\* Nobody has asked for the torrent yet.
Untouched(t) ==
    /\ ~client[t].here /\ ~Known(t) /\ t \notin doomed
    /\ Queued(t) = {} /\ ~MentionedIn(t)
    /\ \A a \in Actors : pc[a] = "idle" \/ loc[a].t # t

\* An actor starts from nothing.
Blank(a) ==
    pc[a] \in {"status", "insert", "metadata", "fix"} =>
        loc[a].todo = {} /\ loc[a].n = 0 /\ ~loc[a].recheck

\* The torrents the data properties speak of.
Plain(t) == client[t].here /\ odd[t] \subseteq {"early"}

InPreparation(t) == Known(t) => sessions[t].preparing

At(a, t, labels) == loc[a].t = t /\ pc[a] \in labels
Runs(a, t) == At(a, t, {"metadata", "fix", "rename", "finish", "recheck", "start"})

\* Where the data is and what the client knows of it.
Place(t, f) == disk[t][f].at
Name(t, f) == client[t].name[f]

NamesReal(t) == \A f \in Files : Name(t, f) = "real"
Unasked(t) == Queued(t) = {} /\ Uncounted(t) = 0 /\ NamesReal(t)
AllReal(t) == Queued(t) = {} /\ NamesReal(t) /\ \A f \in Files : Place(t, f) = "real"

Right(t, f) == Name(t, f) = IF Place(t, f) = "real" THEN "real" ELSE "part"
Coming(t, f) == \E r \in Queued(t) : r.f = f

\* Nobody has looked at the files yet.
Waiting(t) ==
    /\ sessions[t].pending = 0 /\ ~sessions[t].recheck
    /\ Unasked(t)
    /\ \A a \in Actors : ~Runs(a, t)

\* onMetadata is on its way, the loop perhaps about to start it again.
Naming(a, t) ==
    /\ At(a, t, {"metadata", "fix", "rename"})
    /\ \A b \in Actors : b # a /\ Runs(b, t) => b = Loop /\ pc[b] = "metadata"
    /\ sessions[t].pending = 0 /\ ~sessions[t].recheck
    /\ pc[a] \in {"fix", "rename"} => loc[a].preparing /\ loc[a].id = sessions[t].id
    /\ pc[a] # "rename" => Unasked(t)
    /\ pc[a] = "rename" =>
         /\ Uncounted(t) <= loc[a].n
         /\ loc[a].n = 0 => NamesReal(t) /\ ~loc[a].recheck
         /\ \A r \in loc[a].todo : r[2] = "part" /\ Place(t, r[1]) # "real"
         /\ \A f \in Files : Right(t, f) \/ Coming(t, f) \/ <<f, "part">> \in loc[a].todo
         /\ \A f \in Files : Place(t, f) = "part" => loc[a].recheck \/ <<f, "part">> \in loc[a].todo

\* The renames are being counted.
Counting(t) ==
    /\ sessions[t].pending > 0 /\ Uncounted(t) <= sessions[t].pending
    /\ \A a \in Actors : Runs(a, t) => a = Loop /\ pc[a] = "metadata"
    /\ \A f \in Files : Right(t, f) \/ Coming(t, f)
    /\ \A f \in Files : Place(t, f) = "part" => sessions[t].recheck

\* They all have been.
Counted(t) ==
    /\ sessions[t].pending = 0 /\ Queued(t) = {}
    /\ At(Loop, t, {"finish"})
    /\ \A a \in Actors : Runs(a, t) => a = Loop
    /\ \A f \in Files : Right(t, f)
    /\ \A f \in Files : Place(t, f) = "part" => sessions[t].recheck

\* It found nothing to rename.
Skipped(a) == loc[a].todo = {} /\ loc[a].n = 0 /\ ~loc[a].recheck

\* There was nothing to rename, whoever looks.
NothingToName(t) ==
    /\ AllReal(t) /\ sessions[t].pending = 0 /\ ~sessions[t].recheck
    /\ \A a \in Actors : Runs(a, t) =>
         /\ pc[a] # "finish" => a = Loop
         /\ pc[a] = "fix" => loc[a].preparing
         /\ pc[a] = "rename" => Skipped(a)

Tidy(t, f) == Place(t, f) = Name(t, f) \/ (Place(t, f) = "none" /\ Name(t, f) = "part")

DataKnown(t) == \A f \in Files :
    disk[t][f].full /\ Place(t, f) = Name(t, f) => client[t].done[f]

\* The torrent has left its preparation.
Prepared(t) ==
    /\ ~sessions[t].recheck
    /\ \A f \in Files : Tidy(t, f)
    /\ \A r \in Queued(t) : r.to = "real" => client[t].done[r.f]
    /\ \A a \in Actors : At(a, t, {"metadata", "fix", "rename"}) => a = Loop
    /\ \A a \in Actors : At(a, t, {"fix", "rename"}) /\ loc[a].preparing =>
         a = Loop /\ AllReal(t) /\ Skipped(a)
    /\ \A a \in Actors : At(a, t, {"rename"}) /\ ~loc[a].preparing =>
         \A r \in loc[a].todo : r[2] = "real" => client[t].done[r[1]]
    /\ client[t].meta /\ ~client[t].checking /\ (\A a \in Actors : ~At(a, t, {"recheck"}))
         => DataKnown(t)

Preparing(t) ==
    /\ \A f \in Files : Name(t, f) = "part" => Place(t, f) # "real"
    /\ \A r \in Queued(t) : r.to = "part" /\ Place(t, r.f) # "real"
    /\ client[t].meta /\ ~client[t].checking =>
         \A f \in Files : disk[t][f].full /\ Place(t, f) = "real" => client[t].done[f]
    /\ ~Known(t) => Unasked(t) /\ \A a \in Actors : ~Runs(a, t)
    /\ Known(t) => Waiting(t) \/ (\E a \in Actors : Naming(a, t)) \/ Counting(t)
                   \/ Counted(t) \/ NothingToName(t)

FilesKnown(t) ==
    /\ t \notin doomed
    /\ \A r \in Queued(t) : r.id = client[t].id
    /\ \A f \in Files : client[t].done[f] => disk[t][f].full /\ Place(t, f) = Name(t, f)
    /\ MetadataIn(t) => client[t].meta
    /\ \A a \in Actors : At(a, t, {"metadata", "fix", "rename"}) => client[t].meta
    /\ \A a \in Actors : At(a, t, {"insert"}) /\ loc[a].hasMeta => client[t].meta

DataOf(t) ==
    /\ adds[t] = 0 => Untouched(t)
    /\ Plain(t) => /\ FilesKnown(t)
                   /\ InPreparation(t) => Preparing(t)
                   /\ ~InPreparation(t) => Prepared(t)

DataInv == (\A a \in Actors : Blank(a)) /\ \A t \in Torrents : DataOf(t)

\* A step that is about another torrent.
SameActors(t) ==
    \A a \in Actors :
        /\ pc'[a] # "idle" /\ loc'[a].t = t => pc[a] # "idle" /\ loc[a].t = t
        /\ pc[a] # "idle" /\ loc[a].t = t => pc'[a] = pc[a] /\ loc'[a] = loc[a]

SameData(t) ==
    /\ client'[t] = client[t] /\ disk'[t] = disk[t] /\ sessions'[t] = sessions[t]
    /\ adds'[t] = adds[t] /\ (t \in doomed' => t \in doomed)

\* A step that leaves alone what the phases of the preparation speak of.
SameRunners(t) ==
    \A a \in Actors : /\ Runs(a, t)' <=> Runs(a, t)
                      /\ Runs(a, t) => pc'[a] = pc[a] /\ loc'[a] = loc[a]

SamePhase(t) ==
    /\ SameRunners(t) /\ sessions'[t] = sessions[t]
    /\ Queued(t)' = Queued(t) /\ Uncounted(t)' = Uncounted(t)
    /\ \A f \in Files : Name(t, f)' = Name(t, f) /\ Place(t, f)' = Place(t, f)

LEMMA RunnersFrame ==
    ASSUME NEW t \in Torrents, SameActors(t)
    PROVE  SameRunners(t)
BY DEF SameActors, SameRunners, At, Runs

LEMMA PhaseFrame ==
    ASSUME TypeOK, NEW t \in Torrents, SamePhase(t)
    PROVE  /\ \A f \in Files : /\ Name(t, f)' = Name(t, f) /\ Place(t, f)' = Place(t, f)
                               /\ Tidy(t, f)' = Tidy(t, f)
           /\ NamesReal(t)' = NamesReal(t) /\ Unasked(t)' = Unasked(t) /\ AllReal(t)' = AllReal(t)
           /\ Known(t)' = Known(t) /\ InPreparation(t)' = InPreparation(t)
           /\ (\A a \in Actors : ~Runs(a, t)) => \A a \in Actors : ~Runs(a, t)'
           /\ Waiting(t) => Waiting(t)'
           /\ (\E a \in Actors : Naming(a, t)) => \E a \in Actors : Naming(a, t)'
           /\ Counting(t) => Counting(t)'
           /\ Counted(t) => Counted(t)'
           /\ NothingToName(t) => NothingToName(t)'
<1>0. Loop \in Actors
  BY DEF Actors
<1>1. \A a \in Actors : /\ Runs(a, t)' <=> Runs(a, t)
                        /\ Runs(a, t)' => pc'[a] = pc[a] /\ loc'[a] = loc[a]
  BY DEF SamePhase, SameRunners
<1>2. \A a \in Actors : Runs(a, t) => pc'[a] = pc[a] /\ loc'[a] = loc[a]
  BY <1>1
<1>3. /\ \A f \in Files : /\ Name(t, f)' = Name(t, f) /\ Place(t, f)' = Place(t, f)
                          /\ Right(t, f)' = Right(t, f) /\ Coming(t, f)' = Coming(t, f)
                          /\ Tidy(t, f)' = Tidy(t, f)
      /\ NamesReal(t)' = NamesReal(t) /\ Unasked(t)' = Unasked(t) /\ AllReal(t)' = AllReal(t)
      /\ Known(t)' = Known(t) /\ InPreparation(t)' = InPreparation(t)
  <2>1. \A f \in Files : Right(t, f)' = Right(t, f) /\ Coming(t, f)' = Coming(t, f)
    BY DEF SamePhase, Right, Coming
  <2>2. \A f \in Files : Tidy(t, f)' = Tidy(t, f)
    BY DEF SamePhase, Tidy
  <2>3. NamesReal(t)' = NamesReal(t)
    BY DEF SamePhase, NamesReal
  <2>4. Unasked(t)' = Unasked(t) /\ AllReal(t)' = AllReal(t)
    BY <2>3 DEF SamePhase, Unasked, AllReal
  <2> QED BY <2>1, <2>2, <2>3, <2>4 DEF SamePhase, Known, InPreparation
<1>4. Waiting(t) => Waiting(t)'
  BY <1>1, <1>3 DEF Waiting, SamePhase
<1>5. ASSUME NEW a \in Actors, Naming(a, t) PROVE Naming(a, t)'
  <2>1. pc'[a] = pc[a] /\ loc'[a] = loc[a]
    BY <1>2, <1>5 DEF Naming, At, Runs
  <2>2. \A b \in Actors : b # a /\ Runs(b, t)' => b = Loop /\ pc'[b] = "metadata"
    BY <1>1, <1>5 DEF Naming
  <2>3. At(a, t, {"metadata", "fix", "rename"})'
    BY <1>5, <2>1 DEF Naming, At
  <2>4. \A r \in loc[a].todo : r[1] \in Files
    BY Locals DEF Todo
  <2>5. pc[a] = "rename" =>
          /\ \A r \in loc[a].todo : r[2] = "part" /\ Place(t, r[1])' # "real"
          /\ \A f \in Files : Right(t, f)' \/ Coming(t, f)' \/ <<f, "part">> \in loc[a].todo
          /\ \A f \in Files : Place(t, f)' = "part" => loc[a].recheck \/ <<f, "part">> \in loc[a].todo
    BY <1>3, <1>5, <2>4 DEF Naming
  <2>6. sessions'[t] = sessions[t] /\ Uncounted(t)' = Uncounted(t)
    BY DEF SamePhase
  <2> QED BY <1>3, <1>5, <2>1, <2>2, <2>3, <2>5, <2>6 DEF Naming
<1>6. Counting(t) => Counting(t)'
  BY <1>1, <1>3 DEF Counting, SamePhase
<1>7. Counted(t) => Counted(t)'
  <2>1. At(Loop, t, {"finish"}) => At(Loop, t, {"finish"})'
    BY <1>0, <1>2 DEF At, Runs
  <2> QED BY <1>1, <1>3, <2>1 DEF Counted, SamePhase
<1>8. NothingToName(t) => NothingToName(t)'
  BY <1>1, <1>3 DEF NothingToName, SamePhase, Skipped
<1> QED BY <1>1, <1>3, <1>4, <1>5, <1>6, <1>7, <1>8

LEMMA QuietFrame ==
    ASSUME TypeOK, NEW t \in Torrents, SamePhase(t),
           client'[t] = client[t], disk'[t] = disk[t], t \in doomed' => t \in doomed,
           MetadataIn(t)' => MetadataIn(t),
           FilesKnown(t) => \A a \in Actors : At(a, t, {"insert"})' /\ loc'[a].hasMeta => client[t].meta
    PROVE  /\ FilesKnown(t) => FilesKnown(t)'
           /\ Preparing(t) => Preparing(t)'
           /\ Prepared(t) => Prepared(t)'
<1>1. \A a \in Actors : /\ At(a, t, {"metadata", "fix", "rename"})' => At(a, t, {"metadata", "fix", "rename"})
                        /\ At(a, t, {"fix", "rename"})' =>
                             At(a, t, {"fix", "rename"}) /\ loc'[a] = loc[a]
                        /\ At(a, t, {"rename"})' => At(a, t, {"rename"}) /\ loc'[a] = loc[a]
                        /\ At(a, t, {"recheck"})' <=> At(a, t, {"recheck"})
  BY DEF SamePhase, SameRunners, Runs, At
<1>2. DataKnown(t)' = DataKnown(t)
  BY DEF DataKnown, SamePhase
<1>3. FilesKnown(t) => FilesKnown(t)'
  BY <1>1 DEF FilesKnown, SamePhase
<1>4. Preparing(t) => Preparing(t)'
  <2>1. /\ Queued(t)' = Queued(t) /\ \A r \in Queued(t) : r.f \in Files
    BY QueueTypes DEF SamePhase, Rename
  <2> QED BY <2>1, PhaseFrame DEF Preparing
<1>5. Prepared(t) => Prepared(t)'
  BY <1>1, <1>2, PhaseFrame DEF Prepared, Skipped, SamePhase
<1> QED BY <1>3, <1>4, <1>5

LEMMA DataFrame ==
    ASSUME TypeOK, NEW t \in Torrents, DataOf(t), odd[t] \subseteq odd'[t],
           SameActors(t), SameData(t), SameQueues(t)
    PROVE  DataOf(t)'
<1>1. SamePhase(t)
  BY RunnersFrame DEF SamePhase, SameData, SameQueues, Name, Place
<1>2. Untouched(t) => Untouched(t)'
  BY DEF Untouched, SameActors, SameData, SameQueues, Known
<1>3. Plain(t)' => Plain(t)
  BY DEF Plain, SameData
<1>4. FilesKnown(t) => \A a \in Actors : At(a, t, {"insert"})' /\ loc'[a].hasMeta => client[t].meta
  BY DEF FilesKnown, SameActors, At
<1>5. /\ FilesKnown(t) => FilesKnown(t)'
      /\ Preparing(t) => Preparing(t)'
      /\ Prepared(t) => Prepared(t)'
  BY <1>1, <1>4, QuietFrame DEF SameData, SameQueues
<1> QED BY <1>1, <1>2, <1>3, <1>5, PhaseFrame DEF DataOf, SameData

LEMMA HereOrTouched ==
    ASSUME NEW t \in Torrents, DataOf(t),
           \/ client[t].here \/ Known(t) \/ t \in doomed \/ Queued(t) # {} \/ MentionedIn(t)
           \/ \E a \in Actors : pc[a] # "idle" /\ loc[a].t = t
    PROVE  adds[t] # 0
BY DEF DataOf, Untouched

\* A step on the torrent, which somebody has asked for before.
LEMMA DataStep ==
    ASSUME NEW t \in Torrents, DataOf(t), adds[t] # 0, adds'[t] = adds[t],
           odd[t] \subseteq odd'[t], client'[t].here => client[t].here,
           Plain(t)' /\ Plain(t) /\ FilesKnown(t) => FilesKnown(t)',
           Plain(t)' /\ Plain(t) /\ FilesKnown(t) /\ InPreparation(t)' =>
             IF InPreparation(t) THEN Preparing(t) => Preparing(t)'
                                 ELSE Prepared(t) => Preparing(t)',
           Plain(t)' /\ Plain(t) /\ FilesKnown(t) /\ ~InPreparation(t)' =>
             IF InPreparation(t) THEN Preparing(t) => Prepared(t)'
                                 ELSE Prepared(t) => Prepared(t)'
    PROVE  DataOf(t)'
BY DEF DataOf, Plain

\* What the client does by itself.
LEMMA MetadataEffect ==
    ASSUME TypeOK, NEW u \in Torrents, MetadataReceived(u)
    PROVE  /\ client[u].here /\ client'[u].here /\ client'[u].meta /\ client'[u].checking
           /\ client'[u].id = client[u].id /\ client'[u].name = client[u].name
           /\ client'[u].done = client[u].done /\ client'[u].upload = client[u].upload
           /\ \A t \in Torrents \ {u} : client'[t] = client[t]
           /\ Emit("metadata", u)
           /\ UNCHANGED <<sessions, disk, renames, pc, loc, doomed, adds, odd>>
<1> DEFINE h == [client[u] EXCEPT !.meta = TRUE, !.checking = TRUE]
<1>1. client[u] \in Handle /\ client \in [Torrents -> Handle]
  BY DEF TypeOK
<1>2. /\ h.meta /\ h.checking /\ h.here = client[u].here /\ h.id = client[u].id
      /\ h.name = client[u].name /\ h.done = client[u].done /\ h.upload = client[u].upload
  BY <1>1 DEF Handle
<1>3. client' = [client EXCEPT ![u] = h]
  BY DEF MetadataReceived
<1> HIDE DEF h
<1>4. client'[u] = h /\ \A t \in Torrents \ {u} : client'[t] = client[t]
  BY <1>1, <1>3
<1> QED BY <1>2, <1>4 DEF MetadataReceived

LEMMA CheckedEffect ==
    ASSUME TypeOK, NEW u \in Torrents, TorrentChecked(u)
    PROVE  /\ client[u].here /\ client'[u].here /\ ~client'[u].checking
           /\ client'[u].meta = client[u].meta
           /\ client'[u].id = client[u].id /\ client'[u].name = client[u].name
           /\ client'[u].upload = client[u].upload
           /\ \A f \in Files : (client'[u].done[f] <=> disk[u][f].full /\ disk[u][f].at = client[u].name[f])
           /\ \A t \in Torrents \ {u} : client'[t] = client[t]
           /\ Emit("progress", u)
           /\ UNCHANGED <<sessions, disk, renames, pc, loc, doomed, adds, odd>>
<1> DEFINE found == [f \in Files |-> disk[u][f].full /\ disk[u][f].at = client[u].name[f]]
           h == [client[u] EXCEPT !.checking = FALSE, !.done = found]
<1>1. client[u] \in Handle /\ client \in [Torrents -> Handle]
  BY DEF TypeOK
<1>2. \A f \in Files : (found[f] <=> disk[u][f].full /\ disk[u][f].at = client[u].name[f])
  OBVIOUS
<1>3. client' = [client EXCEPT ![u] = h]
  BY DEF TorrentChecked
<1> HIDE DEF found
<1>4. /\ ~h.checking /\ h.here = client[u].here /\ h.id = client[u].id /\ h.meta = client[u].meta
      /\ h.name = client[u].name /\ h.done = found /\ h.upload = client[u].upload
  BY <1>1 DEF Handle
<1> HIDE DEF h
<1>5. client'[u] = h /\ \A t \in Torrents \ {u} : client'[t] = client[t]
  BY <1>1, <1>3
<1> QED BY <1>2, <1>4, <1>5 DEF TorrentChecked

LEMMA PieceEffect ==
    ASSUME TypeOK, NEW u \in Torrents, NEW f \in Files, PieceWritten(u, f)
    PROVE  /\ Downloading(u) /\ ~client[u].done[f] /\ disk[u][f].at # client[u].name[f]
           /\ disk'[u][f].at = client[u].name[f] /\ ~disk'[u][f].full
           /\ \A g \in Files \ {f} : disk'[u][g] = disk[u][g]
           /\ \A t \in Torrents \ {u} : disk'[t] = disk[t]
           /\ UNCHANGED <<sessions, client, renames, events, pc, loc, doomed, adds, odd>>
<1> DEFINE w == [at |-> client[u].name[f], full |-> FALSE]
           d == disk[u]
<1>1. disk \in [Torrents -> [Files -> Where]] /\ d \in [Files -> Where]
  BY DEF TypeOK, Where
<1>2. w.at = client[u].name[f] /\ ~w.full
  OBVIOUS
<1>3. disk' = [disk EXCEPT ![u] = [d EXCEPT ![f] = w]]
  BY DEF PieceWritten
<1> HIDE DEF w, d
<1>4. disk'[u] = [d EXCEPT ![f] = w] /\ \A t \in Torrents \ {u} : disk'[t] = disk[t]
  BY <1>1, <1>3
<1>5. disk'[u][f] = w /\ \A g \in Files \ {f} : disk'[u][g] = d[g]
  BY <1>1, <1>4
<1> QED BY <1>2, <1>4, <1>5 DEF PieceWritten, d

LEMMA CompletedEffect ==
    ASSUME TypeOK, NEW u \in Torrents, NEW f \in Files, FileCompleted(u, f)
    PROVE  /\ Downloading(u) /\ client'[u].here /\ disk[u][f].at = client[u].name[f]
           /\ disk'[u][f].at = disk[u][f].at /\ disk'[u][f].full
           /\ \A g \in Files \ {f} : disk'[u][g] = disk[u][g]
           /\ \A t \in Torrents \ {u} : disk'[t] = disk[t] /\ client'[t] = client[t]
           /\ client'[u].done[f] /\ \A g \in Files \ {f} : client'[u].done[g] = client[u].done[g]
           /\ client'[u].meta = client[u].meta /\ client'[u].checking = client[u].checking
           /\ client'[u].id = client[u].id /\ client'[u].name = client[u].name
           /\ client'[u].upload = client[u].upload
           /\ Emit("progress", u)
           /\ UNCHANGED <<sessions, renames, pc, loc, doomed, adds, odd>>
<1> DEFINE d == disk[u]
           w == [d[f] EXCEPT !.full = TRUE]
           done == [client[u].done EXCEPT ![f] = TRUE]
           h == [client[u] EXCEPT !.done = done]
<1>1. /\ disk \in [Torrents -> [Files -> Where]] /\ d \in [Files -> Where] /\ d[f] \in Where
      /\ client[u] \in Handle /\ client \in [Torrents -> Handle]
  BY DEF TypeOK, Where
<1>2. w.at = d[f].at /\ w.full
  BY <1>1 DEF Where
<1>3. done[f] /\ \A g \in Files \ {f} : done[g] = client[u].done[g]
  BY <1>1 DEF Handle
<1>4. disk' = [disk EXCEPT ![u] = [d EXCEPT ![f] = w]] /\ client' = [client EXCEPT ![u] = h]
  BY DEF FileCompleted
<1> HIDE DEF w, done
<1>5. /\ h.checking = client[u].checking /\ h.here = client[u].here /\ h.id = client[u].id
      /\ h.meta = client[u].meta /\ h.name = client[u].name /\ h.done = done
      /\ h.upload = client[u].upload
  BY <1>1 DEF Handle
<1> HIDE DEF d, h
<1>6. /\ disk'[u] = [d EXCEPT ![f] = w] /\ \A t \in Torrents \ {u} : disk'[t] = disk[t]
      /\ client'[u] = h /\ \A t \in Torrents \ {u} : client'[t] = client[t]
  BY <1>1, <1>4
<1>7. disk'[u][f] = w /\ \A g \in Files \ {f} : disk'[u][g] = d[g]
  BY <1>1, <1>6
<1> QED BY <1>2, <1>3, <1>5, <1>6, <1>7 DEF FileCompleted, Downloading, d

\* The upload mode of a torrent that is preparing, and the actors letting it go.
LEMMA PlainHeld ==
    ASSUME PreparingInv, NEW t \in Torrents, Plain(t)
    PROVE  /\ InPreparation(t) => client[t].upload
           /\ \A a \in Actors : loc[a].t = t =>
                /\ pc[a] \in {"fix", "rename", "finish", "recheck", "start"} => Known(t)
                /\ pc[a] \in {"recheck", "start"} => ~sessions[t].preparing
                /\ pc[a] # "drop"
BY DEF PreparingInv, Plain, Clean, Held, Working, InPreparation

LEMMA StillActors ==
    ASSUME UNCHANGED <<pc, loc>>, NEW t \in Torrents PROVE SameActors(t)
BY DEF SameActors

LEMMA DataMetadata ==
    ASSUME TypeOK, DataInv, NEW u \in Torrents, MetadataReceived(u)
    PROVE  DataOf(u)'
<1>0. DataOf(u) /\ adds[u] # 0 /\ odd' = odd /\ adds' = adds /\ client[u].here
  BY MetadataEffect, HereOrTouched DEF DataInv
<1>1. SamePhase(u)
  BY MetadataEffect, StillActors, RunnersFrame, Emitted DEF SamePhase, Name, Place, Kinds
<1>2. FilesKnown(u) => FilesKnown(u)'
  BY <1>1, MetadataEffect DEF FilesKnown, SamePhase, At
<1>3. Preparing(u) => Preparing(u)'
  <2>1. /\ Queued(u)' = Queued(u) /\ \A r \in Queued(u) : r.f \in Files
        /\ client'[u].checking
    BY <1>1, QueueTypes, MetadataEffect DEF SamePhase, Rename
  <2> QED BY <1>1, <2>1, PhaseFrame DEF Preparing
<1>4. Prepared(u) => Prepared(u)'
  BY <1>1, MetadataEffect, PhaseFrame DEF Prepared, SamePhase, Skipped, At
<1> QED BY <1>0, <1>1, <1>2, <1>3, <1>4, PhaseFrame, DataStep

LEMMA DataChecked ==
    ASSUME TypeOK, DataInv, NEW u \in Torrents, TorrentChecked(u)
    PROVE  DataOf(u)'
<1>0. DataOf(u) /\ adds[u] # 0 /\ odd' = odd /\ adds' = adds /\ client[u].here
  BY CheckedEffect, HereOrTouched DEF DataInv
<1>1. SamePhase(u)
  BY CheckedEffect, StillActors, RunnersFrame, Emitted DEF SamePhase, Name, Place, Kinds
<1>2. MetadataIn(u)' => MetadataIn(u)
  BY CheckedEffect, Emitted DEF Kinds
<1>3. \A f \in Files : (client'[u].done[f] <=> disk[u][f].full /\ Place(u, f) = Name(u, f))
  BY CheckedEffect DEF Place, Name
<1>4. \A f \in Files : Name(u, f) \in Names
  BY DEF TypeOK, Handle, Name
<1>5. \A r \in Queued(u) : r.f \in Files
  BY QueueTypes DEF Rename
<1>6. \A a \in Actors : \A r \in loc[a].todo : r[1] \in Files
  BY Locals DEF Todo
<1>7. FilesKnown(u) => FilesKnown(u)'
  <2>1. \A f \in Files : client'[u].done[f] => disk'[u][f].full /\ Place(u, f)' = Name(u, f)'
    BY <1>1, <1>3, CheckedEffect DEF SamePhase
  <2> QED BY <1>1, <1>2, <2>1, CheckedEffect DEF FilesKnown, SamePhase, At
<1>8. Preparing(u) => Preparing(u)'
  <2>1. Preparing(u) => \A f \in Files : disk'[u][f].full /\ Place(u, f) = "real" => client'[u].done[f]
    BY <1>3, <1>4, CheckedEffect DEF Preparing, Names
  <2> QED BY <1>1, <1>5, <2>1, PhaseFrame DEF Preparing, SamePhase
<1>9. FilesKnown(u) => \A f \in Files : client[u].done[f] => client'[u].done[f]
  BY <1>3 DEF FilesKnown
<1>10. FilesKnown(u) /\ Prepared(u) => Prepared(u)'
  <2> SUFFICES ASSUME FilesKnown(u), Prepared(u) PROVE Prepared(u)'
    OBVIOUS
  <2>1. \A r \in Queued(u)' : r.to = "real" => client'[u].done[r.f]
    BY <1>1, <1>5, <1>9 DEF Prepared, SamePhase
  <2>2. \A a \in Actors : At(a, u, {"rename"})' /\ ~loc'[a].preparing =>
         \A r \in loc'[a].todo : r[2] = "real" => client'[u].done[r[1]]
    BY <1>6, <1>9, CheckedEffect DEF Prepared, At
  <2>3. \A a \in Actors : At(a, u, {"fix", "rename"})' /\ loc'[a].preparing =>
         a = Loop /\ AllReal(u)' /\ Skipped(a)'
    BY <1>1, PhaseFrame, CheckedEffect DEF Prepared, At, Skipped
  <2>4. DataKnown(u)'
    BY <1>1, <1>3, CheckedEffect DEF DataKnown, SamePhase
  <2>5. \A a \in Actors : At(a, u, {"metadata", "fix", "rename"})' => a = Loop
    BY CheckedEffect DEF Prepared, At
  <2> QED BY <1>1, <2>1, <2>2, <2>3, <2>4, <2>5, PhaseFrame, CheckedEffect DEF Prepared
<1> QED BY <1>0, <1>1, <1>7, <1>8, <1>10, PhaseFrame, CheckedEffect, DataStep

LEMMA DataPiece ==
    ASSUME TypeOK, PreparingInv, DataInv, NEW u \in Torrents, NEW f \in Files, PieceWritten(u, f)
    PROVE  DataOf(u)'
<1>0. DataOf(u) /\ adds[u] # 0 /\ odd' = odd /\ adds' = adds /\ client[u].here
  BY PieceEffect, HereOrTouched DEF DataInv, Downloading
<1>1. /\ \A g \in Files : Name(u, g)' = Name(u, g) /\ (g # f => Place(u, g)' = Place(u, g))
      /\ Place(u, f)' = Name(u, f) /\ Place(u, f) # Name(u, f)
      /\ Queued(u)' = Queued(u)
      /\ ~client[u].done[f]
  BY PieceEffect DEF Name, Place, Queued
<1>2. Plain(u) => ~InPreparation(u) /\ ~InPreparation(u)'
  BY PieceEffect, PlainHeld DEF Downloading, InPreparation, Known
<1>3. MetadataIn(u)' = MetadataIn(u)
  BY PieceEffect DEF MetadataIn
<1>4. FilesKnown(u) => FilesKnown(u)'
  <2>1. FilesKnown(u) => \A g \in Files : client'[u].done[g] => disk'[u][g].full /\ Place(u, g)' = Name(u, g)'
    BY <1>1, PieceEffect DEF FilesKnown
  <2> QED BY <1>1, <1>3, <2>1, PieceEffect DEF FilesKnown, At
<1>5. Prepared(u) => Prepared(u)'
  <2> SUFFICES ASSUME Prepared(u) PROVE Prepared(u)'
    OBVIOUS
  <2>1. ~AllReal(u)
    BY <1>1 DEF AllReal, NamesReal
  <2>2. \A g \in Files : Tidy(u, g)'
    BY <1>1 DEF Prepared, Tidy
  <2>3. DataKnown(u) => DataKnown(u)'
    BY <1>1, PieceEffect DEF DataKnown
  <2> QED BY <1>1, <2>1, <2>2, <2>3, PieceEffect DEF Prepared, At
<1> QED BY <1>0, <1>2, <1>4, <1>5, PieceEffect, DataStep

LEMMA DataCompleted ==
    ASSUME TypeOK, PreparingInv, DataInv, NEW u \in Torrents, NEW f \in Files, FileCompleted(u, f)
    PROVE  DataOf(u)'
<1>0. DataOf(u) /\ adds[u] # 0 /\ odd' = odd /\ adds' = adds /\ client[u].here
  BY CompletedEffect, HereOrTouched DEF DataInv, Downloading
<1>1. /\ \A g \in Files : Name(u, g)' = Name(u, g) /\ Place(u, g)' = Place(u, g)
      /\ Place(u, f) = Name(u, f)
      /\ Queued(u)' = Queued(u)
      /\ MetadataIn(u)' => MetadataIn(u)
  BY CompletedEffect, Emitted DEF Name, Place, Kinds
<1>2. Plain(u) => ~InPreparation(u) /\ ~InPreparation(u)'
  BY CompletedEffect, PlainHeld DEF Downloading, InPreparation, Known
<1>3. \A g \in Files : client[u].done[g] => client'[u].done[g]
  BY CompletedEffect
<1>4. FilesKnown(u) => FilesKnown(u)'
  <2>1. FilesKnown(u) => \A g \in Files : client'[u].done[g] => disk'[u][g].full /\ Place(u, g)' = Name(u, g)'
    BY <1>1, CompletedEffect DEF FilesKnown
  <2> QED BY <1>1, <2>1, CompletedEffect DEF FilesKnown, At
<1>5. Prepared(u) => Prepared(u)'
  <2> SUFFICES ASSUME Prepared(u) PROVE Prepared(u)'
    OBVIOUS
  <2>1. AllReal(u) => AllReal(u)'
    BY <1>1 DEF AllReal, NamesReal
  <2>2. \A g \in Files : Tidy(u, g)'
    BY <1>1 DEF Prepared, Tidy
  <2>3. DataKnown(u) => DataKnown(u)'
    BY <1>1, CompletedEffect DEF DataKnown
  <2>4. \A r \in Queued(u)' : r.to = "real" => client'[u].done[r.f]
    <3>1. \A r \in Queued(u) : r.f \in Files
      BY QueueTypes DEF Rename
    <3> QED BY <1>1, <1>3, <3>1 DEF Prepared
  <2>5. \A a \in Actors : At(a, u, {"rename"})' /\ ~loc'[a].preparing =>
         \A r \in loc'[a].todo : r[2] = "real" => client'[u].done[r[1]]
    BY <1>3, Locals, CompletedEffect DEF Prepared, At, Todo
  <2> QED BY <1>1, <2>1, <2>2, <2>3, <2>4, <2>5, CompletedEffect DEF Prepared, At, Skipped
<1> QED BY <1>0, <1>2, <1>4, <1>5, CompletedEffect, DataStep

LEMMA DataClient ==
    ASSUME TypeOK, PreparingInv, DataInv, [Next]_vars, NEW u \in Torrents, Client(u)
    PROVE  \A t \in Torrents : DataOf(t)'
<1>1. ASSUME NEW t \in Torrents, t # u PROVE DataOf(t)'
  <2>1. UNCHANGED <<pc, loc, sessions, adds, renames>> /\ (t \in doomed' => t \in doomed)
    BY DEF Client, MetadataReceived, TorrentChecked, DeleteWithRetry, PieceWritten, FileCompleted
  <2>2. client'[t] = client[t] /\ disk'[t] = disk[t]
    <3>1. CASE DeleteWithRetry(u)
      BY <1>1, <3>1 DEF DeleteWithRetry, TypeOK
    <3> QED BY <1>1, <3>1, MetadataEffect, CheckedEffect, PieceEffect, CompletedEffect DEF Client
  <2>3. SameQueues(t)
    <3>1. (\E kind \in Kinds : kind # "renamed" /\ Emit(kind, u)) \/ events' = events
      BY DEF Client, MetadataReceived, TorrentChecked, DeleteWithRetry, PieceWritten, FileCompleted,
         Kinds
    <3>2. CASE events' = events
      BY <2>1, <3>2 DEF SameQueues, Queued, Uncounted, MentionedIn, MetadataIn
    <3> QED BY <1>1, <2>1, <3>1, <3>2, Emitted
  <2> QED BY <2>1, <2>2, <2>3, OddGrows, StillActors, DataFrame DEF DataInv, SameData
<1>2. CASE DeleteWithRetry(u)
  <2>1. DataOf(u) /\ adds[u] # 0 /\ Plain(u)' = Plain(u) /\ adds' = adds /\ u \in doomed
    BY <1>2, HereOrTouched DEF DeleteWithRetry, DataInv, Plain
  <2>2. ~Plain(u)
    BY <2>1 DEF DataOf, FilesKnown
  <2> QED BY <1>1, <2>1, <2>2 DEF DataOf
<1> QED BY <1>1, <1>2, DataMetadata, DataChecked, DataPiece, DataCompleted DEF Client

\* The oldest rename is carried out, unless its handle is gone.
LEMMA RenamedEffect ==
    ASSUME TypeOK, FileRenamed
    PROVE  LET r == Head(renames)
               u == r.t IN
           /\ r \in Rename /\ u \in Torrents /\ r.f \in Files /\ renames # <<>>
           /\ renames' = Tail(renames)
           /\ \/ /\ ~(client[u].here /\ client[u].id = r.id)
                 /\ UNCHANGED <<client, disk, events>>
              \/ /\ client[u].here /\ client[u].id = r.id
                 /\ Emit("renamed", u)
                 /\ client'[u].name[r.f] = r.to
                 /\ disk'[u][r.f].at = IF disk[u][r.f].at = client[u].name[r.f] THEN r.to
                                       ELSE disk[u][r.f].at
                 /\ disk'[u][r.f].full = disk[u][r.f].full
                 /\ \A g \in Files \ {r.f} : /\ client'[u].name[g] = client[u].name[g]
                                             /\ disk'[u][g] = disk[u][g]
                 /\ client'[u].here /\ client'[u].id = client[u].id
                 /\ client'[u].done = client[u].done /\ client'[u].meta = client[u].meta
                 /\ client'[u].checking = client[u].checking
                 /\ client'[u].upload = client[u].upload
                 /\ \A t \in Torrents \ {u} : client'[t] = client[t] /\ disk'[t] = disk[t]
           /\ UNCHANGED <<sessions, pc, loc, doomed, adds, odd>>
<1> DEFINE r == Head(renames)
           u == r.t
           f == r.f
           name == [client[u].name EXCEPT ![f] = r.to]
           h == [client[u] EXCEPT !.name = name]
           d == disk[u]
           w == [d[f] EXCEPT !.at = r.to]
<1>1. renames \in Seq(Rename) /\ renames # <<>> /\ renames' = Tail(renames)
  BY DEF FileRenamed, TypeOK, Rename
<1>2. r \in Rename /\ u \in Torrents /\ f \in Files /\ r.to \in Names
  <2>1. r \in Rename
    BY <1>1
  <2> QED BY <2>1 DEF Rename
<1>3. UNCHANGED <<sessions, pc, loc, doomed, adds, odd>>
  BY DEF FileRenamed
<1>4. \/ /\ ~(client[u].here /\ client[u].id = r.id)
         /\ UNCHANGED <<client, disk, events>>
      \/ /\ client[u].here /\ client[u].id = r.id
         /\ client' = [client EXCEPT ![u] = h]
         /\ disk' = IF d[f].at = client[u].name[f] THEN [disk EXCEPT ![u] = [d EXCEPT ![f] = w]] ELSE disk
         /\ Emit("renamed", u)
  BY DEF FileRenamed
<1> HIDE DEF r
<1>5. /\ client \in [Torrents -> Handle] /\ client[u] \in Handle
      /\ disk \in [Torrents -> [Files -> Where]] /\ d \in [Files -> Where] /\ d[f] \in Where
  BY <1>2 DEF TypeOK, Where
<1>6. name[f] = r.to /\ \A g \in Files \ {f} : name[g] = client[u].name[g]
  BY <1>2, <1>5 DEF Handle
<1>7. w.at = r.to /\ w.full = d[f].full
  BY <1>5 DEF Where
<1> HIDE DEF name, w
<1>8. /\ h.name = name /\ h.here = client[u].here /\ h.id = client[u].id /\ h.done = client[u].done
      /\ h.meta = client[u].meta /\ h.checking = client[u].checking /\ h.upload = client[u].upload
  BY <1>5 DEF Handle
<1> HIDE DEF h, u, f
<1>9. CASE client' = [client EXCEPT ![u] = h]
           /\ disk' = IF d[f].at = client[u].name[f] THEN [disk EXCEPT ![u] = [d EXCEPT ![f] = w]] ELSE disk
  <2>1. client'[u] = h /\ \A t \in Torrents \ {u} : client'[t] = client[t]
    BY <1>2, <1>5, <1>9
  <2>2. \A t \in Torrents \ {u} : disk'[t] = disk[t]
    BY <1>2, <1>5, <1>9
  <2>3. \A g \in Files \ {f} : disk'[u][g] = disk[u][g]
    <3>1. disk'[u] = d \/ disk'[u] = [d EXCEPT ![f] = w]
      BY <1>2, <1>5, <1>9
    <3> QED BY <1>5, <3>1
  <2>4. disk'[u][f] = IF d[f].at = client[u].name[f] THEN w ELSE d[f]
    <3>1. CASE d[f].at = client[u].name[f]
      <4>1. disk'[u] = [d EXCEPT ![f] = w]
        BY <1>2, <1>5, <1>9, <3>1
      <4> QED BY <1>2, <1>5, <3>1, <4>1
    <3>2. CASE d[f].at # client[u].name[f]
      BY <1>9, <3>2
    <3> QED BY <3>1, <3>2
  <2>5. client'[u].name[f] = r.to /\ \A g \in Files \ {f} : client'[u].name[g] = client[u].name[g]
    BY <1>6, <1>8, <2>1
  <2>6. /\ disk'[u][f].at = IF disk[u][f].at = client[u].name[f] THEN r.to ELSE disk[u][f].at
        /\ disk'[u][f].full = disk[u][f].full
    <3>1. CASE d[f].at = client[u].name[f]
      BY <1>7, <2>4, <3>1
    <3>2. CASE d[f].at # client[u].name[f]
      BY <2>4, <3>2
    <3> QED BY <3>1, <3>2
  <2> QED BY <1>1, <1>2, <1>3, <1>4, <1>8, <2>1, <2>2, <2>3, <2>5, <2>6 DEF r, u, f
<1> QED BY <1>1, <1>2, <1>3, <1>4, <1>9 DEF r, u, f

LEMMA DataRenamed ==
    ASSUME TypeOK, PreparingInv, DataInv, [Next]_vars, FileRenamed
    PROVE  \A t \in Torrents : DataOf(t)'
<1> PICK r \in Rename : r = Head(renames)
  BY RenamedEffect
<1> DEFINE u == r.t
           f == r.f
<1>0. /\ u \in Torrents /\ f \in Files /\ r.to \in Names /\ renames # <<>>
      /\ renames' = Tail(renames) /\ (Emit("renamed", u) \/ events' = events)
      /\ UNCHANGED <<sessions, pc, loc, doomed, adds, odd>>
  BY RenamedEffect DEF Rename
<1>1. ASSUME NEW t \in Torrents, t # u PROVE DataOf(t)'
  <2>1. client'[t] = client[t] /\ disk'[t] = disk[t]
    BY <1>1, RenamedEffect
  <2>2. SameQueues(t)
    BY <1>0, <1>1, RenameTaken
  <2> QED BY <1>0, <2>1, <2>2, OddGrows, StillActors, DataFrame DEF DataInv, SameData
<1>2. /\ r \in Queued(u) /\ Queued(u)' \subseteq Queued(u)
      /\ Queued(u) \subseteq Queued(u)' \cup {r}
      /\ MetadataIn(u)' => MetadataIn(u)
      /\ Emit("renamed", u) => Uncounted(u)' = Uncounted(u)
  BY <1>0, RenameTaken
<1>3. DataOf(u) /\ adds[u] # 0
  BY <1>0, <1>2, HereOrTouched DEF DataInv
<1>4. CASE ~(client[u].here /\ client[u].id = r.id)
  <2>1. ~Plain(u) /\ client' = client
    BY <1>2, <1>3, <1>4, RenamedEffect DEF DataOf, FilesKnown, Plain
  <2> QED BY <1>0, <1>1, <1>3, <2>1 DEF DataOf, Plain
<1>5. CASE client[u].here /\ client[u].id = r.id
  <2>1. /\ Emit("renamed", u) /\ Uncounted(u)' = Uncounted(u)
        /\ Name(u, f)' = r.to
        /\ Place(u, f)' = IF Place(u, f) = Name(u, f) THEN r.to ELSE Place(u, f)
        /\ disk'[u][f].full = disk[u][f].full
        /\ \A g \in Files \ {f} : Name(u, g)' = Name(u, g) /\ disk'[u][g] = disk[u][g]
                                  /\ Place(u, g)' = Place(u, g)
        /\ client'[u].here /\ client'[u].id = client[u].id
        /\ client'[u].done = client[u].done /\ client'[u].meta = client[u].meta
        /\ client'[u].checking = client[u].checking
    BY <1>2, <1>5, RenamedEffect DEF Place, Name
  <2> HIDE DEF u, f
  <2>2. \A g \in Files : disk'[u][g].full = disk[u][g].full
    BY <2>1
  <2>3. InPreparation(u)' = InPreparation(u) /\ Known(u)' = Known(u)
    BY <1>0 DEF InPreparation, Known
  <2>4. Queued(u) # {} /\ Uncounted(u) # 0
    BY <1>0, <1>2, NothingQueued
  <2>5. ~Unasked(u) /\ ~AllReal(u)
    BY <2>4 DEF Unasked, AllReal
  <2>6. ASSUME FilesKnown(u) PROVE FilesKnown(u)'
    <3>1. \A g \in Files : client'[u].done[g] => disk'[u][g].full /\ Place(u, g)' = Name(u, g)'
      BY <1>0, <2>1, <2>2, <2>6 DEF FilesKnown
    <3> QED BY <1>0, <1>2, <2>1, <2>6, <3>1 DEF FilesKnown, At
  <2>7. ASSUME Preparing(u) PROVE Preparing(u)'
    <3>1. r.to = "part" /\ Place(u, f) # "real"
      BY <1>2, <2>7 DEF Preparing, f
    <3>2. \A g \in Files : Place(u, g)' = Place(u, g)
      <4>1. Name(u, f) \in {"real", "part"}
        BY <1>0 DEF TypeOK, Handle, Names, Name, u, f
      <4> QED BY <2>1, <3>1, <4>1
    <3>3. ASSUME NEW g \in Files, Right(u, g) \/ Coming(u, g)
          PROVE  Right(u, g)' \/ Coming(u, g)'
      <4>1. CASE g = f
        BY <2>1, <3>1, <3>2, <4>1 DEF Right
      <4>2. CASE g # f
        BY <1>2, <2>1, <3>2, <3>3, <4>2 DEF Right, Coming, f
      <4> QED BY <4>1, <4>2
    <3>4. \A a \in Actors : Runs(a, u)' <=> Runs(a, u)
      BY <1>0 DEF Runs, At
    <3>5. ASSUME NEW a \in Actors, Naming(a, u) PROVE Naming(a, u)'
      <4>1. pc[a] = "rename" /\ Uncounted(u) <= loc[a].n
        BY <2>5, <3>5 DEF Naming, At
      <4>2. loc[a].n # 0
        BY <1>0, <2>4, <4>1, QueueTypes, Locals
      <4>3. \A p \in loc[a].todo : p[1] \in Files
        BY Locals DEF Todo
      <4>4. \A g \in Files : Right(u, g)' \/ Coming(u, g)' \/ <<g, "part">> \in loc[a].todo
        BY <3>3, <3>5, <4>1 DEF Naming
      <4>5. \A p \in loc[a].todo : p[2] = "part" /\ Place(u, p[1])' # "real"
        BY <3>2, <3>5, <4>1, <4>3 DEF Naming
      <4>6. \A g \in Files : Place(u, g)' = "part" => loc[a].recheck \/ <<g, "part">> \in loc[a].todo
        BY <3>2, <3>5, <4>1 DEF Naming
      <4>7. /\ At(a, u, {"metadata", "fix", "rename"})'
            /\ \A b \in Actors : b # a /\ Runs(b, u)' => b = Loop /\ pc'[b] = "metadata"
            /\ sessions'[u].pending = 0 /\ ~sessions'[u].recheck
            /\ pc'[a] = "rename" /\ loc'[a].preparing /\ loc'[a].id = sessions'[u].id
            /\ loc' = loc
        BY <1>0, <3>4, <3>5, <4>1 DEF Naming, At
      <4> QED BY <2>1, <4>1, <4>2, <4>4, <4>5, <4>6, <4>7 DEF Naming
    <3>6. Counting(u) => Counting(u)'
      BY <1>0, <2>1, <3>2, <3>3, <3>4 DEF Counting
    <3>7. ~Waiting(u) /\ ~Counted(u) /\ ~NothingToName(u) /\ Known(u)
      BY <2>4, <2>5, <2>7 DEF Waiting, Counted, NothingToName, Preparing
    <3>8. \A g \in Files : Name(u, g)' = "part" => Place(u, g)' # "real"
      BY <2>1, <2>7, <3>1, <3>2 DEF Preparing
    <3>9. \A p \in Queued(u)' : p.to = "part" /\ Place(u, p.f)' # "real"
      <4>1. \A p \in Queued(u) : p.f \in Files
        BY <1>0, QueueTypes DEF Rename
      <4> QED BY <1>2, <2>7, <3>2, <4>1 DEF Preparing
    <3>10. client'[u].meta /\ ~client'[u].checking =>
             \A g \in Files : disk'[u][g].full /\ Place(u, g)' = "real" => client'[u].done[g]
      BY <2>1, <2>2, <2>7, <3>2 DEF Preparing
    <3> QED BY <2>3, <2>7, <3>5, <3>6, <3>7, <3>8, <3>9, <3>10 DEF Preparing
  <2>8. ASSUME FilesKnown(u), Prepared(u) PROVE Prepared(u)'
    <3>1. r.to = "real" => client[u].done[f]
      BY <1>2, <2>8 DEF Prepared, f
    <3>2. Place(u, f) = Name(u, f) \/ (Place(u, f) = "none" /\ Name(u, f) = "part" /\ r.to = "part")
      BY <1>0, <2>8, <3>1 DEF Prepared, Tidy, FilesKnown, Names
    <3>3. \A g \in Files : Tidy(u, g)' /\ (Place(u, g)' = Name(u, g)' => Place(u, g) = Name(u, g))
      BY <2>1, <2>8, <3>2 DEF Prepared, Tidy
    <3>4. DataKnown(u) => DataKnown(u)'
      BY <2>1, <2>2, <3>3 DEF DataKnown
    <3>5. \A a \in Actors : ~(At(a, u, {"fix", "rename"}) /\ loc[a].preparing)
      BY <2>5, <2>8 DEF Prepared
    <3>6. \A a \in Actors : ~(At(a, u, {"fix", "rename"})' /\ loc'[a].preparing)
      BY <1>0, <3>5 DEF At
    <3>7. \A p \in Queued(u)' : p.to = "real" => client'[u].done[p.f]
      BY <1>2, <2>1, <2>8 DEF Prepared
    <3>8. \A a \in Actors : At(a, u, {"rename"})' /\ ~loc'[a].preparing =>
            \A p \in loc'[a].todo : p[2] = "real" => client'[u].done[p[1]]
      BY <1>0, <2>1, <2>8 DEF Prepared, At
    <3>9. client'[u].meta /\ ~client'[u].checking /\ (\A a \in Actors : ~At(a, u, {"recheck"})')
            => DataKnown(u)'
      BY <1>0, <2>1, <2>8, <3>4 DEF Prepared, At
    <3>10. \A a \in Actors : At(a, u, {"metadata", "fix", "rename"})' => a = Loop
      BY <1>0, <2>8 DEF Prepared, At
    <3> QED BY <1>0, <2>8, <3>3, <3>6, <3>7, <3>8, <3>9, <3>10 DEF Prepared
  <2>9. DataOf(u)'
    BY <1>0, <1>3, <1>5, <2>1, <2>3, <2>6, <2>7, <2>8, DataStep
  <2> QED BY <1>1, <2>9 DEF u
<1> QED BY <1>4, <1>5

LEMMA DataRefused ==
    ASSUME TypeOK, DataInv, [Next]_vars, FileRenameFailed
    PROVE  \A t \in Torrents : DataOf(t)'
<1> DEFINE r == Head(renames)
<1>0. /\ renames # <<>> /\ renames' = Tail(renames) /\ Emit("renamed", r.t)
      /\ odd' = [odd EXCEPT ![r.t] = @ \cup {"refused"}]
      /\ UNCHANGED <<sessions, client, disk, pc, loc, doomed, adds>>
  BY DEF FileRenameFailed, Note
<1>1. r \in Rename /\ r.t \in Torrents
  BY <1>0, RenameTaken, EngineAssumption
<1>2. ASSUME NEW t \in Torrents, t # r.t PROVE DataOf(t)'
  <2>1. SameQueues(t)
    BY <1>0, <1>2, RenameTaken
  <2> QED BY <1>0, <2>1, OddGrows, StillActors, DataFrame DEF DataInv, SameData
<1>3. r \in Queued(r.t)
  BY <1>0, <1>1, RenameTaken
<1> HIDE DEF r
<1>4. "refused" \in odd'[r.t]
  BY <1>0, <1>1 DEF TypeOK
<1>5. adds[r.t] # 0
  BY <1>1, <1>3, HereOrTouched DEF DataInv
<1> QED BY <1>0, <1>2, <1>4, <1>5 DEF DataOf, Plain

LEMMA FreshHandleIs ==
    ASSUME NEW i \in Nat, NEW withMeta \in BOOLEAN
    PROVE  LET h == FreshHandle(i, withMeta) IN
           /\ h.meta = withMeta /\ h.checking = withMeta
           /\ \A f \in Files : h.name[f] = "real" /\ ~h.done[f]
BY Values DEF FreshHandle, NoHandle, Handle

LEMMA UntouchedUnasked ==
    ASSUME TypeOK, NEW t \in Torrents, Untouched(t)
    PROVE  Uncounted(t) = 0 /\ Queued(t) = {}
<1>1. Hits(renames, RenamesOf(t)) = {} /\ Queued(t) = {}
  BY DEF Untouched, Queued
<1>2. Hits(events, RenamedOf(t)) = {}
  <2>1. \A i \in 1..Len(events) : i \in DOMAIN events
    BY QueueTypes
  <2>2. \A i \in 1..Len(events) : events[i] \notin RenamedOf(t)
    BY <2>1 DEF Untouched, MentionedIn, RenamedOf
  <2> QED BY <2>2 DEF Hits
<1> QED BY <1>1, <1>2, FS_EmptySet DEF Uncounted

LEMMA SameQueuesKept ==
    ASSUME UNCHANGED <<renames, events>>, NEW t \in Torrents
    PROVE  SameQueues(t)
BY DEF SameQueues, Queued, Uncounted, MentionedIn, MetadataIn

LEMMA DataRequests ==
    ASSUME TypeOK, DataInv, [Next]_vars, NEW c \in Callers, Requests(c)
    PROVE  \A t \in Torrents : DataOf(t)'
<1> PICK u \in Torrents, flag \in BOOLEAN : Add(c, u, flag) \/ RemoveFromClient(c, u, flag)
  BY DEF Requests
<1> c \in Actors
  BY DEF Actors
<1>t. /\ pc \in [Actors -> Labels] /\ loc \in [Actors -> Local]
      /\ client \in [Torrents -> Handle] /\ odd \in [Torrents -> SUBSET Oddities]
      /\ adds \in [Torrents -> Nat] /\ DataOf(u)
  BY DEF TypeOK, DataInv
<1>o. \A t \in Torrents : odd[t] \subseteq odd'[t]
  BY OddGrows
<1>q. /\ UNCHANGED <<sessions, disk, renames, events, doomed>> /\ pc[c] = "idle"
      /\ \A t \in Torrents : SameQueues(t)
  <2>1. UNCHANGED <<sessions, disk, renames, events, doomed>> /\ pc[c] = "idle"
    BY DEF Add, RemoveFromClient
  <2> QED BY <2>1, SameQueuesKept
<1>a. /\ pc'[c] \in {"status", "drop"} /\ loc'[c].t = u
      /\ \A a \in Actors \ {c} : pc'[a] = pc[a] /\ loc'[a] = loc[a]
      /\ \A t \in Torrents \ {u} : client'[t] = client[t] /\ adds'[t] = adds[t]
  <2>1. CASE Add(c, u, flag)
    <3>1. /\ pc' = [pc EXCEPT ![c] = "status"]
          /\ loc' = [loc EXCEPT ![c] = [NoLocal EXCEPT !.t = u, !.id = adds[u] + 1]]
          /\ adds' = [adds EXCEPT ![u] = @ + 1]
          /\ client' = client \/ client' = [client EXCEPT ![u] = FreshHandle(adds[u] + 1, flag)]
      BY <2>1 DEF Add, Goto
    <3> QED BY <1>t, <3>1 DEF NoLocal
  <2>2. CASE RemoveFromClient(c, u, flag)
    <3>1. /\ pc' = [pc EXCEPT ![c] = "drop"]
          /\ loc' = [loc EXCEPT ![c] = [NoLocal EXCEPT !.t = u, !.delete = flag /\ client[u].meta]]
          /\ adds' = adds
          /\ client' = [client EXCEPT ![u] = NoHandle]
      BY <2>2 DEF RemoveFromClient, Goto
    <3> QED BY <1>t, <3>1 DEF NoLocal
  <2> QED BY <2>1, <2>2
<1>1. ASSUME NEW t \in Torrents, t # u PROVE DataOf(t)'
  <2>1. SameActors(t)
    BY <1>1, <1>a, <1>q DEF SameActors
  <2> QED BY <1>1, <1>a, <1>o, <1>q, <2>1, DataFrame DEF DataInv, SameData
<1>2. SameRunners(u)
  BY <1>a, <1>q DEF SameRunners, Runs, At
<1>3. CASE Add(c, u, flag) /\ client[u].here
  <2>1. client' = client /\ adds'[u] # 0 /\ adds[u] # 0 /\ pc'[c] = "status"
    BY <1>3, <1>t, HereOrTouched DEF Add, Goto
  <2>2. SamePhase(u)
    BY <1>2, <1>q, <2>1 DEF SamePhase, SameQueues, Name, Place
  <2>3. FilesKnown(u) => \A a \in Actors : At(a, u, {"insert"})' /\ loc'[a].hasMeta => client[u].meta
    BY <1>a, <2>1 DEF FilesKnown, At
  <2>4. /\ FilesKnown(u) => FilesKnown(u)'
        /\ Preparing(u) => Preparing(u)'
        /\ Prepared(u) => Prepared(u)'
    BY <1>q, <2>1, <2>2, <2>3, QuietFrame DEF SameQueues
  <2>5. Plain(u)' => Plain(u)
    BY <1>o, <2>1 DEF Plain
  <2> QED BY <1>1, <1>t, <2>1, <2>2, <2>4, <2>5, PhaseFrame DEF DataOf
<1>4. CASE Add(c, u, flag) /\ ~client[u].here
  <2>1. /\ client'[u] = FreshHandle(adds[u] + 1, flag) /\ adds[u] + 1 \in Nat
        /\ adds'[u] # 0 /\ pc'[c] = "status"
        /\ adds[u] > 0 => "readded" \in odd'[u]
    <3>1. /\ client' = [client EXCEPT ![u] = FreshHandle(adds[u] + 1, flag)]
          /\ adds' = [adds EXCEPT ![u] = @ + 1] /\ pc' = [pc EXCEPT ![c] = "status"]
          /\ \E more : odd' = [odd EXCEPT ![u] = @ \cup
                ((IF adds[u] > 0 THEN {"readded"} ELSE {}) \cup more)]
      BY <1>4 DEF Add, Note, Goto
    <3> QED BY <1>t, <3>1
  <2>2. CASE adds[u] # 0
    <3>1. ~Plain(u)'
      BY <1>t, <2>1, <2>2 DEF Plain
    <3> QED BY <1>1, <2>1, <3>1 DEF DataOf
  <2>3. CASE adds[u] = 0
    <3>1. Untouched(u) /\ Uncounted(u) = 0 /\ Queued(u) = {}
      BY <1>t, <2>3, UntouchedUnasked DEF DataOf
    <3>2. /\ ~Known(u)' /\ InPreparation(u)' /\ Queued(u)' = {} /\ Uncounted(u)' = 0
          /\ ~MetadataIn(u)'
      BY <1>q, <3>1 DEF Untouched, SameQueues, Known, InPreparation, MetadataIn, MentionedIn
    <3>3. /\ \A f \in Files : Name(u, f)' = "real" /\ ~client'[u].done[f]
          /\ client'[u].meta = client'[u].checking
      BY <2>1, FreshHandleIs DEF Name
    <3>4. \A a \in Actors : ~Runs(a, u)' /\ ~At(a, u, {"insert"})'
                            /\ ~At(a, u, {"metadata", "fix", "rename"})'
      BY <1>a, <2>1, <3>1 DEF Untouched, Runs, At
    <3>5. FilesKnown(u)'
      BY <1>q, <3>1, <3>2, <3>3, <3>4 DEF FilesKnown, Untouched
    <3>6. Preparing(u)'
      BY <3>2, <3>3, <3>4 DEF Preparing, Unasked, NamesReal
    <3> QED BY <1>1, <2>1, <3>2, <3>5, <3>6 DEF DataOf
  <2> QED BY <2>2, <2>3
<1>5. CASE RemoveFromClient(c, u, flag)
  <2>1. client' = [client EXCEPT ![u] = NoHandle] /\ adds' = adds /\ client[u].here
    BY <1>5 DEF RemoveFromClient
  <2>2. ~client'[u].here /\ adds'[u] # 0
    BY <1>t, <2>1, HereOrTouched DEF NoHandle
  <2> QED BY <1>1, <2>2 DEF DataOf, Plain
<1> QED BY <1>3, <1>4, <1>5

LEMMA RenameFileEffect ==
    ASSUME TypeOK, NEW a \in Actors, RenameFile(a), NEW u \in Torrents, u = loc[a].t
    PROVE  /\ pc[a] = "rename" /\ loc'[a].t = u /\ loc'[a].id = loc[a].id
           /\ loc'[a].preparing = loc[a].preparing
           /\ \A b \in Actors \ {a} : loc'[b] = loc[b]
           /\ UNCHANGED <<sessions, client, disk, events, pc, doomed, adds, odd>>
           /\ \E r \in loc[a].todo :
                /\ r[1] \in Files /\ r[2] \in Names /\ Request(u, r) \in Rename
                /\ renames' = IF client[u].here THEN Append(renames, Request(u, r)) ELSE renames
                /\ loc'[a].todo = loc[a].todo \ {r}
                /\ loc'[a].n = IF client[u].here THEN loc[a].n + 1 ELSE loc[a].n
                /\ loc'[a].recheck <=>
                     loc[a].recheck \/ (client[u].here /\ Place(u, r[1]) = r[2])
<1> PICK r \in loc[a].todo :
      /\ renames' = IF client[u].here THEN Append(renames, Request(u, r)) ELSE renames
      /\ loc' = [loc EXCEPT
            ![a].todo = @ \ {r},
            ![a].n = IF client[u].here THEN @ + 1 ELSE @,
            ![a].recheck = @ \/ (client[u].here /\ disk[u][r[1]].at = r[2])]
  BY DEF RenameFile
<1> DEFINE todo == loc[a].todo \ {r}
           n == IF client[u].here THEN loc[a].n + 1 ELSE loc[a].n
           recheck == loc[a].recheck \/ (client[u].here /\ disk[u][r[1]].at = r[2])
           l == [loc[a] EXCEPT !.todo = todo, !.n = n, !.recheck = recheck]
<1>1. loc \in [Actors -> Local] /\ loc[a] \in Local
  BY DEF TypeOK
<1>2. loc' = [loc EXCEPT ![a] = l]
  OBVIOUS
<1> HIDE DEF todo, n, recheck
<1>3. /\ l.todo = todo /\ l.n = n /\ l.recheck = recheck /\ l.t = loc[a].t
      /\ l.id = loc[a].id /\ l.preparing = loc[a].preparing
  BY <1>1 DEF Local
<1> HIDE DEF l
<1>4. loc'[a] = l /\ \A b \in Actors \ {a} : loc'[b] = loc[b]
  BY <1>1, <1>2
<1>5. r[1] \in Files /\ r[2] \in Names /\ Request(u, r) \in Rename
  BY Locals DEF Todo, Request, Rename, TypeOK, Handle
<1>6. pc[a] = "rename" /\ UNCHANGED <<sessions, client, disk, events, pc, doomed, adds, odd>>
  BY DEF RenameFile
<1> QED BY <1>3, <1>4, <1>5, <1>6 DEF todo, n, recheck, Place

\* What a routine's next step leaves alone, if it is about u.
LEMMA ContinueEffect ==
    ASSUME TypeOK, NEW a \in Actors, Continue(a), NEW u \in Torrents, u = loc[a].t
    PROVE  /\ \A b \in Actors \ {a} : pc'[b] = pc[b] /\ loc'[b] = loc[b]
           /\ pc[a] # "idle" /\ (pc'[a] = "idle" \/ loc'[a].t = u)
           /\ \A t \in Torrents \ {u} : /\ client'[t] = client[t] /\ sessions'[t] = sessions[t]
                                        /\ t \in doomed' => t \in doomed
           /\ UNCHANGED <<disk, events, adds>>
           /\ \/ renames' = renames
              \/ \E x \in Rename : x.t = u /\ renames' = Append(renames, x)
<1>t. /\ pc \in [Actors -> Labels] /\ loc \in [Actors -> Local]
      /\ client \in [Torrents -> Handle] /\ sessions \in [Torrents -> Entry]
      /\ loc[a] \in Local
  BY DEF TypeOK
<1>1. \A b \in Actors \ {a} : pc'[b] = pc[b] /\ loc'[b] = loc[b]
  BY <1>t DEF Continue, AddStatus, AddInsert, OnMetadata, FixPartNames,
     RenameFile, SetPending, FinishPreparing, ForceRecheck, LeaveUploadMode, RemoveEntry,
     Goto, Done
<1>2. pc[a] # "idle" /\ UNCHANGED <<disk, events, adds>>
  BY DEF Continue, AddStatus, AddInsert, OnMetadata, FixPartNames,
     RenameFile, SetPending, FinishPreparing, ForceRecheck, LeaveUploadMode, RemoveEntry
<1>3. \A t \in Torrents \ {u} : /\ client'[t] = client[t] /\ sessions'[t] = sessions[t]
                                /\ t \in doomed' => t \in doomed
  BY <1>t DEF Continue, AddStatus, AddInsert, OnMetadata, FixPartNames,
     RenameFile, SetPending, FinishPreparing, ForceRecheck, LeaveUploadMode, RemoveEntry
<1>4. pc'[a] = "idle" \/ loc'[a].t = u
  <2>1. CASE AddStatus(a) \/ AddInsert(a) \/ OnMetadata(a)
    BY <1>t, <2>1 DEF AddStatus, AddInsert, OnMetadata, Goto, Done, Local
  <2>2. CASE FixPartNames(a) \/ FinishPreparing(a) \/ ForceRecheck(a)
    BY <1>t, <2>2 DEF FixPartNames, FinishPreparing, ForceRecheck, Local
  <2>3. CASE LeaveUploadMode(a) \/ RemoveEntry(a)
    BY <1>t, <2>3 DEF LeaveUploadMode, RemoveEntry, Done, Goto
  <2>4. CASE RenameFile(a)
    BY <2>4, RenameFileEffect
  <2>5. CASE SetPending(a)
    <3>1. Done(a) \/ loc' = [loc EXCEPT ![a] = [NoLocal EXCEPT !.t = u]]
      BY <2>5 DEF SetPending
    <3> QED BY <1>t, <3>1 DEF Done, Goto, NoLocal
  <2> QED BY <2>1, <2>2, <2>3, <2>4, <2>5 DEF Continue
<1>5. renames' = renames \/ \E x \in Rename : x.t = u /\ renames' = Append(renames, x)
  <2>1. CASE RenameFile(a)
    <3>1. PICK r \in loc[a].todo : renames' = Append(renames, Request(u, r)) \/ renames' = renames
      BY <2>1 DEF RenameFile
    <3>2. Request(u, r) \in Rename /\ Request(u, r).t = u
      BY Locals DEF Request, Rename, Todo, TypeOK, Handle
    <3> QED BY <3>1, <3>2
  <2>2. CASE ~RenameFile(a)
    BY <2>2 DEF Continue, AddStatus, AddInsert, OnMetadata, FixPartNames,
       SetPending, FinishPreparing, ForceRecheck, LeaveUploadMode, RemoveEntry
  <2> QED BY <2>1, <2>2
<1> QED BY <1>1, <1>2, <1>3, <1>4, <1>5

\* The other torrents.
LEMMA DataOthers ==
    ASSUME TypeOK, DataInv, [Next]_vars, NEW a \in Actors, Continue(a),
           NEW u \in Torrents, u = loc[a].t, NEW t \in Torrents, t # u
    PROVE  DataOf(t)'
<1>1. SameQueues(t)
  <2>1. CASE renames' = renames
    BY <2>1, ContinueEffect, SameQueuesKept
  <2>2. CASE renames' # renames
    <3>1. PICK x \in Rename : x.t = u /\ renames' = Append(renames, x)
      BY <2>2, ContinueEffect
    <3>2. events' = events
      BY ContinueEffect
    <3> QED BY <3>1, <3>2, RenameAsked
  <2> QED BY <2>1, <2>2
<1>2. SameActors(t)
  BY ContinueEffect DEF SameActors
<1>3. SameData(t)
  BY ContinueEffect DEF SameData
<1> QED BY <1>1, <1>2, <1>3, OddGrows, DataFrame DEF DataInv

LEMMA BlankStep ==
    ASSUME TypeOK, [Next]_vars, \A a \in Actors : Blank(a)
    PROVE  \A a \in Actors : Blank(a)'
<1>t. /\ pc \in [Actors -> Labels] /\ loc \in [Actors -> Local] /\ Loop \in Actors
      /\ Callers \subseteq Actors
  BY DEF TypeOK, Actors
<1>1. ASSUME NEW c \in Callers, Requests(c) PROVE \A a \in Actors : Blank(a)'
  <2> PICK t \in Torrents, flag \in BOOLEAN : Add(c, t, flag) \/ RemoveFromClient(c, t, flag)
    BY <1>1 DEF Requests
  <2>1. \A b \in Actors \ {c} : pc'[b] = pc[b] /\ loc'[b] = loc[b]
    BY <1>t, <1>1 DEF Add, RemoveFromClient, Goto
  <2>2. loc'[c].todo = {} /\ loc'[c].n = 0 /\ ~loc'[c].recheck
    <3>1. \/ loc' = [loc EXCEPT ![c] = [NoLocal EXCEPT !.t = t, !.id = adds[t] + 1]]
          \/ loc' = [loc EXCEPT ![c] = [NoLocal EXCEPT !.t = t, !.delete = flag /\ client[t].meta]]
      BY DEF Add, RemoveFromClient
    <3> QED BY <1>t, <3>1 DEF NoLocal
  <2> QED BY <2>1, <2>2 DEF Blank
<1>2. ASSUME NEW a \in Actors, Continue(a) PROVE \A b \in Actors : Blank(b)'
  <2> PICK u \in Torrents : u = loc[a].t
    BY Locals
  <2>1. \A b \in Actors \ {a} : pc'[b] = pc[b] /\ loc'[b] = loc[b]
    BY <1>2, ContinueEffect
  <2>2. loc[a] \in Local
    BY <1>t
  <2>3. Blank(a)'
    <3>1. CASE AddStatus(a)
      BY <1>t, <2>2, <3>1 DEF AddStatus, Goto, Blank, Local
    <3>2. CASE AddInsert(a)
      BY <1>t, <2>2, <3>2 DEF AddInsert, Goto, Done, Blank, Local
    <3>3. CASE OnMetadata(a)
      BY <1>t, <2>2, <3>3 DEF OnMetadata, Goto, Done, Blank, Local
    <3>4. CASE ~(AddStatus(a) \/ AddInsert(a) \/ OnMetadata(a))
      <4>1. pc'[a] \notin {"status", "insert", "metadata", "fix"}
        BY <1>2, <1>t, <3>4 DEF Continue, FixPartNames, RenameFile, SetPending, FinishPreparing,
           ForceRecheck, LeaveUploadMode, RemoveEntry, Goto, Done
      <4> QED BY <4>1 DEF Blank
    <3> QED BY <3>1, <3>2, <3>3, <3>4
  <2> QED BY <2>1, <2>3 DEF Blank
<1>3. CASE HandleEvents
  <2>1. \/ UNCHANGED <<pc, loc>>
        \/ \E label, t : LoopTakes(label, t)
    BY <1>3 DEF HandleEvents, HandleMetadata, HandleProgress, HandleRenamed
  <2>2. ASSUME NEW label, NEW t, LoopTakes(label, t) PROVE \A b \in Actors : Blank(b)'
    <3>1. loc'[Loop].todo = {} /\ loc'[Loop].n = 0 /\ ~loc'[Loop].recheck
          /\ \A b \in Actors \ {Loop} : loc'[b] = loc[b] /\ pc'[b] = pc[b]
      BY <1>t, <2>2 DEF LoopTakes, Goto, NoLocal
    <3> QED BY <3>1 DEF Blank
  <2> QED BY <2>1, <2>2 DEF Blank
<1>4. ASSUME NEW t \in Torrents, HealPartNames(t) \/ Client(t) PROVE \A b \in Actors : Blank(b)'
  BY <1>4 DEF Blank, HealPartNames, Client, MetadataReceived, TorrentChecked, DeleteWithRetry,
     PieceWritten, FileCompleted
<1>5. CASE FileRenamed \/ FileRenameFailed \/ UNCHANGED vars
  BY <1>5 DEF Blank, FileRenamed, FileRenameFailed, vars
<1> QED BY <1>1, <1>2, <1>3, <1>4, <1>5 DEF Next

\* The torrent itself.
LEMMA OwnStart ==
    ASSUME TypeOK, DataInv, [Next]_vars, NEW a \in Actors, Continue(a),
           NEW u \in Torrents, u = loc[a].t
    PROVE  /\ DataOf(u) /\ Blank(a) /\ adds[u] # 0 /\ adds'[u] = adds[u]
           /\ odd[u] \subseteq odd'[u]
<1>1. DataOf(u) /\ Blank(a) /\ odd[u] \subseteq odd'[u]
  BY OddGrows DEF DataInv
<1>2. pc[a] # "idle" /\ adds' = adds
  BY ContinueEffect
<1> QED BY <1>1, <1>2, HereOrTouched

LEMMA DataStatus ==
    ASSUME TypeOK, DataInv, [Next]_vars, NEW a \in Actors, AddStatus(a),
           NEW u \in Torrents, u = loc[a].t
    PROVE  DataOf(u)'
<1>0. /\ DataOf(u) /\ adds[u] # 0 /\ adds'[u] = adds[u] /\ odd[u] \subseteq odd'[u]
      /\ \A b \in Actors \ {a} : pc'[b] = pc[b] /\ loc'[b] = loc[b]
  BY OwnStart, ContinueEffect DEF Continue
<1>1. /\ pc[a] = "status" /\ pc'[a] = "insert"
      /\ loc'[a].hasMeta = (client[u].here /\ client[u].meta)
      /\ UNCHANGED <<sessions, client, disk, renames, events, doomed, odd>>
  BY DEF AddStatus, Goto, TypeOK, Local
<1>2. SameRunners(u)
  BY <1>0, <1>1 DEF SameRunners, Runs, At
<1>3. SamePhase(u) /\ SameQueues(u)
  BY <1>1, <1>2, SameQueuesKept DEF SamePhase, SameQueues, Name, Place
<1>4. FilesKnown(u) => \A b \in Actors : At(b, u, {"insert"})' /\ loc'[b].hasMeta => client[u].meta
  BY <1>0, <1>1 DEF FilesKnown, At
<1>5. /\ FilesKnown(u) => FilesKnown(u)'
      /\ Preparing(u) => Preparing(u)'
      /\ Prepared(u) => Prepared(u)'
  BY <1>1, <1>3, <1>4, QuietFrame DEF SameQueues
<1> QED BY <1>0, <1>1, <1>3, <1>5, PhaseFrame, DataStep

LEMMA DataInsert ==
    ASSUME TypeOK, PreparingInv, DataInv, [Next]_vars, NEW a \in Actors, AddInsert(a),
           NEW u \in Torrents, u = loc[a].t
    PROVE  DataOf(u)'
<1>0. /\ DataOf(u) /\ adds[u] # 0 /\ adds'[u] = adds[u] /\ odd[u] \subseteq odd'[u]
      /\ \A b \in Actors \ {a} : pc'[b] = pc[b] /\ loc'[b] = loc[b]
  BY OwnStart, ContinueEffect DEF Continue
<1>1. /\ pc[a] = "insert"
      /\ UNCHANGED <<client, disk, renames, events, doomed, odd>>
  BY DEF AddInsert
<1>2. SameQueues(u)
  BY <1>1, SameQueuesKept
<1>3. CASE Known(u)
  <2>1. pc'[a] = "idle" /\ sessions' = sessions
    BY <1>3 DEF AddInsert, Done, Goto, TypeOK
  <2>2. SameRunners(u)
    BY <1>0, <1>1, <2>1 DEF SameRunners, Runs, At
  <2>3. SamePhase(u)
    BY <1>1, <1>2, <2>1, <2>2 DEF SamePhase, SameQueues, Name, Place
  <2>4. FilesKnown(u) => \A b \in Actors : At(b, u, {"insert"})' /\ loc'[b].hasMeta => client[u].meta
    BY <1>0, <2>1 DEF FilesKnown, At
  <2>5. /\ FilesKnown(u) => FilesKnown(u)'
        /\ Preparing(u) => Preparing(u)'
        /\ Prepared(u) => Prepared(u)'
    BY <1>1, <1>2, <2>3, <2>4, QuietFrame DEF SameQueues
  <2> QED BY <1>0, <1>1, <2>3, <2>5, PhaseFrame, DataStep
<1>4. CASE ~Known(u)
  <2> DEFINE e == [NoEntry EXCEPT !.id = loc[a].id, !.preparing = TRUE]
  <2>1. e.id = loc[a].id /\ e.preparing /\ e.pending = 0 /\ ~e.recheck /\ e.id # 0
    BY <1>1 DEF NoEntry, PreparingInv, Adding
  <2> HIDE DEF e
  <2>2. sessions' = [sessions EXCEPT ![u] = e]
    BY <1>4 DEF AddInsert, e
  <2>3. sessions'[u] = e
    BY <2>2 DEF TypeOK
  <2>4. Known(u)' /\ InPreparation(u)' /\ InPreparation(u)
    BY <1>4, <2>1, <2>3 DEF Known, InPreparation
  <2>5. \/ pc'[a] = "idle"
        \/ pc'[a] = "metadata" /\ loc[a].hasMeta /\ loc'[a].t = u
    BY <1>4 DEF AddInsert, Goto, Done, TypeOK, Local
  <2>6. FilesKnown(u) => FilesKnown(u)'
    <3>1. FilesKnown(u) => \A b \in Actors :
            /\ At(b, u, {"metadata", "fix", "rename"})' => client[u].meta
            /\ At(b, u, {"insert"})' /\ loc'[b].hasMeta => client[u].meta
      BY <1>0, <1>1, <2>5 DEF FilesKnown, At
    <3> QED BY <1>1, <1>2, <3>1 DEF FilesKnown, SameQueues, Place, Name
  <2>7. ASSUME Preparing(u) PROVE Preparing(u)'
    <3>1. Unasked(u) /\ \A b \in Actors : ~Runs(b, u)
      BY <1>4, <2>7 DEF Preparing
    <3>2. /\ \A f \in Files : Name(u, f)' = Name(u, f) /\ Place(u, f)' = Place(u, f)
          /\ NamesReal(u)' = NamesReal(u) /\ Unasked(u)'
      BY <1>1, <1>2, <3>1 DEF Name, Place, NamesReal, Unasked, SameQueues
    <3>3. \A b \in Actors : Runs(b, u)' => b = a /\ pc'[a] = "metadata"
      BY <1>0, <2>5, <3>1 DEF Runs, At
    <3>4. sessions'[u].pending = 0 /\ ~sessions'[u].recheck
      BY <2>1, <2>3
    <3>7. Waiting(u)' \/ \E b \in Actors : Naming(b, u)'
      <4>1. Waiting(u)' \/ Naming(a, u)'
        <5>1. CASE pc'[a] = "idle"
          BY <3>2, <3>3, <3>4, <5>1 DEF Waiting
        <5>2. CASE pc'[a] = "metadata"
          BY <2>5, <3>2, <3>3, <3>4, <5>2 DEF Naming, At
        <5> QED BY <2>5, <5>1, <5>2
      <4> QED BY <4>1
    <3>8. Queued(u)' = Queued(u) /\ \A r \in Queued(u) : r.f \in Files
      BY <1>2, QueueTypes DEF SameQueues, Rename
    <3> QED BY <1>1, <2>4, <2>7, <3>2, <3>7, <3>8 DEF Preparing
  <2> QED BY <1>0, <1>1, <2>4, <2>6, <2>7, DataStep
<1> QED BY <1>3, <1>4

LEMMA DataOnMetadata ==
    ASSUME TypeOK, DataInv, [Next]_vars, NEW a \in Actors, OnMetadata(a),
           NEW u \in Torrents, u = loc[a].t
    PROVE  DataOf(u)'
<1>0. /\ DataOf(u) /\ Blank(a) /\ adds[u] # 0 /\ adds'[u] = adds[u] /\ odd[u] \subseteq odd'[u]
      /\ \A b \in Actors \ {a} : pc'[b] = pc[b] /\ loc'[b] = loc[b]
  BY OwnStart, ContinueEffect DEF Continue
<1>1. /\ pc[a] = "metadata" /\ loc[a].t = u
      /\ UNCHANGED <<sessions, client, disk, renames, events, doomed>>
  BY DEF OnMetadata
<1>2. Runs(a, u) /\ At(a, u, {"metadata", "fix", "rename"})
  BY <1>1 DEF Runs, At
<1>3. SameQueues(u)
  BY <1>1, SameQueuesKept
<1>4. /\ \A f \in Files : Name(u, f)' = Name(u, f) /\ Place(u, f)' = Place(u, f)
      /\ NamesReal(u)' = NamesReal(u) /\ Unasked(u)' = Unasked(u) /\ AllReal(u)' = AllReal(u)
      /\ Known(u)' = Known(u) /\ InPreparation(u)' = InPreparation(u)
      /\ Queued(u)' = Queued(u) /\ DataKnown(u)' = DataKnown(u)
      /\ \A f \in Files : Tidy(u, f)' = Tidy(u, f)
      /\ \A r \in Queued(u) : r.f \in Files
  BY <1>1, <1>3, QueueTypes DEF Name, Place, NamesReal, Unasked, AllReal, Known, InPreparation, SameQueues,
     DataKnown, Tidy, Rename
<1>5. CASE ~Known(u)
  <2>1. InPreparation(u) /\ ~Preparing(u)
    BY <1>2, <1>5 DEF InPreparation, Preparing
  <2>2. Plain(u)' => Plain(u)
    BY <1>0, <1>1 DEF Plain
  <2> QED BY <1>0, <2>1, <2>2 DEF DataOf
<1>6. CASE Known(u)
  <2>1. /\ pc'[a] = "fix" /\ loc'[a].t = u /\ loc'[a].id = sessions[u].id
        /\ loc'[a].preparing = sessions[u].preparing
    BY <1>6 DEF OnMetadata, Goto, TypeOK, Local
  <2>2. Plain(u)' => ~AlreadyOn(a, u)
    <3>1. AlreadyOn(a, u) => "twice" \in odd'[u]
      BY <1>6 DEF OnMetadata, Note, TypeOK
    <3> QED BY <3>1 DEF Plain
  <2>3. \A b \in Actors : /\ Runs(b, u)' <=> Runs(b, u)
                          /\ b # a => pc'[b] = pc[b] /\ loc'[b] = loc[b]
    BY <1>0, <1>1, <2>1 DEF Runs, At
  <2>4. FilesKnown(u) => FilesKnown(u)'
    <3>1. FilesKnown(u) => \A b \in Actors :
            /\ At(b, u, {"metadata", "fix", "rename"})' => client[u].meta
            /\ At(b, u, {"insert"})' /\ loc'[b].hasMeta => client[u].meta
      BY <1>0, <1>2, <2>1 DEF FilesKnown, At
    <3> QED BY <1>1, <1>3, <3>1 DEF FilesKnown, SameQueues, Place, Name
  <2>5. ASSUME ~AlreadyOn(a, u), InPreparation(u), Preparing(u) PROVE Preparing(u)'
    <3>1. \A b \in Actors \ {a} : ~At(b, u, {"metadata", "fix", "rename"})
      BY <2>5 DEF AlreadyOn, Others, At
    <3>2. sessions[u].pending = 0 /\ sessions[u].preparing
      BY <1>6, <2>5 DEF AlreadyOn, InPreparation, TypeOK, Entry
    <3>3. ASSUME Naming(a, u) PROVE Naming(a, u)'
      <4>1. Unasked(u) /\ sessions[u].pending = 0 /\ ~sessions[u].recheck
            /\ \A b \in Actors : b # a /\ Runs(b, u) => b = Loop /\ pc[b] = "metadata"
        BY <1>1, <3>3 DEF Naming
      <4> QED BY <1>1, <1>4, <2>1, <2>3, <3>2, <4>1 DEF Naming, At
    <3>4. ASSUME NothingToName(u) PROVE NothingToName(u)'
      BY <1>1, <1>2, <1>4, <2>1, <2>3, <3>2, <3>4 DEF NothingToName, Skipped
    <3>5. ~Waiting(u) /\ ~Counting(u)
      BY <1>2, <3>2 DEF Waiting, Counting
    <3>6. ~Counted(u)
      BY <1>1, <1>2 DEF Counted, At
    <3>7. \A b \in Actors : Naming(b, u) => b = a
      BY <3>1 DEF Naming
    <3>8. Naming(a, u)' \/ NothingToName(u)'
      BY <1>6, <2>5, <3>3, <3>4, <3>5, <3>6, <3>7 DEF Preparing
    <3> QED BY <1>1, <1>4, <1>6, <2>5, <3>8 DEF Preparing
  <2>6. ASSUME ~InPreparation(u), Prepared(u) PROVE Prepared(u)'
    <3>1. ~loc'[a].preparing
      BY <2>1, <2>6 DEF InPreparation
    <3> QED BY <1>1, <1>4, <2>1, <2>3, <2>6, <3>1 DEF Prepared, At, Skipped
  <2> QED BY <1>0, <1>1, <1>4, <2>2, <2>4, <2>5, <2>6, DataStep
<1> QED BY <1>5, <1>6

LEMMA DataFix ==
    ASSUME TypeOK, PreparingInv, DataInv, [Next]_vars, NEW a \in Actors, FixPartNames(a),
           NEW u \in Torrents, u = loc[a].t
    PROVE  DataOf(u)'
<1>0. /\ DataOf(u) /\ Blank(a) /\ adds[u] # 0 /\ adds'[u] = adds[u] /\ odd[u] \subseteq odd'[u]
      /\ \A b \in Actors \ {a} : pc'[b] = pc[b] /\ loc'[b] = loc[b]
  BY OwnStart, ContinueEffect DEF Continue
<1>1. /\ pc[a] = "fix" /\ pc'[a] = "rename" /\ loc[a].t = u
      /\ UNCHANGED <<sessions, client, disk, renames, events, doomed, odd>>
  BY DEF FixPartNames, Goto, TypeOK
<1>2. /\ loc'[a].todo = Renames(u, loc[a].preparing) /\ loc'[a].t = u
      /\ loc'[a].id = loc[a].id /\ loc'[a].preparing = loc[a].preparing
      /\ loc'[a].n = loc[a].n /\ loc'[a].recheck = loc[a].recheck
  <2> DEFINE rs == Renames(u, loc[a].preparing)
  <2>1. loc' = [loc EXCEPT ![a] = [loc[a] EXCEPT !.todo = rs]]
    BY DEF FixPartNames
  <2> HIDE DEF rs
  <2>2. loc'[a] = [loc[a] EXCEPT !.todo = rs] /\ loc[a] \in Local
    BY <2>1 DEF TypeOK
  <2> QED BY <2>2 DEF Local, rs
<1>3. loc[a].n = 0 /\ ~loc[a].recheck
  BY <1>0, <1>1 DEF Blank
<1>4. Runs(a, u) /\ At(a, u, {"metadata", "fix", "rename"})
  BY <1>1 DEF Runs, At
<1>5. SameQueues(u)
  BY <1>1, SameQueuesKept
<1>6. /\ \A f \in Files : Name(u, f)' = Name(u, f) /\ Place(u, f)' = Place(u, f)
      /\ NamesReal(u)' = NamesReal(u) /\ Unasked(u)' = Unasked(u) /\ AllReal(u)' = AllReal(u)
      /\ Known(u)' = Known(u) /\ InPreparation(u)' = InPreparation(u)
      /\ Queued(u)' = Queued(u) /\ Uncounted(u)' = Uncounted(u) /\ DataKnown(u)' = DataKnown(u)
      /\ \A f \in Files : Tidy(u, f)' = Tidy(u, f)
      /\ \A r \in Queued(u) : r.f \in Files
  BY <1>1, <1>5, QueueTypes DEF Name, Place, NamesReal, Unasked, AllReal, Known, InPreparation, SameQueues,
     DataKnown, Tidy, Rename
<1>7. \A b \in Actors : /\ Runs(b, u)' <=> Runs(b, u)
                        /\ b # a => pc'[b] = pc[b] /\ loc'[b] = loc[b]
  BY <1>0, <1>1, <1>2 DEF Runs, At
<1>8. FilesKnown(u) => FilesKnown(u)'
  <2>1. FilesKnown(u) => \A b \in Actors :
          /\ At(b, u, {"metadata", "fix", "rename"})' => client[u].meta
          /\ At(b, u, {"insert"})' /\ loc'[b].hasMeta => client[u].meta
    BY <1>0, <1>1, <1>4 DEF FilesKnown, At
  <2> QED BY <1>1, <1>5, <2>1 DEF FilesKnown, SameQueues, Place, Name
<1>9. \A r : r \in Renames(u, loc[a].preparing) <=>
         /\ r \in Files \X Names /\ client[u].here /\ client[u].meta
         /\ loc[a].preparing \/ ~client[u].checking
         /\ r[2] = PartName(u, r[1], loc[a].preparing) /\ r[2] # client[u].name[r[1]]
  BY DEF Renames
<1>10. AllReal(u) /\ loc[a].preparing => loc'[a].todo = {}
  <2> SUFFICES ASSUME AllReal(u), loc[a].preparing, NEW r \in loc'[a].todo PROVE FALSE
    OBVIOUS
  <2>1. r[1] \in Files /\ r[2] = PartName(u, r[1], loc[a].preparing) /\ r[2] # client[u].name[r[1]]
    <3>1. r \in Renames(u, loc[a].preparing)
      BY <1>2
    <3>2. r \in Files \X Names /\ r[2] = PartName(u, r[1], loc[a].preparing)
           /\ r[2] # client[u].name[r[1]]
      BY <1>9, <3>1
    <3> QED BY <3>2
  <2> QED BY <2>1 DEF AllReal, NamesReal, Name, Place, PartName
<1>11. Plain(u) /\ FilesKnown(u) => client[u].here /\ client[u].meta
  BY <1>4 DEF FilesKnown, Plain
<1>12. ASSUME Plain(u), FilesKnown(u), InPreparation(u), Preparing(u) PROVE Preparing(u)'
  <2>1. Known(u)
    BY <1>1, <1>12, PlainHeld
  <2>2. ASSUME NEW b \in Actors, Naming(b, u) PROVE Naming(a, u)'
    <3>1. b = a
      BY <1>1, <1>4, <2>2 DEF Naming
    <3>2. /\ Unasked(u) /\ sessions[u].pending = 0 /\ ~sessions[u].recheck
          /\ loc[a].preparing /\ loc[a].id = sessions[u].id
          /\ \A c \in Actors : c # a /\ Runs(c, u) => c = Loop /\ pc[c] = "metadata"
      BY <1>1, <2>2, <3>1 DEF Naming
    <3>3. \A r \in loc'[a].todo : r[2] = "part" /\ Place(u, r[1])' # "real"
      <4> SUFFICES ASSUME NEW r \in loc'[a].todo PROVE r[2] = "part" /\ Place(u, r[1])' # "real"
        OBVIOUS
      <4>1. r[1] \in Files /\ r[2] = PartName(u, r[1], loc[a].preparing) /\ r[2] # client[u].name[r[1]]
        <5>1. r \in Renames(u, loc[a].preparing)
          BY <1>2
        <5>2. r \in Files \X Names /\ r[2] = PartName(u, r[1], loc[a].preparing)
               /\ r[2] # client[u].name[r[1]]
          BY <1>9, <5>1
        <5> QED BY <5>2
      <4>2. client[u].name[r[1]] = "real"
        BY <3>2, <4>1 DEF Unasked, NamesReal, Name
      <4> QED BY <1>6, <3>2, <4>1, <4>2 DEF PartName, Place
    <3>4. ASSUME NEW f \in Files
          PROVE  /\ Place(u, f) # "real" => <<f, "part">> \in loc'[a].todo
                 /\ Place(u, f) = "real" => Right(u, f)
      <4>1. Name(u, f) = "real"
        BY <3>2 DEF Unasked, NamesReal
      <4>2. <<f, "part">> \in Files \X Names /\ <<f, "part">>[1] = f /\ <<f, "part">>[2] = "part"
        BY DEF Names
      <4>3. Place(u, f) # "real" => PartName(u, f, loc[a].preparing) = "part"
        BY <3>2 DEF PartName, Place
      <4>4. Place(u, f) # "real" => <<f, "part">> \in Renames(u, loc[a].preparing)
        BY <1>9, <1>11, <1>12, <3>2, <4>1, <4>2, <4>3 DEF Name
      <4> QED BY <1>2, <4>1, <4>4 DEF Right
    <3>5. \A f \in Files : /\ Right(u, f)' \/ Coming(u, f)' \/ <<f, "part">> \in loc'[a].todo
                           /\ Place(u, f)' = "part" => <<f, "part">> \in loc'[a].todo
      <4>1. \A f \in Files : Right(u, f) => Right(u, f)'
        BY <1>6 DEF Right
      <4> QED BY <1>6, <3>4, <4>1
    <3>6. Uncounted(u)' <= loc'[a].n /\ NamesReal(u)' /\ ~loc'[a].recheck
      BY <1>2, <1>3, <1>6, <3>2 DEF Unasked
    <3>7. \A c \in Actors : c # a /\ Runs(c, u)' => c = Loop /\ pc'[c] = "metadata"
      BY <1>7, <3>2
    <3>8. /\ At(a, u, {"metadata", "fix", "rename"})' /\ pc'[a] = "rename"
          /\ sessions'[u].pending = 0 /\ ~sessions'[u].recheck
          /\ loc'[a].preparing /\ loc'[a].id = sessions'[u].id
      BY <1>1, <1>2, <3>2 DEF At
    <3> QED BY <3>3, <3>5, <3>6, <3>7, <3>8 DEF Naming
  <2>3. NothingToName(u) => NothingToName(u)'
    BY <1>1, <1>2, <1>3, <1>4, <1>6, <1>7, <1>10 DEF NothingToName, Skipped
  <2>4. ~Waiting(u) /\ ~Counting(u)
    BY <1>1, <1>4 DEF Waiting, Counting
  <2>5. ~Counted(u)
    BY <1>1, <1>4 DEF Counted, At
  <2>6. (\E b \in Actors : Naming(b, u)') \/ NothingToName(u)'
    BY <1>12, <2>1, <2>2, <2>3, <2>4, <2>5 DEF Preparing
  <2> QED BY <1>1, <1>6, <1>12, <2>1, <2>6 DEF Preparing
<1>13. ASSUME Prepared(u) PROVE Prepared(u)'
  <2>1. \A b \in Actors : At(b, u, {"fix", "rename"})' /\ loc'[b].preparing =>
          b = Loop /\ AllReal(u)' /\ Skipped(b)'
    <3>1. loc[a].preparing => a = Loop /\ AllReal(u)
      BY <1>1, <1>13 DEF Prepared, At
    <3>2. loc'[a].preparing => a = Loop /\ AllReal(u)' /\ Skipped(a)'
      BY <1>2, <1>3, <1>6, <1>10, <3>1 DEF Skipped
    <3>3. \A b \in Actors \ {a} : At(b, u, {"fix", "rename"})' /\ loc'[b].preparing =>
            b = Loop /\ AllReal(u)' /\ Skipped(b)'
      BY <1>6, <1>7, <1>13 DEF Prepared, At, Skipped
    <3> QED BY <3>2, <3>3
  <2>2. \A b \in Actors : At(b, u, {"rename"})' /\ ~loc'[b].preparing =>
          \A r \in loc'[b].todo : r[2] = "real" => client'[u].done[r[1]]
    <3>1. ~loc'[a].preparing => \A r \in loc'[a].todo : r[2] = "real" => client'[u].done[r[1]]
      BY <1>1, <1>2, <1>9 DEF PartName
    <3> QED BY <1>1, <1>7, <1>13, <3>1 DEF Prepared, At
  <2>3. \A b \in Actors : ~At(b, u, {"recheck"})' => ~At(b, u, {"recheck"})
    BY <1>1, <1>7 DEF At
  <2>4. \A b \in Actors : At(b, u, {"metadata", "fix", "rename"})' => b = Loop
    BY <1>1, <1>7, <1>4, <1>13 DEF Prepared, At
  <2> QED BY <1>1, <1>6, <1>13, <2>1, <2>2, <2>3, <2>4 DEF Prepared
<1> QED BY <1>0, <1>1, <1>6, <1>8, <1>12, <1>13, DataStep

LEMMA DataRename ==
    ASSUME TypeOK, DataInv, [Next]_vars, NEW a \in Actors, RenameFile(a),
           NEW u \in Torrents, u = loc[a].t
    PROVE  DataOf(u)'
<1>0. /\ DataOf(u) /\ Blank(a) /\ adds[u] # 0 /\ adds'[u] = adds[u] /\ odd[u] \subseteq odd'[u]
  BY OwnStart DEF Continue
<1>1. /\ pc[a] = "rename" /\ pc' = pc /\ loc[a].t = u /\ loc'[a].t = u
      /\ loc'[a].id = loc[a].id /\ loc'[a].preparing = loc[a].preparing
      /\ \A b \in Actors \ {a} : loc'[b] = loc[b]
      /\ UNCHANGED <<sessions, client, disk, events, doomed, odd>>
  BY RenameFileEffect
<1> PICK r \in loc[a].todo :
      /\ r[1] \in Files /\ r[2] \in Names /\ Request(u, r) \in Rename
      /\ renames' = IF client[u].here THEN Append(renames, Request(u, r)) ELSE renames
      /\ loc'[a].todo = loc[a].todo \ {r}
      /\ loc'[a].n = IF client[u].here THEN loc[a].n + 1 ELSE loc[a].n
      /\ loc'[a].recheck <=> loc[a].recheck \/ (client[u].here /\ Place(u, r[1]) = r[2])
  BY RenameFileEffect
<1>2. CASE ~client[u].here
  BY <1>0, <1>1, <1>2, DataStep DEF Plain
<1>3. CASE client[u].here
  <2> DEFINE x == Request(u, r)
  <2>1. x.t = u /\ x.id = client[u].id /\ x.f = r[1] /\ x.to = r[2]
    BY DEF Request
  <2> HIDE DEF x
  <2>2. renames' = Append(renames, x) /\ x \in Rename
    BY <1>3 DEF x
  <2>3. /\ Queued(u)' = Queued(u) \cup {x} /\ Uncounted(u)' = Uncounted(u) + 1
        /\ (MetadataIn(u)' <=> MetadataIn(u)) /\ Uncounted(u) \in Nat
        /\ \A p \in Queued(u) : p.f \in Files
    <3>1. /\ Queued(u)' = Queued(u) \cup {x} /\ Uncounted(u)' = Uncounted(u) + 1
          /\ (MetadataIn(u)' <=> MetadataIn(u))
      BY <1>1, <2>1, <2>2, RenameAsked
    <3> QED BY <3>1, QueueTypes DEF Rename
  <2>4. /\ \A f \in Files : Name(u, f)' = Name(u, f) /\ Place(u, f)' = Place(u, f)
        /\ Known(u)' = Known(u) /\ InPreparation(u)' = InPreparation(u)
        /\ DataKnown(u)' = DataKnown(u)
        /\ \A f \in Files : Tidy(u, f)' = Tidy(u, f)
    BY <1>1 DEF Name, Place, Known, InPreparation, DataKnown, Tidy
  <2>5. Runs(a, u) /\ \A b \in Actors : Runs(b, u)' <=> Runs(b, u)
    BY <1>1 DEF Runs, At
  <2>6. ~Skipped(a)
    BY DEF Skipped
  <2>7. FilesKnown(u) => FilesKnown(u)'
    <3>1. FilesKnown(u) => \A p \in Queued(u)' : p.id = client'[u].id
      BY <1>1, <2>1, <2>3 DEF FilesKnown
    <3>2. \A b \in Actors : At(b, u, {"insert"})' => loc'[b] = loc[b] /\ At(b, u, {"insert"})
      BY <1>1 DEF At
    <3>3. \A b \in Actors : At(b, u, {"metadata", "fix", "rename"})'
                               => At(b, u, {"metadata", "fix", "rename"})
      BY <1>1 DEF At
    <3>4. FilesKnown(u) => \A f \in Files : client'[u].done[f] => disk'[u][f].full /\ (Place(u, f) = Name(u, f))'
      BY <1>1, <2>4 DEF FilesKnown
    <3>5. doomed' = doomed /\ client'[u] = client[u]
      BY <1>1
    <3>6. MetadataIn(u)' <=> MetadataIn(u)
      BY <2>3
    <3> QED BY <3>1, <3>2, <3>3, <3>4, <3>5, <3>6 DEF FilesKnown
  <2>8. ASSUME Preparing(u) PROVE Preparing(u)'
    <3>1. Known(u) /\ ~Waiting(u) /\ ~Counting(u)
      BY <1>1, <2>5, <2>8 DEF Preparing, Waiting, Counting
    <3>2. ~Counted(u) /\ ~NothingToName(u)
      BY <1>1, <2>5, <2>6 DEF Counted, NothingToName, At
    <3>3. PICK b \in Actors : Naming(b, u)
      BY <2>8, <3>1, <3>2 DEF Preparing
    <3>4. Naming(a, u)
      BY <1>1, <2>5, <3>3 DEF Naming
    <3>5. /\ Uncounted(u) <= loc[a].n
          /\ \A p \in loc[a].todo : r[2] = "part" /\ Place(u, r[1]) # "real"
      BY <1>1, <3>4 DEF Naming
    <3>6. Uncounted(u)' <= loc'[a].n /\ loc'[a].n # 0
      BY <1>3, <2>3, <3>5, Locals
    <3>7. r = <<r[1], "part">> /\ r[2] = "part" /\ Place(u, r[1]) # "real"
      BY <3>5, Locals DEF Todo
    <3>8. ASSUME NEW f \in Files
          PROVE  /\ Right(u, f)' \/ Coming(u, f)' \/ <<f, "part">> \in loc'[a].todo
                 /\ Place(u, f)' = "part" => loc'[a].recheck \/ <<f, "part">> \in loc'[a].todo
      <4>1. /\ Right(u, f) \/ Coming(u, f) \/ <<f, "part">> \in loc[a].todo
            /\ Place(u, f) = "part" => loc[a].recheck \/ <<f, "part">> \in loc[a].todo
        BY <1>1, <3>4 DEF Naming
      <4>2. (Right(u, f) => Right(u, f)') /\ (Coming(u, f) => Coming(u, f)')
        BY <2>3, <2>4 DEF Right, Coming
      <4>3. CASE r = <<f, "part">>
        <5>1. r[1] = f /\ Coming(u, f)'
          BY <2>1, <2>3, <4>3 DEF Coming
        <5> QED BY <1>3, <2>4, <3>7, <4>3, <5>1
      <4>4. CASE r # <<f, "part">>
        BY <2>4, <4>1, <4>2, <4>4
      <4> QED BY <4>3, <4>4
    <3>9. \A p \in loc'[a].todo : p[2] = "part" /\ Place(u, p[1])' # "real"
      BY <1>1, <2>4, <3>4, Locals DEF Naming, Todo
    <3>10. /\ At(a, u, {"metadata", "fix", "rename"})' /\ pc'[a] = "rename"
           /\ sessions'[u].pending = 0 /\ ~sessions'[u].recheck
           /\ loc'[a].preparing /\ loc'[a].id = sessions'[u].id
           /\ \A c \in Actors : c # a /\ Runs(c, u)' => c = Loop /\ pc'[c] = "metadata"
      BY <1>1, <2>5, <3>4 DEF Naming, At
    <3>11. Naming(a, u)'
      BY <3>6, <3>8, <3>9, <3>10 DEF Naming
    <3>12. \A p \in Queued(u)' : p.to = "part" /\ Place(u, p.f)' # "real"
      BY <2>1, <2>3, <2>4, <2>8, <3>7 DEF Preparing
    <3> QED BY <1>1, <2>4, <2>8, <3>1, <3>11, <3>12 DEF Preparing
  <2>9. ASSUME Prepared(u) PROVE Prepared(u)'
    <3>1. ~loc[a].preparing /\ At(a, u, {"rename"}) /\ At(a, u, {"fix", "rename"})
      BY <1>1, <2>6, <2>9 DEF Prepared, At
    <3>2. r[2] = "real" => client[u].done[r[1]]
      BY <2>9, <3>1 DEF Prepared
    <3>3. \A p \in Queued(u)' : p.to = "real" => client'[u].done[p.f]
      BY <1>1, <2>1, <2>3, <2>9, <3>2 DEF Prepared
    <3>4. \A b \in Actors : At(b, u, {"metadata", "fix", "rename"})' => b = Loop /\ b = a
      <4>1. At(a, u, {"metadata", "fix", "rename"})
        BY <1>1 DEF At
      <4> QED BY <1>1, <2>9, <4>1 DEF Prepared, At
    <3>6. \A b \in Actors : ~(At(b, u, {"fix", "rename"})' /\ loc'[b].preparing)
      BY <1>1, <3>1, <3>4 DEF At
    <3>5. \A b \in Actors : At(b, u, {"rename"})' /\ ~loc'[b].preparing =>
            \A p \in loc'[b].todo : p[2] = "real" => client'[u].done[p[1]]
      BY <1>1, <2>9, <3>1 DEF Prepared, At
    <3> QED BY <1>1, <2>4, <2>9, <3>3, <3>4, <3>5, <3>6 DEF Prepared, At
  <2> QED BY <1>0, <1>1, <2>4, <2>7, <2>8, <2>9, DataStep
<1> QED BY <1>2, <1>3

LEMMA DataPending ==
    ASSUME TypeOK, DataInv, [Next]_vars, NEW a \in Actors, SetPending(a),
           NEW u \in Torrents, u = loc[a].t
    PROVE  DataOf(u)'
<1>0. /\ DataOf(u) /\ adds[u] # 0 /\ adds'[u] = adds[u] /\ odd[u] \subseteq odd'[u]
      /\ \A b \in Actors \ {a} : pc'[b] = pc[b] /\ loc'[b] = loc[b]
  BY OwnStart, ContinueEffect DEF Continue
<1>1. /\ pc[a] = "rename" /\ loc[a].t = u /\ loc[a].todo = {}
      /\ UNCHANGED <<client, disk, renames, events, doomed, odd>>
  BY DEF SetPending
<1>2. /\ sessions'[u].id = sessions[u].id /\ sessions'[u].preparing = sessions[u].preparing
      /\ IF loc[a].preparing /\ sessions[u].id = loc[a].id
         THEN sessions'[u].pending = loc[a].n /\ sessions'[u].recheck = loc[a].recheck
         ELSE sessions'[u] = sessions[u]
  <2>1. sessions \in [Torrents -> Entry] /\ sessions[u] \in Entry
    BY DEF TypeOK
  <2>2. CASE loc[a].preparing /\ sessions[u].id = loc[a].id
    <3>1. sessions' = [sessions EXCEPT ![u] =
             [sessions[u] EXCEPT !.pending = loc[a].n, !.recheck = loc[a].recheck]]
      BY <2>2 DEF SetPending
    <3> QED BY <2>1, <2>2, <3>1 DEF Entry
  <2>3. CASE ~(loc[a].preparing /\ sessions[u].id = loc[a].id)
    BY <2>3 DEF SetPending
  <2> QED BY <2>2, <2>3
<1>3. IF loc[a].preparing /\ loc[a].n = 0 THEN pc'[a] = "finish" /\ loc'[a].t = u
                                          ELSE pc'[a] = "idle"
  BY DEF SetPending, Goto, Done, TypeOK, NoLocal
<1>4. Runs(a, u) /\ At(a, u, {"metadata", "fix", "rename"})
  BY <1>1 DEF Runs, At
<1>5. SameQueues(u)
  BY <1>1, SameQueuesKept
<1>6. /\ \A f \in Files : Name(u, f)' = Name(u, f) /\ Place(u, f)' = Place(u, f)
      /\ NamesReal(u)' = NamesReal(u) /\ AllReal(u)' = AllReal(u)
      /\ Known(u)' = Known(u) /\ InPreparation(u)' = InPreparation(u)
      /\ Queued(u)' = Queued(u) /\ Uncounted(u)' = Uncounted(u) /\ DataKnown(u)' = DataKnown(u)
      /\ \A f \in Files : /\ Tidy(u, f)' = Tidy(u, f) /\ Right(u, f)' = Right(u, f)
                          /\ Coming(u, f)' = Coming(u, f)
      /\ \A r \in Queued(u) : r.f \in Files
  BY <1>1, <1>2, <1>5, QueueTypes DEF Name, Place, NamesReal, AllReal, Known, InPreparation,
     SameQueues, DataKnown, Tidy, Right, Coming, Rename
<1>7. \A b \in Actors \ {a} : /\ Runs(b, u)' <=> Runs(b, u)
                              /\ pc'[b] = pc[b] /\ loc'[b] = loc[b]
  BY <1>0, <1>1 DEF Runs, At
<1>8. ~At(a, u, {"metadata", "fix", "rename", "insert", "recheck"})'
      /\ (Runs(a, u)' => pc'[a] = "finish")
  BY <1>3 DEF At, Runs
<1>9. FilesKnown(u) => FilesKnown(u)'
  <2>1. FilesKnown(u) => \A b \in Actors :
          /\ At(b, u, {"metadata", "fix", "rename"})' => client[u].meta
          /\ At(b, u, {"insert"})' /\ loc'[b].hasMeta => client[u].meta
    BY <1>7, <1>8 DEF FilesKnown, At
  <2> QED BY <1>1, <1>5, <2>1 DEF FilesKnown, SameQueues, Place, Name
<1>10. ASSUME Preparing(u) PROVE Preparing(u)'
  <2>1. Known(u)
    BY <1>4, <1>10 DEF Preparing
  <2>2. ~Waiting(u) /\ ~Counting(u)
    BY <1>1, <1>4 DEF Waiting, Counting
  <2>3. ~Counted(u)
    BY <1>1, <1>4 DEF Counted, At
  <2>4. ASSUME NEW b \in Actors, Naming(b, u) PROVE NothingToName(u)' \/ Counting(u)'
    <3>1. b = a
      BY <1>1, <1>4, <2>4 DEF Naming
    <3>2. /\ loc[a].preparing /\ loc[a].id = sessions[u].id
          /\ \A c \in Actors : c # a /\ Runs(c, u) => c = Loop /\ pc[c] = "metadata"
          /\ Uncounted(u) <= loc[a].n
          /\ loc[a].n = 0 => NamesReal(u) /\ ~loc[a].recheck
          /\ \A f \in Files : Right(u, f) \/ Coming(u, f)
          /\ \A f \in Files : Place(u, f) = "part" => loc[a].recheck
      BY <1>1, <2>4, <3>1 DEF Naming
    <3>3. sessions'[u].pending = loc[a].n /\ sessions'[u].recheck = loc[a].recheck
      BY <1>2, <3>2
    <3>4. CASE loc[a].n = 0
      <4>1. Queued(u) = {} /\ NamesReal(u)
        BY <3>2, <3>4, QueueTypes, NothingQueued
      <4>2. \A f \in Files : Place(u, f) = "real"
        BY <3>2, <4>1 DEF Right, Coming, NamesReal
      <4>3. AllReal(u)'
        BY <1>6, <4>1, <4>2 DEF AllReal
      <4>4. \A c \in Actors : Runs(c, u)' => IF c = a THEN pc'[c] = "finish"
                                               ELSE c = Loop /\ pc'[c] = "metadata"
        BY <1>7, <1>8, <3>2
      <4> QED BY <3>2, <3>3, <3>4, <4>3, <4>4 DEF NothingToName
    <3>5. CASE loc[a].n # 0
      <4>1. loc[a].n > 0
        BY <3>5, Locals
      <4>2. \A c \in Actors : Runs(c, u)' => c = Loop /\ pc'[c] = "metadata"
        BY <1>3, <1>7, <3>2, <3>5 DEF Runs, At
      <4> QED BY <1>6, <3>2, <3>3, <4>1, <4>2 DEF Counting
    <3> QED BY <3>4, <3>5
  <2>5. ASSUME NothingToName(u) PROVE NothingToName(u)'
    <3>1. loc[a].n = 0 /\ ~loc[a].recheck
      BY <1>1, <1>4, <2>5 DEF NothingToName, Skipped
    <3>2. sessions'[u].pending = 0 /\ ~sessions'[u].recheck
      BY <1>2, <2>5, <3>1 DEF NothingToName
    <3>3. AllReal(u)'
      BY <1>6, <2>5 DEF NothingToName
    <3>4. \A c \in Actors : Runs(c, u)' =>
            /\ pc'[c] # "finish" => c = Loop
            /\ pc'[c] = "fix" => loc'[c].preparing
            /\ pc'[c] = "rename" => Skipped(c)'
      BY <1>7, <1>8, <2>5 DEF NothingToName, Skipped
    <3> QED BY <3>2, <3>3, <3>4 DEF NothingToName
  <2>6. NothingToName(u)' \/ Counting(u)'
    BY <1>10, <2>1, <2>2, <2>3, <2>4, <2>5 DEF Preparing
  <2> QED BY <1>1, <1>6, <1>10, <2>1, <2>6 DEF Preparing
<1>11. ASSUME Prepared(u) PROVE Prepared(u)'
  <2>1. loc[a].preparing => Skipped(a)
    BY <1>1, <1>11 DEF Prepared, At
  <2>2. ~sessions'[u].recheck
    BY <1>2, <1>11, <2>1 DEF Prepared, Skipped
  <2>3. /\ \A b \in Actors : At(b, u, {"metadata", "fix", "rename"})' => b = Loop
        /\ \A b \in Actors : At(b, u, {"fix", "rename"})' /\ loc'[b].preparing =>
             b = Loop /\ AllReal(u)' /\ Skipped(b)'
        /\ \A b \in Actors : At(b, u, {"rename"})' /\ ~loc'[b].preparing =>
             \A r \in loc'[b].todo : r[2] = "real" => client'[u].done[r[1]]
    <3>1. \A b \in Actors : At(b, u, {"metadata", "fix", "rename"})' => b # a
      BY <1>8 DEF At
    <3>2. \A b \in Actors : At(b, u, {"fix", "rename"})' => At(b, u, {"metadata", "fix", "rename"})'
                                                            /\ At(b, u, {"fix", "rename"})
      BY <1>7, <1>8 DEF At
    <3>3. \A b \in Actors : At(b, u, {"rename"})' => At(b, u, {"rename"}) /\ b # a
      BY <1>7, <1>8 DEF At
    <3> QED BY <1>1, <1>6, <1>7, <1>11, <3>1, <3>2, <3>3 DEF Prepared, Skipped, At
  <2>4. (\A b \in Actors : ~At(b, u, {"recheck"})') => (\A b \in Actors : ~At(b, u, {"recheck"}))
    BY <1>1, <1>7 DEF At
  <2> QED BY <1>1, <1>6, <1>11, <2>2, <2>3, <2>4 DEF Prepared
<1> QED BY <1>0, <1>1, <1>6, <1>9, <1>10, <1>11, DataStep

LEMMA DataFinish ==
    ASSUME TypeOK, PreparingInv, DataInv, [Next]_vars, NEW a \in Actors, FinishPreparing(a),
           NEW u \in Torrents, u = loc[a].t
    PROVE  DataOf(u)'
<1>0. /\ DataOf(u) /\ adds[u] # 0 /\ adds'[u] = adds[u] /\ odd[u] \subseteq odd'[u]
      /\ \A b \in Actors : Blank(b)
      /\ \A b \in Actors \ {a} : pc'[b] = pc[b] /\ loc'[b] = loc[b]
  BY OwnStart, ContinueEffect DEF Continue, DataInv
<1>1. /\ pc[a] = "finish" /\ loc[a].t = u
      /\ UNCHANGED <<client, disk, renames, events, doomed, odd, loc>>
  BY DEF FinishPreparing
<1>2. /\ sessions'[u].id = sessions[u].id /\ ~sessions'[u].preparing /\ ~sessions'[u].recheck
      /\ sessions'[u].pending = sessions[u].pending
      /\ pc'[a] = IF sessions[u].recheck THEN "recheck" ELSE "start"
  <2>1. sessions \in [Torrents -> Entry] /\ sessions[u] \in Entry
    BY DEF TypeOK
  <2>2. sessions' = [sessions EXCEPT ![u] = [sessions[u] EXCEPT !.preparing = FALSE, !.recheck = FALSE]]
    BY DEF FinishPreparing
  <2>3. sessions'[u] = [sessions[u] EXCEPT !.preparing = FALSE, !.recheck = FALSE]
    BY <2>1, <2>2
  <2>4. pc'[a] = IF sessions[u].recheck THEN "recheck" ELSE "start"
    BY DEF FinishPreparing, Goto, TypeOK
  <2> QED BY <2>1, <2>3, <2>4 DEF Entry
<1>3. Runs(a, u)
  BY <1>1 DEF Runs, At
<1>4. SameQueues(u)
  BY <1>1, SameQueuesKept
<1>5. /\ \A f \in Files : Name(u, f)' = Name(u, f) /\ Place(u, f)' = Place(u, f)
                          /\ Tidy(u, f)' = Tidy(u, f) /\ Name(u, f) \in Names
      /\ AllReal(u)' = AllReal(u) /\ Known(u)' = Known(u)
      /\ Queued(u)' = Queued(u) /\ DataKnown(u)' = DataKnown(u)
  BY <1>1, <1>2, <1>4 DEF Name, Place, NamesReal, AllReal, Known, SameQueues, DataKnown, Tidy,
     TypeOK, Handle
<1>6. /\ \A b \in Actors : At(b, u, {"metadata", "fix", "rename"})' <=> At(b, u, {"metadata", "fix", "rename"})
      /\ \A b \in Actors : At(b, u, {"fix", "rename"})' <=> At(b, u, {"fix", "rename"})
      /\ \A b \in Actors : At(b, u, {"rename"})' <=> At(b, u, {"rename"})
      /\ \A b \in Actors : At(b, u, {"insert"})' <=> At(b, u, {"insert"})
      /\ \A b \in Actors : At(b, u, {"recheck"}) => At(b, u, {"recheck"})'
      /\ ~sessions[u].recheck =>
           \A b \in Actors : At(b, u, {"recheck"})' => At(b, u, {"recheck"})
      /\ sessions[u].recheck => At(a, u, {"recheck"})'
  BY <1>0, <1>1, <1>2 DEF At
<1>7. Plain(u) => ~InPreparation(u)'
  <2>1. Plain(u) => Known(u)
    BY <1>1, PlainHeld
  <2> QED BY <1>2, <1>5, <2>1 DEF InPreparation
<1>8. FilesKnown(u) => FilesKnown(u)'
  BY <1>1, <1>4, <1>6 DEF FilesKnown, SameQueues, Place, Name
<1>9. ASSUME Plain(u), Preparing(u) PROVE Prepared(u)'
  <2>1. Known(u) /\ ~Waiting(u) /\ ~Counting(u)
    BY <1>1, <1>3, <1>9, PlainHeld DEF Waiting, Counting
  <2>2. \A b \in Actors : ~Naming(b, u)
    BY <1>1, <1>3 DEF Naming, At
  <2>3. client[u].meta /\ ~client[u].checking =>
          \A f \in Files : disk[u][f].full /\ Place(u, f) = "real" => client[u].done[f]
    BY <1>9 DEF Preparing
  <2>4. CASE Counted(u)
    <3>1. a = Loop /\ Queued(u) = {} /\ \A f \in Files : Right(u, f)
      BY <1>3, <2>4 DEF Counted
    <3>2. \A f \in Files : Tidy(u, f) \/ Place(u, f) \notin {"real", "part", "none"}
      BY <3>1 DEF Right, Tidy
    <3>3. \A f \in Files : Place(u, f) \in {"real", "part", "none"}
      BY DEF TypeOK, Place, Names
    <3>4. \A b \in Actors : ~At(b, u, {"metadata", "fix", "rename"}) /\ ~At(b, u, {"fix", "rename"})
                            /\ ~At(b, u, {"rename"})
      BY <1>1, <2>4 DEF Counted, At, Runs
    <3>5. ~sessions[u].recheck /\ client[u].meta /\ ~client[u].checking => DataKnown(u)
      <4>1. ~sessions[u].recheck => \A f \in Files : Place(u, f) # "part"
        BY <2>4 DEF Counted
      <4>2. ~sessions[u].recheck => \A f \in Files : Place(u, f) = Name(u, f) => Place(u, f) = "real"
        BY <1>5, <4>1 DEF Names
      <4> QED BY <2>3, <4>2 DEF DataKnown
    <3> QED BY <1>1, <1>2, <1>5, <1>6, <3>1, <3>2, <3>3, <3>4, <3>5 DEF Prepared
  <2>5. CASE NothingToName(u)
    <3>1. AllReal(u) /\ Queued(u) = {} /\ ~sessions[u].recheck
      BY <2>5 DEF NothingToName, AllReal
    <3>2. \A f \in Files : Tidy(u, f)
      BY <3>1 DEF AllReal, NamesReal, Tidy
    <3>3. client[u].meta /\ ~client[u].checking => DataKnown(u)
      BY <2>3, <3>1 DEF DataKnown, AllReal
    <3>4. \A b \in Actors : At(b, u, {"metadata", "fix", "rename"}) => b = Loop /\ Skipped(b)
      BY <1>0, <2>5 DEF NothingToName, Runs, At, Skipped, Blank
    <3>5. \A b \in Actors : At(b, u, {"fix", "rename"}) => At(b, u, {"metadata", "fix", "rename"})
      BY DEF At
    <3>6. \A b \in Actors : At(b, u, {"rename"}) => At(b, u, {"metadata", "fix", "rename"})
      BY DEF At
    <3> QED BY <1>1, <1>2, <1>5, <1>6, <3>1, <3>2, <3>3, <3>4, <3>5, <3>6 DEF Prepared, Skipped
  <2> QED BY <1>9, <2>1, <2>2, <2>4, <2>5 DEF Preparing
<1>10. ASSUME Prepared(u) PROVE Prepared(u)'
  BY <1>1, <1>2, <1>5, <1>6, <1>10 DEF Prepared, Skipped
<1> QED BY <1>0, <1>1, <1>7, <1>8, <1>9, <1>10, DataStep DEF Plain

\* The calls that let a torrent go, which has left its preparation.
LEMMA DataLetGo ==
    ASSUME TypeOK, PreparingInv, DataInv, [Next]_vars, NEW a \in Actors,
           ForceRecheck(a) \/ LeaveUploadMode(a), NEW u \in Torrents, u = loc[a].t
    PROVE  DataOf(u)'
<1>0. /\ DataOf(u) /\ adds[u] # 0 /\ adds'[u] = adds[u] /\ odd[u] \subseteq odd'[u]
      /\ \A b \in Actors \ {a} : pc'[b] = pc[b] /\ loc'[b] = loc[b]
  BY OwnStart, ContinueEffect DEF Continue
<1>1. /\ pc[a] \in {"recheck", "start"} /\ loc[a].t = u
      /\ UNCHANGED <<sessions, disk, renames, events, doomed, odd>>
  BY DEF ForceRecheck, LeaveUploadMode
<1>2. /\ client'[u].here = client[u].here /\ client'[u].id = client[u].id
      /\ client'[u].meta = client[u].meta /\ client'[u].name = client[u].name
      /\ client'[u].done = client[u].done
      /\ client'[u].checking \/ client'[u].checking = client[u].checking
      /\ pc[a] = "recheck" => (client[u].here /\ client[u].meta => client'[u].checking)
      /\ pc[a] = "start" => client'[u].checking = client[u].checking
  <2> DEFINE h == [client[u] EXCEPT !.checking = TRUE]
             g == [client[u] EXCEPT !.upload = FALSE]
  <2>1. client \in [Torrents -> Handle] /\ client[u] \in Handle
    BY DEF TypeOK
  <2>2. /\ h.here = client[u].here /\ h.id = client[u].id /\ h.meta = client[u].meta
        /\ h.name = client[u].name /\ h.done = client[u].done /\ h.checking
        /\ g.here = client[u].here /\ g.id = client[u].id /\ g.meta = client[u].meta
        /\ g.name = client[u].name /\ g.done = client[u].done /\ g.checking = client[u].checking
    BY <2>1 DEF Handle
  <2>3. CASE ForceRecheck(a)
    <3>1. pc[a] = "recheck" /\ client' = IF client[u].here /\ client[u].meta
                                          THEN [client EXCEPT ![u] = h] ELSE client
      BY <2>3 DEF ForceRecheck
    <3> HIDE DEF h
    <3>2. client'[u] = IF client[u].here /\ client[u].meta THEN h ELSE client[u]
      BY <2>1, <3>1
    <3> QED BY <2>2, <3>1, <3>2
  <2>4. CASE LeaveUploadMode(a)
    <3>1. pc[a] = "start" /\ client' = IF client[u].here THEN [client EXCEPT ![u] = g] ELSE client
      BY <2>4 DEF LeaveUploadMode
    <3> HIDE DEF g
    <3>2. client'[u] = IF client[u].here THEN g ELSE client[u]
      BY <2>1, <3>1
    <3> QED BY <2>2, <3>1, <3>2
  <2> QED BY <2>3, <2>4
<1>3. /\ pc'[a] \in {"start", "idle"} /\ (pc'[a] = "idle" \/ loc'[a].t = u)
  BY DEF ForceRecheck, LeaveUploadMode, Goto, Done, TypeOK
<1>4. SameQueues(u)
  BY <1>1, SameQueuesKept
<1>5. /\ \A f \in Files : Name(u, f)' = Name(u, f) /\ Place(u, f)' = Place(u, f)
                          /\ Tidy(u, f)' = Tidy(u, f)
      /\ AllReal(u)' = AllReal(u) /\ Known(u)' = Known(u) /\ InPreparation(u)' = InPreparation(u)
      /\ Queued(u)' = Queued(u) /\ DataKnown(u)' = DataKnown(u)
  BY <1>1, <1>2, <1>4 DEF Name, Place, NamesReal, AllReal, Known, SameQueues, DataKnown, Tidy,
     InPreparation
<1>6. /\ \A b \in Actors : At(b, u, {"metadata", "fix", "rename"})' => At(b, u, {"metadata", "fix", "rename"}) /\ b # a
      /\ \A b \in Actors : At(b, u, {"fix", "rename"})' => At(b, u, {"fix", "rename"}) /\ b # a
      /\ \A b \in Actors : At(b, u, {"rename"})' => At(b, u, {"rename"}) /\ b # a
      /\ \A b \in Actors : At(b, u, {"insert"})' => At(b, u, {"insert"}) /\ b # a
      /\ \A b \in Actors : At(b, u, {"recheck"}) => At(b, u, {"recheck"})' \/ pc[a] = "recheck"
  BY <1>0, <1>1, <1>3 DEF At
<1>7. FilesKnown(u) => FilesKnown(u)'
  <2> SUFFICES ASSUME FilesKnown(u) PROVE FilesKnown(u)'
    OBVIOUS
  <2>1. \A f \in Files : client'[u].done[f] => disk'[u][f].full /\ Place(u, f)' = Name(u, f)'
    BY <1>1, <1>2, <1>5 DEF FilesKnown
  <2>2. \A b \in Actors : /\ At(b, u, {"metadata", "fix", "rename"})' => client'[u].meta
                          /\ At(b, u, {"insert"})' /\ loc'[b].hasMeta => client'[u].meta
    BY <1>0, <1>2, <1>6 DEF FilesKnown
  <2> QED BY <1>1, <1>2, <1>4, <1>5, <2>1, <2>2 DEF FilesKnown, SameQueues
<1>8. Plain(u) => ~InPreparation(u)
  BY <1>1, PlainHeld DEF InPreparation
<1>9. ASSUME Plain(u), Prepared(u) PROVE Prepared(u)'
  <2>1. client'[u].meta /\ ~client'[u].checking /\ (\A b \in Actors : ~At(b, u, {"recheck"})')
          => DataKnown(u)'
    BY <1>2, <1>5, <1>6, <1>9 DEF Prepared, Plain
  <2>2. \A b \in Actors : /\ At(b, u, {"metadata", "fix", "rename"})' => b = Loop
                          /\ At(b, u, {"fix", "rename"})' /\ loc'[b].preparing =>
                               b = Loop /\ AllReal(u)' /\ Skipped(b)'
    BY <1>0, <1>5, <1>6, <1>9 DEF Prepared, Skipped
  <2>3. \A b \in Actors : At(b, u, {"rename"})' /\ ~loc'[b].preparing =>
          \A r \in loc'[b].todo : r[2] = "real" => client'[u].done[r[1]]
    BY <1>0, <1>2, <1>6, <1>9 DEF Prepared
  <2>4. /\ ~sessions'[u].recheck /\ \A f \in Files : Tidy(u, f)'
        /\ \A r \in Queued(u)' : r.to = "real" => client'[u].done[r.f]
    BY <1>1, <1>2, <1>5, <1>9 DEF Prepared
  <2> QED BY <2>1, <2>2, <2>3, <2>4 DEF Prepared
<1> QED BY <1>0, <1>1, <1>2, <1>5, <1>7, <1>8, <1>9, DataStep

LEMMA DataDropped ==
    ASSUME TypeOK, PreparingInv, DataInv, [Next]_vars, NEW a \in Actors, RemoveEntry(a),
           NEW u \in Torrents, u = loc[a].t
    PROVE  DataOf(u)'
<1>0. /\ DataOf(u) /\ adds[u] # 0 /\ adds'[u] = adds[u] /\ odd[u] \subseteq odd'[u]
  BY OwnStart DEF Continue
<1>1. pc[a] = "drop" /\ client' = client
  BY DEF RemoveEntry
<1>2. ~Plain(u)
  BY <1>1, PlainHeld
<1> QED BY <1>0, <1>1, <1>2, DataStep

LEMMA DataContinue ==
    ASSUME TypeOK, PreparingInv, DataInv, [Next]_vars, NEW a \in Actors, Continue(a)
    PROVE  \A t \in Torrents : DataOf(t)'
<1> PICK u \in Torrents : u = loc[a].t
  BY Locals
<1>1. \A t \in Torrents \ {u} : DataOf(t)'
  BY DataOthers
<1>2. DataOf(u)'
  BY DataStatus, DataInsert, DataOnMetadata, DataFix, DataRename, DataPending, DataFinish,
     DataLetGo, DataDropped DEF Continue
<1> QED BY <1>1, <1>2

\* The loop puts the names of a torrent right that has left its preparation.
LEMMA DataRight ==
    ASSUME TypeOK, NEW u \in Torrents, PutNamesRight(u), Prepared(u), FilesKnown(u),
           pc[Loop] = "idle", UNCHANGED <<sessions, client, disk, pc, loc, doomed>>,
           MetadataIn(u)' => MetadataIn(u)
    PROVE  FilesKnown(u)' /\ Prepared(u)'
<1>1. \A r \in Queued(u)' : \/ r \in Queued(u)
                            \/ /\ r.id = client[u].id
                               /\ r.to = "real" => client[u].done[r.f]
  <2> SUFFICES ASSUME NEW r \in Queued(u)', r \notin Queued(u)
               PROVE  r.id = client[u].id /\ (r.to = "real" => client[u].done[r.f])
    OBVIOUS
  <2>1. PICK q \in Renames(u, FALSE) : r = Request(u, q)
    BY RenamesAsked
  <2>2. q[2] = PartName(u, q[1], FALSE)
    BY DEF Renames
  <2> QED BY <2>1, <2>2 DEF PartName, Request
<1>2. /\ \A f \in Files : Name(u, f)' = Name(u, f) /\ Place(u, f)' = Place(u, f)
                          /\ Tidy(u, f)' = Tidy(u, f)
      /\ DataKnown(u)' = DataKnown(u)
  BY DEF Name, Place, DataKnown, Tidy
<1>3. FilesKnown(u)'
  BY <1>1, <1>2 DEF FilesKnown, At
<1>4. \A a \in Actors : ~(At(a, u, {"fix", "rename"})' /\ loc'[a].preparing)
  BY DEF Prepared, At
<1>5. Prepared(u)'
  BY <1>1, <1>2, <1>4 DEF Prepared, At
<1> QED BY <1>3, <1>5

LEMMA DataHeal ==
    ASSUME TypeOK, DataInv, [Next]_vars, NEW u \in Torrents, HealPartNames(u)
    PROVE  \A t \in Torrents : DataOf(t)'
<1>1. /\ pc[Loop] = "idle" /\ PutNamesRight(u) /\ ~InPreparation(u) /\ Known(u)
      /\ UNCHANGED <<sessions, client, disk, events, pc, loc, doomed, adds, odd>>
  BY DEF HealPartNames, InPreparation
<1>2. \A t \in Torrents : /\ MentionedIn(t)' = MentionedIn(t) /\ MetadataIn(t)' = MetadataIn(t)
  BY <1>1 DEF MentionedIn, MetadataIn
<1>3. ASSUME NEW t \in Torrents, t # u PROVE DataOf(t)'
  <2>1. /\ Queued(t)' = Queued(t)
        /\ Cardinality(Hits(renames', RenamesOf(t))) = Cardinality(Hits(renames, RenamesOf(t)))
    BY <1>1, <1>3, RenamesAsked
  <2>2. Uncounted(t)' = Cardinality(Hits(renames', RenamesOf(t))) + Cardinality(Hits(events, RenamedOf(t)))
    BY <1>1 DEF Uncounted, RenamesOf, RenamedOf
  <2>3. SameQueues(t)
    BY <1>2, <2>1, <2>2 DEF SameQueues, Uncounted
  <2> QED BY <1>1, <2>3, StillActors, DataFrame DEF DataInv, SameData
<1>4. DataOf(u) /\ adds[u] # 0 /\ InPreparation(u)' = InPreparation(u) /\ Plain(u)' = Plain(u)
  BY <1>1, HereOrTouched DEF DataInv, InPreparation, Known, Plain
<1>5. FilesKnown(u) /\ Prepared(u) => FilesKnown(u)' /\ Prepared(u)'
  BY <1>1, <1>2, DataRight
<1> QED BY <1>1, <1>3, <1>4, <1>5 DEF DataOf

\* The loop takes an event.  Torrents it does not name are left alone.
LEMMA EventOthers ==
    ASSUME TypeOK, DataInv, [Next]_vars, HandleEvents, NEW u \in Torrents, u = Head(events).t,
           NEW t \in Torrents, t # u
    PROVE  DataOf(t)'
<1>1. /\ events # <<>> /\ events' = Tail(events) /\ pc[Loop] = "idle" /\ Loop \in Actors
      /\ UNCHANGED <<client, disk, doomed, adds>>
  BY DEF HandleEvents, HandleMetadata, HandleProgress, HandleRenamed, NextOfKind, Actors
<1>2. sessions'[t] = sessions[t]
  BY DEF HandleEvents, HandleMetadata, HandleProgress, HandleRenamed, TypeOK
<1>3. SameActors(t)
  <2>1. (pc' = pc /\ loc' = loc) \/ \E label : LoopTakes(label, u)
    BY DEF HandleEvents, HandleMetadata, HandleProgress, HandleRenamed
  <2>2. ASSUME NEW label, LoopTakes(label, u) PROVE SameActors(t)
    <3>1. loc'[Loop].t = u /\ \A b \in Actors \ {Loop} : loc'[b] = loc[b] /\ pc'[b] = pc[b]
      BY <1>1, <2>2 DEF LoopTakes, Goto, TypeOK, NoLocal
    <3> QED BY <1>1, <3>1 DEF SameActors
  <2> QED BY <2>1, <2>2, StillActors
<1>4. SameQueues(t)
  <2>1. Head(events) # [kind |-> "renamed", t |-> t]
    OBVIOUS
  <2>2. /\ Cardinality(Hits(events', RenamedOf(t))) \in Nat
        /\ Cardinality(Hits(events, RenamedOf(t))) = Cardinality(Hits(events', RenamedOf(t)))
        /\ MentionedIn(t)' => MentionedIn(t)
        /\ MetadataIn(t)' => MetadataIn(t)
    BY <1>1, <2>1, EventTaken
  <2>3. renames' = renames \/ PutNamesRight(u)
    BY DEF HandleEvents, HandleMetadata, HandleProgress, HandleRenamed
  <2>4. CASE renames' = renames
    BY <1>1, <2>1, <2>2, <2>4, EventTaken, QueueTypes DEF SameQueues
  <2>5. CASE PutNamesRight(u)
    <3>1. /\ Queued(t)' = Queued(t)
          /\ Cardinality(Hits(renames', RenamesOf(t))) = Cardinality(Hits(renames, RenamesOf(t)))
      BY <2>5, RenamesAsked
    <3>2. Uncounted(t)' = Cardinality(Hits(renames', RenamesOf(t))) + Cardinality(Hits(events', RenamedOf(t)))
      BY DEF Uncounted, RenamesOf, RenamedOf
    <3> QED BY <2>2, <3>1, <3>2 DEF SameQueues, Uncounted
  <2> QED BY <2>3, <2>4, <2>5
<1> QED BY <1>1, <1>2, <1>3, <1>4, OddGrows, DataFrame DEF DataInv, SameData

LEMMA EventStart ==
    ASSUME TypeOK, DataInv, [Next]_vars, HandleEvents, NEW u \in Torrents, u = Head(events).t
    PROVE  /\ DataOf(u) /\ adds[u] # 0 /\ adds'[u] = adds[u] /\ odd[u] \subseteq odd'[u]
           /\ pc[Loop] = "idle" /\ Loop \in Actors /\ ~Runs(Loop, u)
           /\ events # <<>> /\ events' = Tail(events) /\ Head(events) = [kind |-> Head(events).kind, t |-> u]
           /\ (MetadataIn(u)' => MetadataIn(u))
           /\ UNCHANGED <<client, disk, doomed, adds>>
<1>1. /\ events # <<>> /\ events' = Tail(events) /\ pc[Loop] = "idle" /\ Loop \in Actors
      /\ UNCHANGED <<client, disk, doomed, adds>>
  BY DEF HandleEvents, HandleMetadata, HandleProgress, HandleRenamed, NextOfKind, Actors
<1>2. Head(events) \in Event /\ MentionedIn(u)
  BY <1>1, HeadMentioned
<1>3. Head(events) = [kind |-> Head(events).kind, t |-> u]
  BY <1>2 DEF Event
<1>4. MetadataIn(u)' => MetadataIn(u)
  BY <1>1, EventTaken
<1> QED BY <1>1, <1>2, <1>3, <1>4, HereOrTouched, OddGrows DEF DataInv, Runs, At

LEMMA DataHandleMetadata ==
    ASSUME TypeOK, DataInv, [Next]_vars, HandleMetadata, NEW u \in Torrents, u = Head(events).t
    PROVE  DataOf(u)'
<1>0. /\ DataOf(u) /\ adds[u] # 0 /\ adds'[u] = adds[u] /\ odd[u] \subseteq odd'[u]
      /\ pc[Loop] = "idle" /\ Loop \in Actors /\ ~Runs(Loop, u)
      /\ events # <<>> /\ events' = Tail(events)
      /\ (MetadataIn(u)' => MetadataIn(u))
      /\ UNCHANGED <<client, disk, doomed, adds>>
  BY EventStart DEF HandleEvents
<1>1. /\ UNCHANGED <<sessions, renames>> /\ Head(events).kind = "metadata"
      /\ odd' = [odd EXCEPT ![u] = @ \cup Unlisted(u)]
      /\ LoopTakes("metadata", u)
  BY DEF HandleMetadata, NextOfKind, Note
<1>2. /\ pc'[Loop] = "metadata" /\ loc'[Loop].t = u
      /\ \A b \in Actors \ {Loop} : pc'[b] = pc[b] /\ loc'[b] = loc[b]
  BY <1>0, <1>1 DEF LoopTakes, Goto, TypeOK, NoLocal
<1>3. Queued(u)' = Queued(u) /\ Uncounted(u)' = Uncounted(u) /\ MetadataIn(u)
  BY <1>0, <1>1, EventTaken, HeadMentioned, QueueTypes
<1>4. /\ \A f \in Files : Name(u, f)' = Name(u, f) /\ Place(u, f)' = Place(u, f)
                          /\ Tidy(u, f)' = Tidy(u, f) /\ Right(u, f)' = Right(u, f)
                          /\ Coming(u, f)' = Coming(u, f)
      /\ NamesReal(u)' = NamesReal(u) /\ Unasked(u)' = Unasked(u) /\ AllReal(u)' = AllReal(u)
      /\ Known(u)' = Known(u) /\ InPreparation(u)' = InPreparation(u) /\ DataKnown(u)' = DataKnown(u)
      /\ \A r \in Queued(u) : r.f \in Files
  BY <1>0, <1>1, <1>3, QueueTypes DEF Name, Place, NamesReal, Unasked, AllReal, Known, InPreparation,
     DataKnown, Tidy, Right, Coming, Rename
<1>5. Plain(u)' => Plain(u) /\ Known(u)
  <2>1. client[u].here /\ ~Known(u) => "unlisted" \in odd'[u]
    BY <1>1 DEF Unlisted, TypeOK
  <2> QED BY <1>0, <2>1 DEF Plain
<1>6. /\ \A b \in Actors \ {Loop} : Runs(b, u)' <=> Runs(b, u)
      /\ Runs(Loop, u)' /\ ~At(Loop, u, {"fix", "rename"})'
      /\ \A b \in Actors : At(b, u, {"fix", "rename"})' => At(b, u, {"fix", "rename"}) /\ b # Loop
      /\ \A b \in Actors : At(b, u, {"rename"})' => At(b, u, {"rename"}) /\ b # Loop
      /\ \A b \in Actors : At(b, u, {"insert"})' => At(b, u, {"insert"}) /\ b # Loop
      /\ \A b \in Actors : At(b, u, {"recheck"}) => At(b, u, {"recheck"})'
      /\ \A b \in Actors : At(b, u, {"metadata", "fix", "rename"})' =>
            b = Loop \/ At(b, u, {"metadata", "fix", "rename"})
  BY <1>0, <1>2 DEF Runs, At
<1>7. ASSUME FilesKnown(u) PROVE FilesKnown(u)'
  <2>1. client[u].meta
    BY <1>3, <1>7 DEF FilesKnown
  <2> QED BY <1>0, <1>2, <1>3, <1>4, <1>6, <1>7, <2>1 DEF FilesKnown
<1>8. ASSUME Known(u), Preparing(u) PROVE Preparing(u)'
  <2>1. ASSUME Waiting(u) PROVE Naming(Loop, u)'
    <3>1. /\ Unasked(u)' /\ sessions'[u].pending = 0 /\ ~sessions'[u].recheck
          /\ \A b \in Actors : Runs(b, u)' => b = Loop
      BY <1>1, <1>4, <1>6, <2>1 DEF Waiting
    <3> QED BY <1>2, <3>1 DEF Naming, At
  <2>2. ASSUME NEW a \in Actors, Naming(a, u) PROVE Naming(a, u)'
    <3>1. a # Loop /\ pc'[a] = pc[a] /\ loc'[a] = loc[a]
      BY <1>0, <1>2, <2>2 DEF Naming, At
    <3>2. \A b \in Actors : b # a /\ Runs(b, u)' => b = Loop /\ pc'[b] = "metadata"
      BY <1>0, <1>2, <1>6, <2>2 DEF Naming
    <3>3. At(a, u, {"metadata", "fix", "rename"})'
      BY <2>2, <3>1 DEF Naming, At
    <3>4. \A r \in loc[a].todo : r[1] \in Files
      BY Locals DEF Todo
    <3>5. pc[a] = "rename" =>
            /\ \A r \in loc[a].todo : r[2] = "part" /\ Place(u, r[1])' # "real"
            /\ \A f \in Files : Right(u, f)' \/ Coming(u, f)' \/ <<f, "part">> \in loc[a].todo
            /\ \A f \in Files : Place(u, f)' = "part" => loc[a].recheck \/ <<f, "part">> \in loc[a].todo
      BY <1>4, <2>2, <3>4 DEF Naming
    <3> QED BY <1>1, <1>3, <1>4, <2>2, <3>1, <3>2, <3>3, <3>5 DEF Naming
  <2>3. Counting(u) => Counting(u)'
    BY <1>1, <1>2, <1>3, <1>4, <1>6 DEF Counting
  <2>4. ~Counted(u)
    BY <1>0 DEF Counted, At
  <2>5. NothingToName(u) => NothingToName(u)'
    BY <1>1, <1>2, <1>3, <1>4, <1>6 DEF NothingToName, Skipped
  <2>6. (\E a \in Actors : Naming(a, u)') \/ Counting(u)' \/ NothingToName(u)'
    BY <1>0, <1>8, <2>1, <2>2, <2>3, <2>4, <2>5 DEF Preparing
  <2> QED BY <1>0, <1>3, <1>4, <1>8, <2>6 DEF Preparing
<1>9. ASSUME Prepared(u) PROVE Prepared(u)'
  <2>1. \A b \in Actors : /\ At(b, u, {"metadata", "fix", "rename"})' => b = Loop
                          /\ At(b, u, {"fix", "rename"})' /\ loc'[b].preparing =>
                               b = Loop /\ AllReal(u)' /\ Skipped(b)'
    BY <1>2, <1>4, <1>6, <1>9 DEF Prepared
  <2>2. \A b \in Actors : At(b, u, {"rename"})' /\ ~loc'[b].preparing =>
          \A r \in loc'[b].todo : r[2] = "real" => client'[u].done[r[1]]
    BY <1>0, <1>2, <1>6, <1>9 DEF Prepared
  <2> QED BY <1>0, <1>1, <1>3, <1>4, <1>6, <1>9, <2>1, <2>2 DEF Prepared
<1> QED BY <1>0, <1>4, <1>5, <1>7, <1>8, <1>9, DataStep

LEMMA DataHandleProgress ==
    ASSUME TypeOK, DataInv, [Next]_vars, HandleProgress, NEW u \in Torrents, u = Head(events).t
    PROVE  DataOf(u)'
<1>0. /\ DataOf(u) /\ adds[u] # 0 /\ adds'[u] = adds[u] /\ odd[u] \subseteq odd'[u]
      /\ pc[Loop] = "idle" /\ Loop \in Actors
      /\ events # <<>> /\ events' = Tail(events)
      /\ (MetadataIn(u)' => MetadataIn(u))
      /\ UNCHANGED <<client, disk, doomed, adds>>
  BY EventStart DEF HandleEvents
<1>1. /\ UNCHANGED <<sessions, pc, loc>> /\ Head(events).kind = "progress"
      /\ odd' = [odd EXCEPT ![u] = @ \cup Unlisted(u)]
      /\ IF IsPreparing(u) THEN renames' = renames ELSE PutNamesRight(u)
  BY DEF HandleProgress, NextOfKind, Note
<1>2. Plain(u)' => Plain(u) /\ Known(u)
  <2>1. client[u].here /\ ~Known(u) => "unlisted" \in odd'[u]
    BY <1>1 DEF Unlisted, TypeOK
  <2> QED BY <1>0, <2>1 DEF Plain
<1>3. InPreparation(u)' = InPreparation(u)
  BY <1>1 DEF InPreparation, Known
<1>4. CASE IsPreparing(u)
  <2>1. Queued(u)' = Queued(u) /\ Uncounted(u)' = Uncounted(u)
    BY <1>0, <1>1, <1>4, EventTaken, QueueTypes
  <2>2. SameRunners(u)
    BY <1>1, StillActors, RunnersFrame
  <2>3. SamePhase(u)
    BY <1>0, <1>1, <2>1, <2>2 DEF SamePhase, Name, Place
  <2>4. FilesKnown(u) => \A b \in Actors : At(b, u, {"insert"})' /\ loc'[b].hasMeta => client[u].meta
    BY <1>1 DEF FilesKnown, At
  <2>5. /\ FilesKnown(u) => FilesKnown(u)'
        /\ Preparing(u) => Preparing(u)'
    BY <1>0, <2>3, <2>4, QuietFrame
  <2>6. InPreparation(u)
    BY <1>4 DEF IsPreparing, InPreparation
  <2> QED BY <1>0, <1>2, <1>3, <2>5, <2>6, DataStep
<1>5. CASE ~IsPreparing(u)
  <2>1. Plain(u)' => ~InPreparation(u)
    BY <1>2, <1>5 DEF IsPreparing, InPreparation
  <2>2. FilesKnown(u) /\ Prepared(u) => FilesKnown(u)' /\ Prepared(u)'
    BY <1>0, <1>1, <1>5, DataRight
  <2> QED BY <1>0, <1>2, <1>3, <2>1, <2>2 DEF DataOf
<1> QED BY <1>4, <1>5

LEMMA DataHandleRenamed ==
    ASSUME TypeOK, DataInv, [Next]_vars, HandleRenamed, NEW u \in Torrents, u = Head(events).t
    PROVE  DataOf(u)'
<1> DEFINE counts == IsPreparing(u) /\ sessions[u].pending > 0
<1>0. /\ DataOf(u) /\ adds[u] # 0 /\ adds'[u] = adds[u] /\ odd[u] \subseteq odd'[u]
      /\ pc[Loop] = "idle" /\ Loop \in Actors /\ ~Runs(Loop, u)
      /\ events # <<>> /\ events' = Tail(events) /\ Head(events) = [kind |-> Head(events).kind, t |-> u]
      /\ (MetadataIn(u)' => MetadataIn(u))
      /\ UNCHANGED <<client, disk, doomed, adds>>
  BY EventStart DEF HandleEvents
<1>1. /\ renames' = renames /\ Head(events).kind = "renamed"
      /\ sessions' = IF counts THEN [sessions EXCEPT ![u].pending = @ - 1] ELSE sessions
      /\ IF counts /\ sessions[u].pending = 1 THEN LoopTakes("finish", u) ELSE UNCHANGED <<pc, loc>>
  BY DEF HandleRenamed, NextOfKind
<1>2. Queued(u)' = Queued(u) /\ Uncounted(u) = Uncounted(u)' + 1 /\ Uncounted(u)' \in Nat
  BY <1>0, <1>1, EventTaken
<1>3. /\ sessions'[u].id = sessions[u].id /\ sessions'[u].preparing = sessions[u].preparing
      /\ sessions'[u].recheck = sessions[u].recheck
      /\ sessions'[u].pending = IF counts THEN sessions[u].pending - 1 ELSE sessions[u].pending
  <2>1. sessions \in [Torrents -> Entry] /\ sessions[u] \in Entry
    BY DEF TypeOK
  <2>2. CASE counts
    <3>1. sessions' = [sessions EXCEPT ![u] = [sessions[u] EXCEPT !.pending = sessions[u].pending - 1]]
      BY <1>1, <2>2
    <3> QED BY <2>1, <2>2, <3>1 DEF Entry
  <2>3. CASE ~counts
    BY <1>1, <2>3
  <2> QED BY <2>2, <2>3
<1>4. /\ \A b \in Actors \ {Loop} : pc'[b] = pc[b] /\ loc'[b] = loc[b]
      /\ counts /\ sessions[u].pending = 1 => pc'[Loop] = "finish" /\ loc'[Loop].t = u
      /\ ~(counts /\ sessions[u].pending = 1) => pc' = pc /\ loc' = loc
  BY <1>0, <1>1 DEF LoopTakes, Goto, TypeOK, NoLocal
<1>5. /\ \A f \in Files : Name(u, f)' = Name(u, f) /\ Place(u, f)' = Place(u, f)
                          /\ Tidy(u, f)' = Tidy(u, f) /\ Right(u, f)' = Right(u, f)
                          /\ Coming(u, f)' = Coming(u, f)
      /\ NamesReal(u)' = NamesReal(u) /\ AllReal(u)' = AllReal(u)
      /\ Known(u)' = Known(u) /\ InPreparation(u)' = InPreparation(u) /\ DataKnown(u)' = DataKnown(u)
      /\ \A r \in Queued(u) : r.f \in Files
  BY <1>0, <1>2, <1>3, QueueTypes DEF Name, Place, NamesReal, AllReal, Known, InPreparation,
     DataKnown, Tidy, Right, Coming, Rename
<1>6. /\ \A b \in Actors \ {Loop} : Runs(b, u)' <=> Runs(b, u)
      /\ \A b \in Actors : At(b, u, {"metadata", "fix", "rename"})' <=> At(b, u, {"metadata", "fix", "rename"})
      /\ \A b \in Actors : At(b, u, {"fix", "rename"})' <=> At(b, u, {"fix", "rename"})
      /\ \A b \in Actors : At(b, u, {"rename"})' <=> At(b, u, {"rename"})
      /\ \A b \in Actors : At(b, u, {"insert"})' <=> At(b, u, {"insert"})
      /\ \A b \in Actors : At(b, u, {"recheck"})' <=> At(b, u, {"recheck"})
      /\ \A b \in Actors : At(b, u, {"metadata", "fix", "rename", "insert"})' => loc'[b] = loc[b]
  BY <1>0, <1>4 DEF Runs, At
<1>7. FilesKnown(u) => FilesKnown(u)'
  <2>1. \A b \in Actors : At(b, u, {"insert"})' => loc'[b] = loc[b]
    BY <1>6 DEF At
  <2> QED BY <1>0, <1>2, <1>5, <1>6, <2>1 DEF FilesKnown
<1>8. ASSUME InPreparation(u), Preparing(u) PROVE Preparing(u)'
  <2>1. Known(u) /\ IsPreparing(u)
    BY <1>2, <1>8 DEF Preparing, Unasked, InPreparation, IsPreparing
  <2>2. ~Waiting(u) /\ ~Counted(u)
    BY <1>0, <1>2 DEF Waiting, Unasked, Counted, At
  <2>3. ASSUME NEW a \in Actors, Naming(a, u) PROVE Naming(a, u)'
    <3>1. sessions[u].pending = 0 /\ pc' = pc /\ loc' = loc /\ sessions' = sessions
      BY <1>1, <2>3 DEF Naming
    <3>2. pc[a] = "rename" /\ Uncounted(u)' <= loc[a].n
      BY <1>2, <2>3, Locals DEF Naming, At, Unasked
    <3>3. \A r \in loc[a].todo : r[1] \in Files
      BY Locals DEF Todo
    <3>4. /\ \A r \in loc[a].todo : r[2] = "part" /\ Place(u, r[1])' # "real"
          /\ \A f \in Files : Right(u, f)' \/ Coming(u, f)' \/ <<f, "part">> \in loc[a].todo
          /\ \A f \in Files : Place(u, f)' = "part" => loc[a].recheck \/ <<f, "part">> \in loc[a].todo
          /\ loc[a].n = 0 => NamesReal(u)' /\ ~loc[a].recheck
      BY <1>5, <2>3, <3>2, <3>3 DEF Naming
    <3>5. /\ At(a, u, {"metadata", "fix", "rename"})'
          /\ \A b \in Actors : b # a /\ Runs(b, u)' => b = Loop /\ pc'[b] = "metadata"
          /\ loc[a].preparing /\ loc[a].id = sessions[u].id /\ ~sessions[u].recheck
      BY <2>3, <3>1, <3>2 DEF Naming, At, Runs
    <3> QED BY <3>1, <3>2, <3>4, <3>5 DEF Naming
  <2>4. ASSUME Counting(u) PROVE Counting(u)' \/ Counted(u)'
    <3>1. /\ counts /\ sessions'[u].pending = sessions[u].pending - 1
          /\ sessions[u].pending \in Nat \ {0}
          /\ Uncounted(u)' <= sessions'[u].pending
      BY <1>2, <1>3, <2>1, <2>4 DEF Counting, TypeOK, Entry
    <3>2. \A b \in Actors : ~Runs(b, u)
      BY <1>0, <2>4 DEF Counting
    <3>3. /\ \A f \in Files : Right(u, f)' \/ Coming(u, f)'
          /\ \A f \in Files : Place(u, f)' = "part" => sessions'[u].recheck
      BY <1>3, <1>5, <2>4 DEF Counting
    <3>4. CASE sessions[u].pending = 1
      <4>1. Uncounted(u)' = 0 /\ sessions'[u].pending = 0
        BY <1>2, <3>1, <3>4
      <4>2. Queued(u)' = {}
        <5>1. Cardinality(Hits(renames, RenamesOf(u))) + Cardinality(Hits(events', RenamedOf(u))) = 0
          BY <1>1, <4>1 DEF Uncounted, RenamesOf, RenamedOf
        <5>2. Cardinality(Hits(events', RenamedOf(u))) \in Nat
          BY <1>0, EventTaken
        <5>3. Cardinality(Hits(renames, RenamesOf(u))) = 0
          BY <5>1, <5>2, QueueTypes
        <5>4. Hits(renames, RenamesOf(u)) = {}
          BY <5>3, QueueTypes, HitsFinite, FS_EmptySet
        <5> QED BY <1>2, <5>4 DEF Queued
      <4>3. At(Loop, u, {"finish"})' /\ \A b \in Actors : Runs(b, u)' => b = Loop
        BY <1>4, <1>6, <3>1, <3>2, <3>4 DEF At
      <4>4. \A f \in Files : Right(u, f)'
        BY <3>3, <4>2 DEF Coming
      <4> QED BY <3>3, <4>1, <4>2, <4>3, <4>4 DEF Counted
    <3>5. CASE sessions[u].pending # 1
      <4>1. sessions'[u].pending > 0
        BY <3>1, <3>5
      <4>2. \A b \in Actors : ~Runs(b, u)'
        BY <1>4, <3>2, <3>5 DEF Runs, At
      <4> QED BY <3>1, <3>3, <4>1, <4>2 DEF Counting
    <3> QED BY <3>4, <3>5
  <2>5. ASSUME NothingToName(u) PROVE NothingToName(u)'
    <3>1. sessions[u].pending = 0 /\ pc' = pc /\ loc' = loc /\ sessions' = sessions
      BY <1>1, <2>5 DEF NothingToName
    <3> QED BY <1>5, <2>5, <3>1 DEF NothingToName, Runs, At, Skipped
  <2>6. (\E a \in Actors : Naming(a, u)') \/ Counting(u)' \/ Counted(u)' \/ NothingToName(u)'
    BY <1>8, <2>1, <2>2, <2>3, <2>4, <2>5 DEF Preparing
  <2> QED BY <1>0, <1>2, <1>5, <1>8, <2>1, <2>6 DEF Preparing
<1>9. ASSUME Prepared(u) PROVE Prepared(u)'
  <2>1. \A b \in Actors : /\ At(b, u, {"fix", "rename"})' => loc'[b] = loc[b]
                          /\ At(b, u, {"rename"})' => loc'[b] = loc[b]
    BY <1>6 DEF At
  <2>2. ~sessions'[u].recheck /\ \A f \in Files : Tidy(u, f)'
    <3>1. ~sessions[u].recheck /\ \A f \in Files : Tidy(u, f)
      BY <1>9 DEF Prepared
    <3>2. \A f \in Files : Tidy(u, f)' = Tidy(u, f)
      BY <1>5
    <3> QED BY <1>3, <3>1, <3>2
  <2>6. \A r \in Queued(u)' : r.to = "real" => client'[u].done[r.f]
    BY <1>0, <1>2, <1>9 DEF Prepared
  <2>7. client'[u].meta /\ ~client'[u].checking /\ (\A b \in Actors : ~At(b, u, {"recheck"})')
          => DataKnown(u)'
    BY <1>0, <1>5, <1>6, <1>9 DEF Prepared
  <2>3. \A b \in Actors : At(b, u, {"metadata", "fix", "rename"})' => b = Loop
    BY <1>6, <1>9 DEF Prepared
  <2>4. \A b \in Actors : At(b, u, {"fix", "rename"})' /\ loc'[b].preparing
                             => b = Loop /\ AllReal(u)' /\ Skipped(b)'
    BY <1>5, <1>6, <1>9, <2>1 DEF Prepared, Skipped
  <2>5. \A b \in Actors : At(b, u, {"rename"})' /\ ~loc'[b].preparing
                             => \A r \in loc'[b].todo : r[2] = "real" => client'[u].done[r[1]]
    BY <1>0, <1>6, <1>9, <2>1 DEF Prepared
  <2> QED BY <2>2, <2>3, <2>4, <2>5, <2>6, <2>7 DEF Prepared
<1>10. Plain(u)' => Plain(u)
  BY <1>0 DEF Plain
<1> QED BY <1>0, <1>5, <1>7, <1>8, <1>9, <1>10, DataStep

LEMMA DataEvents ==
    ASSUME TypeOK, DataInv, [Next]_vars, HandleEvents
    PROVE  \A t \in Torrents : DataOf(t)'
<1> PICK u \in Torrents : u = Head(events).t
  <2>1. events # <<>>
    BY DEF HandleEvents, HandleMetadata, HandleProgress, HandleRenamed, NextOfKind
  <2> QED BY <2>1, HeadMentioned
<1>1. \A t \in Torrents \ {u} : DataOf(t)'
  BY EventOthers
<1>2. DataOf(u)'
  BY DataHandleMetadata, DataHandleProgress, DataHandleRenamed DEF HandleEvents
<1> QED BY <1>1, <1>2

LEMMA DataNext == TypeOK /\ PreparingInv /\ DataInv /\ [Next]_vars => DataInv'
<1> SUFFICES ASSUME TypeOK, PreparingInv, DataInv, [Next]_vars PROVE DataInv'
  OBVIOUS
<1>1. \A a \in Actors : Blank(a)'
  BY BlankStep DEF DataInv
<1>2. CASE UNCHANGED vars
  <2>1. UNCHANGED <<sessions, client, disk, renames, events, pc, loc, doomed, adds, odd>>
    BY <1>2 DEF vars
  <2>2. ASSUME NEW t \in Torrents PROVE DataOf(t)'
    BY <2>1, StillActors, SameQueuesKept, DataFrame DEF DataInv, SameData
  <2> QED BY <1>1, <2>2 DEF DataInv
<1>3. \A t \in Torrents : DataOf(t)'
  BY <1>2, DataRequests, DataContinue, DataEvents, DataHeal, DataClient, DataRenamed, DataRefused
     DEF Next, DataInv
<1> QED BY <1>1, <1>3 DEF DataInv

LEMMA DataInit == Init => DataInv
<1> SUFFICES ASSUME Init PROVE DataInv
  OBVIOUS
<1>1. \A a \in Actors : Blank(a)
  BY DEF Init, Blank
<1>2. ASSUME NEW t \in Torrents PROVE DataOf(t)
  <2>1. ~client[t].here /\ ~Known(t)
    BY DEF Init, NoHandle, NoEntry, Known
  <2>2. Queued(t) = {} /\ ~MentionedIn(t)
    BY DEF Init, Queued, Hits, MentionedIn
  <2> QED BY <2>1, <2>2 DEF Init, DataOf, Untouched, Plain
<1> QED BY <1>1, <1>2 DEF DataInv

\* The loop alone lets go a torrent it asks a recheck for, which is held until then.
Rechecking(t) ==
    \A a \in Actors : At(a, t, {"recheck"}) =>
        a = Loop /\ client[t].upload /\ \A b \in Actors : Runs(b, t) => b = Loop

RecheckInv == \A t \in Torrents : Plain(t) => Rechecking(t)

LEMMA RecheckFrame ==
    ASSUME NEW t \in Torrents, Rechecking(t), client'[t].upload = client[t].upload,
           \A a \in Actors : At(a, t, {"recheck"})' => At(a, t, {"recheck"}),
           \A a \in Actors \ {Loop} : Runs(a, t)' => Runs(a, t)
    PROVE  Rechecking(t)'
BY DEF Rechecking

LEMMA RecheckContinue ==
    ASSUME TypeOK, PreparingInv, DataInv, RecheckInv, [Next]_vars, NEW a \in Actors, Continue(a),
           NEW t \in Torrents, Plain(t)'
    PROVE  Rechecking(t)'
<1> PICK u \in Torrents : u = loc[a].t
  BY Locals
<1>0. /\ DataOf(u) /\ adds[u] # 0 /\ odd[t] \subseteq odd'[t]
      /\ \A b \in Actors \ {a} : pc'[b] = pc[b] /\ loc'[b] = loc[b]
      /\ pc[a] # "idle" /\ (pc'[a] = "idle" \/ loc'[a].t = u)
      /\ t # u => client'[t] = client[t]
  BY OwnStart, OddGrows, ContinueEffect
<1>1. client'[t].here = client[t].here
  <2>1. client \in [Torrents -> Handle]
    BY DEF TypeOK
  <2>2. AddStatus(a) \/ AddInsert(a) \/ OnMetadata(a) \/ FixPartNames(a) \/ RenameFile(a)
          \/ SetPending(a) \/ FinishPreparing(a) \/ RemoveEntry(a) => client' = client
    BY DEF AddStatus, AddInsert, OnMetadata, FixPartNames, RenameFile, SetPending,
       FinishPreparing, RemoveEntry
  <2>3. ForceRecheck(a) \/ LeaveUploadMode(a) => client'[t].here = client[t].here
    BY <2>1 DEF ForceRecheck, LeaveUploadMode, Handle
  <2> QED BY <2>2, <2>3 DEF Continue
<1>2. Plain(t) /\ Rechecking(t)
  BY <1>0, <1>1 DEF Plain, RecheckInv
<1>3. CASE t # u
  <2>1. ~At(a, t, {"recheck"})' /\ ~Runs(a, t)'
    BY <1>0, <1>3 DEF At, Runs
  <2> QED BY <1>0, <1>2, <1>3, <2>1, RecheckFrame DEF At, Runs
<1>4. CASE t = u /\ (AddStatus(a) \/ OnMetadata(a) \/ FixPartNames(a) \/ RenameFile(a) \/ SetPending(a))
  <2>1. pc'[a] # "recheck" /\ client' = client /\ (pc'[a] = "insert" \/ pc'[a] = "idle" \/ Runs(a, u))
    BY <1>4 DEF AddStatus, OnMetadata, FixPartNames, RenameFile, SetPending, Goto, Done, TypeOK, Runs, At
  <2> QED BY <1>0, <1>2, <1>4, <2>1, RecheckFrame DEF At, Runs
<1>5. CASE t = u /\ (ForceRecheck(a) \/ RemoveEntry(a))
  <2>1. /\ pc'[a] # "recheck" /\ (pc'[a] = "idle" \/ Runs(a, u))
        /\ client'[u].upload = client[u].upload
    <3>1. pc'[a] # "recheck" /\ (pc'[a] = "idle" \/ Runs(a, u))
      BY <1>5 DEF ForceRecheck, RemoveEntry, Goto, Done, TypeOK, Runs, At
    <3>2. client' = client \/ client' = [client EXCEPT ![u] = [client[u] EXCEPT !.checking = TRUE]]
      BY <1>5 DEF ForceRecheck, RemoveEntry
    <3>3. client \in [Torrents -> Handle] /\ client[u] \in Handle
      BY DEF TypeOK
    <3> QED BY <3>1, <3>2, <3>3 DEF Handle
  <2> QED BY <1>0, <1>2, <1>5, <2>1, RecheckFrame DEF At, Runs
<1>6. CASE t = u /\ AddInsert(a)
  <2>1. /\ pc[a] = "insert" /\ pc'[a] # "recheck" /\ client' = client
        /\ Known(u) => pc'[a] = "idle"
    BY <1>6 DEF AddInsert, Goto, Done, TypeOK
  <2>2. ~Known(u) => \A b \in Actors : ~At(b, u, {"recheck"})
    BY <1>2, <1>6, PlainHeld DEF At
  <2>3. CASE Known(u)
    BY <1>0, <1>2, <1>6, <2>1, <2>3, RecheckFrame DEF At, Runs
  <2>4. CASE ~Known(u)
    BY <1>0, <1>6, <2>1, <2>2, <2>4 DEF Rechecking, At
  <2> QED BY <2>3, <2>4
<1>7. CASE t = u /\ LeaveUploadMode(a)
  <2>1. pc[a] = "start" /\ Runs(a, u) /\ pc'[a] = "idle"
    BY <1>7 DEF LeaveUploadMode, Done, Goto, TypeOK, Runs, At
  <2>2. \A b \in Actors : ~At(b, u, {"recheck"})
    BY <1>2, <1>7, <2>1 DEF Rechecking, At
  <2> QED BY <1>0, <1>7, <2>1, <2>2 DEF Rechecking, At
<1>8. CASE t = u /\ FinishPreparing(a)
  <2>1. /\ pc[a] = "finish" /\ Runs(a, u) /\ client' = client /\ loc' = loc
        /\ pc'[a] = IF sessions[u].recheck THEN "recheck" ELSE "start"
    BY <1>8 DEF FinishPreparing, Goto, TypeOK, Runs, At
  <2>2. CASE ~sessions[u].recheck
    BY <1>0, <1>2, <1>8, <2>1, <2>2, RecheckFrame DEF At, Runs
  <2>3. CASE sessions[u].recheck
    <3>1. InPreparation(u) /\ Preparing(u)
      BY <1>0, <1>2, <1>8, <2>3 DEF DataOf, Prepared
    <3>2. client[u].upload /\ Known(u)
      BY <1>2, <1>8, <2>1, <3>1, PlainHeld
    <3>3. Counted(u)
      BY <2>1, <2>3, <3>1, <3>2 DEF Preparing, Waiting, Naming, Counting, NothingToName, At
    <3>4. \A b \in Actors : Runs(b, u)' => b = Loop
      BY <1>0, <2>1, <3>3 DEF Counted, Runs, At
    <3>5. \A b \in Actors : At(b, u, {"recheck"})' => Runs(b, u)'
      BY DEF At, Runs
    <3> QED BY <1>8, <2>1, <3>2, <3>4, <3>5 DEF Rechecking
  <2> QED BY <2>2, <2>3
<1> QED BY <1>3, <1>4, <1>5, <1>6, <1>7, <1>8 DEF Continue

LEMMA RecheckStep == TypeOK /\ PreparingInv /\ DataInv /\ RecheckInv /\ [Next]_vars => RecheckInv'
<1> SUFFICES ASSUME TypeOK, PreparingInv, DataInv, RecheckInv, [Next]_vars,
                    NEW t \in Torrents, Plain(t)'
             PROVE  Rechecking(t)'
  BY DEF RecheckInv
<1>0. odd[t] \subseteq odd'[t] /\ (client[t].here => Plain(t) /\ Rechecking(t))
  BY OddGrows DEF Plain, RecheckInv
<1>1. ASSUME NEW c \in Callers, Requests(c) PROVE Rechecking(t)'
  <2> PICK u \in Torrents, flag \in BOOLEAN : Add(c, u, flag) \/ RemoveFromClient(c, u, flag)
    BY <1>1 DEF Requests
  <2>1. /\ pc'[c] \in {"status", "drop"} /\ c \in Actors
        /\ \A b \in Actors \ {c} : pc'[b] = pc[b] /\ loc'[b] = loc[b]
    BY DEF Add, RemoveFromClient, Goto, TypeOK, Actors
  <2>2. \A b \in Actors : /\ At(b, t, {"recheck"})' => At(b, t, {"recheck"}) /\ pc[b] # "idle"
                          /\ Runs(b, t)' => Runs(b, t)
    BY <2>1 DEF At, Runs
  <2>3. CASE client'[t] = client[t]
    BY <1>0, <2>2, <2>3, RecheckFrame DEF Plain
  <2>4. CASE client'[t] # client[t]
    <3>1. t = u /\ ~client[u].here /\ Add(c, u, flag)
      <4>1. CASE RemoveFromClient(c, u, flag)
        BY <2>4, <4>1 DEF RemoveFromClient, TypeOK, Plain, NoHandle
      <4>2. CASE Add(c, u, flag)
        BY <2>4, <4>2 DEF Add, TypeOK
      <4> QED BY <4>1, <4>2
    <3>2. adds[u] = 0
      <4>1. adds[u] > 0 => "readded" \in odd'[u]
        BY <3>1 DEF Add, Note, TypeOK
      <4> QED BY <3>1, <4>1 DEF Plain, TypeOK
    <3>3. \A b \in Actors : ~At(b, t, {"recheck"})
      BY <3>1, <3>2 DEF DataInv, DataOf, Untouched, At
    <3> QED BY <2>2, <3>3 DEF Rechecking
  <2> QED BY <2>3, <2>4
<1>2. ASSUME NEW a \in Actors, Continue(a) PROVE Rechecking(t)'
  BY <1>2, RecheckContinue
<1>3. CASE HandleEvents
  <2>1. client' = client /\ pc[Loop] = "idle" /\ Loop \in Actors
        /\ (UNCHANGED <<pc, loc>> \/ \E label \in {"metadata", "finish"} : \E u : LoopTakes(label, u))
    BY <1>3 DEF HandleEvents, HandleMetadata, HandleProgress, HandleRenamed, NextOfKind, Actors
  <2>2. /\ pc'[Loop] # "recheck"
        /\ \A b \in Actors \ {Loop} : pc'[b] = pc[b] /\ loc'[b] = loc[b]
    BY <2>1 DEF LoopTakes, Goto, TypeOK
  <2> QED BY <1>0, <2>1, <2>2, RecheckFrame DEF Plain, At, Runs
<1>4. ASSUME NEW u \in Torrents, HealPartNames(u) \/ Client(u) \/ FileRenamed \/ FileRenameFailed
      PROVE Rechecking(t)'
  BY <1>0, <1>4, ClientFrame, RecheckFrame DEF Plain, At, Runs
<1>5. CASE UNCHANGED vars
  BY <1>0, <1>5, RecheckFrame DEF vars, Plain, At, Runs
<1> QED BY <1>1, <1>2, <1>3, <1>4, <1>5, EngineAssumption DEF Next

LEMMA RecheckInit == Init => RecheckInv
BY DEF Init, RecheckInv, Rechecking, At

LEMMA DataImplies == TypeOK /\ PreparingInv /\ DataInv /\ RecheckInv => DataOnDiskKnown
<1> SUFFICES ASSUME TypeOK, PreparingInv, DataInv, RecheckInv,
                    NEW t \in Torrents, Downloading(t), odd[t] \subseteq {"early"}
             PROVE  DataKnown(t)
  BY DEF DataOnDiskKnown, KnowsItsData, DataKnown, Place, Name
<1>1. Plain(t) /\ ~InPreparation(t)
  BY PlainHeld DEF Plain, Downloading
<1>2. \A a \in Actors : ~At(a, t, {"recheck"})
  BY <1>1 DEF RecheckInv, Rechecking, Downloading
<1> QED BY <1>1, <1>2 DEF DataInv, DataOf, Prepared, Downloading

\* The data invariants hold throughout.
LEMMA DataThroughout == Spec => [](TypeOK /\ PreparingInv /\ DataInv /\ RecheckInv)
<1>1. Init => TypeOK /\ PreparingInv /\ DataInv /\ RecheckInv
  BY TypeInit, PreparingInit, DataInit, RecheckInit
<1>2. TypeOK /\ PreparingInv /\ DataInv /\ RecheckInv /\ [Next]_vars
        => (TypeOK /\ PreparingInv /\ DataInv /\ RecheckInv)'
  BY TypeStep, PreparingStep, DataNext, RecheckStep
<1> QED BY <1>1, <1>2, PTL DEF Spec

\* A torrent that leaves its preparation and downloads knows all the data that
\* is on disk under the names its files have: finishPreparing's recheck comes
\* before LeaveUploadMode, and only renames that met no data go without it.  That
\* is so of torrents that nothing unusual befell but events that were not counted.
THEOREM DataKnownCorrect == Spec => []DataOnDiskKnown
BY DataThroughout, DataImplies, PTL

LEMMA HiddenStep ==
    TypeOK /\ PreparingInv /\ DataInv /\ [Next]_vars =>
      [\A t \in Torrents, f \in Files :
          /\ disk[t][f].at = "none" /\ disk'[t][f].at = "real"
          => odd[t] \ {"early"} # {}]_vars
<1> SUFFICES ASSUME TypeOK, PreparingInv, DataInv, [Next]_vars,
                    NEW t \in Torrents, NEW f \in Files,
                    disk[t][f].at = "none", disk'[t][f].at = "real",
                    odd[t] \subseteq {"early"}
             PROVE  FALSE
  OBVIOUS
<1>1. ASSUME NEW u \in Torrents, Client(u) PROVE FALSE
  <2>1. PICK g \in Files : PieceWritten(u, g)
    <3>1. ~DeleteWithRetry(u)
      <4> SUFFICES ASSUME DeleteWithRetry(u) PROVE FALSE
        OBVIOUS
      <4> DEFINE gone == [g \in Files |-> [at |-> "none", full |-> FALSE]]
      <4>1. disk' = [disk EXCEPT ![u] = gone]
        BY DEF DeleteWithRetry
      <4>2. gone[f].at = "none"
        OBVIOUS
      <4> HIDE DEF gone
      <4>3. disk'[t] = gone \/ disk'[t] = disk[t]
        BY <4>1 DEF TypeOK
      <4> QED BY <4>2, <4>3
    <3>2. ~MetadataReceived(u) /\ ~TorrentChecked(u)
      BY DEF MetadataReceived, TorrentChecked
    <3>3. ASSUME NEW g \in Files, FileCompleted(u, g) PROVE FALSE
      BY <3>3, CompletedEffect
    <3> QED BY <1>1, <3>1, <3>2, <3>3 DEF Client
  <2>2. t = u /\ f = g /\ Name(t, f) = "real" /\ Downloading(t)
    BY <2>1, PieceEffect DEF Name
  <2>3. Plain(t) /\ ~InPreparation(t)
    BY <2>2, PlainHeld DEF Plain, Downloading
  <2> QED BY <2>2, <2>3 DEF DataInv, DataOf, Prepared, Tidy, Place
<1>2. CASE FileRenamed
  <2> DEFINE r == Head(renames)
  <2>0. /\ r.t \in Torrents /\ r.f \in Files
        /\ disk' = disk \/ \A v \in Torrents \ {r.t} : disk'[v] = disk[v]
        /\ disk' = disk \/ \A g \in Files \ {r.f} : disk'[r.t][g] = disk[r.t][g]
        /\ disk' = disk \/ disk'[r.t][r.f].at = IF disk[r.t][r.f].at = client[r.t].name[r.f] THEN r.to
                                               ELSE disk[r.t][r.f].at
    BY <1>2, RenamedEffect, Zenon
  <2> HIDE DEF r
  <2>1. t = r.t /\ f = r.f /\ disk[t][f].at = client[t].name[f]
    BY <2>0
  <2>2. client[t].name[f] \in Names
    <3>1. client[t] \in Handle
      BY DEF TypeOK
    <3> QED BY <3>1 DEF Handle
  <2> QED BY <2>1, <2>2 DEF Names
<1>3. disk' = disk \/ FileRenamed \/ \E u \in Torrents : Client(u)
  BY DEF Next, vars, Requests, Add, RemoveFromClient, Continue, AddStatus, AddInsert, OnMetadata,
     FixPartNames, RenameFile, SetPending, FinishPreparing, ForceRecheck, LeaveUploadMode,
     RemoveEntry, HandleEvents, HandleMetadata, HandleProgress, HandleRenamed, HealPartNames,
     FileRenameFailed
<1> QED BY <1>1, <1>2, <1>3

\* The first data of a file is written under its real name only after a refused
\* rename, an event handled before the entry was there, two runs of onMetadata at
\* once, a Remove across another call or a second add.
THEOREM HiddenCorrect == Spec => HiddenUntilFinished
BY DataThroughout, HiddenStep, PTL DEF Spec, HiddenUntilFinished
=============================================================================
