--------------------------- MODULE LibraryProofs ----------------------------
(* For every number of files, entries, sweepers and watchers:
     - one full sweep at a time, unless the look and the making of sweep.lock
       came apart or a sweep without files took the lock away;
     - the browser shows the rows with titles once nothing is going on, unless a
       sender hangs or Sweep took a title it found for no change;
     - the rows are those of the files there are once nothing is going on, unless
       a sender hangs, a timer kept another event or two callbacks overlapped. *)
EXTENDS MCFiles, FiniteSetTheorems, TLAPS

Row == [id: Nat, titled: BOOLEAN]
Timer == [op: Ops, armed: BOOLEAN] \cup {NoTimer}
Local == [task: Tasks, entry: Entries, found: SUBSET Files, todo: SUBSET RowRefs,
          total: Nat, titled: BOOLEAN, changed: BOOLEAN, early: BOOLEAN]

\* What a full sweep holds while it works: nobody else works, or is past its
\* look for the lock.
Alone ==
    \A s \in Sweepers : Working(s) =>
        /\ lock
        /\ \A r \in Sweepers : r # s => ~Working(r)
        /\ \A r \in Sweepers : pc[r] # "lock"

Guarded == "unlocked" \in odd \/ Alone

\* A watcher's callback is no full sweep, and takes the lock away only if it
\* found no files.
Errands ==
    \A w \in Watchers :
        /\ pc[w] # "idle" => loc[w].task # "full"
        /\ pc[w] = "unlock" => loc[w].early

Inv == TypeOK /\ Errands /\ Guarded

LEMMA Values ==
    NoRow \in Row /\ NoTimer \in Timer /\ NoLocal \in Local
<1>1. (CHOOSE e \in Entries : TRUE) \in Entries
  BY LibraryAssumption
<1>2. NoLocal \in Local
  BY <1>1 DEF NoLocal, Local, Tasks
<1>3. QED
  BY <1>2 DEF NoRow, Row, Timer

\* The files can be given different ids.
LEMMA FirstIdType ==
    FirstId \in [Files -> Nat \ {0}] /\ Cardinality(Files) \in Nat
<1> DEFINE n == Cardinality(Files)
<1>1. n \in Nat /\ ExistsBijection(1..n, Files)
  BY LibraryAssumption, FS_CardinalityType
<1>2. PICK h \in Bijection(1..n, Files) : TRUE
  BY <1>1 DEF ExistsBijection
<1>3. h \in [1..n -> Files] /\ \A f \in Files : \E i \in 1..n : h[i] = f
  BY <1>2 DEF Bijection, Surjection, Injection, IsInjective
<1> DEFINE g == [f \in Files |-> CHOOSE i \in 1..n : h[i] = f]
<1>4. \A f \in Files : g[f] \in 1..n /\ h[g[f]] = f
  BY <1>3
<1>5. g \in [Files -> 1..n]
  BY <1>4
<1>6. \A e, f \in Files : g[e] = g[f] => e = f
  BY <1>4
<1>7. \E k \in [Files -> 1..n] : \A e, f \in Files : k[e] = k[f] => e = f
  BY <1>5, <1>6
<1>8. FirstId \in [Files -> 1..n]
  BY <1>7 DEF FirstId
<1>9. QED
  BY <1>1, <1>8

\* The rows listed are finitely many.
LEMMA RowsType ==
    ASSUME TypeOK
    PROVE  /\ Unmatched \in SUBSET RowRefs /\ Rows \in SUBSET RowRefs
           /\ Titled \in SUBSET RowRefs
           /\ Cardinality(Unmatched) \in Nat
<1>1. \A f \in Files : Ref(f) \in RowRefs
  BY DEF TypeOK, Ref, RowRefs
<1>2. /\ Unmatched \in SUBSET RowRefs /\ Rows \in SUBSET RowRefs
      /\ Titled \in SUBSET RowRefs
  BY <1>1 DEF Unmatched, Rows, Titled
<1> DEFINE S == {g \in Files : HasRow(g) /\ ~rows[g].titled}
           h == [f \in S |-> Ref(f)]
<1>3. IsFiniteSet(S)
  BY LibraryAssumption, FS_Subset
<1>4. h \in Surjection(S, Unmatched)
  BY DEF Surjection, Unmatched
<1>5. IsFiniteSet(Unmatched)
  BY <1>3, <1>4, FS_Surjection
<1>6. QED
  BY <1>2, <1>5, FS_CardinalityType

LEMMA GotoType ==
    ASSUME TypeOK, NEW a \in Actors, NEW label \in Labels, Goto(a, label)
    PROVE  /\ pc' \in [Actors -> Labels] /\ pc'[a] = label
           /\ \A b \in Actors : b # a => pc'[b] = pc[b]
BY DEF TypeOK, Goto

LEMMA SetType ==
    ASSUME TypeOK, NEW a \in Actors, NEW l \in Local, Set(a, l)
    PROVE  /\ loc' \in [Actors -> Local] /\ loc'[a] = l
           /\ \A b \in Actors : b # a => loc'[b] = loc[b]
BY DEF TypeOK, Set, Local

LEMMA RecordsType ==
    ASSUME TypeOK
    PROVE  /\ \A a \in Actors : loc[a] \in Local /\ pc[a] \in Labels
           /\ \A e \in Entries : timers[e] \in Timer
           /\ \A f \in Files : rows[f] \in Row
           /\ \A s \in Sweepers : s \in Actors /\ s \notin Watchers
           /\ \A w \in Watchers : w \in Actors /\ w \notin Sweepers
BY LibraryAssumption DEF TypeOK, Local, Timer, Row, Actors

LEMMA InvInit == Init => Inv
<1> SUFFICES ASSUME Init PROVE Inv
  OBVIOUS
<1>1. rows \in [Files -> Row] /\ lastId \in Nat
  BY Values, FirstIdType DEF Init, Row
<1>2. feed \in SUBSET RowRefs /\ ui \in SUBSET RowRefs
  <2>1. \A f \in Files : Ref(f) \in RowRefs
    BY <1>1 DEF Ref, RowRefs, Row
  <2>2. QED
    BY <2>1 DEF Init, Titled
<1>3. loc \in [Actors -> Local] /\ timers \in [Entries -> Timer]
  BY Values DEF Init
<1>4. /\ pc \in [Actors -> Labels] /\ queue \in Seq(Actors)
      /\ changes \in 0..MaxChanges /\ sweeps \in 0..MaxSweeps
  BY LibraryAssumption DEF Init, Labels
<1>5. TypeOK
  BY <1>1, <1>2, <1>3, <1>4 DEF Init, TypeOK, Row, Local, Timer
<1>6. Errands
  BY RecordsType, <1>5 DEF Init, Errands
<1>7. \A s \in Sweepers : ~Working(s)
  BY RecordsType, <1>5 DEF Init, Working, NoLocal
<1>8. QED
  BY <1>5, <1>6, <1>7 DEF Inv, Guarded, Alone
-----------------------------------------------------------------------------
(* Steps that leave the lock alone *)

\* Goroutine a takes a step; it does not begin to work.
LEMMA Calm ==
    ASSUME Inv, NEW a \in Actors,
           UNCHANGED lock, odd \subseteq odd',
           \A b \in Actors : b # a => pc'[b] = pc[b] /\ loc'[b] = loc[b],
           a \in Sweepers => (Working(a)' => Working(a)),
           pc'[a] # "lock"
    PROVE  Guarded'
<1>1. \A s \in Sweepers : s \in Actors
  BY DEF Actors
<1>2. \A s \in Sweepers : Working(s)' => Working(s)
  BY <1>1 DEF Working
<1>3. \A s \in Sweepers : pc'[s] = "lock" => pc[s] = "lock"
  BY <1>1
<1>4. QED
  BY <1>2, <1>3 DEF Inv, Guarded, Alone

\* Nobody takes a step.
LEMMA Still ==
    ASSUME Inv, UNCHANGED <<lock, pc, loc>>, odd \subseteq odd'
    PROVE  Errands' /\ Guarded'
BY DEF Inv, Errands, Guarded, Alone, Working

LEMMA EventType ==
    ASSUME TypeOK, NEW e \in Entries, NEW op \in Ops, Event(e, op)
    PROVE  /\ timers' \in [Entries -> Timer]
           /\ odd' \in SUBSET Oddities /\ odd \subseteq odd'
<1>1. [op |-> IF timers[e].op = "none" THEN op ELSE timers[e].op, armed |-> TRUE] \in Timer
  BY DEF TypeOK, Timer, NoTimer
<1>2. QED
  BY <1>1 DEF TypeOK, Event, Oddities, Timer

LEMMA FileStep ==
    ASSUME Inv, NEW f \in Files, FileComes(f) \/ FileGoes(f)
    PROVE  Inv'
<1> USE DEF Inv
<1>1. PICK op \in Ops : Event(EntryOf[f], op)
  BY DEF FileComes, FileGoes, Ops
<1>2. EntryOf[f] \in Entries
  BY LibraryAssumption
<1>3. changes' \in 0..MaxChanges
  BY LibraryAssumption DEF FileComes, FileGoes, TypeOK
<1>4. disk' \in SUBSET Files
  BY DEF FileComes, FileGoes, TypeOK
<1>5. UNCHANGED <<library, screen, orphans, lock, bus, pc, loc, sweeps>>
  BY DEF FileComes, FileGoes
<1>6. TypeOK'
  BY <1>1, <1>2, <1>3, <1>4, <1>5, EventType DEF TypeOK, Timer, library, screen, bus
<1>7. Errands' /\ Guarded'
  BY <1>1, <1>2, <1>5, EventType, Still
<1>8. QED
  BY <1>6, <1>7

LEMMA FireStep ==
    ASSUME Inv, NEW w \in Watchers, Fires(w)
    PROVE  Inv'
<1> USE DEF Inv
<1>1. PICK e \in Entries, op \in Ops :
        /\ Call(w, e, op)
        /\ timers' \in [Entries -> Timer] /\ orphans' \in SUBSET (Entries \X Ops)
  <2>1. ASSUME NEW e \in Entries, TimerFires(w, e)
        PROVE  /\ Call(w, e, timers[e].op) /\ timers[e].op \in Ops
               /\ timers' \in [Entries -> Timer] /\ orphans' \in SUBSET (Entries \X Ops)
    <3>1. timers[e] \in [op: Ops, armed: BOOLEAN]
      BY <2>1 DEF TimerFires, TypeOK, NoTimer
    <3>2. [timers[e] EXCEPT !.armed = FALSE] \in Timer
      BY <3>1 DEF Timer
    <3>3. timers' = [timers EXCEPT ![e] = [timers[e] EXCEPT !.armed = FALSE]]
      BY <2>1 DEF TimerFires, TypeOK
    <3>4. QED
      BY <2>1, <3>1, <3>2, <3>3 DEF TimerFires, TypeOK, Timer
  <2>2. ASSUME NEW o \in orphans, OrphanFires(w, o)
        PROVE  /\ Call(w, o[1], o[2]) /\ o[1] \in Entries /\ o[2] \in Ops
               /\ timers' \in [Entries -> Timer] /\ orphans' \in SUBSET (Entries \X Ops)
    BY <2>2 DEF OrphanFires, TypeOK, Timer
  <2>3. QED
    BY <2>1, <2>2 DEF Fires
<1> DEFINE task == TaskOf(op, e)
           l == [NoLocal EXCEPT !.task = task, !.entry = e]
<1>2. task \in Tasks \ {"full"}
  BY DEF TaskOf, Ops, Tasks
<1>3. l \in Local /\ l.task # "full" /\ ~l.early
  BY <1>2, Values DEF Local, NoLocal
<1>4. w \in Actors
  BY RecordsType
<1>5. PICK label \in {"list", "walk"} : Goto(w, label)
  BY <1>1 DEF Call
<1>6. Set(w, l)
  BY <1>1 DEF Call
<1> HIDE DEF l, task
<1>7. /\ pc' \in [Actors -> Labels] /\ pc'[w] = label
      /\ \A b \in Actors : b # w => pc'[b] = pc[b]
  BY <1>4, <1>5, GotoType DEF Labels
<1>8. /\ loc' \in [Actors -> Local] /\ loc'[w] = l
      /\ \A b \in Actors : b # w => loc'[b] = loc[b]
  BY <1>3, <1>4, <1>6, SetType
<1>9. /\ UNCHANGED <<disk, library, screen, lock, bus, bounds>>
      /\ odd' \in {odd, odd \cup {"overlapped"}}
  BY <1>1 DEF Call
<1>10. TypeOK'
  BY <1>1, <1>7, <1>8, <1>9 DEF TypeOK, Oddities, Timer, Local, library, screen, bus, bounds
<1>11. Errands'
  BY <1>3, <1>5, <1>7, <1>8, RecordsType DEF Errands
<1>12. Guarded'
  BY <1>4, <1>5, <1>7, <1>8, <1>9, RecordsType, Calm
<1>13. QED
  BY <1>10, <1>11, <1>12
-----------------------------------------------------------------------------
(* Full sweeps and the lock *)

LEMMA FullSweepStep ==
    ASSUME Inv, NEW s \in Sweepers, FullSweep(s)
    PROVE  Inv'
<1> USE DEF Inv
<1>1. s \in Actors /\ s \notin Watchers /\ sweeps' \in 0..MaxSweeps
  BY LibraryAssumption, RecordsType DEF FullSweep, TypeOK
<1>2. UNCHANGED <<disk, library, screen, watch, lock, bus, loc, changes, odd>>
  BY DEF FullSweep
<1>3. CASE lock
  <2>1. UNCHANGED pc
    BY <1>3 DEF FullSweep
  <2>2. TypeOK'
    BY <1>1, <1>2, <2>1 DEF TypeOK, library, screen, watch, bus
  <2>3. QED
    BY <1>2, <2>1, <2>2, Still
<1>4. CASE ~lock
  <2>1. Goto(s, "lock")
    BY <1>4 DEF FullSweep
  <2>2. /\ pc' \in [Actors -> Labels] /\ pc'[s] = "lock"
        /\ \A b \in Actors : b # s => pc'[b] = pc[b]
    BY <1>1, <2>1, GotoType DEF Labels
  <2>3. TypeOK'
    BY <1>1, <1>2, <2>2 DEF TypeOK, library, screen, watch, bus
  <2>4. Errands'
    BY <1>1, <1>2, <2>2, RecordsType DEF Errands
  \* Without the file nobody works, and looking for it is no work.
  <2>5. Guarded'
    <3>1. CASE "unlocked" \in odd
      BY <1>2, <3>1 DEF Guarded
    <3>2. CASE Alone
      <4>1. \A r \in Sweepers : ~Working(r)
        BY <1>4, <3>2 DEF Alone
      <4>2. \A r \in Sweepers : ~Working(r)'
        BY <1>2, <2>2, <4>1, RecordsType DEF Working
      <4>3. QED
        BY <4>2 DEF Guarded, Alone
    <3>3. QED
      BY <3>1, <3>2 DEF Guarded
  <2>6. QED
    BY <2>3, <2>4, <2>5
<1>5. QED
  BY <1>3, <1>4

LEMMA CreateLockStep ==
    ASSUME Inv, NEW s \in Sweepers, CreateLock(s)
    PROVE  Inv'
<1> USE DEF Inv
<1> DEFINE l == [NoLocal EXCEPT !.task = "full"]
<1>1. s \in Actors /\ s \notin Watchers
  BY RecordsType
<1>2. l \in Local
  BY Values DEF Local, Tasks
<1>3. Set(s, l) /\ Goto(s, "walk") /\ lock' = TRUE
  BY DEF CreateLock
<1> HIDE DEF l
<1>4. /\ pc' \in [Actors -> Labels] /\ pc'[s] = "walk"
      /\ \A b \in Actors : b # s => pc'[b] = pc[b]
  BY <1>1, <1>3, GotoType DEF Labels
<1>5. /\ loc' \in [Actors -> Local] /\ loc'[s] = l
      /\ \A b \in Actors : b # s => loc'[b] = loc[b]
  BY <1>1, <1>2, <1>3, SetType
<1>6. /\ odd' \in SUBSET Oddities /\ odd \subseteq odd'
      /\ UNCHANGED <<disk, library, screen, watch, bus, bounds>>
  BY DEF CreateLock, TypeOK, Oddities
<1>7. TypeOK'
  BY <1>3, <1>4, <1>5, <1>6 DEF TypeOK, Local, library, screen, watch, bus, bounds
<1>8. Errands'
  BY <1>1, <1>4, <1>5, RecordsType DEF Errands
\* Who made the file was past its look, so nobody worked; and nobody else is.
<1>9. Guarded'
  <2>1. CASE "unlocked" \in odd \/ \E r \in Sweepers \ {s} : pc[r] = "lock"
    BY <1>6, <2>1 DEF CreateLock, Guarded
  <2>2. CASE "unlocked" \notin odd /\ \A r \in Sweepers \ {s} : pc[r] # "lock"
    <3>1. \A r \in Sweepers : ~Working(r)
      BY <2>2 DEF Guarded, Alone, CreateLock
    <3>2. \A r \in Sweepers : r # s => ~Working(r)' /\ pc'[r] # "lock"
      BY <1>4, <1>5, <2>2, <3>1, RecordsType DEF Working
    <3>3. QED
      BY <1>3, <1>4, <3>2 DEF Guarded, Alone
  <2>3. QED
    BY <2>1, <2>2
<1>10. QED
  BY <1>7, <1>8, <1>9

LEMMA UnlockStep ==
    ASSUME Inv, NEW a \in Actors, Unlock(a)
    PROVE  Inv'
<1> USE DEF Inv
<1>1. pc[a] = "unlock" /\ lock' = FALSE /\ Goto(a, "send")
  BY DEF Unlock
<1>2. /\ pc' \in [Actors -> Labels] /\ pc'[a] = "send"
      /\ \A b \in Actors : b # a => pc'[b] = pc[b]
  BY <1>1, GotoType DEF Labels
<1>3. /\ odd' \in SUBSET Oddities /\ odd \subseteq odd'
      /\ UNCHANGED <<disk, library, screen, watch, bus, loc, bounds>>
  BY DEF Unlock, TypeOK, Oddities
<1>4. TypeOK'
  BY <1>1, <1>2, <1>3 DEF TypeOK, library, screen, watch, bus, bounds
<1>5. Errands'
  <2>1. \A w \in Watchers : pc'[w] # "idle" => pc[w] # "idle"
    BY <1>1, <1>2, RecordsType
  <2>2. \A w \in Watchers : pc'[w] = "unlock" => pc[w] = "unlock"
    BY <1>2, RecordsType
  <2>3. QED
    BY <1>3, <2>1, <2>2 DEF Errands
\* Without the lock nobody may work: the one that made it is through with its work.
<1>6. Guarded'
  <2>1. CASE "unlocked" \in odd
    BY <1>3, <2>1 DEF Guarded
  <2>2. CASE loc[a].early /\ \E s \in Sweepers : Working(s)
    BY <2>2 DEF Unlock, Guarded
  <2>3. CASE loc[a].early /\ \A s \in Sweepers : ~Working(s)
    BY <1>2, <1>3, <2>3, RecordsType DEF Working, Guarded, Alone
  <2>4. CASE ~loc[a].early /\ Alone
    <3>1. a \in Sweepers
      BY <1>1, <2>4 DEF Errands, Actors
    <3>2. Working(a)
      BY <1>1 DEF Working
    <3>3. \A r \in Sweepers : r # a => ~Working(r)
      BY <2>4, <3>1, <3>2 DEF Alone
    <3>4. \A r \in Sweepers : ~Working(r)'
      BY <1>2, <1>3, <2>4, <3>3, RecordsType DEF Working
    <3>5. QED
      BY <3>4 DEF Guarded, Alone
  <2>5. QED
    BY <2>1, <2>2, <2>3, <2>4 DEF Guarded
<1>7. QED
  BY <1>4, <1>5, <1>6
-----------------------------------------------------------------------------
(* The steps of sweeps and callbacks *)

\* Goroutine a goes on with what it does, or returns.
LEMMA Moved ==
    ASSUME Inv, NEW a \in Actors, NEW label \in Labels, NEW l \in Local,
           Goto(a, label), Set(a, l), UNCHANGED lock, odd \subseteq odd',
           label # "lock",
           label # "idle" => pc[a] # "idle" /\ l.task = loc[a].task,
           label = "unlock" => l.early \/ l.task = "full",
           \/ Working(a)
           \/ label \in {"idle", "send", "sent", "waiting"} /\ ~l.early
    PROVE  /\ pc' \in [Actors -> Labels] /\ loc' \in [Actors -> Local]
           /\ Errands' /\ Guarded'
<1> USE DEF Inv
<1>1. /\ pc' \in [Actors -> Labels] /\ pc'[a] = label
      /\ \A b \in Actors : b # a => pc'[b] = pc[b]
  BY GotoType
<1>2. /\ loc' \in [Actors -> Local] /\ loc'[a] = l
      /\ \A b \in Actors : b # a => loc'[b] = loc[b]
  BY SetType
<1>3. Errands'
  BY <1>1, <1>2, RecordsType DEF Errands
<1>4. Working(a)' => Working(a)
  BY <1>1, <1>2 DEF Working
<1>5. Guarded'
  BY <1>1, <1>2, <1>4, Calm
<1>6. QED
  BY <1>1, <1>2, <1>3, <1>5

LEMMA ReturnType ==
    ASSUME TypeOK, NEW a \in Actors, Return(a)
    PROVE  /\ Goto(a, "idle") /\ Set(a, NoLocal) /\ "idle" \in Labels /\ ~NoLocal.early
           /\ timers' \in [Entries -> Timer] /\ orphans' \in SUBSET (Entries \X Ops)
<1> DEFINE e == loc[a].entry
<1>1. e \in Entries /\ timers[e] \in Timer
  BY RecordsType DEF Local
<1>2. timers[e].armed => timers[e].op \in Ops
  BY <1>1 DEF Timer, NoTimer
<1>3. timers' = [timers EXCEPT ![e] = NoTimer]
  BY DEF Return
<1>4. orphans' = IF timers[e].armed THEN orphans \cup {<<e, timers[e].op>>} ELSE orphans
  BY DEF Return
<1>5. timers' \in [Entries -> Timer]
  BY <1>3, Values DEF TypeOK, Timer
<1>6. orphans' \in SUBSET (Entries \X Ops)
  BY <1>1, <1>2, <1>4 DEF TypeOK
<1>7. QED
  BY <1>5, <1>6 DEF Return, Labels, NoLocal

LEMMA AfterTaskType ==
    ASSUME Inv, NEW a \in Actors, NEW changed \in BOOLEAN, AfterTask(a, changed),
           pc[a] \in {"match", "prune"}, UNCHANGED lock, odd \subseteq odd'
    PROVE  /\ pc' \in [Actors -> Labels] /\ loc' \in [Actors -> Local]
           /\ timers' \in [Entries -> Timer] /\ orphans' \in SUBSET (Entries \X Ops)
           /\ Errands' /\ Guarded'
<1> USE DEF Inv
<1>1. Working(a)
  BY DEF Working
<1>2. CASE loc[a].task = "full" \/ changed
  <2> DEFINE l == [loc[a] EXCEPT !.changed = changed, !.titled = FALSE]
  <2>1. l \in Local /\ l.task = loc[a].task
    BY RecordsType DEF Local
  <2>2. Goto(a, "rebuild") /\ Set(a, l) /\ UNCHANGED watch
    BY <1>2 DEF AfterTask
  <2> HIDE DEF l
  <2>3. "rebuild" \in Labels
    BY DEF Labels
  <2>4. QED
    BY <1>1, <2>1, <2>2, <2>3, Moved DEF watch, TypeOK, Timer
<1>3. CASE ~(loc[a].task = "full" \/ changed)
  <2>1. Return(a)
    BY <1>3 DEF AfterTask
  <2>2. QED
    BY <2>1, ReturnType, Values, Moved
<1>4. QED
  BY <1>2, <1>3

\* The steps that change nothing but what the goroutine has read.
LEMMA ReadStep ==
    ASSUME Inv, NEW a \in Actors,
           \/ Walk(a) \/ ReadKnown(a) \/ ReadUnmatched(a) \/ ListRows(a)
           \/ Send(a) \/ AwaitReply(a)
    PROVE  Inv'
<1> USE DEF Inv
<1> DEFINE here == loc[a]
<1>1. here \in Local
  BY RecordsType
<1>2. UNCHANGED <<disk, library, screen, watch, lock, replying, bounds, odd>>
  BY DEF Walk, ReadKnown, ReadUnmatched, ListRows, Send, AwaitReply, bus
<1>3. /\ pc' \in [Actors -> Labels] /\ loc' \in [Actors -> Local]
      /\ Errands' /\ Guarded'
  <2>1. CASE Walk(a)
    <3> DEFINE found == IF loc[a].task = "full" THEN disk ELSE FilesIn(loc[a].entry)
    <3>1. found \in SUBSET Files
      BY DEF TypeOK, FilesIn
    <3>2. PICK label, l : /\ Goto(a, label) /\ Set(a, l)
                          /\ \/ label = "unlock" /\ l = [here EXCEPT !.early = TRUE]
                             \/ label = "known" /\ l = [here EXCEPT !.found = found]
      BY <2>1 DEF Walk
    <3> HIDE DEF found
    <3>3. l \in Local /\ l.task = here.task /\ (label = "unlock" => l.early)
      BY <1>1, <3>1, <3>2 DEF Local
    <3>4. label \in Labels /\ Working(a) /\ label # "lock" /\ pc[a] # "idle"
      BY <2>1, <3>2 DEF Walk, Labels, Working
    <3>5. QED
      BY <1>2, <3>2, <3>3, <3>4, Moved
  <2>2. CASE ReadKnown(a) \/ ReadUnmatched(a) \/ ListRows(a)
    <3>1. PICK label \in {"insert", "match", "prune"}, l \in Local :
            Goto(a, label) /\ Set(a, l) /\ l.task = here.task
      <4>1. CASE ReadKnown(a)
        <5> DEFINE l == [here EXCEPT !.found = {f \in @ : ~HasRow(f)}]
        <5>1. l \in Local /\ l.task = here.task
          BY <1>1 DEF Local
        <5>2. QED
          BY <4>1, <5>1 DEF ReadKnown
      <4>2. CASE ReadUnmatched(a)
        <5> DEFINE l == [here EXCEPT !.todo = Unmatched, !.total = Cardinality(Unmatched)]
        <5>1. l \in Local /\ l.task = here.task
          BY <1>1, RowsType DEF Local
        <5>2. QED
          BY <4>2, <5>1 DEF ReadUnmatched
      <4>3. CASE ListRows(a)
        <5> DEFINE l == [here EXCEPT !.todo = Rows]
        <5>1. l \in Local /\ l.task = here.task
          BY <1>1, RowsType DEF Local
        <5>2. QED
          BY <4>3, <5>1 DEF ListRows
      <4>4. QED
        BY <2>2, <4>1, <4>2, <4>3
    <3>2. Working(a) /\ label \in Labels /\ pc[a] # "idle"
      BY <2>2 DEF ReadKnown, ReadUnmatched, ListRows, Working, Labels
    <3>3. QED
      BY <1>2, <3>1, <3>2, Moved
  <2>3. CASE Send(a) \/ AwaitReply(a)
    <3>1. PICK label \in {"sent", "waiting"} : Goto(a, label)
      BY <2>3 DEF Send, AwaitReply
    <3>2. Set(a, here) /\ label \in Labels /\ pc[a] # "idle"
      BY <2>3 DEF Send, AwaitReply, Set, TypeOK, Labels
    <3>3. Working(a) \/ ~here.early
      BY <1>1 DEF Working, Local
    <3>4. QED
      BY <1>1, <1>2, <3>1, <3>2, <3>3, Moved
  <2>4. QED
    BY <2>1, <2>2, <2>3
<1>4. queue' \in Seq(Actors)
  <2>1. queue \in Seq(Actors)
    BY DEF TypeOK
  <2>2. CASE queue' = Append(queue, a)
    BY <2>1, <2>2
  <2>3. CASE queue' = queue
    BY <2>1, <2>3
  <2>4. QED
    BY <2>2, <2>3 DEF Walk, ReadKnown, ReadUnmatched, ListRows, Send, AwaitReply, bus
<1>5. TypeOK'
  BY <1>2, <1>3, <1>4 DEF TypeOK, Local, library, screen, watch, bounds
<1>6. QED
  BY <1>3, <1>5

\* The steps that change rows, one at a time.
LEMMA RowStep ==
    ASSUME Inv, NEW a \in Actors,
           \/ \E f \in Files : Insert(a, f)
           \/ \E r \in loc[a].todo : Match(a, r) \/ Look(a, r) \/ DeleteRow(a, r)
    PROVE  Inv'
<1> USE DEF Inv
<1> DEFINE here == loc[a]
           RowsOnly == /\ rows' \in [Files -> Row] /\ lastId' \in Nat
                       /\ UNCHANGED <<disk, screen, watch, lock, bus, bounds>>
                       /\ odd' \in SUBSET Oddities /\ odd \subseteq odd'
                       /\ pc[a] \in {"insert", "match", "prune", "delete"}
                       /\ \E label \in {pc[a], "prune", "delete"} : Goto(a, label)
           Noted == \E l \in Local : Set(a, l) /\ l.task = here.task
<1>1. here \in Local /\ pc[a] \in Labels
  BY RecordsType
<1>2. RowsOnly
  <2>1. ASSUME NEW f \in Files, Insert(a, f)
        PROVE  RowsOnly
    <3>1. [id |-> lastId + 1, titled |-> FALSE] \in Row /\ lastId + 1 \in Nat
      BY DEF TypeOK, Row
    <3>2. QED
      BY <2>1, <3>1 DEF Insert, Goto, library, TypeOK, Row
  <2>2. ASSUME NEW r \in here.todo, Match(a, r)
        PROVE  RowsOnly
    <3>1. r[1] \in Files
      BY <1>1 DEF Local, RowRefs
    <3>2. [rows[r[1]] EXCEPT !.titled = TRUE] \in Row
      BY <3>1, RecordsType DEF Row
    <3>3. rows' = rows \/ rows' = [rows EXCEPT ![r[1]] = [rows[r[1]] EXCEPT !.titled = TRUE]]
      BY <2>2 DEF Match, TypeOK
    <3>4. rows' \in [Files -> Row]
      BY <3>2, <3>3 DEF TypeOK, Row
    <3>5. QED
      BY <2>2, <3>4 DEF Match, Goto, TypeOK
  <2>3. ASSUME NEW r \in here.todo, Look(a, r)
        PROVE  RowsOnly
    BY <2>3 DEF Look, Goto, library, TypeOK, Row
  <2>4. ASSUME NEW r \in here.todo, DeleteRow(a, r)
        PROVE  RowsOnly
    <3>1. rows' = rows \/ rows' = [rows EXCEPT ![r[1]] = NoRow]
      BY <2>4 DEF DeleteRow
    <3>2. rows' \in [Files -> Row]
      BY <3>1, Values DEF TypeOK, Row
    <3>3. odd' \in SUBSET Oddities /\ odd \subseteq odd'
      BY <2>4 DEF DeleteRow, TypeOK, Oddities
    <3>4. QED
      BY <2>4, <3>2, <3>3 DEF DeleteRow, TypeOK
  <2>5. QED
    BY <2>1, <2>2, <2>3, <2>4
<1>3. Noted
  <2>1. ASSUME NEW f \in Files, Insert(a, f)
        PROVE  Noted
    <3> DEFINE changed == here.changed \/ ~HasRow(f)
               l == [here EXCEPT !.found = @ \ {f}, !.changed = changed]
    <3>1. changed \in BOOLEAN
      OBVIOUS
    <3> HIDE DEF changed
    <3>2. l \in Local /\ l.task = here.task
      BY <1>1, <3>1 DEF Local
    <3>3. Set(a, l)
      BY <2>1 DEF Insert, changed
    <3>4. QED
      BY <3>2, <3>3
  <2>2. ASSUME NEW r \in here.todo, Match(a, r)
        PROVE  Noted
    <3> DEFINE titled == here.titled \/ ~rows[r[1]].titled
               l == [here EXCEPT !.todo = @ \ {r}, !.titled = titled]
               k == [here EXCEPT !.todo = @ \ {r}]
    <3>1. titled \in BOOLEAN
      OBVIOUS
    <3> HIDE DEF titled
    <3>2. l \in Local /\ l.task = here.task /\ k \in Local /\ k.task = here.task
      BY <1>1, <3>1 DEF Local
    <3>3. Set(a, l) \/ Set(a, k)
      BY <2>2 DEF Match, titled
    <3>4. QED
      BY <3>2, <3>3
  <2>3. ASSUME NEW r \in here.todo, Look(a, r)
        PROVE  Noted
    <3> DEFINE l == [here EXCEPT !.todo = @ \ {r}]
    <3>1. l \in Local /\ l.task = here.task
      BY <1>1 DEF Local
    <3>2. Set(a, l) \/ Set(a, here)
      BY <2>3 DEF Look, Set, TypeOK
    <3>3. QED
      BY <1>1, <3>1, <3>2
  <2>4. ASSUME NEW r \in here.todo, DeleteRow(a, r)
        PROVE  Noted
    <3> DEFINE l == [here EXCEPT !.todo = @ \ {r}, !.changed = TRUE]
    <3>1. l \in Local /\ l.task = here.task
      BY <1>1 DEF Local
    <3>2. Set(a, l)
      BY <2>4 DEF DeleteRow
    <3>3. QED
      BY <3>1, <3>2
  <2>5. QED
    BY <2>1, <2>2, <2>3, <2>4
<1>4. PICK label \in {pc[a], "prune", "delete"} : Goto(a, label)
  BY <1>2
<1>5. /\ pc' \in [Actors -> Labels] /\ loc' \in [Actors -> Local]
      /\ Errands' /\ Guarded'
  <2>1. Working(a) /\ label \in Labels \ {"lock", "idle", "unlock"}
    BY <1>2, <1>4 DEF Working, Labels
  <2>2. QED
    BY <1>1, <1>2, <1>3, <1>4, <2>1, Moved
<1>6. TypeOK'
  BY <1>2, <1>5 DEF TypeOK, Row, Local, screen, watch, bus, bounds
<1>7. QED
  BY <1>5, <1>6

LEMMA EndStep ==
    ASSUME Inv, NEW a \in Actors,
           SweepDone(a) \/ PruneDone(a) \/ RebuildFeeds(a) \/ BroadcastReload(a)
    PROVE  Inv'
<1> USE DEF Inv
<1> DEFINE here == loc[a]
<1>1. here \in Local
  BY RecordsType
<1>2. /\ UNCHANGED <<disk, library, ui, lock, bus, bounds>>
      /\ feed' \in SUBSET RowRefs /\ reloading' \in BOOLEAN
      /\ odd' \in SUBSET Oddities /\ odd \subseteq odd'
  BY RowsType DEF SweepDone, PruneDone, RebuildFeeds, BroadcastReload, screen, TypeOK, Oddities
<1>3. /\ pc' \in [Actors -> Labels] /\ loc' \in [Actors -> Local]
      /\ timers' \in [Entries -> Timer] /\ orphans' \in SUBSET (Entries \X Ops)
      /\ Errands' /\ Guarded'
  <2>1. CASE SweepDone(a)
    <3> DEFINE changed == \/ loc[a].changed
                          \/ loc[a].total > 0 /\ Cardinality(Unmatched) < loc[a].total
    <3>1. changed \in BOOLEAN
      OBVIOUS
    <3>2. AfterTask(a, changed) \/ (\E l \in Local : /\ Goto(a, "list") /\ Set(a, l)
                                                    /\ l.task = here.task
                                                    /\ UNCHANGED watch)
      <4> DEFINE l == [here EXCEPT !.changed = changed, !.total = 0, !.titled = FALSE]
      <4>1. AfterTask(a, changed) \/ (Goto(a, "list") /\ Set(a, l) /\ UNCHANGED watch)
        BY <2>1 DEF SweepDone
      <4> HIDE DEF changed
      <4>2. l \in Local /\ l.task = here.task
        BY <1>1, <3>1 DEF Local
      <4>3. QED
        BY <4>1, <4>2
    <3>3. pc[a] = "match" /\ Working(a)
      BY <2>1 DEF SweepDone, Working
    <3> HIDE DEF changed
    <3>4. CASE AfterTask(a, changed)
      BY <1>2, <3>1, <3>3, <3>4, AfterTaskType
    <3>5. CASE \E l \in Local : /\ Goto(a, "list") /\ Set(a, l)
                                /\ l.task = here.task
                                /\ UNCHANGED watch
      <4>1. "list" \in Labels
        BY DEF Labels
      <4>2. QED
        BY <1>2, <3>3, <3>5, <4>1, Moved DEF watch, TypeOK, Timer
    <3>6. QED
      BY <3>2, <3>4, <3>5
  <2>2. CASE PruneDone(a)
    BY <1>1, <1>2, <2>2, AfterTaskType DEF PruneDone, Local
  <2>3. CASE RebuildFeeds(a)
    <3>1. Goto(a, "reload") /\ Set(a, here) /\ UNCHANGED watch
      BY <2>3 DEF RebuildFeeds, Set, TypeOK
    <3>2. pc[a] = "rebuild" /\ Working(a) /\ "reload" \in Labels
      BY <2>3 DEF RebuildFeeds, Working, Labels
    <3>3. QED
      BY <1>1, <1>2, <3>1, <3>2, Moved DEF watch, TypeOK, Timer
  <2>4. CASE BroadcastReload(a)
    <3>1. pc[a] = "reload" /\ Working(a) /\ "unlock" \in Labels
      BY <2>4 DEF BroadcastReload, Working, Labels
    <3>2. CASE here.task = "full"
      <4>1. Goto(a, "unlock") /\ Set(a, here) /\ UNCHANGED watch
        BY <2>4, <3>2 DEF BroadcastReload, Set, TypeOK, watch
      <4>2. QED
        BY <1>1, <1>2, <3>1, <3>2, <4>1, Moved DEF watch, TypeOK, Timer
    <3>3. CASE here.task # "full"
      <4>1. Return(a)
        BY <2>4, <3>3 DEF BroadcastReload
      <4>2. QED
        BY <1>2, <3>1, <4>1, ReturnType, Values, Moved
    <3>4. QED
      BY <3>2, <3>3
  <2>5. QED
    BY <2>1, <2>2, <2>3, <2>4
<1>4. TypeOK'
  BY <1>2, <1>3 DEF TypeOK, Timer, Local, library, bus, bounds
<1>5. QED
  BY <1>3, <1>4
-----------------------------------------------------------------------------
(* The listener and the browser *)

LEMMA ReplyStep ==
    ASSUME Inv, Reply
    PROVE  Inv'
<1> USE DEF Inv
<1> DEFINE a == replying
<1>1. a \in Actors /\ a # Nobody
  BY DEF Reply, TypeOK
<1>2. UNCHANGED <<disk, library, screen, lock, queue, bounds, odd>> /\ replying' = Nobody
  BY DEF Reply
<1>3. loc[a] \in Local
  BY <1>1, RecordsType
<1>4. /\ pc' \in [Actors -> Labels] /\ loc' \in [Actors -> Local]
      /\ timers' \in [Entries -> Timer] /\ orphans' \in SUBSET (Entries \X Ops)
      /\ Errands' /\ Guarded'
  <2>1. CASE pc[a] = "waiting" /\ loc[a].early /\ loc[a].task = "sweep"
    <3>1. Return(a) /\ Working(a)
      BY <2>1 DEF Reply, Resume, Working
    <3>2. QED
      BY <1>1, <1>2, <2>1, <3>1, ReturnType, Values, Moved
  <2>2. CASE pc[a] = "waiting" /\ loc[a].early /\ loc[a].task # "sweep"
    <3> DEFINE l == [loc[a] EXCEPT !.early = FALSE]
    <3>1. Goto(a, "list") /\ Set(a, l) /\ UNCHANGED watch /\ Working(a)
      BY <2>2 DEF Reply, Resume, Working
    <3>2. l \in Local /\ l.task = loc[a].task /\ "list" \in Labels
      BY <1>3 DEF Local, Labels
    <3> HIDE DEF l
    <3>3. QED
      BY <1>1, <1>2, <2>2, <3>1, <3>2, Moved DEF watch, TypeOK, Timer
  <2>3. CASE pc[a] = "waiting" /\ ~loc[a].early
    <3>1. Goto(a, "idle") /\ Set(a, NoLocal) /\ UNCHANGED watch
      BY <2>3 DEF Reply, Resume
    <3>2. "idle" \in Labels /\ ~NoLocal.early
      BY DEF Labels, NoLocal
    <3>3. QED
      BY <1>1, <1>2, <3>1, <3>2, Values, Moved DEF watch, TypeOK, Timer
  <2>4. CASE pc[a] # "waiting"
    <3>1. UNCHANGED <<pc, loc, watch>>
      BY <2>4 DEF Reply
    <3>2. QED
      BY <1>2, <3>1, Still DEF watch, TypeOK, Timer, Local
  <2>5. QED
    BY <2>1, <2>2, <2>3, <2>4
<1>5. TypeOK'
  BY <1>2, <1>4 DEF TypeOK, Timer, Local, library, screen, bounds
<1>6. QED
  BY <1>4, <1>5

LEMMA ReceiveStep ==
    ASSUME Inv, Receive \/ Reload
    PROVE  Inv'
<1> USE DEF Inv
<1>1. UNCHANGED <<disk, library, watch, lock, pc, loc, bounds, odd>>
  BY DEF Receive, Reload
<1>2. CASE Receive
  <2>1. queue \in Seq(Actors) /\ queue # <<>>
    BY <1>2 DEF Receive, TypeOK
  <2>2. queue' \in Seq(Actors) /\ replying' \in Actors
    BY <1>2, <2>1 DEF Receive
  <2>3. QED
    BY <1>1, <1>2, <2>2, Still DEF Receive, TypeOK, library, screen, watch, bounds
<1>3. CASE Reload
  BY <1>1, <1>3, Still DEF Reload, TypeOK, library, screen, watch, bus, bounds
<1>4. QED
  BY <1>2, <1>3
-----------------------------------------------------------------------------
THEOREM Invariant == Spec => []Inv
<1>1. Inv /\ [Next]_vars => Inv'
  <2> SUFFICES ASSUME Inv, [Next]_vars PROVE Inv'
    OBVIOUS
  <2>1. CASE UNCHANGED vars
    BY <2>1, Still DEF vars, library, screen, watch, bus, bounds, Inv, TypeOK
  <2>2. ASSUME NEW f \in Files, FileComes(f) \/ FileGoes(f)
        PROVE  Inv'
    BY <2>2, FileStep
  <2>3. ASSUME NEW w \in Watchers, Fires(w)
        PROVE  Inv'
    BY <2>3, FireStep
  <2>4. ASSUME NEW s \in Sweepers, FullSweep(s) \/ CreateLock(s)
        PROVE  Inv'
    BY <2>4, FullSweepStep, CreateLockStep
  <2>5. ASSUME NEW a \in Actors, Sweep(a)
        PROVE  Inv'
    BY <2>5, ReadStep, RowStep, EndStep, UnlockStep DEF Sweep
  <2>6. CASE Listen \/ Reload
    BY <2>6, ReplyStep, ReceiveStep DEF Listen
  <2>7. QED
    BY <2>1, <2>2, <2>3, <2>4, <2>5, <2>6 DEF Next
<1>2. QED
  BY <1>1, InvInit, PTL DEF Spec

\* Events, callbacks, sweeps, the listener and the browser keep the library's
\* state well typed.
THEOREM TypeCorrect == Spec => []TypeOK
<1>1. Inv => TypeOK
  BY DEF Inv
<1>2. QED
  BY <1>1, Invariant, PTL

\* checkIfSweepIsRunning and releaseLock keep full sweeps apart, however many are
\* asked for and whatever the watcher does, up to the two ways around the lock:
\* two looks before either file is made, and a sweep without files.
THEOREM OneFullSweepCorrect == Spec => []OneFullSweep
<1>1. Inv => OneFullSweep
  BY DEF Inv, Guarded, Alone, OneFullSweep
<1>2. QED
  BY <1>1, Invariant, PTL
-----------------------------------------------------------------------------
(* What the steps do to the goroutine that takes them *)

\* Other goroutines stay where they are.
Apart(a) == \A b \in Actors : b # a => pc'[b] = pc[b] /\ loc'[b] = loc[b]

LEMMA Moves ==
    ASSUME TypeOK, NEW a \in Actors
    PROVE  /\ \A label : Goto(a, label) => pc'[a] = label /\ \A b \in Actors : b # a => pc'[b] = pc[b]
           /\ \A l : Set(a, l) => loc'[a] = l /\ \A b \in Actors : b # a => loc'[b] = loc[b]
BY DEF TypeOK, Goto, Set

\* Return leaves the goroutine idle, the timer of its entry off the map.
LEMMA Returns ==
    ASSUME TypeOK, NEW a \in Actors, Return(a)
    PROVE  /\ Apart(a) /\ pc'[a] = "idle" /\ loc'[a] = NoLocal
           /\ timers' = [timers EXCEPT ![loc[a].entry] = NoTimer]
           /\ orphans' = IF timers[loc[a].entry].armed
                         THEN orphans \cup {<<loc[a].entry, timers[loc[a].entry].op>>} ELSE orphans
BY Moves DEF Return, Apart

LEMMA AfterTasks ==
    ASSUME TypeOK, NEW a \in Actors, NEW changed \in BOOLEAN, AfterTask(a, changed)
    PROVE  /\ Apart(a)
           /\ loc[a].task = "full" \/ changed =>
                /\ pc'[a] = "rebuild" /\ UNCHANGED watch
                /\ loc'[a].task = loc[a].task /\ loc'[a].entry = loc[a].entry
                /\ ~loc'[a].titled
           /\ ~(loc[a].task = "full" \/ changed) => Return(a)
<1> DEFINE l == [loc[a] EXCEPT !.changed = changed, !.titled = FALSE]
<1>1. loc[a] \in Local
  BY RecordsType
<1>2. l.task = loc[a].task /\ l.entry = loc[a].entry /\ ~l.titled
  BY <1>1 DEF Local
<1> HIDE DEF l
<1>3. CASE loc[a].task = "full" \/ changed
  <2>1. Goto(a, "rebuild") /\ Set(a, l) /\ UNCHANGED watch
    BY <1>3 DEF AfterTask, l
  <2> QED BY <1>2, <1>3, <2>1, Moves DEF Apart
<1>4. CASE ~(loc[a].task = "full" \/ changed)
  BY <1>4, Returns DEF AfterTask
<1> QED BY <1>3, <1>4

LEMMA WalkEffect ==
    ASSUME TypeOK, NEW a \in Actors, Walk(a)
    PROVE  LET found == IF loc[a].task = "full" THEN disk ELSE FilesIn(loc[a].entry) IN
           /\ pc[a] = "walk" /\ Apart(a)
           /\ UNCHANGED <<disk, library, screen, watch, lock, bus, bounds, odd>>
           /\ pc'[a] = IF found = {} THEN "unlock" ELSE "known"
           /\ loc'[a].task = loc[a].task /\ loc'[a].entry = loc[a].entry
           /\ found = {} => loc'[a].early
           /\ found # {} => loc'[a].found = found
           /\ loc'[a].titled = loc[a].titled /\ loc'[a].changed = loc[a].changed
<1> DEFINE found == IF loc[a].task = "full" THEN disk ELSE FilesIn(loc[a].entry)
           l == [loc[a] EXCEPT !.early = TRUE]
           k == [loc[a] EXCEPT !.found = found]
<1>1. loc[a] \in Local
  BY RecordsType
<1>2. /\ l.task = loc[a].task /\ l.entry = loc[a].entry /\ l.early
      /\ l.titled = loc[a].titled /\ l.changed = loc[a].changed
      /\ k.task = loc[a].task /\ k.entry = loc[a].entry /\ k.found = found
      /\ k.titled = loc[a].titled /\ k.changed = loc[a].changed
  BY <1>1 DEF Local
<1>3. /\ pc[a] = "walk"
      /\ IF found = {} THEN Goto(a, "unlock") /\ Set(a, l) ELSE Goto(a, "known") /\ Set(a, k)
      /\ UNCHANGED <<disk, library, screen, watch, lock, bus, bounds, odd>>
  BY DEF Walk
<1> HIDE DEF l, k, found
<1>4. /\ pc'[a] = IF found = {} THEN "unlock" ELSE "known"
      /\ loc'[a] = IF found = {} THEN l ELSE k
      /\ Apart(a)
  BY <1>3, Moves DEF Apart
<1>5. QED
  BY <1>2, <1>3, <1>4 DEF found

LEMMA ReadKnownEffect ==
    ASSUME TypeOK, NEW a \in Actors, ReadKnown(a)
    PROVE  /\ pc[a] = "known" /\ pc'[a] = "insert" /\ Apart(a)
           /\ UNCHANGED <<disk, library, screen, watch, lock, bus, bounds, odd>>
           /\ loc'[a].task = loc[a].task /\ loc'[a].entry = loc[a].entry
           /\ loc'[a].found = {f \in loc[a].found : ~HasRow(f)}
           /\ loc'[a].titled = loc[a].titled /\ loc'[a].changed = loc[a].changed
<1> DEFINE l == [loc[a] EXCEPT !.found = {f \in loc[a].found : ~HasRow(f)}]
<1>1. loc[a] \in Local
  BY RecordsType
<1>2. /\ l.task = loc[a].task /\ l.entry = loc[a].entry
      /\ l.found = {f \in loc[a].found : ~HasRow(f)}
      /\ l.titled = loc[a].titled /\ l.changed = loc[a].changed
  BY <1>1 DEF Local
<1>3. Goto(a, "insert") /\ Set(a, l)
  BY <1>1 DEF ReadKnown, Local
<1> HIDE DEF l
<1> QED BY <1>2, <1>3, Moves DEF Apart, ReadKnown

LEMMA InsertEffect ==
    ASSUME TypeOK, NEW a \in Actors, NEW f \in Files, Insert(a, f)
    PROVE  /\ pc[a] = "insert" /\ f \in loc[a].found /\ pc' = pc /\ Apart(a)
           /\ UNCHANGED <<disk, screen, watch, lock, bus, bounds, odd>>
           /\ HasRow(f) => rows' = rows
           /\ ~HasRow(f) => /\ rows'[f] = [id |-> lastId + 1, titled |-> FALSE]
                            /\ \A g \in Files \ {f} : rows'[g] = rows[g]
           /\ loc'[a].task = loc[a].task /\ loc'[a].entry = loc[a].entry
           /\ loc'[a].found = loc[a].found \ {f}
           /\ loc'[a].titled = loc[a].titled
           /\ loc'[a].changed = (loc[a].changed \/ ~HasRow(f))
           /\ loc'[a].todo = loc[a].todo
<1> DEFINE changed == loc[a].changed \/ ~HasRow(f)
           l == [loc[a] EXCEPT !.found = loc[a].found \ {f}, !.changed = changed]
<1>1. loc[a] \in Local
  BY RecordsType
<1>2. changed \in BOOLEAN
  OBVIOUS
<1>3. Set(a, [loc[a] EXCEPT !.found = @ \ {f}, !.changed = @ \/ ~HasRow(f)])
  BY DEF Insert
<1>4. [loc[a] EXCEPT !.found = @ \ {f}, !.changed = @ \/ ~HasRow(f)] = l
  BY <1>1 DEF Local
<1> HIDE DEF changed
<1>5. /\ l.task = loc[a].task /\ l.entry = loc[a].entry /\ l.found = loc[a].found \ {f}
      /\ l.titled = loc[a].titled /\ l.changed = changed /\ l.todo = loc[a].todo
  BY <1>1, <1>2 DEF Local
<1>6. Set(a, l)
  BY <1>3, <1>4
<1> HIDE DEF l
<1>7. loc'[a] = l /\ Apart(a)
  BY <1>6, Moves DEF Apart, Insert
<1>8. /\ HasRow(f) => rows' = rows
      /\ ~HasRow(f) => /\ rows'[f] = [id |-> lastId + 1, titled |-> FALSE]
                       /\ \A g \in Files \ {f} : rows'[g] = rows[g]
  BY DEF Insert, library, TypeOK
<1> QED BY <1>5, <1>7, <1>8 DEF Insert, changed

LEMMA ReadUnmatchedEffect ==
    ASSUME TypeOK, NEW a \in Actors, ReadUnmatched(a)
    PROVE  /\ pc[a] = "insert" /\ loc[a].found = {} /\ pc'[a] = "match" /\ Apart(a)
           /\ UNCHANGED <<disk, library, screen, watch, lock, bus, bounds, odd>>
           /\ loc'[a].task = loc[a].task /\ loc'[a].entry = loc[a].entry
           /\ loc'[a].titled = loc[a].titled /\ loc'[a].changed = loc[a].changed
<1> DEFINE l == [loc[a] EXCEPT !.todo = Unmatched, !.total = Cardinality(Unmatched)]
<1>1. loc[a] \in Local
  BY RecordsType
<1>2. /\ l.task = loc[a].task /\ l.entry = loc[a].entry
      /\ l.titled = loc[a].titled /\ l.changed = loc[a].changed
  BY <1>1 DEF Local
<1>3. Goto(a, "match") /\ Set(a, l)
  BY DEF ReadUnmatched
<1> HIDE DEF l
<1> QED BY <1>2, <1>3, Moves DEF Apart, ReadUnmatched

LEMMA MatchEffect ==
    ASSUME TypeOK, NEW a \in Actors, NEW r \in loc[a].todo, Match(a, r)
    PROVE  /\ pc[a] = "match" /\ pc' = pc /\ Apart(a) /\ r[1] \in Files
           /\ UNCHANGED <<disk, lastId, screen, watch, lock, bus, bounds, odd>>
           /\ \/ rows' = rows /\ loc'[a].titled = loc[a].titled
              \/ /\ rows'[r[1]] = [rows[r[1]] EXCEPT !.titled = TRUE]
                 /\ \A g \in Files \ {r[1]} : rows'[g] = rows[g]
                 /\ loc'[a].titled = (loc[a].titled \/ ~rows[r[1]].titled)
           /\ loc'[a].task = loc[a].task /\ loc'[a].entry = loc[a].entry
           /\ loc'[a].changed = loc[a].changed
<1> DEFINE titled == loc[a].titled \/ ~rows[r[1]].titled
           l == [loc[a] EXCEPT !.todo = loc[a].todo \ {r}, !.titled = titled]
           k == [loc[a] EXCEPT !.todo = loc[a].todo \ {r}]
<1>1. loc[a] \in Local
  BY RecordsType
<1>2. r[1] \in Files
  BY <1>1 DEF Local, RowRefs
<1>3. titled \in BOOLEAN
  OBVIOUS
<1>4. \/ rows' = [rows EXCEPT ![r[1]].titled = TRUE] /\ Set(a, l)
      \/ rows' = rows /\ Set(a, k)
  <2>1. /\ [loc[a] EXCEPT !.todo = @ \ {r}, !.titled = @ \/ ~rows[r[1]].titled] = l
        /\ [loc[a] EXCEPT !.todo = @ \ {r}] = k
    BY <1>1 DEF Local
  <2>2. PICK found \in BOOLEAN :
          IF found /\ rows[r[1]].id = r[2]
          THEN /\ rows' = [rows EXCEPT ![r[1]].titled = TRUE]
               /\ Set(a, [loc[a] EXCEPT !.todo = @ \ {r}, !.titled = @ \/ ~rows[r[1]].titled])
          ELSE UNCHANGED rows /\ Set(a, [loc[a] EXCEPT !.todo = @ \ {r}])
    BY DEF Match
  <2> HIDE DEF l, k
  <2> QED BY <2>1, <2>2
<1> HIDE DEF titled
<1>5. /\ l.task = loc[a].task /\ l.entry = loc[a].entry /\ l.changed = loc[a].changed
      /\ l.titled = titled
      /\ k.task = loc[a].task /\ k.entry = loc[a].entry /\ k.changed = loc[a].changed
      /\ k.titled = loc[a].titled
  BY <1>1, <1>3 DEF Local
<1> HIDE DEF l, k
<1>6. pc' = pc /\ Apart(a) /\ (loc'[a] = l \/ loc'[a] = k)
  BY <1>4, Moves DEF Apart, Match
<1>7. \/ /\ rows'[r[1]] = [rows[r[1]] EXCEPT !.titled = TRUE]
         /\ \A g \in Files \ {r[1]} : rows'[g] = rows[g]
         /\ loc'[a] = l
      \/ rows' = rows /\ loc'[a] = k
  BY <1>2, <1>4, Moves DEF TypeOK
<1> QED BY <1>2, <1>5, <1>6, <1>7 DEF Match, titled

LEMMA SweepDoneEffect ==
    ASSUME TypeOK, NEW a \in Actors, SweepDone(a)
    PROVE  /\ pc[a] = "match" /\ Apart(a)
           /\ UNCHANGED <<disk, library, screen, lock, bus, bounds>>
           /\ odd \subseteq odd'
           /\ \/ /\ pc'[a] = "rebuild" /\ UNCHANGED watch /\ loc[a].task = "sweep"
                 /\ loc'[a].task = loc[a].task /\ loc'[a].entry = loc[a].entry
              \/ /\ pc'[a] = "list" /\ UNCHANGED watch
                 /\ loc[a].task # "sweep"
                 /\ loc'[a].task = loc[a].task /\ loc'[a].entry = loc[a].entry
                 /\ loc[a].titled => loc'[a].changed \/ "miscounted" \in odd'
              \/ /\ Return(a) /\ loc[a].task = "sweep"
                 /\ loc[a].titled => "miscounted" \in odd'
<1> DEFINE changed == \/ loc[a].changed
                      \/ loc[a].total > 0 /\ Cardinality(Unmatched) < loc[a].total
           l == [loc[a] EXCEPT !.changed = changed, !.total = 0, !.titled = FALSE]
<1>1. loc[a] \in Local
  BY RecordsType
<1>2. changed \in BOOLEAN
  OBVIOUS
<1>3. /\ pc[a] = "match"
      /\ UNCHANGED <<disk, library, screen, lock, bus, bounds>>
      /\ odd' = IF loc[a].titled /\ ~changed THEN odd \cup {"miscounted"} ELSE odd
      /\ IF loc[a].task = "sweep" THEN AfterTask(a, changed)
         ELSE Goto(a, "list") /\ Set(a, l) /\ UNCHANGED watch
  BY DEF SweepDone
<1> HIDE DEF changed
<1>4. l.task = loc[a].task /\ l.entry = loc[a].entry /\ l.changed = changed
  BY <1>1, <1>2 DEF Local
<1> HIDE DEF l
<1>5. CASE loc[a].task = "sweep"
  <2>1. AfterTask(a, changed)
    BY <1>3, <1>5
  <2> QED BY <1>2, <1>3, <1>5, <2>1, AfterTasks
<1>6. CASE loc[a].task # "sweep"
  <2>1. pc'[a] = "list" /\ loc'[a] = l /\ Apart(a) /\ UNCHANGED watch
    BY <1>3, <1>6, Moves DEF Apart
  <2> QED BY <1>3, <1>4, <1>6, <2>1
<1> QED BY <1>5, <1>6

LEMMA ListRowsEffect ==
    ASSUME TypeOK, NEW a \in Actors, ListRows(a)
    PROVE  /\ pc[a] = "list" /\ pc'[a] = "prune" /\ Apart(a)
           /\ UNCHANGED <<disk, library, screen, watch, lock, bus, bounds, odd>>
           /\ loc'[a].task = loc[a].task /\ loc'[a].entry = loc[a].entry
           /\ loc'[a].todo = Rows /\ loc'[a].changed = loc[a].changed
<1> DEFINE l == [loc[a] EXCEPT !.todo = Rows]
<1>1. loc[a] \in Local
  BY RecordsType
<1>2. /\ l.task = loc[a].task /\ l.entry = loc[a].entry
      /\ l.todo = Rows /\ l.changed = loc[a].changed
  BY <1>1 DEF Local
<1>3. Goto(a, "prune") /\ Set(a, l)
  BY DEF ListRows
<1> HIDE DEF l
<1> QED BY <1>2, <1>3, Moves DEF Apart, ListRows

LEMMA LookEffect ==
    ASSUME TypeOK, NEW a \in Actors, NEW r \in loc[a].todo, Look(a, r)
    PROVE  /\ pc[a] = "prune" /\ pc'[a] \in {"prune", "delete"} /\ Apart(a) /\ r[1] \in Files
           /\ UNCHANGED <<disk, library, screen, watch, lock, bus, bounds, odd>>
           /\ loc'[a].task = loc[a].task /\ loc'[a].entry = loc[a].entry
           /\ \/ r[1] \in disk /\ loc'[a].todo = loc[a].todo \ {r}
              \/ loc'[a].todo = loc[a].todo
           /\ loc'[a].changed = loc[a].changed
<1> DEFINE l == [loc[a] EXCEPT !.todo = @ \ {r}]
<1>1. loc[a] \in Local
  BY RecordsType
<1>2. r[1] \in Files
  BY <1>1 DEF Local, RowRefs
<1>3. /\ l.task = loc[a].task /\ l.entry = loc[a].entry /\ l.todo = loc[a].todo \ {r}
      /\ l.changed = loc[a].changed
  BY <1>1 DEF Local
<1>4. CASE r[1] \in disk
  <2>1. Set(a, l) /\ pc' = pc
    BY <1>4 DEF Look
  <2> HIDE DEF l
  <2> QED BY <1>2, <1>3, <1>4, <2>1, Moves DEF Apart, Look
<1>5. CASE r[1] \notin disk
  BY <1>2, <1>5, Moves DEF Apart, Look
<1> QED BY <1>4, <1>5

LEMMA DeleteEffect ==
    ASSUME TypeOK, NEW a \in Actors, NEW r \in loc[a].todo, DeleteRow(a, r)
    PROVE  /\ pc[a] = "delete" /\ pc'[a] = "prune" /\ Apart(a) /\ r[1] \in Files
           /\ UNCHANGED <<disk, lastId, screen, watch, lock, bus, bounds>>
           /\ odd \subseteq odd'
           /\ rows[r[1]].id # r[2] => rows' = rows
           /\ rows[r[1]].id = r[2] =>
                /\ rows'[r[1]] = NoRow /\ \A g \in Files \ {r[1]} : rows'[g] = rows[g]
                /\ r[1] \in disk => "returned" \in odd'
           /\ loc'[a].task = loc[a].task /\ loc'[a].entry = loc[a].entry
           /\ loc'[a].todo = loc[a].todo \ {r}
           /\ loc'[a].changed
<1> DEFINE l == [loc[a] EXCEPT !.todo = @ \ {r}, !.changed = TRUE]
<1>1. loc[a] \in Local
  BY RecordsType
<1>2. r[1] \in Files
  BY <1>1 DEF Local, RowRefs
<1>3. /\ l.task = loc[a].task /\ l.entry = loc[a].entry /\ l.todo = loc[a].todo \ {r}
      /\ l.changed
  BY <1>1 DEF Local
<1>4. Goto(a, "prune") /\ Set(a, l)
  BY DEF DeleteRow
<1> HIDE DEF l
<1>5. loc'[a] = l /\ pc'[a] = "prune" /\ Apart(a)
  BY <1>4, Moves DEF Apart
<1>6. /\ rows[r[1]].id # r[2] => rows' = rows
      /\ rows[r[1]].id = r[2] =>
           rows'[r[1]] = NoRow /\ \A g \in Files \ {r[1]} : rows'[g] = rows[g]
  BY <1>2 DEF DeleteRow, TypeOK
<1> QED BY <1>2, <1>3, <1>5, <1>6 DEF DeleteRow

LEMMA PruneDoneEffect ==
    ASSUME TypeOK, NEW a \in Actors, PruneDone(a)
    PROVE  /\ pc[a] = "prune" /\ loc[a].todo = {} /\ Apart(a)
           /\ UNCHANGED <<disk, library, screen, lock, bus, bounds, odd>>
           /\ \/ /\ pc'[a] = "rebuild" /\ UNCHANGED watch
                 /\ loc'[a].task = loc[a].task /\ loc'[a].entry = loc[a].entry
              \/ Return(a) /\ loc[a].task # "full" /\ ~loc[a].changed
<1>1. loc[a].changed \in BOOLEAN
  BY RecordsType DEF Local
<1> QED BY <1>1, AfterTasks DEF PruneDone

LEMMA RebuildEffect ==
    ASSUME TypeOK, NEW a \in Actors, RebuildFeeds(a)
    PROVE  /\ pc[a] = "rebuild" /\ pc'[a] = "reload" /\ Apart(a) /\ loc' = loc
           /\ feed' = Titled
           /\ UNCHANGED <<disk, library, ui, reloading, watch, lock, bus, bounds, odd>>
BY Moves DEF RebuildFeeds, Apart

LEMMA BroadcastEffect ==
    ASSUME TypeOK, NEW a \in Actors, BroadcastReload(a)
    PROVE  /\ pc[a] = "reload" /\ Apart(a) /\ reloading'
           /\ UNCHANGED <<disk, library, feed, ui, lock, bus, bounds, odd>>
           /\ \/ loc[a].task = "full" /\ pc'[a] = "unlock" /\ UNCHANGED <<loc, watch>>
              \/ loc[a].task # "full" /\ Return(a)
BY Moves, Returns DEF BroadcastReload, Apart

\* Steps of a goroutine that is not sweeping: it makes or takes away the lock,
\* or sends its event.
LEMMA MessageEffect ==
    ASSUME TypeOK, NEW a \in Actors, Unlock(a) \/ Send(a) \/ AwaitReply(a)
    PROVE  /\ pc[a] \in {"unlock", "send", "sent"} /\ pc'[a] \in {"send", "sent", "waiting"}
           /\ Apart(a) /\ loc' = loc /\ odd \subseteq odd'
           /\ UNCHANGED <<disk, library, screen, watch, bounds>>
BY Moves DEF Unlock, Send, AwaitReply, Apart

LEMMA FullSweepEffect ==
    ASSUME TypeOK, NEW s \in Sweepers, FullSweep(s) \/ CreateLock(s)
    PROVE  /\ Apart(s) /\ pc[s] \in {"idle", "lock"} /\ odd \subseteq odd'
           /\ \/ pc'[s] \in {pc[s], "lock"} /\ loc' = loc
              \/ pc'[s] = "walk" /\ loc'[s].task = "full"
           /\ UNCHANGED <<disk, library, screen, watch>>
<1>1. s \in Actors
  BY RecordsType
<1>2. CASE FullSweep(s)
  BY <1>1, <1>2, Moves DEF FullSweep, Apart
<1>3. CASE CreateLock(s)
  <2> DEFINE l == [NoLocal EXCEPT !.task = "full"]
  <2>1. l.task = "full"
    BY Values DEF NoLocal
  <2>2. Goto(s, "walk") /\ Set(s, l)
    BY <1>3 DEF CreateLock
  <2> HIDE DEF l
  <2> QED BY <1>1, <1>3, <2>1, <2>2, Moves DEF CreateLock, Apart
<1> QED BY <1>2, <1>3

LEMMA CallEffect ==
    ASSUME TypeOK, NEW w \in Watchers, NEW e \in Entries, NEW op \in Ops, Call(w, e, op)
    PROVE  /\ pc[w] = "idle" /\ Apart(w)
           /\ loc'[w].task = TaskOf(op, e) /\ loc'[w].entry = e
           /\ pc'[w] = IF TaskOf(op, e) = "prune" THEN "list" ELSE "walk"
           /\ odd \subseteq odd'
           /\ UNCHANGED <<disk, library, screen, lock, bus, bounds>>
<1> DEFINE l == [NoLocal EXCEPT !.task = TaskOf(op, e), !.entry = e]
<1>1. l.task = TaskOf(op, e) /\ l.entry = e
  BY Values DEF NoLocal, Local
<1>2. Set(w, l) /\ Goto(w, IF TaskOf(op, e) = "prune" THEN "list" ELSE "walk")
  BY DEF Call
<1> HIDE DEF l
<1>3. w \in Actors
  BY RecordsType
<1> QED BY <1>1, <1>2, <1>3, Moves DEF Call, Apart

LEMMA FiresEffect ==
    ASSUME TypeOK, NEW w \in Watchers, Fires(w)
    PROVE  \E e \in Entries, op \in Ops :
             /\ Call(w, e, op)
             /\ \/ /\ timers[e].armed /\ timers[e].op = op
                   /\ timers' = [timers EXCEPT ![e].armed = FALSE] /\ orphans' = orphans
                \/ <<e, op>> \in orphans /\ orphans' = orphans \ {<<e, op>>} /\ timers' = timers
<1>1. ASSUME NEW e \in Entries, TimerFires(w, e) PROVE timers[e].op \in Ops
  BY <1>1 DEF TimerFires, TypeOK, NoTimer
<1>2. ASSUME NEW o \in orphans
      PROVE  o[1] \in Entries /\ o[2] \in Ops /\ o = <<o[1], o[2]>>
  BY DEF TypeOK
<1> QED BY <1>1, <1>2 DEF Fires, TimerFires, OrphanFires

LEMMA ReplyEffect ==
    ASSUME TypeOK, Reply
    PROVE  /\ replying \in Actors /\ Apart(replying)
           /\ UNCHANGED <<disk, library, screen, lock, queue, bounds, odd>>
           /\ \/ UNCHANGED <<pc, loc, watch>>
              \/ /\ pc[replying] = "waiting" /\ loc[replying].early /\ loc[replying].task = "sweep"
                 /\ Return(replying)
              \/ /\ pc[replying] = "waiting" /\ loc[replying].early /\ loc[replying].task # "sweep"
                 /\ pc'[replying] = "list" /\ UNCHANGED watch
                 /\ loc'[replying].task = loc[replying].task
                 /\ loc'[replying].entry = loc[replying].entry
              \/ /\ pc[replying] = "waiting" /\ ~loc[replying].early
                 /\ pc'[replying] = "idle" /\ UNCHANGED watch
<1> DEFINE a == replying
           l == [loc[a] EXCEPT !.early = FALSE]
<1>1. a \in Actors
  BY DEF Reply, TypeOK
<1>2. loc[a] \in Local
  BY <1>1, RecordsType
<1>3. l.task = loc[a].task /\ l.entry = loc[a].entry
  BY <1>2 DEF Local
<1>4. CASE pc[a] = "waiting" /\ loc[a].early /\ loc[a].task = "sweep"
  BY <1>1, <1>4, Returns DEF Reply, Resume
<1>5. CASE pc[a] = "waiting" /\ loc[a].early /\ loc[a].task # "sweep"
  <2>1. Goto(a, "list") /\ Set(a, l) /\ UNCHANGED watch
    BY <1>5 DEF Reply, Resume
  <2> HIDE DEF l
  <2> QED BY <1>1, <1>3, <1>5, <2>1, Moves DEF Reply, Apart
<1>6. CASE pc[a] = "waiting" /\ ~loc[a].early
  <2>1. Goto(a, "idle") /\ Set(a, NoLocal) /\ UNCHANGED watch
    BY <1>6 DEF Reply, Resume
  <2> QED BY <1>1, <1>6, <2>1, Moves DEF Reply, Apart
<1>7. CASE pc[a] # "waiting"
  BY <1>1, <1>7 DEF Reply, Apart
<1> QED BY <1>4, <1>5, <1>6, <1>7

-----------------------------------------------------------------------------
(* What the browser shows *)

\* A goroutine that has changed which rows have titles, or rebuilds anyway, has
\* yet to rebuild the feed.
Owes(a) ==
    \/ pc[a] = "match" /\ loc[a].titled
    \/ pc[a] \in {"list", "prune", "delete"} /\ (loc[a].changed \/ loc[a].task = "full")
    \/ pc[a] = "rebuild"

FeedInv == "miscounted" \in odd \/ feed = Titled \/ \E a \in Actors : Owes(a)

UiInv == ui = feed \/ reloading \/ \E a \in Actors : pc[a] = "reload"

ShownInv == Inv /\ FeedInv /\ UiInv

LEMMA TitledSame ==
    ASSUME \A f \in Files : \/ rows'[f] = rows[f]
                             \/ /\ rows[f].id = 0 \/ ~rows[f].titled
                                /\ rows'[f].id = 0 \/ ~rows'[f].titled
    PROVE  Titled' = Titled
<1>1. \A f \in Files : (HasRow(f) /\ rows[f].titled)' <=> HasRow(f) /\ rows[f].titled
  BY DEF HasRow
<1>2. \A f \in Files : HasRow(f) /\ rows[f].titled => Ref(f)' = Ref(f)
  BY DEF HasRow, Ref
<1> QED BY <1>1, <1>2 DEF Titled

LEMMA TitledStays ==
    ASSUME rows' = rows
    PROVE  Titled' = Titled
BY DEF Titled, HasRow, Ref

\* A step of a that leaves the titled rows and the feed and that does not end
\* what a owes.
LEMMA FeedKept ==
    ASSUME FeedInv, NEW a \in Actors, Apart(a), odd \subseteq odd', feed' = feed,
           Titled' = Titled \/ Owes(a)',
           Owes(a) => Owes(a)' \/ "miscounted" \in odd'
    PROVE  FeedInv'
BY DEF FeedInv, Apart, Owes

LEMMA UiKept ==
    ASSUME UiInv, NEW a \in Actors, Apart(a), UNCHANGED <<ui, feed>>,
           reloading => reloading',
           pc[a] = "reload" => pc'[a] = "reload" \/ reloading'
    PROVE  UiInv'
BY DEF UiInv, Apart

LEMMA SweepShown ==
    ASSUME TypeOK, FeedInv, UiInv, NEW a \in Actors, Sweep(a)
    PROVE  FeedInv' /\ UiInv'
<1>1. CASE Walk(a) \/ ReadKnown(a) \/ ReadUnmatched(a)
  <2>1. /\ pc[a] \in {"walk", "known", "insert"} /\ Apart(a)
        /\ UNCHANGED <<rows, screen, odd>>
    BY <1>1, WalkEffect, ReadKnownEffect, ReadUnmatchedEffect DEF library
  <2>2. Titled' = Titled
    BY <2>1, TitledStays
  <2> QED BY <2>1, <2>2, FeedKept, UiKept DEF Owes, screen
<1>2. ASSUME NEW f \in Files, Insert(a, f) PROVE FeedInv' /\ UiInv'
  <2>1. \A g \in Files : \/ rows'[g] = rows[g]
                          \/ /\ rows[g].id = 0 \/ ~rows[g].titled
                             /\ rows'[g].id = 0 \/ ~rows'[g].titled
    BY <1>2, InsertEffect DEF HasRow
  <2>2. Titled' = Titled
    BY <2>1, TitledSame
  <2> QED BY <1>2, <2>2, InsertEffect, FeedKept, UiKept DEF Owes, screen
<1>3. ASSUME NEW r \in loc[a].todo, Match(a, r) PROVE FeedInv' /\ UiInv'
  <2>0. /\ pc[a] = "match" /\ pc' = pc /\ Apart(a) /\ r[1] \in Files
        /\ UNCHANGED <<screen, odd>>
        /\ \/ rows' = rows /\ loc'[a].titled = loc[a].titled
           \/ /\ rows'[r[1]] = [rows[r[1]] EXCEPT !.titled = TRUE]
              /\ \A g \in Files \ {r[1]} : rows'[g] = rows[g]
              /\ loc'[a].titled = (loc[a].titled \/ ~rows[r[1]].titled)
    BY <1>3, MatchEffect
  <2>1. Titled' = Titled \/ loc'[a].titled
    <3>1. CASE ~loc'[a].titled
      <4>1. \A g \in Files : rows'[g] = rows[g]
        <5>1. rows[r[1]] \in Row
          BY <2>0, RecordsType
        <5>2. rows[r[1]].titled => [rows[r[1]] EXCEPT !.titled = TRUE] = rows[r[1]]
          BY <5>1 DEF Row
        <5> QED BY <2>0, <3>1, <5>2
      <4> QED BY <4>1, TitledSame
    <3> QED BY <3>1
  <2>2. loc[a].titled => loc'[a].titled
    BY <2>0
  <2> QED BY <2>0, <2>1, <2>2, FeedKept, UiKept DEF Owes, screen
<1>4. CASE SweepDone(a)
  <2>0. Titled' = Titled
    BY <1>4, SweepDoneEffect, TitledStays DEF library
  <2>1. Owes(a) => Owes(a)' \/ "miscounted" \in odd'
    BY <1>4, SweepDoneEffect DEF Owes
  <2> QED BY <1>4, <2>0, <2>1, SweepDoneEffect, FeedKept, UiKept DEF screen
<1>5. CASE ListRows(a)
  <2>0. Titled' = Titled
    BY <1>5, ListRowsEffect, TitledStays DEF library
  <2> QED BY <1>5, <2>0, ListRowsEffect, FeedKept, UiKept DEF screen, Owes
<1>6. ASSUME NEW r \in loc[a].todo, Look(a, r) \/ DeleteRow(a, r) PROVE FeedInv' /\ UiInv'
  <2>1. CASE Look(a, r)
    <3>1. Titled' = Titled
      BY <2>1, LookEffect, TitledStays DEF library
    <3> QED BY <2>1, <3>1, LookEffect, FeedKept, UiKept DEF screen, Owes
  <2>2. CASE DeleteRow(a, r)
    BY <2>2, DeleteEffect, FeedKept, UiKept DEF screen, Owes
  <2> QED BY <1>6, <2>1, <2>2
<1>7. CASE PruneDone(a)
  <2>0. Titled' = Titled
    BY <1>7, PruneDoneEffect, TitledStays DEF library
  <2> QED BY <1>7, <2>0, PruneDoneEffect, FeedKept, UiKept DEF screen, Owes
<1>8. CASE RebuildFeeds(a)
  <2>0. Titled' = Titled
    BY <1>8, RebuildEffect, TitledStays DEF library
  <2> QED BY <1>8, <2>0, RebuildEffect DEF FeedInv, UiInv
<1>9. CASE BroadcastReload(a)
  <2>0. Titled' = Titled
    BY <1>9, BroadcastEffect, TitledStays DEF library
  <2> QED BY <1>9, <2>0, BroadcastEffect, FeedKept, UiKept DEF Owes
<1>10. CASE Unlock(a) \/ Send(a) \/ AwaitReply(a)
  <2>0. Titled' = Titled
    BY <1>10, MessageEffect, TitledStays DEF library
  <2> QED BY <1>10, <2>0, MessageEffect, FeedKept, UiKept DEF screen, Owes
<1> QED BY <1>1, <1>2, <1>3, <1>4, <1>5, <1>6, <1>7, <1>8, <1>9, <1>10 DEF Sweep

LEMMA ShownNext == ShownInv /\ [Next]_vars => FeedInv' /\ UiInv'
<1> SUFFICES ASSUME TypeOK, FeedInv, UiInv, [Next]_vars PROVE FeedInv' /\ UiInv'
  BY DEF ShownInv, Inv
<1>1. ASSUME NEW f \in Files, FileComes(f) \/ FileGoes(f) PROVE FeedInv' /\ UiInv'
  <2>1. /\ UNCHANGED <<rows, screen, pc, loc>> /\ odd \subseteq odd'
    BY <1>1 DEF FileComes, FileGoes, Event, library
  <2> QED BY <2>1, TitledStays DEF FeedInv, UiInv, Owes, screen
<1>2. ASSUME NEW w \in Watchers, Fires(w) PROVE FeedInv' /\ UiInv'
  <2>1. PICK e \in Entries, op \in Ops : Call(w, e, op)
    BY <1>2, FiresEffect
  <2>2. /\ pc[w] = "idle" /\ Apart(w) /\ odd \subseteq odd' /\ UNCHANGED <<rows, screen>>
    BY <2>1, CallEffect DEF library
  <2>3. w \in Actors /\ Titled' = Titled
    BY <2>2, RecordsType, TitledStays
  <2> QED BY <2>2, <2>3, FeedKept, UiKept DEF Owes, screen
<1>3. ASSUME NEW s \in Sweepers, FullSweep(s) \/ CreateLock(s) PROVE FeedInv' /\ UiInv'
  <2>1. /\ pc[s] \in {"idle", "lock"} /\ Apart(s) /\ odd \subseteq odd' /\ UNCHANGED <<rows, screen>>
    BY <1>3, FullSweepEffect DEF library
  <2>2. s \in Actors /\ Titled' = Titled
    BY <2>1, RecordsType, TitledStays
  <2> QED BY <2>1, <2>2, FeedKept, UiKept DEF Owes, screen
<1>4. ASSUME NEW a \in Actors, Sweep(a) PROVE FeedInv' /\ UiInv'
  BY <1>4, SweepShown
<1>5. CASE Reply
  <2>1. /\ replying \in Actors /\ Apart(replying) /\ UNCHANGED <<rows, screen, odd>>
        /\ pc[replying] = "waiting" \/ UNCHANGED <<pc, loc>>
    BY <1>5, ReplyEffect DEF library
  <2>2. Titled' = Titled
    BY <2>1, TitledStays
  <2>3. CASE pc[replying] = "waiting"
    BY <2>1, <2>2, <2>3, FeedKept, UiKept DEF Owes, screen
  <2>4. CASE UNCHANGED <<pc, loc>>
    BY <2>1, <2>2, <2>4 DEF FeedInv, UiInv, Owes, screen
  <2> QED BY <2>1, <2>3, <2>4
<1>6. CASE Receive
  BY <1>6, TitledStays DEF Receive, FeedInv, UiInv, Owes, screen, library
<1>7. CASE Reload
  BY <1>7, TitledStays DEF Reload, FeedInv, UiInv, Owes, library
<1>8. CASE UNCHANGED vars
  BY <1>8, TitledStays DEF vars, FeedInv, UiInv, Owes
<1> QED BY <1>1, <1>2, <1>3, <1>4, <1>5, <1>6, <1>7, <1>8 DEF Next, Listen

\* RebuildFeeds and reload keep up: once nothing is going on the browser shows the
\* titled rows, unless a sweep counted as many rows without a title as before.
THEOREM ShownCorrect == Spec => []ShownWhenCounted
<1>1. Init => FeedInv /\ UiInv
  BY DEF Init, FeedInv, UiInv
<1>2. Inv /\ FeedInv /\ UiInv => ShownWhenCounted
  BY DEF FeedInv, UiInv, Owes, ShownWhenCounted, Quiet, Hung
<1>3. Inv /\ FeedInv /\ UiInv /\ [Next]_vars => FeedInv' /\ UiInv'
  BY ShownNext DEF ShownInv
<1> QED BY <1>1, <1>2, <1>3, Invariant, PTL DEF Spec
-----------------------------------------------------------------------------
(* Which rows there are *)

Coming  == {"create", "rename", "write"}
Leaving == {"remove", "rename", "write"}

\* A timer of the entry will fire and handle one of the events.
Pending(e, ops) ==
    \/ timers[e].armed /\ timers[e].op \in ops
    \/ \E op \in ops : <<e, op>> \in orphans

\* The goroutine is still to insert a row for f, if it is there and has none.
FindsLater(a, f) ==
    \/ pc[a] = "walk" /\ (loc[a].task = "full" \/ loc[a].entry = EntryOf[f])
    \/ pc[a] \in {"known", "insert"} /\ f \in loc[a].found

\* The goroutine is still to look for the file of f's row.
PrunesLater(a, f) ==
    \/ /\ loc[a].task \in {"full", "resync", "prune"}
       /\ \/ pc[a] \in {"walk", "known", "insert", "match", "list"}
          \/ pc[a] \in {"unlock", "send", "sent", "waiting"} /\ loc[a].early
    \/ pc[a] \in {"prune", "delete"} /\ Ref(f) \in loc[a].todo

\* A callback that does not prune is to insert a row for f, which it found.
Strays(w, f) ==
    /\ w \in Watchers /\ loc[w].task = "sweep"
    /\ pc[w] \in {"known", "insert"} /\ f \in loc[w].found

\* What goroutines work on: sweepers on everything, watchers on their entry.
OwnWork(a) ==
    /\ a \in Sweepers /\ pc[a] \notin {"idle", "lock"} => loc[a].task = "full"
    /\ a \in Watchers /\ pc[a] \in {"known", "insert"} =>
         \A f \in loc[a].found : EntryOf[f] = loc[a].entry

Heard(f) == Pending(EntryOf[f], Coming) \/ \E a \in Actors : FindsLater(a, f)
Doomed(f) == Pending(EntryOf[f], Leaving) \/ \E a \in Actors : PrunesLater(a, f)

MissingInv == \A f \in disk : ~HasRow(f) => Heard(f)
GhostInv == \A f \in Files \ disk : HasRow(f) => Doomed(f)
StrayInv == \A f \in Files \ disk, w \in Watchers : Strays(w, f) => Pending(EntryOf[f], Leaving)

Plain == odd \cap {"staleOp", "overlapped", "returned"} = {}

TrackInv ==
    /\ \A a \in Actors : OwnWork(a)
    /\ Plain => MissingInv /\ GhostInv /\ StrayInv

-----------------------------------------------------------------------------
LEMMA PendingReturn ==
    ASSUME TypeOK, NEW a \in Actors, UNCHANGED watch \/ Return(a),
           NEW e \in Entries, NEW ops, Pending(e, ops)
    PROVE  Pending(e, ops)'
<1>1. CASE UNCHANGED watch
  BY <1>1 DEF watch, Pending
<1>2. CASE Return(a)
  <2>1. /\ timers' = [timers EXCEPT ![loc[a].entry] = NoTimer]
        /\ orphans' = IF timers[loc[a].entry].armed
                      THEN orphans \cup {<<loc[a].entry, timers[loc[a].entry].op>>} ELSE orphans
    BY <1>2, Returns
  <2>2. CASE e = loc[a].entry /\ timers[e].armed /\ timers[e].op \in ops
    BY <2>1, <2>2 DEF Pending
  <2>3. CASE e # loc[a].entry /\ timers[e].armed /\ timers[e].op \in ops
    <3>1. timers'[e] = timers[e]
      BY <2>1, <2>3 DEF TypeOK
    <3> QED BY <2>3, <3>1 DEF Pending
  <2>4. CASE \E op \in ops : <<e, op>> \in orphans
    BY <2>1, <2>4 DEF Pending
  <2> QED BY <2>2, <2>3, <2>4 DEF Pending
<1> QED BY <1>1, <1>2

LEMMA FilesType ==
    ASSUME TypeOK
    PROVE  /\ disk \subseteq Files
           /\ \A f \in Files : EntryOf[f] \in Entries
           /\ \A a \in Actors : loc[a].found \subseteq Files /\ loc[a].entry \in Entries
                                /\ loc[a].task \in Tasks
BY LibraryAssumption, RecordsType DEF TypeOK, Local

\* What a step of a keeps to.
Tracks(a) ==
    /\ OwnWork(a)'
    /\ \A f \in disk : ~HasRow(f)' =>
         ~HasRow(f) /\ (FindsLater(a, f) => FindsLater(a, f)')
    /\ \A f \in Files \ disk : HasRow(f)' =>
         \/ HasRow(f) /\ Ref(f)' = Ref(f) /\ (PrunesLater(a, f) => PrunesLater(a, f)')
         \/ PrunesLater(a, f)'
         \/ Strays(a, f)
    /\ \A f \in Files \ disk : Strays(a, f)' => Strays(a, f)

LEMMA TracksKept ==
    ASSUME TypeOK, TrackInv, NEW a \in Actors, Apart(a), disk' = disk, odd \subseteq odd',
           UNCHANGED watch \/ Return(a), Tracks(a)
    PROVE  TrackInv'
<1>1. ASSUME NEW b \in Actors PROVE OwnWork(b)'
  <2>1. CASE b = a
    BY <2>1 DEF Tracks
  <2>2. CASE b # a
    BY <2>2 DEF TrackInv, OwnWork, Apart
  <2> QED BY <2>1, <2>2
<1> SUFFICES ASSUME Plain' PROVE MissingInv' /\ GhostInv' /\ StrayInv'
  BY <1>1 DEF TrackInv
<1>2. MissingInv /\ GhostInv /\ StrayInv
  BY DEF TrackInv, Plain
<1>3. ASSUME NEW e \in Entries, NEW ops, Pending(e, ops) PROVE Pending(e, ops)'
  BY <1>3, PendingReturn
<1>4. ASSUME NEW f \in disk, ~HasRow(f)' PROVE Heard(f)'
  <2>1. ~HasRow(f) /\ (FindsLater(a, f) => FindsLater(a, f)')
    BY <1>4 DEF Tracks
  <2>2. CASE Pending(EntryOf[f], Coming)
    <3>1. EntryOf[f] \in Entries
      BY FilesType
    <3> QED BY <1>3, <2>2, <3>1 DEF Heard
  <2>3. CASE \E b \in Actors : FindsLater(b, f)
    <3>1. PICK b \in Actors : FindsLater(b, f)
      BY <2>3
    <3>2. b # a => FindsLater(b, f)'
      BY <3>1 DEF Apart, FindsLater
    <3> QED BY <2>1, <3>1, <3>2 DEF Heard
  <2> QED BY <1>2, <2>1, <2>2, <2>3 DEF MissingInv, Heard
<1>5. ASSUME NEW f \in Files \ disk, HasRow(f)' PROVE Doomed(f)'
  <2>0. EntryOf[f] \in Entries
    BY FilesType
  <2>1. CASE PrunesLater(a, f)'
    BY <2>1 DEF Doomed
  <2>2. CASE Strays(a, f)
    <3>1. Pending(EntryOf[f], Leaving)
      BY <1>2, <2>2 DEF StrayInv, Strays
    <3> QED BY <1>3, <2>0, <3>1 DEF Doomed
  <2>3. CASE HasRow(f) /\ Ref(f)' = Ref(f) /\ (PrunesLater(a, f) => PrunesLater(a, f)')
    <3>1. CASE Pending(EntryOf[f], Leaving)
      BY <1>3, <2>0, <3>1 DEF Doomed
    <3>2. CASE \E b \in Actors : PrunesLater(b, f)
      <4>1. PICK b \in Actors : PrunesLater(b, f)
        BY <3>2
      <4>2. b # a => PrunesLater(b, f)'
        BY <2>3, <4>1 DEF Apart, PrunesLater
      <4> QED BY <2>3, <4>1, <4>2 DEF Doomed
    <3> QED BY <1>2, <2>3, <3>1, <3>2 DEF GhostInv, Doomed
  <2> QED BY <1>5, <2>1, <2>2, <2>3 DEF Tracks
<1>6. ASSUME NEW f \in Files \ disk, NEW w \in Watchers, Strays(w, f)'
      PROVE  Pending(EntryOf[f], Leaving)'
  <2>1. Strays(w, f)
    <3>1. CASE w = a
      BY <1>6, <3>1 DEF Tracks
    <3>2. CASE w # a
      BY <1>6, <3>2, RecordsType DEF Apart, Strays
    <3> QED BY <3>1, <3>2
  <2> QED BY <1>2, <1>3, <2>1, FilesType DEF StrayInv
<1> QED BY <1>4, <1>5, <1>6 DEF MissingInv, GhostInv, StrayInv

LEMMA RowsAlone ==
    ASSUME UNCHANGED rows
    PROVE  \A f \in Files : (HasRow(f)' <=> HasRow(f)) /\ Ref(f)' = Ref(f)
BY DEF HasRow, Ref

LEMMA WalkTracked ==
    ASSUME Inv, TrackInv, NEW a \in Actors, Walk(a)
    PROVE  TrackInv'
<1> DEFINE found == IF loc[a].task = "full" THEN disk ELSE FilesIn(loc[a].entry)
<1>0. TypeOK /\ Errands /\ OwnWork(a) /\ disk \subseteq Files
  BY FilesType DEF Inv, TrackInv
<1>1. /\ pc[a] = "walk" /\ Apart(a)
      /\ UNCHANGED <<disk, library, screen, watch, lock, bus, bounds, odd>>
      /\ pc'[a] = IF found = {} THEN "unlock" ELSE "known"
      /\ loc'[a].task = loc[a].task /\ loc'[a].entry = loc[a].entry
      /\ found = {} => loc'[a].early
      /\ found # {} => loc'[a].found = found
  BY <1>0, WalkEffect
<1>2. /\ \A f \in found : f \in disk
      /\ loc[a].task # "full" => \A f \in found : EntryOf[f] = loc[a].entry
      /\ \A f \in disk : loc[a].task = "full" \/ loc[a].entry = EntryOf[f] => f \in found
  BY DEF FilesIn
<1> HIDE DEF found
<1>3. a \in Watchers => loc[a].task # "full"
  BY <1>0, <1>1 DEF Errands
<1>4. OwnWork(a)'
  BY <1>0, <1>1, <1>2, <1>3 DEF OwnWork
<1>5. \A f \in Files : (HasRow(f)' <=> HasRow(f)) /\ Ref(f)' = Ref(f)
  BY <1>1, RowsAlone DEF library
<1>6. Tracks(a)
  <2>1. \A f \in disk : FindsLater(a, f) => FindsLater(a, f)'
    BY <1>1, <1>2 DEF FindsLater
  <2>2. \A f \in Files : PrunesLater(a, f) => PrunesLater(a, f)'
    BY <1>1 DEF PrunesLater
  <2>3. \A f \in Files \ disk : ~Strays(a, f)'
    BY <1>1, <1>2 DEF Strays
  <2> QED BY <1>0, <1>4, <1>5, <2>1, <2>2, <2>3 DEF Tracks
<1> QED BY <1>0, <1>1, <1>6, TracksKept

LEMMA InsertTracked ==
    ASSUME Inv, TrackInv, NEW a \in Actors, NEW g \in Files, Insert(a, g)
    PROVE  TrackInv'
<1>0. TypeOK /\ Errands /\ OwnWork(a) /\ disk \subseteq Files
  BY FilesType DEF Inv, TrackInv
<1>1. /\ pc[a] = "insert" /\ g \in loc[a].found /\ pc' = pc /\ Apart(a)
      /\ UNCHANGED <<disk, watch, odd>>
      /\ HasRow(g) => rows' = rows
      /\ ~HasRow(g) => /\ rows'[g] = [id |-> lastId + 1, titled |-> FALSE]
                       /\ \A f \in Files \ {g} : rows'[f] = rows[f]
      /\ loc'[a].task = loc[a].task /\ loc'[a].entry = loc[a].entry
      /\ loc'[a].found = loc[a].found \ {g}
      /\ loc'[a].todo = loc[a].todo
  BY <1>0, InsertEffect
<1>2. HasRow(g)'
  <2>1. CASE HasRow(g)
    BY <1>1, <2>1 DEF HasRow
  <2>2. CASE ~HasRow(g)
    <3>1. rows'[g].id = lastId + 1 /\ lastId \in Nat
      BY <1>0, <1>1, <2>2 DEF TypeOK
    <3> QED BY <3>1 DEF HasRow
  <2> QED BY <2>1, <2>2
<1>3. \A f \in Files \ {g} : (HasRow(f)' <=> HasRow(f)) /\ Ref(f)' = Ref(f)
  BY <1>1 DEF HasRow, Ref
<1>4. OwnWork(a)'
  BY <1>0, <1>1 DEF OwnWork
<1>5. \A f \in disk : ~HasRow(f)' => ~HasRow(f) /\ (FindsLater(a, f) => FindsLater(a, f)')
  BY <1>0, <1>1, <1>2, <1>3 DEF FindsLater
<1>6. ASSUME NEW f \in Files \ disk, HasRow(f)'
      PROVE  \/ HasRow(f) /\ Ref(f)' = Ref(f) /\ (PrunesLater(a, f) => PrunesLater(a, f)')
             \/ PrunesLater(a, f)'
             \/ Strays(a, f)
  <2>1. CASE f # g
    BY <1>1, <1>3, <1>6, <2>1 DEF PrunesLater
  <2>2. CASE f = g
    <3>1. CASE loc[a].task \in {"full", "resync", "prune"}
      BY <1>1, <3>1 DEF PrunesLater
    <3>2. CASE loc[a].task = "sweep"
      <4>1. a \notin Sweepers
        BY <1>0, <1>1, <3>2 DEF OwnWork
      <4> QED BY <1>1, <2>2, <3>2, <4>1 DEF Strays, Actors
    <3> QED BY <1>0, <3>1, <3>2, FilesType DEF Tasks
  <2> QED BY <2>1, <2>2
<1>7. \A f \in Files \ disk : Strays(a, f)' => Strays(a, f)
  BY <1>1 DEF Strays
<1>8. Tracks(a)
  BY <1>4, <1>5, <1>6, <1>7 DEF Tracks
<1> QED BY <1>0, <1>1, <1>8, TracksKept

LEMMA LookTracked ==
    ASSUME Inv, TrackInv, NEW a \in Actors, NEW r \in loc[a].todo, Look(a, r)
    PROVE  TrackInv'
<1>0. TypeOK /\ OwnWork(a) /\ disk \subseteq Files
  BY FilesType DEF Inv, TrackInv
<1>1. /\ pc[a] = "prune" /\ pc'[a] \in {"prune", "delete"} /\ Apart(a)
      /\ UNCHANGED <<disk, library, watch, odd>>
      /\ loc'[a].task = loc[a].task
      /\ \/ r[1] \in disk /\ loc'[a].todo = loc[a].todo \ {r}
         \/ loc'[a].todo = loc[a].todo
  BY <1>0, LookEffect
<1>2. \A f \in Files : /\ (HasRow(f)' <=> HasRow(f)) /\ Ref(f)' = Ref(f)
                       /\ f \in disk \/ r[1] \notin disk \/ Ref(f) # r
  BY <1>1, RowsAlone DEF library, Ref
<1>3. Tracks(a)
  BY <1>0, <1>1, <1>2 DEF Tracks, FindsLater, PrunesLater, Strays, OwnWork
<1> QED BY <1>0, <1>1, <1>3, TracksKept

\* Its file may have come back since.
LEMMA DeleteTracked ==
    ASSUME Inv, TrackInv, NEW a \in Actors, NEW r \in loc[a].todo, DeleteRow(a, r)
    PROVE  TrackInv'
<1>0. TypeOK /\ OwnWork(a) /\ disk \subseteq Files
  BY FilesType DEF Inv, TrackInv
<1>1. /\ pc[a] = "delete" /\ pc'[a] = "prune" /\ Apart(a) /\ r[1] \in Files
      /\ UNCHANGED <<disk, watch>> /\ odd \subseteq odd'
      /\ rows[r[1]].id # r[2] => rows' = rows
      /\ rows[r[1]].id = r[2] =>
           /\ rows'[r[1]] = NoRow /\ \A g \in Files \ {r[1]} : rows'[g] = rows[g]
           /\ r[1] \in disk => "returned" \in odd'
      /\ loc'[a].task = loc[a].task /\ loc'[a].entry = loc[a].entry
      /\ loc'[a].todo = loc[a].todo \ {r}
  BY <1>0, DeleteEffect
<1>2. OwnWork(a)'
  BY <1>0, <1>1 DEF OwnWork
<1>3. CASE "returned" \in odd'
  <2>1. \A b \in Actors : OwnWork(b)'
    BY <1>1, <1>2 DEF TrackInv, OwnWork, Apart
  <2> QED BY <1>3, <2>1 DEF TrackInv, Plain
<1>4. CASE "returned" \notin odd'
  <2>1. ASSUME NEW f \in Files
        PROVE  \/ (HasRow(f)' <=> HasRow(f)) /\ Ref(f)' = Ref(f) /\ (f \in disk \/ Ref(f) # r)
               \/ f \notin disk /\ ~HasRow(f)'
    <3>1. CASE rows[r[1]].id # r[2]
      BY <1>1, <3>1 DEF HasRow, Ref
    <3>2. CASE rows[r[1]].id = r[2]
      <4>1. CASE f = r[1]
        BY <1>1, <1>4, <3>2, <4>1 DEF HasRow, NoRow
      <4>2. CASE f # r[1]
        BY <1>1, <3>2, <4>2 DEF HasRow, Ref
      <4> QED BY <4>1, <4>2
    <3> QED BY <3>1, <3>2
  <2>2. Tracks(a)
    BY <1>0, <1>1, <1>2, <2>1 DEF Tracks, FindsLater, PrunesLater, Strays
  <2> QED BY <1>0, <1>1, <2>2, TracksKept
<1> QED BY <1>3, <1>4

LEMMA SweepTracked ==
    ASSUME Inv, TrackInv, NEW a \in Actors, Sweep(a)
    PROVE  TrackInv'
<1>0. TypeOK /\ OwnWork(a) /\ disk \subseteq Files
  BY FilesType DEF Inv, TrackInv
<1>1. CASE ReadKnown(a)
  <2>1. \A f \in Files : (HasRow(f)' <=> HasRow(f)) /\ Ref(f)' = Ref(f)
    BY <1>0, <1>1, ReadKnownEffect, RowsAlone DEF library
  <2>2. Tracks(a)
    BY <1>0, <1>1, <2>1, ReadKnownEffect DEF Tracks, FindsLater, PrunesLater, Strays, OwnWork
  <2> QED BY <1>0, <1>1, <2>2, ReadKnownEffect, TracksKept
<1>2. CASE ReadUnmatched(a)
  <2>1. \A f \in Files : (HasRow(f)' <=> HasRow(f)) /\ Ref(f)' = Ref(f)
    BY <1>0, <1>2, ReadUnmatchedEffect, RowsAlone DEF library
  <2>2. Tracks(a)
    BY <1>0, <1>2, <2>1, ReadUnmatchedEffect DEF Tracks, FindsLater, PrunesLater, Strays, OwnWork
  <2> QED BY <1>0, <1>2, <2>2, ReadUnmatchedEffect, TracksKept
<1>3. ASSUME NEW r \in loc[a].todo, Match(a, r) PROVE TrackInv'
  <2>0. /\ pc[a] = "match" /\ pc' = pc /\ Apart(a) /\ r[1] \in Files
        /\ UNCHANGED <<disk, watch, odd>>
        /\ \/ rows' = rows
           \/ /\ rows'[r[1]] = [rows[r[1]] EXCEPT !.titled = TRUE]
              /\ \A g \in Files \ {r[1]} : rows'[g] = rows[g]
        /\ loc'[a].task = loc[a].task /\ loc'[a].entry = loc[a].entry
    BY <1>0, <1>3, MatchEffect
  <2>1. \A f \in Files : rows'[f].id = rows[f].id
    <3>1. rows[r[1]] \in Row
      BY <1>0, <2>0, RecordsType
    <3>2. [rows[r[1]] EXCEPT !.titled = TRUE].id = rows[r[1]].id
      BY <3>1 DEF Row
    <3> QED BY <2>0, <3>2
  <2>2. \A f \in Files : (HasRow(f)' <=> HasRow(f)) /\ Ref(f)' = Ref(f)
    BY <2>1 DEF HasRow, Ref
  <2>3. Tracks(a)
    BY <1>0, <2>0, <2>2 DEF Tracks, FindsLater, PrunesLater, Strays, OwnWork
  <2> QED BY <1>0, <2>0, <2>3, TracksKept
<1>4. CASE SweepDone(a)
  <2>0. /\ pc[a] = "match" /\ Apart(a) /\ UNCHANGED <<disk, library>> /\ odd \subseteq odd'
        /\ UNCHANGED watch \/ Return(a)
        /\ pc'[a] \in {"rebuild", "list", "idle"}
        /\ loc[a].task # "sweep" => pc'[a] = "list" /\ loc'[a].task = loc[a].task
        /\ pc'[a] # "idle" => loc'[a].task = loc[a].task
    BY <1>0, <1>4, SweepDoneEffect, Returns
  <2>1. \A f \in Files : (HasRow(f)' <=> HasRow(f)) /\ Ref(f)' = Ref(f)
    BY <2>0, RowsAlone DEF library
  <2>2. Tracks(a)
    BY <1>0, <2>0, <2>1 DEF Tracks, FindsLater, PrunesLater, Strays, OwnWork
  <2> QED BY <1>0, <2>0, <2>2, TracksKept
<1>5. CASE ListRows(a)
  <2>1. \A f \in Files : (HasRow(f)' <=> HasRow(f)) /\ Ref(f)' = Ref(f)
    BY <1>0, <1>5, ListRowsEffect, RowsAlone DEF library
  <2>2. \A f \in Files : HasRow(f) => Ref(f) \in Rows
    BY DEF Rows
  <2>3. Tracks(a)
    BY <1>0, <1>5, <2>1, <2>2, ListRowsEffect DEF Tracks, FindsLater, PrunesLater, Strays, OwnWork
  <2> QED BY <1>0, <1>5, <2>3, ListRowsEffect, TracksKept
<1>6. CASE PruneDone(a)
  <2>0. /\ pc[a] = "prune" /\ loc[a].todo = {} /\ Apart(a) /\ UNCHANGED <<disk, library, odd>>
        /\ UNCHANGED watch \/ Return(a)
        /\ pc'[a] \in {"rebuild", "idle"}
        /\ pc'[a] # "idle" => loc'[a].task = loc[a].task
    BY <1>0, <1>6, PruneDoneEffect, Returns
  <2>1. \A f \in Files : (HasRow(f)' <=> HasRow(f)) /\ Ref(f)' = Ref(f)
    BY <2>0, RowsAlone DEF library
  <2>2. Tracks(a)
    BY <1>0, <2>0, <2>1 DEF Tracks, FindsLater, PrunesLater, Strays, OwnWork
  <2> QED BY <1>0, <2>0, <2>2, TracksKept
<1>7. CASE RebuildFeeds(a) \/ BroadcastReload(a)
  <2>0. /\ pc[a] \in {"rebuild", "reload"} /\ Apart(a) /\ UNCHANGED <<disk, library, odd>>
        /\ UNCHANGED watch \/ Return(a)
        /\ pc'[a] \in {"reload", "unlock", "idle"}
        /\ pc'[a] # "idle" => loc'[a].task = loc[a].task
    BY <1>0, <1>7, RebuildEffect, BroadcastEffect, Returns
  <2>1. \A f \in Files : (HasRow(f)' <=> HasRow(f)) /\ Ref(f)' = Ref(f)
    BY <2>0, RowsAlone DEF library
  <2>2. Tracks(a)
    BY <1>0, <2>0, <2>1 DEF Tracks, FindsLater, PrunesLater, Strays, OwnWork
  <2> QED BY <1>0, <2>0, <2>2, TracksKept
<1>8. CASE Unlock(a) \/ Send(a) \/ AwaitReply(a)
  <2>1. \A f \in Files : (HasRow(f)' <=> HasRow(f)) /\ Ref(f)' = Ref(f)
    BY <1>0, <1>8, MessageEffect, RowsAlone DEF library
  <2>2. Tracks(a)
    BY <1>0, <1>8, <2>1, MessageEffect DEF Tracks, FindsLater, PrunesLater, Strays, OwnWork
  <2> QED BY <1>0, <1>8, <2>2, MessageEffect, TracksKept
<1> QED BY <1>1, <1>2, <1>3, <1>4, <1>5, <1>6, <1>7, <1>8, WalkTracked, InsertTracked,
       LookTracked, DeleteTracked
    DEF Sweep

\* The files come and go: unless the timer kept another event, it will fire for
\* this one.
LEMMA FileTracked ==
    ASSUME Inv, TrackInv, NEW f \in Files, FileComes(f) \/ FileGoes(f)
    PROVE  TrackInv'
<1>0. TypeOK /\ disk \subseteq Files /\ \A g \in Files : EntryOf[g] \in Entries
  BY FilesType DEF Inv
<1>1. /\ UNCHANGED <<rows, orphans, pc, loc>>
      /\ \E op \in Ops : /\ Event(EntryOf[f], op)
                         /\ FileComes(f) => op \in Coming
                         /\ FileGoes(f) => op \in Leaving
      /\ disk' \in {disk \cup {f}, disk \ {f}}
      /\ FileComes(f) => disk' = disk \cup {f}
      /\ FileGoes(f) => disk' = disk \ {f}
  <2>1. CASE FileComes(f)
    <3>1. ~FileGoes(f)
      BY <2>1 DEF FileComes, FileGoes
    <3> QED BY <2>1, <3>1 DEF FileComes, library, Ops, Coming
  <2>2. CASE FileGoes(f)
    <3>1. ~FileComes(f)
      BY <2>2 DEF FileComes, FileGoes
    <3> QED BY <2>2, <3>1 DEF FileGoes, library, Ops, Leaving
  <2> QED BY <2>1, <2>2
<1>2. PICK op \in Ops : /\ Event(EntryOf[f], op)
                        /\ FileComes(f) => op \in Coming
                        /\ FileGoes(f) => op \in Leaving
  BY <1>1
<1>3. \A a \in Actors : OwnWork(a)'
  BY <1>1 DEF TrackInv, OwnWork
<1> SUFFICES ASSUME Plain' PROVE MissingInv' /\ GhostInv' /\ StrayInv'
  BY <1>3 DEF TrackInv
<1> DEFINE e == EntryOf[f]
           kept == IF timers[e].op = "none" THEN op ELSE timers[e].op
<1>4. /\ timers' = [timers EXCEPT ![e] = [op |-> kept, armed |-> TRUE]]
      /\ timers[e].op \in {"none", op} /\ odd' = odd
  BY <1>2 DEF Event, Plain
<1>5. MissingInv /\ GhostInv /\ StrayInv
  BY <1>4 DEF TrackInv, Plain
<1>6. /\ timers'[e].armed /\ timers'[e].op = op
      /\ timers[e].op # "none" => timers'[e].op = timers[e].op
      /\ \A d \in Entries \ {e} : timers'[d] = timers[d]
  <2>1. kept = op
    BY <1>4
  <2> QED BY <1>0, <1>4, <2>1 DEF TypeOK
<1> HIDE DEF kept, e
<1>7. \A d \in Entries : /\ Pending(d, Coming) => Pending(d, Coming)'
                         /\ Pending(d, Leaving) => Pending(d, Leaving)'
  BY <1>1, <1>6 DEF Pending, Coming, Leaving
<1>8. /\ FileComes(f) => Pending(EntryOf[f], Coming)'
      /\ FileGoes(f) => Pending(EntryOf[f], Leaving)'
  BY <1>2, <1>6 DEF Pending, e
<1>9. ASSUME NEW g \in disk', ~HasRow(g)' PROVE Heard(g)'
  <2>1. ~HasRow(g)
    BY <1>1, <1>9 DEF HasRow
  <2>2. CASE g \in disk
    <3>1. Heard(g)
      BY <1>5, <2>1, <2>2 DEF MissingInv
    <3>2. g \in Files
      BY <1>0, <2>2
    <3> QED BY <1>0, <1>1, <1>7, <3>1, <3>2 DEF Heard, FindsLater
  <2>3. CASE g \notin disk
    <3>1. g = f /\ FileComes(f)
      BY <1>1, <1>9, <2>3
    <3> QED BY <1>8, <3>1 DEF Heard
  <2> QED BY <2>2, <2>3
<1>10. ASSUME NEW g \in Files \ disk'
       PROVE  g \notin disk \/ (g = f /\ FileGoes(f))
  BY <1>1, <1>10
<1>11. ASSUME NEW g \in Files \ disk', HasRow(g)' PROVE Doomed(g)'
  <2>1. HasRow(g) /\ Ref(g)' = Ref(g)
    BY <1>1, <1>11 DEF HasRow, Ref
  <2>2. CASE g \notin disk
    <3>1. Doomed(g)
      BY <1>5, <2>1, <2>2 DEF GhostInv
    <3> QED BY <1>0, <1>1, <1>7, <2>1, <3>1 DEF Doomed, PrunesLater
  <2>3. CASE g = f /\ FileGoes(f)
    BY <1>8, <2>3 DEF Doomed
  <2> QED BY <1>10, <2>2, <2>3
<1>12. ASSUME NEW g \in Files \ disk', NEW w \in Watchers, Strays(w, g)'
       PROVE  Pending(EntryOf[g], Leaving)'
  <2>1. Strays(w, g)
    BY <1>1, <1>12 DEF Strays
  <2>2. CASE g \notin disk
    BY <1>0, <1>5, <1>7, <2>1, <2>2 DEF StrayInv
  <2>3. CASE g = f /\ FileGoes(f)
    BY <1>8, <2>3
  <2> QED BY <1>10, <2>2, <2>3
<1> QED BY <1>9, <1>11, <1>12 DEF MissingInv, GhostInv, StrayInv

\* A timer fires: the callback does what the event asks for.
LEMMA FireTracked ==
    ASSUME Inv, TrackInv, NEW w \in Watchers, Fires(w)
    PROVE  TrackInv'
<1>0. /\ TypeOK /\ disk \subseteq Files /\ \A g \in Files : EntryOf[g] \in Entries
      /\ w \in Actors /\ w \notin Sweepers
  BY FilesType, RecordsType DEF Inv
<1>1. PICK e \in Entries, op \in Ops :
        /\ Call(w, e, op)
        /\ \/ /\ timers[e].armed /\ timers[e].op = op
              /\ timers' = [timers EXCEPT ![e].armed = FALSE] /\ orphans' = orphans
           \/ <<e, op>> \in orphans /\ orphans' = orphans \ {<<e, op>>} /\ timers' = timers
  BY <1>0, FiresEffect
<1>2. /\ pc[w] = "idle" /\ Apart(w)
      /\ loc'[w].task = TaskOf(op, e) /\ loc'[w].entry = e
      /\ pc'[w] = IF TaskOf(op, e) = "prune" THEN "list" ELSE "walk"
      /\ odd \subseteq odd' /\ disk' = disk /\ rows' = rows
  BY <1>0, <1>1, CallEffect DEF library
<1>3. \A d \in Entries : \A o \in Ops : (d # e \/ o # op) /\ Pending(d, {o}) => Pending(d, {o})'
  <2>1. timers'[e].armed => timers'[e] = timers[e]
    <3> DEFINE fired == [timers[e] EXCEPT !.armed = FALSE]
    <3>1. timers[e] \in [op: Ops, armed: BOOLEAN] \cup {NoTimer}
      BY <1>0 DEF TypeOK
    <3>2. ~fired.armed
      BY <3>1 DEF NoTimer
    <3>3. timers' = timers \/ timers'[e] = fired
      BY <1>0, <1>1 DEF TypeOK
    <3> HIDE DEF fired
    <3> QED BY <3>2, <3>3
  <2>2. \A d \in Entries \ {e} : timers'[d] = timers[d]
    BY <1>0, <1>1 DEF TypeOK
  <2>3. \A d \in Entries, o \in Ops : d # e \/ o # op =>
          (<<d, o>> \in orphans => <<d, o>> \in orphans')
    BY <1>1
  <2>4. \A d \in Entries, o \in Ops : (d # e \/ o # op) /\ timers[d].armed /\ timers[d].op = o
                                       => Pending(d, {o})'
    <3> SUFFICES ASSUME NEW d \in Entries, NEW o \in Ops, d # e \/ o # op,
                        timers[d].armed, timers[d].op = o
                 PROVE  Pending(d, {o})'
      OBVIOUS
    <3>1. timers'[d] = timers[d]
      <4>1. CASE d # e
        BY <2>2, <4>1
      <4>2. CASE d = e
        BY <1>1, <4>2
      <4> QED BY <4>1, <4>2
    <3> QED BY <3>1 DEF Pending
  <2> QED BY <2>3, <2>4 DEF Pending
<1>4. \A d \in Entries : \A ops \in SUBSET Ops : Pending(d, ops) /\ (d # e \/ op \notin ops) => Pending(d, ops)'
  <2> SUFFICES ASSUME NEW d \in Entries, NEW ops \in SUBSET Ops, Pending(d, ops), d # e \/ op \notin ops
               PROVE  Pending(d, ops)'
    OBVIOUS
  <2>1. PICK o \in ops : Pending(d, {o})
    BY DEF Pending
  <2>2. Pending(d, {o})'
    BY <1>3, <2>1
  <2> QED BY <2>2 DEF Pending
<1>5. Coming \in SUBSET Ops /\ Leaving \in SUBSET Ops
  BY DEF Coming, Leaving, Ops
<1>6. \A a \in Actors : OwnWork(a)'
  BY <1>0, <1>2 DEF TrackInv, OwnWork, Apart
<1> SUFFICES ASSUME Plain' PROVE MissingInv' /\ GhostInv' /\ StrayInv'
  BY <1>6 DEF TrackInv
<1>7. MissingInv /\ GhostInv /\ StrayInv /\ \A v \in Watchers : ~Busy(v, e)
  <2>1. Plain
    BY <1>2 DEF Plain
  <2>2. "overlapped" \notin odd'
    BY DEF Plain
  <2> QED BY <1>1, <2>1, <2>2 DEF TrackInv, Call
<1>8. \A f \in Files : (HasRow(f)' <=> HasRow(f)) /\ Ref(f)' = Ref(f)
  BY <1>2, RowsAlone
<1>9. ASSUME NEW f \in disk, ~HasRow(f)' PROVE Heard(f)'
  <2>1. Heard(f) /\ f \in Files
    BY <1>0, <1>7, <1>8, <1>9 DEF MissingInv
  <2>2. CASE EntryOf[f] = e /\ op \in Coming
    <3>1. FilesIn(e) # {}
      BY <2>2 DEF FilesIn
    <3>2. TaskOf(op, e) # "prune"
      BY <2>2, <3>1 DEF TaskOf, Coming
    <3>3. FindsLater(w, f)'
      BY <1>2, <2>2, <3>2 DEF FindsLater
    <3> QED BY <1>0, <3>3 DEF Heard
  <2>3. CASE ~(EntryOf[f] = e /\ op \in Coming)
    <3>1. Pending(EntryOf[f], Coming) => Pending(EntryOf[f], Coming)'
      BY <1>0, <1>4, <1>5, <2>1, <2>3
    <3>2. \A a \in Actors : FindsLater(a, f) => FindsLater(a, f)'
      BY <1>2 DEF FindsLater, Apart
    <3> QED BY <2>1, <3>1, <3>2 DEF Heard
  <2> QED BY <2>2, <2>3
<1>10. ASSUME NEW f \in Files \ disk, HasRow(f)' PROVE Doomed(f)'
  <2>1. Doomed(f)
    BY <1>7, <1>8, <1>10 DEF GhostInv
  <2>2. CASE EntryOf[f] = e /\ op \in Leaving
    <3>1. TaskOf(op, e) \in {"prune", "resync"}
      BY <2>2 DEF TaskOf, Leaving
    <3>2. PrunesLater(w, f)'
      BY <1>2, <3>1 DEF PrunesLater
    <3> QED BY <1>0, <3>2 DEF Doomed
  <2>3. CASE ~(EntryOf[f] = e /\ op \in Leaving)
    <3>1. Pending(EntryOf[f], Leaving) => Pending(EntryOf[f], Leaving)'
      BY <1>0, <1>4, <1>5, <2>3
    <3>2. \A a \in Actors : PrunesLater(a, f) => PrunesLater(a, f)'
      BY <1>2, <1>8 DEF PrunesLater, Apart
    <3> QED BY <2>1, <3>1, <3>2 DEF Doomed
  <2> QED BY <2>2, <2>3
<1>11. ASSUME NEW f \in Files \ disk, NEW v \in Watchers, Strays(v, f)'
       PROVE  Pending(EntryOf[f], Leaving)'
  <2>1. v # w
    BY <1>2, <1>11 DEF Strays
  <2>2. v \in Actors /\ Strays(v, f)
    BY <1>2, <1>11, <2>1, RecordsType, <1>0 DEF Strays, Apart
  <2>3. EntryOf[f] = loc[v].entry /\ pc[v] # "idle"
    BY <2>2 DEF TrackInv, OwnWork, Strays
  <2>4. EntryOf[f] # e
    BY <1>7, <2>3 DEF Busy
  <2>5. Pending(EntryOf[f], Leaving)
    BY <1>7, <2>2 DEF StrayInv
  <2> QED BY <1>0, <1>4, <1>5, <2>4, <2>5
<1> QED BY <1>2, <1>9, <1>10, <1>11 DEF MissingInv, GhostInv, StrayInv

LEMMA TrackNext == Inv /\ TrackInv /\ [Next]_vars => TrackInv'
<1> SUFFICES ASSUME Inv, TrackInv, [Next]_vars PROVE TrackInv'
  OBVIOUS
<1>0. TypeOK /\ disk \subseteq Files
  BY FilesType DEF Inv
<1>1. ASSUME NEW s \in Sweepers, FullSweep(s) \/ CreateLock(s) PROVE TrackInv'
  <2>0. s \in Actors /\ s \notin Watchers
    BY <1>0, RecordsType
  <2>1. \A f \in Files : (HasRow(f)' <=> HasRow(f)) /\ Ref(f)' = Ref(f)
    BY <1>0, <1>1, FullSweepEffect, RowsAlone DEF library
  <2>2. Tracks(s)
    BY <1>0, <1>1, <2>0, <2>1, FullSweepEffect DEF Tracks, FindsLater, PrunesLater, Strays, OwnWork
  <2> QED BY <1>0, <1>1, <2>0, <2>2, FullSweepEffect, TracksKept
<1>2. CASE Reply
  <2>0. replying \in Actors
    BY <1>0, <1>2, ReplyEffect
  <2> PICK a \in Actors : a = replying
    BY <2>0
  <2>1. /\ Apart(a)
        /\ UNCHANGED <<disk, library, odd>>
        /\ \/ UNCHANGED <<pc, loc, watch>>
           \/ /\ pc[a] = "waiting" /\ loc[a].early /\ loc[a].task = "sweep"
              /\ Return(a) /\ pc'[a] = "idle"
           \/ /\ pc[a] = "waiting" /\ loc[a].early /\ loc[a].task # "sweep"
              /\ pc'[a] = "list" /\ UNCHANGED watch
              /\ loc'[a].task = loc[a].task
           \/ /\ pc[a] = "waiting" /\ ~loc[a].early
              /\ pc'[a] = "idle" /\ UNCHANGED watch
    BY <1>0, <1>2, ReplyEffect, Returns
  <2>2. \A f \in Files : (HasRow(f)' <=> HasRow(f)) /\ Ref(f)' = Ref(f)
    BY <2>1, RowsAlone DEF library
  <2>3. OwnWork(a)
    BY <2>1 DEF TrackInv
  <2>4. Tracks(a)
    <3>1. CASE UNCHANGED <<pc, loc, watch>>
      BY <1>0, <2>2, <2>3, <2>1, <3>1 DEF Tracks, FindsLater, PrunesLater, Strays, OwnWork
    <3>2. CASE pc[a] = "waiting" /\ loc[a].early /\ loc[a].task = "sweep" /\ pc'[a] = "idle"
      BY <1>0, <2>2, <2>3, <2>1, <3>2 DEF Tracks, FindsLater, PrunesLater, Strays, OwnWork
    <3>3. CASE /\ pc[a] = "waiting" /\ loc[a].early /\ loc[a].task # "sweep"
               /\ pc'[a] = "list" /\ loc'[a].task = loc[a].task
      BY <1>0, <2>2, <2>3, <2>1, <3>3 DEF Tracks, FindsLater, PrunesLater, Strays, OwnWork
    <3>4. CASE pc[a] = "waiting" /\ ~loc[a].early /\ pc'[a] = "idle"
      BY <1>0, <2>2, <2>3, <2>1, <3>4 DEF Tracks, FindsLater, PrunesLater, Strays, OwnWork
    <3> QED BY <2>1, <3>1, <3>2, <3>3, <3>4
  <2> QED BY <1>0, <2>1, <2>4, TracksKept
<1>3. ASSUME UNCHANGED <<disk, rows, watch, pc, loc, odd>> PROVE TrackInv'
  <2>1. \A f \in Files : (HasRow(f)' <=> HasRow(f)) /\ Ref(f)' = Ref(f)
    BY <1>3, RowsAlone
  <2>2. \A a \in Actors : OwnWork(a)'
    BY <1>3 DEF TrackInv, OwnWork
  <2>3. MissingInv => MissingInv'
    BY <1>0, <1>3, <2>1 DEF MissingInv, Heard, Pending, FindsLater, watch
  <2>4. GhostInv => GhostInv'
    BY <1>0, <1>3, <2>1 DEF GhostInv, Doomed, Pending, PrunesLater, watch
  <2>5. StrayInv => StrayInv'
    BY <1>0, <1>3 DEF StrayInv, Pending, Strays, watch
  <2>6. Plain' = Plain
    BY <1>3 DEF Plain
  <2> QED BY <2>2, <2>3, <2>4, <2>5, <2>6 DEF TrackInv
<1>4. CASE Receive \/ Reload
  BY <1>3, <1>4 DEF Receive, Reload, library
<1>5. CASE UNCHANGED vars
  BY <1>3, <1>5 DEF vars, watch
<1> QED BY <1>1, <1>2, <1>4, <1>5, FileTracked, FireTracked, SweepTracked DEF Next, Listen

\* The watcher, Sweep and removeDeletedMediaFiles keep up with the files: once
\* nothing is going on the rows are those of the files there are, unless a sender
\* hangs, a timer kept another event, callbacks of one entry overlapped, or a file
\* came back between the look for it and the deletion of its row.
THEOREM TrackedCorrect == Spec => []TrackedWhenQuiet
<1>1. Init => TrackInv
  <2> SUFFICES ASSUME Init PROVE TrackInv
    OBVIOUS
  <2>1. \A f \in Files : HasRow(f) <=> f \in disk
    BY FirstIdType DEF Init, HasRow, NoRow
  <2>2. \A a \in Actors : pc[a] = "idle"
    BY DEF Init
  <2>3. disk \subseteq Files
    BY DEF Init
  <2> QED BY <2>1, <2>2, <2>3, RecordsType, InvInit
          DEF TrackInv, OwnWork, MissingInv, GhostInv, StrayInv, Strays, Inv, Actors
<1>2. Inv /\ TrackInv => TrackedWhenQuiet
  <2> SUFFICES ASSUME Inv, TrackInv, Quiet, Plain, \A a \in Actors : ~Hung(a)
               PROVE  {f \in Files : HasRow(f)} = disk
    BY DEF TrackedWhenQuiet, Plain
  <2>1. /\ \A a \in Actors : pc[a] = "idle"
        /\ \A e \in Entries : ~timers[e].armed
        /\ orphans = {}
    BY DEF Quiet
  <2>2. disk \subseteq Files /\ \A f \in Files : EntryOf[f] \in Entries
    BY FilesType DEF Inv
  <2>3. \A f \in Files : ~Heard(f) /\ ~Doomed(f)
    BY <2>1, <2>2 DEF Heard, Doomed, Pending, FindsLater, PrunesLater
  <2> QED BY <2>2, <2>3 DEF TrackInv, MissingInv, GhostInv
<1> QED BY <1>1, <1>2, TrackNext, Invariant, PTL DEF Spec
-----------------------------------------------------------------------------
(* Matches: what is right of every job, wherever it has got to *)

HasFile(w) == w.at \notin {"none", "next"}

HasEpisode(w) == w.at \in {"add", "link"} \/ (w.at = "save" /\ w.file \in Torrents)

RightTitle(w) == w.title \in TitleRows /\ (IsSeries(w.title) <=> OfSeries(w.file))

RightEpisode(w) ==
  IF OfSeries(w.file)
  THEN /\ w.episode \in EpisodeRows /\ w.episode[1][1] = w.title[1]
       /\ w.episode[2] = Number[w.file]
  ELSE w.episode = Null

GoodJobs == {w \in Jobs : /\ HasFile(w) => w.file \in AllFiles
                          /\ w.at \in {"episode", "save", "add", "link"} => RightTitle(w)
                          /\ HasEpisode(w) => RightEpisode(w)}

RowsInv ==
  /\ \A r, s \in titles : r[1] = s[1] => r = s
  /\ \A e \in episodes : e[1] \in titles

MatchesTypeInv == MatchesTypeOK /\ RowsInv /\ job \in [Matchers -> GoodJobs]

LEMMA RowsNotNull == Null \notin TitleRows /\ Null \notin EpisodeRows
<1>1. \A x \in TitleRows : x # Null
  BY DEF TitleRows, Null
<1>2. \A x \in EpisodeRows : x # Null
  BY DEF EpisodeRows, Null
<1>3. QED
  BY <1>1, <1>2

LEMMA MatchesValues == /\ 0 \in Lives /\ 1 \in Lives
                 /\ NoLink \in Links /\ NoLink.title = Null
                 /\ NoJob \in GoodJobs
<1>1. 0 \in Lives /\ 1 \in Lives
  BY MatchesAssumption DEF Lives
<1>2. NoLink \in Links /\ NoLink.title = Null
  BY DEF NoLink, Links
<1>3. NoJob \in Jobs /\ NoJob.at = "none"
  BY <1>2 DEF NoJob, Jobs
<1>4. QED
  BY <1>1, <1>2, <1>3 DEF GoodJobs, HasFile, HasEpisode

LEMMA OldLinksType == ASSUME NEW f \in AllFiles PROVE OldLinks(f) \subseteq Links
<1>1. Titles \X {1} \subseteq TitleRows /\ Series \X {1} \subseteq TitleRows
  BY MatchesValues, MatchesAssumption DEF TitleRows
<1>2. (Series \X {1}) \X Numbers \X {1} \subseteq EpisodeRows
  BY MatchesValues, MatchesAssumption DEF EpisodeRows, TitleRows
<1>3. QED
  BY <1>1, <1>2, MatchesValues DEF OldLinks, Links

Places == {"none", "title", "episode", "save", "add", "link", "restore", "siblings", "next"}

AllFit == \A f \in AllFiles : Fits(f, link[f])

(* What a job goes back to is right. *)
Sound(w) == /\ HasFile(w) => Fits(w.file, w.old)
            /\ \A s \in w.rest : Fits(s[1], s[2])

LEMMA MatchesTypeInit == MatchesInit => MatchesTypeInv
<1> SUFFICES ASSUME MatchesInit PROVE MatchesTypeInv
  OBVIOUS
<1>1. link \in [AllFiles -> Links]
  BY OldLinksType DEF MatchesInit
<1>2. \A f \in AllFiles : /\ link[f].title \in {Null} \union Titles \X {1}
                          /\ link[f].episode \in {Null} \union (Series \X {1}) \X Numbers \X {1}
  <2>1. \A f \in AllFiles : \A l \in OldLinks(f) :
          /\ l.title \in {Null} \union Titles \X {1}
          /\ l.episode \in {Null} \union (Series \X {1}) \X Numbers \X {1}
    BY DEF OldLinks, NoLink
  <2>2. \A f \in AllFiles : \E g \in AllFiles : link[f] \in OldLinks(g)
    BY DEF MatchesInit
  <2>3. QED
    BY <2>1, <2>2
<1>3. episodes \subseteq (Series \X {1}) \X Numbers \X {1}
  BY <1>2 DEF MatchesInit
<1>4. titles \subseteq Titles \X {1} /\ \A e \in episodes : e[1] \in titles
  BY <1>2, <1>3, MatchesAssumption DEF MatchesInit
<1>5. titles \subseteq TitleRows /\ episodes \subseteq EpisodeRows
  BY <1>3, <1>4, MatchesValues, MatchesAssumption DEF TitleRows, EpisodeRows
<1>6. last \in [Titles \union Titles \X Numbers -> Lives]
  BY MatchesValues DEF MatchesInit
<1>7. job \in [Matchers -> GoodJobs]
  BY MatchesValues DEF MatchesInit
<1>8. left \subseteq Links /\ stage = "kind" /\ rebuilt \in BOOLEAN /\ version = FALSE /\ halfway = FALSE
  BY DEF MatchesInit
<1>9. \A r, s \in titles : r[1] = s[1] => r = s
  BY <1>4
<1>10. QED
  BY <1>1, <1>4, <1>5, <1>6, <1>7, <1>8, <1>9 DEF MatchesTypeInv, MatchesTypeOK, RowsInv, GoodJobs

-----------------------------------------------------------------------------
(* How a job moves on *)

LEMMA JobAt ==
  ASSUME NEW w \in Jobs, NEW at \in Places
  PROVE  LET new == [w EXCEPT !.at = at]
         IN /\ new \in Jobs /\ new.at = at /\ new.file = w.file /\ new.title = w.title
            /\ new.episode = w.episode /\ new.old = w.old /\ new.rest = w.rest
            /\ new.rematch = w.rematch
BY DEF Jobs, Places

LEMMA JobTitle ==
  ASSUME NEW w \in Jobs, NEW t \in TitleRows
  PROVE  LET new == [w EXCEPT !.title = t]
         IN /\ new \in Jobs /\ new.at = w.at /\ new.file = w.file /\ new.title = t
            /\ new.episode = w.episode /\ new.old = w.old /\ new.rest = w.rest
BY DEF Jobs

LEMMA JobEpisode ==
  ASSUME NEW w \in Jobs, NEW e \in {Null} \union EpisodeRows
  PROVE  LET new == [w EXCEPT !.episode = e]
         IN /\ new \in Jobs /\ new.at = w.at /\ new.file = w.file /\ new.title = w.title
            /\ new.episode = e /\ new.old = w.old /\ new.rest = w.rest
BY DEF Jobs

TitleAt(w, at, t) == [[w EXCEPT !.at = at] EXCEPT !.title = t]

LEMMA JobAtTitle ==
  ASSUME NEW w \in Jobs, NEW at \in Places, NEW t \in TitleRows,
         NEW new, new = TitleAt(w, at, t)
  PROVE  /\ new \in Jobs /\ new.at = at /\ new.file = w.file /\ new.title = t
         /\ new.episode = w.episode /\ new.old = w.old /\ new.rest = w.rest
<1>1. PICK mid : mid = [w EXCEPT !.at = at]
  OBVIOUS
<1>2. /\ mid \in Jobs /\ mid.at = at /\ mid.file = w.file /\ mid.episode = w.episode
      /\ mid.old = w.old /\ mid.rest = w.rest
  BY <1>1, JobAt
<1>3. new = [mid EXCEPT !.title = t]
  BY <1>1 DEF TitleAt
<1>4. QED
  BY <1>2, <1>3, JobTitle

EpisodeAt(w, at, e) == [[w EXCEPT !.at = at] EXCEPT !.episode = e]

LEMMA JobAtEpisode ==
  ASSUME NEW w \in Jobs, NEW at \in Places, NEW e \in {Null} \union EpisodeRows,
         NEW new, new = EpisodeAt(w, at, e)
  PROVE  /\ new \in Jobs /\ new.at = at /\ new.file = w.file /\ new.episode = e
         /\ new.title = w.title /\ new.old = w.old /\ new.rest = w.rest
<1>1. PICK mid : mid = [w EXCEPT !.at = at]
  OBVIOUS
<1>2. /\ mid \in Jobs /\ mid.at = at /\ mid.file = w.file /\ mid.title = w.title
      /\ mid.old = w.old /\ mid.rest = w.rest
  BY <1>1, JobAt
<1>3. new = [mid EXCEPT !.episode = e]
  BY <1>1 DEF EpisodeAt
<1>4. QED
  BY <1>2, <1>3, JobEpisode

LEMMA JobStep ==
  ASSUME MatchesTypeInv, NEW j \in Matchers, NEW new \in GoodJobs, Step(j, new)
  PROVE  /\ job' \in [Matchers -> GoodJobs]
         /\ job'[j] = new /\ \A k \in Matchers \ {j} : job'[k] = job[k]
BY DEF MatchesTypeInv, Step

LEMMA JobTypes ==
  ASSUME MatchesTypeInv, NEW j \in Matchers
  PROVE  job[j] \in Jobs /\ job[j] \in GoodJobs
BY DEF MatchesTypeInv, GoodJobs

(* The job goes on as one that is right, while the links it reads are. *)
Goes(j) == \E new \in GoodJobs : Step(j, new) /\ (AllFit /\ Sound(job[j]) => Sound(new))

LEMMA FailStep ==
  ASSUME MatchesTypeInv, NEW j \in Matchers, HasFile(job[j]), Fail(j)
  PROVE  Goes(j)
<1>1. CASE job[j].rematch
  <2>1. PICK new : new = Then(j, "restore")
    OBVIOUS
  <2>2. /\ new \in Jobs /\ new.at = "restore" /\ new.file = job[j].file
        /\ new.old = job[j].old /\ new.rest = job[j].rest
    BY <2>1, JobTypes, JobAt DEF Then, Places
  <2>3. new \in GoodJobs
    BY <2>2, JobTypes DEF GoodJobs, HasFile, HasEpisode
  <2>4. Sound(job[j]) => Sound(new)
    BY <2>2 DEF Sound, HasFile
  <2>5. QED
    BY <1>1, <2>1, <2>3, <2>4 DEF Fail, Goes
<1>2. CASE ~job[j].rematch
  <2>1. Sound(NoJob)
    BY DEF Sound, NoJob, HasFile
  <2>2. QED
    BY <1>2, <2>1, MatchesValues DEF Fail, Goes
<1>3. QED
  BY <1>1, <1>2

LEMMA MatchFileStep ==
  ASSUME MatchesTypeInv, NEW j \in Matchers, MatchFile(j)
  PROVE  Goes(j)
<1>1. PICK f \in AllFiles :
        Step(j, [NoJob EXCEPT !.at = "title", !.file = f, !.among = Titles])
  BY DEF MatchFile
<1>2. PICK new : new = [NoJob EXCEPT !.at = "title", !.file = f, !.among = Titles]
  OBVIOUS
<1>3. NoJob \in Jobs /\ NoJob.old.title = Null /\ NoJob.rest = {}
  BY MatchesValues DEF GoodJobs, NoJob
<1>4. /\ new \in Jobs /\ new.at = "title" /\ new.file = f
      /\ new.old.title = Null /\ new.rest = {}
  BY <1>2, <1>3 DEF Jobs
<1>5. new \in GoodJobs
  BY <1>4 DEF GoodJobs, HasFile, HasEpisode
<1>6. Sound(new)
  BY <1>4 DEF Sound, Fits
<1>7. QED
  BY <1>1, <1>2, <1>5, <1>6 DEF Goes

LEMMA RematchTorrentStep ==
  ASSUME MatchesTypeInv, NEW j \in Matchers, RematchTorrent(j)
  PROVE  Goes(j)
<1>1. PICK f \in Torrents, among \in SUBSET Titles :
        Step(j, [NoJob EXCEPT !.at = "title", !.file = f, !.rematch = TRUE, !.first = TRUE,
                              !.among = among, !.old = link[f]])
  BY DEF RematchTorrent
<1>2. PICK new : new = [NoJob EXCEPT !.at = "title", !.file = f, !.rematch = TRUE, !.first = TRUE,
                                     !.among = among, !.old = link[f]]
  OBVIOUS
<1>3. NoJob \in Jobs /\ NoJob.rest = {} /\ f \in AllFiles /\ link[f] \in Links
  BY MatchesValues DEF GoodJobs, NoJob, AllFiles, MatchesTypeInv, MatchesTypeOK
<1>4. /\ new \in Jobs /\ new.at = "title" /\ new.file = f
      /\ new.old = link[f] /\ new.rest = {}
  BY <1>2, <1>3 DEF Jobs
<1>5. new \in GoodJobs
  BY <1>3, <1>4 DEF GoodJobs, HasFile, HasEpisode
<1>6. AllFit => Sound(new)
  BY <1>3, <1>4 DEF Sound, AllFit
<1>7. QED
  BY <1>1, <1>2, <1>5, <1>6 DEF Goes

LEMMA FindTitleStep ==
  ASSUME MatchesTypeInv, NEW j \in Matchers, FindTitle(j)
  PROVE  Goes(j)
<1>1. HasFile(job[j]) /\ job[j].file \in AllFiles
  BY JobTypes DEF FindTitle, HasFile, GoodJobs
<1>2. CASE Fail(j)
  BY <1>1, <1>2, FailStep
<1>3. CASE ~Fail(j)
  <2>1. PICK t, row :
          /\ t \in Kind(job[j].file)
          /\ row = <<t, 0>> \/ (row \in titles /\ row[1] = t)
          /\ Step(j, [Then(j, AfterTitle(job[j].file)) EXCEPT !.title = row])
    BY <1>3 DEF FindTitle
  <2>2. row \in TitleRows /\ row[1] = t
    BY <2>1, MatchesValues DEF Kind, TitleRows, MatchesTypeInv, MatchesTypeOK
  <2>3. IsSeries(row) <=> OfSeries(job[j].file)
    BY <2>1, <2>2 DEF Kind, IsSeries
  <2>4. PICK at \in {"episode", "save"} :
          at = AfterTitle(job[j].file) /\ (job[j].file \in Torrents <=> at = "episode")
    BY DEF AfterTitle
  <2>5. PICK new : new = TitleAt(job[j], at, row)
    OBVIOUS
  <2>6. /\ new \in Jobs /\ new.at = at /\ new.file = job[j].file /\ new.title = row
        /\ new.old = job[j].old /\ new.rest = job[j].rest
    <3>1. at \in Places /\ job[j] \in Jobs
      BY JobTypes DEF Places
    <3>2. QED
      BY <2>2, <2>5, <3>1, JobAtTitle
  <2>7. new \in GoodJobs
    BY <1>1, <2>2, <2>3, <2>4, <2>6 DEF GoodJobs, HasEpisode, RightTitle
  <2>8. Sound(job[j]) => Sound(new)
    BY <1>1, <2>6 DEF Sound
  <2>9. QED
    BY <2>1, <2>4, <2>5, <2>7, <2>8 DEF Goes, Then, TitleAt
<1>4. QED
  BY <1>2, <1>3

LEMMA FindEpisodeStep ==
  ASSUME MatchesTypeInv, NEW j \in Matchers, FindEpisode(j)
  PROVE  Goes(j)
<1> DEFINE f == job[j].file
<1>1. HasFile(job[j]) /\ f \in AllFiles /\ RightTitle(job[j])
  BY JobTypes DEF FindEpisode, HasFile, GoodJobs
<1>2. CASE Fail(j)
  BY <1>1, <1>2, FailStep
<1>3. CASE ~Fail(j)
  <2>1. PICK e :
          /\ IF OfSeries(f)
             THEN \/ e = <<job[j].title, Number[f], 0>>
                  \/ e \in episodes /\ e[1][1] = job[j].title[1] /\ e[2] = Number[f]
             ELSE e = Null
          /\ Step(j, [Then(j, AfterEpisode(f)) EXCEPT !.episode = e])
    BY <1>3 DEF FindEpisode
  <2>2. IF OfSeries(f)
        THEN e \in EpisodeRows /\ e[1][1] = job[j].title[1] /\ e[2] = Number[f]
        ELSE e = Null
    <3>1. OfSeries(f) => Number[f] \in Numbers
      BY <1>1 DEF OfSeries, Numbers
    <3>2. ASSUME OfSeries(f), e = <<job[j].title, Number[f], 0>>
          PROVE  e \in EpisodeRows /\ e[1][1] = job[j].title[1] /\ e[2] = Number[f]
      BY <1>1, <3>1, <3>2, MatchesValues DEF EpisodeRows, RightTitle
    <3>3. QED
      BY <2>1, <3>2 DEF MatchesTypeInv, MatchesTypeOK
  <2>3. PICK at \in {"save", "add"} : at = AfterEpisode(f)
    BY DEF AfterEpisode
  <2>4. PICK new : new = EpisodeAt(job[j], at, e)
    OBVIOUS
  <2>5. /\ new \in Jobs /\ new.at = at /\ new.file = f /\ new.title = job[j].title
        /\ new.episode = e /\ new.old = job[j].old /\ new.rest = job[j].rest
    <3>1. at \in Places /\ job[j] \in Jobs
      BY JobTypes DEF Places
    <3>2. e \in {Null} \union EpisodeRows
      BY <2>2
    <3>3. QED
      BY <2>4, <3>1, <3>2, JobAtEpisode
  <2>6. RightTitle(new) /\ RightEpisode(new)
    BY <1>1, <2>2, <2>5 DEF RightTitle, RightEpisode
  <2>7. new \in GoodJobs
    BY <1>1, <2>5, <2>6 DEF GoodJobs
  <2>8. Sound(job[j]) => Sound(new)
    BY <1>1, <2>5 DEF Sound
  <2>9. QED
    BY <2>1, <2>3, <2>4, <2>7, <2>8 DEF Goes, Then, EpisodeAt
<1>4. QED
  BY <1>2, <1>3

\* A title that is saved keeps what it is a title of.
LEMMA SavedTitle ==
  ASSUME NEW w \in GoodJobs, w.at = "save", NEW t \in TitleRows, t[1] = w.title[1]
  PROVE  \E new \in GoodJobs :
           /\ new = TitleAt(w, AfterSave(w.file), t)
           /\ Sound(w) => Sound(new)
<1>1. w \in Jobs /\ HasFile(w) /\ w.file \in AllFiles /\ RightTitle(w)
      /\ (w.file \in Torrents => RightEpisode(w))
  BY DEF GoodJobs, HasFile, HasEpisode
<1>2. PICK at \in {"add", "episode"} :
        at = AfterSave(w.file) /\ (at = "add" => w.file \in Torrents)
  BY DEF AfterSave
<1>3. PICK new : new = TitleAt(w, at, t)
  OBVIOUS
<1>4. /\ new \in Jobs /\ new.at = at /\ new.file = w.file /\ new.title = t
      /\ new.episode = w.episode /\ new.old = w.old /\ new.rest = w.rest
  <2>1. at \in Places
    BY DEF Places
  <2>2. w \in Jobs
    BY <1>1
  <2>3. QED
    BY <2>1, <2>2, <1>3, JobAtTitle
<1>5. RightTitle(new) /\ (w.file \in Torrents => RightEpisode(new))
  BY <1>1, <1>4 DEF RightTitle, RightEpisode, IsSeries
<1>6. new \in GoodJobs
  BY <1>1, <1>2, <1>4, <1>5 DEF GoodJobs, HasEpisode
<1>7. Sound(w) => Sound(new)
  BY <1>1, <1>4 DEF Sound
<1>8. QED
  BY <1>2, <1>3, <1>6, <1>7

LEMMA SaveTitleStep ==
  ASSUME MatchesTypeInv, NEW j \in Matchers, SaveTitle(j)
  PROVE  /\ Goes(j) /\ RowsInv'
         /\ titles' \subseteq TitleRows /\ UNCHANGED <<episodes, link>>
         /\ last' \in [Titles \union Titles \X Numbers -> Lives]
<1> DEFINE t == job[j].title[1]
<1>1. job[j].at = "save" /\ HasFile(job[j]) /\ RightTitle(job[j]) /\ job[j] \in GoodJobs
  BY JobTypes DEF SaveTitle, HasFile, GoodJobs
<1>2. job[j].title \in TitleRows /\ t \in Titles
  BY <1>1 DEF RightTitle, TitleRows
<1>3. UNCHANGED <<episodes, link>>
  BY DEF SaveTitle
<1>4. CASE job[j].title[2] # 0
  <2>1. Step(j, Then(j, AfterSave(job[j].file))) /\ UNCHANGED <<titles, last>>
    BY <1>4 DEF SaveTitle
  <2>2. PICK new \in GoodJobs :
          /\ new = TitleAt(job[j], AfterSave(job[j].file), job[j].title)
          /\ Sound(job[j]) => Sound(new)
    BY <1>1, <1>2, SavedTitle
  <2>3. new = Then(j, AfterSave(job[j].file))
    BY <2>2, JobTypes DEF Then, Jobs, TitleAt
  <2>4. QED
    BY <1>3, <2>1, <2>2, <2>3 DEF Goes, MatchesTypeInv, MatchesTypeOK, RowsInv
<1>5. CASE job[j].title[2] = 0 /\ \E row \in titles : row[1] = t
  <2>1. Fail(j) /\ UNCHANGED <<titles, last>>
    BY <1>5 DEF SaveTitle
  <2>2. QED
    BY <1>1, <1>3, <2>1, FailStep DEF MatchesTypeInv, MatchesTypeOK, RowsInv
<1>6. CASE job[j].title[2] = 0 /\ ~\E row \in titles : row[1] = t
  <2>1. PICK row : row = <<t, last[t] + 1>>
    OBVIOUS
  <2>2. /\ last[t] < MaxLives /\ titles' = titles \union {row}
        /\ last' = [last EXCEPT ![t] = last[t] + 1]
        /\ Step(j, [Then(j, AfterSave(job[j].file)) EXCEPT !.title = row])
    BY <1>6, <2>1 DEF SaveTitle, InsertTitle
  <2>3. last \in [Titles \union Titles \X Numbers -> Lives] /\ last[t] + 1 \in Lives
    BY <1>2, <2>2, MatchesAssumption DEF MatchesTypeInv, MatchesTypeOK, Lives
  <2>4. row \in TitleRows /\ row[1] = t
    BY <1>2, <2>1, <2>3 DEF TitleRows
  <2>5. Goes(j)
    <3>1. PICK new \in GoodJobs : /\ new = TitleAt(job[j], AfterSave(job[j].file), row)
                                  /\ Sound(job[j]) => Sound(new)
      BY <1>1, <2>4, SavedTitle
    <3>2. Step(j, new)
      BY <2>2, <3>1 DEF Then, TitleAt
    <3>3. QED
      BY <3>1, <3>2 DEF Goes
  <2>6. RowsInv'
    BY <1>3, <1>6, <2>2, <2>4 DEF MatchesTypeInv, RowsInv
  <2>7. QED
    BY <1>3, <2>2, <2>3, <2>4, <2>5, <2>6 DEF MatchesTypeInv, MatchesTypeOK
<1>7. QED
  BY <1>4, <1>5, <1>6

LEMMA SaveEpisodeStep ==
  ASSUME MatchesTypeInv, NEW j \in Matchers, SaveEpisode(j)
  PROVE  /\ Goes(j) /\ RowsInv'
         /\ episodes' \subseteq EpisodeRows /\ UNCHANGED <<titles, link>>
         /\ last' \in [Titles \union Titles \X Numbers -> Lives]
<1> DEFINE row == job[j].title
           n == Number[job[j].file]
           x == <<row[1], n>>
<1>1. /\ job[j].at = "add" /\ HasFile(job[j]) /\ RightTitle(job[j]) /\ RightEpisode(job[j])
      /\ job[j].file \in AllFiles
  BY JobTypes DEF SaveEpisode, HasFile, HasEpisode, GoodJobs
<1>2. row \in TitleRows /\ row[1] \in Titles
  BY <1>1 DEF RightTitle, TitleRows
<1>3. UNCHANGED <<titles, link>>
  BY DEF SaveEpisode
<1>4. CASE job[j].episode = Null \/ job[j].episode[3] # 0
  <2>1. Step(j, Then(j, "link")) /\ UNCHANGED <<episodes, last>>
    BY <1>4 DEF SaveEpisode
  <2>2. PICK new : new = Then(j, "link")
    OBVIOUS
  <2>3. /\ new \in Jobs /\ new.at = "link" /\ new.file = job[j].file /\ new.title = job[j].title
        /\ new.episode = job[j].episode /\ new.old = job[j].old /\ new.rest = job[j].rest
    BY <2>2, JobTypes, JobAt DEF Then, Places
  <2>4. new \in GoodJobs
    BY <1>1, <2>3 DEF GoodJobs, RightTitle, RightEpisode
  <2>5. Sound(job[j]) => Sound(new)
    BY <1>1, <2>3 DEF Sound
  <2>6. QED
    BY <1>3, <2>1, <2>2, <2>4, <2>5 DEF Goes, MatchesTypeInv, MatchesTypeOK, RowsInv
<1>5. CASE /\ ~(job[j].episode = Null \/ job[j].episode[3] # 0)
           /\ row \notin titles \/ \E e \in episodes : e[1][1] = row[1] /\ e[2] = n
  <2>1. Fail(j) /\ UNCHANGED <<episodes, last>>
    BY <1>5 DEF SaveEpisode
  <2>2. QED
    BY <1>1, <1>3, <2>1, FailStep DEF MatchesTypeInv, MatchesTypeOK, RowsInv
<1>6. CASE /\ ~(job[j].episode = Null \/ job[j].episode[3] # 0)
           /\ ~(row \notin titles \/ \E e \in episodes : e[1][1] = row[1] /\ e[2] = n)
  <2>1. PICK e : e = <<row, n, last[x] + 1>>
    OBVIOUS
  <2>2. /\ last[x] < MaxLives /\ episodes' = episodes \union {e}
        /\ last' = [last EXCEPT ![x] = last[x] + 1]
        /\ Step(j, [Then(j, "link") EXCEPT !.episode = e])
    BY <1>6, <2>1 DEF SaveEpisode
  <2>3. OfSeries(job[j].file) /\ n \in Numbers /\ x \in Titles \X Numbers
    BY <1>1, <1>2, <1>6 DEF RightEpisode, OfSeries, Numbers
  <2>4. last \in [Titles \union Titles \X Numbers -> Lives] /\ last[x] + 1 \in Lives
    BY <2>2, <2>3, MatchesAssumption DEF MatchesTypeInv, MatchesTypeOK, Lives
  <2>5. e \in EpisodeRows /\ e[1] = row /\ e[2] = n
    BY <1>2, <2>1, <2>3, <2>4 DEF EpisodeRows
  <2>6. PICK new : new = EpisodeAt(job[j], "link", e)
    OBVIOUS
  <2>7. /\ new \in Jobs /\ new.at = "link" /\ new.file = job[j].file /\ new.title = row
        /\ new.episode = e /\ new.old = job[j].old /\ new.rest = job[j].rest
    <3>1. "link" \in Places /\ job[j] \in Jobs /\ e \in {Null} \union EpisodeRows
      BY <2>5, JobTypes DEF Places
    <3>2. QED
      BY <2>6, <3>1, JobAtEpisode
  <2>8. new \in GoodJobs
    BY <1>1, <2>3, <2>5, <2>7 DEF GoodJobs, RightTitle, RightEpisode
  <2>9. Sound(job[j]) => Sound(new)
    BY <1>1, <2>7 DEF Sound
  <2>10. RowsInv'
    BY <1>3, <1>6, <2>2, <2>5 DEF MatchesTypeInv, RowsInv
  <2>11. last' \in [Titles \union Titles \X Numbers -> Lives]
    BY <2>2, <2>4
  <2>12. QED
    BY <1>3, <2>2, <2>5, <2>6, <2>8, <2>9, <2>10, <2>11 DEF MatchesTypeInv, MatchesTypeOK, Goes, Then, EpisodeAt
<1>7. QED
  BY <1>4, <1>5, <1>6

NextAt(w) == [w EXCEPT !.at = "next", !.file = NoTitle, !.old = NoLink,
                       !.title = Null, !.episode = Null]

\* A job between two torrents
LEMMA JobNext ==
  ASSUME NEW w \in Jobs, NEW new, new = NextAt(w)
  PROVE  /\ new \in Jobs /\ new.at = "next" /\ new.rest = w.rest
         /\ new \in GoodJobs /\ (Sound(w) => Sound(new))
<1>1. new \in Jobs /\ new.at = "next" /\ new.rest = w.rest
  BY MatchesValues DEF Jobs, NextAt
<1>2. new \in GoodJobs
  BY <1>1 DEF GoodJobs, HasFile, HasEpisode
<1>3. Sound(w) => Sound(new)
  BY <1>1 DEF Sound, HasFile
<1>4. QED
  BY <1>1, <1>2, <1>3

\* What a job that is through with its torrent has linked fits it.
LEMMA NewLink ==
  ASSUME MatchesTypeInv, NEW j \in Matchers, job[j].at = "link",
         NEW l, l = [title |-> job[j].title, episode |-> job[j].episode], MayLink(l)
  PROVE  l \in Links /\ Fits(job[j].file, l)
<1>1. RightTitle(job[j]) /\ RightEpisode(job[j])
  BY JobTypes DEF GoodJobs, HasFile, HasEpisode
<1>2. l \in Links /\ l.title = job[j].title /\ l.episode = job[j].episode
  BY JobTypes DEF Jobs, Links
<1>3. l.title \in titles
  BY <1>1, <1>2, RowsNotNull DEF MayLink, RightTitle
<1>4. CASE OfSeries(job[j].file)
  <2>1. /\ l.episode \in episodes /\ l.episode # Null
        /\ l.episode[1][1] = l.title[1] /\ l.episode[2] = Number[job[j].file]
    BY <1>1, <1>2, <1>4, RowsNotNull DEF MayLink, RightEpisode
  <2>2. l.episode[1] = l.title
    BY <1>3, <2>1 DEF MatchesTypeInv, RowsInv
  <2>3. QED
    BY <1>1, <1>2, <1>4, <2>1, <2>2 DEF Fits, OwnEpisode, RightTitle
<1>5. CASE ~OfSeries(job[j].file)
  BY <1>1, <1>2, <1>5 DEF Fits, RightTitle, RightEpisode
<1>6. QED
  BY <1>2, <1>4, <1>5

\* A link of its own for one file
LEMMA LinkStep ==
  ASSUME link \in [AllFiles -> Links], NEW f \in AllFiles, NEW l \in Links,
         link' = [link EXCEPT ![f] = l]
  PROVE  /\ link' \in [AllFiles -> Links]
         /\ Fits(f, l) /\ AllFit => AllFit'
<1>1. link' \in [AllFiles -> Links] /\ \A g \in AllFiles : link'[g] = IF g = f THEN l ELSE link[g]
  OBVIOUS
<1>2. ASSUME Fits(f, l), AllFit, NEW g \in AllFiles
      PROVE  Fits(g, link'[g])
  BY <1>1, <1>2 DEF AllFit
<1>3. QED
  BY <1>1, <1>2 DEF AllFit

LEMMA LinkStays ==
  ASSUME link \in [AllFiles -> Links], link' = link
  PROVE  link' \in [AllFiles -> Links] /\ (AllFit => AllFit')
BY DEF AllFit

LEMMA SaveLinkStep ==
  ASSUME MatchesTypeInv, NEW j \in Matchers, SaveLink(j)
  PROVE  /\ Goes(j) /\ UNCHANGED <<titles, episodes, last>>
         /\ link' \in [AllFiles -> Links] /\ (AllFit => AllFit')
<1>1. PICK l : l = [title |-> job[j].title, episode |-> job[j].episode]
  OBVIOUS
<1>2. job[j].at = "link" /\ HasFile(job[j]) /\ job[j].file \in AllFiles /\ job[j] \in Jobs
  BY JobTypes DEF SaveLink, HasFile, GoodJobs
<1>3. link \in [AllFiles -> Links] /\ UNCHANGED <<titles, episodes, last>>
  BY DEF SaveLink, MatchesTypeInv, MatchesTypeOK
<1>4. CASE ~MayLink(l)
  <2>1. Fail(j) /\ link' = link
    BY <1>1, <1>4 DEF SaveLink
  <2>2. QED
    BY <1>2, <1>3, <2>1, FailStep, LinkStays
<1>5. CASE MayLink(l)
  <2>1. PICK moved : moved = job[j].eps \union ({job[j].old.episode} \ {Null})
    OBVIOUS
  <2>2. moved \in SUBSET EpisodeRows
    BY <1>2, <2>1 DEF Jobs, Links
  <2>3. /\ link' = [link EXCEPT ![job[j].file] = l]
        /\ Step(j, IF ~job[j].rematch THEN NoJob
                   ELSE IF job[j].first
                   THEN [Then(j, "siblings") EXCEPT !.first = FALSE, !.eps = moved,
                                                    !.from = job[j].old.title]
                   ELSE [GoOn(j) EXCEPT !.eps = moved])
    BY <1>1, <1>5, <2>1 DEF SaveLink
  <2>4. l \in Links /\ Fits(job[j].file, l)
    BY <1>1, <1>2, <1>5, NewLink
  <2>5. link' \in [AllFiles -> Links] /\ (AllFit => AllFit')
    BY <1>2, <1>3, <2>3, <2>4, LinkStep
  <2>6. Goes(j)
    <3>1. CASE ~job[j].rematch
      <4>1. Sound(NoJob)
        BY DEF Sound, NoJob, HasFile
      <4>2. QED
        BY <2>3, <3>1, <4>1, MatchesValues DEF Goes
    <3>2. CASE job[j].rematch /\ job[j].first
      <4>1. PICK new : new = [Then(j, "siblings") EXCEPT !.first = FALSE, !.eps = moved,
                                                         !.from = job[j].old.title]
        OBVIOUS
      <4>2. PICK mid : mid = Then(j, "siblings")
        OBVIOUS
      <4>3. /\ mid \in Jobs /\ mid.at = "siblings" /\ mid.file = job[j].file
            /\ mid.old = job[j].old /\ mid.rest = job[j].rest
        BY <1>2, <4>2, JobAt DEF Then, Places
      <4>4. job[j].old.title \in {Null} \union TitleRows
        BY <1>2 DEF Jobs, Links
      <4>5. /\ new \in Jobs /\ new.at = "siblings" /\ new.file = job[j].file
            /\ new.old = job[j].old /\ new.rest = job[j].rest
        BY <2>2, <4>1, <4>2, <4>3, <4>4 DEF Jobs
      <4>6. new \in GoodJobs
        BY <1>2, <4>5 DEF GoodJobs, HasEpisode
      <4>7. Sound(job[j]) => Sound(new)
        BY <1>2, <4>5 DEF Sound
      <4>8. QED
        BY <2>3, <3>2, <4>1, <4>6, <4>7 DEF Goes
    <3>3. CASE job[j].rematch /\ ~job[j].first
      <4>1. PICK mid : mid = NextAt(job[j])
        OBVIOUS
      <4>2. mid \in Jobs /\ mid.at = "next" /\ mid.rest = job[j].rest
        BY <1>2, <4>1, JobNext
      <4>3. PICK new : new = [mid EXCEPT !.eps = moved]
        OBVIOUS
      <4>4. new \in Jobs /\ new.at = "next" /\ new.rest = job[j].rest
        BY <2>2, <4>2, <4>3 DEF Jobs
      <4>5. new \in GoodJobs
        BY <4>4 DEF GoodJobs, HasFile, HasEpisode
      <4>6. Sound(job[j]) => Sound(new)
        BY <4>4 DEF Sound, HasFile
      <4>7. new = [GoOn(j) EXCEPT !.eps = moved]
        BY <4>1, <4>3 DEF GoOn, NextAt
      <4>8. QED
        BY <2>3, <3>3, <4>5, <4>6, <4>7 DEF Goes
    <3>4. QED
      BY <3>1, <3>2, <3>3
  <2>7. QED
    BY <1>3, <2>5, <2>6
<1>6. QED
  BY <1>4, <1>5

LEMMA RestoreStep ==
  ASSUME MatchesTypeInv, NEW j \in Matchers, Restore(j)
  PROVE  /\ Goes(j) /\ UNCHANGED <<titles, episodes, last>>
         /\ link' \in [AllFiles -> Links] /\ (AllFit /\ Sound(job[j]) => AllFit')
<1>1. job[j].at = "restore" /\ HasFile(job[j]) /\ job[j].file \in AllFiles /\ job[j] \in Jobs
  BY JobTypes DEF Restore, HasFile, GoodJobs
<1>2. link \in [AllFiles -> Links] /\ UNCHANGED <<titles, episodes, last>>
  BY DEF Restore, MatchesTypeInv, MatchesTypeOK
<1>3. PICK old \in Links : old = job[j].old
  BY <1>1 DEF Jobs
<1>4. link' \in [AllFiles -> Links] /\ (AllFit /\ Sound(job[j]) => AllFit')
  <2>1. link' = link \/ link' = [link EXCEPT ![job[j].file] = old]
    BY <1>3 DEF Restore
  <2>2. Sound(job[j]) => Fits(job[j].file, old)
    BY <1>1, <1>3 DEF Sound
  <2>3. QED
    BY <1>1, <1>2, <1>3, <2>1, <2>2, LinkStep, LinkStays
<1>5. Goes(j)
  <2>1. CASE job[j].first
    <3>1. Sound(NoJob)
      BY DEF Sound, NoJob, HasFile
    <3>2. QED
      BY <2>1, <3>1, MatchesValues DEF Goes, Restore
  <2>2. CASE ~job[j].first
    <3>1. PICK new : new = NextAt(job[j])
      OBVIOUS
    <3>2. new \in GoodJobs /\ (Sound(job[j]) => Sound(new))
      BY <1>1, <3>1, JobNext
    <3>3. Step(j, new)
      BY <2>2, <3>1 DEF Restore, GoOn, NextAt
    <3>4. QED
      BY <3>2, <3>3 DEF Goes
  <2>3. QED
    BY <2>1, <2>2
<1>6. QED
  BY <1>2, <1>4, <1>5

LEMMA FindSiblingsStep ==
  ASSUME MatchesTypeInv, NEW j \in Matchers, FindSiblings(j)
  PROVE  Goes(j)
<1> DEFINE siblings == {f \in Torrents \ {job[j].file} : Linked(f) /\ link[f].title = job[j].from}
           t == job[j].title[1]
<1>1. job[j] \in Jobs
  BY JobTypes
<1>2. CASE job[j].title \notin titles
  <2>1. Sound(NoJob)
    BY DEF Sound, NoJob, HasFile
  <2>2. QED
    BY <1>2, <2>1, MatchesValues DEF Goes, FindSiblings
<1>3. CASE job[j].title \in titles
  <2>1. PICK among : among = {t, Twin[t]} \ {NoTitle}
    OBVIOUS
  <2>2. PICK rest : rest = {<<f, link[f]>> : f \in siblings}
    OBVIOUS
  <2>3. t \in Titles
    BY <1>3 DEF MatchesTypeInv, MatchesTypeOK, TitleRows
  <2>4. among \in SUBSET Titles
    BY <2>1, <2>3, MatchesAssumption
  <2>5. rest \in SUBSET (Torrents \X Links)
    BY <2>2 DEF MatchesTypeInv, MatchesTypeOK, AllFiles
  <2>6. AllFit => \A s \in rest : Fits(s[1], s[2])
    BY <2>2 DEF AllFit, AllFiles
  <2>7. PICK mid : mid = NextAt(job[j])
    OBVIOUS
  <2>8. mid \in Jobs /\ mid.at = "next"
    BY <1>1, <2>7, JobNext
  <2>9. PICK new : new = [mid EXCEPT !.among = among, !.rest = rest]
    OBVIOUS
  <2>10. new \in Jobs /\ new.at = "next" /\ new.rest = rest
    BY <2>4, <2>5, <2>8, <2>9 DEF Jobs
  <2>11. new \in GoodJobs
    BY <2>10 DEF GoodJobs, HasFile, HasEpisode
  <2>12. AllFit => Sound(new)
    BY <2>6, <2>10 DEF Sound, HasFile
  <2>13. new = [GoOn(j) EXCEPT !.among = among, !.rest = rest]
    BY <2>7, <2>9 DEF GoOn, NextAt
  <2>14. Step(j, [GoOn(j) EXCEPT !.among = among, !.rest = rest])
    BY <1>3, <2>1, <2>2 DEF FindSiblings
  <2>15. QED
    BY <2>11, <2>12, <2>13, <2>14 DEF Goes
<1>4. QED
  BY <1>2, <1>3

LEMMA NextSiblingStep ==
  ASSUME MatchesTypeInv, NEW j \in Matchers, NextSibling(j)
  PROVE  Goes(j)
<1>1. job[j] \in Jobs /\ job[j].at = "next"
  BY JobTypes DEF NextSibling
<1>2. PICK s \in job[j].rest :
        Step(j, [Then(j, "title") EXCEPT !.file = s[1], !.old = s[2], !.rest = job[j].rest \ {s}])
  BY <1>1 DEF NextSibling, Then, Jobs
<1>3. PICK f \in Torrents, old \in Links : f = s[1] /\ old = s[2]
  BY <1>1, <1>2 DEF Jobs
<1>4. PICK rest : rest = job[j].rest \ {s}
  OBVIOUS
<1>5. rest \in SUBSET (Torrents \X Links)
  BY <1>1, <1>4 DEF Jobs
<1>6. PICK mid : mid = Then(j, "title")
  OBVIOUS
<1>7. mid \in Jobs /\ mid.at = "title"
  BY <1>1, <1>6, JobAt DEF Then, Places
<1>8. PICK new : new = [mid EXCEPT !.file = f, !.old = old, !.rest = rest]
  OBVIOUS
<1>9. /\ new \in Jobs /\ new.at = "title" /\ new.file = f /\ new.old = old /\ new.rest = rest
  BY <1>3, <1>5, <1>7, <1>8 DEF Jobs, AllFiles
<1>10. new \in GoodJobs
  BY <1>3, <1>9 DEF GoodJobs, HasFile, HasEpisode, AllFiles
<1>11. Sound(job[j]) => Sound(new)
  BY <1>2, <1>3, <1>4, <1>9 DEF Sound
<1>12. Step(j, new)
  BY <1>2, <1>3, <1>4, <1>6, <1>8
<1>13. QED
  BY <1>10, <1>11, <1>12 DEF Goes

LEMMA DropUnusedRows ==
  ASSUME MatchesTypeInv, NEW title, NEW eps, DropUnused(title, eps)
  PROVE  RowsInv' /\ titles' \subseteq titles /\ episodes' \subseteq episodes
BY DEF DropUnused, MatchesTypeInv, RowsInv

LEMMA DropOldStep ==
  ASSUME MatchesTypeInv, NEW j \in Matchers, DropOld(j)
  PROVE  /\ Goes(j) /\ RowsInv' /\ UNCHANGED <<link, last>>
         /\ titles' \subseteq titles /\ episodes' \subseteq episodes
<1>1. Sound(NoJob)
  BY DEF Sound, NoJob, HasFile
<1>2. Goes(j)
  BY <1>1, MatchesValues DEF Goes, DropOld
<1>3. QED
  BY <1>2, DropUnusedRows DEF DropOld

-----------------------------------------------------------------------------
(* Types *)

\* One job has gone on, rows and links keep their types.
LEMMA MatchingStep ==
  ASSUME MatchesTypeInv, NEW j \in Matchers,
         \/ MatchFile(j) \/ RematchTorrent(j) \/ FindTitle(j) \/ FindEpisode(j) \/ SaveTitle(j)
         \/ SaveEpisode(j) \/ SaveLink(j) \/ Restore(j) \/ FindSiblings(j) \/ NextSibling(j)
         \/ DropOld(j)
  PROVE  /\ Goes(j) /\ RowsInv'
         /\ titles' \subseteq TitleRows /\ episodes' \subseteq EpisodeRows
         /\ last' \in [Titles \union Titles \X Numbers -> Lives]
         /\ link' \in [AllFiles -> Links] /\ (AllFit /\ Sound(job[j]) => AllFit')
<1>1. /\ titles \subseteq TitleRows /\ episodes \subseteq EpisodeRows /\ RowsInv
      /\ last \in [Titles \union Titles \X Numbers -> Lives]
      /\ link \in [AllFiles -> Links]
  BY DEF MatchesTypeInv, MatchesTypeOK
<1>2. UNCHANGED <<titles, episodes>> => RowsInv'
  BY <1>1 DEF RowsInv
<1>3. CASE \/ MatchFile(j) \/ RematchTorrent(j) \/ FindTitle(j) \/ FindEpisode(j)
           \/ FindSiblings(j) \/ NextSibling(j)
  <2>1. UNCHANGED <<titles, episodes, link, last>>
    BY <1>3 DEF MatchFile, RematchTorrent, FindTitle, FindEpisode, FindSiblings, NextSibling
  <2>2. Goes(j)
    BY <1>3, MatchFileStep, RematchTorrentStep, FindTitleStep, FindEpisodeStep,
       FindSiblingsStep, NextSiblingStep
  <2>3. QED
    BY <1>1, <1>2, <2>1, <2>2, LinkStays
<1>4. CASE SaveTitle(j)
  BY <1>1, <1>4, SaveTitleStep, LinkStays
<1>5. CASE SaveEpisode(j)
  BY <1>1, <1>5, SaveEpisodeStep, LinkStays
<1>6. CASE SaveLink(j)
  BY <1>1, <1>2, <1>6, SaveLinkStep
<1>7. CASE Restore(j)
  BY <1>1, <1>2, <1>7, RestoreStep
<1>8. CASE DropOld(j)
  BY <1>1, <1>8, DropOldStep, LinkStays
<1>9. QED
  BY <1>3, <1>4, <1>5, <1>6, <1>7, <1>8

Stages == {"kind", "wrong", "drop", "stray", "clear", "long", "longdrop", "version", "up"}

LEMMA UnlinkType ==
  ASSUME MatchesTypeInv, NEW at, NEW wrong \in SUBSET AllFiles, NEW after \in Stages,
         Unlink(at, wrong, after)
  PROVE  /\ link' \in [AllFiles -> Links] /\ left' \subseteq Links
         /\ UNCHANGED <<titles, episodes, rebuilt, version>> /\ stage' \in Stages
<1>1. link \in [AllFiles -> Links] /\ left \subseteq Links /\ stage \in Stages
  BY DEF MatchesTypeInv, MatchesTypeOK, Stages
<1>2. CASE \E f \in wrong : /\ link' = [link EXCEPT ![f] = NoLink]
                            /\ left' = left \union {Left(f)} /\ UNCHANGED stage
  <2>1. PICK f \in wrong : /\ link' = [link EXCEPT ![f] = NoLink]
                           /\ left' = left \union {Left(f)} /\ UNCHANGED stage
    BY <1>2
  <2>2. PICK l \in Links : l = link[f]
    BY <1>1
  <2>3. Left(f) \in Links
    BY <2>2 DEF Left, Links
  <2>4. QED
    BY <1>1, <2>1, <2>3, MatchesValues DEF Unlink
<1>3. QED
  BY <1>1, <1>2 DEF Unlink

LEMMA DropLeftType ==
  ASSUME MatchesTypeInv, NEW at, NEW after \in Stages, DropLeft(at, after)
  PROVE  /\ RowsInv' /\ titles' \subseteq titles /\ episodes' \subseteq episodes
         /\ left' \subseteq Links /\ stage' \in Stages /\ UNCHANGED <<link, rebuilt, version>>
<1>1. left \subseteq Links /\ stage \in Stages /\ RowsInv
  BY DEF MatchesTypeInv, MatchesTypeOK, Stages
<1>2. UNCHANGED <<link, rebuilt, version>>
  BY DEF DropLeft
<1>3. CASE left = {} /\ stage' = after /\ UNCHANGED <<titles, episodes, left>>
  BY <1>1, <1>2, <1>3 DEF RowsInv
<1>4. CASE \E title \in {l.title : l \in left} :
             /\ DropUnused(title, {l.episode : l \in {k \in left : k.title = title}} \ {Null})
             /\ left' = {l \in left : l.title # title}
             /\ UNCHANGED stage
  <2>1. PICK title, eps : /\ DropUnused(title, eps) /\ UNCHANGED stage
                          /\ left' = {l \in left : l.title # title}
    BY <1>4
  <2>2. QED
    BY <1>1, <1>2, <2>1, DropUnusedRows
<1>5. QED
  BY <1>3, <1>4 DEF DropLeft

LEMMA StrayType ==
  ASSUME MatchesTypeInv, UnlinkStray \/ ClearStray
  PROVE  /\ link' \in [AllFiles -> Links] /\ stage' \in Stages
         /\ UNCHANGED <<titles, episodes, rebuilt, version, left>>
<1>1. link \in [AllFiles -> Links]
  BY DEF MatchesTypeInv, MatchesTypeOK
<1>2. \A f \in AllFiles : [link[f] EXCEPT !.episode = Null] \in Links
  BY <1>1 DEF Links
<1>3. QED
  BY <1>1, <1>2, MatchesValues DEF UnlinkStray, ClearStray, Stages

LEMMA MigrationsType ==
  ASSUME MatchesTypeInv, Migrations
  PROVE  MatchesTypeInv'
<1>1. /\ titles \subseteq TitleRows /\ episodes \subseteq EpisodeRows /\ RowsInv
      /\ link \in [AllFiles -> Links] /\ left \subseteq Links
      /\ last \in [Titles \union Titles \X Numbers -> Lives]
      /\ stage \in Stages /\ rebuilt \in BOOLEAN /\ version \in BOOLEAN /\ halfway \in BOOLEAN
      /\ job \in [Matchers -> Jobs] /\ job \in [Matchers -> GoodJobs]
  BY DEF MatchesTypeInv, MatchesTypeOK, Stages
<1>2. UNCHANGED <<last, job, halfway>>
  BY DEF Migrations
<1>3. /\ titles' \subseteq titles /\ episodes' \subseteq episodes /\ RowsInv'
      /\ link' \in [AllFiles -> Links] /\ left' \subseteq Links
      /\ stage' \in Stages /\ rebuilt' \in BOOLEAN /\ version' \in BOOLEAN
  <2>1. UNCHANGED <<titles, episodes>> => RowsInv'
    BY <1>1 DEF RowsInv
  <2>2. CASE Rebuild \/ SkipLong \/ SetVersion
    BY <1>1, <2>1, <2>2 DEF Rebuild, SkipLong, SetVersion, Stages
  <2>3. CASE Unlink("wrong", WrongKind, "drop") \/ Unlink("long", WrongLong, "longdrop")
    <3>1. WrongKind \in SUBSET AllFiles /\ WrongLong \in SUBSET AllFiles
      BY MatchesAssumption DEF WrongKind, WrongLong, AllFiles
    <3>2. "drop" \in Stages /\ "longdrop" \in Stages
      BY DEF Stages
    <3>3. QED
      BY <1>1, <2>1, <2>3, <3>1, <3>2, UnlinkType
  <2>4. CASE DropLeft("drop", "stray") \/ DropLeft("longdrop", "version")
    <3>1. "stray" \in Stages /\ "version" \in Stages
      BY DEF Stages
    <3>2. QED
      BY <1>1, <2>4, <3>1, DropLeftType
  <2>5. CASE UnlinkStray \/ ClearStray
    BY <1>1, <2>1, <2>5, StrayType
  <2>6. QED
    BY <2>2, <2>3, <2>4, <2>5 DEF Migrations
<1>4. QED
  BY <1>1, <1>2, <1>3 DEF MatchesTypeInv, MatchesTypeOK, Stages

LEMMA MatchesTypeStep == MatchesTypeInv /\ [MatchesNext]_matchesVars => MatchesTypeInv'
<1> SUFFICES ASSUME MatchesTypeInv, [MatchesNext]_matchesVars
             PROVE  MatchesTypeInv'
  OBVIOUS
<1>1. /\ titles \subseteq TitleRows /\ episodes \subseteq EpisodeRows /\ RowsInv
      /\ link \in [AllFiles -> Links] /\ left \subseteq Links
      /\ last \in [Titles \union Titles \X Numbers -> Lives]
      /\ stage \in Stages /\ rebuilt \in BOOLEAN /\ version \in BOOLEAN /\ halfway \in BOOLEAN
      /\ job \in [Matchers -> GoodJobs]
  BY DEF MatchesTypeInv, MatchesTypeOK, Stages
<1>2. CASE Migrations
  BY <1>2, MigrationsType
<1>3. CASE Matching
  <2>1. UNCHANGED <<stage, rebuilt, version, left, halfway>>
    BY <1>3 DEF Matching
  <2>2. PICK j \in Matchers :
          \/ MatchFile(j) \/ RematchTorrent(j) \/ FindTitle(j) \/ FindEpisode(j) \/ SaveTitle(j)
          \/ SaveEpisode(j) \/ SaveLink(j) \/ Restore(j) \/ FindSiblings(j) \/ NextSibling(j)
          \/ DropOld(j)
    BY <1>3 DEF Matching
  <2>3. /\ Goes(j) /\ RowsInv'
        /\ titles' \subseteq TitleRows /\ episodes' \subseteq EpisodeRows
        /\ last' \in [Titles \union Titles \X Numbers -> Lives]
        /\ link' \in [AllFiles -> Links]
    BY <2>2, MatchingStep
  <2>4. job' \in [Matchers -> GoodJobs]
    BY <2>3, JobStep DEF Goes
  <2>5. job' \in [Matchers -> Jobs]
    BY <2>4 DEF GoodJobs
  <2>6. QED
    BY <1>1, <2>1, <2>3, <2>4, <2>5 DEF MatchesTypeInv, MatchesTypeOK, Stages
<1>4. CASE MatchesKill
  <2>1. /\ stage' \in Stages /\ left' = {} /\ halfway' \in BOOLEAN
        /\ UNCHANGED <<titles, episodes, link, last, rebuilt, version>>
    BY <1>1, <1>4 DEF MatchesKill, Stages
  <2>2. job' \in [Matchers -> GoodJobs]
    BY <1>4, MatchesValues DEF MatchesKill
  <2>3. job' \in [Matchers -> Jobs]
    BY <2>2 DEF GoodJobs
  <2>4. RowsInv'
    BY <1>1, <2>1 DEF RowsInv
  <2>5. QED
    BY <1>1, <2>1, <2>2, <2>3, <2>4 DEF MatchesTypeInv, MatchesTypeOK, Stages
<1>5. CASE UNCHANGED matchesVars
  BY <1>1, <1>5 DEF matchesVars, MatchesTypeInv, MatchesTypeOK, RowsInv, Lives, TitleRows,
     EpisodeRows, Links, Jobs, GoodJobs
<1>6. QED
  BY <1>2, <1>3, <1>4, <1>5 DEF MatchesNext

\* What is kept of files, titles, episodes and what is being matched has its type
\* (get_media_from_tmdb.go, rematch.go and the migrations).
THEOREM MatchesTypes == MatchesSpec => []MatchesTypeOK
<1>1. MatchesTypeInv => MatchesTypeOK
  BY DEF MatchesTypeInv
<1>2. QED
  BY <1>1, MatchesTypeInit, MatchesTypeStep, PTL DEF MatchesSpec

-----------------------------------------------------------------------------
(* Links: what each step of the migrations has put right by its end *)

\* What older versions did not get wrong
Sits(f, l) ==
  l.title # Null =>
    /\ IsSeries(l.title) /\ OfSeries(f) =>
         l.episode # Null /\ (OwnEpisode(l) => l.episode[2] = Number[f])
    /\ l.episode # Null => IsSeries(l.episode[1])

OnKind(f, l) == l.title # Null => (IsSeries(l.title) <=> OfSeries(f))

OnEpisode(f, l) == l.title # Null /\ OfSeries(f) => OwnEpisode(l)

Waits(f, l) == Fits(f, l) \/ (f \in Long /\ IsMovie(l))

AllSit == \A f \in AllFiles : Sits(f, link[f])
AllOnKind == \A f \in AllFiles : OnKind(f, link[f])
AllOnEpisode == \A f \in AllFiles : OnEpisode(f, link[f])
AllWait == \A f \in AllFiles : Waits(f, link[f])

Unlinking == {"wrong", "drop", "stray", "clear"}

LinksInv ==
  /\ stage \in Unlinking \/ (stage = "kind" /\ ~rebuilt) => AllSit
  /\ stage \in {"drop", "stray", "clear"} => AllOnKind
  /\ stage = "clear" => AllOnEpisode
  /\ stage = "long" \/ (stage = "kind" /\ rebuilt) => AllWait
  /\ stage \in {"longdrop", "version", "up"} \/ version => AllFit
  /\ stage # "kind" \/ version => rebuilt
  /\ version => stage \notin Unlinking

JobsInv == \A j \in Matchers : Sound(job[j]) /\ (stage # "up" => job[j] = NoJob)

FitsInv == ~halfway => LinksInv /\ JobsInv

LEMMA NoJobSound == Sound(NoJob) /\ NoJob.at = "none"
BY DEF Sound, NoJob, HasFile

LEMMA NoLinkFits ==
  ASSUME NEW f
  PROVE  /\ Fits(f, NoLink) /\ Sits(f, NoLink) /\ OnKind(f, NoLink) /\ OnEpisode(f, NoLink)
         /\ Waits(f, NoLink)
BY MatchesValues DEF Fits, Sits, OnKind, OnEpisode, Waits

LEMMA FitsWait == AllFit => AllWait
BY DEF AllFit, AllWait, Waits

LEMMA FitsInit == MatchesInit => FitsInv
<1> SUFFICES ASSUME MatchesInit PROVE LinksInv /\ JobsInv
  BY DEF FitsInv
<1>1. stage = "kind" /\ version = FALSE /\ job = [j \in Matchers |-> NoJob]
  BY DEF MatchesInit
<1>2. JobsInv
  BY <1>1, NoJobSound DEF JobsInv
<1>3. ASSUME ~rebuilt PROVE AllSit
  <2>1. ASSUME NEW f \in AllFiles, NEW l \in OldLinks(f)
        PROVE  Sits(f, l)
    <3>1. CASE l = NoLink
      BY <3>1, NoLinkFits
    <3>2. CASE l # NoLink
      <4>1. \/ Fits(f, l)
            \/ ~IsSeries(l.title)
            \/ l.episode # Null /\ ~OwnEpisode(l)
        BY <3>2 DEF OldLinks
      <4>2. l.episode \in {Null} \union (Series \X {1}) \X Numbers \X {1}
        BY <3>2 DEF OldLinks
      <4>3. l.episode # Null => IsSeries(l.episode[1])
        BY <4>2 DEF IsSeries
      <4>4. QED
        BY <4>1, <4>3 DEF Sits, Fits, OwnEpisode
    <3>3. QED
      BY <3>1, <3>2
  <2>2. \A f \in AllFiles : link[f] \in OldLinks(f)
    BY <1>3 DEF MatchesInit
  <2>3. QED
    BY <2>1, <2>2 DEF AllSit
<1>4. ASSUME rebuilt PROVE AllWait
  <2>1. \A f \in AllFiles : link[f] \in {l \in OldLinks(f) : Fits(f, l) \/ (f \in Long /\ IsMovie(l))}
    BY <1>4 DEF MatchesInit
  <2>2. QED
    BY <2>1 DEF AllWait, Waits
<1>5. QED
  BY <1>1, <1>2, <1>3, <1>4 DEF LinksInv, Unlinking

\* Unlinking a file leaves the others as they are.
LEMMA UnlinkedFits ==
  ASSUME MatchesTypeInv, NEW f \in AllFiles, link' = [link EXCEPT ![f] = NoLink]
  PROVE  (AllSit => AllSit') /\ (AllWait => AllWait')
<1>1. \A g \in AllFiles : link'[g] = IF g = f THEN NoLink ELSE link[g]
  BY DEF MatchesTypeInv, MatchesTypeOK
<1>2. ASSUME NEW g \in AllFiles
      PROVE  (Sits(g, link[g]) => Sits(g, link'[g])) /\ (Waits(g, link[g]) => Waits(g, link'[g]))
  BY <1>1, NoLinkFits
<1>3. QED
  BY <1>2 DEF AllSit, AllWait

LEMMA WrongStep ==
  ASSUME MatchesTypeInv, LinksInv, Unlink("wrong", WrongKind, "drop")
  PROVE  LinksInv'
<1>1. stage = "wrong" /\ AllSit /\ rebuilt /\ ~version
  BY DEF Unlink, LinksInv, Unlinking
<1>2. UNCHANGED <<rebuilt, version>>
  BY DEF Unlink
<1>3. CASE \E f \in WrongKind : link' = [link EXCEPT ![f] = NoLink] /\ UNCHANGED stage
  BY <1>1, <1>2, <1>3, UnlinkedFits DEF LinksInv, Unlinking, WrongKind
<1>4. CASE WrongKind = {} /\ stage' = "drop" /\ link' = link
  <2>1. AllOnKind
    BY <1>4 DEF AllOnKind, OnKind, WrongKind, Linked
  <2>2. AllSit' /\ AllOnKind'
    BY <1>1, <1>4, <2>1 DEF AllSit, AllOnKind
  <2>3. QED
    BY <1>1, <1>2, <1>4, <2>2 DEF LinksInv, Unlinking
<1>5. QED
  BY <1>3, <1>4 DEF Unlink

LEMMA StrayStep ==
  ASSUME MatchesTypeInv, LinksInv, UnlinkStray
  PROVE  LinksInv'
<1>1. stage = "stray" /\ AllSit /\ AllOnKind /\ rebuilt /\ ~version
  BY DEF UnlinkStray, LinksInv, Unlinking
<1>2. stage' = "clear" /\ UNCHANGED <<rebuilt, version>>
  BY DEF UnlinkStray
<1>3. ASSUME NEW f \in AllFiles
      PROVE  Sits(f, link'[f]) /\ OnKind(f, link'[f]) /\ OnEpisode(f, link'[f])
  <2>1. link'[f] = IF f \in Stray /\ IsSeries(link[f].title) THEN NoLink ELSE link[f]
    BY DEF UnlinkStray
  <2>2. CASE f \in Stray /\ IsSeries(link[f].title)
    BY <2>1, <2>2, NoLinkFits
  <2>3. CASE ~(f \in Stray /\ IsSeries(link[f].title))
    <3>1. Sits(f, link[f]) /\ OnKind(f, link[f])
      BY <1>1 DEF AllSit, AllOnKind
    <3>2. OnEpisode(f, link[f])
      BY <2>3, <3>1 DEF Sits, OnKind, OnEpisode, Stray
    <3>3. QED
      BY <2>1, <2>3, <3>1, <3>2
  <2>4. QED
    BY <2>2, <2>3
<1>4. AllSit' /\ AllOnKind' /\ AllOnEpisode'
  BY <1>3 DEF AllSit, AllOnKind, AllOnEpisode
<1>5. QED
  BY <1>1, <1>2, <1>4 DEF LinksInv, Unlinking

LEMMA ClearStep ==
  ASSUME MatchesTypeInv, LinksInv, ClearStray
  PROVE  LinksInv'
<1>1. stage = "clear" /\ AllSit /\ AllOnKind /\ AllOnEpisode /\ rebuilt /\ ~version
  BY DEF ClearStray, LinksInv, Unlinking
<1>2. stage' = "long" /\ UNCHANGED <<rebuilt, version>>
  BY DEF ClearStray
<1>3. ASSUME NEW f \in AllFiles
      PROVE  Fits(f, link'[f])
  <2>1. link'[f] = IF f \in Stray THEN [link[f] EXCEPT !.episode = Null] ELSE link[f]
    BY DEF ClearStray
  <2>2. Sits(f, link[f]) /\ OnKind(f, link[f]) /\ OnEpisode(f, link[f]) /\ link[f] \in Links
    BY <1>1 DEF AllSit, AllOnKind, AllOnEpisode, MatchesTypeInv, MatchesTypeOK
  <2>3. CASE link[f].title = Null
    BY <2>1, <2>2, <2>3 DEF Fits, Links
  <2>4. CASE link[f].title # Null /\ OfSeries(f)
    BY <2>1, <2>2, <2>4 DEF Fits, Sits, OnKind, OnEpisode, Stray, OwnEpisode
  <2>5. CASE link[f].title # Null /\ ~OfSeries(f)
    <3>1. ~IsSeries(link[f].title) /\ ~OwnEpisode(link[f])
      BY <2>2, <2>5 DEF OnKind, Sits, OwnEpisode
    <3>2. link'[f].title = link[f].title /\ link'[f].episode = Null
      BY <2>1, <2>2, <3>1 DEF Stray, Links
    <3>3. QED
      BY <2>5, <3>1, <3>2 DEF Fits
  <2>6. QED
    BY <2>3, <2>4, <2>5
<1>4. AllFit'
  BY <1>3 DEF AllFit
<1>5. AllWait'
  BY <1>3 DEF AllWait, Waits
<1>6. QED
  BY <1>1, <1>2, <1>4, <1>5 DEF LinksInv, Unlinking

LEMMA LongStep ==
  ASSUME MatchesTypeInv, LinksInv, ~version, Unlink("long", WrongLong, "longdrop")
  PROVE  LinksInv'
<1>1. stage = "long" /\ AllWait /\ rebuilt
  BY DEF Unlink, LinksInv
<1>2. UNCHANGED <<rebuilt, version>>
  BY DEF Unlink
<1>3. CASE \E f \in WrongLong : link' = [link EXCEPT ![f] = NoLink] /\ UNCHANGED stage
  <2>1. WrongLong \subseteq AllFiles
    BY MatchesAssumption DEF WrongLong, AllFiles
  <2>2. QED
    BY <1>1, <1>2, <1>3, <2>1, UnlinkedFits DEF LinksInv, Unlinking
<1>4. CASE WrongLong = {} /\ stage' = "longdrop" /\ link' = link
  <2>1. AllFit
    BY <1>1, <1>4 DEF AllFit, AllWait, Waits, WrongLong, Linked, IsMovie, IsSeries
  <2>2. AllFit'
    BY <1>4, <2>1 DEF AllFit
  <2>3. QED
    BY <1>1, <1>2, <1>4, <2>2 DEF LinksInv, Unlinking
<1>5. QED
  BY <1>3, <1>4 DEF Unlink

LEMMA MigrationsFit ==
  ASSUME MatchesTypeInv, LinksInv, Migrations
  PROVE  LinksInv'
<1>1. CASE Rebuild \/ SkipLong \/ SetVersion \/ DropLeft("drop", "stray")
           \/ DropLeft("longdrop", "version")
  <2>1. link' = link
    BY <1>1 DEF Rebuild, SkipLong, SetVersion, DropLeft
  <2>2. /\ AllSit' <=> AllSit
        /\ AllOnKind' <=> AllOnKind
        /\ AllOnEpisode' <=> AllOnEpisode
    BY <2>1 DEF AllSit, AllOnKind, AllOnEpisode
  <2>3. (AllWait' <=> AllWait) /\ (AllFit' <=> AllFit)
    BY <2>1 DEF AllWait, AllFit
  <2>4. version \in BOOLEAN /\ rebuilt \in BOOLEAN
    BY DEF MatchesTypeInv, MatchesTypeOK
  <2>5. QED
    <3> USE <2>2, <2>3, <2>4 DEF LinksInv, Unlinking
    <3>1. CASE Rebuild
      BY <3>1 DEF Rebuild
    <3>2. CASE SkipLong
      BY <3>2 DEF SkipLong
    <3>3. CASE SetVersion
      BY <3>3 DEF SetVersion
    <3>4. CASE DropLeft("drop", "stray") \/ DropLeft("longdrop", "version")
      <4>1. /\ UNCHANGED <<rebuilt, version>>
            /\ \/ stage = "drop" /\ stage' \in {"drop", "stray"}
               \/ stage = "longdrop" /\ stage' \in {"longdrop", "version"}
        BY <3>4 DEF DropLeft
      <4>2. QED
        BY <4>1
    <3>5. QED
      BY <1>1, <3>1, <3>2, <3>3, <3>4
<1>2. QED
  BY <1>1, WrongStep, StrayStep, ClearStep, LongStep DEF Migrations

LEMMA MatchingFits ==
  ASSUME MatchesTypeInv, LinksInv, JobsInv, Matching
  PROVE  LinksInv' /\ JobsInv'
<1>1. UNCHANGED <<stage, rebuilt, version>>
  BY DEF Matching
<1>2. PICK j \in Matchers :
        \/ MatchFile(j) \/ RematchTorrent(j) \/ FindTitle(j) \/ FindEpisode(j) \/ SaveTitle(j)
        \/ SaveEpisode(j) \/ SaveLink(j) \/ Restore(j) \/ FindSiblings(j) \/ NextSibling(j)
        \/ DropOld(j)
  BY DEF Matching
<1>3. stage = "up"
  <2>1. stage = "up" \/ job[j].at # "none"
    BY <1>2 DEF MatchFile, RematchTorrent, FindTitle, FindEpisode, SaveTitle, SaveEpisode,
       SaveLink, Restore, FindSiblings, NextSibling, DropOld
  <2>2. QED
    BY <2>1, NoJobSound DEF JobsInv
<1>4. AllFit /\ Sound(job[j]) /\ rebuilt
  BY <1>3 DEF LinksInv, JobsInv
<1>5. Goes(j) /\ AllFit'
  BY <1>2, <1>4, MatchingStep
<1>6. PICK new \in GoodJobs : Step(j, new) /\ Sound(new)
  BY <1>4, <1>5 DEF Goes
<1>7. job'[j] = new /\ \A k \in Matchers \ {j} : job'[k] = job[k]
  BY <1>6, JobStep
<1>8. \A k \in Matchers : Sound(job'[k])
  BY <1>6, <1>7 DEF JobsInv
<1>9. JobsInv'
  BY <1>1, <1>3, <1>8 DEF JobsInv, Sound
<1>10. QED
  BY <1>1, <1>3, <1>4, <1>5, <1>9 DEF LinksInv, Unlinking

LEMMA FitsStep == MatchesTypeInv /\ FitsInv /\ [MatchesNext]_matchesVars => FitsInv'
<1> SUFFICES ASSUME MatchesTypeInv, FitsInv, [MatchesNext]_matchesVars, ~halfway'
             PROVE  LinksInv' /\ JobsInv'
  BY DEF FitsInv
<1>1. CASE Migrations
  <2>1. LinksInv /\ JobsInv
    BY <1>1 DEF Migrations, FitsInv
  <2>2. stage # "up" /\ job' = job
    BY <1>1 DEF Migrations, Rebuild, Unlink, DropLeft, UnlinkStray, ClearStray, SkipLong, SetVersion
  <2>3. JobsInv'
    BY <2>1, <2>2 DEF JobsInv, Sound
  <2>4. QED
    BY <1>1, <2>1, <2>3, MigrationsFit
<1>2. CASE Matching
  BY <1>2, MatchingFits DEF Matching, FitsInv
<1>3. CASE MatchesKill
  <2>1. LinksInv /\ stage \notin Unlinking
    BY <1>3 DEF MatchesKill, FitsInv, Unlinking
  <2>2. /\ stage' = "kind" /\ UNCHANGED <<link, rebuilt, version>>
        /\ job' = [j \in Matchers |-> NoJob]
    BY <1>3 DEF MatchesKill
  <2>3. JobsInv'
    BY <2>2, NoJobSound DEF JobsInv, Sound
  <2>4. ~rebuilt => AllSit'
    BY <2>1, <2>2 DEF LinksInv, AllSit
  <2>5. version => AllFit'
    BY <2>1, <2>2 DEF LinksInv, AllFit
  <2>6. rebuilt => AllWait'
    <3>1. stage \in Stages
      BY DEF MatchesTypeInv, MatchesTypeOK, Stages
    <3>2. rebuilt => AllWait
      BY <2>1, <3>1, FitsWait DEF LinksInv, Unlinking, Stages
    <3>3. QED
      BY <2>2, <3>2 DEF AllWait
  <2>7. version => rebuilt
    BY <2>1 DEF LinksInv
  <2>8. QED
    BY <2>2, <2>3, <2>4, <2>5, <2>6, <2>7 DEF LinksInv, Unlinking
<1>4. CASE UNCHANGED matchesVars
  <2>1. LinksInv /\ JobsInv
    BY <1>4 DEF matchesVars, FitsInv
  <2>2. UNCHANGED <<link, stage, rebuilt, version, job>>
    BY <1>4 DEF matchesVars
  <2>3. JobsInv'
    BY <2>1, <2>2 DEF JobsInv, Sound
  <2>4. LinksInv'
    BY <2>1, <2>2 DEF LinksInv, AllSit, AllOnKind, AllOnEpisode, AllWait, AllFit
  <2>5. QED
    BY <2>3, <2>4
<1>5. QED
  BY <1>1, <1>2, <1>3, <1>4 DEF MatchesNext

\* Once the program is up, every file that is linked is on a title of its kind, and
\* one of a series on its own episode, whatever older versions linked, and however
\* sweeps, rematches and kills interleave, but for the kill that LinksFit excepts
\* (tmdbIdPerKindMigration.go, longEpisodeMigration.go, rematch.go).
THEOREM MatchesLinksFit == MatchesSpec => []LinksFit
<1>1. FitsInv => LinksFit
  BY DEF FitsInv, LinksInv, LinksFit, AllFit
<1>2. QED
  BY <1>1, MatchesTypeInit, MatchesTypeStep, FitsInit, FitsStep, PTL DEF MatchesSpec

-----------------------------------------------------------------------------
(* Files: library and matching together *)

\* A step of one part leaves the other as it is.
LEMMA OnePartMoves == [FilesNext]_filesVars => [Next]_vars /\ [MatchesNext]_matchesVars
<1>1. CASE UNCHANGED filesVars
  BY <1>1 DEF filesVars
<1>2. CASE FilesNext
  BY <1>2 DEF FilesNext
<1>3. QED
  BY <1>1, <1>2

\* Side by side the library and matching behave as they do alone.
THEOREM FilesParts == FilesSpec => Spec /\ MatchesSpec
<1>1. FilesInit => Init /\ MatchesInit
  BY DEF FilesInit
<1>2. QED
  BY <1>1, OnePartMoves, PTL DEF FilesSpec, Spec, MatchesSpec

\* The rows of files, and what they are linked to, keep their types, whatever
\* changes, sweeps, matches, rematches and kills do.
THEOREM FilesTypes == FilesSpec => []FilesTypeOK
<1>1. TypeOK /\ MatchesTypeOK => FilesTypeOK
  BY DEF FilesTypeOK
<1>2. QED
  BY <1>1, FilesParts, TypeCorrect, MatchesTypes, PTL
=============================================================================
