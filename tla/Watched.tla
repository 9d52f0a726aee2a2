------------------------------ MODULE Watched ------------------------------
(* What one user has marked watched of one series: setWatchedEpisode and
   setWatchedMeta of message_controller.go, with the episodes that matching adds
   to the series and DropUnused takes away.  Marking an episode writes the
   episode's row and then works out anew whether the whole series is watched,
   in six statements of their own, while marks from other tabs run; a new
   episode takes the mark off the series, in a statement after its own. *)
EXTENDS Naturals

CONSTANTS
  Episodes,  \* ids of episodes of the series, those of the future among them
  Marks      \* bound: requests at one time

VARIABLES
  seen,      \* Episodes -> not yet there, dropped, or what its userEpisode row says
  series,    \* the userMetaData row of the series
  mark,      \* Marks -> a request being handled
  adding,    \* new episodes for which the series has still to lose its mark
  strayed    \* why the series' row may have another verdict than its episodes

watchedVars == <<seen, series, mark, adding, strayed>>

Rows == {"none", "no", "yes"}

Row(watched) == IF watched THEN "yes" ELSE "no"

(* stale:     the verdict written last is of before an episode changed.
   alone:     the series was marked by itself.
   dropped:   its last episode not watched was dropped.
   killed:    a kill left it without a verdict.
   overtaken: a new episode was marked, or dropped, before matching took the mark
              off the series. *)
Reasons == {"stale", "alone", "dropped", "killed", "overtaken"}

NoMark == [at |-> "none", of |-> "series", watched |-> FALSE, row |-> FALSE,
           list |-> {}, all |-> FALSE, stale |-> FALSE]

Present(rows) == {e \in Episodes : rows[e] \in Rows}

AllWatched(rows) == \A e \in Present(rows) : rows[e] = "yes"

WatchedInit ==
  /\ seen \in [Episodes -> {"new", "none"}]
  /\ series = "none"
  /\ mark = [m \in Marks |-> NoMark]
  /\ adding = {}
  /\ strayed = {}

Done(m) == mark' = [mark EXCEPT ![m] = NoMark]

-----------------------------------------------------------------------------
(* An episode there is not is rejected. *)
Mark(m) ==
  /\ mark[m].at = "none"
  /\ \E of \in Present(seen) \union {"series"}, watched \in BOOLEAN :
       mark' = [mark EXCEPT ![m] =
                  [NoMark EXCEPT !.at = "find", !.of = of, !.watched = watched]]
  /\ UNCHANGED <<seen, series, adding, strayed>>

(* The row that is there decides between an update and an insert. *)
Find(m) ==
  /\ mark[m].at = "find"
  /\ mark' = [mark EXCEPT ![m].at = "write",
                          ![m].row = (IF mark[m].of = "series" THEN series
                                      ELSE seen[mark[m].of]) \in {"no", "yes"}]
  /\ UNCHANGED <<seen, series, adding, strayed>>

(* An episode comes, goes, or is marked: what has been read of it is stale. *)
Overtaken(e, row) ==
  [m \in Marks |->
     [mark[m] EXCEPT !.stale = @ \/ ( /\ seen[e] # row
                                      /\ \/ mark[m].at \in {"series", "verdict"}
                                         \/ /\ mark[m].at = "rows"
                                            /\ row \in Rows <=> seen[e] \notin Rows )]]

(* An insert is refused if the row is there by now, or its episode is not. *)
Refused(m, row) == ~mark[m].row /\ row # "none"

WriteEpisode(m) ==
  /\ mark[m].at = "write" /\ mark[m].of \in Episodes
  /\ LET e == mark[m].of
     IN IF Refused(m, seen[e])
        THEN Done(m) /\ UNCHANGED seen
        ELSE /\ seen' = [seen EXCEPT ![e] = Row(mark[m].watched)]
             /\ mark' = [Overtaken(e, Row(mark[m].watched)) EXCEPT ![m].at = "all"]
  /\ UNCHANGED <<series, adding, strayed>>

(* The episodes of the series, and in a second query the user's rows of them. *)
ListEpisodes(m) ==
  /\ mark[m].at = "all"
  /\ mark' = [mark EXCEPT ![m].at = "rows", ![m].list = Present(seen)]
  /\ UNCHANGED <<seen, series, adding, strayed>>

VerdictBefore(m) == \A e \in mark[m].list : seen[e] = "yes" /\ (e = mark[m].of => mark[m].row)

Verdict(m) == \A e \in mark[m].list : seen[e] = "yes"

ReadAll(m) ==
  /\ mark[m].at = "rows"
  /\ mark' = [mark EXCEPT ![m].at = "series", ![m].all = Verdict(m)]
  /\ UNCHANGED <<seen, series, adding, strayed>>

FindSeries(m) ==
  /\ mark[m].at = "series"
  /\ mark' = [mark EXCEPT ![m].at = "verdict", ![m].row = series # "none"]
  /\ UNCHANGED <<seen, series, adding, strayed>>

(* The error of an insert is dropped, and so is the verdict: the row another
   mark has inserted meanwhile stays. *)
WriteVerdict(m) ==
  /\ mark[m].at = "verdict"
  /\ IF Refused(m, series)
     THEN UNCHANGED <<series, strayed>>
     ELSE series' = Row(mark[m].all) /\ strayed' = IF mark[m].stale THEN {"stale"} ELSE {}
  /\ Done(m)
  /\ UNCHANGED <<seen, adding>>

(* setWatchedMeta: a series can be marked whatever its episodes are. *)
WriteSeries(m) ==
  /\ mark[m].at = "write" /\ mark[m].of = "series"
  /\ IF Refused(m, series)
     THEN UNCHANGED <<series, strayed>>
     ELSE series' = Row(mark[m].watched) /\ strayed' = {"alone"}
  /\ Done(m)
  /\ UNCHANGED <<seen, adding>>

-----------------------------------------------------------------------------
(* Matching inserts an episode, and then takes the mark off the series. *)
NewEpisode(e) ==
  /\ seen[e] = "new"
  /\ seen' = [seen EXCEPT ![e] = "none"]
  /\ mark' = Overtaken(e, "none")
  /\ adding' = adding \union {e}
  /\ UNCHANGED <<series, strayed>>

(* The new episode may have been marked by now, and the whole series with it:
   the statement does not look. *)
UnmarkSeries(e) ==
  /\ e \in adding /\ adding' = adding \ {e}
  /\ series' = IF series = "none" THEN "none" ELSE "no"
  /\ strayed' = IF seen[e] \in {"none", "no"} THEN {} ELSE {"overtaken"}
  /\ UNCHANGED <<seen, mark>>

(* An episode nobody has marked, left by a rematch; whether what remains has
   all been watched is not worked out. *)
DropEpisode(e) ==
  /\ seen[e] = "none"
  /\ seen' = [seen EXCEPT ![e] = "gone"]
  /\ mark' = Overtaken(e, "gone")
  /\ strayed' = strayed \union (IF AllWatched(seen') THEN {"dropped"} ELSE {})
  /\ UNCHANGED <<series, adding>>

(* The process is killed; a mark may have written its episode and not yet the
   series, an episode may have come and the mark still be there. *)
WatchedKill ==
  /\ mark' = [m \in Marks |-> NoMark]
  /\ adding' = {}
  /\ strayed' = strayed \union
       IF adding # {} \/ \E m \in Marks : mark[m].at \in {"all", "rows", "series", "verdict"}
       THEN {"killed"} ELSE {}
  /\ UNCHANGED <<seen, series>>

WatchedNext ==
  \/ \E m \in Marks : \/ Mark(m) \/ Find(m) \/ WriteEpisode(m) \/ ListEpisodes(m) \/ ReadAll(m)
                      \/ FindSeries(m) \/ WriteVerdict(m) \/ WriteSeries(m)
  \/ \E e \in Episodes : NewEpisode(e) \/ UnmarkSeries(e) \/ DropEpisode(e)
  \/ WatchedKill

WatchedSpec == WatchedInit /\ [][WatchedNext]_watchedVars

-----------------------------------------------------------------------------
(* Properties *)

WatchedTypeOK ==
  /\ seen \in [Episodes -> Rows \union {"new", "gone"}]
  /\ series \in Rows /\ adding \subseteq Episodes /\ strayed \subseteq Reasons
  /\ mark \in [Marks -> [at: {"none", "find", "write", "all", "rows", "series", "verdict"},
                         of: Episodes \union {"series"}, watched: BOOLEAN, row: BOOLEAN,
                         list: SUBSET Episodes, all: BOOLEAN, stale: BOOLEAN]]

Quiet == adding = {} /\ \A m \in Marks : mark[m].at = "none"

(* The series is watched exactly when all its episodes are. *)
Right == series = "yes" <=> AllWatched(seen)

(* Between requests and matches the series is watched exactly when all its
   episodes are, also after marks that ran at once, whichever of them made the
   rows, and after new episodes: unless the last verdict written was of before
   an episode changed, the series was marked by itself since, its last episode
   not watched was dropped, a kill left it without a verdict, or a new episode was
   marked or dropped before matching took the mark off the series. *)
SeriesFollows ==
  Quiet /\ strayed = {} /\ (\E e \in Episodes : seen[e] \in {"no", "yes"}) => Right
=============================================================================
