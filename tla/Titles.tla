------------------------------- MODULE Titles -------------------------------
(* What is fetched for a title after it was matched: the TMDB enrichment
   (enrich.go), the rating of IMDb (helper_funcs.go) and what the browser asks
   for (message_controller.go).  Each of them reads the title's row, may ask a
   server and writes the row back: the whole row, but for the rating poll, which
   writes the rating alone.  So one may undo what another has found meanwhile;
   the polls look for rows that lack something.  A write may be refused: what it was
   to save is lost then.  Titles have a TMDB id. *)
EXTENDS Integers

CONSTANTS
  MaxTitle,     \* bound: ids of titles
  Pollers,      \* rating polls that may overlap
  Askers,       \* requests at one time
  MaxAsked,     \* bound: requests
  MaxFailures   \* bound: writes that fail with the database locked or the disk full

ASSUME TitlesAssumption == MaxTitle \in Nat /\ MaxAsked \in Nat /\ MaxFailures \in Nat

TitleIds == 1 .. MaxTitle

VARIABLES
  titles,    \* the titles that have been matched
  row,       \* TitleIds -> the columns of metaData that are fetched later
  poll,      \* Pollers -> a run of ImdbRatingPoll
  sweep,     \* the run of RunEnrichmentSweep, one at a time (sweepMu)
  asker,     \* Askers -> an EnrichOne, GetTrailer or GetImdbRating
  asked,     \* requests so far
  known,     \* TitleIds -> the IMDb id TMDB has for the title; two may have the same
  failures   \* writes that have failed for a time

titlesVars == <<titles, row, poll, sweep, asker, asked, known, failures>>

\* The columns as they are told apart here.
RowType == [enriched: BOOLEAN, details: BOOLEAN, imdb: BOOLEAN, rated: BOOLEAN]

(* What the row of a new title says: enrichState has been set ("ok" or
   "unavailable"), no tracked field is missing, there is an IMDb id, and a
   rating or the mark -2 that nobody knows it.  The
   trailer is left out: the browser asks again when the title it shows has none. *)
Unfetched == [enriched |-> FALSE, details |-> FALSE, imdb |-> FALSE, rated |-> FALSE]

NoWork == [at |-> "none", op |-> "none", title |-> 0, row |-> Unfetched]

TitlesInit ==
  /\ titles = {} /\ row = [t \in TitleIds |-> Unfetched]
  /\ poll = [p \in Pollers |-> NoWork]
  /\ sweep = [at |-> "none", rows |-> {}, work |-> NoWork]
  /\ asker = [q \in Askers |-> NoWork] /\ asked = 0
  /\ known \in {k \in [TitleIds -> TitleIds] : \A t \in TitleIds : k[t] <= t}
  /\ failures = 0

(* metaData.imdbId is UNIQUE. *)
Clashes(t) == \E u \in titles \ {t} : row[u].imdb /\ known[u] = known[t]

(* Matching makes titles in the order of their ids, with details and an IMDb id
   as far as TMDB knows them. *)
Match(t) ==
  /\ t \notin titles /\ \A u \in 1 .. t - 1 : u \in titles
  /\ titles' = titles \union {t}
  /\ \E d, i \in BOOLEAN : /\ i => ~Clashes(t)
                          /\ row' = [row EXCEPT ![t].details = d, ![t].imdb = i]
  /\ UNCHANGED <<poll, sweep, asker, asked, known, failures>>

(* An UPDATE of the row of t, and what there is to it when it fails: the error is
   logged or answered, and the row stays.  Locks are waited for and then given up. *)
Update(t, new) ==
  \/ /\ ~(new.imdb /\ Clashes(t))
     /\ row' = [row EXCEPT ![t] = new] /\ UNCHANGED failures
  \/ new.imdb /\ Clashes(t) /\ UNCHANGED <<row, failures>>
  \/ failures < MaxFailures /\ failures' = failures + 1 /\ UNCHANGED row

-----------------------------------------------------------------------------
(* ImdbRatingPoll *)

Unrated == {t \in titles : row[t].imdb /\ ~row[t].rated}

(* One row, the newest first. *)
PollPicks(p) ==
  /\ poll[p].at = "none" /\ Unrated # {}
  /\ LET t == CHOOSE t \in Unrated : \A u \in Unrated : u <= t
     IN poll' = [poll EXCEPT ![p] = [NoWork EXCEPT !.at = "rating", !.title = t]]
  /\ UNCHANGED <<titles, row, sweep, asker, asked, known, failures>>

RatedIfFound == {TRUE, FALSE}

(* Whitelist("rating", "votes"); a rating that nobody knows is marked, so that
   the next poll gets to the next title. *)
Rated == {TRUE}

PollWrites(p) ==
  /\ poll[p].at = "rating"
  /\ \E r \in Rated : Update(poll[p].title, [row[poll[p].title] EXCEPT !.rated = r])
  /\ poll' = [poll EXCEPT ![p] = NoWork]
  /\ UNCHANGED <<titles, sweep, asker, asked, known>>

-----------------------------------------------------------------------------
(* EnrichOne, from the row as it was read *)

(* TMDB answers with what it knows, or not at all: the row gains, and is marked. *)
Enrichments(old) ==
  {new \in RowType : /\ new.enriched /\ new.rated = old.rated
                     /\ old.details => new.details
                     /\ old.imdb => new.imdb}

(* Rows that need it, with what they say.  They are worked through newest first. *)
Needy == {t \in titles : ~row[t].enriched}

Works(ts) == {[NoWork EXCEPT !.title = t, !.row = row[t]] : t \in ts}

Newest(ws) == CHOOSE w \in ws : \A v \in ws : v.title <= w.title

SweepLists ==
  /\ sweep.at = "none" /\ Needy # {}
  /\ sweep' = [at |-> "skipping", rows |-> Works(Needy), work |-> NoWork]
  /\ UNCHANGED <<titles, row, poll, asker, asked, known, failures>>

Complete(ws) == {w \in ws : w.row.details}

(* The rows that lack nothing are marked first, each as it was listed. *)
SweepSkips ==
  /\ sweep.at = "skipping"
  /\ IF Complete(sweep.rows) # {}
     THEN LET w == Newest(Complete(sweep.rows))
          IN /\ Update(w.title, [w.row EXCEPT !.enriched = TRUE])
             /\ sweep' = [sweep EXCEPT !.rows = @ \ {w}]
     ELSE sweep' = [sweep EXCEPT !.at = "next"] /\ UNCHANGED <<row, failures>>
  /\ UNCHANGED <<titles, poll, asker, asked, known>>

(* EnrichOne reads the row again and leaves it when it has been enriched. *)
SweepReads ==
  /\ sweep.at = "next"
  /\ IF sweep.rows = {}
     THEN sweep' = [sweep EXCEPT !.at = "none", !.work = NoWork]
     ELSE LET w == Newest(sweep.rows)
          IN sweep' = [at |-> IF row[w.title].enriched THEN "next" ELSE "enriching",
                       rows |-> sweep.rows \ {w},
                       work |-> [NoWork EXCEPT !.title = w.title, !.row = row[w.title]]]
  /\ UNCHANGED <<titles, row, poll, asker, asked, known, failures>>

SweepWrites ==
  /\ sweep.at = "enriching"
  /\ \E new \in Enrichments(sweep.work.row) : Update(sweep.work.title, new)
  /\ sweep' = [sweep EXCEPT !.at = "next", !.work = NoWork]
  /\ UNCHANGED <<titles, poll, asker, asked, known>>

-----------------------------------------------------------------------------
(* Requests of the browser.  Trailer and rating are looked up before the row is
   read, the enrichment of a title after that. *)

AskTitle(q) ==
  /\ asker[q].at = "none" /\ asked < MaxAsked /\ asked' = asked + 1
  /\ \E t \in titles, op \in {"enrich", "trailer", "rating"} :
       asker' = [asker EXCEPT ![q] = [at |-> "write", op |-> op, title |-> t, row |-> row[t]]]
  /\ UNCHANGED <<titles, row, poll, sweep, known, failures>>

Found(w) ==
  CASE w.op = "enrich"  -> Enrichments(w.row)
    [] w.op = "trailer" -> {w.row}
    [] w.op = "rating"  -> {[w.row EXCEPT !.rated = TRUE]}

(* An enrichment that is not forced leaves a row that has been enriched. *)
AskerWrites(q) ==
  /\ asker[q].at = "write"
  /\ \/ \E new \in Found(asker[q]) : Update(asker[q].title, new)
     \/ asker[q].op = "enrich" /\ asker[q].row.enriched /\ UNCHANGED <<row, failures>>
  /\ asker' = [asker EXCEPT ![q] = NoWork]
  /\ UNCHANGED <<titles, poll, sweep, asked, known>>

-----------------------------------------------------------------------------
TitlesNext ==
  \/ \E t \in TitleIds : Match(t)
  \/ \E p \in Pollers : PollPicks(p) \/ PollWrites(p)
  \/ SweepLists \/ SweepSkips \/ SweepReads \/ SweepWrites
  \/ \E q \in Askers : AskTitle(q) \/ AskerWrites(q)

(* The schedule starts polls and sweeps again and again; requests end. *)
TitlesFairness ==
  /\ \A p \in Pollers : WF_titlesVars(PollPicks(p) \/ PollWrites(p))
  /\ WF_titlesVars(SweepLists \/ SweepSkips \/ SweepReads \/ SweepWrites)
  /\ \A q \in Askers : WF_titlesVars(AskerWrites(q))

TitlesSpec == TitlesInit /\ [][TitlesNext]_titlesVars /\ TitlesFairness

-----------------------------------------------------------------------------
(* Properties *)

WorkType == [at: {"none", "rating", "write"}, op: {"none", "enrich", "trailer", "rating"},
             title: 0 .. MaxTitle, row: RowType]

TitlesTypeOK ==
  /\ titles \subseteq TitleIds /\ row \in [TitleIds -> RowType]
  /\ poll \in [Pollers -> WorkType] /\ asker \in [Askers -> WorkType] /\ asked \in 0 .. MaxAsked
  /\ sweep \in [at: {"none", "skipping", "next", "enriching"}, rows: SUBSET WorkType,
                work: WorkType]
  /\ known \in [TitleIds -> TitleIds] /\ failures \in 0 .. MaxFailures

(* Whatever the requests of the browser write over with a row they have read
   before, and whichever writes fail for a time, the polls find it again: in the end
   every title has been enriched and, if it has an IMDb id, has a rating or the mark
   that it has none; a title whose rating nobody knows does not hold up the others.
   Excepted is a title whose IMDb id another row has: as long as TMDB names it, its
   whole row is refused, and it is fetched again in every sweep. *)
EndsComplete ==
  <>[](\A t \in titles : /\ row[t].enriched \/ Clashes(t)
                         /\ row[t].imdb => row[t].rated)
=============================================================================
