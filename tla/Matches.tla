------------------------------ MODULE Matches ------------------------------
(* What files and torrents are linked to: matching (get_media_from_tmdb.go),
   rematching a torrent with its siblings (rematch.go), and the two migrations
   that unlink what older versions linked wrong (tmdbIdPerKindMigration.go,
   longEpisodeMigration.go).  Foreign keys are on, so a link to a row that has
   been dropped is refused, as is a second row of a title or an episode.  Rows
   are numbered by the life of what they are of: an id is not given out again. *)
EXTENDS Naturals

CONSTANTS
  Titles,    \* titles TMDB knows
  Series,    \* those that are series; the others are movies
  Twin,      \* Titles -> the title of the other kind with the same TMDB id, or NoTitle
  NoTitle,
  Torrents, MediaFiles,
  Number,    \* files -> the episode in its name, or 0: a movie
  Long,      \* files whose episode older versions took for none
  Matchers,  \* sweeps and requests
  Requests,  \* those of them that rematch a torrent
  MaxLives   \* bound: rows of one title or episode

ASSUME MatchesAssumption ==
  /\ Series \subseteq Titles
  /\ Twin \in [Titles -> Titles \union {NoTitle}]
  /\ Long \subseteq Torrents \union MediaFiles
  /\ MaxLives \in Nat \ {0}

VARIABLES
  titles,    \* metaData: <<title, life>>
  episodes,  \* episode: <<title's row, number, life>>
  link,      \* files -> the row's metaDataId and episodeId
  last,      \* the lives there have been
  stage,      \* what the migrations do next, or "up"
  rebuilt,   \* metaData lets a movie and a series share a TMDB id
  version,   \* user_version: the long episodes have been unlinked
  left,      \* links the migrations have taken away
  job,       \* Matchers -> a file being matched
  halfway    \* killed after the rebuild and before its unlinking was through

matchesVars == <<titles, episodes, link, last, stage, rebuilt, version, left, job, halfway>>

Null == <<>>
NoLink == [title |-> Null, episode |-> Null]
NoJob == [at |-> "none", file |-> NoTitle, rematch |-> FALSE, first |-> FALSE,
          among |-> {}, old |-> NoLink, title |-> Null, episode |-> Null,
          from |-> Null, eps |-> {}, rest |-> {}]

AllFiles == Torrents \union MediaFiles

OfSeries(f) == Number[f] # 0
IsSeries(row) == row[1] \in Series
IsMovie(l) == l.title # Null /\ l.title[1] \notin Series /\ l.episode = Null
OwnEpisode(l) == l.episode # Null /\ l.episode[1] = l.title
Linked(f) == link[f].title # Null
Kind(f) == {t \in Titles : t \in Series <=> OfSeries(f)}

(* The file is on a title of its kind, a series' on its own episode. *)
Fits(f, l) ==
  l.title # Null => /\ IsSeries(l.title) <=> OfSeries(f)
                     /\ IF OfSeries(f) THEN OwnEpisode(l) /\ l.episode[2] = Number[f]
                        ELSE l.episode = Null

Numbers == {Number[f] : f \in AllFiles} \ {0}

(* What older versions have left: an episode number taken for an episode's id,
   a series' file on the movie with its TMDB id, a long episode on a movie. *)
OldLinks(f) ==
  LET rows == Titles \X {1}
      eps == (Series \X {1}) \X Numbers \X {1}
  IN {NoLink} \union
     {l \in [title: rows, episode: {Null} \union eps] :
        \/ Fits(f, l)
        \/ OfSeries(f) /\ ~IsSeries(l.title) /\ (f \in Long \/ Twin[l.title[1]] # NoTitle)
        \/ l.episode # Null /\ ~OwnEpisode(l) /\ (IsSeries(l.title) => OfSeries(f))}

MatchesInit ==
  /\ rebuilt \in BOOLEAN /\ version = FALSE
  /\ link \in [AllFiles -> UNION {OldLinks(f) : f \in AllFiles}]
  /\ \A f \in AllFiles :
       link[f] \in IF ~rebuilt THEN OldLinks(f)
                   ELSE {l \in OldLinks(f) : Fits(f, l) \/ (f \in Long /\ IsMovie(l))}
  /\ episodes = {link[f].episode : f \in AllFiles} \ {Null}
  /\ titles = ({link[f].title : f \in AllFiles} \ {Null}) \union {e[1] : e \in episodes}
  /\ ~rebuilt => \A row \in titles : <<Twin[row[1]], 1>> \notin titles
  /\ last = [x \in Titles \union Titles \X Numbers |->
               IF \/ x \in Titles /\ <<x, 1>> \in titles
                  \/ x \notin Titles /\ <<<<x[1], 1>>, x[2], 1>> \in episodes
               THEN 1 ELSE 0]
  /\ stage = "kind" /\ left = {}
  /\ job = [j \in Matchers |-> NoJob]
  /\ halfway = FALSE

-----------------------------------------------------------------------------
(* DropUnused, in one transaction: what no file is linked to goes, unless a user
   has watched, marked or listed it. *)
DropUnused(title, eps) ==
  \E kept \in SUBSET (eps \union {title}) :
    /\ episodes' = episodes \ {e \in eps \ kept : \A f \in AllFiles : link[f].episode # e}
    /\ titles' = titles \ {t \in {title} \ kept : /\ \A f \in AllFiles : link[f].title # t
                                                 /\ \A e \in episodes' : e[1] # t}

-----------------------------------------------------------------------------
(* The migrations, at every start *)

WrongKind == {f \in AllFiles : Linked(f) /\ (IsSeries(link[f].title) <=> ~OfSeries(f))}

Stray == {f \in AllFiles : link[f].episode # Null /\ ~OwnEpisode(link[f])}

(* On a movie, or on a series without an episode of its own. *)
WrongLong == {f \in Long : Linked(f) /\ ~(IsSeries(link[f].title) /\ OwnEpisode(link[f]))}

Left(f) == IF OwnEpisode(link[f]) THEN link[f] ELSE [link[f] EXCEPT !.episode = Null]

(* MigrateTmdbIdPerKind rebuilds the table in one transaction. *)
Rebuild ==
  /\ stage = "kind"
  /\ rebuilt' = TRUE
  /\ stage' = IF rebuilt THEN "long" ELSE "wrong"
  /\ UNCHANGED <<titles, episodes, link, left, version>>

Unlink(at, wrong, after) ==
  /\ stage = at
  /\ \/ \E f \in wrong :
          /\ link' = [link EXCEPT ![f] = NoLink]
          /\ left' = left \union {Left(f)}
          /\ UNCHANGED stage
     \/ wrong = {} /\ stage' = after /\ UNCHANGED <<link, left>>
  /\ UNCHANGED <<titles, episodes, rebuilt, version>>

(* Title by title, with the episodes left on it. *)
DropLeft(at, after) ==
  /\ stage = at
  /\ \/ \E title \in {l.title : l \in left} :
          /\ DropUnused(title, {l.episode : l \in {k \in left : k.title = title}} \ {Null})
          /\ left' = {l \in left : l.title # title}
          /\ UNCHANGED stage
     \/ left = {} /\ stage' = after /\ UNCHANGED <<titles, episodes, left>>
  /\ UNCHANGED <<link, rebuilt, version>>

UnlinkStray ==
  /\ stage = "stray"
  /\ link' = [f \in AllFiles |-> IF f \in Stray /\ IsSeries(link[f].title) THEN NoLink ELSE link[f]]
  /\ stage' = "clear"
  /\ UNCHANGED <<titles, episodes, rebuilt, version, left>>

ClearStray ==
  /\ stage = "clear"
  /\ link' = [f \in AllFiles |->
                IF f \in Stray THEN [link[f] EXCEPT !.episode = Null] ELSE link[f]]
  /\ stage' = "long"
  /\ UNCHANGED <<titles, episodes, rebuilt, version, left>>

SkipLong ==
  /\ stage = "long" /\ version
  /\ stage' = "up"
  /\ UNCHANGED <<titles, episodes, link, rebuilt, version, left>>

SetVersion ==
  /\ stage = "version"
  /\ version' = TRUE /\ stage' = "up"
  /\ UNCHANGED <<titles, episodes, link, rebuilt, left>>

Migrations ==
  /\ \/ Rebuild
     \/ Unlink("wrong", WrongKind, "drop") \/ DropLeft("drop", "stray")
     \/ UnlinkStray \/ ClearStray
     \/ SkipLong
     \/ ~version /\ Unlink("long", WrongLong, "longdrop")
     \/ DropLeft("longdrop", "version") \/ SetVersion
  /\ UNCHANGED <<last, job, halfway>>

(* Killed, or stopped, and started again. *)
MatchesKill ==
  /\ stage' = "kind" /\ left' = {}
  /\ job' = [j \in Matchers |-> NoJob]
  /\ halfway' = (halfway \/ stage \in {"wrong", "drop", "stray", "clear"})
  /\ UNCHANGED <<titles, episodes, link, last, rebuilt, version>>

-----------------------------------------------------------------------------
(* Matching: the title is found, on TMDB or among the rows, and the episode; what
   is new of them is saved; then the file is linked. *)

Step(j, new) == job' = [job EXCEPT ![j] = new]

Then(j, at) == [job[j] EXCEPT !.at = at]

(* The torrent is through, the rematch goes on with the next. *)
GoOn(j) == [job[j] EXCEPT !.at = "next", !.file = NoTitle, !.old = NoLink,
                          !.title = Null, !.episode = Null]

(* A new series of a torrent is saved once its episode is known, of a file at once. *)
AfterTitle(f) == IF f \in Torrents THEN "episode" ELSE "save"
AfterSave(f) == IF f \in Torrents THEN "add" ELSE "episode"
AfterEpisode(f) == IF f \in Torrents THEN "save" ELSE "add"

Fail(j) == Step(j, IF job[j].rematch THEN Then(j, "restore") ELSE NoJob)

(* A sweep takes the files without a title. *)
MatchFile(j) ==
  /\ j \notin Requests
  /\ stage = "up" /\ job[j].at = "none"
  /\ \E f \in AllFiles :
       /\ ~Linked(f)
       /\ Step(j, [NoJob EXCEPT !.at = "title", !.file = f, !.among = Titles])
  /\ UNCHANGED <<titles, episodes, link, last>>

(* Another title than the one it has; a title the user chose is one of them. *)
RematchTorrent(j) ==
  /\ j \in Requests
  /\ stage = "up" /\ job[j].at = "none"
  /\ \E f \in Torrents :
       Step(j, [NoJob EXCEPT !.at = "title", !.file = f, !.rematch = TRUE, !.first = TRUE,
                             !.among = {t \in Titles : Linked(f) => t # link[f].title[1]},
                             !.old = link[f]])
  /\ UNCHANGED <<titles, episodes, link, last>>

FindTitle(j) ==
  /\ job[j].at = "title"
  /\ \/ Fail(j)
     \/ \E t \in job[j].among \intersect Kind(job[j].file) :
          LET stored == {row \in titles : row[1] = t}
          IN \E row \in IF stored = {} THEN {<<t, 0>>} ELSE stored :
               Step(j, [Then(j, AfterTitle(job[j].file)) EXCEPT !.title = row])
  /\ UNCHANGED <<titles, episodes, link, last>>

(* An episode is looked for by the TMDB id of its series, and its number. *)
FindEpisode(j) ==
  /\ job[j].at = "episode"
  /\ LET f == job[j].file
         t == job[j].title[1]
         stored == {e \in episodes : e[1][1] = t /\ e[2] = Number[f]}
     IN \/ OfSeries(f) /\ stored = {} /\ Fail(j)
        \/ \E e \in IF ~OfSeries(f) THEN {Null}
                    ELSE IF stored = {} THEN {<<job[j].title, Number[f], 0>>} ELSE stored :
             Step(j, [Then(j, AfterEpisode(f)) EXCEPT !.episode = e])
  /\ UNCHANGED <<titles, episodes, link, last>>

InsertTitle(j, t) ==
  LET row == <<t, last[t] + 1>>
  IN /\ last[t] < MaxLives
     /\ titles' = titles \union {row}
     /\ last' = [last EXCEPT ![t] = @ + 1]
     /\ Step(j, [Then(j, AfterSave(job[j].file)) EXCEPT !.title = row])

(* Mutant: nothing keeps a title from having two rows. *)
SaveTitleTwice(j) ==
  /\ job[j].at = "save"
  /\ IF job[j].title[2] # 0 THEN Step(j, Then(j, AfterSave(job[j].file))) /\ UNCHANGED <<titles, last>>
     ELSE InsertTitle(j, job[j].title[1])
  /\ UNCHANGED <<episodes, link>>

(* The index on the TMDB id and the kind refuses a second row. *)
SaveTitle(j) ==
  LET t == job[j].title[1]
  IN /\ job[j].at = "save"
     /\ IF job[j].title[2] # 0
        THEN Step(j, Then(j, AfterSave(job[j].file))) /\ UNCHANGED <<titles, last>>
        ELSE IF \E row \in titles : row[1] = t THEN Fail(j) /\ UNCHANGED <<titles, last>>
        ELSE InsertTitle(j, t)
     /\ UNCHANGED <<episodes, link>>

(* Of the title's row, if it is there still. *)
SaveEpisode(j) ==
  LET row == job[j].title
      n == Number[job[j].file]
      x == <<row[1], n>>
  IN /\ job[j].at = "add"
     /\ IF job[j].episode = Null \/ job[j].episode[3] # 0
        THEN Step(j, Then(j, "link")) /\ UNCHANGED <<episodes, last>>
        ELSE IF row \notin titles \/ \E e \in episodes : e[1][1] = row[1] /\ e[2] = n
        THEN Fail(j) /\ UNCHANGED <<episodes, last>>
        ELSE /\ last[x] < MaxLives
             /\ episodes' = episodes \union {<<row, n, last[x] + 1>>}
             /\ last' = [last EXCEPT ![x] = @ + 1]
             /\ Step(j, [Then(j, "link") EXCEPT !.episode = <<row, n, last[x] + 1>>])
     /\ UNCHANGED <<titles, link>>

(* Foreign keys *)
MayLink(l) == l.title \in titles \union {Null} /\ l.episode \in episodes \union {Null}

SaveLink(j) ==
  LET l == [title |-> job[j].title, episode |-> job[j].episode]
      moved == job[j].eps \union ({job[j].old.episode} \ {Null})
  IN /\ job[j].at = "link"
     /\ IF ~MayLink(l) THEN Fail(j) /\ UNCHANGED link
        ELSE /\ link' = [link EXCEPT ![job[j].file] = l]
             /\ Step(j, IF ~job[j].rematch THEN NoJob
                        ELSE IF job[j].first
                        THEN [Then(j, "siblings") EXCEPT !.first = FALSE, !.eps = moved,
                                                         !.from = job[j].old.title]
                        ELSE [GoOn(j) EXCEPT !.eps = moved])
     /\ UNCHANGED <<titles, episodes, last>>

(* relink gives the torrent its old links back. *)
Restore(j) ==
  /\ job[j].at = "restore"
  /\ link' = IF MayLink(job[j].old) THEN [link EXCEPT ![job[j].file] = job[j].old] ELSE link
  /\ Step(j, IF job[j].first THEN NoJob ELSE GoOn(j))
  /\ UNCHANGED <<titles, episodes, last>>

(* Torrents of the same name on the title that was left; the new title, if it is
   there still, is known by its TMDB id now. *)
FindSiblings(j) ==
  /\ job[j].at = "siblings"
  /\ LET siblings == {f \in Torrents \ {job[j].file} : Linked(f) /\ link[f].title = job[j].from}
         t == job[j].title[1]
     IN Step(j, IF job[j].title \notin titles THEN NoJob
                ELSE [GoOn(j) EXCEPT !.among = {t, Twin[t]} \ {NoTitle},
                                     !.rest = {<<f, link[f]>> : f \in siblings}])
  /\ UNCHANGED <<titles, episodes, link, last>>

NextSibling(j) ==
  /\ job[j].at = "next"
  /\ \E s \in job[j].rest :
       Step(j, [Then(j, "title") EXCEPT !.file = s[1], !.old = s[2], !.rest = @ \ {s}])
  /\ UNCHANGED <<titles, episodes, link, last>>

DropOld(j) ==
  /\ job[j].at = "next" /\ job[j].rest = {}
  /\ DropUnused(job[j].from, job[j].eps)
  /\ Step(j, NoJob)
  /\ UNCHANGED <<link, last>>

Matching ==
  /\ \E j \in Matchers :
       \/ MatchFile(j) \/ RematchTorrent(j) \/ FindTitle(j) \/ FindEpisode(j) \/ SaveTitle(j)
       \/ SaveEpisode(j) \/ SaveLink(j) \/ Restore(j) \/ FindSiblings(j) \/ NextSibling(j)
       \/ DropOld(j)
  /\ UNCHANGED <<stage, rebuilt, version, left, halfway>>

MatchesNext == Migrations \/ Matching \/ MatchesKill

MatchesSpec == MatchesInit /\ [][MatchesNext]_matchesVars

-----------------------------------------------------------------------------
(* Properties *)

Lives == 0..MaxLives
TitleRows == Titles \X Lives
EpisodeRows == TitleRows \X Numbers \X Lives
Links == [title: {Null} \union TitleRows, episode: {Null} \union EpisodeRows]

Jobs == [at: {"none", "title", "episode", "save", "add", "link", "restore", "siblings", "next"},
         file: AllFiles \union {NoTitle}, rematch: BOOLEAN, first: BOOLEAN,
         among: SUBSET Titles, old: Links, title: {Null} \union TitleRows,
         episode: {Null} \union EpisodeRows, from: {Null} \union TitleRows,
         eps: SUBSET EpisodeRows, rest: SUBSET (Torrents \X Links)]

MatchesTypeOK ==
  /\ titles \subseteq TitleRows /\ episodes \subseteq EpisodeRows
  /\ link \in [AllFiles -> Links] /\ left \subseteq Links
  /\ last \in [Titles \union Titles \X Numbers -> Lives]
  /\ stage \in {"kind", "wrong", "drop", "stray", "clear", "long", "longdrop", "version", "up"}
  /\ rebuilt \in BOOLEAN /\ version \in BOOLEAN /\ halfway \in BOOLEAN
  /\ job \in [Matchers -> Jobs]

(* Once the program is up, every file that is linked is on a title of its kind,
   and one of a series on its own episode of that very title: whatever older
   versions linked, wherever the migrations were killed, and however sweeps and
   rematches, which drop and add the same titles, interleave; unless a kill came
   between rebuilding metaData and unlinking, which then is never done. *)
LinksFit == stage = "up" /\ ~halfway => \A f \in AllFiles : Fits(f, link[f])
=============================================================================
