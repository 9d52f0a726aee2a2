------------------------------ MODULE MCFiles -------------------------------
(* What becomes of files: how they get their rows, and what those are linked
   to.  The two share no state here: every behaviour is one of one of them, the
   other staying as it begins. *)
EXTENDS MCLibrary, Matches

CONSTANTS r1, r2, SeriesTitle, MovieTitle

VARIABLE part

(* A series and a movie with one TMDB id, and another series. *)
Twins == [t \in Titles |-> IF t = SeriesTitle THEN MovieTitle
                          ELSE IF t = MovieTitle THEN SeriesTitle ELSE NoTitle]

(* Two torrents of one episode. *)
Numbering == [f \in AllFiles |-> 1]

FilesSymmetry == ActorSymmetry \union Permutations(Torrents)

filesVars == <<part, vars, matchesVars>>

FilesInit ==
  /\ part \in {"library", "matches"}
  /\ Init /\ MatchesInit
  /\ part = "matches" => disk = {}
  /\ part = "library" => rebuilt /\ link = [f \in AllFiles |-> NoLink]

FilesNext ==
  /\ UNCHANGED part
  /\ \/ part = "library" /\ Next /\ UNCHANGED matchesVars
     \/ part = "matches" /\ MatchesNext /\ UNCHANGED vars

FilesSpec == FilesInit /\ [][FilesNext]_filesVars

(* The variables of the part that moves have their types. *)
FilesTypeOK == /\ part = "library" => TypeOK
               /\ part = "matches" => MatchesTypeOK
=============================================================================
