------------------------------- MODULE Seasons -------------------------------
(***************************************************************************)
(* The recruiting season of a posting (src/intake/dates.py), what the      *)
(* audit makes of it (scripts/audit_filters.py) and how the board buckets  *)
(* it (frontend Listings.tsx).                                             *)
(*                                                                         *)
(* A season is a word, a year, both or neither: "Summer 2027", "2027",     *)
(* "Summer", none.  A text is what the patterns of dates.py can find in    *)
(* it: whether it offers several starts, its first season word, the year   *)
(* next to that word, and the first year of the text.                      *)
(***************************************************************************)
EXTENDS Integers

CONSTANTS
  Words,     \* season words, the four terms and what else sources write
  Years

NoWord == "-"
NoYear == 0

ASSUME SeasonsAssumption ==
  /\ NoWord \notin Words
  /\ Years \subseteq Nat \ {NoYear}

NoSeason == [word |-> NoWord, year |-> NoYear]
Season == [word : Words \cup {NoWord}, year : Years \cup {NoYear}]

SeasonText ==
  {t \in [flexible : BOOLEAN, word : Words \cup {NoWord},
          near : Years \cup {NoYear}, first : Years \cup {NoYear}] :
     t.near # NoYear => t.word # NoWord}

NoText == [flexible |-> FALSE, word |-> NoWord, near |-> NoYear, first |-> NoYear]

\* season_year_plausible: cy is the current year.
Plausible(year, cy) == year \in (cy - 1)..(cy + 3)

\* parse_season.  A flexible text and an implausible year both give no season at all.
Parse(t, cy) ==
  LET year == IF t.near # NoYear THEN t.near ELSE t.first
  IN  IF t.flexible \/ (year # NoYear /\ ~Plausible(year, cy))
      THEN NoSeason
      ELSE [word |-> t.word, year |-> year]

\* resolve_season: the title decides, the page fills in unless the title is flexible.
Resolve(title, page, cy) ==
  LET named == Parse(title, cy)
  IN  IF title.flexible \/ named # NoSeason THEN named ELSE Parse(page, cy)

Stale(season, cy) == season.year # NoYear /\ ~Plausible(season.year, cy)

\* Faulty variants.  The operators named Bug... here and in the other modules are
\* mistakes one could make in the definition that follows each of them; no action uses
\* them, and the properties are shown to fail when one takes its definition's place.
BugReconcile(stored, title, page, cy) ==
  LET named == Parse(title, cy)
  IN  IF stored = NoSeason
      THEN Resolve(title, page, cy)
      ELSE IF Stale(stored, cy) THEN NoSeason
      ELSE IF stored.year # NoYear \/ named.year = NoYear
           THEN stored
           ELSE IF named.word # NoWord THEN named ELSE [stored EXCEPT !.year = named.year]

\* reconcile_season: a stored season stands, unless there is none, its year is stale, or
\* it has no year and the title does.
Reconcile(stored, title, page, cy) ==
  LET named == Parse(title, cy)
  IN  IF stored = NoSeason \/ Stale(stored, cy)
      THEN Resolve(title, page, cy)
      ELSE IF stored.year # NoYear \/ named.year = NoYear
           THEN stored
           ELSE IF named.word # NoWord THEN named ELSE [stored EXCEPT !.year = named.year]

\* season_compare of the audit: the stored season against the title's alone.
SeasonFlag(stored, named) ==
  CASE stored = named -> "consistent"
    [] stored # named /\ named = NoSeason -> "title-silent"
    [] stored = NoSeason /\ named # NoSeason -> "missing-stored"
    [] OTHER -> IF named.word = NoWord /\ stored.year = named.year
                THEN "consistent" ELSE "conflict"

-----------------------------------------------------------------------------
(***************************************************************************)
(* The board's terms.                                                      *)
(***************************************************************************)
StartMonth == [Winter |-> 1, Spring |-> 3, Summer |-> 6, Fall |-> 9]
Terms == DOMAIN StartMonth

\* seasonWindow: the next start of each of the four terms.
SeasonWindow(year, month) ==
  {[word |-> w, year |-> IF StartMonth[w] >= month THEN year ELSE year + 1] : w \in Terms}

TermOf(word) == IF word = "Autumn" THEN "Fall" ELSE word

\* seasonBucket: a term needs a word and a year.
SeasonBucket(season) ==
  IF TermOf(season.word) \in Terms /\ season.year # NoYear
  THEN [season EXCEPT !.word = TermOf(@)]
  ELSE NoSeason
=============================================================================
