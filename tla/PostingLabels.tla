---------------------------- MODULE PostingLabels ----------------------------
(***************************************************************************)
(* The labels of one posting from its detection to its publication: what   *)
(* the gate, the verifier, later sightings and the backfill                *)
(* (scripts/reclassify_fields.py) make of its season, degree levels,       *)
(* category, audience and locations, over the years it stays on record.    *)
(* What a board, an alert and the audit show of it is in Views.            *)
(*                                                                         *)
(* The steps are those of the poller and of an operator who runs the       *)
(* backfill; each handles the posting as it is stored, one at a time: a    *)
(* backfill that overlaps a poll is not modelled.                          *)
(***************************************************************************)
EXTENDS Gate, Views

CONSTANTS
  Detected,    \* postings as a detector may report them
  Answers,     \* how their sites may answer the gate
  Verdicts,    \* what the verifier may say
  NewLabels,   \* locations later sightings may add
  MaxLabels,   \* bound on the locations of the posting
  FirstYear, LastYear

Verdict == [levels : SUBSET Levels, season : Season]
NoVerdict == [levels |-> {}, season |-> NoSeason]

PostingType ==
  [company : CompanyName, title : Title, url : Url, canonical : Url, category : Categories,
   audience : SUBSET Audiences, season : Season, levels : SUBSET Levels, quals : Excerpt,
   labels : Seq(Label), status : OpenStatuses \cup {"rejected"}, verdict : Verdict,
   role : STRING, words : SUBSET STRING, age : Int]

ASSUME PostingLabelsAssumption ==
  /\ Detected \subseteq PostingType
  /\ \A p \in Detected : p.status = "pending" /\ p.levels = {} /\ p.verdict = NoVerdict
                         /\ p.quals = NoExcerpt /\ p.canonical = p.url
  /\ Answers \subseteq Answer
  /\ Verdicts \subseteq Verdict
  /\ NewLabels \subseteq Label
  /\ MaxLabels \in Nat
  /\ FirstYear \in Nat \ {NoYear} /\ LastYear \in Nat /\ FirstYear <= LastYear

VARIABLES
  posting,
  year,      \* the current year
  swept      \* the year the backfill last ran, if no other step relabelled it since

vars == <<posting, year, swept>>

Init ==
  /\ posting \in Detected
  /\ year = FirstYear
  /\ swept = NoYear

(***************************************************************************)
(* The poller.                                                             *)
(***************************************************************************)
Gating ==
  /\ posting.status = "pending"
  /\ \E a \in Answers : posting' = Gated(posting, a, year)
  /\ swept' = NoYear
  /\ UNCHANGED year

\* The verdict is kept whole; its season, if it states one, also replaces the stored one.
Judged(p, v, approved) ==
  [p EXCEPT !.verdict = v,
            !.season = IF v.season # NoSeason THEN v.season ELSE @,
            !.status = IF approved THEN "verified" ELSE "rejected"]

Verify ==
  /\ posting.status = "gated"
  /\ \E v \in Verdicts, approved \in BOOLEAN : posting' = Judged(posting, v, approved)
  /\ swept' = NoYear
  /\ UNCHANGED year

Publish ==
  /\ posting.status = "verified"
  /\ posting' = [posting EXCEPT !.status = "published"]
  /\ UNCHANGED <<year, swept>>

\* upsert_detection adds the locations it does not know.
SightedAt(p, label) ==
  IF \E i \in DOMAIN p.labels : p.labels[i] = label
  THEN p ELSE [p EXCEPT !.labels = Append(@, label)]

Sight ==
  /\ Len(posting.labels) < MaxLabels
  /\ \E label \in NewLabels : posting' = SightedAt(posting, label)
  /\ UNCHANGED <<year, swept>>

(***************************************************************************)
(* The backfill recomputes season and levels from what is stored: the      *)
(* title and the excerpt.                                                  *)
(***************************************************************************)
Reclassified(p, cy) ==
  IF p.status = "rejected"
  THEN p
  ELSE [p EXCEPT
          !.levels = ClassifyPosting(p.title.degrees, NoDegrees, p.quals.degrees, TRUE),
          !.season = Reconcile(p.season, p.title.season, p.quals.season, cy)]

Reclassify ==
  /\ posting' = Reclassified(posting, year)
  /\ swept' = year
  /\ UNCHANGED year

NewYear ==
  /\ year < LastYear
  /\ year' = year + 1
  /\ UNCHANGED <<posting, swept>>

Next == Gating \/ Verify \/ Publish \/ Sight \/ Reclassify \/ NewYear

Spec == Init /\ [][Next]_vars

-----------------------------------------------------------------------------
(***************************************************************************)
(* Properties.                                                             *)
(***************************************************************************)
\* Every variable has its type.
TypeOK ==
  /\ posting \in PostingType
  /\ year \in FirstYear..LastYear
  /\ swept \in {NoYear} \cup FirstYear..LastYear

\* "Deterministic over stored fields, so it is safe to re-run" (reclassify_fields.py): a
\* second run in the same year changes nothing, whatever the first one found.
ScriptIsSettled == swept = year => Reclassified(posting, year) = posting

\* Three of the audit's complaints are what the backfill repairs: after a run, and until the
\* year ends, the audit finds in the posting no season that its title has and it lacks, no
\* degree it fails to list, and, unless a verdict overrides them, no unsupported level.  Its
\* other two, a season in conflict with the title's and a season of a past year, may remain:
\* a stored season stands, whatever the title says, while its year is plausible, and last
\* year is.
AuditIsQuiet ==
  (swept = year /\ posting.status # "rejected")
    => /\ SeasonFlag(posting.season, Parse(posting.title.season, year)) # "missing-stored"
       /\ posting.verdict.levels = {}
            => ~Unsupported(DegreesOf(posting), posting.title.degrees, posting.quals.degrees)
       /\ ~Unlabelled(posting.levels, posting.quals.degrees)

\* "The board already narrows on exactly these rules, so the alert and the page a
\* subscriber checks agree" (notify.py): a published posting matches an alert for some
\* degrees and countries exactly when the board shows it under one of those degrees and
\* one of those countries.  Of companies only one half is true: what the board shows of a
\* company, an alert for that company covers.
Shown(names, degrees, countries) ==
  \E d \in (IF degrees = {} THEN {"any"} ELSE degrees),
     c \in (IF countries = {} THEN {"all"} ELSE countries) :
     BoardShows([DefaultFilter EXCEPT !.firms = names, !.degree = d, !.country = c], posting)

AlertAgreesWithBoard ==
  posting.status = "published" =>
    /\ \A degrees \in SUBSET Levels, countries \in SUBSET Countries :
         AlertMatches(AlertFilter({}, degrees, countries), posting)
           <=> Shown(AnyFirm, degrees, countries)
    /\ \A name \in CompanyName :
         Shown({name}, {}, {}) => AlertMatches(AlertFilter({name}, {}, {}), posting)

\* The three readers of a row agree: the two pages on every filter both of them offer,
\* except that the page of web.py may miss a season spelled otherwise; and the audit with
\* the view the board opens with.  Their conditions on type, audience, role, date and words
\* say the same in both sources and are one operator here, so what is compared is the tab,
\* the degree, the region and the season.
ReadersAgree ==
  /\ \A tab \in {"open", "closed"}, d \in Levels \cup {"any", "grad"},
        c \in Countries \cup {"all", "remote"} :
       LET f == [DefaultFilter EXCEPT !.tab = tab, !.degree = d, !.country = c]
       IN  /\ BoardShows(f, posting) <=> PageShows(f, posting)
           /\ \A term \in SeasonWindow(year, 7) :
                LET g == [f EXCEPT !.season = [kind |-> "term", term |-> term]]
                IN  PageShows(g, posting) => BoardShows(g, posting)
  /\ BoardShows(DefaultFilter, posting) <=> InAuditedView(posting)
=============================================================================
