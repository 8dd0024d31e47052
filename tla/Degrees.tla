------------------------------- MODULE Degrees -------------------------------
(***************************************************************************)
(* The degree levels a posting is open to (src/intake/degrees.py), and the *)
(* questions the audit asks about them (scripts/audit_filters.py).         *)
(*                                                                         *)
(* A text is what the patterns find in it, up to the first equal-          *)
(* opportunity boilerplate: the levels named by a full word, those named   *)
(* by an abbreviation, and those whose abbreviation has a degree word      *)
(* around it.  An empty set of levels is a requirement nobody stated.      *)
(***************************************************************************)
EXTENDS FiniteSets

Levels == {"BS", "MS", "PhD"}

DegreeText ==
  {t \in [full : SUBSET Levels, short : SUBSET {"BS", "MS"}, near : SUBSET {"BS", "MS"}] :
     t.near \subseteq t.short}

NoDegrees == [full |-> {}, short |-> {}, near |-> {}]

\* hits of classify: an abbreviation counts anywhere in a title, near a degree word in a
\* body.
TitleHits(t) == t.full \cup t.short
BodyHits(t) == t.full \cup t.near

\* classify
Classify(title, body) == IF TitleHits(title) # {} THEN TitleHits(title) ELSE BodyHits(body)

\* degree_page_usable: no application form, embed or mobile shell, no error page.
PageUsable(chrome, error) == ~chrome /\ ~error

BugClassifyPosting(title, page, quals, usable) ==
  LET body == IF usable THEN page ELSE quals
  IN  IF TitleHits(title) # {} THEN TitleHits(title) ELSE BodyHits(body)

\* classify_posting: title, then qualifications, then a page that is one.
ClassifyPosting(title, page, quals, usable) ==
  LET body == IF usable THEN page ELSE quals
  IN  IF TitleHits(title) # {} THEN TitleHits(title)
      ELSE IF BodyHits(quals) # {} THEN BodyHits(quals)
      ELSE Classify(NoDegrees, body)

\* The audit: levels without BS that neither the title nor the qualifications name.
Unsupported(levels, title, quals) ==
  /\ levels # {} /\ "BS" \notin levels
  /\ TitleHits(title) \cap levels = {}
  /\ BodyHits(quals) \cap levels = {}

\* The audit: degree words in the qualifications of a posting without levels.
Unlabelled(levels, quals) == levels = {} /\ BodyHits(quals) # {}
=============================================================================
