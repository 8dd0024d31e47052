------------------------- MODULE PostingLabelsProofs -------------------------
(***************************************************************************)
(* Proofs about PostingLabels, for every value of its constants: every     *)
(* title, page and excerpt the patterns can tell apart, every verdict, any *)
(* number of locations and years.                                          *)
(***************************************************************************)
EXTENDS PostingLabels, TLAPS

\* A backfill lies in the past or in this year, and what it left is settled.
IInv ==
  /\ TypeOK
  /\ swept <= year
  /\ ScriptIsSettled

-----------------------------------------------------------------------------
(***************************************************************************)
(* Seasons.                                                                *)
(***************************************************************************)
\* A parsed season is a season, and never a stale one.
LEMMA ParseType ==
  ASSUME NEW t \in SeasonText, NEW cy \in Nat
  PROVE  Parse(t, cy) \in Season /\ ~Stale(Parse(t, cy), cy)
<1>1. /\ t.word \in Words \cup {NoWord} /\ t.near \in Years \cup {NoYear}
      /\ t.first \in Years \cup {NoYear}
  BY DEF SeasonText
<1> QED BY <1>1 DEF Parse, Season, NoSeason, Stale

\* A resolved season is a season, never a stale one, and the title's if it names one.
LEMMA ResolveType ==
  ASSUME NEW title \in SeasonText, NEW page \in SeasonText, NEW cy \in Nat
  PROVE  /\ Resolve(title, page, cy) \in Season /\ ~Stale(Resolve(title, page, cy), cy)
         /\ Parse(title, cy) # NoSeason => Resolve(title, page, cy) = Parse(title, cy)
BY ParseType DEF Resolve

\* A reconciled season is a season.
LEMMA ReconcileType ==
  ASSUME NEW stored \in Season, NEW title \in SeasonText, NEW page \in SeasonText,
         NEW cy \in Nat
  PROVE  Reconcile(stored, title, page, cy) \in Season
<1>1. Parse(title, cy) \in Season /\ Resolve(title, page, cy) \in Season
  BY ParseType, ResolveType
<1> QED BY <1>1 DEF Reconcile, Season

\* Reconciling twice is reconciling once (reconcile_season).
LEMMA ReconcileSettles ==
  ASSUME NEW stored \in Season, NEW title \in SeasonText, NEW page \in SeasonText,
         NEW cy \in Nat
  PROVE  LET once == Reconcile(stored, title, page, cy)
         IN  Reconcile(once, title, page, cy) = once
<1> DEFINE named == Parse(title, cy)
           resolved == Resolve(title, page, cy)
<1>1. /\ named \in Season /\ ~Stale(named, cy)
      /\ resolved \in Season /\ ~Stale(resolved, cy)
      /\ named # NoSeason => resolved = named
  BY ParseType, ResolveType
<1> DEFINE Once(s) == IF s = NoSeason \/ Stale(s, cy)
                      THEN resolved
                      ELSE IF s.year # NoYear \/ named.year = NoYear
                           THEN s
                           ELSE IF named.word # NoWord THEN named
                                ELSE [s EXCEPT !.year = named.year]
<1>2. \A s : Reconcile(s, title, page, cy) = Once(s)
  BY DEF Reconcile
<1> HIDE DEF named, resolved
<1>3. Once(Once(stored)) = Once(stored)
  BY <1>1 DEF Season, NoSeason, Stale
<1> HIDE DEF Once
<1> QED BY <1>2, <1>3

-----------------------------------------------------------------------------
(***************************************************************************)
(* Degree levels.                                                          *)
(***************************************************************************)
LEMMA HitsType ==
  ASSUME NEW t \in DegreeText
  PROVE  TitleHits(t) \subseteq Levels /\ BodyHits(t) \subseteq Levels
BY DEF DegreeText, TitleHits, BodyHits, Levels

\* A posting's degrees are degree levels.
LEMMA ClassifyType ==
  ASSUME NEW title \in DegreeText, NEW page \in DegreeText, NEW quals \in DegreeText,
         NEW usable \in BOOLEAN
  PROVE  ClassifyPosting(title, page, quals, usable) \in SUBSET Levels
<1>1. TitleHits(NoDegrees) = {} /\ BodyHits(NoDegrees) = {}
  BY DEF NoDegrees, TitleHits, BodyHits
<1> QED BY <1>1, HitsType DEF ClassifyPosting, Classify

\* Classified from title and excerpt alone, levels are named by one of them.
LEMMA ClassifyNames ==
  ASSUME NEW title, NEW quals
  PROVE  ClassifyPosting(title, NoDegrees, quals, TRUE) =
           IF TitleHits(title) # {} THEN TitleHits(title) ELSE BodyHits(quals)
<1>1. TitleHits(NoDegrees) = {} /\ BodyHits(NoDegrees) = {}
  BY DEF NoDegrees, TitleHits, BodyHits
<1> QED BY <1>1 DEF ClassifyPosting, Classify

-----------------------------------------------------------------------------
(***************************************************************************)
(* The backfill.                                                           *)
(***************************************************************************)
\* What the backfill changes of a posting.
LEMMA ReclassifiedFields ==
  ASSUME NEW p \in PostingType, NEW cy \in Nat
  PROVE  /\ Reclassified(p, cy) \in PostingType
         /\ p.status = "rejected" => Reclassified(p, cy) = p
         /\ p.status # "rejected" =>
              /\ Reclassified(p, cy).season =
                   Reconcile(p.season, p.title.season, p.quals.season, cy)
              /\ Reclassified(p, cy).levels =
                   ClassifyPosting(p.title.degrees, NoDegrees, p.quals.degrees, TRUE)
              /\ Reclassified(p, cy).status = p.status
              /\ Reclassified(p, cy).title = p.title
              /\ Reclassified(p, cy).quals = p.quals
<1> DEFINE s == Reconcile(p.season, p.title.season, p.quals.season, cy)
           l == ClassifyPosting(p.title.degrees, NoDegrees, p.quals.degrees, TRUE)
<1>1. /\ p.season \in Season /\ p.title.season \in SeasonText /\ p.quals.season \in SeasonText
      /\ p.title.degrees \in DegreeText /\ p.quals.degrees \in DegreeText
      /\ NoDegrees \in DegreeText
  BY DEF PostingType, Title, Excerpt, DegreeText, NoDegrees
<1>2. s \in Season /\ l \in SUBSET Levels
  BY <1>1, ReconcileType, ClassifyType
<1>3. Reclassified(p, cy) =
        IF p.status = "rejected" THEN p ELSE [p EXCEPT !.levels = l, !.season = s]
  BY DEF Reclassified
<1> HIDE DEF s, l
<1>4. /\ Reclassified(p, cy) \in PostingType
      /\ p.status = "rejected" => Reclassified(p, cy) = p
      /\ p.status # "rejected" =>
           /\ Reclassified(p, cy).season = s
           /\ Reclassified(p, cy).levels = l
           /\ Reclassified(p, cy).status = p.status
           /\ Reclassified(p, cy).title = p.title
           /\ Reclassified(p, cy).quals = p.quals
  BY <1>2, <1>3 DEF PostingType
<1> QED BY <1>4 DEF s, l

\* A posting is settled when its season and its levels are what the backfill gives.
LEMMA SettledFields ==
  ASSUME NEW p \in PostingType, NEW cy \in Nat
  PROVE  Reclassified(p, cy) = p <=>
           \/ p.status = "rejected"
           \/ /\ p.season = Reconcile(p.season, p.title.season, p.quals.season, cy)
              /\ p.levels = ClassifyPosting(p.title.degrees, NoDegrees, p.quals.degrees, TRUE)
<1> DEFINE s == Reconcile(p.season, p.title.season, p.quals.season, cy)
           l == ClassifyPosting(p.title.degrees, NoDegrees, p.quals.degrees, TRUE)
<1>1. Reclassified(p, cy) =
        IF p.status = "rejected" THEN p ELSE [p EXCEPT !.levels = l, !.season = s]
  BY DEF Reclassified
<1>2. p.status # "rejected" /\ Reclassified(p, cy) = p => p.season = s /\ p.levels = l
  BY ReclassifiedFields
<1> HIDE DEF s, l
<1>3. p.season = s /\ p.levels = l => [p EXCEPT !.levels = l, !.season = s] = p
  BY DEF PostingType
<1>4. Reclassified(p, cy) = p <=> p.status = "rejected" \/ (p.season = s /\ p.levels = l)
  BY <1>1, <1>2, <1>3
<1> QED BY <1>4 DEF s, l

\* A second run changes nothing.
LEMMA ReclassifySettles ==
  ASSUME NEW p \in PostingType, NEW cy \in Nat
  PROVE  Reclassified(Reclassified(p, cy), cy) = Reclassified(p, cy)
<1> DEFINE q == Reclassified(p, cy)
<1>1. q \in PostingType
  BY ReclassifiedFields
<1>2. CASE p.status = "rejected"
  BY <1>2, ReclassifiedFields
<1>3. CASE p.status # "rejected"
  <2>1. /\ q.season = Reconcile(p.season, p.title.season, p.quals.season, cy)
        /\ q.levels = ClassifyPosting(p.title.degrees, NoDegrees, p.quals.degrees, TRUE)
        /\ q.title = p.title /\ q.quals = p.quals
    BY <1>3, ReclassifiedFields
  <2>2. p.season \in Season /\ p.title.season \in SeasonText /\ p.quals.season \in SeasonText
    BY DEF PostingType, Title, Excerpt
  <2> HIDE DEF q
  <2>3. q.season = Reconcile(q.season, q.title.season, q.quals.season, cy)
    BY <2>1, <2>2, ReconcileSettles
  <2>4. q.levels = ClassifyPosting(q.title.degrees, NoDegrees, q.quals.degrees, TRUE)
    BY <2>1
  <2>5. Reclassified(q, cy) = q
    BY <1>1, <2>3, <2>4, SettledFields
  <2> QED BY <2>5 DEF q
<1> QED BY <1>2, <1>3

-----------------------------------------------------------------------------
(***************************************************************************)
(* The gate and the other steps.                                           *)
(***************************************************************************)
\* What the gate makes of a posting is a posting, with the locations it had.
LEMMA GatedType ==
  ASSUME NEW p \in PostingType, NEW a \in Answer, NEW cy \in Nat
  PROVE  Gated(p, a, cy) \in PostingType /\ Gated(p, a, cy).labels = p.labels
<1> DEFINE url == CanonicalUrl(p, a)
           page == PageText(a)
           category == RefineCategory(p.category, p.title, url)
           audience == p.audience \cup p.title.audience \cup page.audience
           season == Reconcile(p.season, p.title.season, page.season, cy)
           levels == ClassifyPosting(p.title.degrees, page.degrees, page.quals.degrees,
                                     PageUsable(url.chrome, page.error))
           q == [p EXCEPT !.status = "gated", !.canonical = url, !.category = category,
                          !.audience = audience, !.quals = page.quals, !.season = season,
                          !.levels = levels]
<1>1. url \in Url
  <2>1. p.url \in Url /\ a.url \in Url
    BY DEF PostingType, Answer
  <2>2. \A u \in Url : StripTracking(u) \in Url
    BY DEF StripTracking, Url
  <2> QED BY <2>1, <2>2 DEF CanonicalUrl
<1>2. page \in Page
  <2>1. NoText \in SeasonText /\ NoDegrees \in DegreeText
    BY DEF NoText, SeasonText, NoDegrees, DegreeText
  <2>2. EmptyPage \in Page
    BY <2>1 DEF EmptyPage, Page, NoExcerpt, Excerpt
  <2> QED BY <2>2 DEF PageText, Answer
<1>3. /\ page.season \in SeasonText /\ page.degrees \in DegreeText
      /\ page.quals \in Excerpt /\ page.quals.degrees \in DegreeText
      /\ page.audience \subseteq Audiences /\ page.error \in BOOLEAN /\ url.chrome \in BOOLEAN
  <2> HIDE DEF page, url
  <2> QED BY <1>1, <1>2 DEF Page, Excerpt, Url
<1>4. /\ p.category \in Categories /\ p.title \in Title /\ p.season \in Season
      /\ p.audience \subseteq Audiences /\ p.title.audience \subseteq Audiences
      /\ p.title.season \in SeasonText /\ p.title.degrees \in DegreeText
  BY DEF PostingType, Title
<1> HIDE DEF url, page
<1>5. category \in Categories
  BY <1>4 DEF RefineCategory, Categories
<1>6. audience \subseteq Audiences
  BY <1>3, <1>4
<1>7. season \in Season
  BY <1>3, <1>4, ReconcileType
<1>8. levels \in SUBSET Levels
  BY <1>3, <1>4, ClassifyType DEF PageUsable
<1>9. Gated(p, a, cy) \in {[p EXCEPT !.status = "rejected"], q}
  BY DEF Gated, url, page
<1> HIDE DEF category, audience, season, levels
<1>10. q \in PostingType /\ q.labels = p.labels
  BY <1>1, <1>3, <1>5, <1>6, <1>7, <1>8 DEF PostingType, OpenStatuses
<1>11. [p EXCEPT !.status = "rejected"] \in PostingType
       /\ [p EXCEPT !.status = "rejected"].labels = p.labels
  BY DEF PostingType
<1> HIDE DEF q
<1> QED BY <1>9, <1>10, <1>11

\* A verdict makes a posting of a posting, with the labels it had.
LEMMA JudgedType ==
  ASSUME NEW p \in PostingType, NEW v \in Verdict, NEW approved \in BOOLEAN
  PROVE  Judged(p, v, approved) \in PostingType /\ Judged(p, v, approved).labels = p.labels
<1>1. v.season \in Season /\ p.season \in Season
  BY DEF Verdict, PostingType
<1> QED BY <1>1 DEF Judged, PostingType, OpenStatuses

\* A sighting changes the locations only.
LEMMA SightedType ==
  ASSUME NEW p \in PostingType, NEW label \in Label
  PROVE  LET q == SightedAt(p, label)
         IN  /\ q \in PostingType
             /\ q.status = p.status /\ q.season = p.season /\ q.levels = p.levels
             /\ q.title = p.title /\ q.quals = p.quals
<1> DEFINE longer == Append(p.labels, label)
<1>1. longer \in Seq(Label)
  BY DEF PostingType
<1>2. SightedAt(p, label) \in {p, [p EXCEPT !.labels = longer]}
  BY DEF SightedAt
<1> HIDE DEF longer
<1> QED BY <1>1, <1>2 DEF PostingType

\* A step that leaves season, levels, title and excerpt alone leaves a settled posting
\* settled.
LEMMA StaysSettled ==
  ASSUME NEW p \in PostingType, NEW q \in PostingType, NEW cy \in Nat,
         Reclassified(p, cy) = p, p.status # "rejected",
         q.season = p.season, q.levels = p.levels, q.title = p.title, q.quals = p.quals
  PROVE  Reclassified(q, cy) = q
<1>1. /\ p.season = Reconcile(p.season, p.title.season, p.quals.season, cy)
      /\ p.levels = ClassifyPosting(p.title.degrees, NoDegrees, p.quals.degrees, TRUE)
  BY SettledFields
<1>2. /\ q.season = Reconcile(q.season, q.title.season, q.quals.season, cy)
      /\ q.levels = ClassifyPosting(q.title.degrees, NoDegrees, q.quals.degrees, TRUE)
  BY <1>1
<1> QED BY <1>2, SettledFields

\* The first posting satisfies the invariant.
LEMMA InitInv == Init => IInv
<1> SUFFICES ASSUME Init PROVE IInv
  OBVIOUS
<1>1. posting \in PostingType /\ year = FirstYear /\ swept = NoYear
  BY PostingLabelsAssumption DEF Init
<1>2. FirstYear \in Nat /\ FirstYear <= LastYear /\ LastYear \in Nat /\ FirstYear # NoYear
  BY PostingLabelsAssumption
<1>3. TypeOK
  BY <1>1, <1>2 DEF TypeOK
<1>4. swept <= year /\ swept # year
  BY <1>1, <1>2 DEF NoYear
<1> QED BY <1>3, <1>4 DEF IInv, ScriptIsSettled

\* Every step keeps the invariant.
LEMMA StepInv ==
  ASSUME IInv, [Next]_vars
  PROVE  IInv'
<1>1. /\ posting \in PostingType /\ year \in FirstYear..LastYear
      /\ swept \in {NoYear} \cup FirstYear..LastYear
      /\ swept <= year /\ (swept = year => Reclassified(posting, year) = posting)
  BY DEF IInv, TypeOK, ScriptIsSettled
<1>2. /\ FirstYear \in Nat \ {0} /\ LastYear \in Nat /\ NoYear = 0
      /\ year \in Nat /\ year # NoYear /\ swept \in Nat
  BY <1>1, PostingLabelsAssumption DEF NoYear
<1>3. SUFFICES /\ posting' \in PostingType
               /\ year' \in FirstYear..LastYear
               /\ swept' \in {NoYear} \cup FirstYear..LastYear
               /\ swept' <= year'
               /\ swept' = year' => Reclassified(posting', year') = posting'
  BY DEF IInv, TypeOK, ScriptIsSettled
<1>4. CASE Gating
  <2>1. PICK a \in Answers : posting' = Gated(posting, a, year)
    BY <1>4 DEF Gating
  <2>2. posting' \in PostingType
    BY <1>1, <1>2, <2>1, GatedType, PostingLabelsAssumption
  <2> QED BY <1>1, <1>2, <1>4, <2>2 DEF Gating
<1>5. CASE Verify
  <2>1. PICK v \in Verdicts, approved \in BOOLEAN : posting' = Judged(posting, v, approved)
    BY <1>5 DEF Verify
  <2>2. posting' \in PostingType
    BY <1>1, <2>1, JudgedType, PostingLabelsAssumption
  <2> QED BY <1>1, <1>2, <1>5, <2>2 DEF Verify
<1>6. CASE Publish
  <2>1. /\ posting' \in PostingType
        /\ posting'.season = posting.season /\ posting'.levels = posting.levels
        /\ posting'.title = posting.title /\ posting'.quals = posting.quals
        /\ posting.status # "rejected" /\ UNCHANGED <<year, swept>>
    BY <1>1, <1>6 DEF Publish, PostingType, OpenStatuses
  <2>2. swept = year => Reclassified(posting', year) = posting'
    BY <1>1, <1>2, <2>1, StaysSettled
  <2> QED BY <1>1, <1>2, <2>1, <2>2
<1>7. CASE Sight
  <2>1. PICK label \in NewLabels : posting' = SightedAt(posting, label)
    BY <1>7 DEF Sight
  <2>2. /\ posting' \in PostingType
        /\ posting'.season = posting.season /\ posting'.levels = posting.levels
        /\ posting'.title = posting.title /\ posting'.quals = posting.quals
        /\ posting'.status = posting.status /\ UNCHANGED <<year, swept>>
    BY <1>1, <1>7, <2>1, SightedType, PostingLabelsAssumption DEF Sight
  <2>3. posting.status = "rejected" => Reclassified(posting', year) = posting'
    BY <2>2 DEF Reclassified
  <2>4. swept = year => Reclassified(posting', year) = posting'
    BY <1>1, <1>2, <2>2, <2>3, StaysSettled
  <2> QED BY <1>1, <1>2, <2>2, <2>4
<1>8. CASE Reclassify
  <2>1. posting' = Reclassified(posting, year) /\ swept' = year /\ year' = year
    BY <1>8 DEF Reclassify
  <2>2. posting' \in PostingType
    BY <1>1, <1>2, <2>1, ReclassifiedFields
  <2>3. Reclassified(posting', year) = posting'
    BY <1>1, <1>2, <2>1, ReclassifySettles
  <2> QED BY <1>1, <1>2, <2>1, <2>2, <2>3
<1>9. CASE NewYear
  BY <1>1, <1>2, <1>9 DEF NewYear
<1>10. CASE UNCHANGED vars
  BY <1>1, <1>2, <1>10 DEF vars
<1> QED BY <1>4, <1>5, <1>6, <1>7, <1>8, <1>9, <1>10 DEF Next

\* The inductive invariant.
THEOREM Invariance == Spec => []IInv
BY InitInv, StepInv, PTL DEF Spec

\* A posting keeps its type through every step of the poller and the backfill.
THEOREM TypeCorrect == Spec => []TypeOK
<1>1. IInv => TypeOK
  BY DEF IInv
<1> QED BY <1>1, Invariance, PTL

\* The backfill is safe to run again: in the year it ran, and until the poller relabels
\* the posting, a second run changes nothing (reclassify_fields.py).
THEOREM RerunIsSafe == Spec => []ScriptIsSettled
<1>1. IInv => ScriptIsSettled
  BY DEF IInv
<1> QED BY <1>1, Invariance, PTL

\* The backfill repairs what the audit reports (audit_filters.py).
THEOREM AuditFindsNothing == Spec => []AuditIsQuiet
<1>1. IInv => AuditIsQuiet
  <2> SUFFICES ASSUME IInv, swept = year, posting.status # "rejected"
               PROVE  /\ SeasonFlag(posting.season, Parse(posting.title.season, year))
                           # "missing-stored"
                      /\ posting.verdict.levels = {}
                           => ~Unsupported(DegreesOf(posting), posting.title.degrees,
                                           posting.quals.degrees)
                      /\ ~Unlabelled(posting.levels, posting.quals.degrees)
    BY DEF AuditIsQuiet
  <2>1. posting \in PostingType /\ year \in Nat /\ Reclassified(posting, year) = posting
    BY PostingLabelsAssumption DEF IInv, TypeOK, ScriptIsSettled
  <2>2. /\ posting.season =
             Reconcile(posting.season, posting.title.season, posting.quals.season, year)
        /\ posting.levels = ClassifyPosting(posting.title.degrees, NoDegrees,
                                            posting.quals.degrees, TRUE)
    BY <2>1, SettledFields
  <2> DEFINE named == Parse(posting.title.season, year)
  <2>3. posting.title.season \in SeasonText /\ posting.quals.season \in SeasonText
    BY <2>1 DEF PostingType, Title, Excerpt
  <2>4. posting.season = NoSeason => named = NoSeason
    <3>1. SUFFICES ASSUME posting.season = NoSeason, named # NoSeason PROVE FALSE
      OBVIOUS
    <3>2. posting.season = Resolve(posting.title.season, posting.quals.season, year)
      BY <2>2, <3>1 DEF Reconcile
    <3> QED BY <2>1, <2>3, <3>1, <3>2, ResolveType
  <2>5. SeasonFlag(posting.season, named) # "missing-stored"
    <3> HIDE DEF named
    <3> QED BY <2>4 DEF SeasonFlag
  <2>6. posting.levels = IF TitleHits(posting.title.degrees) # {}
                         THEN TitleHits(posting.title.degrees)
                         ELSE BodyHits(posting.quals.degrees)
    BY <2>2, ClassifyNames
  <2> QED BY <2>5, <2>6 DEF Unsupported, Unlabelled, DegreesOf
<1> QED BY <1>1, Invariance, PTL

-----------------------------------------------------------------------------
(***************************************************************************)
(* The readers.                                                            *)
(***************************************************************************)
\* The view a reader has who picked companies, a degree and a region.
Picked(firms, degree, country) ==
  [DefaultFilter EXCEPT !.firms = firms, !.degree = degree, !.country = country]

\* What the board shows in such a view depends on those menus alone.
LEMMA BoardNarrows ==
  ASSUME NEW p \in PostingType, NEW firms, NEW degree, NEW country
  PROVE  /\ Picked(firms, degree, country).firms = firms
         /\ Picked(firms, degree, country).degree = degree
         /\ Picked(firms, degree, country).country = country
         /\ BoardShows(Picked(firms, degree, country), p) <=>
              /\ p.status \in OpenStatuses
              /\ InFirms(Picked(firms, degree, country), p)
              /\ InDegree(Picked(firms, degree, country), p)
              /\ InRegion(Picked(firms, degree, country), p)
<1> DEFINE f == Picked(firms, degree, country)
<1>1. /\ f.firms = firms /\ f.degree = degree /\ f.country = country /\ f.tab = "open"
      /\ f.role = "all" /\ f.type = "all" /\ f.audience = "all" /\ f.hours = AnyTime
      /\ f.season = AllSeasons /\ f.words = {}
  BY DEF DefaultFilter, Picked
<1> HIDE DEF f
<1>2. InTab(f, p) <=> p.status \in OpenStatuses
  BY <1>1 DEF InTab
<1>3. InType(f, p) /\ InAudience(f, p) /\ InTime(f, p) /\ InSeason(f, p)
  BY <1>1 DEF InType, InAudience, InTime, InSeason, AllSeasons
<1>4. BoardShows(f, p) <=>
        p.status \in OpenStatuses /\ InFirms(f, p) /\ InDegree(f, p) /\ InRegion(f, p)
  BY <1>1, <1>2, <1>3 DEF BoardShows
<1> QED BY <1>1, <1>4 DEF f

\* A posting within one degree, and one country, of those picked.
FitsDegree(p, d) == d = "any" \/ DegreesOf(p) = {} \/ d \in DegreesOf(p)
FitsCountry(p, c) ==
  c = "all" \/ IsRemote(p.labels) \/ CountriesOf(p.labels) = {} \/ c \in CountriesOf(p.labels)

\* The board shows a published posting to a reader's choice exactly when its company,
\* its degree and its country fit it.
LEMMA BoardFits ==
  ASSUME NEW p \in PostingType, p.status = "published", NEW firms,
         NEW d \in Levels \cup {"any"}, NEW c \in Countries \cup {"all"}
  PROVE  BoardShows(Picked(firms, d, c), p)
           <=> InFirms(Picked(firms, d, c), p) /\ FitsDegree(p, d) /\ FitsCountry(p, c)
<1> DEFINE f == Picked(firms, d, c)
<1>1. /\ f.firms = firms /\ f.degree = d /\ f.country = c
      /\ BoardShows(f, p) <=>
           p.status \in OpenStatuses /\ InFirms(f, p) /\ InDegree(f, p) /\ InRegion(f, p)
  BY BoardNarrows
<1> HIDE DEF f
<1>2. p.status \in OpenStatuses
  BY DEF OpenStatuses
<1>3. InDegree(f, p) <=> FitsDegree(p, d)
  BY <1>1 DEF InDegree, FitsDegree, Levels
<1>4. InRegion(f, p) <=> FitsCountry(p, c)
  <2>1. c # "remote" /\ c # "us-ca"
    BY ViewsAssumption
  <2> QED BY <1>1, <2>1 DEF InRegion, FitsCountry, RemoteServed, CountriesServed
<1>5. BoardShows(f, p) <=> InFirms(f, p) /\ FitsDegree(p, d) /\ FitsCountry(p, c)
  BY <1>1, <1>2, <1>3, <1>4
<1> QED BY <1>5 DEF f

\* A published posting matches an alert for some degrees and countries exactly when the
\* board shows it under one of each, and an alert for a company covers what the board
\* shows of it (notify.py, Listings.tsx).
THEOREM AlertsAgree == Spec => []AlertAgreesWithBoard
<1>1. ASSUME posting \in PostingType, posting.status = "published",
             NEW degrees \in SUBSET Levels, NEW countries \in SUBSET Countries
      PROVE  AlertMatches(AlertFilter({}, degrees, countries), posting)
               <=> Shown(AnyFirm, degrees, countries)
  <2> DEFINE ds == IF degrees = {} THEN {"any"} ELSE degrees
             cs == IF countries = {} THEN {"all"} ELSE countries
  <2>1. Shown(AnyFirm, degrees, countries) <=>
          \E d \in ds, c \in cs : BoardShows(Picked(AnyFirm, d, c), posting)
    BY DEF Shown, Picked
  <2>2. /\ ds # {} /\ ds \subseteq Levels \cup {"any"} /\ (degrees # {} => ds = degrees)
        /\ degrees = {} => ds = {"any"}
        /\ cs # {} /\ cs \subseteq Countries \cup {"all"} /\ (countries # {} => cs = countries)
        /\ countries = {} => cs = {"all"}
    OBVIOUS
  <2> HIDE DEF ds, cs
  <2>3. \A d, c : InFirms(Picked(AnyFirm, d, c), posting)
    <3>1. ASSUME NEW d, NEW c PROVE InFirms(Picked(AnyFirm, d, c), posting)
      BY <1>1, BoardNarrows DEF InFirms
    <3> QED BY <3>1
  <2>4. Shown(AnyFirm, degrees, countries) <=>
          \E d \in ds, c \in cs : FitsDegree(posting, d) /\ FitsCountry(posting, c)
    BY <1>1, <2>1, <2>2, <2>3, BoardFits
  <2>5. (\E d \in ds : FitsDegree(posting, d)) <=>
          degrees = {} \/ DegreesOf(posting) = {} \/ DegreesOf(posting) \cap degrees # {}
    BY <2>2 DEF FitsDegree, Levels
  <2>6. (\E c \in cs : FitsCountry(posting, c)) <=>
          \/ countries = {} \/ CountriesOf(posting.labels) = {} \/ IsRemote(posting.labels)
          \/ CountriesOf(posting.labels) \cap countries # {}
    BY <2>2, ViewsAssumption DEF FitsCountry
  <2> QED BY <2>4, <2>5, <2>6 DEF AlertMatches, AlertFilter
<1>2. ASSUME posting \in PostingType, posting.status = "published",
             NEW name \in CompanyName, Shown({name}, {}, {})
      PROVE  AlertMatches(AlertFilter({name}, {}, {}), posting)
  <2>1. BoardShows(Picked({name}, "any", "all"), posting)
    BY <1>2 DEF Shown, Picked
  <2>2. InFirms(Picked({name}, "any", "all"), posting)
    BY <1>2, <2>1, BoardFits
  <2>3. Picked({name}, "any", "all").firms = {name}
    BY <1>2, BoardNarrows
  <2>4. BoardKey(posting.company) = BoardKey(name)
    BY <2>2, <2>3 DEF InFirms, AnyFirm
  <2>5. posting.company.core = name.core
    BY <1>2, <2>4 DEF BoardKey, PostingType, CompanyName
  <2> QED BY <2>5 DEF AlertMatches, AlertFilter, CompanyKey
<1>3. IInv => AlertAgreesWithBoard
  BY <1>1, <1>2 DEF IInv, TypeOK, AlertAgreesWithBoard
<1> QED BY <1>3, Invariance, PTL

\* The board and the page of web.py agree on every filter both offer, the page may only
\* miss a season spelled otherwise, and the audit replays the view the board opens with
\* (Listings.tsx, web.py, audit_filters.py).
THEOREM ViewsAgree == Spec => []ReadersAgree
<1>1. ASSUME NEW p \in PostingType, NEW f,
             f.firms = AnyFirm, f.country # "us-ca", f.type = "all"
      PROVE  /\ (InSeason(f, p) <=> PageInSeason(f, p)) => (BoardShows(f, p) <=> PageShows(f, p))
             /\ (PageInSeason(f, p) => InSeason(f, p)) => (PageShows(f, p) => BoardShows(f, p))
  <2>1. InFirms(f, p) /\ (InRegion(f, p) <=> PageInRegion(f, p))
    BY <1>1 DEF InFirms, InRegion, PageInRegion
  <2> QED BY <2>1 DEF BoardShows, PageShows
<1>2. ASSUME NEW tab, NEW d, NEW c \in Countries \cup {"all", "remote"}
      PROVE  LET f == [DefaultFilter EXCEPT !.tab = tab, !.degree = d, !.country = c]
             IN  f.firms = AnyFirm /\ f.country # "us-ca" /\ f.type = "all"
                 /\ f.season = AllSeasons /\ f.season.kind = "all"
  BY ViewsAssumption DEF DefaultFilter, AllSeasons
<1>3. ASSUME NEW p \in PostingType, NEW tab, NEW d, NEW c \in Countries \cup {"all", "remote"}
      PROVE  LET f == [DefaultFilter EXCEPT !.tab = tab, !.degree = d, !.country = c]
             IN  BoardShows(f, p) <=> PageShows(f, p)
  <2> DEFINE f == [DefaultFilter EXCEPT !.tab = tab, !.degree = d, !.country = c]
  <2>1. f.firms = AnyFirm /\ f.country # "us-ca" /\ f.type = "all" /\ f.season.kind = "all"
    BY <1>2
  <2> HIDE DEF f
  <2>2. InSeason(f, p) /\ PageInSeason(f, p)
    BY <2>1 DEF InSeason, PageInSeason
  <2>3. BoardShows(f, p) <=> PageShows(f, p)
    BY <1>1, <2>1, <2>2
  <2> QED BY <2>3 DEF f
<1>4. ASSUME NEW y \in Nat \ {NoYear}, NEW term \in SeasonWindow(y, 7)
      PROVE  SeasonBucket(term) = term
  <2>1. PICK w \in Terms : term = [word |-> w, year |-> IF StartMonth[w] >= 7 THEN y ELSE y + 1]
    BY DEF SeasonWindow
  <2>2. term.year # NoYear /\ term.word = w
    BY <2>1 DEF NoYear
  <2>3. TermOf(w) = w
    BY DEF TermOf, Terms, StartMonth
  <2> QED BY <2>1, <2>2, <2>3 DEF SeasonBucket
<1>5. ASSUME NEW p \in PostingType, NEW tab, NEW d, NEW c \in Countries \cup {"all", "remote"},
             NEW y \in Nat \ {NoYear}, NEW term \in SeasonWindow(y, 7)
      PROVE  LET f == [DefaultFilter EXCEPT !.tab = tab, !.degree = d, !.country = c]
                 g == [f EXCEPT !.season = [kind |-> "term", term |-> term]]
             IN  PageShows(g, p) => BoardShows(g, p)
  <2> DEFINE f == [DefaultFilter EXCEPT !.tab = tab, !.degree = d, !.country = c]
             g == [f EXCEPT !.season = [kind |-> "term", term |-> term]]
  <2>1. /\ g.firms = AnyFirm /\ g.country # "us-ca" /\ g.type = "all"
        /\ g.season.kind = "term" /\ g.season.term = term
    BY ViewsAssumption DEF DefaultFilter
  <2> HIDE DEF g
  <2>2. PageInSeason(g, p) => InSeason(g, p)
    BY <1>4, <2>1 DEF InSeason, PageInSeason
  <2>3. PageShows(g, p) => BoardShows(g, p)
    BY <1>1, <2>1, <2>2
  <2> QED BY <2>3 DEF g
<1>6. ASSUME NEW p \in PostingType
      PROVE  BoardShows(DefaultFilter, p) <=> InAuditedView(p)
  <2>1. InTab(DefaultFilter, p) <=> p.status \in OpenStatuses
    BY DEF InTab, DefaultFilter
  <2>2. InFirms(DefaultFilter, p) /\ InType(DefaultFilter, p) /\ InAudience(DefaultFilter, p)
        /\ InTime(DefaultFilter, p) /\ InSeason(DefaultFilter, p)
    BY DEF InFirms, InType, InAudience, InTime, InSeason, AllSeasons, DefaultFilter
  <2>3. InDegree(DefaultFilter, p) <=> DegreesOf(p) = {} \/ "BS" \in DegreesOf(p)
    BY DEF InDegree, DefaultFilter
  <2>4. InRegion(DefaultFilter, p) <=> PassesHome(p.labels)
    BY DEF InRegion, DefaultFilter, PassesHome, RemoteServed, CountriesServed
  <2>5. DefaultFilter.role = "all" /\ DefaultFilter.words = {}
    BY DEF DefaultFilter
  <2> QED BY <2>1, <2>2, <2>3, <2>4, <2>5 DEF BoardShows, InAuditedView
<1>7. IInv => ReadersAgree
  <2> SUFFICES ASSUME IInv PROVE ReadersAgree
    OBVIOUS
  <2>1. posting \in PostingType /\ year \in Nat \ {NoYear}
    BY PostingLabelsAssumption DEF IInv, TypeOK, NoYear
  <2> QED BY <1>3, <1>5, <1>6, <2>1 DEF ReadersAgree
<1> QED BY <1>7, Invariance, PTL
=============================================================================
