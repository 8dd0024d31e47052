-------------------------------- MODULE Gate ---------------------------------
(***************************************************************************)
(* The rule gate (src/intake/verify/rules.py) with the URL resolution      *)
(* (normalize.py), the triage (triage.py) and the classifiers it calls:    *)
(* what one pass makes of a posting, given how the site answers.           *)
(*                                                                         *)
(* A title, a page and a qualifications excerpt are what the patterns find *)
(* in them; a URL is the shapes the code tells apart.                      *)
(***************************************************************************)
EXTENDS Seasons, Degrees

Categories == {"internship", "program", "scholarship", "research", "event"}
Audiences == {"underclassmen", "diversity"}

\* denied: DISQUALIFYING_RE; offtech: NON_TECH_RE; tech: TECH_SIGNAL_RE; event:
\* EVENT_TITLE_RE.
Title == [season : SeasonText, degrees : DegreeText, audience : SUBSET Audiences,
          denied : BOOLEAN, offtech : BOOLEAN, tech : BOOLEAN, event : BOOLEAN]

\* wrapped: a social redirector around the real URL; tracked: has tracking parameters;
\* chrome: CHROME_URL_RE; event: EVENT_URL_RE.
Url == [http : BOOLEAN, wrapped : BOOLEAN, tracked : BOOLEAN, chrome : BOOLEAN, event : BOOLEAN]

Excerpt == [season : SeasonText, degrees : DegreeText]
NoExcerpt == [season |-> NoText, degrees |-> NoDegrees]

\* A page: season and audience of its first 4000 characters, degrees of all of it, and the
\* excerpt that starts at its first qualifications header.
Page == [season : SeasonText, degrees : DegreeText, audience : SUBSET Audiences,
         error : BOOLEAN, quals : Excerpt]
EmptyPage == [season |-> NoText, degrees |-> NoDegrees, audience |-> {}, error |-> FALSE,
              quals |-> NoExcerpt]

\* How the site answers: "blocked" is 403, 429 or no answer at all, "gone" another error.
\* detail is the description Workday serves separately, if the URL is Workday's and the
\* call works.
Answer == [kind : {"ok", "blocked", "gone"}, url : Url, page : Page,
           workday : BOOLEAN, detail : Page]

\* strip_tracking
StripTracking(url) == [url EXCEPT !.tracked = FALSE]

\* check_title
TitleRefused(p) ==
  \/ p.category = "internship" /\ p.title.denied
  \/ p.title.offtech /\ ~p.title.tech

\* resolve_canonical, and the exception run_rules makes for a site that only blocks: the
\* posting keeps its own URL.  Redirector or not, that URL is only stripped.
UrlRefused(p, answer) == ~p.url.http \/ answer.kind = "gone"
CanonicalUrl(p, answer) ==
  StripTracking(IF answer.kind = "blocked" THEN p.url ELSE answer.url)

PageText(answer) ==
  IF answer.workday THEN answer.detail
  ELSE IF answer.kind = "ok" THEN answer.page ELSE EmptyPage

\* refine_category
RefineCategory(category, title, url) ==
  IF category \notin {"scholarship", "research"} /\ (title.event \/ url.event)
  THEN "event" ELSE category

\* run_rules and what run_cycle stores of its result.  cy is the current year.
Gated(p, answer, cy) ==
  LET url == CanonicalUrl(p, answer)
      page == PageText(answer)
  IN  IF TitleRefused(p) \/ UrlRefused(p, answer)
      THEN [p EXCEPT !.status = "rejected"]
      ELSE [p EXCEPT
              !.status = "gated",
              !.canonical = url,
              !.category = RefineCategory(p.category, p.title, url),
              !.audience = @ \cup p.title.audience \cup page.audience,
              !.quals = page.quals,
              !.season = Reconcile(p.season, p.title.season, page.season, cy),
              !.levels = ClassifyPosting(p.title.degrees, page.degrees, page.quals.degrees,
                                         PageUsable(url.chrome, page.error))]
=============================================================================
