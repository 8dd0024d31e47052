-------------------------- MODULE MCPostingLabels ---------------------------
(***************************************************************************)
(* Small instance of PostingLabels: titles, pages and excerpts that        *)
(* disagree about season and level, years on both sides of the window.     *)
(***************************************************************************)
EXTENDS PostingLabels

MCRename == [c \in Cores |-> IF c = "facebook" THEN "meta" ELSE c]

Text(word, near, first) == [flexible |-> FALSE, word |-> word, near |-> near, first |-> first]
Flexible == [flexible |-> TRUE, word |-> "Summer", near |-> NoYear, first |-> 2027]
Full(levels) == [full |-> levels, short |-> {}, near |-> {}]
Short(levels) == [full |-> {}, short |-> levels, near |-> {}]
Near(levels) == [full |-> {}, short |-> levels, near |-> levels]

PlainTitle == [season |-> NoText, degrees |-> NoDegrees, audience |-> {},
               denied |-> FALSE, offtech |-> FALSE, tech |-> TRUE, event |-> FALSE]
MCTitles ==
  {[PlainTitle EXCEPT !.season = t] :
     t \in {NoText, Flexible, Text("Summer", NoYear, NoYear), Text("Summer", 2027, 2027),
            Text(NoWord, NoYear, 2027), Text("Fall", NoYear, 2024)}}
  \cup {[PlainTitle EXCEPT !.degrees = Full({"PhD"})],
        [PlainTitle EXCEPT !.degrees = Short({"MS"}), !.season = Text("Fall", 2025, 2025)],
        [PlainTitle EXCEPT !.denied = TRUE],
        [PlainTitle EXCEPT !.offtech = TRUE, !.tech = FALSE],
        [PlainTitle EXCEPT !.event = TRUE, !.audience = {"diversity"}]}

OwnUrl == [http |-> TRUE, wrapped |-> TRUE, tracked |-> TRUE, chrome |-> FALSE, event |-> FALSE]
FormUrl == [OwnUrl EXCEPT !.wrapped = FALSE, !.chrome = TRUE]
EventUrl == [OwnUrl EXCEPT !.wrapped = FALSE, !.event = TRUE]

ToLabel(country) ==
  [tokens |-> {[alias |-> country, state |-> FALSE, province |-> FALSE, city |-> Nowhere]},
   remote |-> FALSE, names_us |-> FALSE]
Remote == [tokens |-> {}, remote |-> TRUE, names_us |-> FALSE]
Toronto ==
  [tokens |-> {[alias |-> Nowhere, state |-> FALSE, province |-> TRUE, city |-> Canada]},
   remote |-> FALSE, names_us |-> TRUE]

Meta == [core |-> "facebook", legal_form |-> TRUE, restyled |-> FALSE]

Sighting(title, season, url, labels) ==
  [company |-> Meta, title |-> title, url |-> url, canonical |-> url,
   category |-> "internship", audience |-> {}, season |-> season, levels |-> {},
   quals |-> NoExcerpt, labels |-> labels, status |-> "pending", verdict |-> NoVerdict,
   role |-> "SWE", words |-> {"intern"}, age |-> NotDated]

MCDetected ==
  {Sighting(title, season, OwnUrl, labels) :
     title \in MCTitles,
     season \in {NoSeason, [word |-> "Summer", year |-> NoYear], [word |-> "Fall", year |-> 2025],
                 [word |-> "Summer", year |-> 2024]},
     labels \in {<< >>, << ToLabel("France") >>, << Remote >>}}
  \cup {Sighting(PlainTitle, NoSeason, [OwnUrl EXCEPT !.http = FALSE], << >>),
        [Sighting(PlainTitle, NoSeason, OwnUrl, << >>) EXCEPT !.category = "research"]}

Told(season, degrees) == [season |-> season, degrees |-> degrees]

PageOf(season, degrees, quals) ==
  [EmptyPage EXCEPT !.season = season, !.degrees = degrees, !.quals = quals]
MCPages ==
  {PageOf(Text("Summer", 2025, 2025), Full({"MS"}), NoExcerpt),
   PageOf(Flexible, Short({"BS"}), Told(Text("Fall", 2027, 2027), NoDegrees)),
   PageOf(Text("Fall", 2027, 2024), Full({"BS", "PhD"}), Told(NoText, Near({"BS"}))),
   PageOf(NoText, Near({"MS"}), Told(Text(NoWord, NoYear, 2025), Full({"MS", "PhD"})))}

Reply(kind, url, page) ==
  [kind |-> kind, url |-> url, page |-> page, workday |-> FALSE, detail |-> EmptyPage]
MCAnswers ==
  {Reply("ok", OwnUrl, page) : page \in MCPages}
  \cup {Reply("ok", url, page) : url \in {FormUrl, EventUrl},
          page \in {PageOf(NoText, Full({"PhD"}), NoExcerpt)}}
  \cup {Reply("ok", OwnUrl, [EmptyPage EXCEPT !.error = TRUE, !.degrees = Full({"PhD"}),
                                              !.audience = {"underclassmen"}]),
        Reply("blocked", OwnUrl, EmptyPage), Reply("gone", OwnUrl, EmptyPage)}
  \cup {[Reply("blocked", OwnUrl, EmptyPage) EXCEPT !.workday = TRUE, !.detail = page] :
          page \in {PageOf(NoText, Full({"MS"}), Told(NoText, Full({"PhD"})))}}

MCVerdicts ==
  {NoVerdict, [levels |-> {"BS", "MS", "PhD"}, season |-> [word |-> "Fall", year |-> 2027]],
   [levels |-> {"PhD"}, season |-> NoSeason]}

MCNewLabels == {ToLabel(US), Toronto}
=============================================================================
