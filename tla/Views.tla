-------------------------------- MODULE Views --------------------------------
(***************************************************************************)
(* Who is shown a posting: the two boards (frontend Listings.tsx and the   *)
(* page web.py serves), the alert fan-out (notify.py) and the audit's      *)
(* replay of the default view (scripts/audit_filters.py).  Each is a       *)
(* predicate of a posting and of what a reader picked.                     *)
(*                                                                         *)
(* A company name is its core word, whether a legal form follows it, and   *)
(* whether it is spelled in a different case or spacing.                   *)
(***************************************************************************)
EXTENDS Seasons, Degrees, Places

CONSTANTS
  Cores,
  Rename    \* Rename[c]: the name COMPANY_ALIASES gives c, else c

\* No country has the name of one of the other entries of the region menu.
ASSUME ViewsAssumption ==
  /\ Rename \in [Cores -> Cores]
  /\ Countries \cap {"all", "remote", "us-ca"} = {}

CompanyName == [core : Cores, legal_form : BOOLEAN, restyled : BOOLEAN]

OpenStatuses == {"pending", "gated", "verified", "published"}
NotDated == -1

\* Whatever a reader did not pick.
AnyFirm == {}
AnyTime == -1
AllSeasons == [kind |-> "all", term |-> NoSeason]

-----------------------------------------------------------------------------
(***************************************************************************)
(* What all of them read off a posting.                                    *)
(***************************************************************************)
\* degreesOf, degrees_of, _degrees_of: the verdict's levels if it has any.
DegreesOf(p) == IF p.verdict.levels # {} THEN p.verdict.levels ELSE p.levels

\* seasonOf
SeasonOf(p) == IF p.verdict.season # NoSeason THEN p.verdict.season ELSE p.season

\* What postings_payload adds to a row.
CountriesServed(p) == CountriesOf(p.labels)
RemoteServed(p) == IsRemote(p.labels)

-----------------------------------------------------------------------------
(***************************************************************************)
(* The board.                                                              *)
(***************************************************************************)
\* companyKey of CompanyPicker.tsx
BoardKey(name) == [name EXCEPT !.restyled = FALSE]

InTab(f, p) == IF f.tab = "open" THEN p.status \in OpenStatuses ELSE p.status = "rejected"

InFirms(f, p) == f.firms = AnyFirm \/ BoardKey(p.company) \in {BoardKey(c) : c \in f.firms}

\* A posting that states no level passes.
InDegree(f, p) ==
  LET wanted == IF f.degree = "grad" THEN {"MS", "PhD"} ELSE {f.degree}
  IN  f.degree = "any" \/ DegreesOf(p) = {} \/ DegreesOf(p) \cap wanted # {}

InType(f, p) ==
  CASE f.type = "all" -> TRUE
    [] f.type = "programs" -> p.category # "internship"
    [] OTHER -> p.category = f.type

InAudience(f, p) == f.audience = "all" \/ f.audience \in p.audience

\* A posting without a date is in no window.
InTime(f, p) == f.hours = AnyTime \/ (p.age # NotDated /\ p.age <= f.hours)

\* Remote postings and postings that name no country pass every region.
InRegion(f, p) ==
  LET region == IF f.country = "us-ca" THEN {US, Canada} ELSE {f.country}
  IN  CASE f.country = "all" -> TRUE
        [] f.country = "remote" -> RemoteServed(p)
        [] OTHER -> \/ RemoteServed(p)
                    \/ CountriesServed(p) = {}
                    \/ CountriesServed(p) \cap region # {}

\* A posting that states no season passes every term.
InSeason(f, p) ==
  CASE f.season.kind = "all" -> TRUE
    [] f.season.kind = "unlisted" -> SeasonOf(p) = NoSeason
    [] OTHER -> SeasonOf(p) = NoSeason \/ SeasonBucket(SeasonOf(p)) = f.season.term

\* matches of Listings.tsx.  words are those of the search box.
BoardShows(f, p) ==
  /\ InTab(f, p)
  /\ InFirms(f, p)
  /\ InDegree(f, p)
  /\ f.role = "all" \/ p.role = f.role
  /\ InType(f, p)
  /\ InAudience(f, p)
  /\ InTime(f, p)
  /\ InRegion(f, p)
  /\ InSeason(f, p)
  /\ f.words \subseteq p.words

\* The view the board opens with.
DefaultFilter ==
  [tab |-> "open", firms |-> AnyFirm, degree |-> "BS", role |-> "all", type |-> "all",
   audience |-> "all", hours |-> AnyTime, country |-> "us-ca", season |-> AllSeasons,
   words |-> {}]

-----------------------------------------------------------------------------
(***************************************************************************)
(* The page of web.py: no company filter, one country at a time, seasons   *)
(* compared as they are stored or by their year ("2027 cycle").            *)
(***************************************************************************)
BugPageInRegion(f, p) ==
  CASE f.country = "all" -> TRUE
    [] f.country = "remote" -> RemoteServed(p)
    [] OTHER -> RemoteServed(p) \/ f.country \in CountriesServed(p)

PageInRegion(f, p) ==
  CASE f.country = "all" -> TRUE
    [] f.country = "remote" -> RemoteServed(p)
    [] OTHER -> RemoteServed(p) \/ CountriesServed(p) = {} \/ f.country \in CountriesServed(p)

PageInSeason(f, p) ==
  CASE f.season.kind = "all" -> TRUE
    [] f.season.kind = "cycle" -> SeasonOf(p) = NoSeason \/ SeasonOf(p).year = f.season.term.year
    [] OTHER -> SeasonOf(p) = NoSeason \/ SeasonOf(p) = f.season.term

PageShows(f, p) ==
  /\ InTab(f, p)
  /\ InDegree(f, p)
  /\ f.role = "all" \/ p.role = f.role
  /\ InType(f, p)
  /\ InAudience(f, p)
  /\ InTime(f, p)
  /\ PageInRegion(f, p)
  /\ PageInSeason(f, p)
  /\ f.words \subseteq p.words

-----------------------------------------------------------------------------
(***************************************************************************)
(* Alerts.                                                                 *)
(***************************************************************************)
\* company_key: case, punctuation and legal forms are dropped, renames resolved.
CompanyKey(name) == Rename[name.core]

\* build_filters.  An empty dimension is no constraint.
AlertFilter(companies, degrees, countries) ==
  [keys |-> {CompanyKey(c) : c \in companies}, degrees |-> degrees, countries |-> countries]

BugAlertMatches(a, p) ==
  /\ a.keys = {} \/ CompanyKey(p.company) \in a.keys
  /\ a.degrees = {} \/ DegreesOf(p) = {} \/ DegreesOf(p) \cap a.degrees # {}
  /\ \/ a.countries = {}
     \/ CountriesOf(p.labels) = {}
     \/ CountriesOf(p.labels) \cap a.countries # {}

\* _matches
AlertMatches(a, p) ==
  /\ a.keys = {} \/ CompanyKey(p.company) \in a.keys
  /\ a.degrees = {} \/ DegreesOf(p) = {} \/ DegreesOf(p) \cap a.degrees # {}
  /\ \/ a.countries = {}
     \/ CountriesOf(p.labels) = {}
     \/ IsRemote(p.labels)
     \/ CountriesOf(p.labels) \cap a.countries # {}

-----------------------------------------------------------------------------
(***************************************************************************)
(* The audit: is the posting in the default view, by the rules of this     *)
(* tree?                                                                   *)
(***************************************************************************)
InAuditedView(p) ==
  /\ p.status \in OpenStatuses
  /\ DegreesOf(p) = {} \/ "BS" \in DegreesOf(p)
  /\ PassesHome(p.labels)
=============================================================================
