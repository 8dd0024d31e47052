------------------------------- MODULE Places --------------------------------
(***************************************************************************)
(* Countries and remote work from free-text location labels                *)
(* (src/intake/locations.py), and the audit's reading of them.             *)
(*                                                                         *)
(* A label is split into tokens, each of which the tables of locations.py  *)
(* know as a country's alias, a US state, a Canadian province or a city.   *)
(***************************************************************************)
EXTENDS Sequences, SequencesExt

CONSTANT Countries

US == "United States"
Canada == "Canada"
Nowhere == "-"

ASSUME PlacesAssumption == {US, Canada} \subseteq Countries /\ Nowhere \notin Countries

Token == [alias : Countries \cup {Nowhere}, state : BOOLEAN, province : BOOLEAN,
          city : Countries \cup {Nowhere}]

\* remote: a word such as "Remote" or "WFH"; names_us: "USA" or "US" as a word.
Label == [tokens : SUBSET Token, remote : BOOLEAN, names_us : BOOLEAN]

\* The tables, in the order they are asked.
CountryOf(token) ==
  IF token.alias # Nowhere THEN token.alias
  ELSE IF token.state THEN US
  ELSE IF token.province THEN Canada
  ELSE token.city

\* is_remote
IsRemote(labels) == \E i \in DOMAIN labels : labels[i].remote

\* One label of countries_of: if it adds no country its text is searched for the US.
WithLabel(found, label) ==
  LET named == {CountryOf(t) : t \in label.tokens} \ {Nowhere}
  IN  found \cup named \cup (IF named \subseteq found /\ label.names_us THEN {US} ELSE {})

\* countries_of
CountriesOf(labels) == FoldLeft(WithLabel, {}, labels)

-----------------------------------------------------------------------------
(***************************************************************************)
(* The audit's region rule.                                                *)
(***************************************************************************)
\* country_pass_incoming
PassesHome(labels) ==
  LET countries == CountriesOf(labels)
  IN  IsRemote(labels) \/ countries = {} \/ countries \cap {US, Canada} # {}
=============================================================================
