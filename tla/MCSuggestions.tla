---------------------------- MODULE MCSuggestions ----------------------------
(***************************************************************************)
(* Small instances of Suggestions: two visitors suggest one company, or    *)
(* one of them a URL, and a third one what is no company's name, which may *)
(* be an old row; one paid search a cycle and one a day, of at most two    *)
(* requests.                                                               *)
(***************************************************************************)
EXTENDS Suggestions, TLC

CONSTANTS firm, url, junk

MCSuggested == {1 :> firm @@ 2 :> k @@ 3 :> junk : k \in {firm, url}}
MCCompanies == {firm, junk}
\* The firm has a board of each kind, or none at all.
MCBoardsOf == firm :> {"lever", "other"} @@ junk :> {}
=============================================================================
