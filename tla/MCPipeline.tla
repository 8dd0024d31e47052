----------------------------- MODULE MCPipeline -----------------------------
(***************************************************************************)
(* Small instances of Pipeline.  Every posting has its own URL and may     *)
(* also redirect to one generic board page, the shape that makes           *)
(* reconciliation necessary.                                               *)
(*   weak tier:   a and b carry no ATS id and fold to one title (b with a  *)
(*                season suffix); c carries an id, so while c shares their *)
(*                page the three of them do not unify.                     *)
(*   strong tier: a and b carry the same id under different titles; e's    *)
(*                URL makes the rule gate raise.                           *)
(***************************************************************************)
EXTENDS Pipeline, TLC

CONSTANTS a, b, c, e,       \* postings
          urlA, urlB, urlC, urlD, board,
          req               \* an ATS requisition id

\* Two detectors list a, so it can be sighted again at any later point of its life.
MCLists == "list" :> Keys @@ "ats" :> {a}

MCUrls == {urlA, urlB, urlC, urlD, board}
WeakUrlOf == a :> urlA @@ b :> urlB @@ c :> urlC
StrongUrlOf == a :> urlA @@ b :> urlB @@ e :> urlD
MCRedirects == [u \in MCUrls |-> IF u = urlC THEN {u, board} ELSE {board}]

Plain(f) == [fold |-> f, seasonal |-> FALSE]
Suffixed(f) == [fold |-> f, seasonal |-> TRUE]

WeakJobKey == [u \in MCUrls |-> IF u = urlC THEN req ELSE NoJobKey]
WeakTitles == a :> Suffixed("swe") @@ b :> Plain("swe") @@ c :> Plain("data")

StrongJobKey == [u \in MCUrls |-> IF u \in {urlA, urlB} THEN req ELSE NoJobKey]
StrongTitles == a :> Suffixed("swe") @@ b :> Plain("backend") @@ e :> Plain("swe")

MCFolds == {"swe", "backend", "data"}

=============================================================================
