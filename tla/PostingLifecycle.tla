-------------------------- MODULE PostingLifecycle --------------------------
(***************************************************************************)
(* What the intake pipeline promises about postings, without URLs, cycles, *)
(* snapshots or crashes.  A posting is discovered once, moves forward      *)
(* through the statuses of schema.Status one step at a time, reaches the   *)
(* publisher hook only after it was approved, and leaves the board only by *)
(* being refused or by giving way to another posting that is still on it.  *)
(* Module Pipeline implements this specification.                          *)
(***************************************************************************)
CONSTANT Keys

VARIABLES
  stage,   \* stage[k]: the status of posting k, "absent" before it is seen
  given    \* the postings handed to the publisher hook so far

lvars == <<stage, given>>

Stages == {"absent", "pending", "gated", "verified", "published", "rejected"}
OnBoard == {"gated", "verified", "published"}

Start ==
  /\ stage = [k \in Keys |-> "absent"]
  /\ given = {}

Move(k, from, to) ==
  /\ stage[k] \in from
  /\ stage' = [stage EXCEPT ![k] = to]
  /\ given' = given

Discover(k) == Move(k, {"absent"}, "pending")
Admit(k)    == Move(k, {"pending"}, "gated")
Approve(k)  == Move(k, {"gated"}, "verified")
Refuse(k)   == Move(k, {"pending", "gated"}, "rejected")

\* A posting that duplicates another one on the board gives way to it.
Retire(k) ==
  /\ \E s \in Keys \ {k} : stage[s] \in OnBoard
  /\ Move(k, OnBoard, "rejected")

Hand(k) ==
  /\ stage[k] = "verified"
  /\ given' = given \cup {k}
  /\ stage' = stage

Publish(k) ==
  /\ k \in given
  /\ Move(k, {"verified"}, "published")

Advance ==
  \E k \in Keys :
    Discover(k) \/ Admit(k) \/ Approve(k) \/ Refuse(k) \/ Retire(k) \/ Hand(k) \/ Publish(k)

Lifecycle == Start /\ [][Advance]_lvars
=============================================================================
