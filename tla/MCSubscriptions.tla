--------------------------- MODULE MCSubscriptions ---------------------------
(***************************************************************************)
(* Small instances of Subscriptions: rows that compete for the window of   *)
(* one address, beside a row of another address that may be refused in     *)
(* every cycle, and a backlog query shorter than the backlog.              *)
(***************************************************************************)
EXTENDS Subscriptions

CONSTANTS a, b

OneAddress == [s \in Subs |-> a]

\* The first row's owner has an address of its own.
FirstApart == [s \in Subs |-> IF s = 1 THEN a ELSE b]
=============================================================================
