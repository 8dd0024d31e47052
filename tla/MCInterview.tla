----------------------------- MODULE MCInterview -----------------------------
(***************************************************************************)
(* A small instance of Interview: two sessions of one user, who may open   *)
(* one a day, served by two handler threads, on a budget of two calls.     *)
(***************************************************************************)
EXTENDS Interview, TLC

CONSTANTS t1, t2, s1, s2, u

MCUserOf == [s \in Sessions |-> u]
Symmetric == Permutations({t1, t2}) \cup Permutations({s1, s2})
=============================================================================
