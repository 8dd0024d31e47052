----------------------------- MODULE MCPgStore -----------------------------
(* Two request threads, a cap of one report a day over two texts, three     *)
(* days with a salt kept for one, and two connection faults.                *)
EXTENDS PgStore, TLC

CONSTANTS t1, t2, x1, x2
MCThreads == {t1, t2}
MCTexts == {x1, x2}
MCSymmetry == Permutations(MCThreads) \union Permutations(MCTexts)
============================================================================
