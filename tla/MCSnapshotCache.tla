--------------------------- MODULE MCSnapshotCache ---------------------------
(***************************************************************************)
(* A small instance of SnapshotCache: one page and the companies picker,   *)
(* on two handler threads, while the poller writes twice.                  *)
(***************************************************************************)
EXTENDS SnapshotCache

CONSTANTS t1, t2
=============================================================================
