--------------------------- MODULE MCDsmPrefetch ---------------------------
(***************************************************************************)
(* Two threads, at most three requests on three pages and two executions.  *)
(***************************************************************************)
EXTENDS DsmPrefetch

CONSTANTS t0, t1
=============================================================================
