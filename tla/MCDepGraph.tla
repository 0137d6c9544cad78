----------------------------- MODULE MCDepGraph -----------------------------
(***************************************************************************)
(* Small instances of DepGraph: two targets in a row over one source.      *)
(***************************************************************************)
EXTENDS DepGraph

CONSTANTS r1, r2, r3
=============================================================================
