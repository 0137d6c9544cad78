----------------------------- MODULE MCLogSweep -----------------------------
(***************************************************************************)
(* Small instances of LogSweep.                                            *)
(***************************************************************************)
EXTENDS LogSweep, TLC

CONSTANT t

\* The first run builds, the others sweep.
OneGoal == [r \in Runs |-> IF r = 1 THEN t ELSE None]
NoGoal == [r \in Runs |-> None]
=============================================================================
