--------------------------- MODULE MCTargetBuild ---------------------------
(***************************************************************************)
(* Small instances of TargetBuild.  c1 and c2 belong to run s1, c3 and c4  *)
(* to run s2; c3 is a forced build.                                        *)
(***************************************************************************)
EXTENDS TargetBuild

CONSTANTS c1, c2, c3, c4, s1, s2, o1, o2, e1

Runs == {s1, s2}
RunOf == [c \in Calls |-> IF c \in {c1, c2} THEN s1 ELSE s2]
=============================================================================
