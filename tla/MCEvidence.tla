----------------------------- MODULE MCEvidence -----------------------------
(***************************************************************************)
(* A small instance of Evidence: sub/app.txt, or app, with one default     *)
(* do-file in the root.                                                    *)
(***************************************************************************)
EXTENDS Evidence

RootDefault == [c \in Candidates |-> IF c = <<0, 0>> THEN 1 ELSE None]
=============================================================================
