---------------------------- MODULE AtomicTarget ----------------------------
(***************************************************************************)
(* What a target's file and its record in the database promise each other, *)
(* without calls, locks or program points: an output is announced in the   *)
(* database, installed in one step, and settled in another, and whatever   *)
(* stops in between leaves the target in doubt.                            *)
(***************************************************************************)
CONSTANTS
  Outputs,  \* what a build may install
  Foreign,  \* what other hands may put there
  None

VARIABLES
  file,       \* at the target's path
  doubt,      \* the database calls the target out of date
  announced,  \* the output a build is about to install, or did before it died
  installed   \* a build has replaced the file and has yet to settle

vars == <<file, doubt, announced, installed>>

Init ==
  /\ file \in Foreign \cup {None} /\ ~doubt /\ announced = None /\ ~installed

Begin ==
  /\ ~installed /\ doubt' = TRUE /\ announced' = None
  /\ UNCHANGED <<file, installed>>

Announce ==
  /\ doubt /\ ~installed /\ announced = None
  /\ announced' \in Outputs
  /\ UNCHANGED <<file, doubt, installed>>

\* The announced output, or nothing if nothing was announced.
Install ==
  /\ doubt /\ ~installed
  /\ file' = announced /\ installed' = TRUE
  /\ UNCHANGED <<doubt, announced>>

Settle ==
  /\ installed /\ installed' = FALSE
  /\ doubt' = FALSE /\ announced' = None
  /\ UNCHANGED file

Abandon ==
  /\ installed /\ installed' = FALSE
  /\ UNCHANGED <<file, doubt, announced>>

\* By hand, or by a do-file that writes the target itself and fails for it.
Edit ==
  /\ ~installed /\ file' \in Foreign \cup {None}
  /\ UNCHANGED <<doubt, announced, installed>>

Next == Begin \/ Announce \/ Install \/ Settle \/ Abandon \/ Edit

Spec == Init /\ [][Next]_vars
=============================================================================
