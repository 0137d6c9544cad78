------------------------------ MODULE MCRunLog ------------------------------
(***************************************************************************)
(* Small instances of RunLog: redo a b, where a asks for b and b for c.    *)
(***************************************************************************)
EXTENDS RunLog, TLC

CONSTANTS a, b, c

Shared == {<<Run, a>>, <<Run, b>>, <<a, b>>, <<b, c>>}
BTwice == a :> 1 @@ b :> 2 @@ c :> 1
Once == [t \in {a, b, c} |-> 1]
=============================================================================
