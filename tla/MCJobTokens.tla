---------------------------- MODULE MCJobTokens ----------------------------
(***************************************************************************)
(* A small tree for JobTokens.  The command line names a and b, the        *)
(* do-file of a asks for c and d, and that of d for f.                     *)
(***************************************************************************)
EXTENDS JobTokens, TLC

DeepCallOf == "a" :> "root" @@ "b" :> "root" @@ "c" :> "a1" @@ "d" :> "a1" @@ "f" :> "d1"
DeepJobOf == "a1" :> "a" @@ "d1" :> "d"
=============================================================================
