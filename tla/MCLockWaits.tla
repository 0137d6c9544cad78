---------------------------- MODULE MCLockWaits ----------------------------
(***************************************************************************)
(* Small instances of LockWaits: three targets; run r1 names a, run r2     *)
(* names b or c or both.                                                   *)
(***************************************************************************)
EXTENDS LockWaits, TLC

CONSTANTS a, b, c, r1, r2

\* What a, b and c ask for.
Graph(da, db, dc) == a :> da @@ b :> db @@ c :> dc

\* No cycle; a cycle of two entered from its two sides, beside a target that
\* leads into it; the same cycle below a target that also shares another.
Small == {Graph({b, c}, {c}, {}),
          Graph({b}, {a}, {a}),
          Graph({b, c}, {c}, {b}),
          Graph({b, c}, {a}, {})}
\* A cycle of three.
Ring == {Graph({b}, {c}, {a})}

TwoSides == r1 :> {a} @@ r2 :> {b, c}
Opposite == r1 :> {a} @@ r2 :> {c}
=============================================================================
