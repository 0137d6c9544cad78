----------------------------- MODULE LockWaits -----------------------------
(***************************************************************************)
(* The target locks and the waits-for graph: src/src/lock.rs, and build()  *)
(* and WaitEdge in src/src/build.rs.                                       *)
(*                                                                         *)
(* A job is one call of build() for a target: by a top-level redo, when    *)
(* its chain has one element, or by a redo-ifchange inside the do-file of  *)
(* the target before it in the chain (REDO_CHAIN).  A job that finds its   *)
(* target locked records the wait in the database, unless that closes a    *)
(* cycle with the recorded waits of other jobs, and blocks.  A job that    *)
(* holds its lock runs the do-file, which calls the target's dependencies  *)
(* in any order, one by one or in parallel, and waits for all of them.     *)
(*                                                                         *)
(* What the out-of-date check decides is left open; the walk it takes over *)
(* a dependency's own dependencies is taken to find nothing to build.      *)
(***************************************************************************)
EXTENDS Naturals, Sequences, FiniteSets

CONSTANTS
  Targets,   \* the buildable targets
  Graphs,    \* the dependency graphs the do-files may describe
  Runs,      \* the top-level redo processes
  Roots,     \* the targets each run names
  MayCrash,  \* the runs that may be killed
  None

ASSUME TargetsAssumption == IsFiniteSet(Targets)
ASSUME GraphsAssumption == Graphs \subseteq [Targets -> SUBSET Targets]
ASSUME RunsAssumption ==
  /\ Roots \in [Runs -> SUBSET Targets]
  /\ MayCrash \subseteq Runs
  /\ None \notin Runs

Chains == {s \in UNION {[1..n -> Targets] : n \in 1..Cardinality(Targets)} :
             \A i, k \in DOMAIN s : s[i] = s[k] => i = k}
Jobs == {j \in [run : Runs, chain : Chains] : j.chain[1] \in Roots[j.run]}

ASSUME NoneAssumption == None \notin Jobs

Target(j) == j.chain[Len(j.chain)]
TopLevel(j) == Len(j.chain) = 1
Parent(j) == [j EXCEPT !.chain = SubSeq(j.chain, 1, Len(j.chain) - 1)]
Holder(j) == j.chain[Len(j.chain) - 1]
IsChild(k, j) == Len(k.chain) = Len(j.chain) + 1 /\ Parent(k) = j
Siblings(j) == {k \in Jobs : /\ k.run = j.run /\ Len(k.chain) = Len(j.chain)
                             /\ TopLevel(j) \/ Parent(k) = Parent(j)}

VARIABLES
  deps,   \* the graph: what each target's do-file asks for
  pc,     \* where each job is
  lock,   \* the job that holds each target's flock
  waits,  \* the waits table: holder, wanted, and whose row it is
  mark    \* the run that last built or verified each target (files.runid)

vars == <<deps, pc, lock, waits, mark>>

Live == {"try", "contended", "blocked", "granted", "held", "running"}
Ended == {"ok", "failed", "dead"}
Active(j) == pc[j] \in Live
Rows == {[holder |-> Holder(j), wanted |-> Target(j), by |-> j] :
           j \in {k \in Jobs : ~TopLevel(k)}}
Building == {"granted", "held", "running"}

\* The last conjunct is what flock gives and every exit path must keep: the
\* jobs past the lock are exactly the owners of the locks.
TypeOK ==
  /\ deps \in Graphs
  /\ pc \in [Jobs -> {"idle"} \cup Live \cup Ended]
  /\ lock \in [Targets -> Jobs \cup {None}]
  /\ waits \subseteq Rows
  /\ mark \in [Targets -> Runs \cup {None}]
  /\ \A j \in Jobs : pc[j] \in Building <=> lock[Target(j)] = j

Init ==
  /\ deps \in Graphs
  /\ pc = [j \in Jobs |-> "idle"]
  /\ lock = [t \in Targets |-> None]
  /\ waits = {}
  /\ mark = [t \in Targets |-> None]

Goto(j, label) == pc' = [pc EXCEPT ![j] = label]
Release(j) == lock' = [t \in Targets |-> IF lock[t] = j THEN None ELSE lock[t]]

-----------------------------------------------------------------------------
\* A do-file, or the top level, asks for a target.  After an error nothing
\* more is launched.
Call(j) ==
  /\ pc[j] = "idle"
  /\ ~TopLevel(j) => pc[Parent(j)] = "running" /\ Target(j) \in deps[Holder(j)]
  /\ \A k \in Siblings(j) : pc[k] # "failed"
  /\ Goto(j, "try")
  /\ UNCHANGED <<deps, lock, waits, mark>>

\* ensure: nothing to do, by the run's own mark or by the out-of-date check.
Skip(j) ==
  /\ pc[j] = "try" /\ ~TopLevel(j)
  /\ mark[Target(j)] # None
  /\ mark' = [mark EXCEPT ![Target(j)] = j.run]
  /\ Goto(j, "ok")
  /\ UNCHANGED <<deps, lock, waits>>

\* try_lock_target.  It may also fail on a free lock, which somebody is just
\* probing (probe_unlocked takes it for a moment).
TryLock(j) ==
  /\ pc[j] = "try"
  /\ \/ /\ lock[Target(j)] = None
        /\ lock' = [lock EXCEPT ![Target(j)] = j]
        /\ Goto(j, "held")
     \/ /\ Goto(j, IF TopLevel(j) THEN "blocked" ELSE "contended")
        /\ UNCHANGED lock
  /\ UNCHANGED <<deps, waits, mark>>

\* wait_path: `to' is reached from `from' along the edges.
Reaches(edges, from, to) ==
  \A S \in SUBSET Targets :
    from \in S /\ (\A e \in edges : e.holder \in S => e.wanted \in S) => to \in S

\* Mutants: the search is skipped; it starts from the wrong end.
ClosesNothing(j, counting) == FALSE
ClosesReversed(j, counting) == Reaches(counting, Holder(j), Target(j))

ClosesCycle(j, counting) == Reaches(counting, Target(j), Holder(j))

\* An edge counts while its holder's lock is held, by whatever build; a
\* concurrent probe makes a free lock look held.
HeldEdges == {e \in waits : lock[e.holder] # None}

\* WaitEdge::insert, one write transaction.
InsertEdge(j) ==
  /\ pc[j] = "contended"
  /\ \E counting \in {HeldEdges, waits} :
       \/ /\ ClosesCycle(j, counting)
          /\ Goto(j, "failed")
          /\ UNCHANGED waits
       \/ /\ ~ClosesCycle(j, counting)
          /\ waits' = waits \cup {[holder |-> Holder(j), wanted |-> Target(j), by |-> j]}
          /\ Goto(j, "blocked")
  /\ UNCHANGED <<deps, lock, mark>>

\* lock_target returns.
Granted(j) ==
  /\ pc[j] = "blocked"
  /\ lock[Target(j)] = None
  /\ lock' = [lock EXCEPT ![Target(j)] = j]
  /\ Goto(j, "granted")
  /\ UNCHANGED <<deps, waits, mark>>

\* Mutant: the row outlives the wait.
KeepEdge(j) == pc[j] = "granted" /\ Goto(j, "held") /\ UNCHANGED <<deps, lock, waits, mark>>

\* The edge is dropped only after the lock is ours.
DropEdge(j) ==
  /\ pc[j] = "granted"
  /\ waits' = {e \in waits : e.by # j}
  /\ Goto(j, "held")
  /\ UNCHANGED <<deps, lock, mark>>

\* The second look under the lock: another job may have built the target.
Recheck(j) ==
  /\ pc[j] = "held"
  /\ \/ /\ ~TopLevel(j) /\ mark[Target(j)] # None
        /\ mark' = [mark EXCEPT ![Target(j)] = j.run]
        /\ Release(j)
        /\ Goto(j, "ok")
     \/ /\ TopLevel(j) \/ mark[Target(j)] # j.run
        /\ Goto(j, "running")
        /\ UNCHANGED <<lock, mark>>
  /\ UNCHANGED <<deps, waits>>

-----------------------------------------------------------------------------
\* The do-file asks for a target that is being built above it.
ChainCycle(j) == \E d \in deps[Target(j)] : d \in {j.chain[i] : i \in DOMAIN j.chain}

\* Mutant: such a call returns at once, as if the target were up to date.
AnswerChain(j) ==
  \A d \in deps[Target(j)] :
    \/ d \in {j.chain[i] : i \in DOMAIN j.chain}
    \/ \E k \in Jobs : IsChild(k, j) /\ Target(k) = d /\ pc[k] = "ok"

AllSucceeded(j) ==
  \A d \in deps[Target(j)] : \E k \in Jobs : IsChild(k, j) /\ Target(k) = d /\ pc[k] = "ok"

\* Mutant: a failing build leaves its lock held (until the process ends).
FailHolding(j) ==
  /\ pc[j] = "running"
  /\ ChainCycle(j) \/ \E k \in Jobs : IsChild(k, j) /\ pc[k] = "failed"
  /\ \A k \in Jobs : IsChild(k, j) => ~Active(k)
  /\ Goto(j, "failed")
  /\ UNCHANGED <<deps, lock, waits, mark>>

\* The do-file fails once a call of its has; running calls are waited for.
Fail(j) ==
  /\ pc[j] = "running"
  /\ ChainCycle(j) \/ \E k \in Jobs : IsChild(k, j) /\ pc[k] = "failed"
  /\ \A k \in Jobs : IsChild(k, j) => ~Active(k)
  /\ Release(j)
  /\ Goto(j, "failed")
  /\ UNCHANGED <<deps, waits, mark>>

Commit(j) ==
  /\ pc[j] = "running"
  /\ AllSucceeded(j)
  /\ mark' = [mark EXCEPT ![Target(j)] = j.run]
  /\ Release(j)
  /\ Goto(j, "ok")
  /\ UNCHANGED <<deps, waits>>

\* A run and everything below it is killed: the kernel releases its locks,
\* its rows stay.
Crash(r) ==
  /\ r \in MayCrash
  /\ \E j \in Jobs : j.run = r /\ Active(j)
  /\ pc' = [j \in Jobs |-> IF j.run = r /\ (Active(j) \/ pc[j] = "idle") THEN "dead" ELSE pc[j]]
  /\ lock' = [t \in Targets |-> IF lock[t] # None /\ lock[t].run = r THEN None ELSE lock[t]]
  /\ UNCHANGED <<deps, waits, mark>>

Step(j) ==
  \/ Skip(j) \/ TryLock(j) \/ InsertEdge(j) \/ Granted(j) \/ DropEdge(j)
  \/ Recheck(j) \/ Fail(j) \/ Commit(j)

Next ==
  \/ \E j \in Jobs : Call(j) \/ Step(j)
  \/ \E r \in Runs : Crash(r)

Spec == Init /\ [][Next]_vars

\* Processes are scheduled, do-files make their calls, and flock wakes a
\* waiter when the lock stays free.
Fairness == \A j \in Jobs : WF_vars(Call(j) \/ Step(j))
FairSpec == Spec /\ Fairness

-----------------------------------------------------------------------------
\* PROPERTIES

\* t waits for u: a live job called by the do-file that t's lock protects has
\* u's lock, or blocks on it.
WaitsFor ==
  {[holder |-> Holder(j), wanted |-> Target(j)] :
     j \in {k \in Jobs : /\ ~TopLevel(k)
                         /\ pc[k] \in {"blocked"} \cup Building}}

\* No deadlock: "Recording every wait, and checking for a cycle in the same
\* transaction that inserts the edge, turns that deadlock into an error for
\* one of the builds" (WaitEdge).
NoCircularWait == \A e \in WaitsFor : ~Reaches(WaitsFor, e.wanted, e.holder)

\* "a cycle entered from two sides" (WaitEdge): no two targets wait for each
\* other, be it that one of them was asked for by the other's own do-file.
NoMutualWait ==
  \A e, f \in WaitsFor : ~(e.wanted = f.holder /\ f.wanted = e.holder)

\* A cycle error tells the truth: the do-files do describe a cycle through
\* the target asked for (WaitEdge::insert).
Edges == UNION {{[holder |-> t, wanted |-> u] : u \in deps[t]} : t \in Targets}
OnCycle(t) == \E u \in deps[t] : Reaches(Edges, u, t)
NoFalseCycle ==
  \A j \in Jobs : pc[j] = "contended" /\ ClosesCycle(j, waits) => OnCycle(Target(j))

\* A target that leads into a cycle is never taken to be built, whoever got
\* there first (the chain check in build() and the waits check together).
CycleNeverBuilds ==
  \A t \in Targets : mark[t] # None => \A u \in Targets : Reaches(Edges, t, u) => ~OnCycle(u)

\* The waits table holds one row for each job that blocks below the top
\* level, and no other, but for what killed runs leave behind.
RowsAreWaits ==
  /\ \A e \in waits : pc[e.by] \in {"blocked", "granted", "dead"}
  /\ \A j \in Jobs : ~TopLevel(j) /\ pc[j] = "blocked" => \E e \in waits : e.by = j

\* Every run ends: no wait is forever.
Busy(r) == \E j \in Jobs : j.run = r /\ Active(j)
Termination == \A r \in Runs : Busy(r) ~> ~Busy(r)
=============================================================================
