------------------------------ MODULE DepGraph ------------------------------
(***************************************************************************)
(* A chain of dependencies: target i's do-file reads file i - 1, file 0 is *)
(* a source.  Several runs of redo bring the last target up to date at the *)
(* same time (ifchange, ensure, is_ood_walk, build and build_inner in      *)
(* src/src/build.rs), while the user edits the source.                     *)
(*                                                                         *)
(* Every edit is a new content, numbered; a do-file copies what it reads,  *)
(* so a target's content is the number of the source it derives from.      *)
(* What one target's protocol does about crashes, hand edits and its own   *)
(* cached hash is in TargetBuild; here a hash is what the file holds.      *)
(***************************************************************************)
EXTENDS Integers

CONSTANTS
  Top,       \* the number of targets in the chain
  Runs,      \* the runs, each of which asks once for target Top
  Forced,    \* the runs that do so by `redo', the others by `redo-ifchange'
  MayCrash,  \* the runs that may be killed
  MaxEdits,  \* bound: how often the source changes
  None

ASSUME ChainAssumption ==
  /\ Top \in Nat \ {0} /\ MaxEdits \in Nat
  /\ Forced \subseteq Runs /\ MayCrash \subseteq Runs
  /\ None \notin Runs \cup Nat

Targets == 1..Top
Files == 0..Top
Versions == 0..MaxEdits

VARIABLES
  pc,       \* where each run is with each target
  known,    \* what a walk over a target's edges has read of them
  lock,     \* the run that holds each target's flock
  content,  \* the files
  owner,    \* the runid on each target's row; None while there is no row
  marker,   \* the target's Uncommitted row
  edge,     \* the hash on the target's IfChange row; None while there is none
  since,    \* history: the source when the run started
  verified, \* history: the targets each run has built or found up to date
  met       \* history: the runs that have had another beside them

vars == <<pc, known, lock, content, owner, marker, edge, since, verified, met>>

\* "mark" is reached with the lock (from build) and without it (from ensure).
Unlocked == {"ensure", "walk", "compare", "lock"}
Locked == {"recheck", "begin", "record", "read", "install", "commit"}
Working == Unlocked \cup Locked \cup {"mark"}
Labels == {"idle", "ok", "failed", "dead"} \cup Working

Typed ==
  /\ pc \in [Runs -> [Targets -> Labels]]
  /\ known \in [Runs -> [Targets -> [edge : Versions \cup {None}, marker : BOOLEAN]]]
  /\ lock \in [Targets -> Runs \cup {None}]
  /\ content \in [Files -> Versions \cup {None}] /\ content[0] # None
  /\ owner \in [Targets -> Runs \cup {None}]
  /\ marker \in [Targets -> BOOLEAN]
  /\ edge \in [Targets -> Versions \cup {None}]
  /\ since \in [Runs -> Versions]
  /\ verified \in [Runs -> SUBSET Targets] /\ met \subseteq Runs

\* A target's flock is with the run that builds it.
LocksHeld ==
  \A r \in Runs, i \in Targets :
    /\ pc[r][i] \in Locked => lock[i] = r
    /\ lock[i] = r => pc[r][i] \in Locked \cup {"mark"}

\* Every value has its type, and nobody works under a lock he has not got or
\* keeps one he does not need (TargetLock in src/src/lock.rs).
TypeOK == Typed /\ LocksHeld

Unread == [edge |-> None, marker |-> FALSE]

Init ==
  /\ pc = [r \in Runs |-> [i \in Targets |-> "idle"]]
  /\ known = [r \in Runs |-> [i \in Targets |-> Unread]]
  /\ lock = [i \in Targets |-> None]
  /\ content = [f \in Files |-> IF f = 0 THEN 0 ELSE None]
  /\ owner = [i \in Targets |-> None]
  /\ marker = [i \in Targets |-> FALSE]
  /\ edge = [i \in Targets |-> None]
  /\ since = [r \in Runs |-> 0]
  /\ verified = [r \in Runs |-> {}] /\ met = {}

Active(r) == \E i \in Targets : pc[r][i] \in Working
db == <<owner, marker, edge>>
history == <<since, verified, met>>

Goto(r, i, label) == pc' = [pc EXCEPT ![r][i] = label]

\* r is done with i: its lock, if it has it, is released, its locals die.
Return(r, i, outcome) ==
  /\ Goto(r, i, outcome)
  /\ known' = [known EXCEPT ![r][i] = Unread]
  /\ lock' = IF lock[i] = r THEN [lock EXCEPT ![i] = None] ELSE lock

\* r needs file i - 1 for i: a target is brought up to date first (ensure),
\* a source is just there.
Call(r, i, next) ==
  pc' = [pc EXCEPT ![r] = [k \in Targets |->
           IF k = i THEN next ELSE IF k = i - 1 THEN "ensure" ELSE @[k]]]
Answer(r, i) == IF i = 1 THEN "ok" ELSE pc[r][i - 1]
Answered(r, i) == Answer(r, i) = "ok"
Failed(r, i) == Answer(r, i) = "failed"

-----------------------------------------------------------------------------
\* The command line: `redo-ifchange' ensures Top, `redo' builds it anyway.
Start(r) ==
  /\ pc[r][Top] = "idle"
  /\ Goto(r, Top, IF r \in Forced THEN "lock" ELSE "ensure")
  /\ since' = [since EXCEPT ![r] = content[0]]
  /\ LET beside == {q \in Runs : Active(q)}
     IN  met' = IF beside = {} THEN met ELSE met \cup beside \cup {r}
  /\ UNCHANGED <<known, lock, content, db, verified>>

\* Mutant: what an earlier run verified is taken for verified.
EnsureAnyRun(r, i) ==
  /\ pc[r][i] = "ensure"
  /\ \/ owner[i] # None /\ Return(r, i, "ok")
     \/ owner[i] = None /\ Goto(r, i, "walk") /\ UNCHANGED <<known, lock>>
  /\ UNCHANGED <<content, db, history>>

\* Nothing to do for what this run has built or verified before.
Ensure(r, i) ==
  /\ pc[r][i] = "ensure"
  /\ \/ owner[i] = r /\ Return(r, i, "ok")
     \/ owner[i] # r /\ Goto(r, i, "walk") /\ UNCHANGED <<known, lock>>
  /\ UNCHANGED <<content, db, history>>

\* is_ood: the edges are read at once and then visited in no set order, until
\* one of them makes the target out of date.
Walk(r, i) ==
  /\ pc[r][i] = "walk"
  /\ \/ /\ owner[i] = None \/ content[i] = None \/ marker[i]
        /\ Goto(r, i, "lock")
        /\ UNCHANGED known
     \/ /\ owner[i] # None /\ content[i] # None /\ edge[i] # None
        /\ known' = [known EXCEPT ![r][i] = [edge |-> edge[i], marker |-> marker[i]]]
        /\ Call(r, i, "compare")
     \/ /\ owner[i] # None /\ content[i] # None /\ edge[i] = None /\ ~marker[i]
        /\ Goto(r, i, "mark")
        /\ UNCHANGED known
  /\ UNCHANGED <<lock, content, db, history>>

\* The dependency is up to date, or its failure is the walk's.
Compare(r, i) ==
  /\ pc[r][i] = "compare"
  /\ \/ Failed(r, i) /\ Return(r, i, "failed")
     \/ /\ Answered(r, i)
        /\ Goto(r, i, IF content[i - 1] = known[r][i].edge /\ ~known[r][i].marker
                      THEN "mark" ELSE "lock")
        /\ UNCHANGED <<known, lock>>
  /\ UNCHANGED <<content, db, history>>

\* Mutant: the build goes ahead without the lock.
AcquireUnlocked(r, i) ==
  /\ pc[r][i] = "lock"
  /\ Goto(r, i, IF r \in Forced /\ i = Top THEN "begin" ELSE "recheck")
  /\ UNCHANGED <<known, lock, content, db, history>>

\* The target's flock; `redo' goes on to build what it was asked for.
Acquire(r, i) ==
  /\ pc[r][i] = "lock"
  /\ lock[i] = None
  /\ lock' = [lock EXCEPT ![i] = r]
  /\ Goto(r, i, IF r \in Forced /\ i = Top THEN "begin" ELSE "recheck")
  /\ UNCHANGED <<known, content, db, history>>

\* Under the lock: not built by this run meanwhile, and is_ood_shallow compares
\* the recorded edge with the file as it is.
Recheck(r, i) ==
  /\ pc[r][i] = "recheck"
  /\ LET ood == \/ owner[i] = None \/ content[i] = None \/ marker[i]
                \/ edge[i] # None /\ edge[i] # content[i - 1]
     IN  Goto(r, i, IF owner[i] # r /\ ood THEN "begin" ELSE "mark")
  /\ UNCHANGED <<known, lock, content, db, history>>

\* Mutant: the row is left with the runid of the run that built it.
MarkNothing(r, i) ==
  /\ pc[r][i] = "mark"
  /\ verified' = [verified EXCEPT ![r] = @ \cup {i}]
  /\ Return(r, i, "ok")
  /\ UNCHANGED <<content, db, since, met>>

\* mark_verified.
Mark(r, i) ==
  /\ pc[r][i] = "mark"
  /\ owner' = [owner EXCEPT ![i] = IF @ = None THEN None ELSE r]
  /\ verified' = [verified EXCEPT ![r] = @ \cup {i}]
  /\ Return(r, i, "ok")
  /\ UNCHANGED <<content, marker, edge, since, met>>

-----------------------------------------------------------------------------
\* Mutant: the edges are cleared but the build is not marked in flight.
BeginUnmarked(r, i) ==
  /\ pc[r][i] = "begin"
  /\ edge' = [edge EXCEPT ![i] = None]
  /\ Call(r, i, "record")
  /\ UNCHANGED <<known, lock, content, owner, marker, history>>

\* The marker transaction; then the do-file runs and calls redo-ifchange.
Begin(r, i) ==
  /\ pc[r][i] = "begin"
  /\ marker' = [marker EXCEPT ![i] = TRUE]
  /\ edge' = [edge EXCEPT ![i] = None]
  /\ Call(r, i, "record")
  /\ UNCHANGED <<known, lock, content, owner, history>>

\* ifchange returns to the do-file: the edge carries the dependency's hash.
Record(r, i) ==
  /\ pc[r][i] = "record"
  /\ \/ /\ Failed(r, i)
        /\ Return(r, i, "failed")
        /\ UNCHANGED edge
     \/ /\ Answered(r, i) /\ content[i - 1] # None
        /\ edge' = [edge EXCEPT ![i] = content[i - 1]]
        /\ Goto(r, i, "read")
        /\ UNCHANGED <<known, lock>>
  /\ UNCHANGED <<content, owner, marker, history>>

\* The do-file reads the dependency, later, and without any lock on it.
Read(r, i) ==
  /\ pc[r][i] = "read"
  /\ \/ /\ known' = [known EXCEPT ![r][i] = [edge |-> content[i - 1], marker |-> FALSE]]
        /\ Goto(r, i, "install")
        /\ UNCHANGED lock
     \/ Return(r, i, "failed")
  /\ UNCHANGED <<content, db, history>>

\* The output is renamed over the target.
Install(r, i) ==
  /\ pc[r][i] = "install"
  /\ content' = [content EXCEPT ![i] = known[r][i].edge]
  /\ Goto(r, i, "commit")
  /\ UNCHANGED <<known, lock, db, history>>

\* The row's runid and the end of the marker, in one transaction.
Commit(r, i) ==
  /\ pc[r][i] = "commit"
  /\ owner' = [owner EXCEPT ![i] = r]
  /\ marker' = [marker EXCEPT ![i] = FALSE]
  /\ verified' = [verified EXCEPT ![r] = @ \cup {i}]
  /\ Return(r, i, "ok")
  /\ UNCHANGED <<content, edge, since, met>>

\* A run is killed with everything it started.  (On Unix a do-file may outlive
\* its redo and go on recording edges; that orphan is only in TargetBuild.)
Crash(r) ==
  /\ r \in MayCrash /\ Active(r)
  /\ pc' = [pc EXCEPT ![r] = [i \in Targets |-> "dead"]]
  /\ known' = [known EXCEPT ![r] = [i \in Targets |-> Unread]]
  /\ lock' = [i \in Targets |-> IF lock[i] = r THEN None ELSE lock[i]]
  /\ UNCHANGED <<content, db, history>>

EditSource ==
  /\ content[0] < MaxEdits
  /\ content' = [content EXCEPT ![0] = @ + 1]
  /\ UNCHANGED <<pc, known, lock, db, history>>

Step(r, i) ==
  \/ Ensure(r, i) \/ Walk(r, i) \/ Compare(r, i) \/ Acquire(r, i)
  \/ Recheck(r, i) \/ Mark(r, i) \/ Begin(r, i)
  \/ Record(r, i) \/ Read(r, i) \/ Install(r, i) \/ Commit(r, i)

Next ==
  \/ \E r \in Runs : Start(r) \/ Crash(r) \/ \E i \in Targets : Step(r, i)
  \/ EditSource

Spec == Init /\ [][Next]_vars

-----------------------------------------------------------------------------
\* PROPERTIES

\* What the database says is true: a target without a marker whose recorded
\* edge matches the dependency is what its do-file would make of it now
\* (is_ood_walk may answer "up to date" on this evidence alone).
RecordsFaithful ==
  \A i \in Targets :
    owner[i] # None /\ ~marker[i] /\ edge[i] = content[i - 1]
      => content[i] = content[i - 1]

\* A run that succeeds leaves the last target derived from the source as it
\* was when the run started, or newer: "bring a buildable target up to date"
\* (ensure, build).  It fails when another run builds and verifies a target
\* beside it.
Succeeds(r) == pc[r][Top] \in Working /\ pc'[r][Top] = "ok"
FreshOnSuccess ==
  [][\A r \in Runs : Succeeds(r) => content'[Top] >= since[r]]_vars

\* What holds of it: a run that had no other beside it succeeds with a fresh
\* target, whatever earlier runs built beside each other or left behind.
FreshAlone ==
  [][\A r \in Runs \ met : Succeeds(r) => content'[Top] >= since[r]]_vars

\* "Idempotent within a session" (ensure): a run with no other beside it does
\* not build again what it built or found up to date before.
BuiltOnce ==
  [][\A r \in Runs \ met, i \in Targets :
       pc[r][i] = "begin" /\ pc'[r][i] = "record" => i \notin verified[r]]_vars

\* Targets never go back to older sources.
NeverBackwards == [][\A i \in Targets : content[i] # None => content'[i] >= content[i]]_vars
=============================================================================
