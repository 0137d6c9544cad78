---------------------------- MODULE LockWaitsProofs ----------------------------
(***************************************************************************)
(* Proofs about LockWaits, for any graphs, runs and numbers of targets.    *)
(***************************************************************************)
EXTENDS LockWaits, SequenceTheorems, FiniteSetTheorems, TLAPS

USE DEF Live, Ended, Building, Active

\* Whoever asked for a target at all was asked by a do-file that names it.
Asked ==
  /\ \A j \in Jobs : ~TopLevel(j) /\ pc[j] \notin {"idle", "dead"} => Target(j) \in deps[Holder(j)]
  /\ \A j \in Jobs : pc[j] = "contended" => ~TopLevel(j)
  /\ \A e \in waits : e.wanted \in deps[e.holder]

\* A target that is taken to be built has its dependencies built.
BuiltBelow ==
  /\ \A j \in Jobs : pc[j] = "ok" => mark[Target(j)] # None
  /\ \A t \in Targets : mark[t] # None => \A u \in deps[t] : mark[u] # None

IInv == TypeOK /\ Asked /\ RowsAreWaits /\ BuiltBelow /\ CycleNeverBuilds

LEMMA JobFacts ==
  ASSUME NEW j \in Jobs
  PROVE  /\ j.run \in Runs /\ Target(j) \in Targets /\ j # None
         /\ ~TopLevel(j) => Holder(j) \in Targets
<1>1. j.run \in Runs /\ j.chain \in Chains /\ j # None
  BY NoneAssumption DEF Jobs
<1>2. PICK n \in 1..Cardinality(Targets) : j.chain \in [1..n -> Targets]
  BY <1>1 DEF Chains
<1>3. n \in Nat /\ n >= 1
  BY <1>2
<1>4. j.chain \in Seq(Targets) /\ Len(j.chain) = n
  BY <1>2, <1>3
<1>5. Target(j) \in Targets
  BY <1>2, <1>3, <1>4 DEF Target
<1>6. ~TopLevel(j) => Holder(j) \in Targets
  BY <1>2, <1>3, <1>4 DEF Holder, TopLevel
<1> QED BY <1>1, <1>5, <1>6

LEMMA GraphFacts == TypeOK => deps \in [Targets -> SUBSET Targets]
  BY GraphsAssumption DEF TypeOK

LEMMA DepsStay == [Next]_vars => deps' = deps
  BY DEF Next, Step, vars, Call, Skip, TryLock, InsertEdge, Granted, DropEdge, Recheck, Fail, Commit, Crash

-----------------------------------------------------------------------------
\* REACHABILITY

LEMMA ReachSelf == ASSUME NEW E, NEW t PROVE Reaches(E, t, t)
  BY DEF Reaches

LEMMA ReachFurther ==
  ASSUME NEW E, NEW t, NEW e \in E, Reaches(E, t, e.holder)
  PROVE  Reaches(E, t, e.wanted)
  BY DEF Reaches

\* A do-file's call is an edge of the graph.
LEMMA CallIsEdge ==
  ASSUME NEW t \in Targets, NEW u \in deps[t]
  PROVE  [holder |-> t, wanted |-> u] \in Edges
  BY DEF Edges

\* Recorded waits are calls that do-files make.
LEMMA WaitsAreEdges ==
  ASSUME TypeOK, Asked, NEW t, NEW u, Reaches(waits, t, u)
  PROVE  Reaches(Edges, t, u)
<1> SUFFICES ASSUME NEW S \in SUBSET Targets, t \in S, \A e \in Edges : e.holder \in S => e.wanted \in S
             PROVE  u \in S
  BY DEF Reaches
<1>1. ASSUME NEW e \in waits, e.holder \in S PROVE e.wanted \in S
  <2>1. e.wanted \in deps[e.holder]
    BY <1>1 DEF Asked
  <2>2. [holder |-> e.holder, wanted |-> e.wanted] \in Edges
    BY <1>1, <2>1, CallIsEdge
  <2> QED BY <1>1, <2>2
<1> QED BY <1>1 DEF Reaches

\* A path out of t starts with a dependency of t.
LEMMA PathStarts ==
  ASSUME TypeOK, NEW t \in Targets, NEW v \in Targets, v # t, Reaches(Edges, t, v)
  PROVE  \E u \in deps[t] : Reaches(Edges, u, v)
<1> DEFINE S == {x \in Targets : x = t \/ \E u \in deps[t] : Reaches(Edges, u, x)}
<1>1. ASSUME NEW e \in Edges, e.holder \in S PROVE e.wanted \in S
  <2>1. PICK x \in Targets : e \in {[holder |-> x, wanted |-> u] : u \in deps[x]}
    BY DEF Edges
  <2>2. PICK u \in deps[x] : e = [holder |-> x, wanted |-> u]
    BY <2>1
  <2>3. u \in Targets
    BY <2>2, GraphFacts
  <2>4. CASE x = t
    <3>1. Reaches(Edges, u, u)
      BY ReachSelf
    <3> QED BY <2>2, <2>3, <2>4, <3>1
  <2>5. CASE x # t
    <3>1. PICK w \in deps[t] : Reaches(Edges, w, x)
      BY <1>1, <2>2, <2>5
    <3>2. Reaches(Edges, w, u)
      BY <2>2, <3>1, ReachFurther
    <3> QED BY <2>2, <2>3, <3>2
  <2> QED BY <2>4, <2>5
<1>2. v \in S
  BY <1>1, Zenon DEF Reaches
<1> QED BY <1>2

\* What is reached from the targets taken to be built is one of them.
LEMMA BuiltClosed ==
  ASSUME TypeOK, BuiltBelow, NEW t \in Targets, mark[t] # None, NEW u \in Targets, Reaches(Edges, t, u)
  PROVE  mark[u] # None
<1> DEFINE S == {x \in Targets : mark[x] # None}
<1>1. ASSUME NEW e \in Edges, e.holder \in S PROVE e.wanted \in S
  <2>1. PICK x \in Targets : e \in {[holder |-> x, wanted |-> w] : w \in deps[x]}
    BY DEF Edges
  <2>2. PICK w \in deps[x] : e = [holder |-> x, wanted |-> w]
    BY <2>1
  <2>3. w \in Targets
    BY <2>2, GraphFacts
  <2> QED BY <1>1, <2>2, <2>3 DEF BuiltBelow
<1>2. u \in S
  BY <1>1, Zenon DEF Reaches
<1> QED BY <1>2

-----------------------------------------------------------------------------
\* THE STEPS

\* A step of one job.
LEMMA Moves ==
  ASSUME TypeOK, NEW j \in Jobs, NEW l, Goto(j, l)
  PROVE  \A k \in Jobs : pc'[k] = IF k = j THEN l ELSE pc[k]
  BY DEF TypeOK, Goto

LEMMA TypesStep == TypeOK /\ Asked /\ [Next]_vars => TypeOK'
<1> SUFFICES ASSUME TypeOK, Asked, [Next]_vars PROVE TypeOK'
  OBVIOUS
<1>0. TypeOK
  OBVIOUS
<1>1. ASSUME NEW j \in Jobs, Call(j) PROVE TypeOK'
  BY <1>0, <1>1, JobFacts DEF Call, Goto, TypeOK
<1>2. ASSUME NEW j \in Jobs, Skip(j) PROVE TypeOK'
  BY <1>0, <1>2, JobFacts DEF Skip, Goto, TypeOK
<1>3. ASSUME NEW j \in Jobs, TryLock(j) PROVE TypeOK'
  <2>1. CASE lock[Target(j)] = None /\ lock' = [lock EXCEPT ![Target(j)] = j] /\ Goto(j, "held")
    <3>1. pc' \in [Jobs -> {"idle"} \cup Live \cup Ended] /\ \A k \in Jobs : pc'[k] = IF k = j THEN "held" ELSE pc[k]
      BY <1>0, <2>1 DEF Goto, TypeOK
    <3>2. /\ lock' \in [Targets -> Jobs \cup {None}]
          /\ \A t \in Targets : lock'[t] = IF t = Target(j) THEN j ELSE lock[t]
      BY <1>0, <2>1, JobFacts DEF TypeOK
    <3>3. \A k \in Jobs : pc'[k] \in Building <=> lock'[Target(k)] = k
      BY <1>0, <2>1, <3>1, <3>2, JobFacts DEF TypeOK
    <3> QED BY <1>0, <1>3, <3>1, <3>2, <3>3 DEF TryLock, TypeOK
  <2>2. CASE lock' = lock /\ Goto(j, IF TopLevel(j) THEN "blocked" ELSE "contended")
    BY <1>0, <1>3, <2>2, JobFacts DEF TryLock, Goto, TypeOK
  <2> QED BY <1>3, <2>1, <2>2 DEF TryLock
<1>4. ASSUME NEW j \in Jobs, InsertEdge(j) PROVE TypeOK'
  <2>1. waits' \subseteq Rows
    <3>1. ~TopLevel(j) => [holder |-> Holder(j), wanted |-> Target(j), by |-> j] \in Rows
      BY DEF Rows
    <3>2. pc[j] = "contended" => ~TopLevel(j)
      BY DEF Asked
    <3> QED BY <1>0, <1>4, <3>1, <3>2 DEF InsertEdge, TypeOK
  <2> QED BY <1>0, <1>4, <2>1, JobFacts DEF InsertEdge, Goto, TypeOK
<1>5. ASSUME NEW j \in Jobs, Granted(j) PROVE TypeOK'
  BY <1>0, <1>5, JobFacts DEF Granted, Goto, TypeOK
<1>6. ASSUME NEW j \in Jobs, DropEdge(j) PROVE TypeOK'
  BY <1>0, <1>6, JobFacts DEF DropEdge, Goto, TypeOK
<1>7. ASSUME NEW j \in Jobs, Recheck(j) \/ Fail(j) \/ Commit(j) PROVE TypeOK'
  <2>1. \/ Goto(j, "running") /\ pc[j] \in Building /\ UNCHANGED <<lock, mark>>
        \/ /\ Goto(j, "ok") \/ Goto(j, "failed")
           /\ Release(j)
           /\ mark' = mark \/ mark' = [mark EXCEPT ![Target(j)] = j.run]
    BY <1>7 DEF Recheck, Fail, Commit
  <2>2. UNCHANGED <<deps, waits>>
    BY <1>7 DEF Recheck, Fail, Commit
  <2>3. CASE Goto(j, "running") /\ pc[j] \in Building /\ UNCHANGED <<lock, mark>>
    BY <1>0, <2>2, <2>3, JobFacts DEF Goto, TypeOK
  <2>4. CASE /\ Goto(j, "ok") \/ Goto(j, "failed")
             /\ Release(j)
             /\ mark' = mark \/ mark' = [mark EXCEPT ![Target(j)] = j.run]
    <3>1. pc' \in [Jobs -> {"idle"} \cup Live \cup Ended] /\ pc'[j] \notin Building
          /\ \A k \in Jobs : k # j => pc'[k] = pc[k]
      BY <1>0, <2>4 DEF Goto, TypeOK
    <3>2. lock' \in [Targets -> Jobs \cup {None}]
      BY <1>0, <2>4 DEF Release, TypeOK
    <3>3. mark' \in [Targets -> Runs \cup {None}]
      BY <1>0, <2>4, JobFacts DEF TypeOK
    <3>4. \A t \in Targets : lock'[t] = IF lock[t] = j THEN None ELSE lock[t]
      BY <2>4 DEF Release
    <3>5. \A k \in Jobs : pc'[k] \in Building <=> lock'[Target(k)] = k
      BY <1>0, <3>1, <3>4, JobFacts DEF TypeOK
    <3> QED BY <1>0, <2>2, <3>1, <3>2, <3>3, <3>5 DEF TypeOK
  <2> QED BY <2>1, <2>3, <2>4
<1>8. ASSUME NEW r \in Runs, Crash(r) PROVE TypeOK'
  <2>1. lock' \in [Targets -> Jobs \cup {None}] /\ pc' \in [Jobs -> {"idle"} \cup Live \cup Ended]
    BY <1>0, <1>8 DEF Crash, TypeOK
  <2>2. ASSUME NEW k \in Jobs PROVE pc'[k] \in Building <=> lock'[Target(k)] = k
    <3>1. lock'[Target(k)] = IF lock[Target(k)] # None /\ lock[Target(k)].run = r THEN None ELSE lock[Target(k)]
      BY <1>8, JobFacts DEF Crash
    <3>2. pc'[k] = IF k.run = r /\ (Active(k) \/ pc[k] = "idle") THEN "dead" ELSE pc[k]
      BY <1>8 DEF Crash
    <3>3. pc[k] \in Building <=> lock[Target(k)] = k
      BY <1>0 DEF TypeOK
    <3> QED BY <3>1, <3>2, <3>3, JobFacts
  <2> QED BY <1>0, <1>8, <2>1, <2>2 DEF Crash, TypeOK
<1>9. CASE UNCHANGED vars
  BY <1>0, <1>9 DEF vars, TypeOK
<1> QED BY <1>1, <1>2, <1>3, <1>4, <1>5, <1>6, <1>7, <1>8, <1>9 DEF Next, Step

LEMMA AskedStep == TypeOK /\ Asked /\ [Next]_vars => Asked'
<1> SUFFICES ASSUME TypeOK, Asked, [Next]_vars PROVE Asked'
  OBVIOUS
<1>0. deps' = deps
  BY DepsStay
<1>1. ASSUME NEW j \in Jobs, Call(j) PROVE Asked'
  <2>1. UNCHANGED waits /\ (~TopLevel(j) => Target(j) \in deps[Holder(j)])
    BY <1>1 DEF Call
  <2>2. \A k \in Jobs : pc'[k] = IF k = j THEN "try" ELSE pc[k]
    BY <1>1, Moves DEF Call
  <2> QED BY <1>0, <2>1, <2>2 DEF Asked
<1>2. ASSUME NEW j \in Jobs, Step(j) PROVE Asked'
  <2>1. pc[j] \notin {"idle", "dead"} /\ \A k \in Jobs : k # j => pc'[k] = pc[k]
    BY <1>2, Moves DEF Step, Skip, TryLock, InsertEdge, Granted, DropEdge, Recheck, Fail, Commit
  <2>2. \A k \in Jobs : ~TopLevel(k) /\ pc'[k] \notin {"idle", "dead"} => Target(k) \in deps[Holder(k)]
    BY <2>1 DEF Asked
  <2>4. pc'[j] = "contended" => ~TopLevel(j)
    BY <1>2, Moves DEF Step, Skip, TryLock, InsertEdge, Granted, DropEdge, Recheck, Fail, Commit, Asked
  <2>3. ASSUME NEW e \in waits' PROVE e.wanted \in deps[e.holder]
    <3>1. e \in waits \/ (e = [holder |-> Holder(j), wanted |-> Target(j), by |-> j] /\ pc[j] = "contended")
      BY <1>2, <2>3 DEF Step, Skip, TryLock, InsertEdge, Granted, DropEdge, Recheck, Fail, Commit
    <3>2. pc[j] = "contended" => ~TopLevel(j)
      BY DEF Asked
    <3> QED BY <3>1, <3>2 DEF Asked
  <2> QED BY <1>0, <2>1, <2>2, <2>3, <2>4 DEF Asked
<1>3. ASSUME NEW r \in Runs, Crash(r) PROVE Asked'
  <2>1. waits' = waits /\ \A k \in Jobs : pc'[k] = pc[k] \/ pc'[k] = "dead"
    BY <1>3 DEF Crash
  <2> QED BY <1>0, <2>1 DEF Asked
<1>4. CASE UNCHANGED vars
  BY <1>4 DEF vars, Asked
<1> QED BY <1>1, <1>2, <1>3, <1>4 DEF Next

LEMMA RowsStep == TypeOK /\ Asked /\ RowsAreWaits /\ [Next]_vars => RowsAreWaits'
<1> SUFFICES ASSUME TypeOK, Asked, RowsAreWaits, [Next]_vars PROVE RowsAreWaits'
  OBVIOUS
<1>0. \A e \in waits : e.by \in Jobs
  BY DEF TypeOK, Rows
<1>1. ASSUME NEW j \in Jobs, Call(j) \/ Skip(j) \/ TryLock(j) \/ Recheck(j) \/ Fail(j) \/ Commit(j)
      PROVE  RowsAreWaits'
  <2>1. /\ waits' = waits /\ pc[j] \in {"idle", "try", "held", "running"}
        /\ \A k \in Jobs : k # j => pc'[k] = pc[k]
        /\ pc'[j] = "blocked" => TopLevel(j)
    BY <1>1, Moves DEF Call, Skip, TryLock, Recheck, Fail, Commit
  <2> QED BY <1>0, <2>1 DEF RowsAreWaits
<1>2. ASSUME NEW j \in Jobs, InsertEdge(j) PROVE RowsAreWaits'
  <2> DEFINE e0 == [holder |-> Holder(j), wanted |-> Target(j), by |-> j]
  <2>1. /\ pc[j] = "contended" /\ \A k \in Jobs : k # j => pc'[k] = pc[k]
        /\ \/ pc'[j] = "failed" /\ waits' = waits
           \/ pc'[j] = "blocked" /\ waits' = waits \cup {e0}
    BY <1>2, Moves DEF InsertEdge
  <2>2. e0.by = j
    OBVIOUS
  <2> HIDE DEF e0
  <2> QED BY <1>0, <2>1, <2>2 DEF RowsAreWaits
<1>3. ASSUME NEW j \in Jobs, Granted(j) PROVE RowsAreWaits'
  <2>1. waits' = waits /\ \A k \in Jobs : pc'[k] = IF k = j THEN "granted" ELSE pc[k]
    BY <1>3, Moves DEF Granted
  <2> QED BY <1>0, <2>1 DEF RowsAreWaits
<1>4. ASSUME NEW j \in Jobs, DropEdge(j) PROVE RowsAreWaits'
  <2>1. waits' = {e \in waits : e.by # j} /\ \A k \in Jobs : pc'[k] = IF k = j THEN "held" ELSE pc[k]
    BY <1>4, Moves DEF DropEdge
  <2> QED BY <1>0, <2>1 DEF RowsAreWaits
<1>5. ASSUME NEW r \in Runs, Crash(r) PROVE RowsAreWaits'
  <2>1. waits' = waits /\ \A k \in Jobs : pc'[k] = pc[k] \/ pc'[k] = "dead"
    BY <1>5 DEF Crash
  <2> QED BY <1>0, <2>1 DEF RowsAreWaits
<1>6. CASE UNCHANGED vars
  BY <1>6 DEF vars, RowsAreWaits
<1> QED BY <1>1, <1>2, <1>3, <1>4, <1>5, <1>6 DEF Next, Step

\* What a step does to the marks: one more target, at most, and then all of
\* its dependencies had theirs.
LEMMA MarksStep ==
  ASSUME TypeOK, BuiltBelow, [Next]_vars
  PROVE  /\ \A t \in Targets : mark[t] # None => mark'[t] # None
         /\ \A j \in Jobs : pc'[j] = "ok" => pc[j] = "ok" \/ mark'[Target(j)] # None
         /\ \A t \in Targets : mark[t] = None /\ mark'[t] # None =>
              /\ \A u \in Targets : u # t => mark'[u] = mark[u]
              /\ \A u \in deps[t] : mark[u] # None
<1>0. \A j \in Jobs : j.run # None /\ j.run \in Runs /\ Target(j) \in Targets
  BY JobFacts, RunsAssumption
<1>1. ASSUME NEW j \in Jobs, Skip(j) \/ Recheck(j)
      PROVE  /\ \A t \in Targets : mark[t] # None <=> mark'[t] # None
             /\ \A k \in Jobs : pc'[k] = "ok" => pc[k] = "ok" \/ mark'[Target(k)] # None
  <2>1. /\ \/ mark' = mark /\ pc'[j] # "ok"
           \/ mark' = [mark EXCEPT ![Target(j)] = j.run] /\ mark[Target(j)] # None
        /\ \A k \in Jobs : k # j => pc'[k] = pc[k]
    BY <1>1, Moves DEF Skip, Recheck
  <2>2. CASE mark' = mark /\ pc'[j] # "ok"
    BY <2>1, <2>2
  <2>3. CASE mark' = [mark EXCEPT ![Target(j)] = j.run] /\ mark[Target(j)] # None
    <3>1. \A t \in Targets : mark'[t] = IF t = Target(j) THEN j.run ELSE mark[t]
      BY <2>3 DEF TypeOK
    <3> QED BY <1>0, <2>1, <2>3, <3>1
  <2> QED BY <2>1, <2>2, <2>3
<1>2. ASSUME NEW j \in Jobs, Commit(j)
      PROVE  /\ \A t \in Targets : mark'[t] = IF t = Target(j) THEN j.run ELSE mark[t]
             /\ \A u \in deps[Target(j)] : mark[u] # None
             /\ \A k \in Jobs : k # j => pc'[k] = pc[k]
  <2>1. \A t \in Targets : mark'[t] = IF t = Target(j) THEN j.run ELSE mark[t]
    BY <1>2 DEF Commit, TypeOK
  <2>2. \A u \in deps[Target(j)] : mark[u] # None
    BY <1>2 DEF Commit, AllSucceeded, BuiltBelow
  <2>3. \A k \in Jobs : k # j => pc'[k] = pc[k]
    BY <1>2, Moves DEF Commit
  <2> QED BY <2>1, <2>2, <2>3
<1>3. ASSUME NEW j \in Jobs, Call(j) \/ TryLock(j) \/ InsertEdge(j) \/ Granted(j) \/ DropEdge(j) \/ Fail(j)
      PROVE  mark' = mark /\ \A k \in Jobs : pc'[k] = "ok" => pc[k] = "ok"
  BY <1>3, Moves DEF Call, TryLock, InsertEdge, Granted, DropEdge, Fail
<1>4. ASSUME NEW r \in Runs, Crash(r)
      PROVE  mark' = mark /\ \A k \in Jobs : pc'[k] = "ok" => pc[k] = "ok"
  BY <1>4 DEF Crash
<1>5. CASE UNCHANGED vars
  BY <1>5 DEF vars
<1>6. ASSUME NEW j \in Jobs, Commit(j)
      PROVE  /\ \A t \in Targets : mark[t] # None => mark'[t] # None
             /\ \A k \in Jobs : pc'[k] = "ok" => pc[k] = "ok" \/ mark'[Target(k)] # None
             /\ \A t \in Targets : mark[t] = None /\ mark'[t] # None =>
                  /\ \A u \in Targets : u # t => mark'[u] = mark[u]
                  /\ \A u \in deps[t] : mark[u] # None
  BY <1>0, <1>2, <1>6
<1> QED BY <1>1, <1>3, <1>4, <1>5, <1>6 DEF Next, Step

LEMMA BuiltBelowStep == TypeOK /\ BuiltBelow /\ [Next]_vars => BuiltBelow'
<1> SUFFICES ASSUME TypeOK, BuiltBelow, [Next]_vars PROVE BuiltBelow'
  OBVIOUS
<1>1. \A t \in Targets : deps[t] \subseteq Targets
  BY GraphFacts
<1>2. \A j \in Jobs : pc'[j] = "ok" => mark'[Target(j)] # None
  BY MarksStep, JobFacts DEF BuiltBelow
<1>3. ASSUME NEW t \in Targets, mark'[t] # None, NEW u \in deps[t] PROVE mark'[u] # None
  <2>1. mark[u] # None
    BY <1>3, MarksStep DEF BuiltBelow
  <2> QED BY <1>1, <2>1, MarksStep
<1> QED BY <1>2, <1>3, DepsStay DEF BuiltBelow

\* A target that gets its mark is on no cycle: what it leads to had its mark
\* before, and would have led back to it.
LEMMA CyclesStep == TypeOK /\ BuiltBelow /\ CycleNeverBuilds /\ [Next]_vars => CycleNeverBuilds'
<1> SUFFICES ASSUME TypeOK, BuiltBelow, CycleNeverBuilds, [Next]_vars,
                    NEW t \in Targets, mark'[t] # None, NEW u \in Targets, Reaches(Edges, t, u), OnCycle(u)
             PROVE  FALSE
  BY DepsStay DEF CycleNeverBuilds, Edges, OnCycle, Reaches
<1>1. \A x \in Targets : deps[x] \subseteq Targets
  BY GraphFacts
<1>2. mark[t] = None /\ \A d \in deps[t] : mark[d] # None
  BY MarksStep DEF CycleNeverBuilds
<1>3. u = t
  <2> SUFFICES ASSUME u # t PROVE FALSE
    OBVIOUS
  <2>1. PICK d \in deps[t] : Reaches(Edges, d, u)
    BY PathStarts
  <2> QED BY <1>1, <1>2, <2>1 DEF CycleNeverBuilds
<1>4. PICK d \in deps[t] : Reaches(Edges, d, t)
  BY <1>3 DEF OnCycle
<1>5. mark[t] # None
  BY <1>1, <1>2, <1>4, BuiltClosed
<1> QED BY <1>2, <1>5

-----------------------------------------------------------------------------
\* WHO WAITS FOR WHOM

\* The call above a job is a job, of the same run, for the holder.
LEMMA ParentFacts ==
  ASSUME NEW j \in Jobs, ~TopLevel(j)
  PROVE  /\ Parent(j) \in Jobs /\ Parent(j).run = j.run
         /\ Target(Parent(j)) = Holder(j)
         /\ IsChild(j, Parent(j))
         /\ \A i \in DOMAIN Parent(j).chain : Parent(j).chain[i] # Target(j)
<1> DEFINE s == j.chain
           p == SubSeq(s, 1, Len(s) - 1)
<1>1. j \in [run : Runs, chain : Chains] /\ s[1] \in Roots[j.run]
  BY DEF Jobs
<1>2. Cardinality(Targets) \in Nat
  BY TargetsAssumption, FS_CardinalityType
<1>3. PICK n \in 1..Cardinality(Targets) :
        s \in [1..n -> Targets] /\ \A i, k \in DOMAIN s : s[i] = s[k] => i = k
  BY <1>1 DEF Chains
<1>4. s \in Seq(Targets) /\ Len(s) = n /\ n \in Nat /\ n >= 1
  BY <1>3
<1>5. n > 1
  BY <1>4 DEF TopLevel
<1>6. /\ p \in Seq(Targets) /\ Len(p) = n - 1
      /\ \A i \in 1..n - 1 : p[i] = s[i]
  BY <1>4, <1>5, SubSeqProperties
<1>7. p \in [1..n - 1 -> Targets] /\ n - 1 \in 1..Cardinality(Targets)
  <2>1. n - 1 \in 1..Cardinality(Targets)
    BY <1>2, <1>3, <1>5
  <2>2. p \in [1..Len(p) -> Targets]
    <3> HIDE DEF p
    <3> QED BY <1>6, LenProperties
  <2> QED BY <1>6, <2>1, <2>2
<1>8. \A i, k \in DOMAIN p : p[i] = p[k] => i = k
  BY <1>3, <1>6, <1>7
<1>9. p \in Chains
  BY <1>7, <1>8 DEF Chains
<1>10. Parent(j).run = j.run /\ Parent(j).chain = p /\ Parent(j) \in [run : Runs, chain : Chains]
  BY <1>1, <1>9 DEF Parent
<1>11. Parent(j) \in Jobs
  BY <1>1, <1>5, <1>6, <1>10 DEF Jobs
<1>12. \A i \in DOMAIN p : p[i] # Target(j)
  BY <1>3, <1>4, <1>6, <1>7 DEF Target
<1> QED BY <1>4, <1>5, <1>6, <1>10, <1>11, <1>12 DEF Target, Holder, IsChild

\* A do-file has one call for each target.
LEMMA OneCall ==
  ASSUME NEW j \in Jobs, NEW k \in Jobs, NEW p, IsChild(j, p), IsChild(k, p), Target(j) = Target(k)
  PROVE  j = k
<1>1. j \in [run : Runs, chain : Chains] /\ k \in [run : Runs, chain : Chains]
  BY DEF Jobs
<1>2. j.run = k.run /\ SubSeq(j.chain, 1, Len(j.chain) - 1) = SubSeq(k.chain, 1, Len(k.chain) - 1)
  BY <1>1 DEF IsChild, Parent
<1>3. PICK n \in 1..Cardinality(Targets) : j.chain \in [1..n -> Targets]
  BY <1>1 DEF Chains
<1>4. PICK m \in 1..Cardinality(Targets) : k.chain \in [1..m -> Targets]
  BY <1>1 DEF Chains
<1>5. /\ j.chain \in Seq(Targets) /\ Len(j.chain) = n /\ n \in Nat
      /\ k.chain \in Seq(Targets) /\ Len(k.chain) = m /\ m \in Nat
  BY <1>3, <1>4
<1>6. n = m
  BY <1>5 DEF IsChild
<1>7. \A i \in 1..n - 1 : SubSeq(j.chain, 1, n - 1)[i] = j.chain[i] /\ SubSeq(k.chain, 1, n - 1)[i] = k.chain[i]
  BY <1>5, <1>6, SubSeqProperties
<1>8. \A i \in 1..n : j.chain[i] = k.chain[i]
  BY <1>2, <1>5, <1>6, <1>7 DEF Target
<1>9. j.chain = k.chain
  BY <1>3, <1>4, <1>6, <1>8
<1> QED BY <1>1, <1>2, <1>9

\* Whoever called a live job is in its do-file.
CallersRun == \A j \in Jobs : ~TopLevel(j) /\ Active(j) => pc[Parent(j)] = "running"

LEMMA CallersStep == TypeOK /\ Asked /\ CallersRun /\ [Next]_vars => CallersRun'
<1> SUFFICES ASSUME TypeOK, Asked, CallersRun, [Next]_vars,
                    NEW k \in Jobs, ~TopLevel(k), Active(k)'
             PROVE  pc'[Parent(k)] = "running"
  BY DEF CallersRun
<1>0. Parent(k) \in Jobs /\ IsChild(k, Parent(k)) /\ Parent(k).run = k.run
  BY ParentFacts
<1>1. ASSUME NEW j \in Jobs, Call(j) PROVE pc'[Parent(k)] = "running"
  <2>1. pc[j] = "idle" /\ \A i \in Jobs : pc'[i] = IF i = j THEN "try" ELSE pc[i]
    BY <1>1, Moves DEF Call
  <2>2. pc[Parent(k)] = "running"
    BY <1>1, <2>1 DEF Call, CallersRun
  <2> QED BY <1>0, <2>1, <2>2
<1>2. ASSUME NEW j \in Jobs, Skip(j) \/ TryLock(j) \/ InsertEdge(j) \/ Granted(j) \/ DropEdge(j) \/ Recheck(j)
      PROVE  pc'[Parent(k)] = "running"
  <2>1. pc[j] \in Live \ {"running"} /\ \A i \in Jobs : i # j => pc'[i] = pc[i]
    BY <1>2, Moves DEF Skip, TryLock, InsertEdge, Granted, DropEdge, Recheck
  <2> QED BY <1>0, <2>1 DEF CallersRun
<1>3. ASSUME NEW j \in Jobs, Fail(j) \/ Commit(j) PROVE pc'[Parent(k)] = "running"
  <2>1. pc'[j] \notin Live /\ \A i \in Jobs : i # j => pc'[i] = pc[i]
    BY <1>3, Moves DEF Fail, Commit
  <2>2. Active(k) /\ pc[Parent(k)] = "running"
    BY <2>1 DEF CallersRun
  <2>3. ASSUME Parent(k) = j PROVE FALSE
    <3>1. CASE Fail(j)
      BY <1>0, <2>2, <2>3, <3>1 DEF Fail
    <3>2. CASE Commit(j)
      <4>1. Target(k) \in deps[Target(j)]
        BY <2>2, <2>3, ParentFacts DEF Asked
      <4>2. PICK i \in Jobs : IsChild(i, j) /\ Target(i) = Target(k) /\ pc[i] = "ok"
        BY <3>2, <4>1 DEF Commit, AllSucceeded
      <4>3. i = k
        BY <1>0, <2>3, <4>2, OneCall
      <4> QED BY <2>2, <4>2, <4>3
    <3> QED BY <1>3, <3>1, <3>2
  <2> QED BY <1>0, <2>1, <2>2, <2>3
<1>4. ASSUME NEW r \in Runs, Crash(r) PROVE pc'[Parent(k)] = "running"
  BY <1>0, <1>4 DEF Crash, CallersRun
<1>5. CASE UNCHANGED vars
  BY <1>5 DEF vars, CallersRun
<1> QED BY <1>1, <1>2, <1>3, <1>4, <1>5 DEF Next, Step

LEMMA ReachMore ==
  ASSUME NEW E, NEW F, E \subseteq F, NEW t, NEW u, Reaches(E, t, u)
  PROVE  Reaches(F, t, u)
  BY DEF Reaches

LEMMA ReachOn ==
  ASSUME NEW E, NEW t, NEW u, NEW v, Reaches(E, t, u), Reaches(E, u, v)
  PROVE  Reaches(E, t, v)
  BY DEF Reaches

\* A path in a graph with one more edge takes that edge or does not.
LEMMA ReachSplit ==
  ASSUME NEW E, NEW e, \A f \in E \cup {e} : f.wanted \in Targets,
         NEW t \in Targets, NEW u \in Targets, Reaches(E \cup {e}, t, u)
  PROVE  Reaches(E, t, u) \/ (Reaches(E, t, e.holder) /\ Reaches(E, e.wanted, u))
<1> DEFINE S == {x \in Targets : Reaches(E, t, x) \/ (Reaches(E, t, e.holder) /\ Reaches(E, e.wanted, x))}
<1>1. t \in S
  BY ReachSelf
<1>2. ASSUME NEW f \in E \cup {e}, f.holder \in S PROVE f.wanted \in S
  <2>1. CASE f = e
    <3>1. Reaches(E, e.wanted, e.wanted)
      BY ReachSelf
    <3> QED BY <1>2, <2>1, <3>1
  <2>2. CASE f \in E
    <3>1. Reaches(E, t, f.holder) => Reaches(E, t, f.wanted)
      BY <2>2, ReachFurther
    <3>2. Reaches(E, e.wanted, f.holder) => Reaches(E, e.wanted, f.wanted)
      BY <2>2, ReachFurther
    <3> QED BY <1>2, <3>1, <3>2
  <2> QED BY <1>2, <2>1, <2>2
<1>3. u \in S
  BY <1>1, <1>2, Zenon DEF Reaches
<1> QED BY <1>3

\* No edges close a cycle.
NoCycle(E) == \A e \in E : ~Reaches(E, e.wanted, e.holder)

\* An edge that the search lets pass closes none.
LEMMA AddEdge ==
  ASSUME NEW E, NEW e, \A f \in E \cup {e} : f.wanted \in Targets /\ f.holder \in Targets,
         NoCycle(E), ~Reaches(E, e.wanted, e.holder)
  PROVE  NoCycle(E \cup {e})
<1> SUFFICES ASSUME NEW f \in E \cup {e}, Reaches(E \cup {e}, f.wanted, f.holder) PROVE FALSE
  BY DEF NoCycle
<1>1. \/ Reaches(E, f.wanted, f.holder)
      \/ Reaches(E, f.wanted, e.holder) /\ Reaches(E, e.wanted, f.holder)
  BY ReachSplit
<1>2. CASE f = e
  BY <1>1, <1>2
<1>3. CASE f \in E
  <2>1. Reaches(E, f.wanted, e.holder) /\ Reaches(E, e.wanted, f.holder)
    BY <1>1, <1>3 DEF NoCycle
  <2>2. Reaches(E, e.wanted, f.wanted)
    BY <1>3, <2>1, ReachFurther
  <2> QED BY <2>1, <2>2, ReachOn
<1> QED BY <1>2, <1>3

\* What the check does achieve: the waits that live jobs have recorded close no
\* cycle, whatever rows killed runs left and whatever a probe makes look held;
\* a circular wait goes through a target that was free when it was asked for.
LiveRows == {e \in waits : pc[e.by] # "dead"}
NoRecordedCycle == \A e \in LiveRows : ~Reaches(LiveRows, e.wanted, e.holder)

\* A live job's row counts in every search.
LEMMA LiveRowsCount ==
  ASSUME TypeOK, RowsAreWaits, CallersRun
  PROVE  LiveRows \subseteq HeldEdges
<1> SUFFICES ASSUME NEW e \in waits, pc[e.by] # "dead" PROVE lock[e.holder] # None
  BY DEF LiveRows, HeldEdges
<1>1. PICK j \in Jobs : ~TopLevel(j) /\ e = [holder |-> Holder(j), wanted |-> Target(j), by |-> j]
  BY DEF TypeOK, Rows
<1>2. pc[j] \in {"blocked", "granted"}
  BY <1>1 DEF RowsAreWaits
<1>3. pc[Parent(j)] = "running" /\ Parent(j) \in Jobs /\ Target(Parent(j)) = Holder(j)
  BY <1>1, <1>2, ParentFacts DEF CallersRun
<1>4. lock[Holder(j)] = Parent(j)
  BY <1>3 DEF TypeOK
<1> QED BY <1>1, <1>3, <1>4, JobFacts

LEMMA RecordedStep ==
  TypeOK /\ Asked /\ RowsAreWaits /\ CallersRun /\ NoRecordedCycle /\ [Next]_vars => NoRecordedCycle'
<1> SUFFICES ASSUME TypeOK, Asked, RowsAreWaits, CallersRun, NoRecordedCycle, [Next]_vars
             PROVE  NoCycle(LiveRows')
  BY DEF NoRecordedCycle, NoCycle
<1>0. NoCycle(LiveRows)
  BY DEF NoRecordedCycle, NoCycle
<1>1. \A e \in waits : e.by \in Jobs /\ e.holder \in Targets /\ e.wanted \in Targets
  BY JobFacts DEF TypeOK, Rows
<1>2. ASSUME LiveRows' \subseteq LiveRows PROVE NoCycle(LiveRows')
  BY <1>0, <1>2, ReachMore DEF NoCycle
<1>3. ASSUME NEW j \in Jobs, Call(j) \/ Skip(j) \/ TryLock(j) \/ Granted(j) \/ DropEdge(j) \/ Recheck(j) \/ Fail(j) \/ Commit(j)
      PROVE  LiveRows' \subseteq LiveRows
  <2>1. waits' \subseteq waits
    BY <1>3 DEF Call, Skip, TryLock, Granted, DropEdge, Recheck, Fail, Commit
  <2>2. pc[j] # "dead" /\ \A i \in Jobs : i # j => pc'[i] = pc[i]
    BY <1>3, Moves DEF Call, Skip, TryLock, Granted, DropEdge, Recheck, Fail, Commit
  <2> QED BY <1>1, <2>1, <2>2 DEF LiveRows
<1>4. ASSUME NEW j \in Jobs, InsertEdge(j) PROVE NoCycle(LiveRows')
  <2> DEFINE e == [holder |-> Holder(j), wanted |-> Target(j), by |-> j]
  <2>1. pc[j] = "contended" /\ \A i \in Jobs : i # j => pc'[i] = pc[i]
    BY <1>4, Moves DEF InsertEdge
  <2>2. CASE waits' = waits
    BY <1>1, <1>2, <2>1, <2>2 DEF LiveRows
  <2>3. CASE waits' # waits
    <3>1. PICK counting \in {HeldEdges, waits} : ~ClosesCycle(j, counting) /\ waits' = waits \cup {e}
      BY <1>4, <2>3 DEF InsertEdge
    <3>2. LiveRows \subseteq counting
      BY LiveRowsCount DEF LiveRows
    <3>3. ~Reaches(LiveRows, e.wanted, e.holder)
      BY <3>1, <3>2, ReachMore DEF ClosesCycle
    <3>4. LiveRows' \subseteq LiveRows \cup {e}
      BY <1>1, <2>1, <3>1 DEF LiveRows
    <3>5. e.wanted \in Targets /\ e.holder \in Targets
      BY <2>1, JobFacts DEF Asked
    <3>6. NoCycle(LiveRows \cup {e})
      <4>1. \A f \in LiveRows \cup {e} : f.wanted \in Targets /\ f.holder \in Targets
        BY <1>1, <3>5 DEF LiveRows
      <4> HIDE DEF e
      <4> QED BY <1>0, <3>3, <4>1, AddEdge
    <3> QED BY <3>4, <3>6, ReachMore DEF NoCycle
  <2> QED BY <2>2, <2>3
<1>5. ASSUME NEW r \in Runs, Crash(r) PROVE LiveRows' \subseteq LiveRows
  BY <1>1, <1>5 DEF Crash, LiveRows
<1>6. CASE UNCHANGED vars
  BY <1>2, <1>6 DEF vars, LiveRows
<1> QED BY <1>2, <1>3, <1>4, <1>5, <1>6 DEF Next, Step

-----------------------------------------------------------------------------
\* THE THEOREMS

LEMMA InitHolds == Init => IInv
<1> SUFFICES ASSUME Init PROVE IInv
  OBVIOUS
<1>1. TypeOK
  BY JobFacts DEF Init, TypeOK
<1>2. Asked /\ RowsAreWaits /\ BuiltBelow /\ CycleNeverBuilds
  BY JobFacts DEF Init, Asked, RowsAreWaits, BuiltBelow, CycleNeverBuilds
<1> QED BY <1>1, <1>2 DEF IInv

\* The inductive invariant.
THEOREM Invariance == Spec => []IInv
<1>1. IInv /\ [Next]_vars => IInv'
  BY TypesStep, AskedStep, RowsStep, BuiltBelowStep, CyclesStep DEF IInv
<1> QED BY <1>1, InitHolds, PTL DEF Spec

\* Type correctness: the jobs past the lock are exactly the locks' owners,
\* whatever is killed (TargetLock in src/src/lock.rs).
THEOREM TypeCorrect == Spec => []TypeOK
<1>1. IInv => TypeOK
  BY DEF IInv
<1> QED BY <1>1, Invariance, PTL

\* The rows of the waits table are the waits of live jobs, but for those of
\* killed runs (WaitEdge).
THEOREM RowsTruthful == Spec => []RowsAreWaits
<1>1. IInv => RowsAreWaits
  BY DEF IInv
<1> QED BY <1>1, Invariance, PTL

\* A cycle error tells the truth, whatever rows killed runs have left and
\* whatever a probe makes look held (WaitEdge::insert).
THEOREM CyclesReal == Spec => []NoFalseCycle
<1>1. IInv => NoFalseCycle
  <2> SUFFICES ASSUME IInv, NEW j \in Jobs, pc[j] = "contended", ClosesCycle(j, waits)
               PROVE  OnCycle(Target(j))
    BY DEF NoFalseCycle
  <2> DEFINE t == Target(j)
             h == Holder(j)
  <2>1. t \in Targets /\ h \in Targets /\ t \in deps[h]
    BY JobFacts DEF IInv, Asked
  <2>2. Reaches(Edges, t, h)
    BY WaitsAreEdges DEF IInv, ClosesCycle
  <2>3. [holder |-> h, wanted |-> t] \in Edges
    BY <2>1, CallIsEdge
  <2>4. CASE h = t
    <3>1. Reaches(Edges, t, t)
      BY ReachSelf
    <3> QED BY <2>1, <2>4, <3>1 DEF OnCycle
  <2>5. CASE h # t
    <3>1. PICK u \in deps[t] : Reaches(Edges, u, h)
      BY <2>1, <2>2, <2>5, PathStarts DEF IInv
    <3>2. Reaches(Edges, u, t)
      BY <2>3, <3>1, ReachFurther
    <3> QED BY <3>2 DEF OnCycle
  <2> QED BY <2>4, <2>5
<1> QED BY <1>1, Invariance, PTL

\* A target that leads into a cycle is never taken to be built, in any graph
\* and with any runs (the chain check in build() and the waits check).
THEOREM CyclesNeverBuild == Spec => []CycleNeverBuilds
<1>1. IInv => CycleNeverBuilds
  BY DEF IInv
<1> QED BY <1>1, Invariance, PTL

LEMMA RecordedInvariance == Spec => [](CallersRun /\ NoRecordedCycle)
<1>1. Init => CallersRun /\ NoRecordedCycle
  BY DEF Init, CallersRun, NoRecordedCycle, LiveRows
<1>2. IInv /\ CallersRun /\ NoRecordedCycle /\ [Next]_vars => (CallersRun /\ NoRecordedCycle)'
  BY CallersStep, RecordedStep DEF IInv
<1> QED BY <1>1, <1>2, Invariance, PTL DEF Spec

\* What live jobs have recorded closes no cycle, whatever rows killed runs left
\* and whatever probes make look held (WaitEdge::insert, wait_path).
THEOREM RecordedNeverCircular == Spec => []NoRecordedCycle
BY RecordedInvariance, PTL

\* Two targets never wait for each other, however a cycle is entered: below
\* one do-file the chain check sees it, from two sides the waits table does.
THEOREM NoTwoDeadlock == Spec => []NoMutualWait
<1>1. IInv /\ CallersRun /\ NoRecordedCycle => NoMutualWait
  <2> SUFFICES ASSUME IInv, CallersRun, NoRecordedCycle,
                      NEW e \in WaitsFor, NEW f \in WaitsFor, e.wanted = f.holder, f.wanted = e.holder
               PROVE  FALSE
    BY DEF NoMutualWait
  <2>1. PICK a \in Jobs : /\ ~TopLevel(a) /\ pc[a] \in {"blocked"} \cup Building
                          /\ e = [holder |-> Holder(a), wanted |-> Target(a)]
    BY DEF WaitsFor
  <2>2. PICK b \in Jobs : /\ ~TopLevel(b) /\ pc[b] \in {"blocked"} \cup Building
                          /\ f = [holder |-> Holder(b), wanted |-> Target(b)]
    BY DEF WaitsFor
  <2>3. Target(a) = Holder(b) /\ Target(b) = Holder(a)
    BY <2>1, <2>2
  \* One that has what it asked for has called the other, which is in its chain.
  <2>4. ASSUME NEW x \in Jobs, NEW y \in Jobs, ~TopLevel(x), ~TopLevel(y), Active(x), Active(y),
               Target(x) = Holder(y), Target(y) = Holder(x), pc[x] \in Building
        PROVE  FALSE
    <3>1. lock[Holder(y)] = Parent(y) /\ lock[Target(x)] = x
      BY <2>4, ParentFacts DEF IInv, TypeOK, CallersRun
    <3>2. Parent(y) = x
      BY <2>4, <3>1
    <3>3. Holder(x) = x.chain[Len(x.chain) - 1] /\ Len(x.chain) - 1 \in DOMAIN x.chain
      <4>0. PICK n \in 1..Cardinality(Targets) : x.chain \in [1..n -> Targets]
        BY DEF Jobs, Chains
      <4>1. n \in Nat /\ n >= 1
        BY <4>0
      <4>2. x.chain \in Seq(Targets) /\ Len(x.chain) = n
        BY <4>1, <4>0
      <4>3. n \in Nat /\ Len(x.chain) = n /\ n >= 1 /\ n # 1
        BY <2>4, <4>1, <4>2 DEF TopLevel
      <4>4. n - 1 \in 1..n
        BY <4>3
      <4>5. DOMAIN x.chain = 1..n
        BY <4>0
      <4> QED BY <4>3, <4>4, <4>5 DEF Holder
    <3>4. x.chain[Len(x.chain) - 1] # Target(y)
      BY <2>4, <3>2, <3>3, ParentFacts
    <3> QED BY <2>4, <3>3, <3>4
  <2>5. pc[a] = "blocked" /\ pc[b] = "blocked"
    BY <2>1, <2>2, <2>3, <2>4
  \* Two that block have recorded it.
  <2>6. ASSUME NEW x \in Jobs, ~TopLevel(x), pc[x] = "blocked"
        PROVE  [holder |-> Holder(x), wanted |-> Target(x), by |-> x] \in LiveRows
    <3>1. PICK row \in waits : row.by = x
      BY <2>6 DEF IInv, RowsAreWaits
    <3>2. PICK k \in Jobs : row = [holder |-> Holder(k), wanted |-> Target(k), by |-> k]
      BY DEF IInv, TypeOK, Rows
    <3> QED BY <2>6, <3>1, <3>2 DEF LiveRows
  <2> DEFINE ra == [holder |-> Holder(a), wanted |-> Target(a), by |-> a]
             rb == [holder |-> Holder(b), wanted |-> Target(b), by |-> b]
  <2>7. ra \in LiveRows /\ rb \in LiveRows
    BY <2>1, <2>2, <2>5, <2>6
  <2>8. Reaches(LiveRows, Target(a), rb.holder)
    BY <2>3, ReachSelf
  <2>9. Reaches(LiveRows, Target(a), rb.wanted)
    BY <2>7, <2>8, ReachFurther
  <2> QED BY <2>3, <2>7, <2>9 DEF NoRecordedCycle
<1> QED BY <1>1, Invariance, RecordedInvariance, PTL

\* Who waits in a circle waits because the do-files describe one: without a
\* dependency cycle there is no deadlock, in any graph and with any runs.
THEOREM DeadlockNeedsCycle == Spec => []((\A t \in Targets : ~OnCycle(t)) => NoCircularWait)
<1>1. IInv => ((\A t \in Targets : ~OnCycle(t)) => NoCircularWait)
  <2> SUFFICES ASSUME IInv, NEW e \in WaitsFor, Reaches(WaitsFor, e.wanted, e.holder)
               PROVE  \E t \in Targets : OnCycle(t)
    BY DEF NoCircularWait
  <2>1. WaitsFor \subseteq Edges
    <3> SUFFICES ASSUME NEW f \in WaitsFor PROVE f \in Edges
      OBVIOUS
    <3>1. PICK j \in Jobs : /\ ~TopLevel(j) /\ pc[j] \in {"blocked"} \cup Building
                            /\ f = [holder |-> Holder(j), wanted |-> Target(j)]
      BY DEF WaitsFor
    <3>2. Target(j) \in deps[Holder(j)]
      BY <3>1 DEF IInv, Asked
    <3> QED BY <3>1, <3>2, JobFacts, CallIsEdge
  <2>2. PICK j \in Jobs : ~TopLevel(j) /\ pc[j] # "idle" /\ pc[j] # "dead"
                          /\ e = [holder |-> Holder(j), wanted |-> Target(j)]
    BY DEF WaitsFor
  <2>3. Holder(j) \in Targets /\ Target(j) \in deps[Holder(j)]
    BY <2>2, JobFacts DEF IInv, Asked
  <2>4. Reaches(Edges, Target(j), Holder(j))
    BY <2>1, <2>2, ReachMore
  <2> QED BY <2>3, <2>4 DEF OnCycle
<1> QED BY <1>1, Invariance, PTL
=============================================================================
