---------------------------- MODULE LogSweepProofs ----------------------------
(***************************************************************************)
(* Proofs about LogSweep, for any number of runs, targets and attempts.    *)
(***************************************************************************)
EXTENDS LogSweep, TLAPS

Labels == {"off"} \cup Live \cup Over

Types ==
  /\ pc \in [Runs -> Labels]
  /\ tries \in [Runs -> 0..Tries] /\ sentinel \in [Runs -> 0..Tries]
  /\ lock \in [Runs -> [1..Tries -> 0..N]]
  /\ log \subseteq Runs /\ said \subseteq Runs /\ reads \subseteq Runs
  /\ owner \in [Targets -> 0..N]
  /\ capture \subseteq Targets
  /\ temps \subseteq Targets \X Runs /\ logs \subseteq Targets \X Runs
  /\ todo \in [Runs -> Todos] /\ handle \in [Runs -> 0..Tries]
  /\ prior \in [Runs -> SUBSET Runs]

\* Who holds a target's build lock is building that target or sweeping one
\* file of it, and holds no other.
Ownership ==
  /\ \A r \in Runs : pc[r] \in Building => owner[Goal[r]] = r
  /\ \A r \in Runs : pc[r] \in Building \cup {"build"} => Goal[r] # None
  /\ \A t \in Targets, r \in Runs : owner[t] = r =>
       pc[r] \in {"uncapture", "untemp"} \/ (pc[r] \in Building /\ Goal[r] = t)
  /\ \A t, u \in Targets : owner[t] = owner[u] /\ owner[t] # 0 => t = u

USE DEF Acquiring, Sweeping, Building, Working, Live, Over, Labels

LEMMA RunsAreNumbers ==
  /\ Runs \subseteq Nat /\ 0 \notin Runs /\ \A r \in Runs : r \in 0..N
  /\ 0 \in 0..N /\ 0 \in 0..Tries
  BY SweepAssumption DEF Runs

LEMMA GoalTypes == \A r \in Runs : Goal[r] # None => Goal[r] \in Targets
  BY SweepAssumption

\* What a name dropped from a run's list leaves.
LEMMA DropTypes ==
  ASSUME Types, NEW r \in Runs, NEW field \in {"captures", "runs", "temps", "logs"}, NEW name,
         Drop(r, field, name)
  PROVE  todo' \in [Runs -> Todos]
<1>1. todo[r] \in Todos
  BY DEF Types
<1>2. [todo[r] EXCEPT ![field] = @ \ {name}] \in Todos
  BY <1>1 DEF Todos
<1>3. todo' = [todo EXCEPT ![r] = [todo[r] EXCEPT ![field] = @ \ {name}]]
  BY DEF Drop, Types
<1> QED BY <1>2, <1>3 DEF Types

LEMMA LockTypes ==
  ASSUME Types, NEW s \in Runs, NEW n, NEW r \in 0..N, SetLock(s, n, r)
  PROVE  lock' \in [Runs -> [1..Tries -> 0..N]]
<1>1. [lock[s] EXCEPT ![n] = r] \in [1..Tries -> 0..N]
  BY DEF Types
<1>2. lock' = [lock EXCEPT ![s] = [lock[s] EXCEPT ![n] = r]]
  BY DEF SetLock
<1> QED BY <1>1, <1>2 DEF Types

LEMMA OwnTypes ==
  ASSUME Types, NEW t, NEW r \in 0..N, Own(t, r) \/ UNCHANGED owner
  PROVE  owner' \in [Targets -> 0..N]
  BY DEF Types, Own

LEMMA TypesStep == Types /\ Ownership /\ [Next]_vars => Types'
<1> SUFFICES ASSUME Types, Ownership, [Next]_vars PROVE Types'
  OBVIOUS
<1> USE RunsAreNumbers, GoalTypes DEF Goto, run, files
<1>0. Types
  OBVIOUS
<1>1. ASSUME NEW r \in Runs, Begin(r) PROVE Types'
  <2>0. todo[r] \in Todos /\ capture \in SUBSET Targets
    BY <1>0 DEF Types
  <2>1. [todo[r] EXCEPT !.captures = capture] \in Todos
    BY <2>0 DEF Todos
  <2>2. todo' = [todo EXCEPT ![r] = [todo[r] EXCEPT !.captures = capture]]
    BY <1>1 DEF Begin
  <2>3. todo' \in [Runs -> Todos]
    BY <1>0, <2>1, <2>2 DEF Types
  <2> QED BY <1>0, <1>1, <2>3 DEF Begin, Types
<1>2. ASSUME NEW r \in Runs, TakeForCapture(r) PROVE Types'
  <2>1. PICK t \in todo[r].captures :
          \/ owner[t] = 0 /\ Own(t, r) /\ Goto(r, "uncapture") /\ UNCHANGED todo
          \/ owner[t] # 0 /\ Drop(r, "captures", t) /\ UNCHANGED <<pc, owner>>
    BY <1>2 DEF TakeForCapture
  <2>2. todo' \in [Runs -> Todos]
    BY <1>0, <2>1, DropTypes DEF Types
  <2>3. owner' \in [Targets -> 0..N]
    BY <1>0, <2>1, OwnTypes
  <2>4. pc' \in [Runs -> Labels]
    BY <1>0, <2>1 DEF Types
  <2> QED BY <1>0, <1>2, <2>2, <2>3, <2>4 DEF TakeForCapture, Types
<1>3. ASSUME NEW r \in Runs, RemoveCapture(r) PROVE Types'
  <2>1. PICK t \in todo[r].captures : capture' = capture \ {t} /\ Own(t, 0) /\ Drop(r, "captures", t)
    BY <1>3 DEF RemoveCapture
  <2>2. todo' \in [Runs -> Todos]
    BY <1>0, <2>1, DropTypes
  <2>3. owner' \in [Targets -> 0..N]
    BY <1>0, <2>1, OwnTypes
  <2> QED BY <1>0, <1>3, <2>1, <2>2, <2>3 DEF RemoveCapture, Types
<1>4. ASSUME NEW r \in Runs, CreateSentinel(r) PROVE Types'
  <2>1. tries[r] + 1 \in 0..Tries
    BY <1>0, <1>4, SweepAssumption DEF CreateSentinel, Types
  <2> QED BY <1>0, <1>4, <2>1 DEF CreateSentinel, Types
<1>5. ASSUME NEW r \in Runs, LockSentinel(r) \/ Verify(r) \/ DropRunLock(r) PROVE Types'
  <2>1. lock' \in [Runs -> [1..Tries -> 0..N]]
    <3>1. \/ SetLock(r, tries[r], r) \/ SetLock(r, tries[r], 0) \/ lock' = lock
      BY <1>5 DEF LockSentinel, Verify, DropRunLock
    <3> QED BY <1>0, <3>1, LockTypes DEF Types
  <2> QED BY <1>0, <1>5, <2>1 DEF LockSentinel, Verify, DropRunLock, Types
<1>6. ASSUME NEW r \in Runs, GiveUp(r) \/ CreateRunLog(r) PROVE Types'
  BY <1>0, <1>6 DEF GiveUp, CreateRunLog, Types
<1>7. ASSUME NEW r \in Runs, List(r) PROVE Types'
  <2>1. todo[r] \in Todos
    BY <1>0 DEF Types
  <2>2. [todo[r] EXCEPT !.runs = {s \in Runs \ {r} : sentinel[s] # 0 \/ s \in log},
                        !.temps = temps, !.logs = logs] \in Todos
    BY <1>0, <2>1 DEF Types, Todos
  <2>3. todo' \in [Runs -> Todos]
    BY <1>0, <1>7, <2>2 DEF List, Types
  <2>4. prior' \in [Runs -> SUBSET Runs]
    BY <1>0, <1>7 DEF List, Types
  <2> QED BY <1>0, <1>7, <2>3, <2>4 DEF List, Types
<1>8. ASSUME NEW r \in Runs, OpenOther(r) PROVE Types'
  BY <1>0, <1>8 DEF OpenOther, Types
<1>9. ASSUME NEW r \in Runs, TryOther(r) PROVE Types'
  <2>1. PICK s \in Runs :
          \/ SetLock(s, handle[r], r) /\ Goto(r, "judged") /\ UNCHANGED todo
          \/ Drop(r, "runs", s) /\ Goto(r, "sweep") /\ UNCHANGED lock
    BY <1>9 DEF TryOther
  <2>2. lock' \in [Runs -> [1..Tries -> 0..N]]
    BY <1>0, <2>1, LockTypes DEF Types
  <2>3. todo' \in [Runs -> Todos]
    BY <1>0, <2>1, DropTypes DEF Types
  <2> QED BY <1>0, <1>9, <2>1, <2>2, <2>3 DEF TryOther, Types
<1>10. ASSUME NEW r \in Runs, RemoveOtherLog(r) \/ RemoveOtherSentinel(r) PROVE Types'
  <2>1. PICK s \in Runs :
          /\ sentinel' = sentinel \/ sentinel' = [sentinel EXCEPT ![s] = 0]
          /\ log' = log \/ log' = log \ {s}
    BY <1>10 DEF RemoveOtherLog, RemoveOtherSentinel
  <2>3. sentinel' \in [Runs -> 0..Tries]
    BY <1>0, <2>1 DEF Types
  <2>4. log' \subseteq Runs
    BY <1>0, <2>1 DEF Types
  <2>2. pc' \in [Runs -> Labels]
    <3>1. pc' = [pc EXCEPT ![r] = "unlink"] \/ pc' = [pc EXCEPT ![r] = "unlock"]
      BY <1>10 DEF RemoveOtherLog, RemoveOtherSentinel
    <3> QED BY <1>0, <3>1 DEF Types
  <2> QED BY <1>0, <1>10, <2>2, <2>3, <2>4 DEF RemoveOtherLog, RemoveOtherSentinel, Types
<1>11. ASSUME NEW r \in Runs, UnlockOther(r) PROVE Types'
  <2>1. PICK s \in Runs : SetLock(s, handle[r], 0) /\ Drop(r, "runs", s)
    BY <1>11 DEF UnlockOther
  <2>2. lock' \in [Runs -> [1..Tries -> 0..N]]
    BY <1>0, <2>1, LockTypes, SweepAssumption
  <2>3. todo' \in [Runs -> Todos]
    BY <1>0, <2>1, DropTypes
  <2> QED BY <1>0, <1>11, <2>2, <2>3 DEF UnlockOther, Types
<1>12. ASSUME NEW r \in Runs, RemoveStaleLog(r) PROVE Types'
  <2>1. todo' \in [Runs -> Todos]
    BY <1>0, <1>12, DropTypes DEF RemoveStaleLog
  <2> QED BY <1>0, <1>12, <2>1 DEF RemoveStaleLog, Types
<1>13. ASSUME NEW r \in Runs, SweepTargetLog(r) PROVE Types'
  <2>1. todo' \in [Runs -> Todos]
    BY <1>0, <1>13, DropTypes DEF SweepTargetLog
  <2> QED BY <1>0, <1>13, <2>1 DEF SweepTargetLog, Types
<1>14. ASSUME NEW r \in Runs, TakeForTemp(r) PROVE Types'
  <2>1. PICK n \in todo[r].temps :
          \/ owner[n[1]] = 0 /\ Own(n[1], r) /\ Goto(r, "untemp") /\ UNCHANGED todo
          \/ owner[n[1]] # 0 /\ Drop(r, "temps", n) /\ UNCHANGED <<pc, owner>>
    BY <1>14 DEF TakeForTemp
  <2>2. todo' \in [Runs -> Todos]
    BY <1>0, <2>1, DropTypes DEF Types
  <2>3. owner' \in [Targets -> 0..N]
    BY <1>0, <2>1, OwnTypes
  <2>4. pc' \in [Runs -> Labels]
    BY <1>0, <2>1 DEF Types
  <2> QED BY <1>0, <1>14, <2>2, <2>3, <2>4 DEF TakeForTemp, Types
<1>15. ASSUME NEW r \in Runs, RemoveTemp(r) PROVE Types'
  <2>1. PICK n \in todo[r].temps : temps' = temps \ {n} /\ Own(n[1], 0) /\ Drop(r, "temps", n)
    BY <1>15 DEF RemoveTemp
  <2>2. todo' \in [Runs -> Todos]
    BY <1>0, <2>1, DropTypes
  <2>3. owner' \in [Targets -> 0..N]
    BY <1>0, <2>1, OwnTypes
  <2> QED BY <1>0, <1>15, <2>1, <2>2, <2>3 DEF RemoveTemp, Types
<1>16. ASSUME NEW r \in Runs, FollowStart(r) \/ LockTarget(r) \/ EndBuild(r) \/ AppendDone(r) PROVE Types'
  <2>1. pc' \in [Runs -> Labels]
    BY <1>0, <1>16 DEF FollowStart, LockTarget, EndBuild, AppendDone, Types
  <2>2. owner' \in [Targets -> 0..N]
    <3>1. owner' = owner \/ Own(Goal[r], r) \/ Own(Goal[r], 0)
      BY <1>16 DEF FollowStart, LockTarget, EndBuild, AppendDone
    <3> QED BY <1>0, <3>1, OwnTypes DEF Types
  <2>3. reads' \subseteq Runs /\ said' \subseteq Runs /\ capture' \subseteq Targets
    BY <1>0, <1>16 DEF FollowStart, LockTarget, EndBuild, AppendDone, Types
  <2> QED BY <1>0, <1>16, <2>1, <2>2, <2>3 DEF FollowStart, LockTarget, EndBuild, AppendDone, Types
<1>17. ASSUME NEW r \in Runs, CreateCapture(r) \/ CreateTemp(r) \/ RenameTemp(r) PROVE Types'
  <2>1. Goal[r] \in Targets
    BY <1>0, <1>17 DEF CreateCapture, CreateTemp, RenameTemp, Ownership
  <2>2. pc' \in [Runs -> Labels]
    BY <1>0, <1>17 DEF CreateCapture, CreateTemp, RenameTemp, Types
  <2>3. /\ capture' = capture \/ capture' = capture \cup {Goal[r]}
        /\ temps' = temps \cup {<<Goal[r], r>>} \/ temps' = temps \ {<<Goal[r], r>>} \/ temps' = temps
        /\ logs' = logs \cup {<<Goal[r], r>>} \/ logs' = logs
    BY <1>17 DEF CreateCapture, CreateTemp, RenameTemp
  <2>4. capture' \subseteq Targets /\ temps' \subseteq Targets \X Runs /\ logs' \subseteq Targets \X Runs
    BY <1>0, <2>1, <2>3 DEF Types
  <2> QED BY <1>0, <1>17, <2>2, <2>4 DEF CreateCapture, CreateTemp, RenameTemp, Types
<1>18. ASSUME NEW r \in Runs, Join(r) \/ RemoveOwnLog(r) PROVE Types'
  BY <1>0, <1>18 DEF Join, RemoveOwnLog, Types
<1>19. ASSUME NEW r \in Runs, RemoveOwnSentinel(r) PROVE Types'
  BY <1>0, <1>19, SweepAssumption DEF RemoveOwnSentinel, Types
<1>20. ASSUME NEW r \in Runs, Crash(r) PROVE Types'
  <2>1. lock' \in [Runs -> [1..Tries -> 0..N]]
    <3>1. ASSUME NEW s \in Runs
          PROVE  [n \in 1..Tries |-> IF lock[s][n] = r THEN 0 ELSE lock[s][n]] \in [1..Tries -> 0..N]
      <4>1. lock[s] \in [1..Tries -> 0..N]
        BY <1>0 DEF Types
      <4>2. \A n \in 1..Tries : lock[s][n] \in 0..N
        BY <4>1
      <4> QED BY <4>2, RunsAreNumbers
    <3> QED BY <1>20, <3>1, Zenon DEF Crash
  <2>2. owner' \in [Targets -> 0..N]
    BY <1>0, <1>20 DEF Crash, Types
  <2> QED BY <1>0, <1>20, <2>1, <2>2 DEF Crash, Types
<1>21. CASE UNCHANGED vars
  BY <1>0, <1>21 DEF vars, Types
<1> QED
  BY <1>1, <1>2, <1>3, <1>4, <1>5, <1>6, <1>7, <1>8, <1>9, <1>10, <1>11, <1>12, <1>13, <1>14, <1>15,
     <1>16, <1>17, <1>18, <1>19, <1>20, <1>21
  DEF Next, Step, Temps, Acquire, SweepRuns, SweepTargets, Build, Finish

-----------------------------------------------------------------------------
\* OWNERS OF THE BUILD LOCKS

\* A step that touches no build lock.
LEMMA OwnersStay ==
  ASSUME Types, Ownership, NEW r \in Runs, NEW l, owner' = owner, pc' = [pc EXCEPT ![r] = l],
         pc[r] \notin {"uncapture", "untemp"}, pc[r] \in Building <=> l \in Building,
         l = "build" => Goal[r] # None
  PROVE  Ownership'
<1>1. \A q \in Runs : pc'[q] = IF q = r THEN l ELSE pc[q]
  BY DEF Types
<1> QED BY <1>1 DEF Ownership

LEMMA OwnersTake ==
  ASSUME Types, Ownership, NEW r \in Runs, NEW l, NEW t \in Targets,
         owner[t] = 0, owner' = [owner EXCEPT ![t] = r], pc' = [pc EXCEPT ![r] = l],
         pc[r] \notin {"uncapture", "untemp"} \cup Building,
         l \in {"uncapture", "untemp"} \/ (l = "capture" /\ Goal[r] = t /\ t # None)
  PROVE  Ownership'
<1>1. \A q \in Runs : pc'[q] = IF q = r THEN l ELSE pc[q]
  BY DEF Types
<1>2. \A u \in Targets : owner'[u] = IF u = t THEN r ELSE owner[u]
  BY DEF Types
<1>3. \A u \in Targets : owner[u] # r
  BY DEF Ownership
<1>4. r # 0
  BY RunsAreNumbers
<1>5. ASSUME NEW q \in Runs, pc'[q] \in Building PROVE owner'[Goal[q]] = q
  <2>1. CASE q = r
    BY <1>1, <1>2, <1>5, <2>1
  <2>2. CASE q # r
    <3>1. owner[Goal[q]] = q /\ Goal[q] \in Targets
      BY <1>1, <1>5, <2>2, GoalTypes DEF Ownership
    <3>2. q # 0
      BY RunsAreNumbers
    <3> QED BY <1>2, <3>1, <3>2
  <2> QED BY <2>1, <2>2
<1>6. \A q \in Runs : pc'[q] \in Building \cup {"build"} => Goal[q] # None
  BY <1>1 DEF Ownership
<1>7. ASSUME NEW u \in Targets, NEW q \in Runs, owner'[u] = q
      PROVE  pc'[q] \in {"uncapture", "untemp"} \/ (pc'[q] \in Building /\ Goal[q] = u)
  BY <1>1, <1>2, <1>3, <1>7 DEF Ownership
<1>8. ASSUME NEW u \in Targets, NEW v \in Targets, owner'[u] = owner'[v], owner'[u] # 0 PROVE u = v
  BY <1>2, <1>3, <1>8 DEF Ownership
<1> QED BY <1>5, <1>6, <1>7, <1>8 DEF Ownership

LEMMA OwnersGive ==
  ASSUME Types, Ownership, NEW r \in Runs, NEW l, NEW t \in Targets,
         owner[t] = r, owner' = [owner EXCEPT ![t] = 0], pc' = [pc EXCEPT ![r] = l],
         l \notin {"build"} \cup Building
  PROVE  Ownership'
<1>1. \A q \in Runs : pc'[q] = IF q = r THEN l ELSE pc[q]
  BY DEF Types
<1>2. \A u \in Targets : owner'[u] = IF u = t THEN 0 ELSE owner[u]
  BY DEF Types
<1>3. \A u \in Targets : owner[u] = r => u = t
  BY RunsAreNumbers DEF Ownership
<1>4. ASSUME NEW q \in Runs, pc'[q] \in Building PROVE owner'[Goal[q]] = q
  <2>1. q # r /\ owner[Goal[q]] = q /\ Goal[q] \in Targets
    BY <1>1, <1>4, GoalTypes DEF Ownership
  <2> QED BY <1>2, <2>1
<1>5. \A q \in Runs : pc'[q] \in Building \cup {"build"} => Goal[q] # None
  BY <1>1 DEF Ownership
<1>6. ASSUME NEW u \in Targets, NEW q \in Runs, owner'[u] = q
      PROVE  pc'[q] \in {"uncapture", "untemp"} \/ (pc'[q] \in Building /\ Goal[q] = u)
  <2>1. q # 0
    BY RunsAreNumbers
  <2>2. owner[u] = q /\ q # r
    BY <1>2, <1>3, <1>6, <2>1
  <2> QED BY <1>1, <2>2 DEF Ownership
<1>7. ASSUME NEW u \in Targets, NEW v \in Targets, owner'[u] = owner'[v], owner'[u] # 0 PROVE u = v
  BY <1>2, <1>7 DEF Ownership
<1> QED BY <1>4, <1>5, <1>6, <1>7 DEF Ownership

\* A run dies and the kernel takes its locks.
LEMMA OwnersDie ==
  ASSUME Types, Ownership, NEW r \in Runs, Crash(r)
  PROVE  Ownership'
<1>1. \A q \in Runs : pc'[q] = IF q = r THEN "dead" ELSE pc[q]
  BY DEF Types, Crash, Goto
<1>2. \A u \in Targets : owner'[u] = IF owner[u] = r THEN 0 ELSE owner[u]
  BY DEF Crash
<1>3. ASSUME NEW q \in Runs, pc'[q] \in Building PROVE owner'[Goal[q]] = q
  <2>1. q # r /\ owner[Goal[q]] = q /\ Goal[q] \in Targets
    BY <1>1, <1>3, GoalTypes DEF Ownership
  <2> QED BY <1>2, <2>1
<1>4. \A q \in Runs : pc'[q] \in Building \cup {"build"} => Goal[q] # None
  BY <1>1 DEF Ownership
<1>5. ASSUME NEW u \in Targets, NEW q \in Runs, owner'[u] = q
      PROVE  pc'[q] \in {"uncapture", "untemp"} \/ (pc'[q] \in Building /\ Goal[q] = u)
  <2>1. q # 0
    BY RunsAreNumbers
  <2>2. owner[u] = q /\ q # r
    BY <1>2, <1>5, <2>1
  <2> QED BY <1>1, <2>2 DEF Ownership
<1>6. ASSUME NEW u \in Targets, NEW v \in Targets, owner'[u] = owner'[v], owner'[u] # 0 PROVE u = v
  BY <1>2, <1>6 DEF Ownership
<1> QED BY <1>3, <1>4, <1>5, <1>6 DEF Ownership

LEMMA OwnershipStep == Types /\ Ownership /\ [Next]_vars => Ownership'
<1> SUFFICES ASSUME Types, Ownership, [Next]_vars PROVE Ownership'
  OBVIOUS
<1> USE DEF Goto, run, files
<1>1. ASSUME NEW r \in Runs, TakeForCapture(r) PROVE Ownership'
  <2>1. PICK t \in todo[r].captures :
          \/ owner[t] = 0 /\ Own(t, r) /\ Goto(r, "uncapture")
          \/ UNCHANGED <<pc, owner>>
    BY <1>1 DEF TakeForCapture
  <2>2. t \in Targets
    BY DEF Types, Todos
  <2>3. CASE owner[t] = 0 /\ Own(t, r) /\ Goto(r, "uncapture")
    BY <1>1, <2>2, <2>3, OwnersTake DEF TakeForCapture, Own
  <2> QED BY <2>1, <2>3 DEF Ownership
<1>2. ASSUME NEW r \in Runs, TakeForTemp(r) PROVE Ownership'
  <2>1. PICK n \in todo[r].temps :
          \/ owner[n[1]] = 0 /\ Own(n[1], r) /\ Goto(r, "untemp")
          \/ UNCHANGED <<pc, owner>>
    BY <1>2 DEF TakeForTemp
  <2>2. n[1] \in Targets
    BY DEF Types, Todos
  <2>3. CASE owner[n[1]] = 0 /\ Own(n[1], r) /\ Goto(r, "untemp")
    BY <1>2, <2>2, <2>3, OwnersTake DEF TakeForTemp, Own
  <2> QED BY <2>1, <2>3 DEF Ownership
<1>3. ASSUME NEW r \in Runs, LockTarget(r) PROVE Ownership'
  <2>1. Goal[r] # None /\ Goal[r] \in Targets
    BY <1>3, GoalTypes DEF LockTarget, Ownership
  <2> QED BY <1>3, <2>1, OwnersTake DEF LockTarget, Own
<1>4. ASSUME NEW r \in Runs, RemoveCapture(r) PROVE Ownership'
  <2>1. PICK t \in todo[r].captures : owner[t] = r /\ Own(t, 0)
    BY <1>4 DEF RemoveCapture
  <2>2. t \in Targets
    BY DEF Types, Todos
  <2> QED BY <1>4, <2>1, <2>2, OwnersGive DEF RemoveCapture, Own
<1>5. ASSUME NEW r \in Runs, RemoveTemp(r) PROVE Ownership'
  <2>1. PICK n \in todo[r].temps : owner[n[1]] = r /\ Own(n[1], 0)
    BY <1>5 DEF RemoveTemp
  <2>2. n[1] \in Targets
    BY DEF Types, Todos
  <2> QED BY <1>5, <2>1, <2>2, OwnersGive DEF RemoveTemp, Own
<1>6. ASSUME NEW r \in Runs, EndBuild(r) PROVE Ownership'
  <2>1. owner[Goal[r]] = r /\ Goal[r] \in Targets
    BY <1>6, GoalTypes DEF EndBuild, Ownership
  <2> QED BY <1>6, <2>1, OwnersGive DEF EndBuild, Own
<1>7. ASSUME NEW r \in Runs, Begin(r) \/ Acquire(r) PROVE Ownership'
  <2>1. /\ owner' = owner /\ pc[r] \in {"off", "begin", "made", "locked", "log"}
        /\ \E l \in {"begin", "made", "locked", "log", "failed", "list"} : pc' = [pc EXCEPT ![r] = l]
    BY <1>7 DEF Begin, Acquire, CreateSentinel, LockSentinel, Verify, GiveUp, CreateRunLog
  <2> QED BY <2>1, OwnersStay
<1>8. ASSUME NEW r \in Runs, SweepRuns(r) PROVE Ownership'
  <2>1. /\ owner' = owner /\ pc[r] \in {"list", "sweep", "open", "judged", "unlink", "unlock", "norun"}
        /\ \E l \in {"sweep", "open", "norun", "judged", "unlink", "unlock"} : pc' = [pc EXCEPT ![r] = l]
    BY <1>8 DEF SweepRuns, List, OpenOther, TryOther, RemoveOtherLog, RemoveOtherSentinel, UnlockOther,
       RemoveStaleLog
  <2> QED BY <2>1, OwnersStay
<1>9. ASSUME NEW r \in Runs, SweepTargetLog(r) PROVE Ownership'
  BY <1>9 DEF SweepTargetLog, Ownership
<1>10. ASSUME NEW r \in Runs, FollowStart(r) \/ Finish(r) PROVE Ownership'
  <2>1. /\ owner' = owner /\ pc[r] \in {"sweep", "finish", "join", "rmlog", "rmlock", "drop"}
        /\ \E l \in {"build", "finish", "join", "rmlog", "rmlock", "drop", "ended"} :
             pc' = [pc EXCEPT ![r] = l] /\ (l = "build" => Goal[r] # None)
    BY <1>10 DEF FollowStart, Finish, AppendDone, Join, RemoveOwnLog, RemoveOwnSentinel, DropRunLock
  <2> QED BY <2>1, OwnersStay
<1>11. ASSUME NEW r \in Runs, CreateCapture(r) \/ CreateTemp(r) \/ RenameTemp(r) PROVE Ownership'
  <2>1. /\ owner' = owner /\ pc[r] \in {"capture", "temp", "rename"}
        /\ \E l \in {"temp", "rename", "run", "close"} : pc' = [pc EXCEPT ![r] = l]
    BY <1>11 DEF CreateCapture, CreateTemp, RenameTemp
  <2> QED BY <2>1, OwnersStay
<1>12. CASE UNCHANGED vars
  BY <1>12 DEF vars, Ownership
<1> QED
  BY <1>1, <1>2, <1>3, <1>4, <1>5, <1>6, <1>7, <1>8, <1>9, <1>10, <1>11, <1>12, OwnersDie
  DEF Next, Step, Temps, SweepTargets, Build

-----------------------------------------------------------------------------
\* SENTINELS AND THEIR LOCKS

\* A run that has locked, and one that has verified, its last sentinel.
Verified == {"log"} \cup Working \cup {"rmlog", "rmlock"}
Holding == {"locked"} \cup Verified \cup {"drop"}
\* A sweep that has locked another run's sentinel.
Deleting == {"judged", "unlink", "unlock"}

\* Only a run that has made a sentinel has files, or is in a sweep's list.
Counts ==
  /\ \A r \in Runs : pc[r] \in {"made"} \cup Holding => tries[r] >= 1
  /\ \A r \in Runs : sentinel[r] <= tries[r] /\ (r \in log => tries[r] >= 1)
  /\ \A q \in Runs : q \notin todo[q].runs /\ \A s \in todo[q].runs : tries[s] >= 1

\* Who holds a sentinel's kernel lock.
Holders ==
  /\ \A r \in Runs : pc[r] \in Holding => lock[r][tries[r]] = r
  /\ \A q, s \in Runs : Prey(q, s) =>
       /\ pc[q] \in {"open"} \cup Deleting => handle[q] \in 1..tries[s]
       /\ pc[q] \in Deleting => lock[s][handle[q]] = q

\* A first sentinel that has been verified is at its path; a sweep that found
\* none has to do with a run that will not use its first.
Firsts ==
  /\ \A s \in Runs : pc[s] \in Verified /\ tries[s] = 1 => sentinel[s] = 1
  /\ \A q, s \in Runs : pc[q] = "norun" /\ Prey(q, s) /\ tries[s] = 1 => sentinel[s] = 0

\* Such a run has its run log, and its target's log once it is made.
FirstLogs ==
  \A r \in Runs : tries[r] = 1 =>
    /\ pc[r] \in Working \cup {"rmlog"} => r \in log
    /\ pc[r] \in {"run", "close", "finish", "join"} /\ Goal[r] # None => <<Goal[r], r>> \in logs

LEMMA PreyUnique ==
  ASSUME Types, NEW q \in Runs, NEW s \in Runs, NEW u \in Runs, Prey(q, s), Prey(q, u)
  PROVE  s = u
<1>1. s <= u /\ u <= s
  BY DEF Prey
<1>2. s \in Nat /\ u \in Nat
  BY RunsAreNumbers
<1> QED BY <1>1, <1>2

LEMMA DropRuns ==
  ASSUME Types, NEW r \in Runs, NEW name
  PROVE  /\ \A field \in {"captures", "temps", "logs"} :
              Drop(r, field, name) => \A q \in Runs : todo'[q].runs = todo[q].runs
         /\ Drop(r, "runs", name) =>
              \A q \in Runs : todo'[q].runs = IF q = r THEN todo[q].runs \ {name} ELSE todo[q].runs
<1>1. todo[r] \in Todos /\ todo \in [Runs -> Todos]
  BY DEF Types
<1>2. ASSUME NEW field \in {"captures", "temps", "logs"}, Drop(r, field, name)
      PROVE  \A q \in Runs : todo'[q].runs = todo[q].runs
  <2>1. todo' = [todo EXCEPT ![r] = [todo[r] EXCEPT ![field] = @ \ {name}]]
    BY <1>1, <1>2 DEF Drop
  <2>2. [todo[r] EXCEPT ![field] = @ \ {name}].runs = todo[r].runs
    BY <1>1, <1>2 DEF Todos
  <2> QED BY <1>1, <2>1, <2>2
<1>3. ASSUME Drop(r, "runs", name)
      PROVE  \A q \in Runs : todo'[q].runs = IF q = r THEN todo[q].runs \ {name} ELSE todo[q].runs
  <2>1. todo' = [todo EXCEPT ![r] = [todo[r] EXCEPT !["runs"] = @ \ {name}]]
    BY <1>1, <1>3 DEF Drop
  <2>2. [todo[r] EXCEPT !["runs"] = @ \ {name}].runs = todo[r].runs \ {name}
    BY <1>1 DEF Todos
  <2> QED BY <1>1, <2>1, <2>2
<1> QED BY <1>2, <1>3

\* What a step leaves in the lists of runs to look at.
LEMMA ListEffects ==
  ASSUME Types, NEW r \in Runs
  PROVE  /\ Begin(r) \/ Temps(r) \/ SweepTargets(r) =>
              \A q \in Runs : todo'[q].runs = todo[q].runs
         /\ TryOther(r) \/ UnlockOther(r) \/ RemoveStaleLog(r) =>
              \A q \in Runs : /\ todo'[q].runs \subseteq todo[q].runs
                              /\ q # r => todo'[q].runs = todo[q].runs
<1>1. ASSUME Begin(r) PROVE \A q \in Runs : todo'[q].runs = todo[q].runs
  <2>1. todo \in [Runs -> Todos]
    BY DEF Types
  <2>2. [todo[r] EXCEPT !.captures = capture].runs = todo[r].runs
    BY <2>1 DEF Todos
  <2>3. todo' = [todo EXCEPT ![r] = [todo[r] EXCEPT !.captures = capture]]
    BY <1>1 DEF Begin
  <2> QED BY <2>1, <2>2, <2>3
<1>2. ASSUME Temps(r) \/ SweepTargets(r) PROVE \A q \in Runs : todo'[q].runs = todo[q].runs
  <2>1. todo' = todo \/ \E n : Drop(r, "captures", n) \/ Drop(r, "temps", n) \/ Drop(r, "logs", n)
    BY <1>2 DEF Temps, TakeForCapture, RemoveCapture, SweepTargets, SweepTargetLog, TakeForTemp, RemoveTemp
  <2> QED BY <2>1, DropRuns
<1>3. ASSUME TryOther(r) \/ UnlockOther(r) \/ RemoveStaleLog(r)
      PROVE  \A q \in Runs : /\ todo'[q].runs \subseteq todo[q].runs
                             /\ q # r => todo'[q].runs = todo[q].runs
  <2>1. todo' = todo \/ \E n : Drop(r, "runs", n)
    BY <1>3 DEF TryOther, UnlockOther, RemoveStaleLog
  <2> QED BY <2>1, DropRuns
<1> QED BY <1>1, <1>2, <1>3

LEMMA CountsStay ==
  ASSUME Types, Counts, NEW r \in Runs, NEW l, pc' = [pc EXCEPT ![r] = l], tries' = tries,
         l \in {"made"} \cup Holding => pc[r] \in {"made"} \cup Holding,
         \A s \in Runs : sentinel'[s] \in {0, sentinel[s]},
         log' \subseteq log,
         \A q \in Runs : todo'[q].runs \subseteq todo[q].runs
  PROVE  Counts'
<1>1. \A q \in Runs : pc'[q] = IF q = r THEN l ELSE pc[q]
  BY DEF Types
<1>2. \A q \in Runs : tries[q] \in Nat
  BY SweepAssumption DEF Types
<1>3. \A q \in Runs : pc'[q] \in {"made"} \cup Holding => tries[q] >= 1
  BY <1>1 DEF Counts
<1>4. \A q \in Runs : sentinel'[q] <= tries[q] /\ (q \in log' => tries[q] >= 1)
  BY <1>2 DEF Counts
<1> QED BY <1>3, <1>4 DEF Counts

LEMMA CountsStep == Types /\ Counts /\ [Next]_vars => Counts'
<1> SUFFICES ASSUME Types, Counts, [Next]_vars PROVE Counts'
  OBVIOUS
<1> USE DEF Goto, run, files, Verified, Holding
<1>1. ASSUME NEW r \in Runs, Begin(r) \/ Temps(r) PROVE Counts'
  <2>1. /\ UNCHANGED <<tries, sentinel, log>>
        /\ \E l \in {"begin", "uncapture"} : pc' = [pc EXCEPT ![r] = l]
    BY <1>1 DEF Begin, Temps, TakeForCapture, RemoveCapture, Types
  <2> QED BY <1>1, <2>1, ListEffects, CountsStay
<1>2. ASSUME NEW r \in Runs, CreateSentinel(r) PROVE Counts'
  <2>1. /\ \A q \in Runs : tries[q] \in Nat /\ tries'[q] = IF q = r THEN tries[q] + 1 ELSE tries[q]
        /\ \A q \in Runs : sentinel'[q] = IF q = r THEN tries[q] + 1 ELSE sentinel[q]
        /\ \A q \in Runs : pc'[q] = IF q = r THEN "made" ELSE pc[q]
        /\ UNCHANGED <<log, todo>>
    BY <1>2, SweepAssumption DEF CreateSentinel, Types
  <2>2. \A q \in Runs : todo[q].runs \subseteq Runs
    BY DEF Types, Todos
  <2>3. \A q \in Runs : tries'[q] >= tries[q] /\ tries'[q] \in Nat
    BY <2>1
  <2> QED BY <2>1, <2>2, <2>3 DEF Counts
<1>3. ASSUME NEW r \in Runs, LockSentinel(r) \/ Verify(r) \/ GiveUp(r) PROVE Counts'
  <2>1. /\ UNCHANGED <<tries, sentinel, log, todo>> /\ pc[r] \in {"made", "locked", "begin"}
        /\ \E l \in {"locked", "log", "begin", "failed"} :
             pc' = [pc EXCEPT ![r] = l] /\ (pc[r] = "begin" => l = "failed")
    BY <1>3 DEF LockSentinel, Verify, GiveUp
  <2> QED BY <2>1, CountsStay
<1>4. ASSUME NEW r \in Runs, CreateRunLog(r) PROVE Counts'
  <2>1. /\ UNCHANGED <<tries, sentinel, todo>> /\ log' = log \cup {r} /\ pc[r] = "log"
        /\ \A q \in Runs : pc'[q] = IF q = r THEN "list" ELSE pc[q]
    BY <1>4 DEF CreateRunLog, Types
  <2> QED BY <2>1 DEF Counts
<1>5. ASSUME NEW r \in Runs, List(r) PROVE Counts'
  <2>1. /\ UNCHANGED <<tries, sentinel, log>> /\ pc[r] = "list"
        /\ \A q \in Runs : pc'[q] = IF q = r THEN "sweep" ELSE pc[q]
    BY <1>5 DEF List, Types
  <2>2. \/ todo' = todo
        \/ \A q \in Runs : todo'[q].runs =
             IF q = r THEN {s \in Runs \ {r} : sentinel[s] # 0 \/ s \in log} ELSE todo[q].runs
    <3>1. todo \in [Runs -> Todos]
      BY DEF Types
    <3>2. [todo[r] EXCEPT !.runs = {s \in Runs \ {r} : sentinel[s] # 0 \/ s \in log},
                          !.temps = temps, !.logs = logs].runs
           = {s \in Runs \ {r} : sentinel[s] # 0 \/ s \in log}
      BY <3>1 DEF Todos
    <3> QED BY <1>5, <3>1, <3>2 DEF List
  <2>3. \A s \in Runs : sentinel[s] # 0 \/ s \in log => tries[s] >= 1
    BY SweepAssumption DEF Types, Counts
  <2> QED BY <2>1, <2>2, <2>3 DEF Counts
<1>6. ASSUME NEW r \in Runs, OpenOther(r) \/ TryOther(r) \/ RemoveOtherLog(r) \/ RemoveOtherSentinel(r)
                             \/ UnlockOther(r) \/ RemoveStaleLog(r)
      PROVE  Counts'
  <2>1. /\ tries' = tries /\ pc[r] \in Sweeping /\ log' \subseteq log
        /\ \A s \in Runs : sentinel'[s] \in {0, sentinel[s]}
        /\ \E l \in Sweeping : pc' = [pc EXCEPT ![r] = l]
        /\ todo' = todo \/ TryOther(r) \/ UnlockOther(r) \/ RemoveStaleLog(r)
    BY <1>6 DEF OpenOther, TryOther, RemoveOtherLog, RemoveOtherSentinel, UnlockOther, RemoveStaleLog, Types
  <2> QED BY <2>1, ListEffects, CountsStay
<1>7. ASSUME NEW r \in Runs, SweepTargets(r) PROVE Counts'
  <2>1. /\ UNCHANGED <<tries, sentinel, log>> /\ pc[r] \in Sweeping
        /\ \E l \in Sweeping : pc' = [pc EXCEPT ![r] = l]
    BY <1>7 DEF SweepTargets, SweepTargetLog, TakeForTemp, RemoveTemp, Types
  <2> QED BY <1>7, <2>1, ListEffects, CountsStay
<1>8. ASSUME NEW r \in Runs, FollowStart(r) \/ Build(r) \/ Finish(r) PROVE Counts'
  <2>1. /\ UNCHANGED <<tries, todo>> /\ pc[r] \in Holding /\ log' \subseteq log
        /\ \A s \in Runs : sentinel'[s] \in {0, sentinel[s]}
        /\ \E l : pc' = [pc EXCEPT ![r] = l]
    BY <1>8 DEF FollowStart, Build, LockTarget, CreateCapture, CreateTemp, RenameTemp, EndBuild, Finish,
       AppendDone, Join, RemoveOwnLog, RemoveOwnSentinel, DropRunLock, Types
  <2> QED BY <2>1, CountsStay
<1>9. ASSUME NEW r \in Runs, Crash(r) PROVE Counts'
  BY <1>9, CountsStay DEF Crash
<1>10. CASE UNCHANGED vars
  BY <1>10 DEF vars, Counts
<1> QED
  BY <1>1, <1>2, <1>3, <1>4, <1>5, <1>6, <1>7, <1>8, <1>9, <1>10
  DEF Next, Step, Acquire, SweepRuns

\* What a step of run r to l may do to the locks: others keep theirs.
KeepsHolders(r, l) ==
  /\ pc' = [pc EXCEPT ![r] = l]
  /\ \A q \in Runs \ {r} :
       tries'[q] = tries[q] /\ handle'[q] = handle[q] /\ todo'[q].runs = todo[q].runs
  /\ tries'[r] \in Nat /\ tries'[r] >= tries[r]
  /\ \A s \in Runs, n \in 1..Tries : lock[s][n] \notin {0, r} => lock'[s][n] = lock[s][n]
  /\ l \in Holding => lock'[r][tries'[r]] = r
  /\ l \in {"open"} \cup Deleting => \A s \in Runs : Prey(r, s)' =>
       handle'[r] \in 1..tries'[s] /\ (l \in Deleting => lock'[s][handle'[r]] = r)

LEMMA HoldersKept ==
  ASSUME Types, Counts, Holders, NEW r \in Runs, NEW l, KeepsHolders(r, l)
  PROVE  Holders'
<1>1. \A q \in Runs : pc'[q] = IF q = r THEN l ELSE pc[q]
  BY DEF Types, KeepsHolders
<1>2. \A q \in Runs : tries[q] \in 0..Tries /\ Tries \in Nat /\ q # 0
  BY RunsAreNumbers, SweepAssumption DEF Types
<1>3. ASSUME NEW q \in Runs, pc'[q] \in Holding PROVE lock'[q][tries'[q]] = q
  <2>1. CASE q = r
    BY <1>1, <1>3, <2>1 DEF KeepsHolders
  <2>2. CASE q # r
    <3>1. lock[q][tries[q]] = q /\ tries[q] \in 1..Tries
      BY <1>1, <1>2, <1>3, <2>2 DEF Holders, Counts
    <3> QED BY <1>2, <2>2, <3>1 DEF KeepsHolders
  <2> QED BY <2>1, <2>2
<1>4. ASSUME NEW q \in Runs, NEW s \in Runs, Prey(q, s)', pc'[q] \in {"open"} \cup Deleting
      PROVE  /\ handle'[q] \in 1..tries'[s]
             /\ pc'[q] \in Deleting => lock'[s][handle'[q]] = q
  <2>1. CASE q = r
    BY <1>1, <1>4, <2>1 DEF KeepsHolders
  <2>2. CASE q # r
    <3>1. Prey(q, s)
      BY <1>4, <2>2 DEF Prey, KeepsHolders
    <3>2. handle[q] \in 1..tries[s] /\ (pc[q] \in Deleting => lock[s][handle[q]] = q)
      BY <1>1, <1>4, <2>2, <3>1 DEF Holders
    <3>3. tries'[s] >= tries[s] /\ tries'[s] \in Nat
      BY <1>2 DEF KeepsHolders
    <3>4. handle'[q] = handle[q] /\ pc'[q] = pc[q] /\ handle[q] \in 1..Tries
      BY <1>1, <1>2, <2>2, <3>2 DEF KeepsHolders
    <3>5. handle[q] \in 1..tries'[s]
      BY <1>2, <3>2, <3>3
    <3>6. pc[q] \in Deleting => lock'[s][handle[q]] = q
      BY <1>2, <2>2, <3>2, <3>4 DEF KeepsHolders
    <3> QED BY <3>4, <3>5, <3>6
  <2> QED BY <2>1, <2>2
<1> QED BY <1>3, <1>4 DEF Holders

\* A step that leaves the locks, the handles and the sentinels made alone.
LEMMA HoldersStay ==
  ASSUME Types, Counts, Holders, NEW r \in Runs, NEW l, pc' = [pc EXCEPT ![r] = l],
         tries' = tries, lock' = lock, handle' = handle,
         \A q \in Runs \ {r} : todo'[q].runs = todo[q].runs,
         l \in Holding => pc[r] \in Holding,
         l \in {"open"} \cup Deleting => pc[r] \in Deleting /\ todo'[r].runs = todo[r].runs
  PROVE  Holders'
<1>1. tries[r] \in Nat
  BY SweepAssumption DEF Types
<1>2. l \in Holding => lock[r][tries[r]] = r
  BY DEF Holders
<1>3. ASSUME NEW s \in Runs, Prey(r, s)', l \in {"open"} \cup Deleting
      PROVE  handle[r] \in 1..tries[s] /\ lock[s][handle[r]] = r
  BY <1>3 DEF Holders, Prey
<1>4. KeepsHolders(r, l)
  BY <1>1, <1>2, <1>3 DEF KeepsHolders
<1> QED BY <1>4, HoldersKept

\* One kernel lock changes hands.
LEMMA LockEffect ==
  ASSUME Types, NEW s \in Runs, NEW n \in 1..Tries, NEW v, SetLock(s, n, v)
  PROVE  \A q \in Runs, m \in 1..Tries :
           lock'[q][m] = IF q = s /\ m = n THEN v ELSE lock[q][m]
  BY DEF Types, SetLock

LEMMA HoldersStep == Types /\ Counts /\ Holders /\ [Next]_vars => Holders'
<1> SUFFICES ASSUME Types, Counts, Holders, [Next]_vars PROVE Holders'
  OBVIOUS
<1> USE DEF Goto, run, files, Verified, Holding, Deleting
<1>0. \A q \in Runs : tries[q] \in 0..Tries /\ Tries \in Nat /\ q # 0 /\ q \in Nat
  BY RunsAreNumbers, SweepAssumption DEF Types
<1>1. ASSUME NEW r \in Runs, Begin(r) \/ Temps(r) PROVE Holders'
  <2>1. /\ UNCHANGED <<tries, lock, handle>>
        /\ \E l \in {"begin", "uncapture"} : pc' = [pc EXCEPT ![r] = l]
    BY <1>1 DEF Begin, Temps, TakeForCapture, RemoveCapture, Types
  <2> QED BY <1>1, <2>1, ListEffects, HoldersStay
<1>2. ASSUME NEW r \in Runs, CreateSentinel(r) PROVE Holders'
  <2>1. /\ UNCHANGED <<lock, handle, todo>> /\ pc' = [pc EXCEPT ![r] = "made"]
        /\ \A q \in Runs : tries'[q] = IF q = r THEN tries[q] + 1 ELSE tries[q]
    BY <1>2 DEF CreateSentinel, Types
  <2>2. tries'[r] \in Nat /\ tries'[r] >= tries[r]
    BY <1>0, <2>1
  <2>3. KeepsHolders(r, "made")
    BY <2>1, <2>2 DEF KeepsHolders
  <2> QED BY <2>3, HoldersKept
<1>3. ASSUME NEW r \in Runs, LockSentinel(r) PROVE Holders'
  <2>1. tries[r] \in 1..Tries
    BY <1>0, <1>3 DEF LockSentinel, Counts
  <2>2. /\ UNCHANGED <<tries, handle, todo>> /\ pc' = [pc EXCEPT ![r] = "locked"]
        /\ lock[r][tries[r]] = 0 /\ SetLock(r, tries[r], r)
    BY <1>3 DEF LockSentinel
  <2>3. \A q \in Runs, m \in 1..Tries : lock'[q][m] = IF q = r /\ m = tries[r] THEN r ELSE lock[q][m]
    BY <2>1, <2>2, LockEffect
  <2>4. KeepsHolders(r, "locked")
    BY <1>0, <2>1, <2>2, <2>3 DEF KeepsHolders
  <2> QED BY <2>4, HoldersKept
<1>4. ASSUME NEW r \in Runs, Verify(r) \/ DropRunLock(r) PROVE Holders'
  <2>1. tries[r] \in 1..Tries /\ lock[r][tries[r]] = r
    BY <1>0, <1>4 DEF Verify, DropRunLock, Counts, Holders
  <2>2. /\ UNCHANGED <<tries, handle, todo>>
        /\ \/ pc' = [pc EXCEPT ![r] = "log"] /\ lock' = lock
           \/ pc' = [pc EXCEPT ![r] = "begin"] /\ SetLock(r, tries[r], 0)
           \/ pc' = [pc EXCEPT ![r] = "ended"] /\ SetLock(r, tries[r], 0)
    BY <1>4 DEF Verify, DropRunLock
  <2>3. CASE pc' = [pc EXCEPT ![r] = "log"] /\ lock' = lock
    <3>1. KeepsHolders(r, "log")
      BY <1>0, <2>1, <2>2, <2>3 DEF KeepsHolders
    <3> QED BY <3>1, HoldersKept
  <2>4. CASE SetLock(r, tries[r], 0)
    <3>1. \A q \in Runs, m \in 1..Tries : lock'[q][m] = IF q = r /\ m = tries[r] THEN 0 ELSE lock[q][m]
      BY <2>1, <2>4, LockEffect
    <3>2. \A q \in Runs, m \in 1..Tries : lock[q][m] \notin {0, r} => lock'[q][m] = lock[q][m]
      BY <2>1, <3>1
    <3>3. CASE pc' = [pc EXCEPT ![r] = "begin"]
      <4>1. KeepsHolders(r, "begin")
        BY <1>0, <2>2, <3>2, <3>3 DEF KeepsHolders
      <4> QED BY <4>1, HoldersKept
    <3>4. CASE pc' = [pc EXCEPT ![r] = "ended"]
      <4>1. KeepsHolders(r, "ended")
        BY <1>0, <2>2, <3>2, <3>4 DEF KeepsHolders
      <4> QED BY <4>1, HoldersKept
    <3>5. CASE pc' = [pc EXCEPT ![r] = "log"] /\ lock' = lock
      BY <2>3, <3>5
    <3> QED BY <2>2, <3>3, <3>4, <3>5
  <2> QED BY <2>2, <2>3, <2>4
<1>5. ASSUME NEW r \in Runs, GiveUp(r) PROVE Holders'
  BY <1>5, HoldersStay DEF GiveUp
<1>6. ASSUME NEW r \in Runs, CreateRunLog(r) PROVE Holders'
  BY <1>6, HoldersStay DEF CreateRunLog
<1>7. ASSUME NEW r \in Runs, List(r) PROVE Holders'
  <2>1. \A q \in Runs \ {r} : todo'[q].runs = todo[q].runs
    BY <1>7 DEF List, Types
  <2> QED BY <1>7, <2>1, HoldersStay DEF List
<1>8. ASSUME NEW r \in Runs, OpenOther(r) PROVE Holders'
  <2>1. PICK s \in Runs :
          /\ Prey(r, s) /\ handle' = [handle EXCEPT ![r] = sentinel[s]]
          /\ pc' = [pc EXCEPT ![r] = IF sentinel[s] = 0 THEN "norun" ELSE "open"]
    BY <1>8 DEF OpenOther
  <2>2. UNCHANGED <<tries, lock, todo>> /\ pc[r] = "sweep"
    BY <1>8 DEF OpenOther
  <2>3. lock[r][tries[r]] = r
    BY <2>2 DEF Holders
  <2>4. sentinel[s] # 0 => sentinel[s] \in 1..tries[s]
    BY <1>0 DEF Counts, Types
  <2>5. handle'[r] = sentinel[s] /\ \A q \in Runs \ {r} : handle'[q] = handle[q]
    BY <2>1 DEF Types
  <2>6. \A u \in Runs : Prey(r, u)' => u = s
    BY <2>1, <2>2, PreyUnique DEF Prey
  <2>7. CASE sentinel[s] = 0
    <3>1. KeepsHolders(r, "norun")
      BY <1>0, <2>1, <2>2, <2>3, <2>5, <2>7 DEF KeepsHolders
    <3> QED BY <3>1, HoldersKept
  <2>8. CASE sentinel[s] # 0
    <3>1. KeepsHolders(r, "open")
      BY <1>0, <2>1, <2>2, <2>3, <2>4, <2>5, <2>6, <2>8 DEF KeepsHolders
    <3> QED BY <3>1, HoldersKept
  <2> QED BY <2>7, <2>8
<1>9. ASSUME NEW r \in Runs, TryOther(r) PROVE Holders'
  <2>1. PICK s \in Runs :
          /\ Prey(r, s)
          /\ \/ lock[s][handle[r]] = 0 /\ SetLock(s, handle[r], r) /\ pc' = [pc EXCEPT ![r] = "judged"]
                /\ todo' = todo
             \/ Drop(r, "runs", s) /\ pc' = [pc EXCEPT ![r] = "sweep"] /\ lock' = lock
    BY <1>9 DEF TryOther
  <2>2. UNCHANGED <<tries, handle>> /\ pc[r] = "open"
    BY <1>9 DEF TryOther
  <2>3. CASE lock[s][handle[r]] = 0 /\ SetLock(s, handle[r], r) /\ pc' = [pc EXCEPT ![r] = "judged"]
             /\ todo' = todo
    <3>1. handle[r] \in 1..tries[s] /\ handle[r] \in 1..Tries
      BY <1>0, <2>1, <2>2 DEF Holders
    <3>2. \A q \in Runs, m \in 1..Tries : lock'[q][m] = IF q = s /\ m = handle[r] THEN r ELSE lock[q][m]
      BY <2>3, <3>1, LockEffect
    <3>3. \A u \in Runs : Prey(r, u)' => u = s
      BY <2>1, <2>3, PreyUnique DEF Prey
    <3>4. lock[r][tries[r]] = r /\ tries[r] \in 1..Tries
      BY <1>0, <2>2 DEF Holders, Counts
    <3>5. lock'[r][tries[r]] = r
      BY <3>2, <3>4
    <3>6. \A q \in Runs, m \in 1..Tries : lock[q][m] \notin {0, r} => lock'[q][m] = lock[q][m]
      BY <2>3, <3>2
    <3>7. KeepsHolders(r, "judged")
      BY <1>0, <2>2, <2>3, <3>1, <3>2, <3>3, <3>5, <3>6 DEF KeepsHolders
    <3> QED BY <3>7, HoldersKept
  <2>4. CASE Drop(r, "runs", s) /\ pc' = [pc EXCEPT ![r] = "sweep"] /\ lock' = lock
    <3>1. \A q \in Runs \ {r} : todo'[q].runs = todo[q].runs
      BY <1>9, ListEffects
    <3> QED BY <2>2, <2>4, <3>1, HoldersStay
  <2> QED BY <2>1, <2>3, <2>4
<1>10. ASSUME NEW r \in Runs, RemoveOtherLog(r) \/ RemoveOtherSentinel(r) PROVE Holders'
  <2>1. /\ UNCHANGED <<tries, lock, handle, todo>> /\ pc[r] \in Deleting
        /\ \E l \in Deleting : pc' = [pc EXCEPT ![r] = l]
    BY <1>10 DEF RemoveOtherLog, RemoveOtherSentinel
  <2> QED BY <2>1, HoldersStay
<1>11. ASSUME NEW r \in Runs, UnlockOther(r) PROVE Holders'
  <2>1. PICK s \in Runs : Prey(r, s) /\ SetLock(s, handle[r], 0)
    BY <1>11 DEF UnlockOther
  <2>2. UNCHANGED <<tries, handle>> /\ pc[r] = "unlock" /\ pc' = [pc EXCEPT ![r] = "sweep"]
    BY <1>11 DEF UnlockOther
  <2>3. handle[r] \in 1..Tries /\ lock[s][handle[r]] = r
    BY <1>0, <2>1, <2>2 DEF Holders
  <2>4. \A q \in Runs, m \in 1..Tries : lock'[q][m] = IF q = s /\ m = handle[r] THEN 0 ELSE lock[q][m]
    BY <2>1, <2>3, LockEffect
  <2>5. s # r
    BY <2>1 DEF Counts, Prey
  <2>6. lock[r][tries[r]] = r /\ tries[r] \in 1..Tries
    BY <1>0, <2>2 DEF Holders, Counts
  <2>7. \A q \in Runs \ {r} : todo'[q].runs = todo[q].runs
    BY <1>11, ListEffects
  <2>8. \A q \in Runs, m \in 1..Tries : lock[q][m] \notin {0, r} => lock'[q][m] = lock[q][m]
    BY <2>3, <2>4
  <2>9. lock'[r][tries[r]] = r
    BY <2>4, <2>5, <2>6
  <2>10. KeepsHolders(r, "sweep")
    BY <1>0, <2>2, <2>7, <2>8, <2>9 DEF KeepsHolders
  <2> QED BY <2>10, HoldersKept
<1>12. ASSUME NEW r \in Runs, RemoveStaleLog(r) PROVE Holders'
  <2>1. \A q \in Runs \ {r} : todo'[q].runs = todo[q].runs
    BY <1>12, ListEffects
  <2> QED BY <1>12, <2>1, HoldersStay DEF RemoveStaleLog
<1>13. ASSUME NEW r \in Runs, SweepTargets(r) PROVE Holders'
  <2>1. /\ UNCHANGED <<tries, lock, handle>> /\ pc[r] \in {"sweep", "untemp"}
        /\ \E l \in {"sweep", "untemp"} : pc' = [pc EXCEPT ![r] = l]
    BY <1>13 DEF SweepTargets, SweepTargetLog, TakeForTemp, RemoveTemp, Types
  <2> QED BY <1>13, <2>1, ListEffects, HoldersStay
<1>14. ASSUME NEW r \in Runs, FollowStart(r) \/ Build(r) PROVE Holders'
  <2>1. /\ UNCHANGED <<tries, lock, handle, todo>> /\ pc[r] \in Holding
        /\ \E l \in {"build", "finish"} \cup Building : pc' = [pc EXCEPT ![r] = l]
    BY <1>14 DEF FollowStart, Build, LockTarget, CreateCapture, CreateTemp, RenameTemp, EndBuild
  <2> QED BY <2>1, HoldersStay
<1>15. ASSUME NEW r \in Runs, AppendDone(r) \/ Join(r) \/ RemoveOwnLog(r) \/ RemoveOwnSentinel(r) PROVE Holders'
  <2>1. /\ UNCHANGED <<tries, lock, handle, todo>> /\ pc[r] \in Holding
        /\ \E l \in {"join", "rmlog", "rmlock", "drop"} : pc' = [pc EXCEPT ![r] = l]
    BY <1>15 DEF AppendDone, Join, RemoveOwnLog, RemoveOwnSentinel
  <2> QED BY <2>1, HoldersStay
<1>16. ASSUME NEW r \in Runs, Crash(r) PROVE Holders'
  <2>1. UNCHANGED <<tries, handle, todo>> /\ pc' = [pc EXCEPT ![r] = "dead"]
    BY <1>16 DEF Crash
  <2>2. \A q \in Runs, m \in 1..Tries : lock[q][m] \notin {0, r} => lock'[q][m] = lock[q][m]
    BY <1>16 DEF Crash
  <2>3. KeepsHolders(r, "dead")
    BY <1>0, <2>1, <2>2 DEF KeepsHolders
  <2> QED BY <2>3, HoldersKept
<1>17. CASE UNCHANGED vars
  BY <1>17 DEF vars, Holders, Prey
<1> QED
  BY <1>1, <1>2, <1>3, <1>4, <1>5, <1>6, <1>7, <1>8, <1>9, <1>10, <1>11, <1>12, <1>13, <1>14, <1>15,
     <1>16, <1>17
  DEF Next, Step, Acquire, SweepRuns, Finish

\* What a step of run r to l may do to the sentinels.
KeepsFirsts(r, l) ==
  /\ pc' = [pc EXCEPT ![r] = l]
  /\ \A q \in Runs \ {r} : tries'[q] = tries[q] /\ todo'[q].runs = todo[q].runs
  /\ tries'[r] \in Nat /\ tries'[r] >= tries[r]
  /\ \A s \in Runs \ {r} : pc[s] \in Verified /\ tries[s] = 1 => sentinel'[s] = sentinel[s]
  /\ \A s \in Runs : tries[s] = 1 => sentinel'[s] = sentinel[s] \/ sentinel'[s] = 0 \/ tries'[s] # 1
  /\ l \in Verified /\ tries'[r] = 1 => sentinel'[r] = 1
  /\ l = "norun" => \A s \in Runs : Prey(r, s)' /\ tries'[s] = 1 => sentinel'[s] = 0

LEMMA FirstsKept ==
  ASSUME Types, Counts, Firsts, NEW r \in Runs, NEW l, KeepsFirsts(r, l)
  PROVE  Firsts'
<1>1. \A q \in Runs : pc'[q] = IF q = r THEN l ELSE pc[q]
  BY DEF Types, KeepsFirsts
<1>2. \A q \in Runs : tries[q] \in Nat /\ tries'[q] \in Nat /\ tries'[q] >= tries[q]
  <2>1. \A q \in Runs : tries[q] \in Nat
    BY SweepAssumption DEF Types
  <2>2. \A q \in Runs : q = r \/ tries'[q] = tries[q]
    BY DEF KeepsFirsts
  <2>3. tries'[r] \in Nat /\ tries'[r] >= tries[r]
    BY DEF KeepsFirsts
  <2> QED BY <2>1, <2>2, <2>3
<1>3. ASSUME NEW s \in Runs, pc'[s] \in Verified, tries'[s] = 1 PROVE sentinel'[s] = 1
  BY <1>1, <1>3 DEF KeepsFirsts, Firsts
<1>4. ASSUME NEW q \in Runs, NEW s \in Runs, pc'[q] = "norun", Prey(q, s)', tries'[s] = 1
      PROVE  sentinel'[s] = 0
  <2>1. CASE q = r
    BY <1>1, <1>4, <2>1 DEF KeepsFirsts
  <2>2. CASE q # r
    <3>1. pc[q] = "norun" /\ Prey(q, s)
      BY <1>1, <1>4, <2>2 DEF KeepsFirsts, Prey
    <3>2. tries[s] >= 1
      BY <3>1 DEF Counts, Prey
    <3>3. tries[s] = 1
      BY <1>2, <1>4, <3>2
    <3> QED BY <1>4, <3>1, <3>3 DEF Firsts, KeepsFirsts
  <2> QED BY <2>1, <2>2
<1> QED BY <1>3, <1>4 DEF Firsts

LEMMA FirstsStay ==
  ASSUME Types, Counts, Firsts, NEW r \in Runs, NEW l, pc' = [pc EXCEPT ![r] = l],
         tries' = tries, sentinel' = sentinel,
         \A q \in Runs \ {r} : todo'[q].runs = todo[q].runs,
         l \in Verified => pc[r] \in Verified, l # "norun"
  PROVE  Firsts'
<1>1. tries[r] \in Nat
  BY SweepAssumption DEF Types
<1>2. l \in Verified /\ tries'[r] = 1 => sentinel'[r] = 1
  BY DEF Firsts
<1>3. KeepsFirsts(r, l)
  BY <1>1, <1>2 DEF KeepsFirsts
<1> QED BY <1>3, FirstsKept

LEMMA FirstsStep == Types /\ Counts /\ Holders /\ Firsts /\ [Next]_vars => Firsts'
<1> SUFFICES ASSUME Types, Counts, Holders, Firsts, [Next]_vars PROVE Firsts'
  OBVIOUS
<1> USE DEF Goto, run, files, Verified, Holding, Deleting
<1>0. \A q \in Runs : tries[q] \in Nat /\ sentinel[q] \in Nat /\ q # 0
  BY RunsAreNumbers, SweepAssumption DEF Types
<1>1. ASSUME NEW r \in Runs, Begin(r) \/ Temps(r) PROVE Firsts'
  <2>1. /\ UNCHANGED <<tries, sentinel>>
        /\ \E l \in {"begin", "uncapture"} : pc' = [pc EXCEPT ![r] = l]
    BY <1>1 DEF Begin, Temps, TakeForCapture, RemoveCapture, Types
  <2> QED BY <1>1, <2>1, ListEffects, FirstsStay
<1>2. ASSUME NEW r \in Runs, CreateSentinel(r) PROVE Firsts'
  <2>1. /\ todo' = todo /\ pc' = [pc EXCEPT ![r] = "made"]
        /\ \A q \in Runs : tries'[q] = IF q = r THEN tries[q] + 1 ELSE tries[q]
        /\ \A q \in Runs \ {r} : sentinel'[q] = sentinel[q]
    BY <1>2 DEF CreateSentinel, Types
  <2>2. tries'[r] \in Nat /\ tries'[r] >= tries[r] /\ (tries[r] = 1 => tries'[r] # 1)
    BY <1>0, <2>1
  <2>3. KeepsFirsts(r, "made")
    BY <2>1, <2>2 DEF KeepsFirsts
  <2> QED BY <2>3, FirstsKept
<1>3. ASSUME NEW r \in Runs, Verify(r) PROVE Firsts'
  <2>1. /\ UNCHANGED <<tries, sentinel, todo>>
        /\ \/ sentinel[r] = tries[r] /\ pc' = [pc EXCEPT ![r] = "log"]
           \/ pc' = [pc EXCEPT ![r] = "begin"]
    BY <1>3 DEF Verify
  <2>2. CASE sentinel[r] = tries[r] /\ pc' = [pc EXCEPT ![r] = "log"]
    <3>1. KeepsFirsts(r, "log")
      BY <1>0, <2>1, <2>2 DEF KeepsFirsts
    <3> QED BY <3>1, FirstsKept
  <2>3. CASE pc' = [pc EXCEPT ![r] = "begin"]
    BY <2>1, <2>3, FirstsStay
  <2> QED BY <2>1, <2>2, <2>3
<1>4. ASSUME NEW r \in Runs, LockSentinel(r) \/ GiveUp(r) \/ CreateRunLog(r) PROVE Firsts'
  <2>1. /\ UNCHANGED <<tries, sentinel, todo>>
        /\ \E l \in {"locked", "failed", "list"} :
             pc' = [pc EXCEPT ![r] = l] /\ (l = "list" => pc[r] = "log")
    BY <1>4 DEF LockSentinel, GiveUp, CreateRunLog
  <2> QED BY <2>1, FirstsStay
<1>5. ASSUME NEW r \in Runs, List(r) PROVE Firsts'
  <2>1. \A q \in Runs \ {r} : todo'[q].runs = todo[q].runs
    BY <1>5 DEF List, Types
  <2> QED BY <1>5, <2>1, FirstsStay DEF List
<1>6. ASSUME NEW r \in Runs, OpenOther(r) PROVE Firsts'
  <2>1. PICK s \in Runs :
          Prey(r, s) /\ pc' = [pc EXCEPT ![r] = IF sentinel[s] = 0 THEN "norun" ELSE "open"]
    BY <1>6 DEF OpenOther
  <2>2. UNCHANGED <<tries, sentinel, todo>> /\ pc[r] = "sweep"
    BY <1>6 DEF OpenOther
  <2>3. \A u \in Runs : Prey(r, u)' => u = s
    BY <2>1, <2>2, PreyUnique DEF Prey
  <2>4. CASE sentinel[s] = 0
    <3>1. tries[r] = 1 => sentinel[r] = 1
      BY <2>2 DEF Firsts
    <3>2. KeepsFirsts(r, "norun")
      BY <1>0, <2>1, <2>2, <2>3, <2>4, <3>1 DEF KeepsFirsts
    <3> QED BY <3>2, FirstsKept
  <2>5. CASE sentinel[s] # 0
    BY <2>1, <2>2, <2>5, FirstsStay
  <2> QED BY <2>4, <2>5
<1>7. ASSUME NEW r \in Runs, RemoveOtherSentinel(r) PROVE Firsts'
  <2>1. PICK s \in Runs : Prey(r, s) /\ sentinel' = [sentinel EXCEPT ![s] = 0]
    BY <1>7 DEF RemoveOtherSentinel
  <2>2. UNCHANGED <<tries, todo>> /\ pc[r] = "unlink" /\ pc' = [pc EXCEPT ![r] = "unlock"]
    BY <1>7 DEF RemoveOtherSentinel
  <2>3. \A u \in Runs : sentinel'[u] = IF u = s THEN 0 ELSE sentinel[u]
    BY <2>1 DEF Types
  <2>4. r # s
    BY <2>1 DEF Counts, Prey
  <2>5. ~(pc[s] \in Verified /\ tries[s] = 1)
    <3>1. handle[r] \in 1..tries[s] /\ lock[s][handle[r]] = r
      BY <2>1, <2>2 DEF Holders
    <3>2. pc[s] \in Verified => lock[s][tries[s]] = s
      BY DEF Holders
    <3>3. tries[s] = 1 => handle[r] = 1
      BY <3>1
    <3> QED BY <2>4, <3>1, <3>2, <3>3
  <2>6. tries[r] = 1 => sentinel'[r] = 1
    BY <2>2, <2>3, <2>4 DEF Firsts
  <2>7. KeepsFirsts(r, "unlock")
    BY <1>0, <2>2, <2>3, <2>5, <2>6 DEF KeepsFirsts
  <2> QED BY <2>7, FirstsKept
<1>8. ASSUME NEW r \in Runs, TryOther(r) \/ UnlockOther(r) \/ RemoveStaleLog(r) PROVE Firsts'
  <2>1. /\ UNCHANGED <<tries, sentinel>> /\ pc[r] \in Sweeping
        /\ \E l \in {"judged", "sweep"} : pc' = [pc EXCEPT ![r] = l]
    BY <1>8 DEF TryOther, UnlockOther, RemoveStaleLog
  <2> QED BY <1>8, <2>1, ListEffects, FirstsStay
<1>9. ASSUME NEW r \in Runs, RemoveOtherLog(r) PROVE Firsts'
  BY <1>9, FirstsStay DEF RemoveOtherLog
<1>10. ASSUME NEW r \in Runs, SweepTargets(r) PROVE Firsts'
  <2>1. /\ UNCHANGED <<tries, sentinel>> /\ pc[r] \in Sweeping
        /\ \E l \in {"sweep", "untemp"} : pc' = [pc EXCEPT ![r] = l]
    BY <1>10 DEF SweepTargets, SweepTargetLog, TakeForTemp, RemoveTemp, Types
  <2> QED BY <1>10, <2>1, ListEffects, FirstsStay
<1>11. ASSUME NEW r \in Runs, FollowStart(r) \/ Build(r) PROVE Firsts'
  <2>1. /\ UNCHANGED <<tries, sentinel, todo>> /\ pc[r] \in Verified
        /\ \E l \in {"build", "finish"} \cup Building : pc' = [pc EXCEPT ![r] = l]
    BY <1>11 DEF FollowStart, Build, LockTarget, CreateCapture, CreateTemp, RenameTemp, EndBuild
  <2> QED BY <2>1, FirstsStay
<1>12. ASSUME NEW r \in Runs, AppendDone(r) \/ Join(r) \/ RemoveOwnLog(r) \/ DropRunLock(r) PROVE Firsts'
  <2>1. /\ UNCHANGED <<tries, sentinel, todo>> /\ pc[r] \in Verified \cup {"drop"}
        /\ \E l \in {"join", "rmlog", "rmlock", "ended"} :
             pc' = [pc EXCEPT ![r] = l] /\ (pc[r] = "drop" => l = "ended")
    BY <1>12 DEF AppendDone, Join, RemoveOwnLog, DropRunLock
  <2> QED BY <2>1, FirstsStay
<1>13. ASSUME NEW r \in Runs, RemoveOwnSentinel(r) PROVE Firsts'
  <2>1. /\ UNCHANGED <<tries, todo>> /\ pc' = [pc EXCEPT ![r] = "drop"]
        /\ \A u \in Runs : sentinel'[u] = IF u = r THEN 0 ELSE sentinel[u]
    BY <1>13 DEF RemoveOwnSentinel, Types
  <2>2. KeepsFirsts(r, "drop")
    BY <1>0, <2>1 DEF KeepsFirsts
  <2> QED BY <2>2, FirstsKept
<1>14. ASSUME NEW r \in Runs, Crash(r) PROVE Firsts'
  BY <1>14, FirstsStay DEF Crash
<1>15. CASE UNCHANGED vars
  BY <1>15 DEF vars, Firsts, Prey
<1> QED
  BY <1>1, <1>2, <1>3, <1>4, <1>5, <1>6, <1>7, <1>8, <1>9, <1>10, <1>11, <1>12, <1>13, <1>14, <1>15
  DEF Next, Step, Acquire, SweepRuns, Finish

-----------------------------------------------------------------------------
\* FILES OF A BUILD AND LOGS OF A RUN

HasCapture == {"temp", "rename", "run", "close"}

LEMMA BuildFilesStay ==
  ASSUME Types, BuildFilesKept, NEW r \in Runs, NEW l, pc' = [pc EXCEPT ![r] = l],
         capture \subseteq capture', temps \subseteq temps',
         l \in HasCapture => pc[r] \in HasCapture, l # "rename"
  PROVE  BuildFilesKept'
<1>1. \A q \in Runs : pc'[q] = IF q = r THEN l ELSE pc[q]
  BY DEF Types
<1> QED BY <1>1 DEF BuildFilesKept, HasCapture

LEMMA BuildFilesStep == Types /\ Ownership /\ BuildFilesKept /\ [Next]_vars => BuildFilesKept'
<1> SUFFICES ASSUME Types, Ownership, BuildFilesKept, [Next]_vars PROVE BuildFilesKept'
  OBVIOUS
<1> USE DEF Goto, run, files, HasCapture
<1>0. \A q \in Runs : pc[q] \in Building => Goal[q] \in Targets /\ owner[Goal[q]] = q /\ q # 0
  BY RunsAreNumbers, GoalTypes DEF Ownership
<1>1. ASSUME NEW r \in Runs, RemoveCapture(r) PROVE BuildFilesKept'
  <2>1. PICK t \in todo[r].captures : owner[t] = r /\ capture' = capture \ {t}
    BY <1>1 DEF RemoveCapture
  <2>2. /\ temps' = temps /\ pc[r] = "uncapture"
        /\ \A q \in Runs : pc'[q] = IF q = r THEN "begin" ELSE pc[q]
    BY <1>1 DEF RemoveCapture, Types
  <2>3. \A q \in Runs : pc[q] \in Building => Goal[q] # t
    BY <1>0, <2>1, <2>2
  <2> QED BY <2>1, <2>2, <2>3 DEF BuildFilesKept
<1>2. ASSUME NEW r \in Runs, RemoveTemp(r) PROVE BuildFilesKept'
  <2>1. PICK n \in todo[r].temps : owner[n[1]] = r /\ temps' = temps \ {n}
    BY <1>2 DEF RemoveTemp
  <2>2. /\ capture' = capture /\ pc[r] = "untemp"
        /\ \A q \in Runs : pc'[q] = IF q = r THEN "sweep" ELSE pc[q]
    BY <1>2 DEF RemoveTemp, Types
  <2>3. \A q \in Runs : pc[q] \in Building => <<Goal[q], q>> # n
    BY <1>0, <2>1, <2>2
  <2> QED BY <2>1, <2>2, <2>3 DEF BuildFilesKept
<1>3. ASSUME NEW r \in Runs, CreateCapture(r) PROVE BuildFilesKept'
  <2>1. /\ temps' = temps /\ capture' = capture \cup {Goal[r]}
        /\ \A q \in Runs : pc'[q] = IF q = r THEN "temp" ELSE pc[q]
    BY <1>3 DEF CreateCapture, Types
  <2> QED BY <2>1 DEF BuildFilesKept
<1>4. ASSUME NEW r \in Runs, CreateTemp(r) PROVE BuildFilesKept'
  <2>1. /\ capture' = capture /\ temps' = temps \cup {<<Goal[r], r>>} /\ pc[r] = "temp"
        /\ \A q \in Runs : pc'[q] = IF q = r THEN "rename" ELSE pc[q]
    BY <1>4 DEF CreateTemp, Types
  <2> QED BY <2>1 DEF BuildFilesKept
<1>5. ASSUME NEW r \in Runs, RenameTemp(r) PROVE BuildFilesKept'
  <2>1. /\ capture' = capture /\ temps' = temps \ {<<Goal[r], r>>} /\ pc[r] = "rename"
        /\ \A q \in Runs \ {r} : pc'[q] = pc[q]
        /\ pc'[r] \in {"run", "close"}
    BY <1>5 DEF RenameTemp, Types
  <2> QED BY <2>1 DEF BuildFilesKept
<1>6. ASSUME NEW r \in Runs, EndBuild(r) PROVE BuildFilesKept'
  <2>1. /\ temps' = temps /\ capture' = capture \ {Goal[r]} /\ pc[r] \in Building
        /\ \A q \in Runs : pc'[q] = IF q = r THEN "finish" ELSE pc[q]
    BY <1>6 DEF EndBuild, Types
  <2>2. \A q \in Runs \ {r} : pc[q] \in Building => Goal[q] # Goal[r]
    BY <1>0, <2>1
  <2> QED BY <2>1, <2>2 DEF BuildFilesKept
<1>7. ASSUME NEW r \in Runs, Begin(r) \/ TakeForCapture(r) \/ Acquire(r) \/ SweepRuns(r)
                             \/ SweepTargetLog(r) \/ TakeForTemp(r) \/ FollowStart(r) \/ LockTarget(r)
                             \/ Finish(r) \/ Crash(r)
      PROVE  BuildFilesKept'
  <2>1. UNCHANGED <<capture, temps>>
    BY <1>7 DEF Begin, TakeForCapture, Acquire, CreateSentinel, LockSentinel, Verify, GiveUp, CreateRunLog,
       SweepRuns, List, OpenOther, TryOther, RemoveOtherLog, RemoveOtherSentinel, UnlockOther, RemoveStaleLog,
       SweepTargetLog, TakeForTemp, FollowStart, LockTarget, Finish, AppendDone, Join, RemoveOwnLog,
       RemoveOwnSentinel, DropRunLock, Crash
  <2>2. pc' = pc \/ \E l \in Labels \ HasCapture : pc' = [pc EXCEPT ![r] = l]
    BY <1>7 DEF Begin, TakeForCapture, Acquire, CreateSentinel, LockSentinel, Verify, GiveUp, CreateRunLog,
       SweepRuns, List, OpenOther, TryOther, RemoveOtherLog, RemoveOtherSentinel, UnlockOther, RemoveStaleLog,
       SweepTargetLog, TakeForTemp, FollowStart, LockTarget, Finish, AppendDone, Join, RemoveOwnLog,
       RemoveOwnSentinel, DropRunLock, Crash
  <2>3. CASE pc' = pc
    BY <2>1, <2>3 DEF BuildFilesKept
  <2> QED BY <2>1, <2>2, <2>3, BuildFilesStay
<1>8. CASE UNCHANGED vars
  BY <1>8 DEF vars, BuildFilesKept
<1> QED
  BY <1>1, <1>2, <1>3, <1>4, <1>5, <1>6, <1>7, <1>8 DEF Next, Step, Temps, SweepTargets, Build

\* The states in which a run's run log, and its target's log, must be there.
Logged == Working \cup {"rmlog"}
Made == {"run", "close", "finish", "join"}

\* What a step of run r to l may do to the logs.
KeepsLogs(r, l) ==
  /\ pc' = [pc EXCEPT ![r] = l]
  /\ \A q \in Runs \ {r} :
       /\ tries'[q] = tries[q]
       /\ tries[q] = 1 /\ pc[q] \in Logged /\ q \in log => q \in log'
       /\ tries[q] = 1 /\ pc[q] \in Made /\ <<Goal[q], q>> \in logs => <<Goal[q], q>> \in logs'
  /\ tries'[r] = 1 /\ l \in Logged => r \in log'
  /\ tries'[r] = 1 /\ l \in Made /\ Goal[r] # None => <<Goal[r], r>> \in logs'

LEMMA LogsKept ==
  ASSUME Types, FirstLogs, NEW r \in Runs, NEW l, KeepsLogs(r, l)
  PROVE  FirstLogs'
<1>1. \A q \in Runs : pc'[q] = IF q = r THEN l ELSE pc[q]
  BY DEF Types, KeepsLogs
<1> QED BY <1>1 DEF KeepsLogs, FirstLogs, Logged, Made

LEMMA LogsStay ==
  ASSUME Types, FirstLogs, NEW r \in Runs, NEW l, pc' = [pc EXCEPT ![r] = l],
         tries' = tries, log \subseteq log', logs \subseteq logs',
         l \in Logged => pc[r] \in Logged,
         l \in Made => pc[r] \in Made \/ Goal[r] = None
  PROVE  FirstLogs'
<1>1. KeepsLogs(r, l)
  BY DEF KeepsLogs, FirstLogs, Logged, Made
<1> QED BY <1>1, LogsKept

LEMMA FirstLogsStep ==
  Types /\ Ownership /\ Counts /\ Holders /\ Firsts /\ BuildFilesKept /\ FirstLogs /\ [Next]_vars => FirstLogs'
<1> SUFFICES ASSUME Types, Ownership, Counts, Holders, Firsts, BuildFilesKept, FirstLogs, [Next]_vars
             PROVE  FirstLogs'
  OBVIOUS
<1> USE DEF Goto, run, files, Verified, Holding, Deleting, Logged, Made
<1>0. \A q \in Runs : tries[q] \in Nat /\ q # 0
  BY RunsAreNumbers, SweepAssumption DEF Types
<1>1. ASSUME NEW r \in Runs, CreateSentinel(r) PROVE FirstLogs'
  <2>1. /\ pc' = [pc EXCEPT ![r] = "made"] /\ UNCHANGED <<log, logs>>
        /\ \A q \in Runs \ {r} : tries'[q] = tries[q]
    BY <1>1 DEF CreateSentinel, Types
  <2>2. KeepsLogs(r, "made")
    BY <2>1 DEF KeepsLogs
  <2> QED BY <2>2, LogsKept
<1>2. ASSUME NEW r \in Runs, CreateRunLog(r) PROVE FirstLogs'
  <2>1. KeepsLogs(r, "list")
    BY <1>2 DEF CreateRunLog, KeepsLogs
  <2> QED BY <2>1, LogsKept
<1>3. ASSUME NEW r \in Runs, RemoveOtherLog(r) PROVE FirstLogs'
  <2>1. PICK s \in Runs : Prey(r, s) /\ log' = log \ {s}
    BY <1>3 DEF RemoveOtherLog
  <2>2. /\ UNCHANGED <<tries, logs>> /\ pc[r] = "judged" /\ pc' = [pc EXCEPT ![r] = "unlink"]
    BY <1>3 DEF RemoveOtherLog
  <2>3. r # s
    BY <2>1 DEF Counts, Prey
  <2>4. ~(pc[s] \in Logged /\ tries[s] = 1)
    <3>1. handle[r] \in 1..tries[s] /\ lock[s][handle[r]] = r
      BY <2>1, <2>2 DEF Holders
    <3>2. pc[s] \in Logged => lock[s][tries[s]] = s
      BY DEF Holders
    <3>3. tries[s] = 1 => handle[r] = 1
      BY <3>1
    <3> QED BY <2>3, <3>1, <3>2, <3>3
  <2>5. tries[r] = 1 => r \in log'
    BY <2>1, <2>2, <2>3 DEF FirstLogs
  <2>6. KeepsLogs(r, "unlink")
    BY <2>1, <2>2, <2>4, <2>5 DEF KeepsLogs
  <2> QED BY <2>6, LogsKept
<1>4. ASSUME NEW r \in Runs, RemoveStaleLog(r) PROVE FirstLogs'
  <2>1. PICK s \in Runs : Prey(r, s) /\ log' = log \ {s}
    BY <1>4 DEF RemoveStaleLog
  <2>2. /\ UNCHANGED <<tries, logs>> /\ pc[r] = "norun" /\ pc' = [pc EXCEPT ![r] = "sweep"]
    BY <1>4 DEF RemoveStaleLog
  <2>3. r # s
    BY <2>1 DEF Counts, Prey
  <2>4. ~(pc[s] \in Logged /\ tries[s] = 1)
    BY <2>1, <2>2 DEF Firsts
  <2>5. tries[r] = 1 => r \in log'
    BY <2>1, <2>2, <2>3 DEF FirstLogs
  <2>6. KeepsLogs(r, "sweep")
    BY <2>1, <2>2, <2>4, <2>5 DEF KeepsLogs
  <2> QED BY <2>6, LogsKept
<1>5. ASSUME NEW r \in Runs, SweepTargetLog(r) PROVE FirstLogs'
  <2>1. PICK n \in todo[r].logs : logs' = IF RunDead(n[2]) THEN logs \ {n} ELSE logs
    BY <1>5 DEF SweepTargetLog
  <2>2. UNCHANGED <<pc, tries, log>>
    BY <1>5 DEF SweepTargetLog
  <2>3. ASSUME NEW q \in Runs, tries[q] = 1, pc[q] \in Made PROVE ~RunDead(q)
    <3>1. sentinel[q] = 1 /\ lock[q][1] = q
      BY <2>3 DEF Firsts, Holders
    <3> QED BY <1>0, <3>1 DEF RunDead
  <2>4. \A q \in Runs : tries[q] = 1 /\ pc[q] \in Made /\ <<Goal[q], q>> \in logs => <<Goal[q], q>> \in logs'
    BY <2>1, <2>3
  <2> QED BY <2>2, <2>4 DEF FirstLogs
<1>6. ASSUME NEW r \in Runs, RenameTemp(r) PROVE FirstLogs'
  <2>1. <<Goal[r], r>> \in temps
    BY <1>6 DEF RenameTemp, BuildFilesKept
  <2>2. /\ pc' = [pc EXCEPT ![r] = "run"] /\ pc[r] = "rename"
        /\ logs' = logs \cup {<<Goal[r], r>>} /\ UNCHANGED <<tries, log>>
    BY <1>6, <2>1 DEF RenameTemp
  <2>3. tries[r] = 1 => r \in log
    BY <2>2 DEF FirstLogs
  <2>4. KeepsLogs(r, "run")
    BY <2>2, <2>3 DEF KeepsLogs
  <2> QED BY <2>4, LogsKept
<1>7. ASSUME NEW r \in Runs, Join(r) PROVE FirstLogs'
  <2>1. /\ pc' = [pc EXCEPT ![r] = "rmlog"] /\ pc[r] = "join" /\ UNCHANGED <<tries, log>>
        /\ logs' = logs \/ logs' = logs \ (Targets \X {r})
    BY <1>7 DEF Join
  <2>2. tries[r] = 1 => r \in log
    BY <2>1 DEF FirstLogs
  <2>3. KeepsLogs(r, "rmlog")
    BY <2>1, <2>2 DEF KeepsLogs
  <2> QED BY <2>3, LogsKept
<1>8. ASSUME NEW r \in Runs, RemoveOwnLog(r) PROVE FirstLogs'
  <2>1. KeepsLogs(r, "rmlock")
    BY <1>8 DEF RemoveOwnLog, KeepsLogs
  <2> QED BY <2>1, LogsKept
<1>9. ASSUME NEW r \in Runs, Begin(r) \/ Temps(r) PROVE FirstLogs'
  <2>1. /\ UNCHANGED <<tries, log, logs>>
        /\ \E l \in {"begin", "uncapture"} : pc' = [pc EXCEPT ![r] = l]
    BY <1>9 DEF Begin, Temps, TakeForCapture, RemoveCapture, Types
  <2> QED BY <2>1, LogsStay
<1>10. ASSUME NEW r \in Runs, LockSentinel(r) \/ Verify(r) \/ GiveUp(r) PROVE FirstLogs'
  <2>1. /\ UNCHANGED <<tries, log, logs>>
        /\ \E l \in {"locked", "log", "begin", "failed"} : pc' = [pc EXCEPT ![r] = l]
    BY <1>10 DEF LockSentinel, Verify, GiveUp
  <2> QED BY <2>1, LogsStay
<1>11. ASSUME NEW r \in Runs, List(r) \/ OpenOther(r) \/ TryOther(r) \/ RemoveOtherSentinel(r)
                              \/ UnlockOther(r) \/ TakeForTemp(r) \/ RemoveTemp(r)
       PROVE  FirstLogs'
  <2>1. /\ UNCHANGED <<tries, log, logs>> /\ pc[r] \in Sweeping \cup {"list"}
        /\ \E l \in Sweeping : pc' = [pc EXCEPT ![r] = l]
    BY <1>11 DEF List, OpenOther, TryOther, RemoveOtherSentinel, UnlockOther, TakeForTemp, RemoveTemp, Types
  <2> QED BY <2>1, LogsStay
<1>12. ASSUME NEW r \in Runs, FollowStart(r) PROVE FirstLogs'
  <2>1. /\ UNCHANGED <<tries, log, logs>> /\ pc[r] = "sweep"
        /\ \E l \in {"finish", "build"} : pc' = [pc EXCEPT ![r] = l] /\ (l = "finish" => Goal[r] = None)
    BY <1>12 DEF FollowStart
  <2> QED BY <2>1, LogsStay
<1>13. ASSUME NEW r \in Runs, LockTarget(r) \/ CreateCapture(r) \/ CreateTemp(r) PROVE FirstLogs'
  <2>1. /\ UNCHANGED <<tries, log, logs>> /\ pc[r] \in {"build", "capture", "temp"}
        /\ \E l \in {"capture", "temp", "rename"} : pc' = [pc EXCEPT ![r] = l]
    BY <1>13 DEF LockTarget, CreateCapture, CreateTemp
  <2> QED BY <2>1, LogsStay
<1>14. ASSUME NEW r \in Runs, EndBuild(r) \/ AppendDone(r) PROVE FirstLogs'
  <2>1. /\ UNCHANGED <<tries, log, logs>> /\ pc[r] \in {"run", "close", "finish"}
        /\ \E l \in {"finish", "join"} : pc' = [pc EXCEPT ![r] = l]
    BY <1>14 DEF EndBuild, AppendDone
  <2> QED BY <2>1, LogsStay
<1>15. ASSUME NEW r \in Runs, RemoveOwnSentinel(r) \/ DropRunLock(r) \/ Crash(r) PROVE FirstLogs'
  <2>1. /\ UNCHANGED <<tries, log, logs>>
        /\ \E l \in {"drop", "ended", "dead"} : pc' = [pc EXCEPT ![r] = l]
    BY <1>15 DEF RemoveOwnSentinel, DropRunLock, Crash
  <2> QED BY <2>1, LogsStay
<1>16. CASE UNCHANGED vars
  BY <1>16 DEF vars, FirstLogs
<1> QED
  BY <1>1, <1>2, <1>3, <1>4, <1>5, <1>6, <1>7, <1>8, <1>9, <1>10, <1>11, <1>12, <1>13, <1>14, <1>15, <1>16
  DEF Next, Step, Acquire, SweepRuns, SweepTargets, Build, Finish

-----------------------------------------------------------------------------
\* WHAT THE DEAD LEAVE BEHIND

\* A sentinel's kernel lock is its run's, or that of the sweep that deletes it.
Holds ==
  \A q, s \in Runs, n \in 1..Tries : lock[s][n] = q =>
    \/ q = s /\ pc[s] \in Holding /\ n = tries[s]
    \/ pc[q] \in Deleting /\ Prey(q, s) /\ n = handle[q]

\* A sweep with a history has no other beside it.
Single == \A q \in Runs : pc[q] \in Sweeping /\ prior[q] # {} => \A p \in Runs \ {q} : pc[p] \notin Sweeping

\* How far such a sweep q has got with the files of a run that was over.
Cleared(q, s) ==
  /\ pc[s] \in Over
  /\ s \notin todo[q].runs => sentinel[s] = 0 /\ s \notin log
  /\ Prey(q, s) => /\ pc[q] \in {"norun", "unlock"} => sentinel[s] = 0
                   /\ pc[q] \in {"unlink", "unlock"} => s \notin log
  /\ \A n \in logs : n[2] = s => n \in todo[q].logs
Clearing == \A q \in Runs \ KeepLogs : pc[q] \in Sweeping => \A s \in prior[q] : Cleared(q, s)

\* A step of run r to l that gives no lock to another.
KeepsHolds(r, l) ==
  /\ pc' = [pc EXCEPT ![r] = l]
  /\ \A q \in Runs \ {r} : todo'[q].runs = todo[q].runs /\ handle'[q] = handle[q] /\ tries'[q] = tries[q]
  /\ \A s \in Runs, n \in 1..Tries :
       /\ lock'[s][n] \in {0, r, lock[s][n]}
       /\ lock'[s][n] = r => \/ s = r /\ l \in Holding /\ n = tries'[r]
                             \/ l \in Deleting /\ Prey(r, s)' /\ n = handle'[r]

LEMMA HoldsKept ==
  ASSUME Types, Holds, NEW r \in Runs, NEW l, KeepsHolds(r, l)
  PROVE  Holds'
<1> USE DEF KeepsHolds
<1>1. \A q \in Runs : pc'[q] = IF q = r THEN l ELSE pc[q]
  BY DEF Types
<1> SUFFICES ASSUME NEW q \in Runs, NEW s \in Runs, NEW n \in 1..Tries, lock'[s][n] = q
             PROVE  \/ q = s /\ pc'[s] \in Holding /\ n = tries'[s]
                    \/ pc'[q] \in Deleting /\ Prey(q, s)' /\ n = handle'[q]
  BY DEF Holds
<1>2. CASE q # r
  <2>1. lock[s][n] = q
    BY <1>2, RunsAreNumbers
  <2>2. \/ q = s /\ pc[s] \in Holding /\ n = tries[s]
        \/ pc[q] \in Deleting /\ Prey(q, s) /\ n = handle[q]
    BY <2>1 DEF Holds
  <2> QED BY <1>1, <1>2, <2>2 DEF Prey
<1>3. CASE q = r
  BY <1>1, <1>3
<1> QED BY <1>2, <1>3

\* A step without locks, of a run that deletes nothing.
LEMMA HoldsStay ==
  ASSUME Types, Holds, NEW r \in Runs, NEW l, pc' = [pc EXCEPT ![r] = l], lock' = lock,
         \A q \in Runs \ {r} : todo'[q].runs = todo[q].runs /\ handle'[q] = handle[q] /\ tries'[q] = tries[q],
         pc[r] \notin Deleting, pc[r] \in Holding => l \in Holding /\ tries'[r] = tries[r]
  PROVE  Holds'
<1>1. \A s \in Runs, n \in 1..Tries : lock[s][n] = r => s = r /\ pc[r] \in Holding /\ n = tries[r]
  BY DEF Holds
<1>2. KeepsHolds(r, l)
  BY <1>1 DEF KeepsHolds
<1> QED BY <1>2, HoldsKept

LEMMA HoldsStep == Types /\ Counts /\ Holders /\ Holds /\ [Next]_vars => Holds'
<1> SUFFICES ASSUME Types, Counts, Holders, Holds, [Next]_vars PROVE Holds'
  OBVIOUS
<1> USE DEF Goto, run, files, Verified, Holding, Deleting
<1>0. \A q \in Runs : tries[q] \in 0..Tries /\ Tries \in Nat /\ q # 0 /\ q \in Nat
  BY RunsAreNumbers, SweepAssumption DEF Types
<1>1. ASSUME NEW r \in Runs, Begin(r) \/ Temps(r) PROVE Holds'
  <2>1. /\ UNCHANGED <<tries, lock, handle>> /\ pc[r] \in {"off", "begin", "uncapture"}
        /\ \E l \in {"begin", "uncapture"} : pc' = [pc EXCEPT ![r] = l]
    BY <1>1 DEF Begin, Temps, TakeForCapture, RemoveCapture, Types
  <2>2. \A q \in Runs : todo'[q].runs = todo[q].runs
    BY <1>1, ListEffects
  <2> QED BY <2>1, <2>2, HoldsStay
<1>2. ASSUME NEW r \in Runs, CreateSentinel(r) \/ GiveUp(r) \/ CreateRunLog(r) PROVE Holds'
  <2>1. /\ UNCHANGED <<lock, handle, todo>> /\ pc[r] \in {"begin", "log"}
        /\ \A q \in Runs \ {r} : tries'[q] = tries[q]
        /\ pc[r] = "log" => tries' = tries
        /\ \E l \in {"made", "failed", "list"} : pc' = [pc EXCEPT ![r] = l] /\ (pc[r] = "log" => l = "list")
    BY <1>2 DEF CreateSentinel, GiveUp, CreateRunLog, Types
  <2> QED BY <2>1, HoldsStay
<1>3. ASSUME NEW r \in Runs, LockSentinel(r) PROVE Holds'
  <2>1. tries[r] \in 1..Tries
    BY <1>0, <1>3 DEF LockSentinel, Counts
  <2>2. /\ UNCHANGED <<tries, handle, todo>> /\ pc' = [pc EXCEPT ![r] = "locked"] /\ pc[r] = "made"
        /\ SetLock(r, tries[r], r)
    BY <1>3 DEF LockSentinel
  <2>3. \A q \in Runs, m \in 1..Tries : lock'[q][m] = IF q = r /\ m = tries[r] THEN r ELSE lock[q][m]
    BY <2>1, <2>2, LockEffect
  <2>4. \A s \in Runs, n \in 1..Tries : lock[s][n] # r
    BY <2>2 DEF Holds
  <2>5. KeepsHolds(r, "locked")
    BY <1>0, <2>2, <2>3, <2>4 DEF KeepsHolds
  <2> QED BY <2>5, HoldsKept
<1>4. ASSUME NEW r \in Runs, Verify(r) \/ DropRunLock(r) PROVE Holds'
  <2>1. tries[r] \in 1..Tries
    BY <1>0, <1>4 DEF Verify, DropRunLock, Counts
  <2>2. UNCHANGED <<tries, handle, todo>> /\ pc[r] \in {"locked", "drop"}
    BY <1>4 DEF Verify, DropRunLock
  <2>3. CASE pc' = [pc EXCEPT ![r] = "log"] /\ lock' = lock
    BY <2>2, <2>3, HoldsStay
  <2>4. ASSUME SetLock(r, tries[r], 0), NEW l, pc' = [pc EXCEPT ![r] = l] PROVE Holds'
    <3>1. \A q \in Runs, m \in 1..Tries : lock'[q][m] = IF q = r /\ m = tries[r] THEN 0 ELSE lock[q][m]
      BY <2>1, <2>4, LockEffect
    <3>2. \A s \in Runs, n \in 1..Tries : lock[s][n] = r => s = r /\ n = tries[r]
      BY <2>2 DEF Holds
    <3>3. \A s \in Runs, n \in 1..Tries : lock'[s][n] # r
      BY <1>0, <3>1, <3>2
    <3>4. KeepsHolds(r, l)
      BY <1>0, <2>2, <2>4, <3>1, <3>3 DEF KeepsHolds
    <3> QED BY <3>4, HoldsKept
  <2> QED BY <1>4, <2>3, <2>4 DEF Verify, DropRunLock
<1>5. ASSUME NEW r \in Runs, List(r) \/ OpenOther(r) PROVE Holds'
  <2>1. /\ UNCHANGED <<tries, lock>> /\ pc[r] \in {"list", "sweep"}
        /\ \A q \in Runs \ {r} : handle'[q] = handle[q] /\ todo'[q].runs = todo[q].runs
        /\ \E l \in Sweeping : pc' = [pc EXCEPT ![r] = l]
    <3>1. CASE List(r)
      BY <3>1 DEF List, Types
    <3>2. CASE OpenOther(r)
      BY <3>2 DEF OpenOther, Types
    <3> QED BY <1>5, <3>1, <3>2
  <2> QED BY <2>1, HoldsStay
<1>6. ASSUME NEW r \in Runs, TryOther(r) PROVE Holds'
  <2>1. PICK s \in Runs :
          /\ Prey(r, s)
          /\ \/ SetLock(s, handle[r], r) /\ Goto(r, "judged") /\ UNCHANGED todo
             \/ Drop(r, "runs", s) /\ Goto(r, "sweep") /\ UNCHANGED lock
    BY <1>6 DEF TryOther
  <2>2. UNCHANGED <<tries, handle>> /\ pc[r] = "open"
    BY <1>6 DEF TryOther
  <2>3. CASE SetLock(s, handle[r], r) /\ Goto(r, "judged") /\ UNCHANGED todo
    <3>1. handle[r] \in 1..Tries
      BY <1>0, <2>1, <2>2 DEF Holders
    <3>2. \A q \in Runs, m \in 1..Tries : lock'[q][m] = IF q = s /\ m = handle[r] THEN r ELSE lock[q][m]
      BY <2>3, <3>1, LockEffect
    <3>3. \A q \in Runs, m \in 1..Tries : lock[q][m] = r => q = r /\ m = tries[r]
      BY <2>2 DEF Holds
    <3>4. KeepsHolds(r, "judged")
      BY <1>0, <2>1, <2>2, <2>3, <3>2, <3>3 DEF KeepsHolds, Prey
    <3> QED BY <3>4, HoldsKept
  <2>4. CASE Drop(r, "runs", s) /\ Goto(r, "sweep") /\ UNCHANGED lock
    <3>1. \A q \in Runs \ {r} : todo'[q].runs = todo[q].runs
      BY <1>6, ListEffects
    <3> QED BY <2>2, <2>4, <3>1, HoldsStay
  <2> QED BY <2>1, <2>3, <2>4
<1>7. ASSUME NEW r \in Runs, RemoveOtherLog(r) \/ RemoveOtherSentinel(r) PROVE Holds'
  <2>1. /\ UNCHANGED <<tries, lock, handle, todo>> /\ pc[r] \in Deleting
        /\ \E l \in Deleting : pc' = [pc EXCEPT ![r] = l]
    BY <1>7 DEF RemoveOtherLog, RemoveOtherSentinel
  <2>2. PICK l \in Deleting : pc' = [pc EXCEPT ![r] = l]
    BY <2>1
  <2>3. \A s \in Runs, n \in 1..Tries : lock[s][n] = r => (s = r /\ n = tries[r]) \/ (Prey(r, s) /\ n = handle[r])
    BY <2>1 DEF Holds
  <2>4. KeepsHolds(r, l)
    BY <2>1, <2>2, <2>3 DEF KeepsHolds, Prey
  <2> QED BY <2>4, HoldsKept
<1>8. ASSUME NEW r \in Runs, UnlockOther(r) PROVE Holds'
  <2>1. PICK s \in Runs : Prey(r, s) /\ SetLock(s, handle[r], 0)
    BY <1>8 DEF UnlockOther
  <2>2. UNCHANGED <<tries, handle>> /\ pc[r] = "unlock" /\ pc' = [pc EXCEPT ![r] = "sweep"]
    BY <1>8 DEF UnlockOther
  <2>3. handle[r] \in 1..Tries
    BY <1>0, <2>1, <2>2 DEF Holders
  <2>4. \A q \in Runs, m \in 1..Tries : lock'[q][m] = IF q = s /\ m = handle[r] THEN 0 ELSE lock[q][m]
    BY <2>1, <2>3, LockEffect
  <2>5. ASSUME NEW q \in Runs, NEW m \in 1..Tries, lock'[q][m] = r PROVE q = r /\ m = tries[r]
    <3>1. lock[q][m] = r /\ ~(q = s /\ m = handle[r])
      BY <1>0, <2>4, <2>5
    <3>2. ~(Prey(r, q) /\ m = handle[r])
      BY <2>1, <3>1, PreyUnique
    <3> QED BY <3>1, <3>2 DEF Holds
  <2>6. \A q \in Runs \ {r} : todo'[q].runs = todo[q].runs
    BY <1>8, ListEffects
  <2>7. KeepsHolds(r, "sweep")
    BY <1>0, <2>2, <2>4, <2>5, <2>6 DEF KeepsHolds
  <2> QED BY <2>7, HoldsKept
<1>9. ASSUME NEW r \in Runs, RemoveStaleLog(r) \/ SweepTargets(r) PROVE Holds'
  <2>1. /\ UNCHANGED <<tries, lock, handle>> /\ pc[r] \in {"norun", "sweep", "untemp"}
        /\ \E l \in Sweeping : pc' = [pc EXCEPT ![r] = l]
    BY <1>9 DEF RemoveStaleLog, SweepTargets, SweepTargetLog, TakeForTemp, RemoveTemp, Types
  <2>2. \A q \in Runs \ {r} : todo'[q].runs = todo[q].runs
    BY <1>9, ListEffects
  <2> QED BY <2>1, <2>2, HoldsStay
<1>10. ASSUME NEW r \in Runs, FollowStart(r) \/ Build(r) \/ (Finish(r) /\ ~DropRunLock(r)) PROVE Holds'
  <2>1. /\ UNCHANGED <<tries, lock, handle, todo>> /\ pc[r] \notin Deleting
        /\ \E l \in Holding : pc' = [pc EXCEPT ![r] = l]
    BY <1>10 DEF FollowStart, Build, LockTarget, CreateCapture, CreateTemp, RenameTemp, EndBuild, Finish,
       AppendDone, Join, RemoveOwnLog, RemoveOwnSentinel
  <2> QED BY <2>1, HoldsStay
<1>11. ASSUME NEW r \in Runs, Crash(r) PROVE Holds'
  <2>1. \A s \in Runs, n \in 1..Tries : lock'[s][n] = IF lock[s][n] = r THEN 0 ELSE lock[s][n]
    BY <1>11 DEF Crash
  <2>2. \A s \in Runs, n \in 1..Tries : lock'[s][n] # r
    BY <1>0, <2>1
  <2>3. KeepsHolds(r, "dead")
    BY <1>11, <2>1, <2>2 DEF Crash, KeepsHolds
  <2> QED BY <2>3, HoldsKept
<1>12. CASE UNCHANGED vars
  BY <1>12 DEF vars, Holds, Prey
<1> QED
  BY <1>1, <1>2, <1>3, <1>4, <1>5, <1>6, <1>7, <1>8, <1>9, <1>10, <1>11, <1>12
  DEF Next, Step, Acquire, SweepRuns, Finish

\* Only a listing starts a sweep or rewrites a history.
LEMMA OneMoves ==
  ASSUME Types, NEW r \in Runs, Begin(r) \/ (Step(r) /\ ~List(r)) \/ Crash(r)
  PROVE  prior' = prior /\ \E l : pc' = [pc EXCEPT ![r] = l] /\ (l \in Sweeping => pc[r] \in Sweeping)
<1> USE DEF Goto, run, files
<1>1. CASE Begin(r) \/ Temps(r) \/ Crash(r)
  BY <1>1 DEF Begin, Temps, TakeForCapture, RemoveCapture, Crash, Types
<1>2. CASE Acquire(r)
  BY <1>2 DEF Acquire, CreateSentinel, LockSentinel, Verify, GiveUp, CreateRunLog
<1>3. CASE SweepRuns(r)
  BY <1>3 DEF Step, Begin, Crash, SweepRuns, OpenOther, TryOther, RemoveOtherLog, RemoveOtherSentinel,
     UnlockOther, RemoveStaleLog
<1>4. CASE SweepTargets(r) \/ FollowStart(r)
  BY <1>4 DEF SweepTargets, SweepTargetLog, TakeForTemp, RemoveTemp, FollowStart, Types
<1>5. CASE Build(r)
  BY <1>5 DEF Build, LockTarget, CreateCapture, CreateTemp, RenameTemp, EndBuild
<1>6. CASE Finish(r)
  BY <1>6 DEF Finish, AppendDone, Join, RemoveOwnLog, RemoveOwnSentinel, DropRunLock
<1> QED BY <1>1, <1>2, <1>3, <1>4, <1>5, <1>6 DEF Step

\* Whoever starts a sweep takes its history from all others.
LEMMA SingleStep == Types /\ Single /\ [Next]_vars => Single'
<1> SUFFICES ASSUME Types, Single, [Next]_vars PROVE Single'
  OBVIOUS
<1> USE DEF Goto, run, files
<1>1. ASSUME NEW r \in Runs, List(r) PROVE Single'
  <2>1. /\ \A q \in Runs : pc'[q] = IF q = r THEN "sweep" ELSE pc[q]
        /\ \A q \in Runs : prior'[q] = IF q = r /\ \A p \in Runs : pc[p] \notin Sweeping
                                       THEN {s \in Runs : pc[s] \in Over}
                                       ELSE IF q = r \/ pc[q] \in Sweeping THEN {} ELSE prior[q]
    BY <1>1 DEF List, Types
  <2> QED BY <2>1 DEF Single
<1>2. ASSUME NEW r \in Runs, NEW l, pc' = [pc EXCEPT ![r] = l], prior' = prior, l \in Sweeping => pc[r] \in Sweeping
      PROVE  Single'
  <2>1. \A q \in Runs : pc'[q] = IF q = r THEN l ELSE pc[q]
    BY <1>2 DEF Types
  <2> QED BY <1>2, <2>1 DEF Single
<1>3. CASE UNCHANGED vars
  BY <1>3 DEF vars, Single
<1> QED BY <1>1, <1>2, <1>3, OneMoves DEF Next

LEMMA DropLogs ==
  ASSUME Types, NEW r \in Runs, NEW name
  PROVE  /\ \A field \in {"captures", "runs", "temps"} :
              Drop(r, field, name) => \A q \in Runs : todo'[q].logs = todo[q].logs
         /\ Drop(r, "logs", name) =>
              \A q \in Runs : todo'[q].logs = IF q = r THEN todo[q].logs \ {name} ELSE todo[q].logs
<1>1. todo[r] \in Todos /\ todo \in [Runs -> Todos]
  BY DEF Types
<1>2. ASSUME NEW field \in {"captures", "runs", "temps"}, Drop(r, field, name)
      PROVE  \A q \in Runs : todo'[q].logs = todo[q].logs
  <2>1. todo' = [todo EXCEPT ![r] = [todo[r] EXCEPT ![field] = @ \ {name}]]
    BY <1>1, <1>2 DEF Drop
  <2>2. [todo[r] EXCEPT ![field] = @ \ {name}].logs = todo[r].logs
    BY <1>1, <1>2 DEF Todos
  <2> QED BY <1>1, <2>1, <2>2
<1>3. ASSUME Drop(r, "logs", name)
      PROVE  \A q \in Runs : todo'[q].logs = IF q = r THEN todo[q].logs \ {name} ELSE todo[q].logs
  <2>1. todo' = [todo EXCEPT ![r] = [todo[r] EXCEPT !["logs"] = @ \ {name}]]
    BY <1>1, <1>3 DEF Drop
  <2>2. [todo[r] EXCEPT !["logs"] = @ \ {name}].logs = todo[r].logs \ {name}
    BY <1>1 DEF Todos
  <2> QED BY <1>1, <2>1, <2>2
<1> QED BY <1>2, <1>3

\* What a run that sweeps nothing changes of the others.
LEMMA OwnFilesOnly ==
  ASSUME Types, NEW r \in Runs, Begin(r) \/ (Step(r) /\ ~List(r)) \/ Crash(r), pc[r] \notin Sweeping
  PROVE  /\ prior' = prior /\ pc[r] \notin Over /\ pc'[r] \notin Sweeping
         /\ \A q \in Runs \ {r} :
              /\ pc'[q] = pc[q] /\ todo'[q] = todo[q] /\ sentinel'[q] = sentinel[q]
              /\ q \in log' => q \in log
              /\ \A n \in logs' : n[2] = q => n \in logs
<1> DEFINE Effect ==
      /\ prior' = prior /\ pc[r] \notin Over /\ pc'[r] \notin Sweeping
      /\ \A q \in Runs \ {r} :
           /\ pc'[q] = pc[q] /\ todo'[q] = todo[q] /\ sentinel'[q] = sentinel[q]
           /\ q \in log' => q \in log
           /\ \A n \in logs' : n[2] = q => n \in logs
<1> USE DEF Goto, run, files
<1>1. CASE Begin(r) \/ Temps(r)
  <2>1. /\ UNCHANGED <<prior, sentinel, log, logs>> /\ pc[r] \in {"off", "begin", "uncapture"}
        /\ \E l \in {"begin", "uncapture"} : pc' = [pc EXCEPT ![r] = l]
    BY <1>1 DEF Begin, Temps, TakeForCapture, RemoveCapture, Types
  <2>2. \A q \in Runs \ {r} : todo'[q] = todo[q]
    BY <1>1 DEF Begin, Temps, TakeForCapture, RemoveCapture, Drop, Types
  <2> QED BY <2>1, <2>2 DEF Types
<1>2. CASE Acquire(r)
  <2>1. /\ UNCHANGED <<prior, logs, todo>> /\ pc[r] \in Acquiring \cup {"log"}
        /\ \A q \in Runs \ {r} : sentinel'[q] = sentinel[q]
        /\ log' \subseteq log \cup {r}
        /\ \E l \in Acquiring \cup {"log", "list", "failed"} : pc' = [pc EXCEPT ![r] = l]
    BY <1>2 DEF Acquire, CreateSentinel, LockSentinel, Verify, GiveUp, CreateRunLog, Types
  <2> QED BY <2>1 DEF Types
<1>3. CASE (SweepRuns(r) /\ ~List(r)) \/ SweepTargets(r) \/ FollowStart(r)
  <2>1. pc[r] \in Sweeping
    BY <1>3 DEF SweepRuns, OpenOther, TryOther, RemoveOtherLog, RemoveOtherSentinel,
       UnlockOther, RemoveStaleLog, SweepTargets, SweepTargetLog, TakeForTemp, RemoveTemp, FollowStart
  <2> QED BY <2>1
<1>4. CASE Build(r)
  <2>1. /\ UNCHANGED <<prior, todo, sentinel, log>> /\ pc[r] \in {"build"} \cup Building
        /\ logs' \subseteq logs \cup {<<Goal[r], r>>}
        /\ \E l \in Building \cup {"finish"} : pc' = [pc EXCEPT ![r] = l]
    BY <1>4 DEF Build, LockTarget, CreateCapture, CreateTemp, RenameTemp, EndBuild
  <2> QED BY <2>1 DEF Types
<1>5. CASE Finish(r)
  <2>1. /\ UNCHANGED <<prior, todo>> /\ pc[r] \in {"finish", "join", "rmlog", "rmlock", "drop"}
        /\ \A q \in Runs \ {r} : sentinel'[q] = sentinel[q]
        /\ log' \subseteq log /\ logs' \subseteq logs
        /\ \E l \in {"join", "rmlog", "rmlock", "drop", "ended"} : pc' = [pc EXCEPT ![r] = l]
    BY <1>5 DEF Finish, AppendDone, Join, RemoveOwnLog, RemoveOwnSentinel, DropRunLock, Types
  <2> QED BY <2>1 DEF Types
<1>6. CASE Crash(r)
  <2>1. /\ UNCHANGED <<prior, todo, sentinel, log, logs>> /\ pc[r] \in Live
        /\ pc' = [pc EXCEPT ![r] = "dead"]
    BY <1>6 DEF Crash
  <2> QED BY <2>1 DEF Types
<1> QED BY <1>1, <1>2, <1>3, <1>4, <1>5, <1>6 DEF Step

\* One step of a sweep q about a run s that was over.
LEMMA SweepClears ==
  ASSUME Types, Counts, Holders, Holds, Single, NEW q \in Runs, NEW s \in Runs, s \in prior[q], Cleared(q, s),
         pc[q] \in Sweeping, Step(q), pc'[q] \in Sweeping
  PROVE  Cleared(q, s)'
<1> USE DEF Goto, run, files
<1>0. q # s /\ pc[s] \in Over
  BY DEF Cleared
<1>1. CASE OpenOther(q)
  <2>1. PICK u \in Runs : Prey(q, u) /\ pc' = [pc EXCEPT ![q] = IF sentinel[u] = 0 THEN "norun" ELSE "open"]
    BY <1>1 DEF OpenOther
  <2>2. UNCHANGED <<todo, sentinel, log, logs>>
    BY <1>1 DEF OpenOther
  <2>3. Prey(q, s)' => s = u
    BY <2>1, <2>2, PreyUnique DEF Prey
  <2> QED BY <1>0, <2>1, <2>2, <2>3 DEF Cleared, Types
<1>2. CASE TryOther(q)
  <2>1. PICK u \in Runs :
          /\ Prey(q, u)
          /\ \/ Goto(q, "judged") /\ UNCHANGED todo
             \/ lock[u][handle[q]] # 0 /\ Drop(q, "runs", u) /\ Goto(q, "sweep")
    BY <1>2 DEF TryOther
  <2>2. UNCHANGED <<sentinel, log, logs>> /\ pc[q] = "open"
    BY <1>2 DEF TryOther
  <2>3. CASE Goto(q, "judged") /\ UNCHANGED todo
    BY <1>0, <2>2, <2>3 DEF Cleared, Types, Prey
  <2>4. CASE lock[u][handle[q]] # 0 /\ Drop(q, "runs", u) /\ Goto(q, "sweep")
    <3>1. handle[q] \in 1..Tries
      <4>1. tries[u] \in 0..Tries /\ Tries \in Nat
        BY SweepAssumption DEF Types
      <4>2. handle[q] \in 1..tries[u]
        BY <2>1, <2>2 DEF Holders
      <4> QED BY <4>1, <4>2
    <3>2. lock[u][handle[q]] \in Runs
      <4>1. lock[u] \in [1..Tries -> 0..N]
        BY DEF Types
      <4>2. lock[u][handle[q]] \in 0..N
        BY <3>1, <4>1
      <4> QED BY <2>4, <4>2, SweepAssumption DEF Runs
    <3>3. u # s
      <4>1. SUFFICES ASSUME u = s PROVE FALSE
        OBVIOUS
      <4> DEFINE p == lock[s][handle[q]]
      <4>2. p \in Runs /\ lock[s][handle[q]] = p
        BY <3>2, <4>1
      <4>3. \/ p = s /\ pc[s] \in Holding
            \/ pc[p] \in Deleting
        BY <3>1, <4>2 DEF Holds
      <4>4. pc[p] \in Deleting
        BY <1>0, <4>3 DEF Holding, Verified
      <4>5. p # q /\ pc[p] \in Sweeping
        BY <2>2, <4>4 DEF Deleting
      <4> QED BY <4>2, <4>5 DEF Single
    <3>4. todo'[q].runs = todo[q].runs \ {u} /\ todo'[q].logs = todo[q].logs
      BY <2>4, DropRuns, DropLogs
    <3> QED BY <1>0, <2>2, <2>4, <3>3, <3>4 DEF Cleared, Types
  <2> QED BY <2>1, <2>3, <2>4
<1>3. CASE RemoveOtherLog(q) \/ RemoveOtherSentinel(q)
  <2>1. PICK u \in Runs :
          /\ Prey(q, u) /\ UNCHANGED <<todo, logs>>
          /\ \/ pc' = [pc EXCEPT ![q] = "unlink"] /\ log' = log \ {u} /\ sentinel' = sentinel
             \/ /\ pc[q] = "unlink" /\ pc' = [pc EXCEPT ![q] = "unlock"]
                /\ log' = log /\ sentinel' = [sentinel EXCEPT ![u] = 0]
    BY <1>3 DEF RemoveOtherLog, RemoveOtherSentinel
  <2>2. Prey(q, s)' <=> Prey(q, s)
    BY <2>1 DEF Prey
  <2>3. Prey(q, s) => s = u
    BY <2>1, PreyUnique
  <2>4. sentinel'[s] = 0 \/ sentinel'[s] = sentinel[s]
    BY <2>1 DEF Types
  <2>5. pc'[s] \in Over /\ (s \notin todo'[q].runs => sentinel'[s] = 0 /\ s \notin log')
    BY <1>0, <2>1, <2>4 DEF Cleared, Types
  <2>6. Prey(q, s)' => /\ pc'[q] \in {"norun", "unlock"} => sentinel'[s] = 0
                       /\ pc'[q] \in {"unlink", "unlock"} => s \notin log'
    BY <2>1, <2>2, <2>3 DEF Cleared, Types
  <2> QED BY <2>1, <2>5, <2>6 DEF Cleared
<1>4. CASE UnlockOther(q) \/ RemoveStaleLog(q)
  <2>1. PICK u \in Runs :
          /\ Prey(q, u) /\ Drop(q, "runs", u) /\ pc' = [pc EXCEPT ![q] = "sweep"] /\ UNCHANGED <<sentinel, logs>>
          /\ log' \subseteq log
          /\ pc[q] = "unlock" \/ (pc[q] = "norun" /\ u \notin log')
    BY <1>4 DEF UnlockOther, RemoveStaleLog
  <2>2. todo'[q].runs = todo[q].runs \ {u} /\ todo'[q].logs = todo[q].logs
    BY <2>1, DropRuns, DropLogs
  <2>3. s = u => sentinel[s] = 0 /\ s \notin log'
    BY <2>1 DEF Cleared
  <2> QED BY <1>0, <2>1, <2>2, <2>3 DEF Cleared, Types
<1>5. CASE SweepTargetLog(q)
  <2>1. PICK n \in todo[q].logs : logs' = (IF RunDead(n[2]) THEN logs \ {n} ELSE logs) /\ Drop(q, "logs", n)
    BY <1>5 DEF SweepTargetLog
  <2>2. UNCHANGED <<pc, sentinel, log>> /\ todo[q].runs = {} /\ pc[q] = "sweep"
    BY <1>5 DEF SweepTargetLog
  <2>3. todo'[q].runs = todo[q].runs /\ todo'[q].logs = todo[q].logs \ {n}
    BY <2>1, DropRuns, DropLogs
  <2>4. n[2] = s => logs' = logs \ {n}
    BY <2>1, <2>2 DEF Cleared, RunDead
  <2>5. logs' \subseteq logs
    BY <2>1
  <2> QED BY <2>2, <2>3, <2>4, <2>5 DEF Cleared
<1>6. CASE TakeForTemp(q) \/ RemoveTemp(q)
  <2>1. /\ UNCHANGED <<sentinel, log, logs>>
        /\ todo' = todo \/ \E n : Drop(q, "temps", n)
        /\ \E l \in {"sweep", "untemp"} : pc' = [pc EXCEPT ![q] = l]
    BY <1>6 DEF TakeForTemp, RemoveTemp, Types
  <2>2. todo'[q].runs = todo[q].runs /\ todo'[q].logs = todo[q].logs
    BY <2>1, DropRuns, DropLogs
  <2> QED BY <1>0, <2>1, <2>2 DEF Cleared, Types
<1>7. OpenOther(q) \/ TryOther(q) \/ RemoveOtherLog(q) \/ RemoveOtherSentinel(q) \/ UnlockOther(q)
      \/ RemoveStaleLog(q) \/ SweepTargets(q)
  <2>1. ~(Temps(q) \/ Acquire(q) \/ List(q) \/ Build(q) \/ Finish(q))
    BY DEF Temps, TakeForCapture, RemoveCapture, Acquire, CreateSentinel, LockSentinel, Verify, GiveUp, CreateRunLog,
       List, Build, LockTarget, CreateCapture, CreateTemp, RenameTemp, EndBuild,
       Finish, AppendDone, Join, RemoveOwnLog, RemoveOwnSentinel, DropRunLock
  <2>2. ~FollowStart(q)
    BY DEF FollowStart, Types
  <2> QED BY <2>1, <2>2 DEF Step, SweepRuns
<1> QED BY <1>1, <1>2, <1>3, <1>4, <1>5, <1>6, <1>7 DEF SweepTargets

LEMMA ClearingStep == Types /\ Counts /\ Holders /\ Holds /\ Single /\ Clearing /\ [Next]_vars => Clearing'
<1> SUFFICES ASSUME Types, Counts, Holders, Holds, Single, Clearing, [Next]_vars PROVE Clearing'
  OBVIOUS
<1>1. CASE UNCHANGED vars
  BY <1>1 DEF vars, Clearing, Cleared, Prey
<1>2. ASSUME NEW r \in Runs, List(r) PROVE Clearing'
  <2>1. /\ \A q \in Runs : pc'[q] = IF q = r THEN "sweep" ELSE pc[q]
        /\ \A q \in Runs : prior'[q] = IF q = r /\ \A p \in Runs : pc[p] \notin Sweeping
                                       THEN {s \in Runs : pc[s] \in Over}
                                       ELSE IF q = r \/ pc[q] \in Sweeping THEN {} ELSE prior[q]
        /\ UNCHANGED <<sentinel, log, logs>> /\ pc[r] = "list"
    BY <1>2 DEF List, Goto, Types
  <2>2. r \notin KeepLogs => /\ todo'[r].runs = {s \in Runs \ {r} : sentinel[s] # 0 \/ s \in log}
                             /\ todo'[r].logs = logs
    <3>1. todo \in [Runs -> Todos]
      BY DEF Types
    <3> DEFINE listed == [todo[r] EXCEPT !.runs = {s \in Runs \ {r} : sentinel[s] # 0 \/ s \in log},
                                         !.temps = temps, !.logs = logs]
    <3>2. listed.runs = {s \in Runs \ {r} : sentinel[s] # 0 \/ s \in log} /\ listed.logs = logs
      BY <3>1 DEF Todos
    <3>3. r \notin KeepLogs => todo'[r] = listed
      BY <1>2, <3>1 DEF List
    <3> QED BY <3>2, <3>3
  <2>3. ASSUME NEW q \in Runs \ KeepLogs, pc'[q] \in Sweeping, NEW s \in prior'[q] PROVE Cleared(q, s)'
    <3>1. q = r /\ s \in Runs /\ pc[s] \in Over
      BY <2>1, <2>3
    <3>2. s # r /\ pc'[s] \in Over
      BY <2>1, <3>1
    <3>3. s \notin todo'[q].runs => sentinel'[s] = 0 /\ s \notin log'
      BY <2>1, <2>2, <2>3, <3>1, <3>2
    <3>4. pc'[q] = "sweep" /\ todo'[q].logs = logs'
      BY <2>1, <2>2, <2>3, <3>1
    <3> QED BY <3>2, <3>3, <3>4 DEF Cleared
  <2> QED BY <2>3 DEF Clearing
<1>3. ASSUME NEW r \in Runs, Begin(r) \/ (Step(r) /\ ~List(r)) \/ Crash(r) PROVE Clearing'
  <2>1. SUFFICES ASSUME NEW q \in Runs \ KeepLogs, pc'[q] \in Sweeping, NEW s \in prior'[q] PROVE Cleared(q, s)'
    BY DEF Clearing
  <2>2. prior' = prior /\ (pc'[r] \in Sweeping => pc[r] \in Sweeping) /\ \A p \in Runs \ {r} : pc'[p] = pc[p]
    <3>1. CASE pc[r] \in Sweeping
      <4>1. prior' = prior /\ \E l : pc' = [pc EXCEPT ![r] = l]
        BY <1>3, OneMoves
      <4> QED BY <3>1, <4>1 DEF Types
    <3>2. CASE pc[r] \notin Sweeping
      BY <1>3, <3>2, OwnFilesOnly
    <3> QED BY <3>1, <3>2
  <2>3. pc[q] \in Sweeping /\ s \in prior[q] /\ s \in Runs
    BY <2>1, <2>2 DEF Types
  <2>4. Cleared(q, s)
    BY <2>3 DEF Clearing
  <2>5. CASE r = q
    <3>1. Step(q)
      BY <1>3, <2>1, <2>3, <2>5 DEF Begin, Crash, Goto, Types
    <3> QED BY <2>1, <2>3, <2>4, <3>1, SweepClears
  <2>6. CASE r # q
    <3>1. pc[r] \notin Sweeping
      BY <2>3, <2>6 DEF Single
    <3>2. pc[r] \notin Over /\ s # r
      BY <1>3, <2>4, <3>1, OwnFilesOnly DEF Cleared
    <3>3. /\ pc'[q] = pc[q] /\ todo'[q] = todo[q] /\ pc'[s] = pc[s] /\ sentinel'[s] = sentinel[s]
          /\ s \in log' => s \in log
          /\ \A n \in logs' : n[2] = s => n \in logs
      BY <1>3, <2>3, <2>6, <3>1, <3>2, OwnFilesOnly
    <3>4. Prey(q, s)' <=> Prey(q, s)
      BY <3>3 DEF Prey
    <3> QED BY <2>4, <3>3, <3>4 DEF Cleared
  <2> QED BY <2>5, <2>6
<1> QED BY <1>1, <1>2, <1>3 DEF Next

-----------------------------------------------------------------------------
\* THE THEOREMS

\* What every reachable state has.
Settled ==
  /\ Types /\ Ownership /\ Counts /\ Holders /\ Firsts /\ BuildFilesKept /\ FirstLogs
  /\ Holds /\ Single /\ Clearing

LEMMA SettledInit == Init => Settled
<1> SUFFICES ASSUME Init PROVE Settled
  OBVIOUS
<1>1. Types
  <2>1. Nothing \in Todos
    BY DEF Nothing, Todos
  <2>2. [n \in 1..Tries |-> 0] \in [1..Tries -> 0..N]
    BY RunsAreNumbers
  <2>3. lock \in [Runs -> [1..Tries -> 0..N]] /\ todo \in [Runs -> Todos]
    BY <2>1, <2>2 DEF Init
  <2>4. /\ pc \in [Runs -> Labels] /\ owner \in [Targets -> 0..N] /\ prior \in [Runs -> SUBSET Runs]
        /\ tries \in [Runs -> 0..Tries] /\ sentinel \in [Runs -> 0..Tries] /\ handle \in [Runs -> 0..Tries]
    BY RunsAreNumbers DEF Init
  <2> QED BY <2>3, <2>4 DEF Init, Types
<1>2. \A r \in Runs : pc[r] = "off" /\ tries[r] = 0 /\ sentinel[r] = 0 /\ todo[r].runs = {}
  BY DEF Init, Nothing
<1>3. log = {} /\ \A t \in Targets : owner[t] = 0
  BY DEF Init
<1>4. Ownership
  BY <1>2, <1>3, RunsAreNumbers DEF Ownership
<1>5. Counts
  BY <1>2, <1>3 DEF Counts, Holding, Verified
<1>6. Holders /\ Firsts
  BY <1>2 DEF Holders, Firsts, Holding, Verified, Deleting
<1>7. BuildFilesKept /\ FirstLogs
  BY <1>2 DEF BuildFilesKept, FirstLogs
<1>8. Holds
  <2>1. \A s \in Runs, n \in 1..Tries : lock[s][n] = 0
    BY DEF Init
  <2> QED BY <2>1, RunsAreNumbers DEF Holds
<1>9. Single /\ Clearing
  BY <1>2 DEF Single, Clearing
<1> QED BY <1>1, <1>4, <1>5, <1>6, <1>7, <1>8, <1>9 DEF Settled

\* The inductive invariant of the sweep: owners, holders and files agree.
THEOREM Invariance == Spec => []Settled
<1>1. Settled /\ [Next]_vars => Settled'
  BY TypesStep, OwnershipStep, CountsStep, HoldersStep, FirstsStep, BuildFilesStep, FirstLogsStep,
     HoldsStep, SingleStep, ClearingStep DEF Settled
<1> QED BY <1>1, SettledInit, PTL DEF Spec

\* Each build lock has one holder, who builds or sweeps, however runs begin,
\* sweep, build and die.
THEOREM TypeCorrect == Spec => []TypeOK
<1>1. Settled => TypeOK
  <2> SUFFICES ASSUME Types, Ownership PROVE TypeOK
    BY DEF Settled
  <2>1. ASSUME NEW t \in Targets, owner[t] # 0
        PROVE  \/ pc[owner[t]] \in {"uncapture", "untemp"}
               \/ pc[owner[t]] \in Building /\ Goal[owner[t]] = t
    <3>1. owner[t] \in Runs
      BY <2>1, SweepAssumption DEF Types, Runs
    <3> QED BY <3>1 DEF Ownership
  <2>2. \A r \in Runs : pc[r] \in Building => Goal[r] # None /\ owner[Goal[r]] = r
    BY DEF Ownership
  <2> QED BY <2>1, <2>2 DEF Types, TypeOK
<1> QED BY <1>1, Invariance, PTL

\* No sweep, of any number of runs, deletes the capture or the log temp of a
\* build in progress (gc_temps, gc_logs).
THEOREM BuildsUndisturbed == Spec => []BuildFilesKept
<1>1. Settled => BuildFilesKept
  BY DEF Settled
<1> QED BY <1>1, Invariance, PTL

\* A run whose first sentinel stood keeps its sentinel, its run log and its
\* target's log until it is done with them (acquire_run_lock, gc_logs).
THEOREM FirstTrySafe == Spec => []FirstTryKept
<1>1. Settled => FirstTryKept
  <2> SUFFICES ASSUME Settled, NEW r \in Runs, tries[r] = 1 PROVE Kept(r)
    BY DEF FirstTryKept
  <2>1. pc[r] \in Working \cup {"rmlog", "rmlock"} => sentinel[r] = 1 /\ lock[r][1] = r
    BY DEF Settled, Firsts, Holders, Verified, Holding
  <2> QED BY <2>1 DEF Settled, FirstLogs, Kept
<1> QED BY <1>1, Invariance, PTL

\* A sweep that no other runs beside leaves nothing behind of any run that was
\* over when it listed the logs, wherever that run died (gc_logs).
THEOREM LeftoversGone == Spec => NothingLeft
<1>1. Settled /\ [Next]_vars =>
        \A r \in Runs : FollowStart(r) /\ r \notin KeepLogs =>
          \A s \in prior[r] : sentinel[s] = 0 /\ s \notin log /\ \A n \in logs : n[2] # s
  <2> SUFFICES ASSUME Settled, NEW r \in Runs, FollowStart(r), r \notin KeepLogs, NEW s \in prior[r]
               PROVE  sentinel[s] = 0 /\ s \notin log /\ \A n \in logs : n[2] # s
    OBVIOUS
  <2>1. pc[r] = "sweep" /\ todo[r].runs = {} /\ todo[r].logs = {}
    BY DEF FollowStart, Nothing
  <2>2. Cleared(r, s)
    BY <2>1 DEF Settled, Clearing
  <2> QED BY <2>1, <2>2 DEF Cleared
<1> QED BY <1>1, Invariance, PTL DEF Spec, NothingLeft
=============================================================================
