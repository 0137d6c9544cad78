------------------------------ MODULE LogSweep ------------------------------
(***************************************************************************)
(* The files top-level runs share in .redo/logs and .redo/tmp, and who may *)
(* delete them: redo(), acquire_run_lock, gc_temps and the file protocol   *)
(* of build_inner in src/src/build.rs, gc_logs in src/src/logs.rs,         *)
(* try_lock_key and same_file in src/src/lock.rs.                          *)
(*                                                                         *)
(* A run proves that it lives by a kernel lock on its sentinel             *)
(* run.<s>.lock; every run, when it starts, sweeps away what runs without  *)
(* one have left.  A kernel lock is on a file, not on its path: the        *)
(* sentinel of a run is known by the number of the attempt that created    *)
(* it, and a handle that is open outlives the path.  A run builds at most  *)
(* one target here; RunLog has the follower and what it reads.             *)
(***************************************************************************)
EXTENDS Naturals

CONSTANTS
  N,         \* how many top-level runs there are
  Targets,   \* the targets they build
  Goal,      \* the target each run builds, or None
  Tries,     \* the attempts of acquire_run_lock (32 in the code)
  MayCrash,  \* the runs that may be killed
  KeepLogs,  \* the runs with REDO_KEEP_LOGS=1
  None

\* Runs are named by their number (next_runid); 0 is nobody.
Runs == 1..N

ASSUME SweepAssumption ==
  /\ N \in Nat /\ Tries \in Nat \ {0}
  /\ None \notin Targets
  /\ Goal \in [Runs -> Targets \cup {None}]
  /\ MayCrash \subseteq Runs /\ KeepLogs \subseteq Runs

VARIABLES
  pc,        \* where each run is
  tries,     \* the sentinels a run has created
  sentinel,  \* the one its sentinel's path names, 0 if none
  lock,      \* who holds the kernel lock on each sentinel ever created
  log,       \* the runs whose run log is at its path
  said,      \* the runs whose run log ends in `done'
  reads,     \* the runs whose follower opened the run log
  owner,     \* who holds each target's build lock
  capture,   \* the targets whose stdout capture exists
  temps,     \* the log temps, by target and run
  logs,      \* the target logs, by target and run
  todo,      \* the names a run's sweep has still to look at
  handle,    \* the sentinel its sweep has open
  prior      \* history: the runs that were over when a sweep listed the
             \* logs, as long as no other sweep ran beside it

run == <<pc, tries, said, reads>>
files == <<sentinel, log, capture, temps, logs>>
vars == <<pc, tries, sentinel, lock, log, said, reads, owner, capture, temps, logs, todo, handle, prior>>

Acquiring == {"begin", "uncapture", "made", "locked"}
Sweeping == {"sweep", "open", "judged", "norun", "unlink", "unlock", "untemp"}
Building == {"capture", "temp", "rename", "run", "close"}
\* From the creation of the run log to the join.
Working == {"list"} \cup Sweeping \cup {"build"} \cup Building \cup {"finish", "join"}
Live == Acquiring \cup {"log"} \cup Working \cup {"rmlog", "rmlock", "drop"}
Over == {"ended", "dead", "failed"}
Nothing == [captures |-> {}, runs |-> {}, temps |-> {}, logs |-> {}]
Todos == [captures : SUBSET Targets, runs : SUBSET Runs,
          temps : SUBSET (Targets \X Runs), logs : SUBSET (Targets \X Runs)]

\* The last three conjuncts are what try_lock_key must keep: one holder for
\* each lock, a builder or a sweeper.
TypeOK ==
  /\ pc \in [Runs -> {"off"} \cup Live \cup Over]
  /\ tries \in [Runs -> 0..Tries] /\ sentinel \in [Runs -> 0..Tries]
  /\ lock \in [Runs -> [1..Tries -> 0..N]]
  /\ log \subseteq Runs /\ said \subseteq Runs /\ reads \subseteq Runs
  /\ owner \in [Targets -> 0..N]
  /\ capture \subseteq Targets
  /\ temps \subseteq Targets \X Runs /\ logs \subseteq Targets \X Runs
  /\ todo \in [Runs -> Todos] /\ handle \in [Runs -> 0..Tries]
  /\ prior \in [Runs -> SUBSET Runs]
  /\ \A r \in Runs : pc[r] \in Building => Goal[r] # None /\ owner[Goal[r]] = r
  /\ \A t \in Targets : owner[t] # 0 =>
       \/ pc[owner[t]] \in {"uncapture", "untemp"}
       \/ pc[owner[t]] \in Building /\ Goal[owner[t]] = t

Init ==
  /\ pc = [r \in Runs |-> "off"]
  /\ tries = [r \in Runs |-> 0] /\ sentinel = [r \in Runs |-> 0]
  /\ lock = [r \in Runs |-> [n \in 1..Tries |-> 0]]
  /\ log = {} /\ said = {} /\ reads = {}
  /\ owner = [t \in Targets |-> 0]
  /\ capture = {} /\ temps = {} /\ logs = {}
  /\ todo = [r \in Runs |-> Nothing]
  /\ handle = [r \in Runs |-> 0]
  /\ prior = [r \in Runs |-> {}]

Goto(r, label) == pc' = [pc EXCEPT ![r] = label]
SetLock(s, n, r) == lock' = [lock EXCEPT ![s][n] = r]
Own(t, r) == owner' = [owner EXCEPT ![t] = r]
Drop(r, field, name) == todo' = [todo EXCEPT ![r][field] = @ \ {name}]

-----------------------------------------------------------------------------
\* GC_TEMPS: captures, each under its target's lock

\* Ctx::top_level takes the next run number; gc_temps lists the captures.
Begin(r) ==
  /\ pc[r] = "off" /\ \A s \in 1..r-1 : pc[s] # "off"
  /\ todo' = [todo EXCEPT ![r].captures = capture]
  /\ Goto(r, "begin")
  /\ UNCHANGED <<tries, sentinel, lock, log, said, reads, owner, capture, temps, logs, handle, prior>>

\* Mutant: captures are deleted unconditionally, as they once were.
TakeUnlocked(r) ==
  /\ pc[r] = "begin"
  /\ \E t \in todo[r].captures : capture' = capture \ {t} /\ Drop(r, "captures", t)
  /\ UNCHANGED <<pc, tries, sentinel, lock, log, said, reads, owner, temps, logs, handle, prior>>

\* try_lock_key: a capture whose target is being built is left alone.
TakeForCapture(r) ==
  /\ pc[r] = "begin"
  /\ \E t \in todo[r].captures :
       \/ owner[t] = 0 /\ Own(t, r) /\ Goto(r, "uncapture") /\ UNCHANGED todo
       \/ owner[t] # 0 /\ Drop(r, "captures", t) /\ UNCHANGED <<pc, owner>>
  /\ UNCHANGED <<tries, sentinel, lock, log, said, reads, capture, temps, logs, handle, prior>>

RemoveCapture(r) ==
  /\ pc[r] = "uncapture"
  /\ \E t \in todo[r].captures :
       owner[t] = r /\ capture' = capture \ {t} /\ Own(t, 0) /\ Drop(r, "captures", t)
  /\ Goto(r, "begin")
  /\ UNCHANGED <<tries, sentinel, lock, log, said, reads, temps, logs, handle, prior>>

-----------------------------------------------------------------------------
\* ACQUIRE_RUN_LOCK: create, lock, look again

\* open with create: the path is free, only this run creates it.
CreateSentinel(r) ==
  /\ pc[r] = "begin" /\ todo[r].captures = {} /\ tries[r] < Tries
  /\ tries' = [tries EXCEPT ![r] = @ + 1]
  /\ sentinel' = [sentinel EXCEPT ![r] = tries[r] + 1]
  /\ Goto(r, "made")
  /\ UNCHANGED <<lock, log, said, reads, owner, capture, temps, logs, todo, handle, prior>>

\* lock_exclusive blocks while a sweeper holds the file's lock.
LockSentinel(r) ==
  /\ pc[r] = "made" /\ lock[r][tries[r]] = 0
  /\ SetLock(r, tries[r], r)
  /\ Goto(r, "locked")
  /\ UNCHANGED <<tries, sentinel, log, said, reads, owner, capture, temps, logs, todo, handle, prior>>

\* Mutant: the lock alone is taken for proof.
VerifyNothing(r) ==
  /\ pc[r] = "locked"
  /\ Goto(r, "log")
  /\ UNCHANGED <<tries, said, reads, files, lock, owner, todo, handle, prior>>

\* same_file: does the path still name the file that is locked?
Verify(r) ==
  /\ pc[r] = "locked"
  /\ \/ sentinel[r] = tries[r] /\ Goto(r, "log") /\ UNCHANGED lock
     \/ sentinel[r] # tries[r] /\ Goto(r, "begin") /\ SetLock(r, tries[r], 0)
  /\ UNCHANGED <<tries, said, reads, files, owner, todo, handle, prior>>

\* "could not establish the run lock"
GiveUp(r) ==
  /\ pc[r] = "begin" /\ todo[r].captures = {} /\ tries[r] = Tries
  /\ Goto(r, "failed")
  /\ UNCHANGED <<tries, said, reads, files, lock, owner, todo, handle, prior>>

CreateRunLog(r) ==
  /\ pc[r] = "log"
  /\ log' = log \cup {r}
  /\ Goto(r, "list")
  /\ UNCHANGED <<tries, sentinel, lock, said, reads, owner, capture, temps, logs, todo, handle, prior>>

-----------------------------------------------------------------------------
\* GC_LOGS: dead runs first, then target logs and log temps

\* The listing.  With REDO_KEEP_LOGS nothing is swept.
List(r) ==
  /\ pc[r] = "list"
  /\ todo' = IF r \in KeepLogs THEN todo
             ELSE [todo EXCEPT ![r].runs = {s \in Runs \ {r} : sentinel[s] # 0 \/ s \in log},
                               ![r].temps = temps, ![r].logs = logs]
  /\ prior' = [q \in Runs |->
                 IF q = r /\ \A p \in Runs : pc[p] \notin Sweeping
                 THEN {s \in Runs : pc[s] \in Over}
                 ELSE IF q = r \/ pc[q] \in Sweeping THEN {} ELSE prior[q]]
  /\ Goto(r, "sweep")
  /\ UNCHANGED <<tries, sentinel, lock, log, said, reads, owner, capture, temps, logs, handle>>

\* The run the sweep is at: they are sorted.
Prey(r, s) == s \in todo[r].runs /\ \A q \in todo[r].runs : s <= q

OpenOther(r) ==
  /\ pc[r] = "sweep"
  /\ \E s \in Runs :
       /\ Prey(r, s)
       /\ handle' = [handle EXCEPT ![r] = sentinel[s]]
       /\ Goto(r, IF sentinel[s] = 0 THEN "norun" ELSE "open")
  /\ UNCHANGED <<tries, sentinel, lock, log, said, reads, owner, capture, temps, logs, todo, prior>>

\* try_lock_exclusive on whatever file was opened.
TryOther(r) ==
  /\ pc[r] = "open"
  /\ \E s \in Runs :
       /\ Prey(r, s)
       /\ \/ /\ lock[s][handle[r]] = 0
             /\ SetLock(s, handle[r], r) /\ Goto(r, "judged") /\ UNCHANGED todo
          \/ /\ lock[s][handle[r]] # 0
             /\ Drop(r, "runs", s) /\ Goto(r, "sweep") /\ UNCHANGED lock
  /\ UNCHANGED <<tries, sentinel, log, said, reads, owner, capture, temps, logs, handle, prior>>

RemoveOtherLog(r) ==
  /\ pc[r] = "judged"
  /\ \E s \in Runs : Prey(r, s) /\ log' = log \ {s}
  /\ Goto(r, "unlink")
  /\ UNCHANGED <<tries, sentinel, lock, said, reads, owner, capture, temps, logs, todo, handle, prior>>

\* remove_file takes the path, whatever file it names by now.
RemoveOtherSentinel(r) ==
  /\ pc[r] = "unlink"
  /\ \E s \in Runs : Prey(r, s) /\ sentinel' = [sentinel EXCEPT ![s] = 0]
  /\ Goto(r, "unlock")
  /\ UNCHANGED <<tries, lock, log, said, reads, owner, capture, temps, logs, todo, handle, prior>>

UnlockOther(r) ==
  /\ pc[r] = "unlock"
  /\ \E s \in Runs : Prey(r, s) /\ SetLock(s, handle[r], 0) /\ Drop(r, "runs", s)
  /\ Goto(r, "sweep")
  /\ UNCHANGED <<tries, sentinel, log, said, reads, owner, capture, temps, logs, handle, prior>>

\* Mutant: a run log without a sentinel is left where it is.
LeaveStaleLog(r) ==
  /\ pc[r] = "norun"
  /\ \E s \in Runs : Prey(r, s) /\ Drop(r, "runs", s)
  /\ Goto(r, "sweep")
  /\ UNCHANGED <<tries, sentinel, lock, log, said, reads, owner, capture, temps, logs, handle, prior>>

\* No sentinel: "the run is gone".
RemoveStaleLog(r) ==
  /\ pc[r] = "norun"
  /\ \E s \in Runs : Prey(r, s) /\ log' = log \ {s} /\ Drop(r, "runs", s)
  /\ Goto(r, "sweep")
  /\ UNCHANGED <<tries, sentinel, lock, said, reads, owner, capture, temps, logs, handle, prior>>

\* lock_file_is_free: a missing sentinel has no holder.
RunDead(s) == sentinel[s] = 0 \/ lock[s][sentinel[s]] = 0

\* A target log goes with its run.  The probe and the delete are one step: a
\* run is never live again once its logs are listed and the probe says dead.
SweepTargetLog(r) ==
  /\ pc[r] = "sweep" /\ todo[r].runs = {}
  /\ \E n \in todo[r].logs :
       /\ logs' = IF RunDead(n[2]) THEN logs \ {n} ELSE logs
       /\ Drop(r, "logs", n)
  /\ UNCHANGED <<pc, tries, sentinel, lock, log, said, reads, owner, capture, temps, handle, prior>>

\* A log temp, under its target's lock.
TakeForTemp(r) ==
  /\ pc[r] = "sweep" /\ todo[r].runs = {}
  /\ \E n \in todo[r].temps :
       \/ owner[n[1]] = 0 /\ Own(n[1], r) /\ Goto(r, "untemp") /\ UNCHANGED todo
       \/ owner[n[1]] # 0 /\ Drop(r, "temps", n) /\ UNCHANGED <<pc, owner>>
  /\ UNCHANGED <<tries, sentinel, lock, log, said, reads, capture, temps, logs, handle, prior>>

RemoveTemp(r) ==
  /\ pc[r] = "untemp"
  /\ \E n \in todo[r].temps :
       owner[n[1]] = r /\ temps' = temps \ {n} /\ Own(n[1], 0) /\ Drop(r, "temps", n)
  /\ Goto(r, "sweep")
  /\ UNCHANGED <<tries, sentinel, lock, log, said, reads, capture, logs, handle, prior>>

-----------------------------------------------------------------------------
\* THE RUN: follower, one build, epilogue

\* follow_run: without the run log there is nothing to follow.
FollowStart(r) ==
  /\ pc[r] = "sweep" /\ todo[r] = Nothing
  /\ reads' = IF r \in log THEN reads \cup {r} ELSE reads
  /\ Goto(r, IF Goal[r] = None THEN "finish" ELSE "build")
  /\ UNCHANGED <<tries, said, files, lock, owner, todo, handle, prior>>

LockTarget(r) ==
  /\ pc[r] = "build" /\ owner[Goal[r]] = 0
  /\ Own(Goal[r], r)
  /\ Goto(r, "capture")
  /\ UNCHANGED <<tries, said, reads, files, lock, todo, handle, prior>>

CreateCapture(r) ==
  /\ pc[r] = "capture"
  /\ capture' = capture \cup {Goal[r]}
  /\ Goto(r, "temp")
  /\ UNCHANGED <<tries, sentinel, lock, log, said, reads, owner, temps, logs, todo, handle, prior>>

\* create_log: temp, then rename.
CreateTemp(r) ==
  /\ pc[r] = "temp"
  /\ temps' = temps \cup {<<Goal[r], r>>}
  /\ Goto(r, "rename")
  /\ UNCHANGED <<tries, sentinel, lock, log, said, reads, owner, capture, logs, todo, handle, prior>>

RenameTemp(r) ==
  /\ pc[r] = "rename"
  /\ temps' = temps \ {<<Goal[r], r>>}
  /\ logs' = IF <<Goal[r], r>> \in temps THEN logs \cup {<<Goal[r], r>>} ELSE logs
  /\ Goto(r, IF <<Goal[r], r>> \in temps THEN "run" ELSE "close")
  /\ UNCHANGED <<tries, sentinel, lock, log, said, reads, owner, capture, todo, handle, prior>>

\* Mutant: the build lock is kept until the process ends.
EndBuildHolding(r) ==
  /\ pc[r] \in {"run", "close"}
  /\ capture' = capture \ {Goal[r]}
  /\ Goto(r, "finish")
  /\ UNCHANGED <<tries, sentinel, lock, log, said, reads, owner, temps, logs, todo, handle, prior>>

\* The do-file has run and the capture was looked at; TempGuard removes it,
\* then build() releases the lock.
EndBuild(r) ==
  /\ pc[r] \in {"run", "close"}
  /\ capture' = capture \ {Goal[r]}
  /\ Own(Goal[r], 0)
  /\ Goto(r, "finish")
  /\ UNCHANGED <<tries, sentinel, lock, log, said, reads, temps, logs, todo, handle, prior>>

\* Mutant: the run log is removed before `done' is appended to it.
AppendTooLate(r) ==
  /\ pc[r] = "finish"
  /\ log' = log \ {r}
  /\ Goto(r, "join")
  /\ UNCHANGED <<tries, sentinel, lock, said, reads, owner, capture, temps, logs, todo, handle, prior>>

\* event_append opens the path; if there is no file the event is lost.
AppendDone(r) ==
  /\ pc[r] = "finish"
  /\ said' = IF r \in log THEN said \cup {r} ELSE said
  /\ Goto(r, "join")
  /\ UNCHANGED <<tries, reads, files, lock, owner, todo, handle, prior>>

\* The follower ends when it has read `done'; it has removed the target's
\* log by then.
Join(r) ==
  /\ pc[r] = "join" /\ (r \in reads => r \in said)
  /\ logs' = IF r \in KeepLogs \/ r \notin reads THEN logs ELSE logs \ (Targets \X {r})
  /\ Goto(r, "rmlog")
  /\ UNCHANGED <<tries, sentinel, lock, log, said, reads, owner, capture, temps, todo, handle, prior>>

RemoveOwnLog(r) ==
  /\ pc[r] = "rmlog"
  /\ log' = IF r \in KeepLogs THEN log ELSE log \ {r}
  /\ Goto(r, "rmlock")
  /\ UNCHANGED <<tries, sentinel, lock, said, reads, owner, capture, temps, logs, todo, handle, prior>>

RemoveOwnSentinel(r) ==
  /\ pc[r] = "rmlock"
  /\ sentinel' = [sentinel EXCEPT ![r] = 0]
  /\ Goto(r, "drop")
  /\ UNCHANGED <<tries, lock, log, said, reads, owner, capture, temps, logs, todo, handle, prior>>

DropRunLock(r) ==
  /\ pc[r] = "drop"
  /\ SetLock(r, tries[r], 0)
  /\ Goto(r, "ended")
  /\ UNCHANGED <<tries, said, reads, files, owner, todo, handle, prior>>

\* A run is killed: the kernel drops its locks, its files stay.
Crash(r) ==
  /\ r \in MayCrash /\ pc[r] \in Live
  /\ Goto(r, "dead")
  /\ lock' = [s \in Runs |-> [n \in 1..Tries |-> IF lock[s][n] = r THEN 0 ELSE lock[s][n]]]
  /\ owner' = [t \in Targets |-> IF owner[t] = r THEN 0 ELSE owner[t]]
  /\ UNCHANGED <<tries, said, reads, files, todo, handle, prior>>

Temps(r) == TakeForCapture(r) \/ RemoveCapture(r)
Acquire(r) == CreateSentinel(r) \/ LockSentinel(r) \/ Verify(r) \/ GiveUp(r) \/ CreateRunLog(r)
SweepRuns(r) ==
  \/ List(r) \/ OpenOther(r) \/ TryOther(r) \/ RemoveOtherLog(r)
  \/ RemoveOtherSentinel(r) \/ UnlockOther(r) \/ RemoveStaleLog(r)
SweepTargets(r) == SweepTargetLog(r) \/ TakeForTemp(r) \/ RemoveTemp(r)
Build(r) ==
  \/ LockTarget(r) \/ CreateCapture(r) \/ CreateTemp(r) \/ RenameTemp(r) \/ EndBuild(r)
Finish(r) ==
  AppendDone(r) \/ Join(r) \/ RemoveOwnLog(r) \/ RemoveOwnSentinel(r) \/ DropRunLock(r)
Step(r) ==
  Temps(r) \/ Acquire(r) \/ SweepRuns(r) \/ SweepTargets(r) \/ FollowStart(r) \/ Build(r) \/ Finish(r)

Next == \E r \in Runs : Begin(r) \/ Step(r) \/ Crash(r)

Spec == Init /\ [][Next]_vars

\* A run that has begun is scheduled, and flock wakes a waiter.
FairSpec == Spec /\ \A r \in Runs : WF_vars(Step(r))

-----------------------------------------------------------------------------
\* PROPERTIES

\* A run's files: what it needs until it is done with them.
Kept(r) ==
  /\ pc[r] \in Working \cup {"rmlog", "rmlock"} => sentinel[r] = tries[r] /\ lock[r][tries[r]] = r
  /\ pc[r] \in Working \cup {"rmlog"} => r \in log
  /\ pc[r] \in {"run", "close", "finish", "join"} /\ Goal[r] # None => <<Goal[r], r>> \in logs

\* "A live run keeps its sentinel locked from creation to exit and verifies,
\* after locking, that the sentinel is still on disk ... so `sentinel gone'
\* really means `run gone'": no sweep deletes a live run's files.
LiveRunKept == \A r \in Runs : Kept(r)

\* As much of this as the code achieves against any number of sweeps: a run
\* whose first sentinel stood keeps its files.
FirstTryKept == \A r \in Runs : tries[r] = 1 => Kept(r)

\* No sweep deletes the capture or the log temp of a build in progress: "a
\* live build holds that lock for as long as its capture exists" (gc_temps).
BuildFilesKept ==
  \A r \in Runs :
    /\ pc[r] \in {"temp", "rename", "run", "close"} => Goal[r] \in capture
    /\ pc[r] = "rename" => <<Goal[r], r>> \in temps

\* What a dead run left behind does not survive the next sweep, wherever it
\* died and whether or not its sentinel is still there (gc_logs).
NothingLeft ==
  [][\A r \in Runs : FollowStart(r) /\ r \notin KeepLogs =>
       \A s \in prior[r] : sentinel[s] = 0 /\ s \notin log /\ \A n \in logs : n[2] # s]_vars

\* Every run ends, unless its sentinel was swept once: then a sweep may have
\* taken its log as well, and the join waits for a `done' nobody can write.
Termination == \A r \in Runs : pc[r] \in Live ~> pc[r] \in Over \/ tries[r] > 1
=============================================================================
