----------------------------- MODULE JobTokens -----------------------------
(***************************************************************************)
(* The -j limit.  A call is a redo or redo-ifchange process that builds a  *)
(* group of targets (run_parallel in src/src/build.rs), a job is one       *)
(* target of a group; the job's do-file makes further calls.  Every call   *)
(* has a token of its own and takes others from a pool that the whole tree *)
(* of processes shares (src/src/jobserver.rs).                             *)
(*                                                                         *)
(* Which targets of a group are out of date is not modelled: a job whose   *)
(* target is up to date makes no call and ends.                            *)
(***************************************************************************)
EXTENDS Integers, FiniteSets

CONSTANTS
  Jobs, Calls,
  Root,        \* the call of the command line
  CallOf,      \* the call that builds each job
  JobOf,       \* the job whose do-file makes each call but Root
  J,           \* -j
  Background,  \* jobs whose do-files make calls at the same time
  MayFail,     \* calls that may be killed or fail to open a worker's database
  None

ASSUME TreeAssumption ==
  /\ IsFiniteSet(Jobs) /\ IsFiniteSet(Calls) /\ Root \in Calls
  /\ CallOf \in [Jobs -> Calls] /\ JobOf \in [Calls \ {Root} -> Jobs]
  /\ J \in Nat \ {0}
  /\ Background \subseteq Jobs /\ MayFail \subseteq Calls
  /\ None \notin {"Own", "Pool"}

VARIABLES
  pc,     \* the scheduler of each call: in its launch loop, waiting, over
  own,    \* own_in_use
  err,    \* first_err is set
  job,    \* each job: queued, busy, or its result
  src,    \* the token it was launched with, until the call has its result
  pool,   \* bytes in the pipe
  gone,   \* history: the calls that were killed or ended with an error of their own
  lost    \* history: pool tokens gone with them

vars == <<pc, own, err, job, src, pool, gone, lost>>

Open == {"launch", "wait"}
Over == {"ok", "failed"}

\* Every value has its type, and a call's own token is in use while, and only
\* while, one of its jobs holds it.
TypeOK ==
  /\ pc \in [Calls -> {"new"} \cup Open \cup Over]
  /\ own \in [Calls -> BOOLEAN] /\ err \in [Calls -> BOOLEAN]
  /\ job \in [Jobs -> {"queued", "busy"} \cup Over]
  /\ src \in [Jobs -> {None, "Own", "Pool"}]
  /\ pool \in Nat /\ lost \in Nat /\ gone \subseteq Calls
  /\ \A c \in Calls \ gone : own[c] <=> \E j \in Jobs : CallOf[j] = c /\ src[j] = "Own"
  /\ \A i, j \in Jobs : CallOf[i] = CallOf[j] /\ src[i] = "Own" /\ src[j] = "Own" => i = j

Init ==
  /\ pc = [c \in Calls |-> IF c = Root THEN "launch" ELSE "new"]
  /\ own = [c \in Calls |-> FALSE] /\ err = [c \in Calls |-> FALSE]
  /\ job = [j \in Jobs |-> "queued"]
  /\ src = [j \in Jobs |-> None]
  /\ pool = J - 1
  /\ gone = {} /\ lost = 0

Queued(c) == {j \in Jobs : CallOf[j] = c /\ job[j] = "queued"}
Running(c) == {j \in Jobs : CallOf[j] = c /\ src[j] # None}
OpenCalls(j) == {c \in Calls \ {Root} : JobOf[c] = j /\ pc[c] \in Open}
ToLaunch(c) == Queued(c) # {} /\ ~err[c]
history == <<gone, lost>>

\* A do-file makes a call: it waits for it, unless it runs calls side by side.
Start(c) ==
  /\ c # Root /\ pc[c] = "new" /\ job[JobOf[c]] = "busy"
  /\ OpenCalls(JobOf[c]) = {} \/ JobOf[c] \in Background
  /\ pc' = [pc EXCEPT ![c] = "launch"]
  /\ UNCHANGED <<own, err, job, src, pool, history>>

\* A do-file ends when its calls have.
Finish(j) ==
  /\ job[j] = "busy" /\ OpenCalls(j) = {}
  /\ \E result \in Over : job' = [job EXCEPT ![j] = result]
  /\ UNCHANGED <<pc, own, err, src, pool, history>>

-----------------------------------------------------------------------------
TryAcquire == pool > 0 /\ pool' = pool - 1
Release == pool' = pool + 1

Spawn(j, token) ==
  /\ job' = [job EXCEPT ![j] = "busy"]
  /\ src' = [src EXCEPT ![j] = token]
  /\ UNCHANGED <<pc, err, history>>

\* Mutant: a call has no token of its own.
LaunchFromPool(c, j) ==
  /\ pc[c] = "launch" /\ ~err[c] /\ j \in Queued(c) /\ ~own[c] /\ pool > 0
  /\ own' = [own EXCEPT ![c] = TRUE]
  /\ Spawn(j, "Own")
  /\ UNCHANGED pool

\* The first job, and any when the own token is back, needs no other.
LaunchOwn(c, j) ==
  /\ pc[c] = "launch" /\ ~err[c] /\ j \in Queued(c) /\ ~own[c]
  /\ own' = [own EXCEPT ![c] = TRUE]
  /\ Spawn(j, "Own")
  /\ UNCHANGED pool

\* Mutant: the token stays in the pool.
LaunchForFree(c, j) ==
  /\ pc[c] = "launch" /\ ~err[c] /\ j \in Queued(c) /\ own[c]
  /\ pool > 0
  /\ Spawn(j, "Pool")
  /\ UNCHANGED <<own, pool>>

LaunchPool(c, j) ==
  /\ pc[c] = "launch" /\ ~err[c] /\ j \in Queued(c) /\ own[c]
  /\ TryAcquire
  /\ Spawn(j, "Pool")
  /\ UNCHANGED own

\* No token, or nothing to launch any more: wait for a job.
Wait(c) ==
  /\ pc[c] = "launch"
  /\ ToLaunch(c) => own[c] /\ pool = 0
  /\ Running(c) # {}
  /\ pc' = [pc EXCEPT ![c] = "wait"]
  /\ UNCHANGED <<own, err, job, src, pool, history>>

\* Mutant: the pool is not asked again before one of the call's jobs ends.
TimeoutNever(c) ==
  /\ pc[c] = "wait" /\ FALSE
  /\ pc' = [pc EXCEPT ![c] = "launch"]
  /\ UNCHANGED <<own, err, job, src, pool, history>>

\* recv_timeout, while jobs are queued and no result has come.
Timeout(c) ==
  /\ pc[c] = "wait" /\ ToLaunch(c)
  /\ \A j \in Running(c) : job[j] = "busy"
  /\ pc' = [pc EXCEPT ![c] = "launch"]
  /\ UNCHANGED <<own, err, job, src, pool, history>>

\* Mutant: the own token is taken for used up.
ReapKeepingOwn(c, j) ==
  /\ pc[c] = "wait" /\ j \in Running(c) /\ job[j] \in Over
  /\ src' = [src EXCEPT ![j] = None]
  /\ IF src[j] = "Pool" THEN Release ELSE UNCHANGED pool
  /\ err' = [err EXCEPT ![c] = @ \/ job[j] = "failed"]
  /\ pc' = [pc EXCEPT ![c] = "launch"]
  /\ UNCHANGED <<own, job, history>>

\* Mutant: every token goes to the pool.
ReapToPool(c, j) ==
  /\ pc[c] = "wait" /\ j \in Running(c) /\ job[j] \in Over
  /\ src' = [src EXCEPT ![j] = None]
  /\ own' = [own EXCEPT ![c] = @ /\ src[j] # "Own"]
  /\ Release
  /\ err' = [err EXCEPT ![c] = @ \/ job[j] = "failed"]
  /\ pc' = [pc EXCEPT ![c] = "launch"]
  /\ UNCHANGED <<job, history>>

\* A result is received and its token reclaimed.
Reap(c, j) ==
  /\ pc[c] = "wait" /\ j \in Running(c) /\ job[j] \in Over
  /\ src' = [src EXCEPT ![j] = None]
  /\ own' = [own EXCEPT ![c] = @ /\ src[j] # "Own"]
  /\ IF src[j] = "Pool" THEN Release ELSE UNCHANGED pool
  /\ err' = [err EXCEPT ![c] = @ \/ job[j] = "failed"]
  /\ pc' = [pc EXCEPT ![c] = "launch"]
  /\ UNCHANGED <<job, history>>

\* Mutant: the first error ends the call.
ReturnAtOnce(c) ==
  /\ pc[c] = "launch" /\ ~ToLaunch(c) /\ (err[c] \/ Running(c) = {})
  /\ pc' = [pc EXCEPT ![c] = IF err[c] THEN "failed" ELSE "ok"]
  /\ UNCHANGED <<own, err, job, src, pool, history>>

Return(c) ==
  /\ pc[c] = "launch" /\ ~ToLaunch(c) /\ Running(c) = {}
  /\ pc' = [pc EXCEPT ![c] = IF err[c] THEN "failed" ELSE "ok"]
  /\ UNCHANGED <<own, err, job, src, pool, history>>

\* The call is gone with `taken` and the tokens of its jobs, whose do-files run
\* on with nobody to wait for them.
Lose(c, taken) ==
  /\ lost' = lost + taken + Cardinality({j \in Running(c) : src[j] = "Pool"})
  /\ gone' = gone \cup {c}
  /\ pc' = [pc EXCEPT ![c] = "failed"]
  /\ UNCHANGED <<own, err, job, src>>

\* child_for_thread fails, the next token in hand: the call ends at once.
Abandon(c) ==
  /\ c \in MayFail /\ pc[c] = "launch" /\ ToLaunch(c)
  /\ \/ ~own[c] /\ Lose(c, 0) /\ UNCHANGED pool
     \/ own[c] /\ TryAcquire /\ Lose(c, 1)

\* The call's process is killed.
Kill(c) ==
  /\ c \in MayFail /\ pc[c] \in Open
  /\ Lose(c, 0)
  /\ UNCHANGED pool

Scheduler(c) ==
  \/ \E j \in Jobs : LaunchOwn(c, j) \/ LaunchPool(c, j) \/ Reap(c, j)
  \/ Wait(c) \/ Timeout(c) \/ Return(c)

Next ==
  \/ \E c \in Calls : Start(c) \/ Scheduler(c) \/ Abandon(c) \/ Kill(c)
  \/ \E j \in Jobs : Finish(j)

Spec == Init /\ [][Next]_vars

\* Processes are scheduled.  Which calls a do-file makes, and errors, are
\* nobody's duty.
Fairness == \A c \in Calls : WF_vars(Scheduler(c))
FairSpec == Spec /\ Fairness

-----------------------------------------------------------------------------
\* PROPERTIES

\* "each pool token is returned as its job finishes" (run_parallel): the pool
\* and the jobs hold all of them, but for those that went with a lost call.
PoolHeld == {j \in Jobs : src[j] = "Pool" /\ CallOf[j] \notin gone}
TokensConserved == pool + Cardinality(PoolHeld) + lost = J - 1

\* "a global limit on the number of do-files running concurrently across the
\* whole process tree" (jobserver.rs): a do-file that waits for a call of its
\* own does not count.
Executing == {j \in Jobs : job[j] = "busy" /\ OpenCalls(j) = {}}
JobLimit == gone = {} => Cardinality(Executing) <= J

\* An error stops a call from launching more jobs, not from waiting for those it
\* launched (run_parallel ends when nothing runs), and success is that of all of
\* its targets.
ReturnsLast ==
  \A c \in Calls \ gone : pc[c] \in Over =>
    /\ Running(c) = {}
    /\ pc[c] = "ok" => \A j \in Jobs : CallOf[j] = c => job[j] = "ok"

\* "a token freed elsewhere in the process tree must not sit idle until one of
\* our own jobs happens to finish" (run_parallel): not even if none ever does.
NoIdleToken ==
  \A c \in Calls :
    pc[c] \in Open /\ ToLaunch(c) /\ pool > 0
      ~> pool = 0 \/ ~ToLaunch(c) \/ pc[c] \notin Open

\* The whole run ends if do-files do: a chain of calls needs no token but
\* their own.  A job ends once, so one condition serves all of them.
DoFilesEnd == WF_vars(\E j \in Jobs : Finish(j))
Termination == DoFilesEnd => (pc[Root] \in Open ~> pc[Root] \in Over)
=============================================================================
