# Verification of redo-msh

redo-msh is a build system in the redo family: a target `t` is built by running its do-file (`t.do`, or
a `default.*.do` above it), the do-file names its dependencies by calling `redo-ifchange`, and everything that must
survive a process (what was built, from what, with which content) is in an SQLite database shared by all
processes of all runs. There is no server: every `redo` and every `redo-ifchange` is a process of its
own, and they meet in the file system, in the database and in kernel file locks. This directory holds TLA+
models of the parts where those meetings are delicate, TLC runs that check them on small instances, and
TLAPS proofs for every instance. Paths below are relative to the repository; `build.rs` stands for
`src/src/build.rs`, and likewise the other files, as `PROJECT.json` names them.

## Inventory

| Part | State | Operations | Interacts with | What makes it correct |
|---|---|---|---|---|
| Target build protocol (`build.rs`: `ifchange`, `is_target`, `ensure`, `is_ood_walk`, `build`, `build_inner`, `mark_verified`, `current_csum`) | file at the target's path; `files` row; `deps` rows with the `Uncommitted` marker and its pending hash | classify, out-of-date check, lock, re-check, static rule, marker transaction, run do-file, install, commit; each can die anywhere | target lock, database, user's editor | a crashed or failed build is noticed; redo's own output is always recognised, never refused, never taken for a source; one build per run |
| Overwrite guard (`check_not_hand_edited`, `overwrite_problem`, prompts, `--yes`) | recorded and pending hash, run-wide answer | verdict Ours / Pending / Problem, ask, refuse | build protocol, terminal | a user's file is overwritten only with permission |
| Target locks (`lock.rs`) | one `flock` per target | try, block, probe, release by drop or death | all of the above, log follower, sweepers | mutual exclusion; every exit path releases |
| Waits-for graph (`WaitEdge`, `wait_path`, `REDO_CHAIN`) | `waits` table | insert with cycle check, drop | target locks | cycles end in an error, never in a deadlock; no false alarms |
| Dependency graph (`read_deps`, `record_dep`, `is_ood_walk` with recursion) | `deps` rows of several targets | bring dependencies up to date, compare, record | build protocol | an up-to-date verdict is true of the sources |
| Scheduler and jobserver (`run_parallel`, `jobserver.rs`) | own token, pool (pipe), running jobs | launch, try-acquire, complete, release, stop on error | all builds of the tree | never more than `-j` do-files; tokens conserved; progress |
| Logs and follower (`logs.rs`, `build_inner`, `redo`) | a log per target and run, the run trace | create, append events, follow, delete | target locks, scheduler | each log printed once and whole; a live builder is never called crashed; the follower ends |
| Sweepers (`gc_logs`, `gc_temps`, `acquire_run_lock`) | sentinel and kernel lock per run; logs, log temps, captures of all runs | create, lock and verify a sentinel; sweep at start-up | other runs, target locks | a sweep never hurts a live run and leaves nothing of a dead one |
| Stamp cache (`stamp.rs`, `current_csum`) | mtime, size, hash, hashing time | trust or re-hash, refresh without a lock | clock, user's editor | a trusted hash is the file's |
| Do-file search (`dofile.rs`, `record_dofile_and_precedence`) | recorded absences | find, record what was not there, compare | build protocol, user's editor | a do-file that would win the search now makes the target out of date |
| Database (`db.rs`) | schema, run counter | open, migrate, wipe, transactions | everything | distinct run numbers |
| Paths and configuration (`paths.rs`, `root.rs`, `config.rs`) | none | pure functions | build protocol | agree with their documentation |
| Command line, platform code (`lib.rs`, `main.rs`, `bin/`, `fsguard.rs`, `winjob.rs`) | none | parse, dispatch, system calls | | |

The hard behaviours: many processes act on one target and only some of their steps are under its lock
(classification, the out-of-date check and the cache refresh are not); a process can be killed between any two
steps; database transactions and file-system operations are not atomic together; dependency cycles meet
blocking locks; files are created, locked and deleted by path while others hold them open; and the user edits files while redo
runs. `PROJECT.json` lists each such hazard at its line.

## Plan

Most important first. All of it is done but for the parts named at the end.

1. `TargetBuild`: one target, the whole protocol. Proofs in `TargetBuildProofs`.
2. `AtomicTarget`: what `TargetBuild` promises, in six actions; `TargetBuild` is checked and proved to implement it.
3. `LockWaits`: several targets, locks and the waits table. Proofs in `LockWaitsProofs`.
4. `DepGraph`: a chain of targets over a source, truth of "up to date", the shallow re-check. Proofs in `DepGraphProofs`.
5. `JobTokens`: `run_parallel` and the pool over a process tree. Proofs in `JobTokensProofs`.
6. `RunLog`: the writers of a run's logs and the follower that reads them. Proofs in `RunLogProofs`.
7. `LogSweep`: sentinels, leftovers and sweeps of several runs. Proofs in `LogSweepProofs`.
8. `Evidence`: stamps, clocks and the search for a do-file, with edits at any moment. Proofs in `EvidenceProofs`.

Not begun: several dependencies on one target in `DepGraph`, do-files that change in `LockWaits`, the pure
functions (`lexical_clean`, `glob_match`, event lines), and what "Not modelled" lists.

The models share no variables. They divide the code by question, and each takes for granted what another shows: `DepGraph` that a
target's own file and record agree (`TargetBuild`), `TargetBuild` that `changed` is a truthful summary of its edges (`DepGraph`,
`Evidence`), `JobTokens` that a job waiting for a lock gets an answer (`LockWaits`), `RunLog` that other runs keep their hands off its
files (`LogSweep`, with the exception that module finds).

## TargetBuild and AtomicTarget

One *call* is one execution of `redo t` (in `Forced`) or `redo-ifchange t`, from the question to its return. `SessionOf` gives its
run; `Yes` holds the calls that may overwrite (`--yes`, or the user answers yes); `MayCrash` those that may be killed.
The dialogue of the prompt is left out, its answer is that constant.

| Variable | Code |
|---|---|
| `pc`, `view`, `verdict` | program point of the call; the one hash it carries from a read to a later write; why the overwrite check passed |
| `lock` | owner of the target's `flock` |
| `disk` | content at the target's path, `None` if there is no file. A content stands for its hash |
| `row` | the target's `files` row: `kind` is `absent`, `static` (dofile NULL) or `generated`; `csum`; `run` is `runid` |
| `marker`, `pending` | the `Uncommitted` row of `deps` and the hash on it |
| `changed` | some other recorded edge (do-file, ifchange, ifcreate, always) does not hold |
| `raced`, `laundered`, `beside` | history, read by no action: an unlocked write contradicted a build's output or row; a foreign content's hash was recorded as redo's output; a call was made while another was on its way |

`Start` to `SourceWrite` are `ifchange` and `is_target`; `Ensure`, `Check` and `Deps` are `ensure` and `is_ood_walk`, the last
two taken again under the lock (`is_ood_shallow`); `Hash`, `Refresh` and `Mark` are `mark_verified` with `current_csum`;
`Acquire` and `Recheck` are `build`; `StaticRule` to `Commit` are `build_inner`. Reads and writes of shared state are separate steps
wherever somebody can act in between: outside the lock every access is one, under it only accesses to the `files` row, which
the unlocked writers reach, need that.

The user (`HandEdit`) may write or delete the file whenever no build of the target runs. Editing it *while* it is built
is excluded by the repository (`verification/README.md` names it as accepted). A do-file may delete the file and still succeed (`Unlink`), and one
that fails may have left it changed (`RunFail`: writing `$1` directly fails the build). A call killed while its do-file runs may leave it
running on Unix (`Orphan`): its `redo-ifchange` calls still record edges. `ifchange` tests that a source exists and stamps it later (`SourceExists`,
`SourceStamp`); one that vanishes in between is recorded without a hash. A do-file for the target exists throughout; the branches where none matches
are not modelled, nor is the recursion into dependencies (`changed` stands for its result) or a wiped database.

`AtomicTarget` has no calls, locks or program points. The database puts a target in doubt (`Begin`), announces an output, the
output replaces the file (`Install`), and the build settles or is abandoned; an edit comes only while nothing is installed and unsettled.
`TargetBuild` implements it with `file` as `disk`, `doubt` as `marker`, `announced` as `pending`, and `installed` as "a call is between
the rename and the commit": whatever interleaves or dies, an output is on the marker before it is at the path, the marker is there
until the row is true, and no build, crash or edit comes between another's installation and its end.

### What the runs show

`TargetConcurrent`: two calls of one run, one of them with permission, and a forced call of another, in any interleaving and one after the other;
two contents from the do-file, one from other hands, deletion, every call mortal. 140 thousand states. Three calls are what the
chain "crash after the rename, adopt and crash, recover" takes, and a race of two with an earlier or a later third; two contents are needed to tell
an old output from a new one, and one foreign content to tell a user's from either.

| Property | Says |
|---|---|
| `OutputVouched` | redo's output on disk is on record, by its recorded or its pending hash, through any crashes, if no unlocked write raced |
| `OncePerSession` | calls of one run that all found the target out of date build it once |
| `TypeOK` | types, no pending hash without a marker, and whoever is past the lock owns it |
| `NoFalseRefusal` (unless `beside`), `FalseRefusalOnlyByRace` | an unmodified output is never refused as a hand edit when calls come one after the other; when they overlap, only after such a race |
| `OutputNeverBecomesSource` (unless `beside`) | redo's output is never recorded as a source |
| `SuccessMeansCommitted` (unless `beside`) | a run's first success leaves no uncommitted build behind |
| `EditsSurvive` | a foreign file is overwritten only with permission, if phony, or after its hash was put on record |
| `ImplementsAtomic` | every behaviour is one of `AtomicTarget` |
| `Termination` | every call returns |

A phony target's row has no hash, and the guard then lets any file pass (`Ours`) before it looks at the pending hash: this
is why `Vouched` counts a missing hash as a record, and why `EditsSurvive` excepts phony targets.
Calls of one run after its first success trust the run's number on the row (`ensure`), even if a forced rebuild has failed since:
`SuccessMeansCommitted` speaks of the first success only.

Three properties except behaviours in which a call was made beside another (`beside`), because two unlocked writers can contradict a build that commits beside them; `raced`
records exactly these cases. `is_target` reads "no row", another run's first build commits, `is_target` reads "no pending
hash", and with a `default.*.do` the new output is recorded as a source. And `current_csum` hashes an old output, a build commits a
new one, `current_csum` writes the old hash over the new one, and the next build refuses redo's own file.

`TargetEditLaundered` expects a violation of `EditsNeverOverwritten`: build, edit by hand, `redo-ifchange` finds the target up to date and *records the edit's hash
as its output* (`mark_verified`, build.rs:1742, 1804); a later `redo t` overwrites the edit without asking.

`Termination` assumes `FairSpec`: weak fairness of each call's steps. Processes are scheduled by the kernel, do-files are taken to end, and
a waiter on a `flock` gets it when it stays free. Starting, crashing, editing and changing inputs carry no fairness. The safety of nothing depends on it.

### What is proved

`TargetBuildProofs` proves, for all calls, runs, contents and settings allowed by the three assumptions of `TargetBuild`
(`CallsAssumption`, `ForcedOnceAssumption`, `ContentsAssumption`: the sets fit together, redo's contents and foreign ones differ, and a run
forces a target once), `TypeOK`, `CrashLeavesMarker` (marker and exclusion from the marker transaction to the commit), `OutputVouched`,
`FalseRefusalOnlyByRace`, `EditsSurvive`, `OncePerSession` and `ImplementsAtomic`.

None is inductive. A build overwrites a file because of what its guard saw some steps earlier, so `IInv` adds what a call carries
along: that the lock's owner is where an owner can be and alone there (`LockOwner`), the marker in its window (`Marked`), that
the value to be adopted is the file's and otherwise the output is on record (`CarriesAdoption`), that from the do-file's end
to the rename the carried output is the pending one (`CarriesOutput`), that a foreign file in the way is there by permission or
by an unlocked write's mistake (`Licensed`), that the guard's second read finds a generated row or a race (`Comparing`), and that foreign
hashes are recorded only by laundering (`HashesOwn`). Each writing step has its lemma; steps that only read share `QuietStep`.
The refinement maps each step by the program point it leaves: six of them are steps of `AtomicTarget`, the rest are hidden
(`QuietRefines`). `OncePerSession` adds `BuiltLast`: after the first build of a run that is alone, the row carries its number and the
next owner of the lock has yet to look at it.

`NoFalseRefusal`, `OutputNeverBecomesSource` and `SuccessMeansCommitted` are proved too. `InTurn` says that as long as no call was made beside another one
call at most is live, `raced` is false, and what a call
read a while ago still holds (`Held`): the hash to be refreshed is the file's, no row or output appears between the reads of `is_target`. Only
the user comes in between, who cannot put redo's own output back. `NoFalseRefusal` then follows from `FalseRefusalOnlyByRace`, and
`SuccessMeansCommitted` from `RunNoted`: the number on the row is that of a run one of whose calls has already reported success.

Only model-checked: `Termination` (liveness is out of the prover's reach).

## LockWaits

A *job* is one call of `build()`, identified by its run and its chain of targets (`REDO_CHAIN` and the target). `deps` is what the do-files
ask for, fixed in a behaviour; `lock` and `waits` are the locks and the `waits` rows (`by` stands for the unique
token in the column `pid`); `mark` is the run that last built or verified a target. `Call` is the do-file (or the command line) asking,
in any order and in parallel, nothing more after a failure; `Skip` is `ensure`; `TryLock`, `InsertEdge`,
`Granted`, `DropEdge` and `Recheck` are the steps of `build()`; `Fail` and `Commit` end it. A probe takes a free lock for a moment,
so a try may fail on a free lock and the cycle check may count an edge whose holder is gone. A killed run
(`Crash`) loses its locks, its rows stay. What the out-of-date check decides about a target built by another run is left
open; the walk over a dependency's own dependencies is taken to find nothing to build, and a do-file is taken to fail when a
call of its fails.

`LocksSmall`: four graphs over three targets (a shared dependency; a cycle of two entered from its two sides,
with a target leading into it, twice; a cycle below a shared target), run `r1` naming `a` and mortal, run `r2`
naming `b` and `c` in parallel. 28 thousand states. It shows that every run ends
(`Termination`, weak fairness per job, for the same reasons as above: so no wait is circular), an error about a cycle is true (`NoFalseCycle`), a target that leads
into a cycle is never marked built, whoever got there first (`CycleNeverBuilds`), and rows are exactly the waits, but for
those of killed runs (`RowsAreWaits`). No two targets wait for each other
(`NoMutualWait`), which is what the code achieves in every graph. TLC's deadlock check is off: a finished or killed run stops.

`LocksThreeCycle` expects a violation: with `a -> b -> c -> a`, one run at `a` and one at `c`, the first holds `a` and `b` and waits for
`c`, the second holds `c` and waits for `a`. The rows are `b -> c` and `c -> a`; that `a` waits for `b` is in no
row, because `b`'s lock was free when it was taken. Both block for ever, where build.rs:991-997 promises an error for one of them. Cycles of two
are reported, as the run above and tests/integration.rs:1432 show.

`LockWaitsProofs` proves `TypeOK`, `RowsAreWaits`, `NoFalseCycle`, `CycleNeverBuilds`, `NoMutualWait` and
`NoRecordedCycle` (the waits that live jobs have recorded close no cycle) for any finite
set of targets, any graphs and runs, from `TargetsAssumption`, `GraphsAssumption`, `RunsAssumption` and `NoneAssumption` (nobody is not a job).
`IInv` adds that whoever asks for a target is asked for by its holder's do-file, rows of dead runs included (`Asked`), and that whatever is below a
marked target is marked (`BuiltBelow`). Paths are handled as closed sets, so no induction is needed: `PathStarts` takes off a path's first edge,
`BuiltClosed` says that marked targets lead to marked ones only. A cycle error is true because a path of rows is a path of the graph; a target on a
cycle cannot get its mark because what it leads to would have had it before, and leads back.

`NoRecordedCycle` is kept by `ClosesCycle`: a row that closes a cycle of live rows is not inserted, because each of those rows is of a job that
waits, whose holder's lock is held by the job's own parent (`CallersRun`), so the search counts them all; rows only go away otherwise. `NoMutualWait`
takes two waits and asks of each whether it is on record. If both are, `NoRecordedCycle` excludes them. If one is not, it is the wait of a do-file for
a target its own run has locked, and the other wait comes from below it, where the chain check has seen the first (`NoTwoDeadlock`).
`NoCircularWait` itself does not hold of every graph, as the run above shows; `DeadlockNeedsCycle` proves it wherever no do-file describes a
cycle, so what can block for ever is a build that could never have succeeded, and by `NoTwoDeadlock` its cycle has three targets or more. `Termination` is only model-checked.

## DepGraph

Target `i`'s do-file reads file `i - 1`; file 0 is a source that the user edits. A content is the number of the edit it derives
from, and a do-file copies what it reads: a stale target shows as a smaller number. `pc[r][i]` is where run `r` is with
target `i`. A call waits for the one below it (`Call`: from the walk, `is_ood_walk` to `ensure`, and from the do-file, `redo-ifchange` to
`ensure`); `known` is what the walk has read of the edge, later what the do-file has read of its dependency. `owner` is
`files.runid`, `marker` the `Uncommitted` row, `edge` the hash on the `IfChange` row; `since`, `verified` and `met` are history: the
source when a run started, what it has built or found up to date, and the runs that have had another one beside them. The
rows of `deps` are read at once and visited in any order, as the query has no order: the marker may end the walk before the dependency has
been brought up to date, or after. One target's own hash, hand edits and what the database says of a half-installed output are in
`TargetBuild`; the row, file and edge that `is_ood_walk` reads one after the other are one step here, because each of the three
is enough for "out of date" and none can go back to absent. Two calls of one run for the same target are in `TargetBuild`, too;
a chain has none. A run is killed with everything it started: on Unix a do-file may outlive its `redo` and go on recording edges, over those
of the next build too, which nothing in the code prevents and `RecordsFaithful` would not survive.

`GraphRuns`: two targets and three runs, of which `r1` may be killed and `r2` is forced, beside or after each other in any way, and one edit at any
moment. 105 thousand states. Two targets give a walk below a walk and a call below a do-file; three runs let one
come after two that overlapped or died.

| Property | Says |
|---|---|
| `RecordsFaithful` | a committed target whose edge matches its dependency holds what its do-file would make now: the evidence `is_ood_walk` goes by is sound |
| `NeverBackwards` | a target is never replaced by one from an older source |
| `FreshAlone` | a run that had no other beside it and succeeds leaves the last target derived from the source as it was when the run began, or newer, whatever earlier runs left behind |
| `BuiltOnce` | what such a run has built or verified it does not build again, though the source was edited since |

`GraphStale` expects a violation of `FreshOnSuccess` (the same without the exception) with two concurrent runs. The first builds the chain and is
about to commit its last target; the source is edited; the second run starts, sees the marker, and goes straight to the lock without a look at the
dependencies. When it has the lock, the shallow re-check compares the recorded edge with the file of the dependency, which nobody has brought up to date,
and the run reports success with the old content. The comment at build.rs:968-970 takes the dependencies to be up to date at this point. If
the rows happen to be visited edge first, the same comes about when the second run reads the rows before the first one has recorded its edge.

`DepGraphProofs` proves `TypeOK`, `RecordsFaithful` and `NeverBackwards` for a chain of any length, any runs and any number of edits, from
`ChainAssumption`. `IInv` adds that calls nest (`Nested`: only the innermost call of a run works, which is why an outer
build's lock stays where it is), that a target is never newer than what it is made from (`Derived`), that a committed row's edge is
no newer than the target (`RowsTrue`), and what a build carries from the marker to the commit (`Carries`): edge, then what the do-file
read, then the file, each no older than the one before. `RecordsFaithful` follows because edge, target and dependency are then in order, and the
first and the last are equal. This rests on contents that never come back; `Evidence` has an edit undone while a do-file runs.

`FreshAlone` and `BuiltOnce` are proved from `Alone`: a run that has met no other is the only one active, the source is no older than at its
start, and for each target what it knows is enough for what it does next (`Sound`). A target whose row carries its number is fresh (`Fresh`: there, and no
older than the source at the start). When it waits at the lock it has either seen that the target must be built, or has brought the dependency up to
date; then the shallow re-check is right, because if the edge matches, the target is as new as a dependency that is fresh. That is the comment at
build.rs:968-970, and the hypothesis it needs and does not state.

## JobTokens

A *call* is a process that builds a group of targets (`run_parallel`), a *job* one target of a group; `CallOf` and `JobOf` make
the tree: the call of each job, and the job whose do-file makes each call. `pc`, `own` and `err` are a call's place in the scheduler's loop, `own_in_use`
and `first_err`; `job` and `src` are what became of a job and the token it runs on, until its result has been received; `pool` is the
number of bytes in the pipe. `LaunchOwn`, `LaunchPool`, `Wait`, `Timeout`, `Reap` and `Return` are the
scheduler. `Abandon` is its way out by `?` when a worker's database does not open; `Kill` is a signal: in both, the do-files of the
call's jobs run on (`gone`, `lost` keep the account, and are read by no action). `Start` and `Finish` are a do-file that makes a
call, waits for it and ends, with any result. A group of one target runs without a token of its own, which is the same as using the call's. Jobs that
wait for another job's target lock (`LockWaits`) are taken to end.

`JobsTree`: three nested calls and five jobs, `-j2`, so that one token is wanted in three places; the call in the middle may be lost. 21
thousand states.

| Property | Says |
|---|---|
| `TypeOK` | also: a call's own token is in use exactly while one of its jobs holds it |
| `TokensConserved` | tokens are in the pipe, with a job of a live call, or went with a lost one |
| `JobLimit` | do-files that are not waiting for a call of theirs number `-j` at most, while no call is lost |
| `ReturnsLast` | a call returns when all it has launched has ended, and succeeds only if all its targets did |
| `NoIdleToken` | a call with queued jobs does not leave a free token in the pipe, even if none of its jobs ever ends |
| `Termination` | if do-files end, the run ends, however deep the tree and even if tokens are lost |

Both liveness properties assume weak fairness of each call's scheduler, which sleeps 50 ms at most while jobs are queued.
`Termination` also assumes, as an antecedent, that a do-file that has no call to wait for ends.

`Background` names the jobs whose do-file runs two calls side by side. It is empty in the run, because `JobLimit` does not hold otherwise: such a
do-file has lent both calls the one token it was launched with. jobserver.rs:1-2 calls `-j` a global limit.

`JobTokensProofs` proves `TypeOK`, `TokensConserved` and `ReturnsLast` for every finite tree and every `-j`, and `JobLimit` when `Background` is
empty, from `TreeAssumption`. Conservation counts sets, so each step that moves a token adds or removes one element; it needs that a queued job has
no token and a token's holder has been started by a live or lost call (`Holders`). The limit needs another count
(`TokensBound`): the pool, the jobs that hold a token and wait for no call (`Holding`), and the calls whose own token is free (`Free`) together never exceed `J`. A
call takes its token from the job that makes it and gives it back on return, which fails with two calls at once. `NoIdleToken` and
`Termination` are only model-checked.

## RunLog

One run's builders and its follower thread. Every build of a target makes a new *instance* of the target's log at the same path
(`create_log`: temp and rename); `at` is the instance at the path, `lines` what each instance holds. Appending and deleting go by path, reading by the
file the follower has open, which is why an instance outlives its path. `Call`, `CreateLog`, `Trace`, `Finish` and `Unlock` are
`build_inner`'s protocol: log before the `do` line in the caller's log (I3 in logs.rs), `done` before the unlock (I4); `Wait` is the `waiting` event,
`Write` a line of output. A target whose first build failed may be built again in the run. `Crash` kills a `redo-ifchange` and what it was building.
`EndRun` and `Join` are the end of `redo()`. The follower's stack of frames is `stack`; `ReadDo`, `ReadText`, `ReadDone`, `ReadEof`, `ProbeHeld` and
`ProbeFree` are `follow_run`, with `shown` and `noted` for the logs it printed to the end and those it called crashed. Lines are what
the follower tells apart: `do`, `done`, anything else. The lock probe is a look at whether the target's builder is between lock and unlock.

`FollowShared`: `redo a b`, where `a` asks for `b` and `b` for `c`; `b` may be built twice (its log replaced), `a` writes a line, one builder is
killed, and the depth limit is 2 so that it is met. 220 thousand states.

| Property | Says |
|---|---|
| `CrashNotesTrue` | "(crashed)" is printed for a killed builder, or for one whose `done` arrived between the follower's last read and its probe |
| `NothingLost` | when the run is over, every build that reached its end was announced by a `do` line, and what a printed log announces was printed too or called crashed; once some target was built twice, so that two logs share a path, an announcement may be lost or a target passed over as too deep |
| `FollowerEnds` | the follower ends once the run has terminated its trace |

The exception in `CrashNotesTrue` is what logs.rs:379-397 does: end of file is read before the lock is probed, so a build that writes
`done` and unlocks in between shows as crashed. `FollowCrashed`, in which nobody is killed, expects a violation of `OnlyDeadCrash`, the
property without the exception: the comments at logs.rs:15-18 and 380-382 and DESIGN.md:49 say that a free lock at the end of
the file proves that the builder died. `FollowerEnds` assumes weak fairness of the follower's thread, of each builder and of the
epilogue; crashes have none.

`RunLogProofs` proves `TypeOK`, `CrashNotesTrue`, `LogFound` and `NothingLost` for any finite set of targets, any calls, any depth, any number of
builds of each target and any crashes, from `LogAssumption`. There are two invariants. `IInv` is what a single step relies on: a target's path names its
latest log or none (`Counted`), whoever waits for a build runs (`Called`), the frames are of different targets that have been met, and no line read so
far ended its log (`Walked`), nothing follows `done` and a running builder has not written it (`Written`). Its key part is `Kept`: a target the follower
has not met, or still has on its stack, has its latest log at its path, and each of its logs is closed, under construction, or of a killed build. `LogFound` (I3: the follower finds a log at
the path of every target it meets for the first time, so a missing log is never the reason to pass over one) follows since a `do` line is written after `create_log`; `CrashNotesTrue` since a free lock means that the log is not under construction.

`Whole` adds what ties the walk to the calls, for `NothingLost`. A log that was printed is closed, and all targets it announces have been met; whoever was
met is on the stack, was printed, noted, or was passed over (`Printed`); at the end the stack is empty. That none was passed over takes a comparison of
three depths: chains of callers are within `DepthMax` (`Shallow`), so are the chains of `do` lines that lead to an announced target, as long as no
target was built twice (`Narrow`: the line is written while the caller's own chain stands, and what leads to the caller's log then leads
there by its callers only), and the frames on the stack lead to the one above them (`Nested`), hence are no more than those. Depth is the size of
a set, so this needs finite sets and no induction. With a second build the lines of a log are no longer those of one chain of callers; `Rebuilt` in
`NothingLost` is that case.

`FollowerEnds` is only model-checked.

## LogSweep

Several runs that start, build, sweep and end beside each other, over the files they share in `.redo/logs` and `.redo/tmp`. `sentinel[r]` is the file
at the path of run `r`'s sentinel, named by the attempt that made it; `lock[r][n]` who holds the kernel lock on the `n`th: a lock is on a file, and
`handle` is the file a sweep has open while the path may name another. `owner` is who holds a target's build lock; `log`, `logs`, `temps`
and `capture` are the files; `todo` what a sweep has listed and not yet looked at. `Begin` to `RemoveCapture` are `gc_temps`; `CreateSentinel` to
`CreateRunLog` are `acquire_run_lock` and the start of `redo()`; `List` to `RemoveTemp` are `gc_logs`, dead runs first, a step for every system
call that another run can come between; `LockTarget` to `EndBuild` one build with its capture, log temp and log; `AppendDone` to
`DropRunLock` the end of `redo()`. `Join` waits until the follower has read `done`, if it has opened the run log. `Crash` frees the dead run's locks and
leaves its files. Run numbers are handed out in order and never again.

`SweepLeftovers`: three runs, the first of which builds, keeps its logs (`REDO_KEEP_LOGS=1`) and may be killed anywhere, sweeps included; two attempts at a
sentinel. 189 thousand states. Three runs are what it takes for two sweeps to meet a third run.

| Property | Says |
|---|---|
| `FirstTryKept` | a run whose first sentinel stood keeps sentinel, lock, run log and its target's log until it is done with them |
| `BuildFilesKept` | no sweep deletes the capture or the log temp of a build in progress |
| `NothingLeft` | of a run that was over when a sweep listed the logs, nothing is left when that sweep ends, if no other ran beside it |
| `Termination` | every run ends, unless a sentinel of it was swept |

`SweepOrphan` expects a violation of `LiveRunKept`, which is `FirstTryKept` for every run. Two sweeps meet a run between creating and locking
its first sentinel. One has it unlinked; the run verifies, makes a second one, locks it, creates its run log and goes on. The other
sweep is still at the first sentinel, whose lock is free, or has found no sentinel at all: it deletes the live run's log and sentinel by path, without
the look that `acquire_run_lock` takes. The run's `done` has no file to go to, and its join waits for it. logs.rs:519-524 says that a
sentinel that is gone means a run that is gone. With one sweep at a time this cannot happen, which `FirstTryKept` and the exception in `Termination`
make precise. Weak fairness is per run, for the reasons above.

`LogSweepProofs` proves `TypeOK`, `BuildFilesKept`, `FirstTryKept` and `NothingLeft` for any number of runs, targets and attempts, from `SweepAssumption`.
The inductive invariant (`Settled`) says who may hold what: a build lock is with the one run that builds or sweeps the target (`Ownership`), a run past
its sentinel's creation has made one and no sweep looks at its own run (`Counts`), the kernel lock of a last sentinel is with its run and that of a sentinel being
swept with the sweeper (`Holders`), a first sentinel that was verified is at its path and a sweep that found none deals with no such run (`Firsts`),
and such a run has its logs (`FirstLogs`). A sweep that is about to delete holds the lock of the file it opened; with one sentinel, that is
the live run's own file, and a lock has one holder.

For `NothingLeft` it also says that a kernel lock is with the sentinel's own run or with the sweep that is deleting it (`Holds`), that a sweep with a
history has no other beside it (`Single`), and how far such a sweep has got with each run that was over when it began (`Clearing`): the run is still
in the list or its sentinel and log are gone, and its target logs are among those still to be looked at. The step that could go wrong is the one that passes
over a locked sentinel. Its holder would be the run, which is over, or a second sweep, which there is not. `Termination` is only model-checked.

## Evidence

What an answer "up to date" rests on, for one target with one source, under edits at any moment. `path` holds a content, a directory or nothing at
each *candidate*, a pair of directory depth and number of name parts after `default`, in the order of `dofile.rs`; `other` is a path the do-file gave
to `redo-ifcreate`. `now` is this machine's clock; a write's mtime lies up to `Behind` ticks behind it, or up to `Ahead` ahead, or is any
whole second on a file system with coarse timestamps. `row` is the cached stamp, `edges` what the last build recorded, `out` what really went into
the output. `Probe`, `NoRule` and `Stamp` are `find` and the recording of the do-file and the absent candidates (without a do-file an existing file is
recorded as a source, which touches the target's row only, not the edges); `Launch` to `Commit` the do-file's
calls, with the stamp of the source taken in the order of `stamp_file` (clock, stat, hash) and the upsert and edge written apart; `CheckStat` to `CheckUpdate`
are a checker's slow path in `current_csum`, which updates whatever row there is by then. `UpToDate` is `is_ood_walk` as it answers now. Sizes are
left out: a change of size is found as a change of mtime is.

`EvidenceSmall`: three candidates (the exact do-file, `default.do` beside the target, `default.do` in the root), one checker, two edits, four
clock values, a second of three ticks, so that there are whole seconds, ticks within one and a margin that ends. 5.6 million states, the largest run.
`MaxNow` and `MaxEdits` are the bounds: an edit and its undoing need two edits, and the margin is over within the four ticks.

| Property | Says |
|---|---|
| `CacheHonest` | a cached hash that is trusted without reading the file is the file's |
| `FreshUnlessTorn` | "up to date" means that the output is what a build would make now, with the do-file that wins the search now; except when something changed between its stamp and its use by the do-file, and changed back |
| `RebuiltForCause` | a target whose inputs are what they were is up to date; except when a directory has the name of a do-file that would win, which the search passes over and the check does not |

The assumption `Behind < Margin` carries `CacheHonest`: a timestamp lags the clock by less than `RACY_MARGIN_NANOS` (two seconds). A file system
whose clock is further behind is outside what the code promises.

`EvidenceProofs` proves `TypeOK`, `CacheHonest`, `FreshUnlessTorn` and `RebuiltForCause` for any depth, any number of name parts, any clocks
within that assumption and any number of edits. `Sound` is the key: a stamp whose hash was taken more than the margin after its mtime is the content the file has
had since that mtime, as any later write would have a later one. It holds of the row and of every stamp being taken (`Stamped`), whoever writes it last.
The search needs only that what was passed over lies before what was found (`Searched`, `Recorded`).

## What the exceptions leave open

Some properties except the very case a hazard names, because the code lets it happen; they show that nothing else has the same effect. The races
of unlocked writers (`raced`, `beside`), a target skipped after a failed forced rebuild in the same run (`SuccessMeansCommitted`), a torn build whose input
changed back (`FreshUnlessTorn`), a directory named like a do-file (`RebuiltForCause`), what a log rebuilt in the same run costs
(`NothingLost`) and tokens that go with a lost call (`TokensConserved`) are such cases; each is noted at its hazard in `PROJECT.json`. The laundered edit, the
crash that was none, the orphaned log, the three-cycle and the stale re-check have violation runs of their own.

## Not modelled

- `db.rs` beyond the rows and transactions the models use: journal modes and their conversion, additive migration, and the wipe of a database of
  another schema version. The wipe is by path and without a lock, so two processes that both find an old database may both wipe; what each had
  written then is partly lost, and with it the record that vouches for outputs (db.rs:33-37 names the consequence for a single wipe). SQLite's own
  atomicity and recovery are taken for granted.
- Pure functions that keep no state: paths, project root, configuration files, globs, the layout of log lines and colours. The models take names
  to be normalised and lines to be parsed.
- The prompt dialogue and `lock_prompt`; the answer is a constant of `TargetBuild`.
- The command line, process start, file-system classification, the Windows job object.
- `redo-stamp`, `DEPTH_MAX` in the out-of-date walk, the jobserver's in-process counter, do-files that change while a stale wait row stands.

Every invariant and every action property of the passing runs is a theorem. Only model-checked are
the liveness properties (`Termination` of four modules, `NoIdleToken`, `FollowerEnds`): liveness under fairness and ENABLED are beyond the prover, as
is recursion over data (what a recursive function computes for every input), and stay with TLC.
TLC's deadlock check is off in the runs whose system may stop for good: all runs have ended, or were killed, and the bounds on clocks and edits are used up.

## Running

    tlc -workers 2 -config TargetConcurrent.cfg MCTargetBuild.tla
    tlc -workers 2 -config TargetEditLaundered.cfg MCTargetBuild.tla    # violation
    tlc -workers 2 -config LocksSmall.cfg MCLockWaits.tla
    tlc -workers 2 -config LocksThreeCycle.cfg MCLockWaits.tla          # violation
    tlc -workers 2 -config GraphRuns.cfg MCDepGraph.tla
    tlc -workers 2 -config GraphStale.cfg MCDepGraph.tla                # violation
    tlc -workers 2 -config JobsTree.cfg MCJobTokens.tla
    tlc -workers 2 -config FollowShared.cfg MCRunLog.tla
    tlc -workers 2 -config FollowCrashed.cfg MCRunLog.tla               # violation
    tlc -workers 2 -config SweepLeftovers.cfg MCLogSweep.tla
    tlc -workers 2 -config SweepOrphan.cfg MCLogSweep.tla               # violation
    tlc -workers 2 -config EvidenceSmall.cfg MCEvidence.tla

    for m in TargetBuild LockWaits DepGraph JobTokens RunLog LogSweep Evidence; do tlapm ${m}Proofs.tla; done
