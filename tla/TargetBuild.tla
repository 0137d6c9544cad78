---------------------------- MODULE TargetBuild ----------------------------
(***************************************************************************)
(* The build protocol of one target: src/src/build.rs, from the moment a   *)
(* redo process is asked for the target to the moment it returns.          *)
(*                                                                         *)
(* A call is one execution of `redo t' (a forced build, Forced) or of      *)
(* `redo-ifchange t' (every other call), by any process of any run.  Calls *)
(* share the file system and the SQLite database, and nothing else: the    *)
(* target's lock serialises builds, but the classification of the target,  *)
(* the out-of-date check and the refresh of the cached hash happen outside *)
(* it.  Each statement that reads or writes shared state is a step of its  *)
(* own wherever the lock does not already make the difference invisible.   *)
(*                                                                         *)
(* A file's content stands for its hash; None is "no file", "no hash",     *)
(* SQL's NULL and "nobody" alike.                                          *)
(***************************************************************************)
CONSTANTS
  Calls,        \* the calls that may be made
  Sessions,     \* the runs of redo they belong to (runids)
  SessionOf,    \* the run of each call
  Forced,       \* the calls that are `redo t'
  Yes,          \* the calls with permission to overwrite (--yes, "y", "all")
  MayCrash,     \* the calls that may be killed
  Outputs,      \* the contents the do-file can produce
  Foreign,      \* the contents other hands can put at the target's path
  Edits,        \* what a user may make of the file: contents, None to delete it
  MaybePhony,   \* TRUE: the do-file may also succeed without output
  ExactDoFile,  \* TRUE: t.do exists.  FALSE: only a default.*.do matches t
  None

ASSUME CallsAssumption ==
  /\ SessionOf \in [Calls -> Sessions]
  /\ Forced \subseteq Calls /\ Yes \subseteq Calls /\ MayCrash \subseteq Calls
  /\ None \notin Calls \cup Sessions

\* redo_build drops duplicate targets: a run forces a target at most once.
ASSUME ForcedOnceAssumption ==
  \A c, d \in Forced : SessionOf[c] = SessionOf[d] => c = d

ASSUME ContentsAssumption ==
  /\ Outputs \cap Foreign = {}
  /\ None \notin Outputs \cup Foreign
  /\ Edits \subseteq Foreign \cup {None}
  /\ MaybePhony \in BOOLEAN
  /\ ExactDoFile \in BOOLEAN

VARIABLES
  pc,        \* where each call is; its outcome once it has returned
  view,      \* the one value a call carries from a read to a later write
  verdict,   \* why the overwrite check let a call's build go on
  lock,      \* the call that holds the target's flock
  disk,      \* the file at the target's path
  row,       \* the target's row of the files table
  marker,    \* its Uncommitted row in the deps table exists
  pending,   \* the hash on that row
  changed,   \* some recorded dependency edge differs from the world
  raced,     \* history: an unlocked write contradicted a build's output or row
  laundered, \* history: a foreign content's hash was recorded as redo's output
  beside     \* history: a call was made while another was on its way

vars == <<pc, view, verdict, lock, disk, row, marker, pending, changed,
          raced, laundered, beside>>
db == <<row, marker, pending, changed>>
history == <<raced, laundered, beside>>

-----------------------------------------------------------------------------
\* The program points of a call.  In the shared ones the lock may or may not
\* be held: the out-of-date walk, mark_verified and the recording of a source
\* run either way.
Outcomes == {"built", "skipped", "source", "failed", "refused", "crashed", "orphaned"}
Unlocked == {"idle", "exists", "isgen", "pendread", "vouch", "srcexists", "ensure", "lock"}
Shared == {"check", "deps", "hash", "refresh", "mark", "srcstamp", "srcwrite"}
InFlight == {"run", "record", "rename", "remove", "commit"}
Locked == {"recheck", "static", "guard", "compare", "begin"} \cup InFlight
Finished(c) == pc[c] \in Outcomes
Live(c) == pc[c] # "idle" /\ ~Finished(c)

Contents == Outputs \cup Foreign
Rows == [kind : {"absent", "static", "generated"},
         csum : Contents \cup {None}, run : Sessions \cup {None}]
NoRow == [kind |-> "absent", csum |-> None, run |-> None]
Verdicts == {"none", "missing", "phony", "ours", "pending", "yes"}

Typed ==
  /\ pc \in [Calls -> Outcomes \cup Unlocked \cup Shared \cup Locked]
  /\ view \in [Calls -> Contents \cup {None}]
  /\ verdict \in [Calls -> Verdicts]
  /\ lock \in Calls \cup {None}
  /\ disk \in Contents \cup {None}
  /\ row \in Rows
  /\ row.kind = "absent" => row = NoRow
  /\ marker \in BOOLEAN
  /\ pending \in Outputs \cup {None}
  /\ ~marker => pending = None
  /\ changed \in BOOLEAN /\ raced \in BOOLEAN /\ laundered \in BOOLEAN /\ beside \in BOOLEAN

\* The lock's owner is where a lock owner can be, and nobody else is there.
LockOwner ==
  \A c \in Calls : /\ pc[c] \in Locked => lock = c
                   /\ lock = c => pc[c] \in Locked \cup Shared

\* Types, no hash on a marker that is not there, and one owner of the lock.
TypeOK == Typed /\ LockOwner

Init ==
  /\ pc = [c \in Calls |-> "idle"]
  /\ view = [c \in Calls |-> None]
  /\ verdict = [c \in Calls |-> "none"]
  /\ lock = None
  /\ disk \in Edits \cup {None}
  /\ row = NoRow
  /\ marker = FALSE /\ pending = None /\ changed = FALSE
  /\ raced = FALSE /\ laundered = FALSE /\ beside = FALSE

\* A step of c that only reads.
Goto(c, label) ==
  /\ pc' = [pc EXCEPT ![c] = label]
  /\ UNCHANGED <<view, verdict, lock, disk, db, history>>

\* c remembers v and goes on.
Remember(c, v, label) ==
  /\ pc' = [pc EXCEPT ![c] = label]
  /\ view' = [view EXCEPT ![c] = v]

\* Mutant: an exit path that leaks the lock.
ReturnLeakingLock(c, outcome) ==
  /\ Remember(c, None, outcome)
  /\ verdict' = [verdict EXCEPT ![c] = "none"]
  /\ UNCHANGED lock

\* c returns: its locals die, and dropping the lock's handle releases it.
Return(c, outcome) ==
  /\ Remember(c, None, outcome)
  /\ verdict' = [verdict EXCEPT ![c] = "none"]
  /\ lock' = IF lock = c THEN None ELSE lock

ReturnOnly(c, outcome) == Return(c, outcome) /\ UNCHANGED <<disk, db, history>>

-----------------------------------------------------------------------------
\* ifchange and is_target: is the target a source or something to build?

Start(c) ==
  /\ pc[c] = "idle"
  /\ pc' = [pc EXCEPT ![c] = IF c \in Forced THEN "lock" ELSE "exists"]
  /\ beside' = (beside \/ \E d \in Calls : Live(d))
  /\ UNCHANGED <<view, verdict, lock, disk, db, raced, laundered>>

Exists(c) ==
  /\ pc[c] = "exists"
  /\ Goto(c, IF disk = None THEN "ensure" ELSE "isgen")

IsGenerated(c) ==
  /\ pc[c] = "isgen"
  /\ Goto(c, IF row.kind = "generated" THEN "ensure" ELSE "pendread")

\* An existing file redo does not claim: a target only by its exact t.do.
Unclaimed == IF ExactDoFile THEN "ensure" ELSE "srcexists"

\* Mutant: is_target forgets pending_vouches.
PendingIgnored(c) == pc[c] = "pendread" /\ Goto(c, Unclaimed)

PendingRead(c) ==
  /\ pc[c] = "pendread"
  /\ Remember(c, pending, IF pending = None THEN Unclaimed ELSE "vouch")
  /\ UNCHANGED <<verdict, lock, disk, db, history>>

PendingVouches(c) ==
  /\ pc[c] = "vouch"
  /\ Remember(c, None, IF disk = view[c] THEN "ensure" ELSE Unclaimed)
  /\ UNCHANGED <<verdict, lock, disk, db, history>>

\* ifchange: neither a do-file nor a file is an error.
SourceExists(c) ==
  /\ pc[c] = "srcexists"
  /\ IF disk = None THEN ReturnOnly(c, "failed") ELSE Goto(c, "srcstamp")

\* Record the file as a source: from ifchange, without the lock, or from
\* build_inner's static rule, under it.  A file that has gone since has no
\* stamp, and its record no hash.
SourceStamp(c) ==
  /\ pc[c] = "srcstamp"
  /\ Remember(c, disk, "srcwrite")
  /\ UNCHANGED <<verdict, lock, disk, db, history>>

SourceWrite(c) ==
  /\ pc[c] = "srcwrite"
  /\ row' = [kind |-> "static", csum |-> view[c], run |-> SessionOf[c]]
  /\ raced' = (raced \/ disk \in Outputs \/ row.kind = "generated")
  /\ Return(c, "source")
  /\ UNCHANGED <<disk, marker, pending, changed, laundered, beside>>

-----------------------------------------------------------------------------
\* ensure: is the target out of date?  The walk is taken again under the lock,
\* where it does not bring dependencies up to date first (is_ood_shallow).

Ensure(c) ==
  /\ pc[c] = "ensure"
  /\ IF row.run = SessionOf[c] THEN ReturnOnly(c, "skipped") ELSE Goto(c, "check")

NeverBuiltOrGone == row.kind = "absent" \/ (row.csum # None /\ disk = None)
\* Mutant: a failed build leaves no trace in the walk over the edges.
EdgesIgnoringMarker == changed
EdgesOutOfDate == marker \/ changed
ToBuild(c) == IF lock = c THEN "static" ELSE "lock"

Check(c) ==
  /\ pc[c] = "check"
  /\ Goto(c, IF NeverBuiltOrGone THEN ToBuild(c) ELSE "deps")

Deps(c) ==
  /\ pc[c] = "deps"
  /\ Goto(c, IF EdgesOutOfDate THEN ToBuild(c) ELSE "hash")

\* mark_verified: current_csum reads the file and then refreshes the row, in
\* two steps; a third one stamps the run on it.  The fast path of current_csum
\* skips the refresh when the row's stamp still describes the file.
Hash(c) ==
  /\ pc[c] = "hash"
  /\ \/ disk \in {None, row.csum} /\ Goto(c, "mark")
     \/ /\ disk # None
        /\ Remember(c, disk, "refresh")
        /\ UNCHANGED <<verdict, lock, disk, db, history>>

Refresh(c) ==
  /\ pc[c] = "refresh"
  /\ row' = IF row.kind = "absent" THEN row ELSE [row EXCEPT !.csum = view[c]]
  /\ raced' = (raced \/ (disk \in Outputs /\ view[c] # disk))
  /\ laundered' = (laundered \/ (row.kind = "generated" /\ view[c] \in Foreign))
  /\ Remember(c, None, "mark")
  /\ UNCHANGED <<verdict, lock, disk, marker, pending, changed, beside>>

Mark(c) ==
  /\ pc[c] = "mark"
  /\ row' = IF row.kind = "absent" THEN row ELSE [row EXCEPT !.run = SessionOf[c]]
  /\ Return(c, "skipped")
  /\ UNCHANGED <<disk, marker, pending, changed, history>>

-----------------------------------------------------------------------------
\* build: the lock and the second look under it.

\* Mutant: the lock is taken beside its owner.
AcquireShared(c) ==
  /\ pc[c] = "lock"
  /\ lock' = c
  /\ pc' = [pc EXCEPT ![c] = IF c \in Forced THEN "static" ELSE "recheck"]
  /\ UNCHANGED <<view, verdict, disk, db, history>>

Acquire(c) ==
  /\ pc[c] = "lock"
  /\ lock = None
  /\ lock' = c
  /\ pc' = [pc EXCEPT ![c] = IF c \in Forced THEN "static" ELSE "recheck"]
  /\ UNCHANGED <<view, verdict, disk, db, history>>

\* Mutant: no second look at the runid once the lock is ours.
RecheckEdgesOnly(c) == pc[c] = "recheck" /\ Goto(c, "check")

Recheck(c) ==
  /\ pc[c] = "recheck"
  /\ IF row.run = SessionOf[c] THEN ReturnOnly(c, "skipped") ELSE Goto(c, "check")

-----------------------------------------------------------------------------
\* build_inner, under the lock.

StaticRule(c) ==
  /\ pc[c] = "static"
  /\ LET source == /\ disk # None
                   /\ c \notin Forced
                   /\ row.kind # "generated"
                   /\ ~ExactDoFile
                   /\ disk # pending
     IN  Goto(c, IF source THEN "srcstamp" ELSE "guard")

\* check_not_hand_edited: refuse, or go on to the marker transaction, with the
\* output to adopt if that is why.
Decide(c, v) ==
  \/ v = "none" /\ ReturnOnly(c, "refused")
  \/ /\ v # "none"
     /\ Remember(c, IF v = "pending" THEN disk ELSE None, "begin")
     /\ verdict' = [verdict EXCEPT ![c] = v]
     /\ UNCHANGED <<lock, disk, db, history>>

\* The file is not the recorded output: a crashed build's, or somebody's.
NotRecorded(c) ==
  IF disk = pending THEN "pending" ELSE IF c \in Yes THEN "yes" ELSE "none"

\* overwrite_problem reads the row twice: is it redo's, and with what hash?
Guard(c) ==
  /\ pc[c] = "guard"
  /\ \/ disk = None /\ Decide(c, "missing")
     \/ disk # None /\ row.kind = "generated" /\ Goto(c, "compare")
     \/ disk # None /\ row.kind # "generated" /\ Decide(c, NotRecorded(c))

\* Mutant: a generated target is taken to be redo's without hashing it.
CompareNothing(c) == pc[c] = "compare" /\ Decide(c, "ours")

Compare(c) ==
  /\ pc[c] = "compare"
  /\ Decide(c, IF row.csum = None THEN "phony"
               ELSE IF row.csum = disk THEN "ours" ELSE NotRecorded(c))

\* Mutant: the row does not take over the adopted output.
AdoptNothing(c) == row

Adopt(c) ==
  IF view[c] = None THEN row
  ELSE [kind |-> "generated", csum |-> view[c], run |-> row.run]
\* Mutant: the edges are cleared but the build is not marked in flight.
BeginUnmarked(c) ==
  /\ pc[c] = "begin"
  /\ row' = Adopt(c)
  /\ marker' = FALSE /\ pending' = None /\ changed' = FALSE
  /\ Remember(c, None, "run")
  /\ UNCHANGED <<verdict, lock, disk, history>>

\* The marker transaction: adopt, clear the edges, mark the build in flight.
Begin(c) ==
  /\ pc[c] = "begin"
  /\ row' = Adopt(c)
  /\ marker' = TRUE /\ pending' = None /\ changed' = FALSE
  /\ Remember(c, None, "run")
  /\ UNCHANGED <<verdict, lock, disk, history>>

\* The do-file runs and declares its edges, which the world may already have
\* outrun when it ends (redo-always is the edge that never holds).
RunOutput(c, out) ==
  /\ pc[c] = "run"
  /\ changed' \in BOOLEAN
  /\ Remember(c, out, IF out = None THEN "remove" ELSE "record")
  /\ UNCHANGED <<verdict, lock, disk, row, marker, pending, history>>

\* It deletes $1, which redo does not hold against it, and goes on.
Unlink(c) ==
  /\ pc[c] = "run"
  /\ disk # None
  /\ disk' = None
  /\ UNCHANGED <<pc, view, verdict, lock, db, history>>

\* It fails, or writes $1 itself, which fails the build too.
RunFail(c, left) ==
  /\ pc[c] = "run"
  /\ left \in Foreign \cup {disk}
  /\ disk' = left
  /\ changed' \in BOOLEAN
  /\ Return(c, "failed")
  /\ UNCHANGED <<row, marker, pending, history>>

\* Mutant: the output is installed without its hash on the marker.
RecordNothing(c) == pc[c] = "record" /\ Goto(c, "rename")

RecordPending(c) ==
  /\ pc[c] = "record"
  /\ pending' = view[c]
  /\ pc' = [pc EXCEPT ![c] = "rename"]
  /\ UNCHANGED <<view, verdict, lock, disk, row, marker, changed, history>>

Rename(c) ==
  /\ pc[c] = "rename"
  /\ disk' = view[c]
  /\ Remember(c, None, "commit")
  /\ UNCHANGED <<verdict, lock, db, history>>

\* No output: a phony target; a file left from before goes away.
Remove(c) ==
  /\ pc[c] = "remove"
  /\ disk' = None
  /\ pc' = [pc EXCEPT ![c] = "commit"]
  /\ UNCHANGED <<view, verdict, lock, db, history>>

\* The commit transaction.
Commit(c) ==
  /\ pc[c] = "commit"
  /\ row' = [kind |-> "generated", csum |-> disk, run |-> SessionOf[c]]
  /\ marker' = FALSE /\ pending' = None
  /\ Return(c, "built")
  /\ UNCHANGED <<disk, changed, history>>

-----------------------------------------------------------------------------
\* A killed process: the kernel drops its lock, the database its transaction.
\* Its do-file may run on as an orphan (not on Windows: winjob.rs).
Crash(c) ==
  /\ c \in MayCrash /\ Live(c)
  /\ \/ ReturnOnly(c, "crashed")
     \/ pc[c] = "run" /\ ReturnOnly(c, "orphaned")

\* An orphan's redo-ifchange still records edges of the target.  What it may
\* write to the target's path is a hand edit like any other.
Orphan(c) ==
  /\ pc[c] = "orphaned"
  /\ changed' \in BOOLEAN
  /\ UNCHANGED <<pc, view, verdict, lock, disk, row, marker, pending, history>>

\* The user writes or deletes the target's file.  Doing so while a build of
\* it runs is outside what the program promises, so not under the lock.
HandEdit(x) ==
  /\ lock = None
  /\ x # disk
  /\ disk' = x
  /\ UNCHANGED <<pc, view, verdict, lock, db, history>>

\* A do-file or a dependency of the target changes.
ChangeInput ==
  /\ ~changed
  /\ changed' = TRUE
  /\ UNCHANGED <<pc, view, verdict, lock, disk, row, marker, pending, history>>

Step(c) ==
  \/ Exists(c) \/ IsGenerated(c) \/ PendingRead(c) \/ PendingVouches(c)
  \/ SourceExists(c) \/ SourceStamp(c) \/ SourceWrite(c)
  \/ Ensure(c) \/ Check(c) \/ Deps(c) \/ Hash(c) \/ Refresh(c) \/ Mark(c)
  \/ Acquire(c) \/ Recheck(c) \/ StaticRule(c) \/ Guard(c) \/ Compare(c) \/ Begin(c)
  \/ \E out \in Outputs : RunOutput(c, out)
  \/ MaybePhony /\ RunOutput(c, None)
  \/ Unlink(c)
  \/ \E left \in Foreign \cup {disk} : RunFail(c, left)
  \/ RecordPending(c) \/ Rename(c) \/ Remove(c) \/ Commit(c)

Next ==
  \/ \E c \in Calls : Start(c) \/ Step(c) \/ Crash(c) \/ Orphan(c)
  \/ \E x \in Edits : HandEdit(x)
  \/ ChangeInput

Spec == Init /\ [][Next]_vars

\* Every process is scheduled, every do-file ends, and flock wakes a waiter
\* when the lock stays free; nobody has to call, to edit or to crash.
Fairness == \A c \in Calls : WF_vars(Step(c))
FairSpec == Spec /\ Fairness

-----------------------------------------------------------------------------
\* PROPERTIES

\* A build that dies or fails anywhere between its marker transaction and its
\* commit leaves the target out of date: the marker is there throughout, and
\* no two builds are in that window at once (build_inner, the marker and
\* commit transactions).
CrashLeavesMarker ==
  \A c \in Calls : pc[c] \in InFlight =>
     marker /\ \A d \in Calls : pc[d] \in InFlight => d = c

\* Whenever redo's own output lies at the target's path, the database says so:
\* by the recorded hash (or a phony target's missing one), or by the pending
\* hash of a build that has not committed.  Otherwise it would be refused as a
\* hand edit or adopted as a source (record_pending, adopt_pending,
\* pending_vouches).
Ours == row.kind = "generated" /\ row.csum \in {None, disk}
Vouched == Ours \/ (marker /\ pending = disk)
OutputVouched == disk \in Outputs /\ ~raced => Vouched

\* check_not_hand_edited: "A normal rebuild of an unmodified output is NOT a
\* problem" - it is never refused, whatever crashed before it, as long as no
\* call was made beside another.
Refuses(c) == pc[c] \in {"guard", "compare"} /\ pc'[c] = "refused"
NoFalseRefusal == [][\A c \in Calls : Refuses(c) => disk \notin Outputs \/ beside]_vars

\* Calls beside each other: never, but for the races of two unlocked writers
\* with a build, a stale hash written by current_csum and an output classified
\* before its commit.
FalseRefusalOnlyByRace ==
  [][\A c \in Calls : Refuses(c) => disk \notin Outputs \/ raced]_vars

\* What a user put at the target's path is overwritten or removed only with
\* permission, when the target is phony (exempt by design), or after an
\* unlocked write put its hash on record where redo's own output is described
\* (overwrite_problem).
Overwrites(c) ==
  /\ disk \in Foreign /\ disk' # disk
  /\ pc[c] \in {"rename", "remove"} /\ pc'[c] = "commit"
EditsSurvive ==
  [][\A c \in Calls : Overwrites(c) =>
       \/ verdict[c] \in {"yes", "phony"}
       \/ verdict[c] = "ours" /\ (laundered \/ raced)]_vars

\* The same without the last exception, of calls made one after the other:
\* check_not_hand_edited "verifies the file still matches the content hash it
\* recorded after building it".
EditsNeverOverwritten ==
  [][\A c \in Calls : Overwrites(c) => verdict[c] \in {"yes", "phony"} \/ beside]_vars

\* is_target and the static rule: calls made one after the other never record
\* redo's own output as a source ("or, on a first build with only a
\* default*.do, adopting it as a source", the comment at record_pending),
\* wherever the builds before them were killed.
OutputNeverBecomesSource ==
  [][\A c \in Calls : pc[c] = "srcwrite" /\ pc'[c] = "source" =>
       disk \notin Outputs \/ beside]_vars

\* The double check under the lock: however many calls of one run find the
\* target out of date, one of them builds it and the others take its result,
\* unless another run or a forced call interferes.
OncePerSession ==
  \A c, d \in Calls \ Forced :
    /\ pc[c] = "built" /\ pc[d] = "built" /\ SessionOf[c] = SessionOf[d]
    /\ \A e \in Calls : pc[e] # "idle" =>
         e \notin Forced /\ SessionOf[e] = SessionOf[c]
    => c = d

\* The first call of a run to report success leaves no failed or crashed
\* build behind unnoticed: "a failed (or crashed) build leaves the target
\* unconditionally out of date" (the marker, is_ood_walk), when no call is made
\* beside another.  Later calls of the run rely on the runid that the first
\* one left (ensure), whatever has failed since.
SuccessMeansCommitted ==
  [][\A c \in Calls : Live(c) /\ pc'[c] \in {"built", "skipped"} =>
       \/ ~marker' \/ beside
       \/ \E d \in Calls : /\ SessionOf[d] = SessionOf[c]
                           /\ pc[d] \in {"built", "skipped", "source"}]_vars

\* The calls together keep the promise of AtomicTarget: no file is installed
\* that was not announced, no build installs, announces or settles on top of
\* another's, no edit or crash comes between an installation and its end in a
\* way that leaves the target without doubt (build_inner).
Installed == \E c \in Calls : pc[c] = "commit"
Atomic ==
  INSTANCE AtomicTarget
  WITH file <- disk, doubt <- marker, announced <- pending, installed <- Installed
ImplementsAtomic == Atomic!Spec

\* Every call returns: no exit path keeps the lock that others wait for.
Termination == \A c \in Calls : Live(c) ~> Finished(c)
=============================================================================
