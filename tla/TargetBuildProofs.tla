------------------------- MODULE TargetBuildProofs -------------------------
(***************************************************************************)
(* Proofs about TargetBuild for any set of calls and runs, any contents,   *)
(* and any choice of forced, permitted and mortal calls.                   *)
(*                                                                         *)
(* None of the safety properties is inductive: what makes a step safe is   *)
(* what the call has seen since it took the lock.  IInv adds that.         *)
(***************************************************************************)
EXTENDS TargetBuild, TLAPS

Labels == Outcomes \cup Unlocked \cup Shared \cup Locked
Building == {"begin"} \cup InFlight

\* The marker stands from the marker transaction to the commit.
Marked == \A c \in Calls : pc[c] \in InFlight => marker

\* Between the overwrite check and the marker transaction: the value to adopt
\* is the file's, and without one redo's own output is on record.
CarriesAdoption(c) ==
  pc[c] = "begin" =>
    /\ view[c] # None => view[c] = disk /\ disk \in Outputs
    /\ disk \in Outputs /\ ~raced => view[c] = disk \/ Ours

\* From the do-file's end to the commit: the output, its hash, the file.
CarriesOutput(c) ==
  /\ pc[c] \in {"run", "record", "remove"} => pending = None
  /\ pc[c] = "record" => view[c] \in Outputs
  /\ pc[c] = "rename" => pending = view[c] /\ view[c] \in Outputs
  /\ pc[c] = "commit" => disk \notin Foreign

\* A foreign file is in a build's way only by permission or by mistake.
Licensed(c) ==
  pc[c] \in Building /\ disk \in Foreign =>
    \/ verdict[c] \in {"yes", "phony"}
    \/ verdict[c] = "ours" /\ (laundered \/ raced)

\* Between its two reads of the row the overwrite check can lose it to a
\* source record, but not the file.
Comparing(c) ==
  pc[c] = "compare" => disk # None /\ (row.kind = "generated" \/ raced)

Carried ==
  \A c \in Calls : CarriesAdoption(c) /\ CarriesOutput(c) /\ Licensed(c) /\ Comparing(c)

\* A foreign hash is recorded as an output's only by laundering.
HashesOwn == row.kind = "generated" /\ row.csum \in Foreign => laundered

IInv == Typed /\ LockOwner /\ Marked /\ Carried /\ HashesOwn /\ OutputVouched

USE DEF Outcomes, Unlocked, Shared, InFlight, Locked, Building, Labels

\* A step that reads, remembers and moves, short of the overwrite check,
\* keeps the invariant as long as it respects the lock.
LEMMA QuietStep ==
  ASSUME IInv, NEW c \in Calls, NEW l \in Labels, NEW v \in Contents \cup {None},
         Remember(c, v, l), l \notin Building \cup {"compare"},
         lock = c => l \in Locked \cup Shared, l \in Locked => lock = c,
         UNCHANGED <<verdict, lock, disk, row, marker, pending, raced, laundered>>,
         changed' \in BOOLEAN, beside' \in BOOLEAN
  PROVE  IInv'
<1> USE DEF IInv
<1>1. Typed'
  BY DEF Typed, Remember
<1>2. LockOwner'
  BY DEF Typed, LockOwner, Remember
<1>3. Marked'
  BY DEF Typed, Marked, Remember
<1>4. Carried'
  BY DEF Typed, Carried, CarriesAdoption, CarriesOutput, Licensed, Comparing, Ours, Remember
<1>5. HashesOwn' /\ OutputVouched'
  BY DEF HashesOwn, OutputVouched, Vouched, Ours
<1> QED BY <1>1, <1>2, <1>3, <1>4, <1>5

\* Goto is the case where nothing is remembered.
LEMMA GotoStep ==
  ASSUME IInv, NEW c \in Calls, NEW l \in Labels, Goto(c, l),
         l \notin Building \cup {"compare"},
         lock = c => l \in Locked \cup Shared, l \in Locked => lock = c
  PROVE  IInv'
<1>1. view' = [view EXCEPT ![c] = view[c]] /\ view[c] \in Contents \cup {None}
  BY DEF IInv, Typed, Goto
<1>2. Remember(c, view[c], l)
  BY <1>1 DEF Goto, Remember
<1>3. changed' \in BOOLEAN /\ beside' \in BOOLEAN
  BY DEF IInv, Typed, Goto, db, history
<1> QED BY <1>1, <1>2, <1>3, QuietStep DEF Goto, db, history

\* So does a return that writes nothing: a skip, a refusal, a crash.
LEMMA ReturnStep ==
  ASSUME IInv, NEW c \in Calls, NEW outcome \in Outcomes, Return(c, outcome),
         disk' \in Foreign \cup {disk}, disk' # disk => lock = c,
         UNCHANGED <<row, marker, pending, raced, laundered>>,
         changed' \in BOOLEAN, beside' \in BOOLEAN
  PROVE  IInv'
<1> USE DEF IInv
<1>1. Typed'
  BY DEF Typed, Return, Remember, Contents, Verdicts
<1>2. LockOwner'
  BY CallsAssumption DEF Typed, LockOwner, Return, Remember
<1>3. Marked'
  BY DEF Typed, Marked, Return, Remember
<1>4. Carried'
  BY ContentsAssumption
  DEF Typed, Carried, CarriesAdoption, CarriesOutput, Licensed, Comparing, Ours, LockOwner, Return, Remember
<1>5. HashesOwn' /\ OutputVouched'
  BY ContentsAssumption DEF HashesOwn, OutputVouched, Vouched, Ours
<1> QED BY <1>1, <1>2, <1>3, <1>4, <1>5

-----------------------------------------------------------------------------
\* The steps of build_inner, which write under the lock.  Only one call can
\* be there, so what they do to the file and the row disturbs no other build.

\* The overwrite check lets a build go on, or not, for a reason.
LEMMA DecideStep ==
  ASSUME IInv, NEW c \in Calls, NEW v \in Verdicts, Decide(c, v),
         pc[c] \in {"guard", "compare"},
         v = "pending" => disk = pending /\ disk # None,
         disk \in Outputs /\ ~raced => v = "pending" \/ Ours,
         disk \in Foreign => \/ v \in {"none", "yes", "phony"}
                             \/ v = "ours" /\ (laundered \/ raced)
  PROVE  IInv'
<1> USE DEF IInv
<1>1. CASE v = "none"
  <2>1. ReturnOnly(c, "refused")
    BY <1>1 DEF Decide
  <2> QED BY <2>1, ReturnStep DEF ReturnOnly, db, history, Typed
<1>2. CASE v # "none"
  <2> DEFINE w == IF v = "pending" THEN disk ELSE None
  <2>1. /\ Remember(c, w, "begin") /\ verdict' = [verdict EXCEPT ![c] = v]
        /\ UNCHANGED <<lock, disk, db, history>>
    BY <1>2 DEF Decide
  <2>2. lock = c
    BY DEF LockOwner
  <2>3. Typed'
    BY <2>1 DEF Typed, Remember, Contents, db, history
  <2>4. LockOwner' /\ Marked'
    BY <2>1, <2>2 DEF Typed, LockOwner, Marked, Remember, db
  <2>5. ASSUME NEW d \in Calls, d # c
        PROVE  (CarriesAdoption(d) /\ CarriesOutput(d) /\ Licensed(d) /\ Comparing(d))'
    BY <2>1, <2>2, <2>5
    DEF Typed, LockOwner, Carried, CarriesAdoption, CarriesOutput, Licensed, Comparing,
        Remember
  <2>6. (CarriesAdoption(c) /\ CarriesOutput(c) /\ Comparing(c))'
    BY <2>1, ContentsAssumption
    DEF Typed, CarriesAdoption, CarriesOutput, Comparing, Ours, Remember, Contents, db, history
  <2>7. Licensed(c)'
    BY <2>1, <1>2, ContentsAssumption
    DEF Typed, Licensed, Remember, Contents, db, history
  <2>8. HashesOwn' /\ OutputVouched'
    BY <2>1 DEF HashesOwn, OutputVouched, Vouched, Ours, db, history
  <2> QED BY <2>3, <2>4, <2>5, <2>6, <2>7, <2>8 DEF Carried
<1> QED BY <1>1, <1>2

\* First read: the row is not the target's, or the comparison follows.
LEMMA GuardStep == ASSUME IInv, NEW c \in Calls, Guard(c) PROVE IInv'
<1>1. CASE disk = None /\ Decide(c, "missing")
  BY <1>1, DecideStep, ContentsAssumption DEF Guard, Verdicts
<1>2. CASE disk # None /\ row.kind = "generated" /\ Goto(c, "compare")
  <2> USE <1>2 DEF IInv, Guard, Goto
  <2>1. Typed' /\ LockOwner' /\ Marked'
    BY DEF Typed, LockOwner, Marked, db, history
  <2>2. Carried' /\ HashesOwn' /\ OutputVouched'
    BY DEF Typed, Carried, CarriesAdoption, CarriesOutput, Licensed, Comparing, HashesOwn,
           OutputVouched, Vouched, Ours, db, history
  <2> QED BY <2>1, <2>2
<1>3. CASE disk # None /\ row.kind # "generated" /\ Decide(c, NotRecorded(c))
  <2>1. /\ NotRecorded(c) \in {"none", "yes", "pending"}
        /\ NotRecorded(c) = "pending" <=> disk = pending
    BY DEF NotRecorded
  <2>2. disk \in Outputs /\ ~raced => disk = pending
    BY <1>3 DEF IInv, OutputVouched, Vouched, Ours
  <2>3. disk \in Foreign => disk # pending
    BY ContentsAssumption DEF IInv, Typed
  <2> QED BY <1>3, <2>1, <2>2, <2>3, DecideStep DEF Guard, Verdicts
<1> QED BY <1>1, <1>2, <1>3 DEF Guard

\* Second read: the recorded hash against the file's.
LEMMA CompareStep == ASSUME IInv, NEW c \in Calls, Compare(c) PROVE IInv'
<1> DEFINE v == IF row.csum = None THEN "phony"
                ELSE IF row.csum = disk THEN "ours" ELSE NotRecorded(c)
<1>1. /\ Decide(c, v) /\ pc[c] = "compare"
      /\ disk # None /\ (row.kind = "generated" \/ raced)
  BY DEF Compare, IInv, Carried, Comparing
<1>2. v \in Verdicts
  BY DEF Verdicts, NotRecorded
<1>3. v = "pending" => disk = pending /\ disk # None
  BY <1>1 DEF NotRecorded
<1>4. disk \in Outputs /\ ~raced => v = "pending" \/ Ours
  BY <1>1 DEF IInv, OutputVouched, Vouched, Ours, NotRecorded
<1>5. disk \in Foreign => \/ v \in {"none", "yes", "phony"}
                          \/ v = "ours" /\ (laundered \/ raced)
  BY <1>1, ContentsAssumption DEF IInv, HashesOwn, NotRecorded, Typed
<1> HIDE DEF v
<1> QED BY <1>1, <1>2, <1>3, <1>4, <1>5, DecideStep

LEMMA BeginStep == ASSUME IInv, NEW c \in Calls, Begin(c) PROVE IInv'
<1> USE DEF IInv, Begin
<1>1. lock = c
  BY DEF LockOwner
<1>2. Typed'
  BY ContentsAssumption DEF Typed, Adopt, Rows, NoRow, Remember, Contents, history
<1>3. LockOwner' /\ Marked'
  BY <1>1 DEF Typed, LockOwner, Marked, Remember
<1>4. Carried'
  BY <1>1 DEF Typed, LockOwner, Carried, CarriesAdoption, CarriesOutput, Licensed, Comparing, Remember, history
<1>5. HashesOwn' /\ OutputVouched'
  BY ContentsAssumption
  DEF Typed, Adopt, Carried, CarriesAdoption, HashesOwn, OutputVouched, Vouched, Ours, history
<1> QED BY <1>2, <1>3, <1>4, <1>5

LEMMA RunOutputStep ==
  ASSUME IInv, NEW c \in Calls, NEW out \in Outputs \cup {None}, RunOutput(c, out)
  PROVE  IInv'
<1> USE DEF IInv, RunOutput
<1>1. lock = c
  BY DEF LockOwner
<1>2. Typed' /\ LockOwner' /\ Marked'
  BY <1>1 DEF Typed, LockOwner, Marked, Remember, Contents, history
<1>3. Carried'
  BY <1>1 DEF Typed, LockOwner, Carried, CarriesAdoption, CarriesOutput, Licensed, Comparing, Remember, history
<1>4. HashesOwn' /\ OutputVouched'
  BY DEF HashesOwn, OutputVouched, Vouched, Ours, history
<1> QED BY <1>2, <1>3, <1>4

LEMMA UnlinkStep == ASSUME IInv, NEW c \in Calls, Unlink(c) PROVE IInv'
<1> USE DEF IInv, Unlink
<1>1. lock = c
  BY DEF LockOwner
<1>2. Typed' /\ LockOwner' /\ Marked'
  BY DEF Typed, LockOwner, Marked, db, history
<1>3. Carried'
  BY <1>1, ContentsAssumption
  DEF Typed, LockOwner, Carried, CarriesAdoption, CarriesOutput, Licensed, Comparing, db, history
<1>4. HashesOwn' /\ OutputVouched'
  BY ContentsAssumption DEF HashesOwn, OutputVouched, db, history
<1> QED BY <1>2, <1>3, <1>4

LEMMA RecordPendingStep == ASSUME IInv, NEW c \in Calls, RecordPending(c) PROVE IInv'
<1> USE DEF IInv, RecordPending
<1>1. lock = c /\ marker /\ pending = None /\ view[c] \in Outputs
  BY DEF LockOwner, Marked, Carried, CarriesOutput
<1>2. Typed' /\ LockOwner' /\ Marked'
  BY <1>1 DEF Typed, LockOwner, Marked, history
<1>3. Carried'
  BY <1>1 DEF Typed, LockOwner, Carried, CarriesAdoption, CarriesOutput, Licensed, Comparing, history
<1>4. HashesOwn' /\ OutputVouched'
  BY <1>1, ContentsAssumption DEF HashesOwn, OutputVouched, Vouched, Ours, history
<1> QED BY <1>2, <1>3, <1>4

LEMMA RenameStep == ASSUME IInv, NEW c \in Calls, Rename(c) PROVE IInv'
<1> USE DEF IInv, Rename
<1>1. lock = c /\ marker /\ pending = view[c] /\ view[c] \in Outputs
  BY DEF LockOwner, Marked, Carried, CarriesOutput
<1>2. Typed' /\ LockOwner' /\ Marked'
  BY <1>1 DEF Typed, LockOwner, Marked, Remember, Contents, db, history
<1>3. Carried'
  BY <1>1, ContentsAssumption
  DEF Typed, LockOwner, Carried, CarriesAdoption, CarriesOutput, Licensed, Comparing, Remember, db, history
<1>4. HashesOwn' /\ OutputVouched'
  BY <1>1 DEF HashesOwn, OutputVouched, Vouched, db, history
<1> QED BY <1>2, <1>3, <1>4

LEMMA RemoveStep == ASSUME IInv, NEW c \in Calls, Remove(c) PROVE IInv'
<1> USE DEF IInv, Remove
<1>1. lock = c
  BY DEF LockOwner
<1>2. Typed' /\ LockOwner' /\ Marked'
  BY <1>1 DEF Typed, LockOwner, Marked, db, history
<1>3. Carried'
  BY <1>1, ContentsAssumption
  DEF Typed, LockOwner, Carried, CarriesAdoption, CarriesOutput, Licensed, Comparing, db, history
<1>4. HashesOwn' /\ OutputVouched'
  BY ContentsAssumption DEF HashesOwn, OutputVouched, db, history
<1> QED BY <1>2, <1>3, <1>4

LEMMA CommitStep == ASSUME IInv, NEW c \in Calls, Commit(c) PROVE IInv'
<1> USE DEF IInv, Commit
<1>1. lock = c /\ disk \notin Foreign
  BY DEF LockOwner, Carried, CarriesOutput
<1>2. Typed'
  BY <1>1, CallsAssumption
  DEF Typed, Return, Remember, Rows, NoRow, Contents, Verdicts, history
<1>3. LockOwner' /\ Marked'
  BY <1>1, CallsAssumption DEF Typed, LockOwner, Marked, Return, Remember
<1>4. Carried'
  BY <1>1
  DEF Typed, LockOwner, Carried, CarriesAdoption, CarriesOutput, Licensed, Comparing, Return, Remember
<1>5. HashesOwn' /\ OutputVouched'
  BY <1>1 DEF HashesOwn, OutputVouched, Vouched, Ours, history
<1> QED BY <1>2, <1>3, <1>4, <1>5

-----------------------------------------------------------------------------
\* The unlocked writers, which may run in the middle of another call's build.

LEMMA SourceWriteStep == ASSUME IInv, NEW c \in Calls, SourceWrite(c) PROVE IInv'
<1> USE DEF IInv, SourceWrite
<1>1. Typed'
  BY CallsAssumption DEF Typed, Return, Remember, Rows, NoRow, Contents, Verdicts
<1>2. LockOwner' /\ Marked'
  BY CallsAssumption DEF Typed, LockOwner, Marked, Return, Remember
<1>3. Carried'
  BY DEF Typed, Carried, CarriesAdoption, CarriesOutput, Licensed, Comparing, Return, Remember
<1>4. HashesOwn' /\ OutputVouched'
  BY DEF HashesOwn, OutputVouched
<1> QED BY <1>1, <1>2, <1>3, <1>4

LEMMA RefreshStep == ASSUME IInv, NEW c \in Calls, Refresh(c) PROVE IInv'
<1> USE DEF IInv, Refresh
<1>1. Typed'
  BY DEF Typed, Remember, Rows, NoRow
<1>2. LockOwner' /\ Marked'
  BY DEF Typed, LockOwner, Marked, Remember
<1>3. Carried'
  BY DEF Typed, Carried, CarriesAdoption, CarriesOutput, Licensed, Comparing, Ours, Rows, Remember
<1>4. HashesOwn' /\ OutputVouched'
  BY DEF Typed, HashesOwn, OutputVouched, Vouched, Ours, Rows
<1> QED BY <1>1, <1>2, <1>3, <1>4

LEMMA MarkStep == ASSUME IInv, NEW c \in Calls, Mark(c) PROVE IInv'
<1> USE DEF IInv, Mark
<1>1. Typed'
  BY CallsAssumption DEF Typed, Return, Remember, Rows, NoRow, Verdicts, history
<1>2. LockOwner' /\ Marked'
  BY CallsAssumption DEF Typed, LockOwner, Marked, Return, Remember
<1>3. Carried'
  BY DEF Typed, Carried, CarriesAdoption, CarriesOutput, Licensed, Comparing, Ours, Rows, Return, Remember, history
<1>4. HashesOwn' /\ OutputVouched'
  BY DEF Typed, HashesOwn, OutputVouched, Vouched, Ours, Rows, history
<1> QED BY <1>1, <1>2, <1>3, <1>4

\* The user, whom the lock keeps out of a build.
LEMMA HandEditStep == ASSUME IInv, NEW x \in Edits, HandEdit(x) PROVE IInv'
<1> USE DEF IInv, HandEdit
<1>1. Typed' /\ LockOwner' /\ Marked'
  BY ContentsAssumption DEF Typed, LockOwner, Marked, Contents, db, history
<1>2. Carried'
  BY CallsAssumption
  DEF LockOwner, Carried, CarriesAdoption, CarriesOutput, Licensed, Comparing, db, history
<1>3. HashesOwn' /\ OutputVouched'
  BY ContentsAssumption DEF HashesOwn, OutputVouched, db, history
<1> QED BY <1>1, <1>2, <1>3

-----------------------------------------------------------------------------
LEMMA InitIInv == Init => IInv
<1> SUFFICES ASSUME Init PROVE IInv
  OBVIOUS
<1> USE DEF Init
<1>1. disk \in Contents \cup {None} /\ disk \notin Outputs
  BY ContentsAssumption DEF Contents
<1>2. row \in Rows
  BY DEF Rows, NoRow
<1>3. Typed
  BY <1>1, <1>2 DEF Typed, Verdicts
<1>4. LockOwner /\ Marked /\ Carried
  BY CallsAssumption
  DEF LockOwner, Marked, Carried, CarriesAdoption, CarriesOutput, Licensed, Comparing
<1>5. HashesOwn /\ OutputVouched
  BY <1>1 DEF HashesOwn, OutputVouched, NoRow
<1> QED BY <1>3, <1>4, <1>5 DEF IInv

\* Every step of a call that has started keeps the invariant.
LEMMA CallStep == ASSUME IInv, NEW c \in Calls, Step(c) PROVE IInv'
<1>1. LockOwner /\ (lock = c => pc[c] \in Locked \cup Shared)
      /\ disk \in Contents \cup {None} /\ pending \in Contents \cup {None}
      /\ changed \in BOOLEAN /\ beside \in BOOLEAN
  BY DEF IInv, LockOwner, Typed, Contents
<1>2. CASE Exists(c)
  BY <1>1, <1>2, GotoStep DEF Exists
<1>3. CASE IsGenerated(c)
  BY <1>1, <1>3, GotoStep DEF IsGenerated
<1>4. CASE PendingRead(c)
  BY <1>1, <1>4, QuietStep DEF PendingRead, Unclaimed, db, history
<1>5. CASE PendingVouches(c)
  BY <1>1, <1>5, QuietStep DEF PendingVouches, Unclaimed, db, history
<1>6. CASE SourceExists(c)
  <2>1. CASE ReturnOnly(c, "failed")
    BY <1>1, <2>1, ReturnStep DEF ReturnOnly, db, history
  <2>2. CASE Goto(c, "srcstamp")
    BY <1>1, <1>6, <2>2, GotoStep DEF SourceExists
  <2> QED BY <1>6, <2>1, <2>2 DEF SourceExists
<1>21. CASE SourceStamp(c)
  BY <1>1, <1>21, QuietStep DEF SourceStamp, db, history
<1>22. CASE Unlink(c)
  BY <1>22, UnlinkStep
<1>7. CASE SourceWrite(c)
  BY <1>7, SourceWriteStep
<1>8. CASE Ensure(c)
  <2>1. CASE ReturnOnly(c, "skipped")
    BY <1>1, <2>1, ReturnStep DEF ReturnOnly, db, history
  <2>2. CASE Goto(c, "check")
    BY <1>1, <1>8, <2>2, GotoStep DEF Ensure
  <2> QED BY <1>8, <2>1, <2>2 DEF Ensure
<1>9. CASE Check(c)
  BY <1>1, <1>9, GotoStep DEF Check, ToBuild
<1>10. CASE Deps(c)
  BY <1>1, <1>10, GotoStep DEF Deps, ToBuild
<1>11. CASE Hash(c)
  <2>1. CASE Goto(c, "mark")
    BY <1>1, <1>11, <2>1, GotoStep DEF Hash
  <2>2. CASE Remember(c, disk, "refresh") /\ UNCHANGED <<verdict, lock, disk, db, history>>
    BY <1>1, <2>2, QuietStep DEF db, history
  <2> QED BY <1>11, <2>1, <2>2 DEF Hash
<1>12. CASE Refresh(c)
  BY <1>12, RefreshStep
<1>13. CASE Mark(c)
  BY <1>13, MarkStep
<1>14. CASE Acquire(c)
  <2> USE <1>14 DEF IInv, Acquire
  <2>1. Typed' /\ LockOwner' /\ Marked'
    BY CallsAssumption DEF Typed, LockOwner, Marked, db, history
  <2>2. Carried' /\ HashesOwn' /\ OutputVouched'
    BY DEF Typed, Carried, CarriesAdoption, CarriesOutput, Licensed, Comparing, Ours, HashesOwn,
           OutputVouched, Vouched, db, history
  <2> QED BY <2>1, <2>2
<1>15. CASE Recheck(c)
  <2>1. CASE ReturnOnly(c, "skipped")
    BY <1>1, <2>1, ReturnStep DEF ReturnOnly, db, history
  <2>2. CASE Goto(c, "check")
    BY <1>1, <1>15, <2>2, GotoStep DEF Recheck, LockOwner
  <2> QED BY <1>15, <2>1, <2>2 DEF Recheck
<1>16. CASE StaticRule(c)
  BY <1>1, <1>16, GotoStep DEF StaticRule, LockOwner
<1>17. CASE Guard(c) \/ Compare(c) \/ Begin(c)
  BY <1>17, GuardStep, CompareStep, BeginStep
<1>18. CASE \/ \E out \in Outputs : RunOutput(c, out)
            \/ MaybePhony /\ RunOutput(c, None)
  BY <1>18, RunOutputStep
<1>19. CASE \E left \in Foreign \cup {disk} : RunFail(c, left)
  <2>1. PICK left \in Foreign \cup {disk} : RunFail(c, left)
    BY <1>19
  <2> QED BY <1>1, <2>1, ReturnStep DEF RunFail, LockOwner, history
<1>20. CASE RecordPending(c) \/ Rename(c) \/ Remove(c) \/ Commit(c)
  BY <1>20, RecordPendingStep, RenameStep, RemoveStep, CommitStep
<1> QED BY <1>2, <1>3, <1>4, <1>5, <1>6, <1>7, <1>8, <1>9, <1>10, <1>11, <1>12, <1>13,
           <1>14, <1>15, <1>16, <1>17, <1>18, <1>19, <1>20, <1>21, <1>22 DEF Step

LEMMA NextIInv == IInv /\ [Next]_vars => IInv'
<1> SUFFICES ASSUME IInv, [Next]_vars PROVE IInv'
  OBVIOUS
<1>1. ASSUME NEW c \in Calls, Start(c) PROVE IInv'
  <2> DEFINE l == IF c \in Forced THEN "lock" ELSE "exists"
  <2>1. /\ view' = [view EXCEPT ![c] = view[c]] /\ view[c] \in Contents \cup {None}
        /\ lock # c
    BY <1>1 DEF Start, IInv, Typed, LockOwner
  <2>2. Remember(c, view[c], l)
    BY <1>1, <2>1 DEF Start, Remember
  <2>3. changed' \in BOOLEAN /\ beside' \in BOOLEAN
    BY <1>1 DEF Start, IInv, Typed, db
  <2> QED BY <1>1, <2>1, <2>2, <2>3, QuietStep DEF Start, db
<1>2. ASSUME NEW c \in Calls, Crash(c) PROVE IInv'
  <2>1. PICK outcome \in {"crashed", "orphaned"} : ReturnOnly(c, outcome)
    BY <1>2 DEF Crash
  <2> QED BY <2>1, ReturnStep DEF ReturnOnly, db, history, IInv, Typed
<1>3. CASE ChangeInput \/ \E c \in Calls : Orphan(c)
  <2>1. changed' \in BOOLEAN /\ UNCHANGED <<pc, view, verdict, lock, disk, row, marker, pending, history>>
    BY <1>3 DEF ChangeInput, Orphan
  <2> QED BY <2>1 DEF IInv, Typed, LockOwner, Marked, Carried, CarriesAdoption,
     CarriesOutput, Licensed, Comparing, Ours, HashesOwn, OutputVouched, Vouched, history
<1>4. CASE UNCHANGED vars
  BY <1>4 DEF vars, IInv, Typed, LockOwner, Marked, Carried, CarriesAdoption,
     CarriesOutput, Licensed, Comparing, Ours, HashesOwn, OutputVouched, Vouched
<1> QED BY <1>1, <1>2, <1>3, <1>4, CallStep, HandEditStep DEF Next

\* The inductive invariant, of which the properties are consequences.
THEOREM Invariance == Spec => []IInv
BY InitIInv, NextIInv, PTL DEF Spec

-----------------------------------------------------------------------------
\* Every variable keeps its type, the marker's absence means that no hash is
\* pending (the files and deps tables), and whoever is past the lock owns it
\* (build and the target's flock).
THEOREM TypeCorrect == Spec => []TypeOK
<1>1. IInv => TypeOK
  BY DEF IInv, TypeOK
<1> QED BY <1>1, Invariance, PTL

\* The marker stands in the whole window in which a build can die, and one
\* build at most is in it (build_inner and the target's flock).
THEOREM CrashesLeaveMarker == Spec => []CrashLeavesMarker
<1>1. IInv => CrashLeavesMarker
  BY DEF IInv, LockOwner, Marked, CrashLeavesMarker
<1> QED BY <1>1, Invariance, PTL

\* redo's own output is always on record, by its recorded or its pending hash
\* (record_pending, adopt_pending and the commit transaction).
THEOREM OutputsVouched == Spec => []OutputVouched
<1>1. IInv => OutputVouched
  BY DEF IInv
<1> QED BY <1>1, Invariance, PTL

\* A call refuses by no other step than its own overwrite check.
LEMMA OnlyGuardRefuses ==
  ASSUME pc \in [Calls -> Labels], [Next]_vars, NEW c \in Calls, Refuses(c)
  PROVE  Guard(c) \/ Compare(c)
<1>1. pc[c] \in {"guard", "compare"} /\ pc'[c] = "refused"
  BY DEF Refuses
<1>2. ASSUME NEW d \in Calls, Start(d) \/ Crash(d) \/ Orphan(d)
      PROVE  FALSE
  BY <1>1, <1>2 DEF Start, Crash, Orphan, Goto, Return, ReturnOnly, Remember
<1>3. ASSUME NEW d \in Calls, Step(d)
      PROVE  d = c /\ (Guard(d) \/ Compare(d))
  BY <1>1, <1>3
  DEF Step, Exists, IsGenerated, PendingRead, PendingVouches, SourceExists, SourceStamp, SourceWrite,
      Ensure, Check, Deps, Hash, Refresh, Mark, Acquire, Recheck, StaticRule, Begin,
      RunOutput, Unlink, RunFail, RecordPending, Rename, Remove, Commit, ToBuild, Guard, Compare,
      Decide, Goto, Remember, Return, ReturnOnly
<1> QED BY <1>1, <1>2, <1>3 DEF Next, HandEdit, ChangeInput, vars

\* An unmodified output is refused only after a race with an unlocked writer
\* (check_not_hand_edited).
THEOREM RefusalsJustified == Spec => FalseRefusalOnlyByRace
<1>1. IInv /\ [Next]_vars =>
        [\A c \in Calls : Refuses(c) => disk \notin Outputs \/ raced]_vars
  <2> SUFFICES ASSUME IInv, [Next]_vars, NEW c \in Calls, Refuses(c),
                      disk \in Outputs, ~raced
               PROVE  FALSE
    OBVIOUS
  <2>1. Vouched /\ disk # None
    BY ContentsAssumption DEF IInv, OutputVouched
  <2>2. CASE Guard(c)
    <3>1. row.kind = "generated" \/ NotRecorded(c) # "none"
      BY <2>1 DEF Vouched, Ours, NotRecorded
    <3> QED BY <2>1, <2>2, <3>1 DEF Guard, Decide, Goto, Refuses, Remember, IInv, Typed
  <2>3. CASE Compare(c)
    <3>1. row.csum \in {None, disk} \/ NotRecorded(c) # "none"
      BY <2>1 DEF Vouched, Ours, NotRecorded
    <3> QED BY <2>3, <3>1 DEF Compare, Decide, Refuses, Remember, IInv, Typed
  <2> QED BY <2>2, <2>3, OnlyGuardRefuses DEF IInv, Typed
<1> QED BY <1>1, Invariance, PTL DEF Spec, FalseRefusalOnlyByRace

\* What a user left at the target's path is overwritten only with permission,
\* over a phony target, or after an unlocked write put its hash on record for
\* redo's (overwrite_problem, current_csum, ifchange).
THEOREM EditsPreserved == Spec => EditsSurvive
<1>1. IInv /\ [Next]_vars =>
        [\A c \in Calls : Overwrites(c) =>
           \/ verdict[c] \in {"yes", "phony"}
           \/ verdict[c] = "ours" /\ (laundered \/ raced)]_vars
  BY DEF IInv, Carried, Licensed, Overwrites
<1> QED BY <1>1, Invariance, PTL DEF Spec, EditsSurvive

-----------------------------------------------------------------------------
\* The refinement.  A step either stays away from the commit point and from
\* the three variables AtomicTarget sees, or is one of its actions.

Hidden == UNCHANGED <<disk, marker, pending>>

\* A call that neither reaches nor leaves the commit point.
LEMMA InstalledStays ==
  ASSUME pc \in [Calls -> Labels], NEW c \in Calls, NEW l \in Labels,
         pc' = [pc EXCEPT ![c] = l], pc[c] # "commit", l # "commit"
  PROVE  Installed' <=> Installed
BY DEF Installed

\* The lock's owner is alone: while it is elsewhere nobody is at the commit.
LEMMA NotInstalled ==
  ASSUME IInv, NEW c \in Calls, lock = c, pc[c] # "commit"
  PROVE  ~Installed
BY DEF IInv, LockOwner, Installed

\* Installed is a formula; these say so to the provers.
LEMMA InstalledSame == ASSUME Installed' <=> Installed PROVE Installed' = Installed
BY Zenon DEF Installed
LEMMA InstalledNow == ASSUME Installed' PROVE Installed' = TRUE
BY Zenon DEF Installed
LEMMA InstalledEnds == ASSUME ~Installed' PROVE Installed' = FALSE
BY Zenon DEF Installed

LEMMA QuietRefines ==
  ASSUME IInv, NEW c \in Calls, Step(c),
         pc[c] \notin {"begin", "run", "record", "rename", "remove", "commit"}
  PROVE  UNCHANGED Atomic!vars
<1>1. Hidden
  BY DEF Step, Exists, IsGenerated, PendingRead, PendingVouches, SourceExists, SourceStamp, SourceWrite,
     Ensure, Check, Deps, Hash, Refresh, Mark, Acquire, Recheck, StaticRule, Guard, Compare,
     Decide, Begin, RunOutput, Unlink, RunFail, RecordPending, Rename, Remove, Commit, Goto, Return,
     ReturnOnly, db, Hidden
<1>2. \E l \in Labels : l # "commit" /\ pc' = [pc EXCEPT ![c] = l]
  BY DEF Step, Exists, IsGenerated, PendingRead, PendingVouches, Unclaimed, SourceExists, SourceStamp,
     SourceWrite, Ensure, Check, Deps, ToBuild, Hash, Refresh, Mark, Acquire, Recheck,
     StaticRule, Guard, Compare, Decide, Begin, RunOutput, Unlink, RunFail, RecordPending, Rename,
     Remove, Commit, Goto, Remember, Return, ReturnOnly
<1>3. Installed' <=> Installed
  BY <1>2, InstalledStays DEF IInv, Typed
<1> QED BY <1>1, <1>3, Zenon DEF Atomic!vars, Hidden

LEMMA CallRefines ==
  ASSUME IInv, NEW c \in Calls, Step(c)
  PROVE  [Atomic!Next]_(Atomic!vars)
<1> USE DEF IInv
<1>1. CASE pc[c] = "begin"
  <2>1. Begin(c)
    BY <1>1 DEF Step, Exists, IsGenerated, PendingRead, PendingVouches, SourceExists, SourceStamp,
       SourceWrite, Ensure, Check, Deps, Hash, Refresh, Mark, Acquire, Recheck, StaticRule,
       Guard, Compare, RunOutput, Unlink, RunFail, RecordPending, Rename, Remove, Commit
  <2>2. ~Installed /\ ~Installed'
    BY <1>1, <2>1, NotInstalled, InstalledStays DEF LockOwner, Begin, Remember, Typed
  <2>3. Atomic!Begin
    BY <2>1, <2>2, InstalledSame DEF Begin, Atomic!Begin
  <2> QED BY <2>3 DEF Atomic!Next
<1>2. CASE pc[c] = "run"
  <2>1. \/ \E out \in Outputs \cup {None} : RunOutput(c, out)
        \/ Unlink(c)
        \/ \E left \in Foreign \cup {disk} : RunFail(c, left)
    BY <1>2 DEF Step, Exists, IsGenerated, PendingRead, PendingVouches, SourceExists, SourceStamp,
       SourceWrite, Ensure, Check, Deps, Hash, Refresh, Mark, Acquire, Recheck, StaticRule,
       Guard, Compare, Begin, RecordPending, Rename, Remove, Commit
  <2>2. ~Installed
    BY <1>2, NotInstalled DEF LockOwner
  <2>3. ~Installed' /\ UNCHANGED <<marker, pending>>
    BY <1>2, <2>1, <2>2, InstalledStays
    DEF RunOutput, Unlink, RunFail, Return, Remember, Typed, Installed, db
  <2>4. disk' \in Foreign \cup {None, disk}
    BY <2>1 DEF RunOutput, Unlink, RunFail
  <2>5. CASE disk' \in Foreign \cup {None}
    <3>1. Atomic!Edit
      BY <2>2, <2>3, <2>5, InstalledSame DEF Atomic!Edit
    <3> QED BY <3>1 DEF Atomic!Next
  <2>6. CASE disk' = disk
    BY <2>2, <2>3, <2>6, InstalledSame, SMT DEF Atomic!vars
  <2> QED BY <2>4, <2>5, <2>6
<1>3. CASE pc[c] = "record"
  <2>1. RecordPending(c)
    BY <1>3 DEF Step, Exists, IsGenerated, PendingRead, PendingVouches, SourceExists, SourceStamp,
       SourceWrite, Ensure, Check, Deps, Hash, Refresh, Mark, Acquire, Recheck, StaticRule,
       Guard, Compare, Begin, RunOutput, Unlink, RunFail, Rename, Remove, Commit
  <2>2. ~Installed /\ ~Installed'
    BY <1>3, <2>1, NotInstalled, InstalledStays DEF LockOwner, RecordPending, Typed
  <2>3. Atomic!Announce
    BY <1>3, <2>1, <2>2, InstalledSame
    DEF RecordPending, Marked, Carried, CarriesOutput, history, Atomic!Announce
  <2> QED BY <2>3 DEF Atomic!Next
<1>4. CASE pc[c] \in {"rename", "remove"}
  <2>1. Rename(c) \/ Remove(c)
    BY <1>4 DEF Step, Exists, IsGenerated, PendingRead, PendingVouches, SourceExists, SourceStamp,
       SourceWrite, Ensure, Check, Deps, Hash, Refresh, Mark, Acquire, Recheck, StaticRule,
       Guard, Compare, Begin, RunOutput, Unlink, RunFail, RecordPending, Commit
  <2>2. ~Installed
    BY <1>4, NotInstalled DEF LockOwner
  <2>3. Installed'
    BY <2>1 DEF Rename, Remove, Remember, Typed, Installed
  <2>4. marker /\ disk' = pending /\ UNCHANGED <<marker, pending>>
    BY <1>4, <2>1 DEF Rename, Remove, Marked, Carried, CarriesOutput, db
  <2>5. Atomic!Install
    BY <2>2, <2>3, <2>4, InstalledNow DEF Atomic!Install
  <2> QED BY <2>5 DEF Atomic!Next
<1>5. CASE pc[c] = "commit"
  <2>1. Commit(c)
    BY <1>5 DEF Step, Exists, IsGenerated, PendingRead, PendingVouches, SourceExists, SourceStamp,
       SourceWrite, Ensure, Check, Deps, Hash, Refresh, Mark, Acquire, Recheck, StaticRule,
       Guard, Compare, Begin, RunOutput, Unlink, RunFail, RecordPending, Rename, Remove
  <2>2. Installed
    BY <1>5 DEF Installed
  <2>3. ~Installed'
    BY <1>5, <2>1 DEF Commit, Return, Remember, LockOwner, Typed, Installed
  <2>4. Atomic!Settle
    BY <2>1, <2>2, <2>3, InstalledEnds DEF Commit, Atomic!Settle
  <2> QED BY <2>4 DEF Atomic!Next
<1>6. CASE pc[c] \notin {"begin", "run", "record", "rename", "remove", "commit"}
  BY <1>6, QuietRefines
<1> QED BY <1>1, <1>2, <1>3, <1>4, <1>5, <1>6

\* Every step is one of AtomicTarget's, or leaves what it sees alone.
LEMMA NextRefines ==
  ASSUME IInv, [Next]_vars
  PROVE  [Atomic!Next]_(Atomic!vars)
<1> USE DEF IInv
<1>1. ASSUME NEW c \in Calls, Start(c) PROVE UNCHANGED Atomic!vars
  <2>1. Hidden /\ (Installed' <=> Installed)
    BY <1>1, InstalledStays DEF Start, Typed, db, Hidden
  <2> QED BY <2>1, Zenon DEF Hidden, Atomic!vars
<1>2. ASSUME NEW c \in Calls, Crash(c) PROVE [Atomic!Next]_(Atomic!vars)
  <2>1. Hidden /\ \E l \in {"crashed", "orphaned"} : pc' = [pc EXCEPT ![c] = l]
    BY <1>2 DEF Crash, ReturnOnly, Return, Remember, db, Hidden
  <2>2. CASE pc[c] = "commit"
    <3>1. Installed /\ ~Installed'
      BY <2>1, <2>2 DEF Installed, LockOwner, Typed
    <3>2. Atomic!Abandon
      BY <2>1, <3>1, InstalledEnds DEF Hidden, Atomic!Abandon
    <3> QED BY <3>2 DEF Atomic!Next
  <2>3. CASE pc[c] # "commit"
    <3>1. Installed' <=> Installed
      BY <2>1, <2>3, InstalledStays DEF Typed
    <3> QED BY <2>1, <3>1, Zenon DEF Hidden, Atomic!vars
  <2> QED BY <2>2, <2>3
<1>3. ASSUME NEW x \in Edits, HandEdit(x) PROVE [Atomic!Next]_(Atomic!vars)
  <2>1. ~Installed /\ ~Installed'
    BY <1>3, CallsAssumption DEF HandEdit, LockOwner, Installed
  <2>2. Atomic!Edit
    BY <1>3, <2>1, ContentsAssumption, InstalledSame DEF HandEdit, db, Atomic!Edit
  <2> QED BY <2>2 DEF Atomic!Next
<1>4. CASE ChangeInput \/ (\E c \in Calls : Orphan(c)) \/ UNCHANGED vars
  <2>1. Hidden /\ (Installed' <=> Installed)
    BY <1>4 DEF ChangeInput, Orphan, vars, Installed, Hidden
  <2> QED BY <2>1, Zenon DEF Hidden, Atomic!vars
<1> QED BY <1>1, <1>2, <1>3, <1>4, CallRefines DEF Next

\* However many calls, crashes and edits there are, they look like one
\* builder that announces, installs and settles (build_inner under the
\* target's flock, its two transactions and the rename between them).
THEOREM Implements == Spec => ImplementsAtomic
<1>1. Init => Atomic!Init
  <2> SUFFICES ASSUME Init PROVE Atomic!Init
    OBVIOUS
  <2>1. disk \in Foreign \cup {None} /\ ~Installed
    BY ContentsAssumption DEF Init, Installed
  <2> QED BY <2>1 DEF Init, Atomic!Init
<1>2. IInv /\ [Next]_vars => [Atomic!Next]_(Atomic!vars)
  BY NextRefines
<1> QED BY <1>1, <1>2, Invariance, PTL DEF Spec, ImplementsAtomic, Atomic!Spec

-----------------------------------------------------------------------------
\* ONE BUILD IN A RUN

\* All calls so far are unforced, and of run s.
Alone(s) == \A e \in Calls : pc[e] # "idle" => e \notin Forced /\ SessionOf[e] = s

\* Once a call of such a run has built the target, its number is on the row,
\* and who gets the lock after it still has to look there.
BuiltLast ==
  \A s \in Sessions, c \in Calls : Alone(s) /\ pc[c] = "built" =>
    /\ row.run = s
    /\ \A d \in Calls : (pc[d] = "built" => d = c) /\ (lock = d => pc[d] = "recheck")

LEMMA StepEffects ==
  ASSUME IInv, NEW d \in Calls, Step(d)
  PROVE  /\ pc[d] \notin Outcomes \cup {"idle"} /\ pc'[d] # "idle"
         /\ \A e \in Calls : e # d => pc'[e] = pc[e]
         /\ pc'[d] = "built" => Commit(d)
         /\ Commit(d) \/ row'.run = row.run \/ row'.run = SessionOf[d]
         /\ pc[d] = "recheck" => Recheck(d)
         /\ lock' = lock \/ lock' = None \/ Acquire(d)
         /\ beside' = beside
<1> USE DEF IInv, Typed
<1>1. CASE \/ Exists(d) \/ IsGenerated(d) \/ PendingRead(d) \/ PendingVouches(d)
          \/ SourceExists(d) \/ SourceStamp(d)
  BY <1>1 DEF Exists, IsGenerated, PendingRead, PendingVouches, SourceExists, SourceStamp, Unclaimed,
     Goto, Remember, Return, ReturnOnly, db, history
<1>2. CASE SourceWrite(d) \/ Mark(d)
  BY <1>2 DEF SourceWrite, Mark, Return, Remember, Rows, history
<1>3. CASE Ensure(d) \/ Check(d) \/ Deps(d) \/ Hash(d) \/ StaticRule(d) \/ Guard(d) \/ Compare(d)
  BY <1>3 DEF Ensure, Check, Deps, Hash, StaticRule, Guard, Compare, Decide, ToBuild, Goto, Remember,
     Return, ReturnOnly, db, history
<1>4. CASE Refresh(d) \/ Begin(d)
  BY <1>4 DEF Refresh, Begin, Adopt, Remember, Rows, history
<1>5. CASE Acquire(d) \/ Recheck(d)
  BY <1>5 DEF Acquire, Recheck, Goto, Remember, Return, ReturnOnly, db, history
<1>6. CASE \/ \E out \in Outputs \cup {None} : RunOutput(d, out)
           \/ Unlink(d)
           \/ \E left \in Foreign \cup {disk} : RunFail(d, left)
  BY <1>6 DEF RunOutput, Unlink, RunFail, Remember, Return, db, history
<1>7. CASE RecordPending(d) \/ Rename(d) \/ Remove(d) \/ Commit(d)
  BY <1>7 DEF RecordPending, Rename, Remove, Commit, Remember, Return, db, history
<1> QED BY <1>1, <1>2, <1>3, <1>4, <1>5, <1>6, <1>7 DEF Step

LEMMA BuiltLastStep == IInv /\ BuiltLast /\ [Next]_vars => BuiltLast'
<1> SUFFICES ASSUME IInv, BuiltLast, [Next]_vars, NEW s \in Sessions, NEW c \in Calls, Alone(s)', pc'[c] = "built"
             PROVE  /\ row'.run = s
                    /\ \A d \in Calls : (pc'[d] = "built" => d = c) /\ (lock' = d => pc'[d] = "recheck")
  BY DEF BuiltLast
<1> USE DEF IInv, Typed
<1>1. ASSUME NEW d \in Calls, Step(d)
      PROVE  /\ row'.run = s
             /\ \A e \in Calls : (pc'[e] = "built" => e = c) /\ (lock' = e => pc'[e] = "recheck")
  <2>1. Alone(s) /\ SessionOf[d] = s /\ d \notin Forced
    BY <1>1, StepEffects DEF Alone
  <2>2. CASE Commit(d)
    <3>1. lock = d /\ pc[d] = "commit"
      BY <2>2 DEF Commit, LockOwner
    <3>2. \A e \in Calls : pc[e] # "built"
      BY <2>1, <3>1 DEF BuiltLast
    <3>3. row'.run = s /\ lock' = None
      BY <2>1, <2>2, <3>1 DEF Commit, Return
    <3> QED BY <1>1, <3>2, <3>3, StepEffects, CallsAssumption
  <2>3. CASE ~Commit(d)
    <3>1. pc[c] = "built" /\ c # d /\ \A e \in Calls : pc'[e] = "built" => pc[e] = "built"
      BY <1>1, <2>3, StepEffects
    <3>2. row.run = s /\ \A e \in Calls : (pc[e] = "built" => e = c) /\ (lock = e => pc[e] = "recheck")
      BY <2>1, <3>1 DEF BuiltLast
    <3>3. row'.run = s
      BY <1>1, <2>1, <2>3, <3>2, StepEffects
    <3>4. ASSUME NEW e \in Calls, lock' = e PROVE pc'[e] = "recheck"
      <4>1. CASE Acquire(d)
        BY <2>1, <3>4, <4>1 DEF Acquire
      <4>2. CASE lock' = lock
        <5>1. pc[e] = "recheck"
          BY <3>2, <3>4, <4>2
        <5>2. e # d
          BY <1>1, <2>1, <3>2, <3>4, <5>1, StepEffects, CallsAssumption DEF Recheck, ReturnOnly, Return
        <5> QED BY <1>1, <5>1, <5>2, StepEffects
      <4> QED BY <1>1, <3>4, <4>1, <4>2, StepEffects, CallsAssumption
    <3> QED BY <3>1, <3>2, <3>3, <3>4
  <2> QED BY <2>2, <2>3
<1>2. ASSUME NEW d \in Calls, Start(d) \/ Crash(d)
      PROVE  /\ row'.run = s
             /\ \A e \in Calls : (pc'[e] = "built" => e = c) /\ (lock' = e => pc'[e] = "recheck")
  <2>1. /\ row' = row /\ (lock' = lock \/ lock' = None) /\ pc'[d] # "built" /\ pc'[d] # "idle"
        /\ (pc[d] = "idle" /\ lock' = lock) \/ lock' # d
        /\ \A e \in Calls : e # d => pc'[e] = pc[e]
    BY <1>2, CallsAssumption DEF Start, Crash, Goto, ReturnOnly, Return, Remember, db
  <2>2. Alone(s) /\ pc[c] = "built"
    BY <2>1 DEF Alone
  <2>3. row.run = s /\ \A e \in Calls : (pc[e] = "built" => e = c) /\ (lock = e => pc[e] = "recheck")
    BY <2>2 DEF BuiltLast
  <2> QED BY <2>1, <2>3, CallsAssumption
<1>3. CASE \/ \E x \in Edits : HandEdit(x)
          \/ ChangeInput \/ (\E d \in Calls : Orphan(d)) \/ UNCHANGED vars
  <2>1. UNCHANGED <<pc, row, lock>>
    BY <1>3 DEF HandEdit, ChangeInput, Orphan, vars, db
  <2> QED BY <2>1 DEF BuiltLast, Alone
<1> QED BY <1>1, <1>2, <1>3 DEF Next

\* However many calls of one run find the target out of date, one builds it
\* (build and its second look under the lock).
THEOREM BuiltOnceInRun == Spec => []OncePerSession
<1>1. Init => BuiltLast
  BY DEF Init, BuiltLast
<1>2. IInv /\ BuiltLast => OncePerSession
  <2> SUFFICES ASSUME IInv, BuiltLast, NEW c \in Calls \ Forced, NEW d \in Calls \ Forced,
                      pc[c] = "built", pc[d] = "built", SessionOf[c] = SessionOf[d],
                      \A e \in Calls : pc[e] # "idle" => e \notin Forced /\ SessionOf[e] = SessionOf[c]
               PROVE  c = d
    BY DEF OncePerSession
  <2>1. Alone(SessionOf[c]) /\ SessionOf[c] \in Sessions
    BY CallsAssumption DEF Alone
  <2> QED BY <2>1 DEF BuiltLast
<1> QED BY <1>1, <1>2, BuiltLastStep, Invariance, PTL DEF Spec

-----------------------------------------------------------------------------
\* ONE CALL AT A TIME

\* The run on the row is one of which a call has reported success.
RunNoted ==
  row.run # None => \E d \in Calls : /\ SessionOf[d] = row.run
                                     /\ pc[d] \in {"built", "skipped", "source"}

OneAtATime == \A c, d \in Calls : Live(c) /\ Live(d) => c = d

\* What a call read a while ago still holds when nobody but the user comes in
\* between, who cannot put redo's own output back.
Held(c) ==
  /\ pc[c] \in {"hash", "refresh", "mark"} => ~marker
  /\ pc[c] \in {"refresh", "vouch"} /\ disk \in Outputs => view[c] = disk
  /\ pc[c] \in {"pendread", "vouch", "srcexists", "srcstamp", "srcwrite"} => row.kind # "generated"
  /\ pc[c] \in {"srcexists", "srcstamp", "srcwrite"} => disk \notin Outputs

TurnsTaken == OneAtATime /\ ~raced /\ \A c \in Calls : Held(c)
InTurn == ~beside => TurnsTaken

LEMMA RunNotedStep == IInv /\ RunNoted /\ [Next]_vars => RunNoted'
<1> SUFFICES ASSUME IInv, RunNoted, [Next]_vars PROVE RunNoted'
  OBVIOUS
<1> USE DEF IInv, Typed
<1>1. ASSUME NEW c \in Calls, Step(c) PROVE RunNoted'
  <2>1. CASE SourceWrite(c) \/ Mark(c) \/ Commit(c)
    BY <2>1 DEF SourceWrite, Mark, Commit, Return, Remember, RunNoted, Rows, NoRow
  <2>2. CASE ~(SourceWrite(c) \/ Mark(c) \/ Commit(c))
    <3>1. row'.run = row.run
      BY <1>1, <2>2
      DEF Step, Exists, IsGenerated, PendingRead, PendingVouches, SourceExists, SourceStamp, Ensure, Check,
          Deps, Hash, Refresh, Acquire, Recheck, StaticRule, Guard, Compare, Decide, Begin, Adopt,
          RunOutput, Unlink, RunFail, RecordPending, Rename, Remove, Goto, ReturnOnly, db, Rows
    <3> QED BY <1>1, <3>1, StepEffects DEF RunNoted
  <2> QED BY <2>1, <2>2
<1>2. ASSUME NEW c \in Calls, Start(c) \/ Crash(c) PROVE RunNoted'
  BY <1>2 DEF Start, Crash, Live, Finished, Goto, ReturnOnly, Return, Remember, db, RunNoted
<1>3. CASE \/ \E x \in Edits : HandEdit(x)
          \/ ChangeInput \/ (\E d \in Calls : Orphan(d)) \/ UNCHANGED vars
  BY <1>3 DEF HandEdit, ChangeInput, Orphan, vars, db, RunNoted
<1> QED BY <1>1, <1>2, <1>3 DEF Next

\* The running call's own steps.
LEMMA TurnStep ==
  ASSUME IInv, ~raced, NEW c \in Calls, Held(c), Step(c)
  PROVE  ~raced' /\ Held(c)'
<1> USE DEF IInv, Typed
<1>1. disk \in Outputs => disk # None /\ (row.kind = "generated" \/ pending = disk)
  BY ContentsAssumption DEF OutputVouched, Vouched, Ours
<1>2. CASE Exists(c) \/ IsGenerated(c) \/ PendingRead(c) \/ PendingVouches(c)
  BY <1>1, <1>2
  DEF Exists, IsGenerated, PendingRead, PendingVouches, Unclaimed, Goto, Remember, Held, db, history
<1>3. CASE SourceExists(c) \/ SourceStamp(c)
  BY <1>3 DEF SourceExists, SourceStamp, Goto, ReturnOnly, Return, Remember, Held, db, history
<1>4. CASE SourceWrite(c)
  BY <1>4 DEF SourceWrite, Return, Remember, Held
<1>5. CASE Ensure(c) \/ Check(c) \/ Deps(c) \/ Recheck(c) \/ Acquire(c)
  BY <1>5
  DEF Ensure, Check, Deps, EdgesOutOfDate, ToBuild, Recheck, Acquire, Goto, ReturnOnly, Return,
      Remember, Held, db, history
<1>6. CASE Hash(c)
  BY <1>6 DEF Hash, Goto, Remember, Held, db, history
<1>7. CASE Refresh(c) \/ Mark(c)
  BY <1>7 DEF Refresh, Mark, Return, Remember, Held, history
<1>8. CASE StaticRule(c)
  BY <1>1, <1>8 DEF StaticRule, Goto, Held, db, history
<1>9. CASE Guard(c) \/ Compare(c) \/ Begin(c)
  BY <1>9 DEF Guard, Compare, Decide, Begin, Goto, ReturnOnly, Return, Remember, Held, db, history
<1>10. CASE \/ \E out \in Outputs \cup {None} : RunOutput(c, out)
            \/ Unlink(c)
            \/ \E left \in Foreign \cup {disk} : RunFail(c, left)
  BY <1>10 DEF RunOutput, Unlink, RunFail, Return, Remember, Held, db, history
<1>11. CASE RecordPending(c) \/ Rename(c) \/ Remove(c) \/ Commit(c)
  BY <1>11 DEF RecordPending, Rename, Remove, Commit, Return, Remember, Held, db, history
<1> QED
  BY <1>2, <1>3, <1>4, <1>5, <1>6, <1>7, <1>8, <1>9, <1>10, <1>11 DEF Step

LEMMA InTurnStep == IInv /\ InTurn /\ [Next]_vars => InTurn'
<1> SUFFICES ASSUME IInv, InTurn, [Next]_vars, ~beside' PROVE TurnsTaken'
  BY DEF InTurn
<1> USE DEF IInv, Typed
<1>1. ASSUME NEW c \in Calls, Step(c) PROVE TurnsTaken'
  <2>1. TurnsTaken
    BY <1>1, StepEffects DEF InTurn
  <2>2. Live(c) /\ (\A d \in Calls : d # c => ~Live(d) /\ pc'[d] = pc[d])
    BY <1>1, <2>1, StepEffects DEF TurnsTaken, OneAtATime, Live, Finished
  <2>3. OneAtATime'
    BY <2>2 DEF OneAtATime, Live, Finished
  <2>4. ~raced' /\ Held(c)'
    BY <1>1, <2>1, TurnStep DEF TurnsTaken
  <2>5. \A d \in Calls : d # c => Held(d)'
    BY <2>2 DEF Held, Live, Finished
  <2> QED BY <2>3, <2>4, <2>5 DEF TurnsTaken
<1>2. ASSUME NEW c \in Calls, Start(c) PROVE TurnsTaken'
  <2>1. TurnsTaken /\ \A d \in Calls : ~Live(d)
    BY <1>2 DEF Start, InTurn
  <2> QED BY <1>2, <2>1 DEF Start, TurnsTaken, OneAtATime, Held, Live, Finished, db
<1>3. ASSUME NEW c \in Calls, Crash(c) PROVE TurnsTaken'
  BY <1>3
  DEF Crash, ReturnOnly, Return, Remember, InTurn, TurnsTaken, OneAtATime, Held, Live, Finished, db, history
<1>4. ASSUME NEW x \in Edits, HandEdit(x) PROVE TurnsTaken'
  <2>1. disk' \notin Outputs
    BY <1>4, ContentsAssumption DEF HandEdit
  <2> QED
    BY <1>4, <2>1 DEF HandEdit, InTurn, TurnsTaken, OneAtATime, Held, Live, Finished, db, history
<1>5. CASE ChangeInput \/ (\E c \in Calls : Orphan(c)) \/ UNCHANGED vars
  BY <1>5
  DEF ChangeInput, Orphan, vars, InTurn, TurnsTaken, OneAtATime, Held, Live, Finished, db, history
<1> QED BY <1>1, <1>2, <1>3, <1>4, <1>5 DEF Next

LEMMA TakingTurns == Spec => [](IInv /\ InTurn)
<1>1. Init => InTurn
  BY DEF Init, InTurn, TurnsTaken, OneAtATime, Held, Live, Finished
<1> QED BY <1>1, InTurnStep, Invariance, PTL DEF Spec

\* Calls made one after the other never have an unmodified output refused,
\* however many of them were killed and where (check_not_hand_edited).
THEOREM NeverRefusedInTurn == Spec => NoFalseRefusal
<1>1. InTurn /\ [\A c \in Calls : Refuses(c) => disk \notin Outputs \/ raced]_vars =>
        [\A c \in Calls : Refuses(c) => disk \notin Outputs \/ beside]_vars
  BY DEF InTurn, TurnsTaken
<1> QED
  BY <1>1, RefusalsJustified, TakingTurns, PTL DEF FalseRefusalOnlyByRace, NoFalseRefusal

\* Nor do they record redo's own output as a source (is_target, the static
\* rule of build_inner).
THEOREM NeverSourceInTurn == Spec => OutputNeverBecomesSource
<1>1. IInv /\ InTurn /\ [Next]_vars =>
        [\A c \in Calls : pc[c] = "srcwrite" /\ pc'[c] = "source" =>
           disk \notin Outputs \/ beside]_vars
  BY DEF InTurn, TurnsTaken, Held
<1> QED BY <1>1, TakingTurns, PTL DEF Spec, OutputNeverBecomesSource

\* The first of them in a run to report success leaves no build in flight on
\* record (the marker, is_ood_walk, ensure).
THEOREM SuccessCommitsInTurn == Spec => SuccessMeansCommitted
<1>1. RunNoted /\ IInv /\ InTurn /\ [Next]_vars =>
        [\A c \in Calls : Live(c) /\ pc'[c] \in {"built", "skipped"} =>
           \/ ~marker' \/ beside
           \/ \E d \in Calls : /\ SessionOf[d] = SessionOf[c]
                               /\ pc[d] \in {"built", "skipped", "source"}]_vars
  <2> SUFFICES ASSUME RunNoted, IInv, InTurn, [Next]_vars, NEW c \in Calls, Live(c),
                      pc'[c] \in {"built", "skipped"}, marker', ~beside
               PROVE  \E d \in Calls : /\ SessionOf[d] = SessionOf[c]
                                       /\ pc[d] \in {"built", "skipped", "source"}
    OBVIOUS
  <2> USE DEF IInv, Typed
  <2>1. SessionOf[c] # None
    BY CallsAssumption
  <2>2. Step(c)
    BY StepEffects
    DEF Next, Start, Crash, Orphan, HandEdit, ChangeInput, vars, Goto, ReturnOnly, Return, Remember, Live, Finished
  <2>3. row.run = SessionOf[c]
    BY <2>2
    DEF Step, Exists, IsGenerated, PendingRead, PendingVouches, Unclaimed, SourceExists, SourceStamp, SourceWrite,
        Ensure, Check, Deps, ToBuild, Hash, Refresh, Mark, Acquire, Recheck, StaticRule, Guard,
        Compare, Decide, Begin, RunOutput, Unlink, RunFail, RecordPending, Rename, Remove, Commit, Goto,
        ReturnOnly, Return, Remember, InTurn, TurnsTaken, Held, Live, Finished
  <2> QED BY <2>1, <2>3 DEF RunNoted
<1>2. Init => RunNoted
  BY DEF Init, RunNoted, NoRow
<1> QED BY <1>1, <1>2, RunNotedStep, TakingTurns, Invariance, PTL DEF Spec, SuccessMeansCommitted
=============================================================================
