--------------------------- MODULE DepGraphProofs ---------------------------
(***************************************************************************)
(* Proofs about DepGraph for a chain of any length, any number of runs, of *)
(* forced and of mortal runs, and any number of edits.                     *)
(***************************************************************************)
EXTENDS DepGraph, TLAPS

Building == {"record", "read", "install", "commit"}

\* Calls nest: only the innermost call of a run works, the others wait for it.
Nested ==
  \A r \in Runs, i, k \in Targets :
    k < i /\ pc[r][k] \in Working => pc[r][i] \in {"compare", "record"}

NoNewer(a, b) == a # None => b # None /\ a <= b

\* A target is never newer than what it is made from.
Derived == \A i \in Targets : NoNewer(content[i], content[i - 1])

\* The edge of a committed target is no newer than what its do-file read.
RowsTrue ==
  \A i \in Targets :
    owner[i] # None /\ ~marker[i] => edge[i] # None /\ NoNewer(edge[i], content[i])

\* What a build carries: the marker; then an edge, what the do-file has read,
\* and the new file, each no newer than the next.
Carries(r, i) ==
  /\ pc[r][i] \in Building => marker[i]
  /\ pc[r][i] = "read" => edge[i] # None /\ NoNewer(edge[i], content[i - 1])
  /\ pc[r][i] = "install" =>
       /\ edge[i] # None /\ NoNewer(edge[i], known[r][i].edge)
       /\ NoNewer(content[i], known[r][i].edge)
       /\ NoNewer(known[r][i].edge, content[i - 1])
  /\ pc[r][i] = "commit" => edge[i] # None /\ NoNewer(edge[i], content[i])

Carried == \A r \in Runs, i \in Targets : Carries(r, i)

IInv == TypeOK /\ Nested /\ Derived /\ RowsTrue /\ Carried

USE DEF Targets, Files, Versions, Unlocked, Locked, Working, Labels, Building

LEMMA InitHolds == Init => IInv
<1> SUFFICES ASSUME Init PROVE IInv
  OBVIOUS
<1> USE ChainAssumption DEF Init
<1>1. Typed
  <2>1. /\ pc \in [Runs -> [Targets -> Labels]]
        /\ lock \in [Targets -> Runs \cup {None}]
        /\ owner \in [Targets -> Runs \cup {None}]
        /\ marker \in [Targets -> BOOLEAN]
        /\ edge \in [Targets -> Versions \cup {None}]
    OBVIOUS
  <2>2. since \in [Runs -> Versions] /\ verified \in [Runs -> SUBSET Targets] /\ met \subseteq Runs
    OBVIOUS
  <2>3. content \in [Files -> Versions \cup {None}] /\ content[0] # None
    OBVIOUS
  <2>4. known \in [Runs -> [Targets -> [edge : Versions \cup {None}, marker : BOOLEAN]]]
    BY DEF Unread
  <2> QED BY <2>1, <2>2, <2>3, <2>4 DEF Typed
<1>2. LocksHeld /\ Nested
  BY DEF LocksHeld, Nested
<1>3. Derived /\ RowsTrue
  <2>1. \A i \in Targets : content[i] = None /\ owner[i] = None
    OBVIOUS
  <2> QED BY <2>1 DEF Derived, RowsTrue, NoNewer
<1>4. Carried
  BY DEF Carried, Carries
<1> QED BY <1>1, <1>2, <1>3, <1>4 DEF IInv, TypeOK

-----------------------------------------------------------------------------
\* The types, the locks and the nesting of calls, step by step.
Innermost(r, i) == \A k \in Targets : k < i => pc[r][k] \notin Working

LEMMA NothingBelow ==
  ASSUME Nested, NEW r \in Runs, NEW i \in Targets, pc[r][i] \in Working,
         pc[r][i] \in {"compare", "record"} => Answered(r, i) \/ Failed(r, i)
  PROVE  Innermost(r, i)
<1>1. CASE pc[r][i] \notin {"compare", "record"}
  BY <1>1 DEF Nested, Innermost
<1>2. CASE i = 1
  BY <1>2 DEF Innermost
<1>3. CASE i > 1 /\ pc[r][i - 1] \in {"ok", "failed"}
  BY <1>3, ChainAssumption DEF Nested, Innermost
<1> QED BY <1>1, <1>2, <1>3 DEF Answer, Answered, Failed

\* A call moves, and takes or releases its own lock at most.
LEMMA MoveControl ==
  ASSUME TypeOK, Nested, NEW r \in Runs, NEW i \in Targets, NEW l \in Labels,
         Goto(r, i, l), pc[r][i] \in Working, Innermost(r, i),
         lock' \in [Targets -> Runs \cup {None}],
         \A k \in Targets : lock'[k] # lock[k] =>
            k = i /\ lock[i] \in {r, None} /\ lock'[i] \in {r, None},
         l \in Locked => lock'[i] = r, lock'[i] = r => l \in Locked \cup {"mark"}
  PROVE  pc' \in [Runs -> [Targets -> Labels]] /\ LocksHeld' /\ Nested'
<1> USE DEF Goto
<1>1. pc' \in [Runs -> [Targets -> Labels]]
  BY DEF TypeOK, Typed
<1>2. \A q \in Runs, k \in Targets : pc'[q][k] = IF q = r /\ k = i THEN l ELSE pc[q][k]
  BY DEF TypeOK, Typed
<1>3. LocksHeld'
  BY <1>2, ChainAssumption DEF TypeOK, LocksHeld
<1>4. Nested'
  BY <1>2, ChainAssumption DEF Nested, Innermost
<1> QED BY <1>1, <1>3, <1>4

\* A call calls the next one down.
LEMMA CallControl ==
  ASSUME TypeOK, Nested, NEW r \in Runs, NEW i \in Targets, NEW l \in {"compare", "record"},
         Call(r, i, l), pc[r][i] \in Working \ {"mark"}, Innermost(r, i), UNCHANGED lock,
         pc[r][i] \in Locked <=> l \in Locked
  PROVE  pc' \in [Runs -> [Targets -> Labels]] /\ LocksHeld' /\ Nested'
<1> USE DEF Call
<1>1. pc' \in [Runs -> [Targets -> Labels]]
  BY DEF TypeOK, Typed
<1>2. \A q \in Runs, k \in Targets :
        pc'[q][k] = IF q # r THEN pc[q][k]
                    ELSE IF k = i THEN l ELSE IF k = i - 1 THEN "ensure" ELSE pc[q][k]
  BY DEF TypeOK, Typed
<1>3. LocksHeld'
  BY <1>2, ChainAssumption DEF TypeOK, LocksHeld, Innermost
<1>4. Nested'
  BY <1>2, ChainAssumption DEF Nested, Innermost
<1> QED BY <1>1, <1>3, <1>4

\* A call returns: what it held is free.
LEMMA ReturnControl ==
  ASSUME TypeOK, Nested, NEW r \in Runs, NEW i \in Targets, NEW outcome \in {"ok", "failed"},
         Return(r, i, outcome), pc[r][i] \in Working, Innermost(r, i)
  PROVE  /\ pc' \in [Runs -> [Targets -> Labels]] /\ LocksHeld' /\ Nested'
         /\ lock' \in [Targets -> Runs \cup {None}]
         /\ known' \in [Runs -> [Targets -> [edge : Versions \cup {None}, marker : BOOLEAN]]]
<1>1. lock' \in [Targets -> Runs \cup {None}]
  BY DEF TypeOK, Typed, Return
<1>2. known' \in [Runs -> [Targets -> [edge : Versions \cup {None}, marker : BOOLEAN]]]
  BY DEF TypeOK, Typed, Return, Unread
<1>3. \A k \in Targets : lock'[k] # lock[k] =>
            k = i /\ lock[i] \in {r, None} /\ lock'[i] \in {r, None}
  BY DEF TypeOK, Typed, Return
<1>4. lock'[i] # r
  BY ChainAssumption DEF TypeOK, Typed, Return
<1> QED BY <1>1, <1>2, <1>3, <1>4, MoveControl DEF Return

LEMMA StartControl ==
  ASSUME TypeOK, Nested, NEW r \in Runs, Start(r)
  PROVE  TypeOK' /\ Nested'
<1> USE ChainAssumption DEF TypeOK, Start, Goto, db
<1>1. Typed'
  BY DEF Typed
<1>2. LocksHeld'
  BY DEF Typed, LocksHeld
<1>3. Nested'
  BY DEF Typed, Nested
<1> QED BY <1>1, <1>2, <1>3

LEMMA CrashControl ==
  ASSUME TypeOK, Nested, NEW r \in Runs, Crash(r)
  PROVE  TypeOK' /\ Nested'
<1> USE ChainAssumption DEF TypeOK, Crash, db, history
<1>1. Typed'
  BY DEF Typed, Unread
<1>2. LocksHeld'
  BY DEF Typed, LocksHeld
<1>3. Nested'
  BY DEF Typed, Nested
<1> QED BY <1>1, <1>2, <1>3

LEMMA EditControl ==
  ASSUME TypeOK, Nested, EditSource
  PROVE  TypeOK' /\ Nested'
BY ChainAssumption DEF TypeOK, Typed, LocksHeld, Nested, EditSource, db, history

\* Every step of a call is a move, a call or a return.
LEMMA StepControl ==
  ASSUME TypeOK, Nested, NEW r \in Runs, NEW i \in Targets, Step(r, i)
  PROVE  TypeOK' /\ Nested'
<1> USE DEF TypeOK, db, history
<1>1. CASE Ensure(r, i)
  <2>1. Innermost(r, i)
    BY <1>1, NothingBelow DEF Ensure
  <2>2. CASE Return(r, i, "ok")
    BY <1>1, <2>1, <2>2, ReturnControl DEF Ensure, Typed
  <2>3. CASE Goto(r, i, "walk") /\ UNCHANGED <<known, lock>>
    BY <1>1, <2>1, <2>3, MoveControl, ChainAssumption DEF Ensure, Typed, LocksHeld
  <2> QED BY <1>1, <2>2, <2>3 DEF Ensure
<1>2. CASE Walk(r, i)
  <2>1. Innermost(r, i)
    BY <1>2, NothingBelow DEF Walk
  <2>2. CASE Call(r, i, "compare") /\ known' = [known EXCEPT ![r][i] = [edge |-> edge[i], marker |-> marker[i]]]
    BY <1>2, <2>1, <2>2, CallControl DEF Walk, Typed
  <2>3. ASSUME NEW l \in {"lock", "mark"}, Goto(r, i, l), UNCHANGED known
        PROVE  TypeOK' /\ Nested'
    BY <1>2, <2>1, <2>3, MoveControl, ChainAssumption DEF Walk, Typed, LocksHeld
  <2> QED BY <1>2, <2>2, <2>3 DEF Walk
<1>3. CASE Compare(r, i)
  <2>1. Innermost(r, i)
    BY <1>3, NothingBelow DEF Compare
  <2>2. CASE Return(r, i, "failed")
    BY <1>3, <2>1, <2>2, ReturnControl DEF Compare, Typed
  <2>3. ASSUME NEW l \in {"lock", "mark"}, Goto(r, i, l), UNCHANGED <<known, lock>>
        PROVE  TypeOK' /\ Nested'
    BY <1>3, <2>1, <2>3, MoveControl, ChainAssumption DEF Compare, Typed, LocksHeld
  <2> QED BY <1>3, <2>2, <2>3 DEF Compare
<1>4. CASE Acquire(r, i)
  <2>1. Innermost(r, i)
    BY <1>4, NothingBelow DEF Acquire
  <2>2. lock' \in [Targets -> Runs \cup {None}] /\ lock'[i] = r
    BY <1>4 DEF Acquire, Typed
  <2>3. \A k \in Targets : lock'[k] # lock[k] =>
            k = i /\ lock[i] \in {r, None} /\ lock'[i] \in {r, None}
    BY <1>4 DEF Acquire, Typed
  <2>4. ASSUME NEW l \in {"begin", "recheck"}, Goto(r, i, l)
        PROVE  TypeOK' /\ Nested'
    BY <1>4, <2>1, <2>2, <2>3, <2>4, MoveControl DEF Acquire, Typed
  <2> QED BY <1>4, <2>4 DEF Acquire
<1>5. CASE Recheck(r, i)
  <2>1. Innermost(r, i)
    BY <1>5, NothingBelow DEF Recheck
  <2>2. ASSUME NEW l \in {"begin", "mark"}, Goto(r, i, l)
        PROVE  TypeOK' /\ Nested'
    BY <1>5, <2>1, <2>2, MoveControl DEF Recheck, Typed, LocksHeld
  <2> QED BY <1>5, <2>2 DEF Recheck
<1>6. CASE Mark(r, i)
  <2>1. Innermost(r, i)
    BY <1>6, NothingBelow DEF Mark
  <2> QED BY <1>6, <2>1, ReturnControl DEF Mark, Typed
<1>7. CASE Begin(r, i)
  <2>1. Innermost(r, i)
    BY <1>7, NothingBelow DEF Begin
  <2> QED BY <1>7, <2>1, CallControl DEF Begin, Typed
<1>8. CASE Record(r, i)
  <2>1. Innermost(r, i)
    BY <1>8, NothingBelow DEF Record
  <2>2. CASE Return(r, i, "failed") /\ UNCHANGED edge
    BY <1>8, <2>1, <2>2, ReturnControl DEF Record, Typed
  <2>3. CASE Goto(r, i, "read") /\ UNCHANGED <<known, lock>> /\ edge' = [edge EXCEPT ![i] = content[i - 1]]
    <3>1. content[i - 1] \in Versions \cup {None}
      BY ChainAssumption DEF Typed
    <3>2. edge' \in [Targets -> Versions \cup {None}]
      BY <2>3, <3>1 DEF Typed
    <3>3. pc' \in [Runs -> [Targets -> Labels]] /\ LocksHeld' /\ Nested'
      BY <1>8, <2>1, <2>3, MoveControl DEF Record, Typed, LocksHeld
    <3> QED BY <1>8, <2>3, <3>2, <3>3 DEF Record, Typed
  <2> QED BY <1>8, <2>2, <2>3 DEF Record
<1>9. CASE Read(r, i)
  <2>1. Innermost(r, i)
    BY <1>9, NothingBelow DEF Read
  <2>2. CASE Return(r, i, "failed")
    BY <1>9, <2>1, <2>2, ReturnControl DEF Read, Typed
  <2>3. CASE Goto(r, i, "install") /\ UNCHANGED lock /\ known' = [known EXCEPT ![r][i] = [edge |-> content[i - 1], marker |-> FALSE]]
    <3>1. content[i - 1] \in Versions \cup {None}
      BY ChainAssumption DEF Typed
    <3>2. known' \in [Runs -> [Targets -> [edge : Versions \cup {None}, marker : BOOLEAN]]]
      BY <2>3, <3>1 DEF Typed
    <3>3. pc' \in [Runs -> [Targets -> Labels]] /\ LocksHeld' /\ Nested'
      BY <1>9, <2>1, <2>3, MoveControl DEF Read, Typed, LocksHeld
    <3> QED BY <1>9, <2>3, <3>2, <3>3 DEF Read, Typed
  <2> QED BY <1>9, <2>2, <2>3 DEF Read
<1>10. CASE Install(r, i)
  <2>1. Innermost(r, i)
    BY <1>10, NothingBelow DEF Install
  <2>2. content' \in [Files -> Versions \cup {None}] /\ content'[0] # None
    BY <1>10, ChainAssumption DEF Install, Typed
  <2>3. pc' \in [Runs -> [Targets -> Labels]] /\ LocksHeld' /\ Nested'
    BY <1>10, <2>1, MoveControl DEF Install, Typed, LocksHeld
  <2> QED BY <1>10, <2>2, <2>3 DEF Install, Typed
<1>11. CASE Commit(r, i)
  <2>1. Innermost(r, i)
    BY <1>11, NothingBelow DEF Commit
  <2> QED BY <1>11, <2>1, ReturnControl DEF Commit, Typed
<1> QED BY <1>1, <1>2, <1>3, <1>4, <1>5, <1>6, <1>7, <1>8, <1>9, <1>10, <1>11 DEF Step

-----------------------------------------------------------------------------
\* What the files and the database hold.
Data == Derived /\ RowsTrue /\ Carried

\* What a move, a return and a call leave alone.
LEMMA GotoFrame ==
  ASSUME Typed, NEW r \in Runs, NEW i \in Targets, NEW l, Goto(r, i, l)
  PROVE  \A q \in Runs, k \in Targets : pc'[q][k] = IF q = r /\ k = i THEN l ELSE pc[q][k]
BY DEF Typed, Goto

LEMMA ReturnFrame ==
  ASSUME Typed, NEW r \in Runs, NEW i \in Targets, NEW outcome, Return(r, i, outcome)
  PROVE  \A q \in Runs, k \in Targets :
           IF q = r /\ k = i THEN pc'[q][k] = outcome
           ELSE pc'[q][k] = pc[q][k] /\ known'[q][k] = known[q][k]
BY GotoFrame DEF Typed, Return

LEMMA CallFrame ==
  ASSUME Typed, NEW r \in Runs, NEW i \in Targets, NEW l, Call(r, i, l)
  PROVE  \A q \in Runs, k \in Targets :
           pc'[q][k] = IF q = r /\ k = i THEN l
                       ELSE IF q = r /\ k = i - 1 THEN "ensure" ELSE pc[q][k]
BY DEF Typed, Call

\* Only the owner of a target's lock is building it.
LEMMA OneBuilder ==
  ASSUME LocksHeld, NEW r \in Runs, NEW i \in Targets, pc[r][i] \in Locked,
         NEW q \in Runs, pc[q][i] \in Locked
  PROVE  q = r
BY DEF LocksHeld

\* A build is where it was or elsewhere: these are steps that write nothing.
LEMMA QuietData ==
  ASSUME TypeOK, Data, UNCHANGED <<content, db>>,
         \A r \in Runs, i \in Targets : pc'[r][i] \in Building =>
            pc'[r][i] = pc[r][i] /\ known'[r][i] = known[r][i]
  PROVE  Data'
<1>1. Derived' /\ RowsTrue'
  BY DEF Data, Derived, RowsTrue, NoNewer, db
<1>2. ASSUME NEW r \in Runs, NEW i \in Targets PROVE Carries(r, i)'
  BY DEF Data, Carried, Carries, NoNewer, db
<1> QED BY <1>1, <1>2 DEF Data, Carried

LEMMA QuietSteps ==
  ASSUME TypeOK, Data, NEW r \in Runs, NEW i \in Targets,
         \/ Start(r) \/ Crash(r) \/ Ensure(r, i) \/ Walk(r, i) \/ Compare(r, i)
         \/ Acquire(r, i) \/ Recheck(r, i)
  PROVE  Data'
<1> USE DEF TypeOK, history
<1>1. CASE Start(r)
  BY <1>1, QuietData, GotoFrame, ChainAssumption DEF Start
<1>2. CASE Crash(r)
  BY <1>2, QuietData DEF Crash, Typed
<1>3. CASE Ensure(r, i)
  <2>1. CASE Return(r, i, "ok")
    BY <1>3, <2>1, QuietData, ReturnFrame DEF Ensure
  <2>2. CASE Goto(r, i, "walk") /\ UNCHANGED known
    BY <1>3, <2>2, QuietData, GotoFrame DEF Ensure
  <2> QED BY <1>3, <2>1, <2>2 DEF Ensure
<1>4. CASE Walk(r, i)
  <2>1. CASE Call(r, i, "compare") /\ known' = [known EXCEPT ![r][i] = [edge |-> edge[i], marker |-> marker[i]]]
    <3>1. \A q \in Runs, k \in Targets : ~(q = r /\ k = i) => known'[q][k] = known[q][k]
      BY <2>1
    <3> QED BY <1>4, <2>1, <3>1, QuietData, CallFrame DEF Walk
  <2>2. ASSUME NEW l \in {"lock", "mark"}, Goto(r, i, l), UNCHANGED known
        PROVE  Data'
    BY <1>4, <2>2, QuietData, GotoFrame DEF Walk
  <2> QED BY <1>4, <2>1, <2>2 DEF Walk
<1>5. CASE Compare(r, i)
  <2>1. CASE Return(r, i, "failed")
    BY <1>5, <2>1, QuietData, ReturnFrame DEF Compare
  <2>2. ASSUME NEW l \in {"lock", "mark"}, Goto(r, i, l), UNCHANGED known
        PROVE  Data'
    BY <1>5, <2>2, QuietData, GotoFrame DEF Compare
  <2> QED BY <1>5, <2>1, <2>2 DEF Compare
<1>6. CASE Acquire(r, i)
  BY <1>6, QuietData, GotoFrame DEF Acquire
<1>7. CASE Recheck(r, i)
  BY <1>7, QuietData, GotoFrame DEF Recheck
<1> QED BY <1>1, <1>2, <1>3, <1>4, <1>5, <1>6, <1>7

LEMMA MarkData ==
  ASSUME TypeOK, Data, NEW r \in Runs, NEW i \in Targets, Mark(r, i)
  PROVE  Data'
<1> USE DEF TypeOK, Typed, Mark, Goto, Return
<1>1. Derived' /\ RowsTrue'
  BY DEF Data, Derived, RowsTrue, NoNewer
<1>2. ASSUME NEW q \in Runs, NEW k \in Targets PROVE Carries(q, k)'
  BY DEF Data, Carried, Carries, NoNewer
<1> QED BY <1>1, <1>2 DEF Data, Carried

\* The edge is cleared while the marker covers for it.
LEMMA BeginData ==
  ASSUME TypeOK, Data, NEW r \in Runs, NEW i \in Targets, Begin(r, i)
  PROVE  Data'
<1> USE DEF TypeOK, Typed, LocksHeld, Begin, Goto, Call, history
<1>1. Derived' /\ RowsTrue'
  BY DEF Data, Derived, RowsTrue, NoNewer
<1>2. ASSUME NEW q \in Runs, NEW k \in Targets PROVE Carries(q, k)'
  <2>1. CASE k = i
    BY <2>1 DEF Carries
  <2>2. CASE k # i
    BY <2>2 DEF Data, Carried, Carries, NoNewer
  <2> QED BY <2>1, <2>2
<1> QED BY <1>1, <1>2 DEF Data, Carried

LEMMA RecordData ==
  ASSUME TypeOK, Data, NEW r \in Runs, NEW i \in Targets, Record(r, i)
  PROVE  Data'
<1> USE DEF TypeOK, history
<1>1. CASE Return(r, i, "failed") /\ UNCHANGED edge
  BY <1>1, QuietData, ReturnFrame DEF Record, db
<1>2. CASE /\ Goto(r, i, "read") /\ UNCHANGED known
           /\ content[i - 1] # None /\ edge' = [edge EXCEPT ![i] = content[i - 1]]
  <2>1. marker[i] /\ UNCHANGED <<content, owner, marker>>
    BY DEF Record, Data, Carried, Carries
  <2>2. \A k \in Targets : edge'[k] = IF k = i THEN content[i - 1] ELSE edge[k]
    BY <1>2 DEF Typed
  <2>3. Derived' /\ RowsTrue'
    BY <2>1, <2>2 DEF Data, Derived, RowsTrue, NoNewer
  <2>4. ASSUME NEW q \in Runs, NEW k \in Targets PROVE Carries(q, k)'
    <3>1. CASE k # i
      BY <1>2, <2>1, <2>2, <3>1, GotoFrame DEF Data, Carried, Carries, NoNewer
    <3>2. CASE k = i /\ q = r
      <4>1. content[i - 1] <= content[i - 1]
        BY <1>2, ChainAssumption DEF Typed
      <4> QED BY <1>2, <2>1, <2>2, <3>2, <4>1, GotoFrame DEF Carries, NoNewer
    <3>3. CASE k = i /\ q # r
      BY <1>2, <2>1, <3>3, GotoFrame, OneBuilder DEF Record, Carries
    <3> QED BY <3>1, <3>2, <3>3
  <2> QED BY <2>3, <2>4 DEF Data, Carried
<1> QED BY <1>1, <1>2 DEF Record

LEMMA ReadData ==
  ASSUME TypeOK, Data, NEW r \in Runs, NEW i \in Targets, Read(r, i)
  PROVE  Data'
<1> USE DEF TypeOK, history, db
<1>1. CASE Return(r, i, "failed")
  BY <1>1, QuietData, ReturnFrame DEF Read
<1>2. CASE Goto(r, i, "install") /\ known' = [known EXCEPT ![r][i] = [edge |-> content[i - 1], marker |-> FALSE]]
  <2>1. marker[i] /\ edge[i] # None /\ NoNewer(edge[i], content[i - 1])
        /\ NoNewer(content[i], content[i - 1])
    BY DEF Read, Data, Derived, Carried, Carries
  <2>2. /\ known'[r][i].edge = content[i - 1]
        /\ \A q \in Runs, k \in Targets : ~(q = r /\ k = i) => known'[q][k] = known[q][k]
    BY <1>2 DEF Typed
  <2>3. Derived' /\ RowsTrue'
    BY DEF Read, Data, Derived, RowsTrue, NoNewer
  <2>4. ASSUME NEW q \in Runs, NEW k \in Targets PROVE Carries(q, k)'
    <3>1. CASE q = r /\ k = i
      <4>1. content[i - 1] # None => content[i - 1] <= content[i - 1]
        BY ChainAssumption DEF Typed
      <4> QED BY <1>2, <2>1, <2>2, <3>1, <4>1, GotoFrame DEF Read, Carries, NoNewer
    <3>2. CASE ~(q = r /\ k = i)
      BY <1>2, <2>2, <3>2, GotoFrame DEF Read, Data, Carried, Carries, NoNewer
    <3> QED BY <3>1, <3>2
  <2> QED BY <2>3, <2>4 DEF Data, Carried
<1> QED BY <1>1, <1>2 DEF Read

\* A file only ever gets newer.
LEMMA InstallGrows ==
  ASSUME TypeOK, Data, NEW r \in Runs, NEW i \in Targets, Install(r, i)
  PROVE  \A f \in Files : NoNewer(content[f], content'[f])
<1>1. \A f \in Files : f # i => content'[f] = content[f]
  BY DEF TypeOK, Typed, Install
<1>2. content'[i] = known[r][i].edge /\ NoNewer(content[i], content'[i])
  BY DEF TypeOK, Typed, Install, Data, Carried, Carries
<1> QED BY <1>1, <1>2, ChainAssumption DEF TypeOK, Typed, NoNewer

\* What was no newer than a file is no newer than the file that replaces it.
LEMMA GrowingKeeps ==
  ASSUME Typed, content' \in [Files -> Versions \cup {None}], NEW f \in Files,
         NEW v \in Versions \cup {None}, NoNewer(v, content[f]), NoNewer(content[f], content'[f])
  PROVE  NoNewer(v, content'[f])
BY ChainAssumption DEF Typed, NoNewer

LEMMA InstallData ==
  ASSUME TypeOK, TypeOK', Data, NEW r \in Runs, NEW i \in Targets, Install(r, i)
  PROVE  Data'
<1>1. \A f \in Files : NoNewer(content[f], content'[f])
  BY InstallGrows
<1>2. \A f \in Files : f # i => content'[f] = content[f]
  BY DEF TypeOK, Typed, Install
<1>3. \A k \in Targets : k \in Files /\ k - 1 \in Files
  BY ChainAssumption
<1>4. content'[i] = known[r][i].edge /\ content'[i - 1] = content[i - 1]
  BY <1>2, <1>3, ChainAssumption DEF TypeOK, Typed, Install
<1> USE DEF TypeOK
<1>5. Derived'
  <2> SUFFICES ASSUME NEW k \in Targets PROVE NoNewer(content'[k], content'[k - 1])
    BY DEF Derived
  <2>1. CASE k = i
    BY <1>4, <2>1 DEF Install, Data, Carried, Carries
  <2>2. CASE k # i
    BY <1>1, <1>2, <1>3, <2>2, GrowingKeeps DEF Typed, Data, Derived
  <2> QED BY <2>1, <2>2
<1>6. RowsTrue'
  BY <1>1, <1>3, GrowingKeeps DEF Typed, Data, RowsTrue, Install, db
<1>7. ASSUME NEW q \in Runs, NEW k \in Targets PROVE Carries(q, k)'
  <2>1. CASE q = r /\ k = i
    <3>1. /\ marker[i] /\ edge[i] # None /\ NoNewer(edge[i], known[r][i].edge)
          /\ UNCHANGED <<edge, marker>> /\ pc'[r][i] = "commit"
      BY GotoFrame DEF Install, Data, Carried, Carries, db
    <3> QED BY <1>4, <2>1, <3>1 DEF Carries
  <2>2. CASE q # r /\ k = i
    BY <2>2, GotoFrame, OneBuilder DEF Install, Carries
  <2>3. CASE k # i
    <3>1. pc'[q][k] = pc[q][k] /\ content'[k] = content[k] /\ UNCHANGED <<known, edge, marker>>
      BY <1>2, <1>3, <2>3 DEF Typed, Install, Goto, db
    <3>2. Carries(q, k)
      BY DEF Data, Carried
    <3>3. \A v \in Versions \cup {None} : NoNewer(v, content[k - 1]) => NoNewer(v, content'[k - 1])
      BY <1>1, <1>3, GrowingKeeps DEF Typed
    <3> QED BY <3>1, <3>2, <3>3 DEF Typed, Carries
  <2> QED BY <2>1, <2>2, <2>3
<1> QED BY <1>5, <1>6, <1>7 DEF Data, Carried

\* The marker goes when the row is true.
LEMMA CommitData ==
  ASSUME TypeOK, Data, NEW r \in Runs, NEW i \in Targets, Commit(r, i)
  PROVE  Data'
<1> USE DEF TypeOK, Commit
<1>1. Derived' /\ RowsTrue'
  BY DEF Typed, Return, Goto, Data, Derived, RowsTrue, Carried, Carries, NoNewer
<1>2. ASSUME NEW q \in Runs, NEW k \in Targets PROVE Carries(q, k)'
  <2>1. CASE k = i
    <3>1. pc'[q][i] \notin Building
      <4>1. CASE q = r
        BY <4>1, ReturnFrame
      <4>2. CASE q # r
        BY <4>2, ReturnFrame, OneBuilder
      <4> QED BY <4>1, <4>2
    <3> QED BY <2>1, <3>1 DEF Carries
  <2>2. CASE k # i
    <3>1. pc'[q][k] = pc[q][k] /\ known'[q][k] = known[q][k] /\ marker'[k] = marker[k]
      BY <2>2, ReturnFrame DEF Typed
    <3> QED BY <3>1 DEF Data, Carried, Carries, NoNewer
  <2> QED BY <2>1, <2>2
<1> QED BY <1>1, <1>2 DEF Data, Carried

LEMMA EditData ==
  ASSUME TypeOK, TypeOK', Data, EditSource
  PROVE  Data'
<1>1. \A f \in Files : NoNewer(content[f], content'[f])
  BY ChainAssumption DEF TypeOK, Typed, EditSource, NoNewer
<1>2. \A k \in Targets : /\ content'[k] = content[k] /\ content[k] \in Versions \cup {None}
                          /\ k - 1 \in Files
  BY ChainAssumption DEF TypeOK, Typed, EditSource
<1>3. \A k \in Targets, v \in Versions \cup {None} :
        NoNewer(v, content[k - 1]) => NoNewer(v, content'[k - 1])
  BY <1>1, <1>2, GrowingKeeps DEF TypeOK, Typed
<1> USE DEF TypeOK, EditSource, db
<1>4. Derived'
  BY <1>2, <1>3 DEF Typed, Data, Derived
<1>5. RowsTrue'
  BY <1>2 DEF Data, RowsTrue, NoNewer
<1>6. ASSUME NEW q \in Runs, NEW k \in Targets PROVE Carries(q, k)'
  <2>1. Carries(q, k) /\ content'[k] = content[k] /\ UNCHANGED <<pc, known, edge, marker>>
    BY <1>2 DEF Data, Carried
  <2>2. NoNewer(edge[k], content[k - 1]) => NoNewer(edge[k], content'[k - 1])
    BY <1>3 DEF Typed
  <2>3. NoNewer(known[q][k].edge, content[k - 1]) => NoNewer(known[q][k].edge, content'[k - 1])
    <3>1. known \in [Runs -> [Targets -> [edge : Versions \cup {None}, marker : BOOLEAN]]]
      BY DEF Typed
    <3>2. known[q][k].edge \in Versions \cup {None}
      BY <3>1
    <3> QED BY <1>3, <3>2
  <2> QED BY <2>1, <2>2, <2>3 DEF Carries, NoNewer
<1> QED BY <1>4, <1>5, <1>6 DEF Data, Carried

-----------------------------------------------------------------------------
LEMMA InvStep == IInv /\ [Next]_vars => IInv'
<1> SUFFICES ASSUME IInv, [Next]_vars PROVE IInv'
  OBVIOUS
<1>1. TypeOK /\ Nested /\ Data
  BY DEF IInv, Data
<1>2. TypeOK' /\ Nested' /\ Data' => IInv'
  BY DEF IInv, Data
<1>3. ASSUME NEW r \in Runs, Start(r) PROVE IInv'
  <2>1. Top \in Targets
    BY ChainAssumption
  <2> QED BY <1>1, <1>2, <1>3, <2>1, StartControl, QuietSteps
<1>4. ASSUME NEW r \in Runs, Crash(r) PROVE IInv'
  <2>1. Top \in Targets
    BY ChainAssumption
  <2> QED BY <1>1, <1>2, <1>4, <2>1, CrashControl, QuietSteps
<1>5. ASSUME NEW r \in Runs, NEW i \in Targets, Step(r, i) PROVE IInv'
  <2>1. TypeOK' /\ Nested'
    BY <1>1, <1>5, StepControl
  <2>2. Data'
    BY <1>1, <1>5, <2>1, QuietSteps, MarkData, BeginData, RecordData, ReadData, InstallData, CommitData
    DEF Step
  <2> QED BY <1>2, <2>1, <2>2
<1>6. CASE EditSource
  BY <1>1, <1>2, <1>6, EditControl, EditData
<1>7. CASE UNCHANGED vars
  BY <1>7 DEF IInv, vars, TypeOK, Typed, LocksHeld, Nested, Derived, RowsTrue, Carried, Carries, NoNewer
<1> QED BY <1>3, <1>4, <1>5, <1>6, <1>7 DEF Next

THEOREM Invariance == Spec => []IInv
BY InitHolds, InvStep, PTL DEF Spec

\* Types are right, and a target's lock is with the run that builds it.
THEOREM TypeCorrect == Spec => []TypeOK
<1>1. IInv => TypeOK
  BY DEF IInv
<1> QED BY <1>1, Invariance, PTL

\* A recorded edge that matches the dependency proves the target up to date
\* (is_ood_walk).
THEOREM RecordsAreTrue == Spec => []RecordsFaithful
<1>1. IInv => RecordsFaithful
  <2> SUFFICES ASSUME IInv, NEW i \in Targets, owner[i] # None, ~marker[i], edge[i] = content[i - 1]
               PROVE  content[i] = content[i - 1]
    BY DEF RecordsFaithful
  <2>1. /\ edge[i] # None /\ content[i] # None /\ content[i - 1] # None
        /\ edge[i] <= content[i] /\ content[i] <= content[i - 1]
    BY DEF IInv, RowsTrue, Derived, NoNewer
  <2>2. content[i] \in Int /\ content[i - 1] \in Int
    BY <2>1, ChainAssumption DEF IInv, TypeOK, Typed
  <2> QED BY <2>1, <2>2
<1> QED BY <1>1, Invariance, PTL

\* A target never goes back to an older source (the target's lock, build).
THEOREM TargetsNeverGoBack == Spec => NeverBackwards
<1>1. IInv /\ [Next]_vars => [\A i \in Targets : content[i] # None => content'[i] >= content[i]]_vars
  <2> SUFFICES ASSUME IInv, [Next]_vars, NEW i \in Targets, content[i] # None, ~UNCHANGED vars
               PROVE  content'[i] >= content[i]
    OBVIOUS
  <2>1. TypeOK /\ Data /\ i \in Files
    BY ChainAssumption DEF IInv, Data
  <2>2. ASSUME content'[i] = content[i] PROVE content'[i] >= content[i]
    BY <2>1, <2>2, ChainAssumption DEF TypeOK, Typed
  <2>3. ASSUME NEW r \in Runs, NEW k \in Targets, Install(r, k)
        PROVE  content'[i] >= content[i]
    <3>1. NoNewer(content[i], content'[i])
      BY <2>1, <2>3, InstallGrows
    <3> QED BY <3>1 DEF NoNewer
  <2>4. CASE EditSource
    BY <2>1, <2>2, <2>4, ChainAssumption DEF EditSource, TypeOK, Typed
  <2> QED BY <2>2, <2>3, <2>4
      DEF Next, Step, Start, Crash, Ensure, Walk, Compare, Acquire, Recheck, Mark, Begin, Record, Read, Commit
<1> QED BY <1>1, Invariance, PTL DEF Spec, NeverBackwards

-----------------------------------------------------------------------------
\* A RUN WITH NO OTHER BESIDE IT

\* f is there, and derived from the source of r's start or a newer one.
Fresh(r, f) == content[f] # None /\ content[f] >= since[r]

\* What r knows of target i at each point is enough for what it does next.
Sound(r, i) ==
  /\ owner[i] = r \/ pc[r][i] \in {"ok", "mark", "commit"} => Fresh(r, i)
  /\ pc[r][i] \in Working \ {"ensure"} => owner[i] # r
  /\ i \in verified[r] => owner[i] = r
  /\ pc[r][i] = "mark" => owner[i] # None
  /\ pc[r][i] = "compare" =>
       owner[i] # None /\ edge[i] = known[r][i].edge /\ marker[i] = known[r][i].marker
  /\ pc[r][i] \in {"lock", "recheck"} =>
       \/ owner[i] = None \/ content[i] = None \/ marker[i]
       \/ Fresh(r, i - 1)
       \/ pc[r][i] = "lock" /\ r \in Forced /\ i = Top
  /\ pc[r][i] = "read" => Fresh(r, i - 1)
  /\ pc[r][i] = "install" => known[r][i].edge # None /\ known[r][i].edge >= since[r]

Unstarted(r) ==
  verified[r] = {} /\ \A i \in Targets : pc[r][i] = "idle" /\ owner[i] # r

Undisturbed(r) ==
  /\ \A q \in Runs : Active(q) => q = r
  /\ Fresh(r, 0)
  /\ \A i \in Targets : Sound(r, i)

Alone ==
  /\ \A r \in Runs : pc[r][Top] = "idle" => Unstarted(r)
  /\ \A r \in Runs \ met : Active(r) => Undisturbed(r)

\* Where a step of a call leads: it moves or returns, and may call the next.
LEMMA StepMoves ==
  ASSUME Typed, NEW r \in Runs, NEW i \in Targets, Step(r, i)
  PROVE  /\ pc[r][i] \in Working /\ pc'[r][i] # "idle"
         /\ \A q \in Runs, k \in Targets :
              \/ pc'[q][k] = pc[q][k]
              \/ q = r /\ k = i
              \/ q = r /\ pc'[q][k] = "ensure"
<1>1. ASSUME NEW l, l # "idle", Goto(r, i, l) \/ Return(r, i, l) \/ Call(r, i, l)
      PROVE  /\ pc'[r][i] # "idle"
             /\ \A q \in Runs, k \in Targets :
                  \/ pc'[q][k] = pc[q][k]
                  \/ q = r /\ k = i
                  \/ q = r /\ pc'[q][k] = "ensure"
  BY <1>1, GotoFrame, ReturnFrame, CallFrame
<1>2. pc[r][i] \in Working
  BY DEF Step, Ensure, Walk, Compare, Acquire, Recheck, Mark, Begin, Record, Read, Install, Commit
<1>3. \E l \in Labels \ {"idle"} : Goto(r, i, l) \/ Return(r, i, l) \/ Call(r, i, l)
  BY DEF Step, Ensure, Walk, Compare, Acquire, Recheck, Mark, Begin, Record, Read, Install, Commit
<1> QED BY <1>1, <1>2, <1>3

\* What a step of a call writes, all of it about its own target.
LEMMA StepWrites ==
  ASSUME Typed, NEW r \in Runs, NEW i \in Targets, Step(r, i)
  PROVE  /\ UNCHANGED <<since, met>>
         /\ \A k \in Targets : k # i =>
              /\ content'[k] = content[k] /\ owner'[k] = owner[k]
              /\ edge'[k] = edge[k] /\ marker'[k] = marker[k]
              /\ known'[r][k] = known[r][k]
         /\ \A q \in Runs, k \in Targets : ~(q = r /\ k = i) => (k \in verified'[q] <=> k \in verified[q])
         /\ owner'[i] \in {owner[i], r}
<1> USE DEF Typed, db, history, Return
<1>1. CASE Ensure(r, i) \/ Compare(r, i)
  BY <1>1 DEF Ensure, Compare
<1>2. CASE Walk(r, i)
  <2>1. known' \in {known, [known EXCEPT ![r][i] = [edge |-> edge[i], marker |-> marker[i]]]}
    BY <1>2 DEF Walk
  <2>2. UNCHANGED <<content, db, history>>
    BY <1>2 DEF Walk
  <2> QED BY <2>1, <2>2
<1>3. CASE Acquire(r, i) \/ Recheck(r, i)
  BY <1>3 DEF Acquire, Recheck
<1>4. CASE Mark(r, i)
  BY <1>4 DEF Mark
<1>5. CASE Begin(r, i)
  BY <1>5 DEF Begin
<1>6. CASE Record(r, i)
  BY <1>6 DEF Record
<1>7. CASE Read(r, i)
  BY <1>7 DEF Read
<1>8. CASE Install(r, i)
  BY <1>8 DEF Install
<1>9. CASE Commit(r, i)
  BY <1>9 DEF Commit
<1> QED BY <1>1, <1>2, <1>3, <1>4, <1>5, <1>6, <1>7, <1>8, <1>9 DEF Step

\* Files that get newer stay fresh.
LEMMA FreshStays ==
  ASSUME Typed, Typed', UNCHANGED since, NEW r \in Runs, NEW f \in Files, Fresh(r, f),
         NoNewer(content[f], content'[f])
  PROVE  Fresh(r, f)'
<1>1. /\ content[f] \in Versions \cup {None} /\ content'[f] \in Versions \cup {None}
      /\ since[r] \in Versions
  BY DEF Typed
<1> QED BY <1>1, ChainAssumption DEF Fresh, NoNewer

\* Every step makes files newer or leaves them.
LEMMA FilesGrow ==
  ASSUME IInv, NEW r \in Runs, NEW i \in Targets, Step(r, i)
  PROVE  \A f \in Files : content'[f] = content[f] \/ NoNewer(content[f], content'[f])
<1>1. CASE Install(r, i)
  BY <1>1, InstallGrows DEF IInv, Data
<1>2. CASE ~Install(r, i)
  BY <1>2 DEF Step, Ensure, Walk, Compare, Acquire, Recheck, Mark, Begin, Record, Read, Commit
<1> QED BY <1>1, <1>2

LEMMA FreshAfter ==
  ASSUME IInv, IInv', NEW r \in Runs, NEW i \in Targets, Step(r, i), NEW f \in Files, Fresh(r, f)
  PROVE  Fresh(r, f)'
<1>1. UNCHANGED since
  BY StepWrites DEF IInv, TypeOK
<1>2. CASE content'[f] = content[f]
  BY <1>1, <1>2 DEF Fresh
<1>3. CASE NoNewer(content[f], content'[f])
  BY <1>1, <1>3, FreshStays DEF IInv, TypeOK
<1> QED BY <1>2, <1>3, FilesGrow

\* The targets a step is not about.
LEMMA OthersSound ==
  ASSUME IInv, IInv', NEW r \in Runs, NEW i \in Targets, Step(r, i),
         NEW k \in Targets, k # i, Sound(r, k)
  PROVE  Sound(r, k)'
<1>1. /\ UNCHANGED since
      /\ content'[k] = content[k] /\ owner'[k] = owner[k]
      /\ edge'[k] = edge[k] /\ marker'[k] = marker[k]
      /\ known'[r][k] = known[r][k] /\ pc'[r][k] \in {pc[r][k], "ensure"}
      /\ k \in verified'[r] => k \in verified[r]
  BY StepWrites, StepMoves DEF IInv, TypeOK
<1>2. Fresh(r, k) => Fresh(r, k)'
  BY <1>1 DEF Fresh
<1>3. Fresh(r, k - 1) => Fresh(r, k - 1)'
  BY FreshAfter, ChainAssumption
<1> QED BY <1>1, <1>2, <1>3 DEF Sound

\* A target whose row matches its dependency is as fresh as that.
LEMMA MatchFresh ==
  ASSUME IInv, NEW r \in Runs, NEW i \in Targets, Fresh(r, i - 1),
         owner[i] # None, ~marker[i], edge[i] = content[i - 1]
  PROVE  Fresh(r, i)
<1>1. /\ edge[i] # None /\ content[i] # None /\ content[i - 1] # None
      /\ edge[i] <= content[i] /\ content[i] <= content[i - 1]
  BY DEF IInv, RowsTrue, Derived, NoNewer
<1>2. content[i] \in Int /\ content[i - 1] \in Int
  BY <1>1, ChainAssumption DEF IInv, TypeOK, Typed
<1> QED BY <1>1, <1>2 DEF Fresh

\* An answered call leaves the dependency fresh.
LEMMA AnswerFresh ==
  ASSUME NEW r \in Runs, NEW i \in Targets, Undisturbed(r), Answered(r, i)
  PROVE  Fresh(r, i - 1)
<1>1. CASE i = 1
  BY <1>1 DEF Undisturbed
<1>2. CASE i # 1
  <2>1. i - 1 \in Targets
    BY <1>2, ChainAssumption
  <2> QED BY <1>2, <2>1 DEF Undisturbed, Sound, Answered, Answer
<1> QED BY <1>1, <1>2

\* The target a step is about.
LEMMA OwnSound ==
  ASSUME IInv, IInv', NEW r \in Runs, NEW i \in Targets, Step(r, i), Undisturbed(r)
  PROVE  Sound(r, i)'
<1>1. Sound(r, i) /\ Typed /\ UNCHANGED since
  BY StepWrites DEF Undisturbed, IInv, TypeOK
<1>2. (Fresh(r, i) => Fresh(r, i)') /\ (Fresh(r, i - 1) => Fresh(r, i - 1)')
  BY FreshAfter, ChainAssumption
<1>3. r # None
  BY ChainAssumption
<1>4. Answered(r, i) => Fresh(r, i - 1)
  BY AnswerFresh
<1> USE DEF db, history
<1>5. CASE Ensure(r, i)
  <2>1. CASE owner[i] = r /\ Return(r, i, "ok")
    <3>1. pc'[r][i] = "ok"
      BY <1>1, <2>1, ReturnFrame
    <3> QED BY <1>1, <1>2, <1>5, <2>1, <3>1 DEF Ensure, Sound
  <2>2. CASE owner[i] # r /\ Goto(r, i, "walk")
    <3>1. pc'[r][i] = "walk"
      BY <1>1, <2>2, GotoFrame
    <3> QED BY <1>1, <1>2, <1>5, <2>2, <3>1 DEF Ensure, Sound
  <2> QED BY <1>5, <2>1, <2>2 DEF Ensure
<1>6. CASE Walk(r, i)
  <2>0. owner[i] # r
    BY <1>1, <1>6 DEF Walk, Sound
  <2>1. CASE (owner[i] = None \/ content[i] = None \/ marker[i]) /\ Goto(r, i, "lock")
    <3>1. pc'[r][i] = "lock"
      BY <1>1, <2>1, GotoFrame
    <3> QED BY <1>1, <1>2, <1>6, <2>0, <2>1, <3>1 DEF Walk, Sound
  <2>2. CASE /\ owner[i] # None /\ Call(r, i, "compare")
             /\ known' = [known EXCEPT ![r][i] = [edge |-> edge[i], marker |-> marker[i]]]
    <3>1. pc'[r][i] = "compare"
      BY <1>1, <2>2, CallFrame
    <3>2. known'[r][i].edge = edge[i] /\ known'[r][i].marker = marker[i]
      BY <1>1, <2>2 DEF Typed
    <3> QED BY <1>1, <1>2, <1>6, <2>0, <2>2, <3>1, <3>2 DEF Walk, Sound
  <2>3. ~(owner[i] # None /\ edge[i] = None /\ ~marker[i])
    BY DEF IInv, RowsTrue
  <2> QED BY <1>6, <2>1, <2>2, <2>3 DEF Walk
<1>7. CASE Compare(r, i)
  <2>0. /\ owner[i] # r /\ owner[i] # None
        /\ edge[i] = known[r][i].edge /\ marker[i] = known[r][i].marker
    BY <1>1, <1>7 DEF Compare, Sound
  <2>1. CASE Return(r, i, "failed")
    <3>1. pc'[r][i] = "failed"
      BY <1>1, <2>1, ReturnFrame
    <3> QED BY <1>1, <1>2, <1>7, <2>0, <3>1 DEF Compare, Sound
  <2>2. CASE Answered(r, i) /\ content[i - 1] = known[r][i].edge /\ ~known[r][i].marker /\ Goto(r, i, "mark")
    <3>1. pc'[r][i] = "mark"
      BY <1>1, <2>2, GotoFrame
    <3>2. Fresh(r, i)
      BY <1>4, <2>0, <2>2, MatchFresh
    <3> QED BY <1>1, <1>2, <1>7, <2>0, <3>1, <3>2 DEF Compare, Sound
  <2>3. CASE Answered(r, i) /\ Goto(r, i, "lock")
    <3>1. pc'[r][i] = "lock"
      BY <1>1, <2>3, GotoFrame
    <3> QED BY <1>1, <1>2, <1>4, <1>7, <2>0, <2>3, <3>1 DEF Compare, Sound
  <2> QED BY <1>7, <2>1, <2>2, <2>3 DEF Compare
<1>8. CASE Acquire(r, i)
  <2>1. pc'[r][i] = IF r \in Forced /\ i = Top THEN "begin" ELSE "recheck"
    BY <1>1, <1>8, GotoFrame DEF Acquire
  <2> QED BY <1>1, <1>2, <1>8, <2>1 DEF Acquire, Sound
<1>9. CASE Recheck(r, i)
  <2>0. owner[i] # r
    BY <1>1, <1>9 DEF Recheck, Sound
  <2>1. CASE Goto(r, i, "begin")
    <3>1. pc'[r][i] = "begin"
      BY <1>1, <2>1, GotoFrame
    <3> QED BY <1>1, <1>2, <1>9, <2>0, <3>1 DEF Recheck, Sound
  <2>2. CASE /\ Goto(r, i, "mark")
             /\ owner[i] # None /\ content[i] # None /\ ~marker[i]
             /\ edge[i] = None \/ edge[i] = content[i - 1]
    <3>1. pc'[r][i] = "mark"
      BY <1>1, <2>2, GotoFrame
    <3>2. Fresh(r, i - 1)
      BY <1>1, <1>9, <2>2 DEF Recheck, Sound
    <3>3. edge[i] # None
      BY <2>2 DEF IInv, RowsTrue
    <3>4. Fresh(r, i)
      BY <2>2, <3>2, <3>3, MatchFresh
    <3> QED BY <1>1, <1>2, <1>9, <2>0, <2>2, <3>1, <3>4 DEF Recheck, Sound
  <2> QED BY <1>9, <2>0, <2>1, <2>2 DEF Recheck
<1>10. CASE Mark(r, i)
  <2>1. pc'[r][i] = "ok" /\ Fresh(r, i) /\ owner[i] # None
    BY <1>1, <1>10, ReturnFrame DEF Mark, Sound
  <2>2. owner'[i] = r
    BY <1>1, <1>10, <2>1 DEF Mark, Typed
  <2> QED BY <1>1, <1>2, <1>10, <2>1, <2>2 DEF Mark, Sound
<1>11. CASE Begin(r, i)
  <2>1. pc'[r][i] = "record" /\ owner[i] # r
    BY <1>1, <1>11, CallFrame DEF Begin, Sound
  <2> QED BY <1>1, <1>2, <1>11, <2>1 DEF Begin, Sound
<1>12. CASE Record(r, i)
  <2>0. owner[i] # r
    BY <1>1, <1>12 DEF Record, Sound
  <2>1. CASE Return(r, i, "failed")
    <3>1. pc'[r][i] = "failed"
      BY <1>1, <2>1, ReturnFrame
    <3> QED BY <1>1, <1>2, <1>12, <2>0, <3>1 DEF Record, Sound
  <2>2. CASE Answered(r, i) /\ Goto(r, i, "read")
    <3>1. pc'[r][i] = "read"
      BY <1>1, <2>2, GotoFrame
    <3> QED BY <1>1, <1>2, <1>4, <1>12, <2>0, <2>2, <3>1 DEF Record, Sound
  <2> QED BY <1>12, <2>1, <2>2 DEF Record
<1>13. CASE Read(r, i)
  <2>0. owner[i] # r /\ Fresh(r, i - 1)
    BY <1>1, <1>13 DEF Read, Sound
  <2>1. CASE Return(r, i, "failed")
    <3>1. pc'[r][i] = "failed"
      BY <1>1, <2>1, ReturnFrame
    <3> QED BY <1>1, <1>2, <1>13, <2>0, <3>1 DEF Read, Sound
  <2>2. CASE /\ Goto(r, i, "install")
             /\ known' = [known EXCEPT ![r][i] = [edge |-> content[i - 1], marker |-> FALSE]]
    <3>1. pc'[r][i] = "install"
      BY <1>1, <2>2, GotoFrame
    <3>2. known'[r][i].edge = content[i - 1]
      BY <1>1, <2>2 DEF Typed
    <3> QED BY <1>1, <1>2, <1>13, <2>0, <3>1, <3>2 DEF Read, Sound, Fresh
  <2> QED BY <1>13, <2>1, <2>2 DEF Read
<1>14. CASE Install(r, i)
  <2>1. pc'[r][i] = "commit" /\ owner[i] # r
    BY <1>1, <1>14, GotoFrame DEF Install, Sound
  <2>2. content'[i] = known[r][i].edge /\ known[r][i].edge # None /\ known[r][i].edge >= since[r]
    BY <1>1, <1>14, ChainAssumption DEF Install, Sound, Typed
  <2> QED BY <1>1, <1>2, <1>14, <2>1, <2>2 DEF Install, Sound, Fresh
<1>15. CASE Commit(r, i)
  <2>1. pc'[r][i] = "ok" /\ Fresh(r, i)
    BY <1>1, <1>15, ReturnFrame DEF Commit, Sound
  <2>2. owner'[i] = r
    BY <1>1, <1>15 DEF Commit, Typed
  <2> QED BY <1>1, <1>2, <1>15, <2>1, <2>2 DEF Commit, Sound
<1> QED BY <1>5, <1>6, <1>7, <1>8, <1>9, <1>10, <1>11, <1>12, <1>13, <1>14, <1>15 DEF Step

\* A step of a run that others are beside, or of the run itself.
LEMMA AloneStep ==
  ASSUME IInv, IInv', Alone, NEW r \in Runs, NEW i \in Targets, Step(r, i)
  PROVE  Alone'
<1>1. Active(r) /\ UNCHANGED <<since, met>>
  BY StepWrites, StepMoves DEF IInv, TypeOK, Active
<1>2. \A q \in Runs : Active(q)' => Active(q)
  BY <1>1, StepMoves DEF IInv, TypeOK, Active
<1>3. ASSUME NEW q \in Runs, pc'[q][Top] = "idle" PROVE Unstarted(q)'
  <2>0. Top \in Targets
    BY ChainAssumption
  <2>1. CASE q = r
    <3>1. pc[r][Top] # "idle"
      <4>1. CASE i = Top
        BY <4>1, StepMoves DEF IInv, TypeOK
      <4>2. CASE i # Top
        BY <2>0, <4>2, StepMoves DEF IInv, TypeOK, Nested
      <4> QED BY <4>1, <4>2
    <3> QED BY <1>3, <2>0, <2>1, <3>1, StepMoves DEF IInv, TypeOK
  <2>2. CASE q # r
    <3>1. \A k \in Targets : pc'[q][k] = pc[q][k]
      BY <2>2, StepMoves DEF IInv, TypeOK
    <3>2. verified'[q] = {}
      BY <1>3, <2>0, <2>2, <3>1, StepWrites DEF IInv, TypeOK, Typed, Alone, Unstarted
    <3>3. \A k \in Targets : owner'[k] # q
      BY <1>3, <2>0, <2>2, <3>1, StepWrites DEF IInv, TypeOK, Alone, Unstarted
    <3> QED BY <1>3, <2>0, <3>1, <3>2, <3>3 DEF Alone, Unstarted
  <2> QED BY <2>1, <2>2
<1>4. ASSUME NEW q \in Runs \ met', Active(q)' PROVE Undisturbed(q)'
  <2>1. Undisturbed(q) /\ q = r
    BY <1>1, <1>2, <1>4 DEF Alone, Undisturbed
  <2>2. \A p \in Runs : Active(p)' => p = q
    BY <1>2, <2>1 DEF Undisturbed
  <2>3. Fresh(q, 0)'
    BY <2>1, FreshAfter, ChainAssumption DEF Undisturbed
  <2>4. \A k \in Targets : Sound(q, k)'
    BY <2>1, OthersSound, OwnSound DEF Undisturbed
  <2> QED BY <2>2, <2>3, <2>4 DEF Undisturbed
<1> QED BY <1>3, <1>4 DEF Alone

\* A run starts: it is alone, or it and the others have met.
LEMMA AloneStart ==
  ASSUME IInv, IInv', Alone, NEW r \in Runs, Start(r)
  PROVE  Alone'
<1> USE DEF db
<1>0. Top \in Targets /\ 0 \in Files /\ Typed
  BY ChainAssumption DEF IInv, TypeOK
<1>1. Unstarted(r)
  BY DEF Start, Alone
<1>2. /\ pc'[r][Top] \in {"lock", "ensure"} /\ (pc'[r][Top] = "lock" => r \in Forced)
      /\ \A q \in Runs, k \in Targets : ~(q = r /\ k = Top) => pc'[q][k] = pc[q][k]
  BY <1>0, GotoFrame DEF Start
<1>3. since'[r] = content[0] /\ \A q \in Runs : q # r => since'[q] = since[q]
  BY <1>0 DEF Start, Typed
<1>4. \A q \in Runs : q # r => (Active(q)' <=> Active(q))
  BY <1>2 DEF Active
<1>5. ASSUME NEW q \in Runs, pc'[q][Top] = "idle" PROVE Unstarted(q)'
  BY <1>0, <1>2, <1>5 DEF Start, Alone, Unstarted
<1>6. ASSUME NEW q \in Runs \ met', Active(q)' PROVE Undisturbed(q)'
  <2>1. CASE q = r
    <3>1. \A p \in Runs : ~Active(p)
      BY <1>6, <2>1 DEF Start
    <3>2. \A p \in Runs : Active(p)' => p = q
      BY <1>4, <2>1, <3>1
    <3>3. Fresh(q, 0)'
      <4>1. content[0] \in Versions
        BY <1>0 DEF Typed
      <4> QED BY <1>3, <2>1, <4>1, ChainAssumption DEF Start, Fresh
    <3>4. ASSUME NEW k \in Targets PROVE Sound(q, k)'
      <4>1. owner'[k] # r /\ verified'[r] = {}
        BY <1>1 DEF Start, Unstarted
      <4>2. \/ pc'[r][k] = "idle"
            \/ pc'[r][k] = "ensure"
            \/ pc'[r][k] = "lock" /\ k = Top /\ r \in Forced
        BY <1>0, <1>1, <1>2 DEF Unstarted
      <4> QED BY <2>1, <4>1, <4>2 DEF Sound
    <3> QED BY <3>2, <3>3, <3>4 DEF Undisturbed
  <2>2. CASE q # r
    <3>1. Active(q)
      BY <1>4, <1>6, <2>2
    <3>2. q \in met'
      BY <3>1 DEF Start
    <3> QED BY <1>6, <3>2
  <2> QED BY <2>1, <2>2
<1> QED BY <1>5, <1>6 DEF Alone

LEMMA AloneCrash ==
  ASSUME IInv, IInv', Alone, NEW r \in Runs, Crash(r)
  PROVE  Alone'
<1> USE DEF db, history
<1>0. Top \in Targets /\ Typed
  BY ChainAssumption DEF IInv, TypeOK
<1>1. \A q \in Runs, k \in Targets :
        IF q = r THEN pc'[q][k] = "dead" ELSE pc'[q][k] = pc[q][k] /\ known'[q][k] = known[q][k]
  BY <1>0 DEF Crash, Typed
<1>2. ~Active(r)' /\ \A q \in Runs : q # r => (Active(q)' <=> Active(q))
  BY <1>1 DEF Active
<1>3. ASSUME NEW q \in Runs, pc'[q][Top] = "idle" PROVE Unstarted(q)'
  BY <1>0, <1>1, <1>3 DEF Crash, Alone, Unstarted
<1>4. ASSUME NEW q \in Runs \ met', Active(q)' PROVE Undisturbed(q)'
  <2>1. Undisturbed(q) /\ q # r
    BY <1>2, <1>4 DEF Crash, Alone
  <2> QED BY <1>2, <2>1 DEF Crash, Undisturbed
<1> QED BY <1>3, <1>4 DEF Alone

LEMMA AloneEdit ==
  ASSUME IInv, IInv', Alone, EditSource
  PROVE  Alone'
<1> USE DEF db, history
<1>0. Typed /\ Typed' /\ 0 \in Files /\ UNCHANGED since
  BY ChainAssumption DEF IInv, TypeOK, EditSource
<1>1. \A k \in Targets : content'[k] = content[k]
  BY <1>0 DEF EditSource, Typed
<1>2. NoNewer(content[0], content'[0])
  BY <1>0, ChainAssumption DEF EditSource, Typed, NoNewer
<1>3. ASSUME NEW q \in Runs, NEW f \in Files, Fresh(q, f) PROVE Fresh(q, f)'
  <2>1. CASE f = 0
    BY <1>0, <1>2, <1>3, <2>1, FreshStays
  <2>2. CASE f # 0
    BY <1>0, <1>1, <1>3, <2>2 DEF Fresh
  <2> QED BY <2>1, <2>2
<1>4. ASSUME NEW q \in Runs, NEW k \in Targets, Sound(q, k) PROVE Sound(q, k)'
  <2>1. (Fresh(q, k) => Fresh(q, k)') /\ (Fresh(q, k - 1) => Fresh(q, k - 1)')
    BY <1>3, ChainAssumption
  <2> QED BY <1>1, <1>4, <2>1 DEF EditSource, Sound
<1>5. ASSUME NEW q \in Runs, Undisturbed(q) PROVE Undisturbed(q)'
  <2>1. Fresh(q, 0)' /\ \A k \in Targets : Sound(q, k)'
    BY <1>0, <1>3, <1>4, <1>5 DEF Undisturbed
  <2> QED BY <1>5, <2>1 DEF EditSource, Undisturbed, Active
<1>6. ASSUME NEW q \in Runs PROVE (Unstarted(q) <=> Unstarted(q)') /\ (Active(q) <=> Active(q)')
  BY DEF EditSource, Unstarted, Active
<1> QED BY <1>5, <1>6 DEF EditSource, Alone

LEMMA AloneNext == IInv /\ Alone /\ [Next]_vars => Alone'
<1> SUFFICES ASSUME IInv, Alone, [Next]_vars PROVE Alone'
  OBVIOUS
<1>1. IInv'
  BY InvStep
<1>2. CASE UNCHANGED vars
  <2>1. \A q \in Runs : /\ Active(q)' <=> Active(q)
                        /\ Undisturbed(q) => Undisturbed(q)'
                        /\ Unstarted(q) => Unstarted(q)'
    BY <1>2 DEF vars, Active, Undisturbed, Unstarted, Sound, Fresh
  <2> QED BY <1>2, <2>1 DEF vars, Alone
<1> QED BY <1>1, <1>2, AloneStep, AloneStart, AloneCrash, AloneEdit DEF Next

LEMMA AloneAlways == Spec => []Alone
<1>1. Init => Alone
  <2> SUFFICES ASSUME Init PROVE Alone
    OBVIOUS
  <2>1. \A r \in Runs : ~Active(r)
    BY DEF Init, Active
  <2>2. \A r \in Runs : Unstarted(r)
    BY ChainAssumption DEF Init, Unstarted
  <2> QED BY <2>1, <2>2 DEF Alone
<1> QED BY <1>1, AloneNext, Invariance, PTL DEF Spec

\* A run with no other beside it leaves the last target as fresh as the source
\* it started with, however stale, half built or killed what it found
\* (ensure, build, is_ood_walk).
THEOREM FreshWhenAlone == Spec => FreshAlone
<1>1. IInv /\ Alone /\ [Next]_vars =>
        [\A r \in Runs \ met : Succeeds(r) => content'[Top] >= since[r]]_vars
  <2> SUFFICES ASSUME IInv, Alone, Next, NEW r \in Runs \ met, Succeeds(r)
               PROVE  content'[Top] >= since[r]
    OBVIOUS
  <2>0. Top \in Targets /\ IInv'
    BY ChainAssumption, InvStep
  <2>1. Active(r) /\ Undisturbed(r)
    BY <2>0 DEF Succeeds, Active, Alone
  <2>2. PICK q \in Runs, i \in Targets : Step(q, i)
    <3>1. ASSUME NEW q \in Runs, Start(q) PROVE FALSE
      BY <2>0, <3>1, GotoFrame DEF Start, Succeeds, IInv, TypeOK
    <3>2. ASSUME NEW q \in Runs, Crash(q) PROVE FALSE
      BY <2>0, <3>2 DEF Crash, Succeeds, IInv, TypeOK, Typed
    <3>3. ~EditSource
      BY DEF EditSource, Succeeds
    <3> QED BY <3>1, <3>2, <3>3 DEF Next
  <2>3. q = r /\ since'[r] = since[r]
    BY <2>1, <2>2, StepMoves, StepWrites DEF IInv, TypeOK, Active, Undisturbed
  <2>4. Sound(r, Top)'
    BY <2>0, <2>1, <2>2, <2>3, OthersSound, OwnSound DEF Undisturbed
  <2> QED BY <2>3, <2>4 DEF Succeeds, Sound, Fresh
<1> QED BY <1>1, Invariance, AloneAlways, PTL DEF Spec, FreshAlone

\* Such a run builds no target again that it has built or verified (ensure and
\* the second look under the lock).
THEOREM BuiltOnceWhenAlone == Spec => BuiltOnce
<1>1. IInv /\ Alone /\ [Next]_vars =>
        [\A r \in Runs \ met, i \in Targets :
           pc[r][i] = "begin" /\ pc'[r][i] = "record" => i \notin verified[r]]_vars
  BY DEF Active, Alone, Undisturbed, Sound
<1> QED BY <1>1, Invariance, AloneAlways, PTL DEF Spec, BuiltOnce
=============================================================================
