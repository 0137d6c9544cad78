------------------------------- MODULE RunLog -------------------------------
(***************************************************************************)
(* The build logs of one top-level run: build_inner's writer protocol and  *)
(* redo()'s epilogue in src/src/build.rs, create_log, event_append,        *)
(* DoneGuard and the follower in src/src/logs.rs, probe_unlocked in        *)
(* src/src/lock.rs.                                                        *)
(*                                                                         *)
(* Every build of a target makes a new instance of its log at the same     *)
(* path; builders append lines to it and `do' lines to their caller's log, *)
(* and a follower thread walks the instances depth first.  Appending and   *)
(* deleting go by path, reading by open file.  A line of a do-file, and a  *)
(* `waiting' event, are the same to the follower: it prints them.          *)
(*                                                                         *)
(* Other runs leave these files alone while this one lives (LogSweep).     *)
(***************************************************************************)
EXTENDS Naturals, Sequences, FiniteSets

CONSTANTS
  Targets,   \* the targets this run builds
  Run,       \* the run trace, in the place of a target (RUN_TARGET)
  Calls,     \* who asks for whom: pairs of a target, or Run, and a target
  DepthMax,  \* DEPTH_MAX, 64 in the code
  Builds,    \* bound: how often each target is built
  Chatty,    \* bound: whose log gets a line that is neither do nor done
  Crashes,   \* bound: how many builders are killed
  Keep       \* REDO_KEEP_LOGS=1

ASSUME LogAssumption ==
  /\ Run \notin Targets
  /\ IsFiniteSet(Targets) /\ Calls \subseteq (Targets \cup {Run}) \X Targets
  /\ DepthMax \in Nat \ {0} /\ Builds \in [Targets -> Nat \ {0}] /\ Crashes \in Nat
  /\ Keep \in BOOLEAN

Names == Targets \cup {Run}
Instances == (UNION {{t} \X (1..Builds[t]) : t \in Targets}) \cup {<<Run, 1>>}
Lines == [kind : {"do"}, of : Targets] \cup [kind : {"text", "done"}, of : Names]
Frames == [of : Names, inst : Nat, pos : Nat]

VARIABLES
  pc,      \* where each target's current build is; Run stands for redo()
  caller,  \* whose do-file asked for it
  inst,    \* the number of its instances so far
  at,      \* the instance at the log's path, 0 if there is none
  lines,   \* what each instance holds
  built,   \* targets this run has built or found up to date (files.runid)
  died,    \* instances whose builder was killed
  crashes, \* builders killed so far
  stack,   \* the follower's frames, the top one last
  visited, \* the targets it has met a `do' line of
  eof,     \* it has just read end of file from the top frame
  shown,   \* instances it has printed up to their `done'
  noted,   \* instances it has called crashed
  lost     \* targets whose log it did not find or was too deep to trace

build == <<pc, caller, inst, built, died, crashes>>
follower == <<stack, visited, eof, shown, noted, lost>>
vars == <<pc, caller, inst, at, lines, built, died, crashes, stack, visited, eof, shown, noted, lost>>

Active == {"locked", "logged", "running", "finished"}
Locked(t) == pc[t] \in Active
Top == stack[Len(stack)]
Text(t) == [kind |-> "text", of |-> t]
Do(t) == [kind |-> "do", of |-> t]
Done(t) == [kind |-> "done", of |-> t]
Holds(t, n, line) == \E i \in DOMAIN lines[<<t, n>>] : lines[<<t, n>>][i] = line

TypeOK ==
  /\ pc \in [Names -> {"idle", "joined"} \cup Active]
  /\ caller \in [Targets -> Names]
  /\ inst \in [Names -> Nat] /\ at \in [Names -> Nat]
  /\ lines \in [Instances -> Seq(Lines)]
  /\ built \subseteq Targets /\ died \subseteq Instances /\ crashes \in 0..Crashes
  /\ stack \in Seq(Frames) /\ \A t \in Names : at[t] <= inst[t]
  /\ \A i \in DOMAIN stack :
       /\ stack[i].inst <= inst[stack[i].of]
       /\ stack[i].pos <= Len(lines[<<stack[i].of, stack[i].inst>>])
  /\ visited \subseteq Targets /\ eof \in BOOLEAN
  /\ shown \subseteq Instances /\ noted \subseteq Instances /\ lost \subseteq Targets

\* The run log exists, and the follower has opened it (follow_start).
Init ==
  /\ pc = [t \in Names |-> IF t = Run THEN "running" ELSE "idle"]
  /\ caller = [t \in Targets |-> Run]
  /\ inst = [t \in Names |-> IF t = Run THEN 1 ELSE 0]
  /\ at = inst
  /\ lines = [i \in Instances |-> <<>>]
  /\ built = {} /\ died = {} /\ crashes = 0
  /\ stack = <<[of |-> Run, inst |-> 1, pos |-> 0]>>
  /\ visited = {} /\ eof = FALSE /\ shown = {} /\ noted = {} /\ lost = {}

Goto(t, label) == pc' = [pc EXCEPT ![t] = label]

\* event_append: the line goes to the file at the path, if there is one.
Append1(t, line) ==
  lines' = IF at[t] = 0 THEN lines ELSE [lines EXCEPT ![<<t, at[t]>>] = Append(@, line)]

-----------------------------------------------------------------------------
\* BUILDERS

\* t and what is being built for it.
Below(t) ==
  {u \in Targets : \A S \in SUBSET Targets :
     t \in S /\ (\A v \in Targets : Locked(v) /\ caller[v] \in S => v \in S) => u \in S}
\* The chain above a target under construction (REDO_CHAIN).
Above(t) == {u \in Targets : Locked(u) /\ t \in Below(u)}

\* Mutant: `do' is announced before there is a log.
CallAnnounced(p, t) ==
  /\ <<p, t>> \in Calls
  /\ pc[p] = "running" /\ ~Locked(t)
  /\ t \notin built /\ inst[t] < Builds[t]
  /\ Goto(t, "locked")
  /\ caller' = [caller EXCEPT ![t] = p]
  /\ Append1(p, Do(t))
  /\ UNCHANGED <<inst, at, built, died, crashes, follower>>

\* build(): a do-file, or redo() itself, asks for a target; redo() builds
\* what this run has built before (force).
Call(p, t) ==
  /\ <<p, t>> \in Calls
  /\ pc[p] = "running" /\ ~Locked(t)
  /\ IF p = Run THEN ~Holds(Run, 1, Do(t))
     ELSE t \notin built \cup Above(p) /\ Cardinality(Above(p)) < DepthMax
  /\ inst[t] < Builds[t]
  /\ Goto(t, "locked")
  /\ caller' = [caller EXCEPT ![t] = p]
  /\ UNCHANGED <<inst, at, lines, built, died, crashes, follower>>

\* The target is locked: `waiting' goes to the caller's log.
Wait(p, t) ==
  /\ <<p, t>> \in Calls
  /\ p \in Chatty /\ pc[p] = "running" /\ Locked(t) /\ caller[t] # p
  /\ at[p] # 0 => ~Holds(p, at[p], Text(p))
  /\ Append1(p, Text(p))
  /\ UNCHANGED <<at, build, follower>>

\* Mutant: the log is truncated in place.
CreateTruncating(t) ==
  /\ pc[t] = "locked"
  /\ inst' = [inst EXCEPT ![t] = 1]
  /\ at' = [at EXCEPT ![t] = 1]
  /\ lines' = [lines EXCEPT ![<<t, 1>>] = <<>>]
  /\ Goto(t, "logged")
  /\ UNCHANGED <<caller, built, died, crashes, follower>>

\* create_log: a new instance takes the path.
CreateLog(t) ==
  /\ pc[t] = "locked"
  /\ inst' = [inst EXCEPT ![t] = @ + 1]
  /\ at' = [at EXCEPT ![t] = inst[t] + 1]
  /\ Goto(t, "logged")
  /\ UNCHANGED <<caller, lines, built, died, crashes, follower>>

\* Log before trace (I3).
Trace(t) ==
  /\ pc[t] = "logged"
  /\ Append1(caller[t], Do(t))
  /\ Goto(t, "running")
  /\ UNCHANGED <<caller, inst, at, built, died, crashes, follower>>

\* The do-file prints a line, to the file it was given.
Write(t) ==
  /\ pc[t] = "running" /\ t \in Chatty
  /\ ~Holds(t, inst[t], Text(t))
  /\ lines' = [lines EXCEPT ![<<t, inst[t]>>] = Append(@, Text(t))]
  /\ UNCHANGED <<at, build, follower>>

\* Mutant: a build that fails says nothing.
FinishSilently(t) ==
  /\ pc[t] = "running" /\ t # Run
  /\ \A u \in Targets : Locked(u) => caller[u] # t
  /\ \/ built' = built \cup {t} /\ Append1(t, Done(t))
     \/ UNCHANGED <<built, lines>>
  /\ Goto(t, "finished")
  /\ UNCHANGED <<caller, inst, at, died, crashes, follower>>

\* DoneGuard: `done' before unlock (I4), on success and on every failure.
Finish(t) ==
  /\ pc[t] = "running" /\ t # Run
  /\ \A u \in Targets : Locked(u) => caller[u] # t
  /\ Append1(t, Done(t))
  /\ \/ built' = built \cup {t}
     \/ built' = built
  /\ Goto(t, "finished")
  /\ UNCHANGED <<caller, inst, at, died, crashes, follower>>

Unlock(t) ==
  /\ pc[t] = "finished" /\ t # Run
  /\ Goto(t, "idle")
  /\ UNCHANGED <<caller, inst, at, lines, built, died, crashes, follower>>

\* A redo-ifchange of p's do-file is killed, and what works for it; the
\* kernel frees the locks.
Crash(p) ==
  /\ crashes < Crashes /\ pc[p] = "running" /\ p # Run
  /\ LET dead == UNION {Below(t) : t \in {u \in Targets : Locked(u) /\ caller[u] = p}} IN
     /\ dead # {}
     /\ pc' = [u \in Names |-> IF u \in dead THEN "idle" ELSE pc[u]]
     /\ died' = died \cup {<<u, inst[u]>> : u \in {v \in dead : pc[v] # "locked"}}
  /\ crashes' = crashes + 1
  /\ UNCHANGED <<caller, inst, at, lines, built, follower>>

\* redo(): every job has returned; the run trace is terminated.
EndRun ==
  /\ pc[Run] = "running" /\ \A t \in Targets : ~Locked(t)
  /\ Append1(Run, Done(Run))
  /\ Goto(Run, "finished")
  /\ UNCHANGED <<caller, inst, at, built, died, crashes, follower>>

\* join, and the run log is removed.
Join ==
  /\ pc[Run] = "finished" /\ stack = <<>>
  /\ at' = IF Keep THEN at ELSE [at EXCEPT ![Run] = 0]
  /\ Goto(Run, "joined")
  /\ UNCHANGED <<caller, inst, lines, built, died, crashes, follower>>

-----------------------------------------------------------------------------
\* THE FOLLOWER

Log(frame) == lines[<<frame.of, frame.inst>>]
\* follow_run is between two lines of the top frame, with a line to read.
Reads(kind) ==
  /\ stack # <<>> /\ ~eof
  /\ Top.pos < Len(Log(Top))
  /\ Log(Top)[Top.pos + 1].kind = kind
Line == Log(Top)[Top.pos + 1]
Advanced == [stack EXCEPT ![Len(stack)].pos = @ + 1]
Popped == SubSeq(stack, 1, Len(stack) - 1)

ReadText ==
  /\ Reads("text")
  /\ stack' = Advanced
  /\ UNCHANGED <<at, lines, build, visited, eof, shown, noted, lost>>

\* handle_event, Do: descend unless the target was met before, is too deep,
\* or has no log.
ReadDo ==
  /\ Reads("do")
  /\ LET t == Line.of IN
     /\ visited' = visited \cup {t}
     /\ \/ t \in visited /\ stack' = Advanced /\ lost' = lost
        \/ /\ t \notin visited /\ (Len(stack) > DepthMax \/ at[t] = 0)
           /\ stack' = Advanced /\ lost' = lost \cup {t}
        \/ /\ t \notin visited /\ Len(stack) <= DepthMax /\ at[t] # 0
           /\ stack' = Append(Advanced, [of |-> t, inst |-> at[t], pos |-> 0])
           /\ lost' = lost
  /\ UNCHANGED <<at, lines, build, eof, shown, noted>>

\* handle_event, Done: pop, and delete the log, by path.
ReadDone ==
  /\ Reads("done")
  /\ shown' = shown \cup {<<Top.of, Top.inst>>}
  /\ stack' = Popped
  /\ at' = IF Keep \/ Top.of = Run THEN at ELSE [at EXCEPT ![Top.of] = 0]
  /\ UNCHANGED <<lines, build, visited, eof, noted, lost>>

\* next_line finds nothing more, for now.
ReadEof ==
  /\ stack # <<>> /\ ~eof /\ Top.pos = Len(Log(Top)) /\ Top.of # Run
  /\ eof' = TRUE
  /\ UNCHANGED <<at, lines, build, stack, visited, shown, noted, lost>>

\* probe_unlocked: the lock is held, sleep and read again.
ProbeHeld ==
  /\ eof /\ Locked(Top.of)
  /\ eof' = FALSE
  /\ UNCHANGED <<at, lines, build, stack, visited, shown, noted, lost>>

\* Mutant: a missing lock file counts as held.
ProbeStuck ==
  /\ eof /\ ~Locked(Top.of)
  /\ eof' = FALSE
  /\ UNCHANGED <<at, lines, build, stack, visited, shown, noted, lost>>

\* The lock is free: "crashed".  The log stays where it is.
ProbeFree ==
  /\ eof /\ ~Locked(Top.of)
  /\ eof' = FALSE
  /\ stack' = Popped
  /\ noted' = noted \cup {<<Top.of, Top.inst>>}
  /\ UNCHANGED <<at, lines, build, visited, shown, lost>>

Follow == ReadText \/ ReadDo \/ ReadDone \/ ReadEof \/ ProbeHeld \/ ProbeFree

Work(t) == CreateLog(t) \/ Trace(t) \/ Write(t) \/ Finish(t) \/ Unlock(t)

Next ==
  \/ \E p \in Names, t \in Targets : Call(p, t) \/ Wait(p, t)
  \/ \E t \in Targets : Work(t) \/ Crash(t)
  \/ EndRun \/ Join
  \/ Follow

Spec == Init /\ [][Next]_vars

\* Builders and the follower's thread are scheduled.
Fairness == WF_vars(Follow) /\ WF_vars(Join) /\ WF_vars(EndRun) /\ \A t \in Targets : WF_vars(Work(t))
FairSpec == Spec /\ Fairness

-----------------------------------------------------------------------------
\* PROPERTIES

\* I4, "if the follower observes the lock free, the `done' line, if the
\* builder lived, is already readable": a "(crashed)" note is printed for a
\* killed builder, or for one whose `done' arrived between the follower's last
\* read and its probe.
CrashNotesTrue ==
  [][ProbeFree => \/ <<Top.of, Top.inst>> \in died
                  \/ \E i \in Top.pos + 1..Len(Log(Top)) : Log(Top)[i] = Done(Top.of)]_vars

\* Without that exception: "EOF + lock free + no `done` can mean exactly one
\* thing - the builder died" (the head of logs.rs, and the comment at the probe).
OnlyDeadCrash == [][ProbeFree => <<Top.of, Top.inst>> \in died]_vars

\* The walk as a whole: once the run is over, every build that reached its end
\* has been announced, and what a printed log announces has been printed too or
\* called crashed.  Only where a target was built twice, so that two logs share
\* a path, can announcements vanish or a trace be too deep that was built
\* within the same bound.
Rebuilt == \E t \in Targets : inst[t] > 1
NothingLost ==
  pc[Run] = "joined" =>
    \A t \in Targets :
      /\ Holds(t, 1, Done(t)) => Rebuilt \/ \E i \in Instances : Holds(i[1], i[2], Do(t))
      /\ \A i \in shown : Holds(i[1], i[2], Do(t)) =>
           \/ \E n \in 1..inst[t] : <<t, n>> \in shown \cup noted
           \/ t \in lost /\ Rebuilt

\* The follower ends once the run has terminated its trace.
FollowerEnds == pc[Run] = "finished" ~> pc[Run] = "joined"
=============================================================================
