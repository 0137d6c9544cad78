---------------------------- MODULE RunLogProofs ----------------------------
(***************************************************************************)
(* Proofs about RunLog, for any finite set of targets, any calls between   *)
(* them, any depth, and any number of builds and crashes of each.  IInv is *)
(* what one step of the follower or of a builder may rely on; Whole adds   *)
(* what ties the walk to the calls, which only NothingLost needs.          *)
(***************************************************************************)
EXTENDS RunLog, FiniteSetTheorems, SequenceTheorems, TLAPS

Stacked(t) == \E i \in DOMAIN stack : stack[i].of = t
\* The follower has no use for t's path any more only when it popped it.
Followed(t) == t \notin visited \/ Stacked(t)
Logged == {"logged", "running", "finished"}

\* A target's latest instance is the one under construction and the one its
\* path names, if any.
Counted ==
  /\ inst[Run] = 1 /\ pc[Run] \in {"running", "finished", "joined"}
  /\ \A t \in Targets :
       /\ inst[t] <= Builds[t] /\ pc[t] # "joined"
       /\ pc[t] = "locked" => inst[t] < Builds[t]
       /\ pc[t] \in Logged => inst[t] > 0
  /\ \A t \in Names : at[t] \in {0, inst[t]}
  /\ \A i \in DOMAIN stack : stack[i].inst > 0

\* Whoever waits for a build runs.
Called == \A t \in Targets : Locked(t) => pc[caller[t]] = "running"

\* The follower's frames are of different targets, all met before; so is what
\* the lines read so far announce, and none of those ends a log.
Walked ==
  /\ \A i, k \in DOMAIN stack : stack[i].of = stack[k].of => i = k
  /\ \A i \in DOMAIN stack : IF i = 1 THEN stack[i].of = Run ELSE stack[i].of \in visited
  /\ eof => stack # <<>> /\ Top.of # Run
  /\ \A i \in DOMAIN stack : \A k \in 1..stack[i].pos :
       /\ Log(stack[i])[k].kind # "done"
       /\ Log(stack[i])[k].kind = "do" => Log(stack[i])[k].of \in visited

\* The lines of a log: none before its builder runs, no `done' while it does,
\* nothing after `done'.
Written ==
  \A j \in Instances :
    /\ j[2] > inst[j[1]] => lines[j] = <<>>
    /\ pc[j[1]] = "logged" /\ j[2] = inst[j[1]] => lines[j] = <<>>
    /\ \A k \in DOMAIN lines[j] :
         /\ lines[j][k].kind = "do" => inst[lines[j][k].of] > 0
         /\ lines[j][k].kind = "done" =>
              /\ lines[j][k].of = j[1] /\ k = Len(lines[j])
              /\ ~(j[2] = inst[j[1]] /\ pc[j[1]] = "running")

\* A target the follower has not popped has its latest log at its path; every
\* log of it is closed, of a killed build, or under construction.
Kept ==
  \A t \in Targets : Followed(t) =>
    /\ at[t] = inst[t]
    /\ \A n \in 1..inst[t] :
         \/ <<t, n>> \in died \/ Holds(t, n, Done(t))
         \/ n = inst[t] /\ pc[t] \in {"logged", "running"}

\* The inductive invariant of the builders' steps and the follower's.
IInv == TypeOK /\ Counted /\ Called /\ Walked /\ Written /\ Kept

USE DEF Active, Logged

-----------------------------------------------------------------------------
\* LOGS, LINES AND FRAMES

\* Whose logs there are, and how many of each.
LEMMA InstanceFacts ==
  /\ \A t \in Targets, n \in Nat : <<t, n>> \in Instances <=> n \in 1..Builds[t]
  /\ \A n : <<Run, n>> \in Instances <=> n = 1
  /\ \A j \in Instances : j = <<j[1], j[2]>> /\ j[1] \in Names /\ j[2] \in Nat \ {0}
<1>1. \A j : j \in Instances <=> (\E t \in Targets : \E n \in 1..Builds[t] : j = <<t, n>>) \/ j = <<Run, 1>>
  BY DEF Instances
<1>2. \A t \in Targets : t # Run /\ Builds[t] \in Nat
  BY LogAssumption
<1>3. \A t \in Targets, n \in Nat : <<t, n>> \in Instances <=> n \in 1..Builds[t]
  BY <1>1, <1>2
<1>4. \A n : <<Run, n>> \in Instances <=> n = 1
  BY <1>1, <1>2
<1>5. \A j \in Instances : j = <<j[1], j[2]>> /\ j[1] \in Names /\ j[2] \in Nat \ {0}
  <2> TAKE j \in Instances
  <2>1. CASE \E t \in Targets : \E n \in 1..Builds[t] : j = <<t, n>>
    BY <1>2, <2>1 DEF Names
  <2>2. CASE j = <<Run, 1>>
    BY <2>2 DEF Names
  <2> QED BY <1>1, <2>1, <2>2
<1> QED BY <1>3, <1>4, <1>5

\* An instance that exists.
LEMMA Existing ==
  ASSUME TypeOK, Counted
  PROVE  /\ \A t \in Names, n \in Nat : n \in 1..inst[t] => <<t, n>> \in Instances
         /\ \A t \in Names : pc[t] \in Logged => inst[t] > 0 /\ <<t, inst[t]>> \in Instances
         /\ \A i \in DOMAIN stack : <<stack[i].of, stack[i].inst>> \in Instances
<1>1. \A t \in Names, n \in Nat : n \in 1..inst[t] => <<t, n>> \in Instances
  BY InstanceFacts, LogAssumption DEF TypeOK, Counted, Names
<1>2. \A t \in Names : pc[t] \in Logged => inst[t] > 0 /\ inst[t] \in Nat
  BY DEF TypeOK, Counted, Names
<1>3. \A i \in DOMAIN stack : stack[i].of \in Names /\ stack[i].inst \in 1..inst[stack[i].of]
  <2> TAKE i \in DOMAIN stack
  <2>1. stack[i] \in Frames
    BY DEF TypeOK
  <2>2. stack[i].of \in Names /\ stack[i].inst \in Nat
    BY <2>1 DEF Frames
  <2>3. stack[i].inst > 0 /\ stack[i].inst <= inst[stack[i].of] /\ inst[stack[i].of] \in Nat
    BY <2>2 DEF TypeOK, Counted
  <2> QED BY <2>2, <2>3
<1> QED BY <1>1, <1>2, <1>3 DEF TypeOK

\* A running do-file, or redo(), adds a line to its current log.
Says(t, l) ==
  /\ t \in Names /\ l \in Lines /\ pc[t] = "running"
  /\ <<t, inst[t]>> \in Instances
  /\ lines' = [lines EXCEPT ![<<t, inst[t]>>] = Append(@, l)]

\* A line is lost exactly when the log has lost its path.
LEMMA Saying ==
  ASSUME TypeOK, Counted, NEW t \in Names, NEW l \in Lines, pc[t] = "running", Append1(t, l)
  PROVE  IF at[t] = inst[t] THEN Says(t, l) ELSE UNCHANGED lines
<1>1. inst[t] > 0 /\ <<t, inst[t]>> \in Instances /\ at[t] \in {0, inst[t]} /\ inst[t] \in Nat
  BY Existing DEF Counted, TypeOK
<1>2. lines' = IF at[t] = 0 THEN lines ELSE [lines EXCEPT ![<<t, at[t]>>] = Append(@, l)]
  BY DEF Append1
<1>3. CASE at[t] = inst[t]
  BY <1>1, <1>2, <1>3 DEF Says
<1>4. CASE at[t] = 0
  BY <1>1, <1>2, <1>4
<1> QED BY <1>1, <1>3, <1>4

\* What a line added to one log does to them all.
LEMMA Said ==
  ASSUME TypeOK, NEW t, NEW l, Says(t, l) \/ UNCHANGED lines, NEW j \in Instances
  PROVE  /\ lines'[j] \in Seq(Lines) /\ lines[j] \in Seq(Lines)
         /\ Len(lines[j]) \in Nat /\ DOMAIN lines[j] = 1..Len(lines[j])
         /\ \/ Len(lines'[j]) = Len(lines[j])
            \/ /\ Says(t, l) /\ j = <<t, inst[t]>> /\ Len(lines'[j]) = Len(lines[j]) + 1
               /\ lines'[j][Len(lines[j]) + 1] = l
         /\ DOMAIN lines'[j] = 1..Len(lines'[j])
         /\ \A k \in 1..Len(lines[j]) : lines'[j][k] = lines[j][k]
<1>1. lines[j] \in Seq(Lines) /\ Len(lines[j]) \in Nat /\ DOMAIN lines[j] = 1..Len(lines[j])
  <2>1. lines[j] \in Seq(Lines)
    BY DEF TypeOK
  <2> QED BY <2>1
<1>2. CASE lines'[j] = lines[j]
  BY <1>1, <1>2
<1>3. CASE Says(t, l) /\ j = <<t, inst[t]>>
  <2>1. l \in Lines /\ lines'[j] = Append(lines[j], l)
    BY <1>3 DEF Says, TypeOK
  <2>2. /\ lines'[j] \in Seq(Lines) /\ Len(lines'[j]) = Len(lines[j]) + 1
        /\ lines'[j][Len(lines[j]) + 1] = l /\ DOMAIN lines'[j] = 1..Len(lines'[j])
        /\ \A k \in 1..Len(lines[j]) : lines'[j][k] = lines[j][k]
    BY <1>1, <2>1
  <2> QED BY <1>1, <1>3, <2>2
<1>4. CASE Says(t, l) /\ j # <<t, inst[t]>>
  BY <1>2, <1>4 DEF Says, TypeOK
<1>5. CASE UNCHANGED lines
  BY <1>2, <1>5
<1> QED BY <1>3, <1>4, <1>5

LEMMA SaidType ==
  ASSUME TypeOK, NEW t, NEW l, Says(t, l) \/ UNCHANGED lines
  PROVE  lines' \in [Instances -> Seq(Lines)]
<1>1. \A j \in Instances : lines'[j] \in Seq(Lines)
  BY Said
<1>2. \E f : lines' = [j \in Instances |-> f[j]]
  BY DEF Says, TypeOK
<1> QED BY <1>1, <1>2

\* A sequence without its last element.
LEMMA Front ==
  ASSUME NEW S, NEW s \in Seq(S), s # <<>>
  PROVE  /\ SubSeq(s, 1, Len(s) - 1) \in Seq(S)
         /\ Len(SubSeq(s, 1, Len(s) - 1)) = Len(s) - 1
         /\ \A i \in 1..Len(s) - 1 : SubSeq(s, 1, Len(s) - 1)[i] = s[i]
<1>1. Len(s) \in Nat \ {0}
  OBVIOUS
<1> DEFINE n == Len(s) - 1
<1>2. n \in Nat /\ \A i \in 1..n : s[i] \in S
  BY <1>1
<1> HIDE DEF n
<1>3. /\ SubSeq(s, 1, n) \in Seq(S)
      /\ Len(SubSeq(s, 1, n)) = IF 1 <= n THEN n-1+1 ELSE 0
      /\ \A i \in 1..n-1+1 : SubSeq(s, 1, n)[i] = s[1+i-1]
  BY <1>2, SubSeqProperties
<1>4. n - 1 + 1 = n /\ \A i \in 1..n : 1 + i - 1 = i
  BY <1>2
<1>5. Len(SubSeq(s, 1, n)) = n
  BY <1>2, <1>3, <1>4
<1>6. \A i \in 1..n : SubSeq(s, 1, n)[i] = s[i]
  BY <1>3, <1>4
<1> QED BY <1>3, <1>5, <1>6 DEF n

\* The top frame, and the stack without it or with it moved on.
LEMMA StackFacts ==
  ASSUME stack \in Seq(Frames), stack # <<>>
  PROVE  /\ Top \in Frames /\ Len(stack) \in Nat \ {0} /\ Top = stack[Len(stack)]
         /\ Popped \in Seq(Frames) /\ Len(Popped) = Len(stack) - 1
         /\ \A i \in 1..Len(stack) - 1 : Popped[i] = stack[i]
         /\ Advanced \in Seq(Frames) /\ Len(Advanced) = Len(stack)
         /\ \A i \in 1..Len(stack) :
              Advanced[i] = IF i = Len(stack) THEN [stack[i] EXCEPT !.pos = @ + 1] ELSE stack[i]
         /\ \A f \in Frames :
              /\ Append(Advanced, f) \in Seq(Frames) /\ Len(Append(Advanced, f)) = Len(stack) + 1
              /\ \A i \in 1..Len(stack) : Append(Advanced, f)[i] = Advanced[i]
              /\ Append(Advanced, f)[Len(stack) + 1] = f
<1>1. Len(stack) \in Nat \ {0} /\ \A i \in 1..Len(stack) : stack[i] \in Frames
  OBVIOUS
<1>2. Top \in Frames /\ Top = stack[Len(stack)]
  BY <1>1 DEF Top
<1>3. /\ Popped \in Seq(Frames) /\ Len(Popped) = Len(stack) - 1
      /\ \A i \in 1..Len(stack) - 1 : Popped[i] = stack[i]
  BY Front DEF Popped
<1>4. \A f \in Frames : [f EXCEPT !.pos = @ + 1] \in Frames
  BY DEF Frames
<1>5. /\ Advanced = [stack EXCEPT ![Len(stack)] = [stack[Len(stack)] EXCEPT !.pos = @ + 1]]
  BY <1>1 DEF Advanced
<1>6. /\ Advanced \in Seq(Frames) /\ Len(Advanced) = Len(stack)
      /\ \A i \in 1..Len(stack) :
              Advanced[i] = IF i = Len(stack) THEN [stack[i] EXCEPT !.pos = @ + 1] ELSE stack[i]
  BY <1>1, <1>4, <1>5
<1> HIDE DEF Advanced
<1>7. \A f \in Frames :
              /\ Append(Advanced, f) \in Seq(Frames) /\ Len(Append(Advanced, f)) = Len(stack) + 1
              /\ \A i \in 1..Len(stack) : Append(Advanced, f)[i] = Advanced[i]
              /\ Append(Advanced, f)[Len(stack) + 1] = f
  BY <1>1, <1>6
<1> QED BY <1>1, <1>2, <1>3, <1>6, <1>7

-----------------------------------------------------------------------------
\* THE BUILDERS

\* A step of the builders that adds at most a line to one log.
Quiet(t, l) ==
  /\ Says(t, l) \/ UNCHANGED lines
  /\ UNCHANGED <<inst, follower>>
  /\ pc' \in [Names -> {"idle", "joined"} \cup Active]
  /\ caller' \in [Targets -> Names] /\ at' \in [Names -> Nat]
  /\ built' \subseteq Targets /\ died' \subseteq Instances /\ crashes' \in 0..Crashes
  /\ pc'[Run] \in {"running", "finished", "joined"}
  /\ \A x \in Names : /\ at'[x] \in {at[x], 0}
                      /\ pc'[x] = "logged" => pc[x] = "logged"
                      /\ pc'[x] = "running" => pc[x] \in {"logged", "running"}
  /\ \A x \in Targets : /\ at'[x] = at[x] /\ pc'[x] # "joined"
                        /\ pc'[x] = "locked" => inst[x] < Builds[x]
                        /\ pc'[x] \in Logged => pc[x] \in Logged
  /\ Says(t, l) => /\ l.kind = "do" => inst[l.of] > 0
                   /\ l.kind = "done" => l.of = t /\ pc'[t] # "running"
  /\ died \subseteq died'
  /\ \A x \in Targets : Followed(x) /\ pc[x] \in {"logged", "running"} =>
       pc'[x] \in {"logged", "running"} \/ <<x, inst[x]>> \in died' \/ Holds(x, inst[x], Done(x))'

\* What a log holds it goes on holding.
LEMMA HoldsOn ==
  ASSUME TypeOK, NEW t, NEW l, Says(t, l) \/ UNCHANGED lines,
         NEW x, NEW n, <<x, n>> \in Instances, NEW line, Holds(x, n, line)
  PROVE  Holds(x, n, line)'
BY Said DEF Holds

\* A builder's step leaves the frames what they have read.
LEMMA StackKept ==
  ASSUME IInv, NEW t, NEW l, Says(t, l) \/ UNCHANGED lines, UNCHANGED follower,
         inst' \in [Names -> Nat], \A x \in Names : inst[x] <= inst'[x]
  PROVE  /\ stack' \in Seq(Frames)
         /\ \A i \in DOMAIN stack' :
              /\ stack'[i].inst > 0 /\ stack'[i].inst <= inst'[stack'[i].of]
              /\ stack'[i].pos <= Len(lines'[<<stack'[i].of, stack'[i].inst>>])
         /\ Walked'
<1> USE DEF IInv
<1>1. stack' = stack /\ visited' = visited /\ eof' = eof
  BY DEF follower
<1>2. ASSUME NEW i \in DOMAIN stack
      PROVE  /\ stack[i].inst > 0 /\ stack[i].inst <= inst'[stack[i].of]
             /\ stack[i].pos <= Len(lines'[<<stack[i].of, stack[i].inst>>])
             /\ \A k \in 1..stack[i].pos : Log(stack[i])'[k] = Log(stack[i])[k]
  <2> DEFINE j == <<stack[i].of, stack[i].inst>>
  <2>1. stack[i] \in Frames
    BY DEF TypeOK
  <2>2. stack[i].of \in Names /\ stack[i].inst \in Nat /\ stack[i].pos \in Nat
    BY <2>1 DEF Frames
  <2>3. j \in Instances /\ stack[i].inst > 0
    BY Existing DEF Counted
  <2>4. stack[i].inst <= inst[stack[i].of] /\ stack[i].pos <= Len(lines[j])
    BY DEF TypeOK
  <2>5. inst[stack[i].of] \in Nat /\ inst'[stack[i].of] \in Nat /\ inst[stack[i].of] <= inst'[stack[i].of]
    BY <2>2 DEF TypeOK
  <2>6. /\ Len(lines[j]) \in Nat /\ Len(lines'[j]) \in {Len(lines[j]), Len(lines[j]) + 1}
        /\ \A k \in 1..Len(lines[j]) : lines'[j][k] = lines[j][k]
    <3> HIDE DEF j
    <3> QED BY <2>3, Said
  <2>7. Log(stack[i]) = lines[j] /\ Log(stack[i])' = lines'[j]
    BY <1>1 DEF Log
  <2> HIDE DEF j
  <2>8. stack[i].inst <= inst'[stack[i].of]
    BY <2>2, <2>4, <2>5
  <2>9. stack[i].pos <= Len(lines'[j])
    BY <2>2, <2>4, <2>6
  <2>10. \A k \in 1..stack[i].pos : lines'[j][k] = lines[j][k]
    BY <2>2, <2>4, <2>6
  <2> QED BY <2>3, <2>7, <2>8, <2>9, <2>10 DEF j
<1>3. Walked'
  <2>1. eof' => stack' # <<>> /\ Top'.of # Run
    BY <1>1 DEF Walked, Top
  <2>2. \A i \in DOMAIN stack' : \A k \in 1..stack'[i].pos :
            /\ Log(stack[i])'[k].kind # "done"
            /\ Log(stack[i])'[k].kind = "do" => Log(stack[i])'[k].of \in visited'
    <3> SUFFICES ASSUME NEW i \in DOMAIN stack, NEW k \in 1..stack[i].pos
                 PROVE  /\ Log(stack[i])'[k].kind # "done"
                        /\ Log(stack[i])'[k].kind = "do" => Log(stack[i])'[k].of \in visited
      BY <1>1, Zenon
    <3>1. Log(stack[i])'[k] = Log(stack[i])[k]
      BY <1>2
    <3> QED BY <3>1 DEF Walked
  <2> QED BY <1>1, <2>1, <2>2 DEF Walked
<1> QED BY <1>1, <1>2, <1>3 DEF TypeOK

LEMMA QuietStep == ASSUME IInv, NEW t, NEW l, Quiet(t, l), Called' PROVE IInv'
<1> USE DEF IInv, Quiet
<1>1. UNCHANGED <<inst, stack, visited, eof, shown, noted, lost>> /\ lines' \in [Instances -> Seq(Lines)]
  BY SaidType DEF follower
<1>2. /\ stack' \in Seq(Frames)
      /\ \A i \in DOMAIN stack' :
              /\ stack'[i].inst > 0 /\ stack'[i].inst <= inst'[stack'[i].of]
              /\ stack'[i].pos <= Len(lines'[<<stack'[i].of, stack'[i].inst>>])
      /\ Walked'
  <2>1. inst' \in [Names -> Nat] /\ \A x \in Names : inst[x] <= inst'[x]
    BY <1>1 DEF TypeOK
  <2> QED BY <2>1, StackKept
<1>3. \A x \in Names : at'[x] <= inst'[x] /\ at'[x] \in {0, inst'[x]}
  BY <1>1 DEF TypeOK, Counted
<1>4. TypeOK'
  BY <1>1, <1>2, <1>3 DEF TypeOK
<1>5. Counted'
  BY <1>1, <1>2, <1>3 DEF Counted
<1>6. Written'
  <2> SUFFICES ASSUME NEW j \in Instances
               PROVE  /\ j[2] > inst[j[1]] => lines'[j] = <<>>
                      /\ pc'[j[1]] = "logged" /\ j[2] = inst[j[1]] => lines'[j] = <<>>
                      /\ \A k \in DOMAIN lines'[j] :
                           /\ lines'[j][k].kind = "do" => inst[lines'[j][k].of] > 0
                           /\ lines'[j][k].kind = "done" =>
                                /\ lines'[j][k].of = j[1] /\ k = Len(lines'[j])
                                /\ ~(j[2] = inst[j[1]] /\ pc'[j[1]] = "running")
    BY <1>1 DEF Written
  <2>0. j[1] \in Names /\ j[2] \in Nat /\ inst[j[1]] \in Nat
    BY InstanceFacts DEF TypeOK
  <2>1. CASE lines'[j] = lines[j]
    BY <2>0, <2>1 DEF Written
  <2>2. CASE Says(t, l) /\ j = <<t, inst[t]>>
    <3>1. pc[t] = "running" /\ j[1] = t /\ j[2] = inst[t] /\ pc'[t] # "logged"
      BY <2>0, <2>2 DEF Says
    <3>2. /\ Len(lines[j]) \in Nat /\ DOMAIN lines[j] = 1..Len(lines[j])
          /\ Len(lines'[j]) = Len(lines[j]) + 1 /\ DOMAIN lines'[j] = 1..Len(lines'[j])
          /\ lines'[j][Len(lines[j]) + 1] = l
          /\ \A k \in 1..Len(lines[j]) : lines'[j][k] = lines[j][k]
      <4>1. lines[j] \in Seq(Lines) /\ l \in Lines /\ lines'[j] = Append(lines[j], l)
        BY <2>2 DEF Says, TypeOK
      <4> QED BY <4>1
    <3>3. ASSUME NEW k \in DOMAIN lines[j]
          PROVE  /\ lines'[j][k].kind # "done"
                 /\ lines'[j][k].kind = "do" => inst[lines'[j][k].of] > 0
      <4>1. lines[j][k].kind # "done" /\ (lines[j][k].kind = "do" => inst[lines[j][k].of] > 0)
        BY <3>1 DEF Written
      <4> QED BY <3>2, <4>1
    <3>4. ASSUME NEW k \in DOMAIN lines'[j]
          PROVE  k \in DOMAIN lines[j] \/ (k = Len(lines'[j]) /\ lines'[j][k] = l)
      <4>1. k \in 1..Len(lines[j]) + 1
        BY <3>2
      <4>2. k \in 1..Len(lines[j]) \/ k = Len(lines[j]) + 1
        BY <3>2, <4>1
      <4> QED BY <3>2, <4>2
    <3>5. l.kind = "do" => inst[l.of] > 0
      BY <2>2
    <3>6. l.kind = "done" => l.of = t /\ pc'[t] # "running"
      BY <2>2
    <3>7. j[2] > inst[j[1]] => lines'[j] = <<>>
      BY <3>1, <2>0
    <3>8. pc'[j[1]] = "logged" /\ j[2] = inst[j[1]] => lines'[j] = <<>>
      BY <3>1
    <3> HIDE DEF Quiet
    <3> QED BY <3>1, <3>3, <3>4, <3>5, <3>6, <3>7, <3>8
  <2> QED BY <2>1, <2>2 DEF Says, TypeOK
<1>7. Kept'
  <2> SUFFICES ASSUME NEW x \in Targets, Followed(x)'
               PROVE  /\ at'[x] = inst[x]
                      /\ \A n \in 1..inst[x] :
                           \/ <<x, n>> \in died' \/ Holds(x, n, Done(x))'
                           \/ n = inst[x] /\ pc'[x] \in {"logged", "running"}
    BY <1>1 DEF Kept
  <2>1. Followed(x) /\ at[x] = inst[x] /\ at'[x] = at[x]
    BY <1>1 DEF Followed, Stacked, Kept
  <2>2. ASSUME NEW n \in 1..inst[x]
        PROVE  \/ <<x, n>> \in died' \/ Holds(x, n, Done(x))'
               \/ n = inst[x] /\ pc'[x] \in {"logged", "running"}
    <3>1. <<x, n>> \in Instances
      BY Existing DEF Names, TypeOK
    <3>2. CASE <<x, n>> \in died \/ Holds(x, n, Done(x))
      BY <3>1, <3>2, HoldsOn
    <3>3. CASE n = inst[x] /\ pc[x] \in {"logged", "running"}
      BY <2>1, <3>3
    <3> QED BY <2>1, <3>2, <3>3 DEF Kept
  <2> QED BY <2>1, <2>2
<1> QED BY <1>2, <1>4, <1>5, <1>6, <1>7

LEMMA CallStep == ASSUME IInv, NEW p \in Names, NEW t \in Targets, Call(p, t) PROVE IInv'
<1> USE DEF IInv
<1>1. /\ pc[p] = "running" /\ pc[t] \notin Active /\ inst[t] < Builds[t]
      /\ pc' = [pc EXCEPT ![t] = "locked"] /\ caller' = [caller EXCEPT ![t] = p]
      /\ UNCHANGED <<inst, at, lines, built, died, crashes, follower>>
  BY DEF Call, Goto, Locked
<1>2. t \in Names /\ t # Run
  BY LogAssumption DEF Names
<1>3. Quiet(t, Text(t))
  BY <1>1, <1>2 DEF Quiet, TypeOK, Counted, Says
<1>4. Called'
  BY <1>1, <1>2 DEF Called, Locked, TypeOK
<1> QED BY <1>3, <1>4, QuietStep

LEMMA TalkStep ==
  ASSUME IInv, NEW t \in Names, NEW u \in Targets, Wait(t, u) \/ (t = u /\ Write(t))
  PROVE  IInv'
<1> USE DEF IInv
<1>1. Text(t) \in Lines
  BY DEF Text, Lines
<1>2. pc[t] = "running"
  BY DEF Wait, Write
<1>3. Says(t, Text(t)) \/ UNCHANGED lines
  <2>1. CASE Wait(t, u)
    BY <1>1, <1>2, <2>1, Saying DEF Wait
  <2>2. CASE Write(t)
    BY <1>1, <1>2, <2>2, Existing DEF Write, Says
  <2> QED BY <2>1, <2>2
<1>4. UNCHANGED <<at, build, follower>>
  BY DEF Wait, Write
<1>5. Text(t).kind = "text"
  BY DEF Text
<1>6. Quiet(t, Text(t))
  BY <1>3, <1>4, <1>5 DEF Quiet, TypeOK, Counted, build
<1>7. Called'
  BY <1>4 DEF Called, Locked, build
<1> QED BY <1>6, <1>7, QuietStep

LEMMA TraceStep == ASSUME IInv, NEW t \in Targets, Trace(t) PROVE IInv'
<1> USE DEF IInv
<1>1. /\ pc[t] = "logged" /\ pc' = [pc EXCEPT ![t] = "running"] /\ Append1(caller[t], Do(t))
      /\ UNCHANGED <<caller, inst, at, built, died, crashes, follower>>
  BY DEF Trace, Goto
<1>2. caller[t] \in Names /\ pc[caller[t]] = "running" /\ t \in Names /\ t # Run /\ inst[t] > 0
  BY <1>1, LogAssumption DEF TypeOK, Called, Locked, Counted, Names
<1>3. Do(t) \in Lines /\ Do(t).kind = "do" /\ Do(t).of = t
  BY DEF Do, Lines
<1>4. Says(caller[t], Do(t)) \/ UNCHANGED lines
  BY <1>1, <1>2, <1>3, Saying
<1>5. Quiet(caller[t], Do(t))
  BY <1>1, <1>2, <1>3, <1>4 DEF Quiet, TypeOK, Counted
<1>6. Called'
  BY <1>1, <1>2 DEF Called, Locked, TypeOK
<1> QED BY <1>5, <1>6, QuietStep

\* A terminator lands in the log that is open, as long as its path is there.
LEMMA Ended ==
  ASSUME TypeOK, NEW t \in Names, NEW l, Says(t, l), UNCHANGED inst
  PROVE  Holds(t, inst[t], l)'
<1>1. Says(t, l) /\ <<t, inst[t]>> \in Instances
  BY DEF Says
<1>2. lines'[<<t, inst[t]>>] = Append(lines[<<t, inst[t]>>], l) /\ lines[<<t, inst[t]>>] \in Seq(Lines) /\ l \in Lines
  BY <1>1 DEF Says, TypeOK
<1> QED BY <1>2 DEF Holds

LEMMA FinishStep == ASSUME IInv, NEW t \in Targets, Finish(t) PROVE IInv'
<1> USE DEF IInv
<1>1. /\ pc[t] = "running" /\ pc' = [pc EXCEPT ![t] = "finished"] /\ Append1(t, Done(t))
      /\ (\A u \in Targets : Locked(u) => caller[u] # t) /\ built' \in {built, built \cup {t}}
      /\ UNCHANGED <<caller, inst, at, died, crashes, follower>>
  BY DEF Finish, Goto
<1>2. t \in Names /\ t # Run
  BY LogAssumption DEF Names
<1>3. Done(t) \in Lines /\ Done(t).kind = "done" /\ Done(t).of = t
  BY <1>2 DEF Done, Lines
<1>4. IF at[t] = inst[t] THEN Says(t, Done(t)) ELSE UNCHANGED lines
  BY <1>1, <1>2, <1>3, Saying
<1>5. Followed(t) => Holds(t, inst[t], Done(t))'
  BY <1>1, <1>2, <1>4, Ended DEF Kept
<1>6. Quiet(t, Done(t))
  BY <1>1, <1>2, <1>3, <1>4, <1>5 DEF Quiet, TypeOK, Counted
<1>7. Called'
  BY <1>1, <1>2 DEF Called, Locked, TypeOK
<1> QED BY <1>6, <1>7, QuietStep

LEMMA UnlockStep == ASSUME IInv, NEW t \in Targets, Unlock(t) PROVE IInv'
<1> USE DEF IInv
<1>1. /\ pc[t] = "finished" /\ pc' = [pc EXCEPT ![t] = "idle"]
      /\ UNCHANGED <<caller, inst, at, lines, built, died, crashes, follower>>
  BY DEF Unlock, Goto
<1>2. t \in Names /\ t # Run
  BY LogAssumption DEF Names
<1>3. Quiet(t, Done(t))
  BY <1>1, <1>2 DEF Quiet, TypeOK, Counted, Says
<1>4. Called'
  BY <1>1, <1>2 DEF Called, Locked, TypeOK
<1> QED BY <1>3, <1>4, QuietStep

LEMMA RunStep == ASSUME IInv, EndRun \/ Join PROVE IInv'
<1> USE DEF IInv
<1>1. CASE EndRun
  <2>1. /\ pc[Run] = "running" /\ pc' = [pc EXCEPT ![Run] = "finished"] /\ Append1(Run, Done(Run))
        /\ (\A u \in Targets : ~Locked(u))
        /\ UNCHANGED <<caller, inst, at, built, died, crashes, follower>>
    BY <1>1 DEF EndRun, Goto
  <2>2. Run \in Names /\ Run \notin Targets
    BY LogAssumption DEF Names
  <2>3. Done(Run) \in Lines /\ Done(Run).kind = "done" /\ Done(Run).of = Run
    BY <2>2 DEF Done, Lines
  <2>4. Says(Run, Done(Run)) \/ UNCHANGED lines
    BY <2>1, <2>2, <2>3, Saying
  <2>5. Quiet(Run, Done(Run))
    BY <2>1, <2>2, <2>3, <2>4 DEF Quiet, TypeOK, Counted
  <2>6. Called'
    BY <2>1, <2>2 DEF Called, Locked, TypeOK
  <2> QED BY <2>5, <2>6, QuietStep
<1>2. CASE Join
  <2>1. /\ pc[Run] = "finished" /\ pc' = [pc EXCEPT ![Run] = "joined"]
        /\ at' \in {at, [at EXCEPT ![Run] = 0]}
        /\ UNCHANGED <<caller, inst, lines, built, died, crashes, follower>>
    BY <1>2 DEF Join, Goto
  <2>2. Run \in Names /\ Run \notin Targets
    BY LogAssumption DEF Names
  <2>5. /\ at' \in [Names -> Nat] /\ \A x \in Names : at'[x] \in {at[x], 0}
        /\ \A x \in Targets : at'[x] = at[x]
    <3>1. Targets \subseteq Names
      BY DEF Names
    <3>2. CASE at' = at
      BY <3>1, <3>2 DEF TypeOK
    <3>3. CASE at' = [at EXCEPT ![Run] = 0]
      BY <2>2, <3>1, <3>3 DEF TypeOK
    <3> QED BY <2>1, <3>2, <3>3
  <2>6. /\ pc' \in [Names -> {"idle", "joined"} \cup Active] /\ pc'[Run] = "joined"
        /\ \A x \in Names : x # Run => pc'[x] = pc[x]
    BY <2>1, <2>2 DEF TypeOK
  <2>7. ~Says(Run, Done(Run))
    BY <2>1 DEF Says
  <2>3. Quiet(Run, Done(Run))
    BY <2>1, <2>2, <2>5, <2>6, <2>7 DEF Quiet, TypeOK, Counted, Names
  <2>4. Called'
    BY <2>1, <2>2 DEF Called, Locked, TypeOK
  <2> QED BY <2>3, <2>4, QuietStep
<1> QED BY <1>1, <1>2

\* What is built for a target, and under it: all of it is under construction.
LEMMA BelowFacts ==
  ASSUME NEW t \in Targets
  PROVE  /\ Below(t) \subseteq Targets /\ t \in Below(t)
         /\ \A v \in Targets : Locked(v) /\ caller[v] \in Below(t) => v \in Below(t)
         /\ \A u \in Below(t) : u = t \/ Locked(u)
<1>1. Below(t) \subseteq Targets /\ t \in Below(t)
  BY DEF Below
<1>2. ASSUME NEW v \in Targets, Locked(v), caller[v] \in Below(t) PROVE v \in Below(t)
  <2> SUFFICES ASSUME NEW S \in SUBSET Targets, t \in S,
                      \A w \in Targets : Locked(w) /\ caller[w] \in S => w \in S
               PROVE  v \in S
    BY DEF Below
  <2>1. caller[v] \in S
    BY <1>2 DEF Below
  <2> QED BY <1>2, <2>1
<1>3. ASSUME NEW u \in Below(t) PROVE u = t \/ Locked(u)
  <2> DEFINE S == {v \in Targets : v = t \/ Locked(v)}
  <2>1. S \in SUBSET Targets /\ t \in S /\ \A w \in Targets : Locked(w) /\ caller[w] \in S => w \in S
    OBVIOUS
  <2>2. u \in S
    BY <1>3, <2>1 DEF Below
  <2> QED BY <2>2
<1> QED BY <1>1, <1>2, <1>3

\* Who a crash takes with it.
Victims(p) == UNION {Below(t) : t \in {u \in Targets : Locked(u) /\ caller[u] = p}}

LEMMA VictimFacts ==
  ASSUME NEW p
  PROVE  /\ Victims(p) \subseteq Targets
         /\ \A u \in Victims(p) : Locked(u)
         /\ \A v \in Targets : Locked(v) /\ caller[v] \in Victims(p) => v \in Victims(p)
BY BelowFacts DEF Victims

LEMMA CrashStep == ASSUME IInv, NEW p \in Targets, Crash(p) PROVE IInv'
<1> USE DEF IInv
<1> DEFINE dead == Victims(p)
<1>1. /\ pc' = [u \in Names |-> IF u \in dead THEN "idle" ELSE pc[u]]
      /\ died' = died \cup {<<u, inst[u]>> : u \in {v \in dead : pc[v] # "locked"}}
      /\ crashes < Crashes /\ crashes' = crashes + 1
      /\ UNCHANGED <<caller, inst, at, lines, built, follower>>
  BY DEF Crash, Victims
<1>2. /\ dead \subseteq Targets /\ \A u \in dead : Locked(u)
      /\ \A v \in Targets : Locked(v) /\ caller[v] \in dead => v \in dead
  BY VictimFacts
<1> HIDE DEF dead
<1>3. Run \in Names /\ Run \notin Targets /\ Targets \subseteq Names
  BY LogAssumption DEF Names
<1>4. died' \subseteq Instances
  <2>1. \A u \in dead : pc[u] # "locked" => <<u, inst[u]>> \in Instances
    BY <1>2, <1>3, Existing DEF Locked
  <2> QED BY <1>1, <2>1 DEF TypeOK
<1>5. Quiet(Run, Done(Run))
  <2>1. crashes' \in 0..Crashes
    BY <1>1, LogAssumption DEF TypeOK
  <2>2. \A x \in Targets : pc[x] \in {"logged", "running"} =>
          pc'[x] \in {"logged", "running"} \/ <<x, inst[x]>> \in died'
    BY <1>1, <1>3
  <2> QED BY <1>1, <1>2, <1>3, <1>4, <2>1, <2>2 DEF Quiet, TypeOK, Counted, Says
<1>6. Called'
  BY <1>1, <1>2, <1>3 DEF Called, Locked, TypeOK
<1> QED BY <1>5, <1>6, QuietStep

\* A new log: all earlier ones of the target are closed.
LEMMA CreateStep == ASSUME IInv, NEW t \in Targets, CreateLog(t) PROVE IInv'
<1> USE DEF IInv
<1>1. /\ pc[t] = "locked" /\ pc' = [pc EXCEPT ![t] = "logged"]
      /\ inst' = [inst EXCEPT ![t] = @ + 1] /\ at' = [at EXCEPT ![t] = inst[t] + 1]
      /\ UNCHANGED <<caller, lines, built, died, crashes, follower>>
  BY DEF CreateLog, Goto
<1>2. t \in Names /\ t # Run /\ Run \in Names /\ Targets \subseteq Names /\ inst[t] < Builds[t]
  BY <1>1, LogAssumption DEF Names, Counted
<1>3. /\ inst' \in [Names -> Nat] /\ inst'[t] = inst[t] + 1
      /\ \A x \in Names : inst[x] <= inst'[x] /\ (x # t => inst'[x] = inst[x])
  BY <1>1, <1>2 DEF TypeOK
<1>4. /\ stack' \in Seq(Frames)
      /\ \A i \in DOMAIN stack' :
              /\ stack'[i].inst > 0 /\ stack'[i].inst <= inst'[stack'[i].of]
              /\ stack'[i].pos <= Len(lines'[<<stack'[i].of, stack'[i].inst>>])
      /\ Walked'
  BY <1>1, <1>3, StackKept
<1>5. /\ at' \in [Names -> Nat] /\ at'[t] = inst'[t] /\ \A x \in Names : x # t => at'[x] = at[x]
  BY <1>1, <1>2, <1>3 DEF TypeOK
<1>11. ASSUME NEW x \in Names PROVE at'[x] <= inst'[x] /\ at'[x] \in {0, inst'[x]}
  <2>1. CASE x = t
    BY <1>2, <1>3, <1>5, <2>1 DEF TypeOK
  <2>2. CASE x # t
    <3>1. at'[x] = at[x] /\ inst'[x] = inst[x]
      BY <1>3, <1>5, <2>2
    <3> QED BY <3>1 DEF TypeOK, Counted
  <2> QED BY <2>1, <2>2
<1>6. TypeOK'
  <2>1. \A x \in Names : at'[x] <= inst'[x]
    BY <1>11
  <2> QED BY <1>1, <1>3, <1>4, <1>5, <2>1 DEF TypeOK, follower
<1>7. Counted'
  <2>1. inst'[Run] = 1 /\ pc'[Run] \in {"running", "finished", "joined"}
    BY <1>1, <1>2, <1>3 DEF Counted, TypeOK
  <2>2. inst'[t] <= Builds[t] /\ inst'[t] > 0
    BY <1>2, <1>3, LogAssumption DEF TypeOK
  <2>3. \A x \in Targets :
          /\ inst'[x] <= Builds[x] /\ pc'[x] # "joined"
          /\ pc'[x] = "locked" => inst'[x] < Builds[x]
          /\ pc'[x] \in Logged => inst'[x] > 0
    BY <1>1, <1>2, <1>3, <2>2 DEF Counted, TypeOK
  <2>4. \A x \in Names : at'[x] \in {0, inst'[x]}
    BY <1>11
  <2>5. \A i \in DOMAIN stack' : stack'[i].inst > 0
    BY <1>4
  <2> QED BY <2>1, <2>3, <2>4, <2>5 DEF Counted
<1>8. Called'
  BY <1>1, <1>2 DEF Called, Locked, TypeOK
<1>9. Written'
  <2> SUFFICES ASSUME NEW j \in Instances
               PROVE  /\ j[2] > inst'[j[1]] => lines[j] = <<>>
                      /\ pc'[j[1]] = "logged" /\ j[2] = inst'[j[1]] => lines[j] = <<>>
                      /\ \A k \in DOMAIN lines[j] :
                           /\ lines[j][k].kind = "do" => inst'[lines[j][k].of] > 0
                           /\ lines[j][k].kind = "done" =>
                                /\ lines[j][k].of = j[1] /\ k = Len(lines[j])
                                /\ ~(j[2] = inst'[j[1]] /\ pc'[j[1]] = "running")
    BY <1>1, Zenon DEF Written
  <2>1. j[1] \in Names /\ j[2] \in Nat /\ inst[j[1]] \in Nat /\ inst'[j[1]] \in Nat /\ inst[j[1]] <= inst'[j[1]]
    BY <1>3, InstanceFacts DEF TypeOK
  <2>2. j[2] > inst'[j[1]] => lines[j] = <<>>
    BY <2>1 DEF Written
  <2>3. pc'[j[1]] = "logged" /\ j[2] = inst'[j[1]] => lines[j] = <<>>
    BY <1>1, <1>3, <2>1 DEF Written, TypeOK
  <2>4. ASSUME NEW k \in DOMAIN lines[j], lines[j][k].kind = "do" PROVE inst'[lines[j][k].of] > 0
    <3>1. lines[j] \in Seq(Lines)
      BY DEF TypeOK
    <3>2. lines[j][k] \in Lines
      BY <3>1
    <3>3. lines[j][k].of \in Names
      BY <3>2 DEF Lines, Names
    <3>4. inst[lines[j][k].of] > 0
      BY <2>4 DEF Written
    <3> QED BY <1>3, <3>3, <3>4 DEF TypeOK
  <2>5. ASSUME NEW k \in DOMAIN lines[j], lines[j][k].kind = "done"
        PROVE  /\ lines[j][k].of = j[1] /\ k = Len(lines[j])
               /\ ~(j[2] = inst'[j[1]] /\ pc'[j[1]] = "running")
    <3>1. pc'[j[1]] = "running" => j[1] # t /\ pc[j[1]] = "running" /\ inst'[j[1]] = inst[j[1]]
      BY <1>1, <1>3, <2>1 DEF TypeOK
    <3> QED BY <2>5, <3>1 DEF Written
  <2> QED BY <2>2, <2>3, <2>4, <2>5
<1>10. Kept'
  <2> SUFFICES ASSUME NEW x \in Targets, Followed(x)'
               PROVE  /\ at'[x] = inst'[x]
                      /\ \A n \in 1..inst'[x] :
                           \/ <<x, n>> \in died \/ Holds(x, n, Done(x))
                           \/ n = inst'[x] /\ pc'[x] \in {"logged", "running"}
    BY <1>1 DEF Kept, Holds
  <2>1. Followed(x)
    BY <1>1 DEF Followed, Stacked, follower
  <2>2. /\ at[x] = inst[x]
        /\ \A n \in 1..inst[x] :
             \/ <<x, n>> \in died \/ Holds(x, n, Done(x))
             \/ n = inst[x] /\ pc[x] \in {"logged", "running"}
    BY <2>1 DEF Kept
  <2>3. CASE x = t
    <3>1. pc'[t] = "logged" /\ pc[t] = "locked" /\ inst[t] \in Nat
      BY <1>1, <1>2 DEF TypeOK
    <3>2. \A n \in 1..inst'[t] : n \in 1..inst[t] \/ n = inst'[t]
      BY <1>3, <3>1
    <3> QED BY <1>5, <2>2, <2>3, <3>1, <3>2
  <2>4. CASE x # t
    BY <1>1, <1>2, <1>3, <1>5, <2>2, <2>4 DEF TypeOK
  <2> QED BY <2>3, <2>4
<1> QED BY <1>4, <1>6, <1>7, <1>8, <1>9, <1>10

-----------------------------------------------------------------------------
\* THE FOLLOWER

\* The follower's steps, which write nothing but delete logs.
Follows ==
  /\ UNCHANGED <<lines, build>>
  /\ stack' \in Seq(Frames)
  /\ \A i \in DOMAIN stack' :
       /\ stack'[i].inst > 0 /\ stack'[i].inst <= inst[stack'[i].of]
       /\ stack'[i].pos <= Len(lines[<<stack'[i].of, stack'[i].inst>>])
  /\ visited' \subseteq Targets /\ eof' \in BOOLEAN
  /\ shown' \subseteq Instances /\ noted' \subseteq Instances /\ lost' \subseteq Targets
  /\ at' \in [Names -> Nat] /\ \A x \in Names : at'[x] \in {at[x], 0}
  /\ \A x \in Targets : Followed(x)' => Followed(x) /\ at'[x] = at[x]

LEMMA FollowsStep == ASSUME IInv, Follows, Walked' PROVE IInv'
<1> USE DEF IInv, Follows
<1>1. UNCHANGED <<pc, caller, inst, built, died, crashes, lines>>
  BY DEF build
<1>2. \A x \in Names : at'[x] <= inst[x] /\ at'[x] \in {0, inst[x]}
  BY DEF TypeOK, Counted
<1>3. TypeOK'
  BY <1>1, <1>2 DEF TypeOK
<1>4. Counted'
  BY <1>1, <1>2 DEF Counted
<1>5. Called' /\ Written'
  BY <1>1 DEF Called, Locked, Written
<1>6. Kept'
  BY <1>1 DEF Kept, Holds
<1> QED BY <1>3, <1>4, <1>5, <1>6

\* Popping a frame: its target is met no more.
LEMMA PopStep ==
  ASSUME IInv, stack # <<>>, stack' = Popped, eof' = FALSE, UNCHANGED <<lines, build, visited, lost>>,
         shown' \subseteq Instances, noted' \subseteq Instances,
         at' \in [Names -> Nat], \A x \in Names : at'[x] \in {at[x], 0},
         \A x \in Targets : x # Top.of => at'[x] = at[x]
  PROVE  IInv'
<1> USE DEF IInv
<1>1. /\ stack \in Seq(Frames) /\ Len(stack) \in Nat \ {0} /\ Top = stack[Len(stack)]
      /\ stack' \in Seq(Frames) /\ Len(stack') = Len(stack) - 1
      /\ \A i \in 1..Len(stack) - 1 : stack'[i] = stack[i]
  BY StackFacts DEF TypeOK
<1>2. /\ DOMAIN stack = 1..Len(stack) /\ DOMAIN stack' = 1..Len(stack) - 1
      /\ DOMAIN stack' \subseteq DOMAIN stack /\ Len(stack) \notin DOMAIN stack'
  BY <1>1
<1>3. \A i \in DOMAIN stack' : i \in DOMAIN stack /\ stack'[i] = stack[i]
  BY <1>1, <1>2
<1>4. UNCHANGED <<inst, lines, visited>> /\ eof' = FALSE
  BY DEF build
<1>5. Walked'
  <2>1. \A i, k \in DOMAIN stack' : stack'[i].of = stack'[k].of => i = k
    BY <1>3 DEF Walked
  <2>2. \A i \in DOMAIN stack' : IF i = 1 THEN stack'[i].of = Run ELSE stack'[i].of \in visited'
    BY <1>3, <1>4 DEF Walked
  <2>3. ASSUME NEW i \in DOMAIN stack', NEW k \in 1..stack'[i].pos
        PROVE  /\ lines'[<<stack'[i].of, stack'[i].inst>>][k].kind # "done"
               /\ lines'[<<stack'[i].of, stack'[i].inst>>][k].kind = "do" =>
                    lines'[<<stack'[i].of, stack'[i].inst>>][k].of \in visited'
    BY <1>3, <1>4 DEF Walked, Log
  <2> QED BY <1>4, <2>1, <2>2, <2>3 DEF Walked, Log
<1>6. ASSUME NEW x \in Targets, Followed(x)' PROVE Followed(x) /\ at'[x] = at[x]
  <2>1. Followed(x)
    BY <1>3, <1>4, <1>6 DEF Followed, Stacked
  <2>2. CASE x = Top.of
    <3>1. x \in visited
      BY <1>1, <1>2, <2>2, LogAssumption DEF Walked
    <3>2. PICK i \in DOMAIN stack' : stack'[i].of = x
      BY <1>4, <1>6, <3>1 DEF Followed, Stacked
    <3>3. i = Len(stack)
      BY <1>1, <1>2, <1>3, <2>2, <3>2 DEF Walked
    <3> QED BY <1>2, <3>2, <3>3
  <2> QED BY <2>1, <2>2
<1>7. \A i \in DOMAIN stack' :
       /\ stack'[i].inst > 0 /\ stack'[i].inst <= inst[stack'[i].of]
       /\ stack'[i].pos <= Len(lines[<<stack'[i].of, stack'[i].inst>>])
  BY <1>3 DEF TypeOK, Counted
<1>8. Follows
  BY <1>1, <1>4, <1>6, <1>7 DEF Follows, TypeOK
<1> QED BY <1>5, <1>8, FollowsStep

\* What the top frame is about to read.
LEMMA TopFacts ==
  ASSUME IInv, stack # <<>>
  PROVE  /\ Top \in Frames /\ Top.of \in Names /\ Top.inst \in Nat /\ Top.pos \in Nat
         /\ <<Top.of, Top.inst>> \in Instances /\ Log(Top) \in Seq(Lines)
         /\ Len(Log(Top)) \in Nat /\ DOMAIN Log(Top) = 1..Len(Log(Top))
         /\ Top.pos <= Len(Log(Top))
         /\ Top.pos < Len(Log(Top)) => Top.pos + 1 \in DOMAIN Log(Top) /\ Line \in Lines
<1> USE DEF IInv
<1>1. Top \in Frames /\ Len(stack) \in DOMAIN stack /\ Top = stack[Len(stack)]
  BY StackFacts DEF TypeOK
<1>2. Top.of \in Names /\ Top.inst \in Nat /\ Top.pos \in Nat
  BY <1>1 DEF Frames
<1>3. <<Top.of, Top.inst>> \in Instances
  BY <1>1, Existing
<1>4. Log(Top) \in Seq(Lines)
  BY <1>3 DEF Log, TypeOK
<1>5. Top.pos <= Len(Log(Top))
  BY <1>1 DEF Log, TypeOK
<1>6. Len(Log(Top)) \in Nat /\ DOMAIN Log(Top) = 1..Len(Log(Top))
  BY <1>4
<1>7. Top.pos < Len(Log(Top)) => Top.pos + 1 \in DOMAIN Log(Top)
  BY <1>2, <1>6
<1>8. Top.pos < Len(Log(Top)) => Line \in Lines
  BY <1>4, <1>7 DEF Line
<1> QED BY <1>1, <1>2, <1>3, <1>4, <1>5, <1>6, <1>7, <1>8

LEMMA ReadDoneStep == ASSUME IInv, ReadDone PROVE IInv'
<1> USE DEF IInv, ReadDone, Reads
<1>1. Top.of \in Names /\ <<Top.of, Top.inst>> \in Instances
  BY TopFacts
<1>2. /\ at' \in [Names -> Nat] /\ \A x \in Names : at'[x] \in {at[x], 0}
      /\ \A x \in Targets : x # Top.of => at'[x] = at[x]
  <2>1. at \in [Names -> Nat] /\ Targets \subseteq Names
    BY DEF TypeOK, Names
  <2>2. CASE at' = at
    BY <2>1, <2>2
  <2>3. CASE at' = [at EXCEPT ![Top.of] = 0]
    BY <1>1, <2>1, <2>3
  <2> QED BY <2>2, <2>3
<1>3. shown' \subseteq Instances /\ noted' \subseteq Instances
  BY <1>1 DEF TypeOK
<1>4. /\ stack # <<>> /\ stack' = Popped /\ eof' = FALSE /\ UNCHANGED <<lines, build, visited, lost>>
  BY DEF TypeOK
<1> HIDE DEF ReadDone, IInv
<1> QED BY <1>2, <1>3, <1>4, PopStep

LEMMA ProbeFreeStep == ASSUME IInv, ProbeFree PROVE IInv'
<1> USE DEF IInv, ProbeFree
<1>1. stack # <<>>
  BY DEF Walked
<1>2. <<Top.of, Top.inst>> \in Instances
  BY <1>1, TopFacts
<1>3. /\ shown' \subseteq Instances /\ noted' \subseteq Instances
      /\ at' \in [Names -> Nat] /\ Targets \subseteq Names /\ at' = at
  BY <1>2 DEF TypeOK, Names
<1> QED BY <1>1, <1>3, PopStep

\* Waiting for more of the same log.
LEMMA StayStep == ASSUME IInv, ReadEof \/ ProbeHeld PROVE IInv'
<1> USE DEF IInv, ReadEof, ProbeHeld
<1>1. /\ UNCHANGED <<at, lines, build, stack, visited, shown, noted, lost>> /\ eof' \in BOOLEAN
      /\ eof' => stack # <<>> /\ Top.of # Run
  OBVIOUS
<1>2. Walked'
  BY <1>1 DEF Walked, Log, Top
<1>3. Follows
  BY <1>1 DEF Follows, TypeOK, Counted, Followed, Stacked
<1> QED BY <1>2, <1>3, FollowsStep

\* Reading a line that ends nothing, and perhaps descending.
LEMMA ReadOn ==
  ASSUME IInv, stack # <<>>, Top.pos < Len(Log(Top)), Line.kind # "done", eof = FALSE,
         UNCHANGED <<at, lines, build, eof, shown, noted>>,
         visited \subseteq visited', visited' \subseteq Targets, lost' \subseteq Targets,
         Line.kind = "do" => Line.of \in visited',
         \/ stack' = Advanced
         \/ \E f \in Frames : /\ stack' = Append(Advanced, f) /\ f.of \in visited' \ visited
                             /\ f.inst \in 1..inst[f.of] /\ f.pos = 0
  PROVE  IInv'
<1> USE DEF IInv
<1> DEFINE n == Len(stack)
<1>1. /\ n \in Nat \ {0} /\ Top = stack[n] /\ DOMAIN stack = 1..n
      /\ Advanced \in Seq(Frames) /\ Len(Advanced) = n
      /\ \A i \in 1..n : Advanced[i] = IF i = n THEN [stack[i] EXCEPT !.pos = @ + 1] ELSE stack[i]
  BY StackFacts DEF TypeOK
<1>2. UNCHANGED <<inst, lines, at>> /\ eof' = FALSE
  BY DEF build
<1> HIDE DEF n
<1>3. ASSUME NEW i \in 1..n
      PROVE  /\ Advanced[i].of = stack[i].of /\ Advanced[i].inst = stack[i].inst
             /\ Advanced[i].inst > 0 /\ Advanced[i].inst <= inst[Advanced[i].of]
             /\ Advanced[i].pos <= Len(Log(stack[i]))
             /\ \A k \in 1..Advanced[i].pos :
                  /\ Log(stack[i])[k].kind # "done"
                  /\ Log(stack[i])[k].kind = "do" => Log(stack[i])[k].of \in visited'
  <2>0. stack[i] \in Frames
    BY <1>1 DEF TypeOK
  <2>1. stack[i] \in Frames /\ stack[i].pos \in Nat /\ stack[i].inst \in Nat
    BY <2>0 DEF Frames
  <2>2. /\ stack[i].inst > 0 /\ stack[i].inst <= inst[stack[i].of]
        /\ stack[i].pos <= Len(Log(stack[i]))
        /\ \A k \in 1..stack[i].pos : /\ Log(stack[i])[k].kind # "done"
                                      /\ Log(stack[i])[k].kind = "do" => Log(stack[i])[k].of \in visited'
    BY <1>1 DEF TypeOK, Counted, Walked, Log
  <2>3. CASE i = n
    <3>1. Advanced[i] = [stack[i] EXCEPT !.pos = @ + 1]
      BY <1>1, <2>3
    <3>2. Advanced[i].of = stack[i].of /\ Advanced[i].inst = stack[i].inst /\ Advanced[i].pos = stack[i].pos + 1
      BY <2>1, <3>1 DEF Frames
    <3>3. Line = Log(stack[i])[stack[i].pos + 1] /\ Len(Log(stack[i])) \in Nat /\ stack[i].pos < Len(Log(stack[i]))
      BY <1>1, <2>3, TopFacts DEF Line
    <3>4. \A k \in 1..stack[i].pos + 1 : k \in 1..stack[i].pos \/ k = stack[i].pos + 1
      BY <2>1
    <3> QED BY <2>1, <2>2, <3>2, <3>3, <3>4
  <2>4. CASE i # n
    BY <1>1, <2>2, <2>4
  <2> QED BY <2>3, <2>4
<1>4. CASE stack' = Advanced
  <2>1. DOMAIN stack' = 1..n /\ stack' \in Seq(Frames)
    BY <1>1, <1>4
  <2>2. Walked'
    <3>1. \A i, k \in DOMAIN stack' : stack'[i].of = stack'[k].of => i = k
      BY <1>1, <1>3, <1>4, <2>1 DEF Walked
    <3>2. \A i \in DOMAIN stack' : IF i = 1 THEN stack'[i].of = Run ELSE stack'[i].of \in visited'
      BY <1>1, <1>3, <1>4, <2>1 DEF Walked
    <3>3. ASSUME NEW i \in DOMAIN stack', NEW k \in 1..stack'[i].pos
          PROVE  /\ lines[<<stack'[i].of, stack'[i].inst>>][k].kind # "done"
                 /\ lines[<<stack'[i].of, stack'[i].inst>>][k].kind = "do" =>
                      lines[<<stack'[i].of, stack'[i].inst>>][k].of \in visited'
      BY <1>3, <1>4, <2>1 DEF Log
    <3> QED BY <1>2, <3>1, <3>2, <3>3 DEF Walked, Log
  <2>3. \A x \in Targets : Followed(x)' => Followed(x) /\ at'[x] = at[x]
    BY <1>1, <1>2, <1>3, <1>4, <2>1 DEF Followed, Stacked
  <2>4. Follows
    BY <1>1, <1>2, <1>3, <1>4, <2>1, <2>3 DEF Follows, TypeOK, Log
  <2> QED BY <2>2, <2>4, FollowsStep
<1>5. ASSUME NEW f \in Frames, stack' = Append(Advanced, f), f.of \in visited' \ visited,
             f.inst \in 1..inst[f.of], f.pos = 0
      PROVE  IInv'
  <2>1. /\ stack' \in Seq(Frames) /\ DOMAIN stack' = 1..n + 1 /\ stack'[n + 1] = f
        /\ \A i \in 1..n : stack'[i] = Advanced[i]
    BY <1>1, <1>5, StackFacts DEF TypeOK, n
  <2>2. \A i \in DOMAIN stack' : i \in 1..n \/ i = n + 1
    BY <1>1, <2>1
  <2>3. f.of \in Names /\ f.of # Run /\ n + 1 # 1
    <3>1. f.of \in Targets
      BY <1>5
    <3> QED BY <1>1, <3>1, LogAssumption DEF Names
  <2>4. \A i \in 1..n : stack'[i].of = stack[i].of /\ stack[i].of # f.of
    BY <1>1, <1>3, <1>5, <2>1, <2>3 DEF Walked
  <2>5. Walked'
    <3>1. \A i, k \in DOMAIN stack' : stack'[i].of = stack'[k].of => i = k
      BY <1>1, <2>1, <2>2, <2>4 DEF Walked
    <3>2. \A i \in DOMAIN stack' : IF i = 1 THEN stack'[i].of = Run ELSE stack'[i].of \in visited'
      BY <1>1, <1>5, <2>1, <2>2, <2>3, <2>4 DEF Walked
    <3>3. ASSUME NEW i \in DOMAIN stack', NEW k \in 1..stack'[i].pos
          PROVE  /\ lines[<<stack'[i].of, stack'[i].inst>>][k].kind # "done"
                 /\ lines[<<stack'[i].of, stack'[i].inst>>][k].kind = "do" =>
                      lines[<<stack'[i].of, stack'[i].inst>>][k].of \in visited'
      <4>1. CASE i \in 1..n
        BY <1>3, <2>1, <3>3, <4>1 DEF Log
      <4>2. CASE i = n + 1
        BY <1>5, <2>1, <3>3, <4>2
      <4> QED BY <2>2, <4>1, <4>2
    <3> QED BY <1>2, <3>1, <3>2, <3>3 DEF Walked, Log
  <2>6. ASSUME NEW i \in DOMAIN stack'
        PROVE  /\ stack'[i].inst > 0 /\ stack'[i].inst <= inst[stack'[i].of]
               /\ stack'[i].pos <= Len(lines[<<stack'[i].of, stack'[i].inst>>])
    <3>1. CASE i \in 1..n
      BY <1>3, <2>1, <3>1 DEF Log
    <3>2. CASE i = n + 1
      <4>1. <<f.of, f.inst>> \in Instances
        BY <1>5, <2>3, Existing DEF Frames
      <4>2. lines[<<f.of, f.inst>>] \in Seq(Lines)
        BY <4>1 DEF TypeOK
      <4>3. Len(lines[<<f.of, f.inst>>]) >= 0
        BY <4>2
      <4> QED BY <1>5, <2>1, <2>3, <3>2, <4>3 DEF TypeOK
    <3> QED BY <2>2, <3>1, <3>2
  <2>7. \A x \in Targets : Followed(x)' => Followed(x) /\ at'[x] = at[x]
    BY <1>1, <1>2, <1>5, <2>1, <2>2, <2>4 DEF Followed, Stacked
  <2>8. Follows
    BY <1>2, <2>1, <2>6, <2>7 DEF Follows, TypeOK
  <2> QED BY <2>5, <2>8, FollowsStep
<1> QED BY <1>4, <1>5

LEMMA ReadTextStep == ASSUME IInv, ReadText PROVE IInv'
<1>1. /\ stack # <<>> /\ eof = FALSE /\ Top.pos < Len(Log(Top)) /\ Line.kind = "text"
      /\ stack' = Advanced /\ UNCHANGED <<at, lines, build, visited, eof, shown, noted, lost>>
  BY DEF ReadText, Reads, Line, IInv, TypeOK
<1> QED BY <1>1, ReadOn DEF IInv, TypeOK

LEMMA ReadDoStep == ASSUME IInv, ReadDo PROVE IInv'
<1> USE DEF IInv
<1>1. /\ stack # <<>> /\ eof = FALSE /\ Top.pos < Len(Log(Top)) /\ Line.kind = "do"
      /\ visited' = visited \cup {Line.of} /\ UNCHANGED <<at, lines, build, eof, shown, noted>>
      /\ lost' \subseteq lost \cup {Line.of}
      /\ \/ stack' = Advanced
         \/ /\ Line.of \notin visited /\ at[Line.of] # 0
            /\ stack' = Append(Advanced, [of |-> Line.of, inst |-> at[Line.of], pos |-> 0])
  BY DEF ReadDo, Reads, Line, TypeOK
<1>2. Line.of \in Targets /\ Line.of \in Names
  BY <1>1, TopFacts DEF Lines, Names
<1>3. at[Line.of] # 0 => at[Line.of] \in 1..inst[Line.of]
  BY <1>2 DEF TypeOK, Counted
<1>4. [of |-> Line.of, inst |-> at[Line.of], pos |-> 0] \in Frames
  BY <1>2 DEF Frames, TypeOK
<1>5. visited' \subseteq Targets /\ lost' \subseteq Targets
  BY <1>1, <1>2 DEF TypeOK
<1>6. CASE stack' = Advanced
  BY <1>1, <1>5, <1>6, ReadOn
<1>7. CASE stack' # Advanced
  BY <1>1, <1>3, <1>4, <1>5, <1>7, ReadOn
<1> QED BY <1>6, <1>7

LEMMA InitIInv == Init => IInv
<1> SUFFICES ASSUME Init PROVE IInv
  OBVIOUS
<1> USE DEF Init
<1>1. Run \in Names /\ Run \notin Targets /\ Targets \subseteq Names
  BY LogAssumption DEF Names
<1>2. /\ inst \in [Names -> Nat] /\ inst[Run] = 1 /\ at = inst
      /\ \A t \in Targets : inst[t] = 0 /\ pc[t] = "idle"
      /\ pc \in [Names -> {"idle", "joined"} \cup Active] /\ pc[Run] = "running"
  BY <1>1
<1>3. /\ stack \in Seq(Frames) /\ DOMAIN stack = 1..1 /\ stack[1] = [of |-> Run, inst |-> 1, pos |-> 0]
      /\ Len(stack) = 1 /\ stack # <<>>
  BY <1>1 DEF Frames
<1>4. lines \in [Instances -> Seq(Lines)] /\ \A j \in Instances : lines[j] = <<>> /\ DOMAIN lines[j] = {}
  OBVIOUS
<1>5. <<Run, 1>> \in Instances
  BY InstanceFacts
<1>6. TypeOK
  <2>1. 0 \in 0..Crashes
    BY LogAssumption
  <2>2. \A i \in DOMAIN stack :
       /\ stack[i].inst <= inst[stack[i].of]
       /\ stack[i].pos <= Len(lines[<<stack[i].of, stack[i].inst>>])
    BY <1>2, <1>3, <1>4, <1>5
  <2>3. caller \in [Targets -> Names] /\ \A t \in Names : at[t] <= inst[t]
    BY <1>1, <1>2
  <2>4. built = {} /\ died = {} /\ crashes = 0 /\ visited = {} /\ eof = FALSE /\ shown = {} /\ noted = {} /\ lost = {}
    OBVIOUS
  <2> HIDE DEF Init
  <2> QED BY <1>2, <1>3, <1>4, <2>1, <2>2, <2>3, <2>4 DEF TypeOK
<1>7. Counted
  <2>1. \A t \in Targets : Builds[t] \in Nat
    BY LogAssumption
  <2> QED BY <1>1, <1>2, <1>3, <2>1 DEF Counted
<1>8. Called
  BY <1>2 DEF Called, Locked
<1>9. Walked
  BY <1>3 DEF Walked
<1>10. Written
  BY <1>4 DEF Written
<1>11. Kept
  BY <1>2 DEF Kept
<1> QED BY <1>6, <1>7, <1>8, <1>9, <1>10, <1>11 DEF IInv

LEMMA NextStep == IInv /\ [Next]_vars => IInv'
<1> SUFFICES ASSUME IInv, [Next]_vars PROVE IInv'
  OBVIOUS
<1>1. CASE \E p \in Names, t \in Targets : Call(p, t) \/ Wait(p, t)
  BY <1>1, CallStep, TalkStep
<1>2. CASE \E t \in Targets : Work(t) \/ Crash(t)
  <2>1. PICK t \in Targets : Work(t) \/ Crash(t)
    BY <1>2
  <2>2. CASE Write(t)
    BY <2>2, TalkStep DEF Names
  <2> QED BY <2>1, <2>2, CreateStep, TraceStep, FinishStep, UnlockStep, CrashStep DEF Work
<1>3. CASE EndRun \/ Join
  BY <1>3, RunStep
<1>4. CASE Follow
  BY <1>4, ReadTextStep, ReadDoStep, ReadDoneStep, StayStep, ProbeFreeStep DEF Follow
<1>5. CASE UNCHANGED vars
  BY <1>5 DEF vars, IInv, TypeOK, Counted, Called, Walked, Written, Kept, Followed, Stacked, Holds,
              Locked, Log, Top
<1> QED BY <1>1, <1>2, <1>3, <1>4, <1>5 DEF Next

\* IInv holds in every reachable state.
LEMMA Always == Spec => []IInv
BY InitIInv, NextStep, PTL DEF Spec

-----------------------------------------------------------------------------
\* Every step leaves the logs, the follower's frames and the builders' places
\* in their types: no frame reads past the end of a log that exists, and no
\* path names an instance that was never made.
THEOREM TypeCorrect == Spec => []TypeOK
BY Always, PTL DEF IInv

\* I3, "log before trace": the follower, meeting a target for the first time,
\* finds a log at its path, whatever was killed and however often it was built.
LogFound == [][ReadDo /\ Line.of \notin visited => at[Line.of] # 0]_vars

\* The first `do' line of a target is met while its log is at its path.
LEMMA LogThere == ASSUME IInv, ReadDo, Line.of \notin visited PROVE at[Line.of] # 0
<1>1. /\ stack # <<>> /\ Top.pos < Len(Log(Top)) /\ Line.kind = "do"
  BY DEF ReadDo, Reads, Line
<1>2. /\ <<Top.of, Top.inst>> \in Instances /\ Top.pos + 1 \in DOMAIN Log(Top) /\ Line \in Lines
  BY <1>1, TopFacts
<1>3. inst[Line.of] > 0
  BY <1>1, <1>2 DEF IInv, Written, Line, Log
<1>4. Line.of \in Targets
  BY <1>1, <1>2 DEF Lines
<1>5. at[Line.of] = inst[Line.of]
  BY <1>4 DEF IInv, Kept, Followed
<1> QED BY <1>3, <1>4, <1>5 DEF IInv, TypeOK, Names

\* I3, log before trace: a builder killed at any moment, a log deleted by the
\* follower and a target built again leave, for every target whose `do' line
\* the follower meets for the first time, a log at the target's path.
THEOREM LogsFound == Spec => LogFound
<1>1. IInv /\ [Next]_vars => [ReadDo /\ Line.of \notin visited => at[Line.of] # 0]_vars
  BY LogThere
<1> QED BY <1>1, Always, PTL DEF Spec, LogFound

\* I4, done before unlock: what the follower calls crashed was killed, or had
\* its `done' line appended between the follower's last read and its probe of
\* the lock, however builders, crashes and rebuilds interleave with it.
THEOREM CrashesTrue == Spec => CrashNotesTrue
<1>1. ASSUME IInv, ProbeFree
      PROVE  \/ <<Top.of, Top.inst>> \in died
             \/ \E i \in Top.pos + 1..Len(Log(Top)) : Log(Top)[i] = Done(Top.of)
  <2>1. stack # <<>> /\ Top.of # Run /\ ~Locked(Top.of)
    BY <1>1 DEF IInv, Walked, ProbeFree
  <2>2. /\ Top.of \in Names /\ Top.inst \in Nat /\ Top.pos \in Nat
        /\ DOMAIN Log(Top) = 1..Len(Log(Top)) /\ Len(Log(Top)) \in Nat
    BY <1>1, <2>1, TopFacts
  <2>3. Top.of \in Targets
    BY <2>1, <2>2 DEF Names
  <2>4. Len(stack) \in DOMAIN stack /\ Top = stack[Len(stack)]
    BY <1>1, <2>1, StackFacts DEF IInv, TypeOK
  <2>5. Stacked(Top.of) /\ Top.inst \in 1..inst[Top.of]
    <3>1. Top.inst > 0 /\ Top.inst <= inst[Top.of] /\ inst[Top.of] \in Nat
      BY <1>1, <2>2, <2>4 DEF IInv, TypeOK, Counted
    <3> QED BY <2>2, <2>4, <3>1 DEF Stacked
  <2>6. <<Top.of, Top.inst>> \in died \/ Holds(Top.of, Top.inst, Done(Top.of))
    BY <1>1, <2>1, <2>3, <2>5 DEF IInv, Kept, Followed, Locked
  <2>7. CASE Holds(Top.of, Top.inst, Done(Top.of))
    <3>1. PICK k \in DOMAIN Log(Top) : Log(Top)[k] = Done(Top.of)
      BY <2>7 DEF Holds, Log
    <3>2. k \notin 1..Top.pos
      BY <1>1, <2>4, <3>1 DEF IInv, Walked, Done
    <3>3. k \in Top.pos + 1..Len(Log(Top))
      BY <2>2, <3>1, <3>2
    <3> QED BY <3>1, <3>3
  <2> QED BY <2>6, <2>7
<1>2. IInv /\ [Next]_vars =>
        [ProbeFree => \/ <<Top.of, Top.inst>> \in died
                      \/ \E i \in Top.pos + 1..Len(Log(Top)) : Log(Top)[i] = Done(Top.of)]_vars
  BY <1>1
<1> QED BY <1>2, Always, PTL DEF Spec, CrashNotesTrue

-----------------------------------------------------------------------------
\* THE WALK AS A WHOLE

\* A `do' line of t has been written.
Announced(t) == \E j \in Instances : Holds(j[1], j[2], Do(t))
\* The logs whose `do' lines lead to t's.
LineAbove(t) ==
  {u \in Targets : \A S \in SUBSET Targets :
     t \in S /\ (\A v \in S, j \in Instances : Holds(j[1], j[2], Do(v)) /\ j[1] # Run => j[1] \in S) => u \in S}

\* The logs printed are closed and read to their end.
Printed ==
  /\ pc[Run] = "joined" => stack = <<>>
  /\ \A t \in visited : \/ Stacked(t) \/ t \in lost
                        \/ \E n \in 1..inst[t] : <<t, n>> \in shown \cup noted
  /\ \A j \in shown :
       /\ Holds(j[1], j[2], Done(j[1]))
       /\ \A k \in DOMAIN lines[j] : lines[j][k].kind = "do" => lines[j][k].of \in visited

\* Calls nest no deeper than the follower goes.
Shallow == \A t \in Targets : Locked(t) => Cardinality(Above(t)) <= DepthMax

\* Each frame was pushed for a line of the frame below it.
Nested ==
  \A u, v \in Targets : \A i, k \in DOMAIN stack :
    stack[i].of = u /\ stack[k].of = v /\ i <= k => u \in LineAbove(v)

\* As long as no target was built twice, the lines mirror the calls.
Traced == \A t \in Targets : pc[t] \in {"running", "finished"} => Holds(caller[t], 1, Do(t))
\* A target is announced by the one that asked for it, not before its log is
\* there to be found.
Single ==
  \A t \in Targets : pc[t] \in Logged =>
    \A j \in Instances : Holds(j[1], j[2], Do(t)) => j[1] = caller[t] /\ pc[t] # "logged"
\* What was finished was announced.
Closed == \A t \in Targets : Holds(t, 1, Done(t)) => Announced(t)
\* Only the follower takes a log from its path, once it is closed.
There ==
  /\ \A t \in Targets : inst[t] > 0 /\ at[t] = 0 => Holds(t, 1, Done(t))
  /\ at[Run] = 0 => pc[Run] = "joined"
\* The lines that lead to a target are no longer a chain than its calls were.
Narrow == \A t \in Targets : Announced(t) => Cardinality(LineAbove(t)) <= DepthMax
\* So no target was too deep.
Once == Rebuilt \/ (Traced /\ Single /\ Closed /\ There /\ Narrow /\ lost = {})

\* The inductive invariant of the walk.
Whole == IInv /\ Printed /\ Shallow /\ Nested /\ Once

-----------------------------------------------------------------------------
\* What a step may do to each target.
Moved(x) ==
  /\ inst'[x] = inst[x] \/ (CreateLog(x) /\ inst'[x] = inst[x] + 1 /\ at'[x] = inst'[x])
  /\ pc'[x] = "logged" => pc[x] = "logged" \/ CreateLog(x)
  /\ pc'[x] = "running" => pc[x] = "running" \/ Trace(x)
  /\ pc'[x] = "finished" => pc[x] \in {"running", "finished"}
  /\ pc'[x] \in Logged => caller'[x] = caller[x] /\ pc[x] \in Active
  /\ at'[x] = at[x] \/ CreateLog(x) \/ (ReadDone /\ x = Top.of)

\* What a step may write.
Written1(t, l) ==
  /\ Says(t, l) \/ UNCHANGED lines
  /\ \A u \in Targets : l = Do(u) => Trace(u) /\ t = caller[u] /\ Append1(t, l)
  /\ \A u \in Targets : l = Done(u) => Finish(u) /\ t = u

Moves ==
  /\ \A x \in Targets : Moved(x)
  /\ at'[Run] = at[Run] \/ Join
  /\ pc[Run] = "joined" => pc'[Run] = "joined"
  /\ pc'[Run] = "joined" => pc[Run] = "joined" \/ Join
  /\ \/ \E p \in Names, t \in Targets : Call(p, t)
     \/ caller' = caller /\ \A x \in Targets : pc'[x] \in Active => pc[x] \in Active
  /\ \E t, l : Written1(t, l)
  /\ UNCHANGED follower \/ (Follow /\ UNCHANGED <<lines, build>>)

LEMMA LineKinds ==
  ASSUME NEW t, NEW u
  PROVE  Text(t) # Do(u) /\ Text(t) # Done(u) /\ Do(t) # Done(u) /\ Done(t) # Do(u)
         /\ (Do(t) = Do(u) => t = u) /\ (Done(t) = Done(u) => t = u)
<1>1. Text(t).kind = "text" /\ Do(u).kind = "do" /\ Done(u).kind = "done" /\ Do(t).kind = "do" /\ Done(t).kind = "done"
      /\ Do(t).of = t /\ Do(u).of = u /\ Done(t).of = t /\ Done(u).of = u
  BY DEF Text, Do, Done
<1> QED BY <1>1

\* A step that leaves the lines alone may be said to add any.
LEMMA Silent == ASSUME UNCHANGED lines PROVE \E t, l : Written1(t, l)
<1>1. Written1(Run, Text(Run))
  BY LineKinds DEF Written1
<1> QED BY <1>1

LEMMA BuilderMoves ==
  ASSUME IInv, NEW t \in Targets, Work(t) \/ Crash(t) \/ \E p \in Names : Call(p, t) \/ Wait(p, t)
  PROVE  Moves
<1> USE DEF IInv
<1>0. t \in Names /\ Run \in Names /\ Run # t /\ Targets \subseteq Names /\ Run \notin Targets
  BY LogAssumption DEF Names
<1>1. CASE \E p \in Names : Call(p, t)
  <2>1. PICK p \in Names : Call(p, t)
    BY <1>1
  <2>2. /\ pc[t] \notin Active /\ pc' = [pc EXCEPT ![t] = "locked"] /\ caller' = [caller EXCEPT ![t] = p]
        /\ UNCHANGED <<inst, at, lines, built, died, crashes, follower>>
    BY <2>1 DEF Call, Goto, Locked
  <2>3. \A x \in Targets : Moved(x)
    BY <1>0, <2>2 DEF Moved, TypeOK
  <2> QED BY <1>0, <2>1, <2>2, <2>3, Silent DEF Moves, TypeOK
<1>2. CASE \E p \in Names : Wait(p, t)
  <2>1. PICK p \in Names : Wait(p, t)
    BY <1>2
  <2>2. UNCHANGED <<at, build, follower>> /\ pc[p] = "running" /\ Append1(p, Text(p))
    BY <2>1 DEF Wait
  <2>3. Text(p) \in Lines
    BY DEF Text, Lines
  <2>4. Written1(p, Text(p))
    BY <2>2, <2>3, Saying, LineKinds DEF Written1
  <2>5. \A x \in Targets : Moved(x)
    BY <2>2 DEF Moved, build
  <2> QED BY <2>2, <2>4, <2>5 DEF Moves, build
<1>3. CASE Write(t)
  <2>2. /\ UNCHANGED <<at, build, follower>> /\ pc[t] = "running"
        /\ lines' = [lines EXCEPT ![<<t, inst[t]>>] = Append(@, Text(t))]
    BY <1>3 DEF Write
  <2>3. Text(t) \in Lines
    BY <1>0 DEF Text, Lines
  <2>4. Written1(t, Text(t))
    BY <1>0, <2>2, <2>3, Existing, LineKinds DEF Written1, Says
  <2>5. \A x \in Targets : Moved(x)
    BY <2>2 DEF Moved, build
  <2> QED BY <2>2, <2>4, <2>5 DEF Moves, build
<1>4. CASE CreateLog(t)
  <2>1. /\ pc[t] = "locked" /\ pc' = [pc EXCEPT ![t] = "logged"]
        /\ inst' = [inst EXCEPT ![t] = @ + 1] /\ at' = [at EXCEPT ![t] = inst[t] + 1]
        /\ UNCHANGED <<caller, lines, built, died, crashes, follower>>
    BY <1>4 DEF CreateLog, Goto
  <2>2. \A x \in Targets : Moved(x)
    BY <1>0, <1>4, <2>1 DEF Moved, TypeOK
  <2> QED BY <1>0, <2>1, <2>2, Silent DEF Moves, TypeOK
<1>5. CASE Trace(t)
  <2>1. /\ pc[t] = "logged" /\ pc' = [pc EXCEPT ![t] = "running"] /\ Append1(caller[t], Do(t))
        /\ UNCHANGED <<caller, inst, at, built, died, crashes, follower>>
    BY <1>5 DEF Trace, Goto
  <2>2. caller[t] \in Names /\ pc[caller[t]] = "running" /\ Do(t) \in Lines
    BY <2>1 DEF TypeOK, Called, Locked, Do, Lines
  <2>3. Written1(caller[t], Do(t))
    BY <1>5, <2>1, <2>2, Saying, LineKinds DEF Written1
  <2>4. \A x \in Targets : Moved(x)
    BY <1>0, <1>5, <2>1 DEF Moved, TypeOK
  <2> QED BY <1>0, <2>1, <2>3, <2>4 DEF Moves, TypeOK
<1>6. CASE Finish(t)
  <2>1. /\ pc[t] = "running" /\ pc' = [pc EXCEPT ![t] = "finished"] /\ Append1(t, Done(t))
        /\ UNCHANGED <<caller, inst, at, died, crashes, follower>>
    BY <1>6 DEF Finish, Goto
  <2>2. Done(t) \in Lines
    BY <1>0 DEF Done, Lines
  <2>3. Written1(t, Done(t))
    BY <1>0, <1>6, <2>1, <2>2, Saying, LineKinds DEF Written1
  <2>4. \A x \in Targets : Moved(x)
    BY <1>0, <2>1 DEF Moved, TypeOK
  <2> QED BY <1>0, <2>1, <2>3, <2>4 DEF Moves, TypeOK
<1>7. CASE Unlock(t)
  <2>1. /\ pc[t] = "finished" /\ pc' = [pc EXCEPT ![t] = "idle"]
        /\ UNCHANGED <<caller, inst, at, lines, built, died, crashes, follower>>
    BY <1>7 DEF Unlock, Goto
  <2>2. \A x \in Targets : Moved(x)
    BY <1>0, <2>1 DEF Moved, TypeOK
  <2> QED BY <1>0, <2>1, <2>2, Silent DEF Moves, TypeOK
<1>8. CASE Crash(t)
  <2>1. /\ pc' = [u \in Names |-> IF u \in Victims(t) THEN "idle" ELSE pc[u]]
        /\ UNCHANGED <<caller, inst, at, lines, built, follower>>
    BY <1>8 DEF Crash, Victims
  <2>2. Victims(t) \subseteq Targets
    BY VictimFacts
  <2>3. \A x \in Targets : Moved(x)
    BY <1>0, <2>1, <2>2 DEF Moved
  <2> QED BY <1>0, <2>1, <2>2, <2>3, Silent DEF Moves
<1> QED BY <1>1, <1>2, <1>3, <1>4, <1>5, <1>6, <1>7, <1>8 DEF Work

LEMMA RunMoves == ASSUME IInv, EndRun \/ Join PROVE Moves
<1> USE DEF IInv
<1>0. Run \in Names /\ Run \notin Targets /\ Targets \subseteq Names
  BY LogAssumption DEF Names
<1>1. CASE EndRun
  <2>1. /\ pc[Run] = "running" /\ pc' = [pc EXCEPT ![Run] = "finished"] /\ Append1(Run, Done(Run))
        /\ UNCHANGED <<caller, inst, at, built, died, crashes, follower>>
    BY <1>1 DEF EndRun, Goto
  <2>2. Done(Run) \in Lines
    BY <1>0 DEF Done, Lines
  <2>3. Written1(Run, Done(Run))
    BY <1>0, <2>1, <2>2, Saying, LineKinds DEF Written1
  <2>4. \A x \in Targets : Moved(x)
    BY <1>0, <2>1 DEF Moved, TypeOK
  <2> QED BY <1>0, <2>1, <2>3, <2>4 DEF Moves, TypeOK
<1>2. CASE Join
  <2>1. /\ pc[Run] = "finished" /\ pc' = [pc EXCEPT ![Run] = "joined"]
        /\ at' \in {at, [at EXCEPT ![Run] = 0]}
        /\ UNCHANGED <<caller, inst, lines, built, died, crashes, follower>>
    BY <1>2 DEF Join, Goto
  <2>2. \A x \in Targets : Moved(x)
    BY <1>0, <2>1 DEF Moved, TypeOK
  <2> QED BY <1>0, <1>2, <2>1, <2>2, Silent DEF Moves, TypeOK
<1> QED BY <1>1, <1>2

LEMMA FollowMoves == ASSUME IInv, Follow PROVE Moves
<1> USE DEF IInv
<1>0. Run \in Names /\ Run \notin Targets /\ Targets \subseteq Names
  BY LogAssumption DEF Names
<1>1. UNCHANGED <<lines, build>>
  BY DEF Follow, ReadText, ReadDo, ReadDone, ReadEof, ProbeHeld, ProbeFree
<1>2. at' = at \/ (ReadDone /\ Top.of # Run /\ at' = [at EXCEPT ![Top.of] = 0])
  BY DEF Follow, ReadText, ReadDo, ReadDone, ReadEof, ProbeHeld, ProbeFree
<1>3. \A x \in Names : at'[x] = at[x] \/ (ReadDone /\ x = Top.of /\ x # Run)
  BY <1>2 DEF TypeOK
<1>4. \A x \in Targets : Moved(x)
  BY <1>0, <1>1, <1>3 DEF Moved, build
<1> QED BY <1>0, <1>1, <1>3, <1>4, Silent DEF Moves, build

LEMMA MovesStep == ASSUME IInv, [Next]_vars PROVE Moves
<1>1. CASE \E p \in Names, t \in Targets : Call(p, t) \/ Wait(p, t)
  BY <1>1, BuilderMoves
<1>2. CASE \E t \in Targets : Work(t) \/ Crash(t)
  BY <1>2, BuilderMoves
<1>3. CASE EndRun \/ Join
  BY <1>3, RunMoves
<1>4. CASE Follow
  BY <1>4, FollowMoves
<1>5. CASE UNCHANGED vars
  <2>1. UNCHANGED <<pc, caller, inst, at, lines, follower>>
    BY <1>5 DEF vars, follower
  <2>2. \A x \in Targets : Moved(x)
    BY <2>1 DEF Moved
  <2> QED BY <2>1, <2>2, Silent DEF Moves
<1> QED BY <1>1, <1>2, <1>3, <1>4, <1>5 DEF Next

\* Lines stay, and what is new was written by this step.
LEMMA Growth ==
  ASSUME IInv, Moves
  PROVE  /\ \A line : \A x \in Targets, n \in Nat : <<x, n>> \in Instances /\ Holds(x, n, line) => Holds(x, n, line)'
         /\ \A line : \A j \in Instances : Holds(j[1], j[2], line) => Holds(j[1], j[2], line)'
         /\ \A j \in Instances, x \in Targets : Holds(j[1], j[2], Do(x))' =>
              Holds(j[1], j[2], Do(x)) \/ (Trace(x) /\ j[1] = caller[x])
         /\ \A j \in Instances, x \in Targets : Holds(j[1], j[2], Done(x))' =>
              Holds(j[1], j[2], Done(x)) \/ (Finish(x) /\ j[1] = x)
<1>1. PICK t, l : Written1(t, l)
  BY DEF Moves
<1>2. \A j \in Instances : j = <<j[1], j[2]>>
  BY InstanceFacts
<1>3. \A x, n, line : <<x, n>> \in Instances /\ Holds(x, n, line) => Holds(x, n, line)'
  BY <1>1, HoldsOn DEF Written1, IInv
<1>4. ASSUME NEW x, NEW n, NEW line, <<x, n>> \in Instances, Holds(x, n, line)'
      PROVE  Holds(x, n, line) \/ (line = l /\ x = t)
  <2>1. PICK k \in DOMAIN lines'[<<x, n>>] : lines'[<<x, n>>][k] = line
    BY <1>4 DEF Holds
  <2> DEFINE j == <<x, n>>
  <2>2. /\ Len(lines[j]) \in Nat /\ DOMAIN lines[j] = 1..Len(lines[j])
        /\ \/ Len(lines'[j]) = Len(lines[j])
           \/ /\ Says(t, l) /\ j = <<t, inst[t]>> /\ Len(lines'[j]) = Len(lines[j]) + 1
              /\ lines'[j][Len(lines[j]) + 1] = l
        /\ DOMAIN lines'[j] = 1..Len(lines'[j])
        /\ \A m \in 1..Len(lines[j]) : lines'[j][m] = lines[j][m]
    <3> HIDE DEF j
    <3>1. j \in Instances
      BY <1>4 DEF j
    <3> QED BY <1>1, <3>1, Said DEF Written1, IInv
  <2> HIDE DEF j
  <2>3. k \in 1..Len(lines[j]) \/ (k = Len(lines[j]) + 1 /\ j = <<t, inst[t]>> /\ lines'[j][k] = l)
    BY <2>1, <2>2 DEF j
  <2>4. CASE k \in 1..Len(lines[j])
    BY <2>1, <2>2, <2>4 DEF Holds, j
  <2>5. CASE j = <<t, inst[t]>> /\ lines'[j][k] = l
    BY <2>1, <2>5 DEF j
  <2> QED BY <2>3, <2>4, <2>5
<1>5. \A line : \A j \in Instances : Holds(j[1], j[2], line) => Holds(j[1], j[2], line)'
  BY <1>2, <1>3
<1>6. \A line : \A j \in Instances : Holds(j[1], j[2], line)' => Holds(j[1], j[2], line) \/ (line = l /\ j[1] = t)
  BY <1>2, <1>4
<1>7. \A u \in Targets : (l = Do(u) => Trace(u) /\ t = caller[u]) /\ (l = Done(u) => Finish(u) /\ t = u)
  BY <1>1 DEF Written1
<1> QED BY <1>3, <1>5, <1>6, <1>7

-----------------------------------------------------------------------------
\* DEPTH

\* The least set that holds a target and what is built for its members.
LEMMA BelowLeast ==
  ASSUME NEW t \in Targets, NEW S \in SUBSET Targets, t \in S,
         \A v \in Targets : Locked(v) /\ caller[v] \in S => v \in S
  PROVE  Below(t) \subseteq S
BY DEF Below

LEMMA AboveFacts ==
  ASSUME NEW t \in Targets
  PROVE  /\ Above(t) \subseteq Targets /\ IsFiniteSet(Above(t)) /\ Cardinality(Above(t)) \in Nat
         /\ Locked(t) => t \in Above(t)
         /\ \A v \in Above(t) : v = t \/ \E w \in Targets : Locked(w) /\ caller[w] = v
         /\ \A v \in Above(t) : caller[v] \in Targets /\ Locked(caller[v]) => caller[v] \in Above(t)
<1>1. Above(t) \subseteq Targets
  BY DEF Above
<1>2. IsFiniteSet(Above(t)) /\ Cardinality(Above(t)) \in Nat
  BY <1>1, LogAssumption, FS_Subset, FS_CardinalityType
<1>3. Locked(t) => t \in Above(t)
  BY BelowFacts DEF Above
<1>4. ASSUME NEW v \in Above(t) PROVE v = t \/ \E w \in Targets : Locked(w) /\ caller[w] = v
  <2> SUFFICES ASSUME ~\E w \in Targets : Locked(w) /\ caller[w] = v PROVE v = t
    OBVIOUS
  <2>0. v \in Targets /\ {v} \in SUBSET Targets /\ v \in {v}
        /\ \A w \in Targets : Locked(w) /\ caller[w] \in {v} => w \in {v}
    BY <1>1
  <2>1. Below(v) \subseteq {v}
    <3> HIDE DEF Locked
    <3> QED BY <2>0, BelowLeast
  <2> QED BY <2>1 DEF Above
<1>5. ASSUME NEW v \in Above(t), caller[v] \in Targets, Locked(caller[v]) PROVE caller[v] \in Above(t)
  <2>1. v \in Targets /\ Locked(v) /\ t \in Below(v)
    BY DEF Above
  <2>2. v \in Below(caller[v])
    BY <1>5, <2>1, BelowFacts
  <2>3. Below(v) \subseteq Below(caller[v])
    BY <1>5, <2>1, <2>2, BelowFacts, BelowLeast
  <2> QED BY <1>5, <2>1, <2>3 DEF Above
<1> QED BY <1>1, <1>2, <1>3, <1>4, <1>5

LEMMA ShallowStep == ASSUME IInv, Shallow, Moves PROVE Shallow'
<1> SUFFICES ASSUME NEW t \in Targets, Locked(t)' PROVE Cardinality(Above(t)') <= DepthMax
  BY DEF Shallow
<1>0. DepthMax \in Nat \ {0} /\ Run \notin Targets /\ Targets \subseteq Names
  BY LogAssumption DEF Names
\* A set of targets that the calls of this state keep to themselves.
<1>1. ASSUME NEW u \in Targets, NEW S \in SUBSET Targets, u \in S,
             \A v \in Targets : Locked(v)' /\ caller'[v] \in S => v \in S
      PROVE  Below(u)' \subseteq S
  BY <1>1 DEF Below
<1>2. CASE caller' = caller /\ \A x \in Targets : pc'[x] \in Active => pc[x] \in Active
  <2>1. \A u \in Targets : Below(u)' \subseteq Below(u)
    BY <1>1, <1>2, BelowFacts DEF Locked
  <2>2. Above(t)' \subseteq Above(t) /\ Locked(t)
    BY <1>2, <2>1 DEF Above, Locked
  <2>3. Cardinality(Above(t)') <= Cardinality(Above(t)) /\ Cardinality(Above(t)') \in Nat
    BY <2>2, AboveFacts, FS_Subset, FS_CardinalityType
  <2> QED BY <1>0, <2>2, <2>3, AboveFacts DEF Shallow
<1>3. CASE \E p \in Names, u \in Targets : Call(p, u)
  <2>1. PICK p \in Names, u \in Targets : Call(p, u)
    BY <1>3
  <2>2. /\ pc[p] = "running" /\ ~Locked(u) /\ pc' = [pc EXCEPT ![u] = "locked"]
        /\ caller' = [caller EXCEPT ![u] = p] /\ (p # Run => Cardinality(Above(p)) < DepthMax)
    BY <2>1 DEF Call, Goto
  <2>3. /\ \A x \in Targets : Locked(x)' <=> Locked(x) \/ x = u
        /\ caller'[u] = p /\ \A x \in Targets : x # u => caller'[x] = caller[x]
        /\ p # u
    BY <1>0, <2>2 DEF IInv, TypeOK, Locked
  <2>4. \A x \in Targets : Locked(x) => caller[x] # u
    BY <2>2 DEF IInv, Called, Locked
  <2>5. Below(u)' \subseteq {u}
    BY <1>1, <2>3, <2>4
  <2>6. \A x \in Targets : Below(x)' \subseteq Below(x) \cup {u}
    <3> TAKE x \in Targets
    <3>1. Below(x) \cup {u} \in SUBSET Targets /\ x \in Below(x) \cup {u}
      BY BelowFacts
    <3>2. \A v \in Targets : Locked(v)' /\ caller'[v] \in Below(x) \cup {u} => v \in Below(x) \cup {u}
      BY <2>3, <2>4, BelowFacts
    <3> HIDE DEF Below
    <3> QED BY <1>1, <3>1, <3>2
  <2>7. CASE t # u
    <3>1. Above(t)' \subseteq Above(t) /\ Locked(t)
      BY <2>3, <2>5, <2>6, <2>7 DEF Above
    <3>2. Cardinality(Above(t)') <= Cardinality(Above(t)) /\ Cardinality(Above(t)') \in Nat
      BY <3>1, AboveFacts, FS_Subset, FS_CardinalityType
    <3> QED BY <1>0, <3>1, <3>2, AboveFacts DEF Shallow
  <2>8. CASE t = u
    <3>1. \A x \in Above(u)' : x = u \/ (Locked(x) /\ p \in Below(x))
      <4> SUFFICES ASSUME NEW x \in Targets, Locked(x)', u \in Below(x)', x # u, p \notin Below(x)
                   PROVE  FALSE
        BY <2>3 DEF Above
      <4>1. \A v \in Targets : Locked(v)' /\ caller'[v] \in Below(x) => v \in Below(x)
        BY <2>3, BelowFacts
      <4>2. Below(x)' \subseteq Below(x)
        BY <1>1, <4>1, BelowFacts
      <4>3. u \in Below(x)
        BY <4>2
      <4> QED BY <2>2, <4>3, BelowFacts
    <3>2. CASE p = Run
      <4>1. Above(u)' \subseteq {u}
        BY <1>0, <3>1, <3>2, BelowFacts DEF Above
      <4>2. Cardinality(Above(u)') <= Cardinality({u}) /\ Cardinality({u}) = 1 /\ Cardinality(Above(u)') \in Nat
        BY <4>1, FS_Singleton, FS_Subset, FS_CardinalityType
      <4> QED BY <1>0, <2>8, <4>2
    <3>3. CASE p # Run
      <4>1. p \in Targets
        BY <3>3 DEF Names
      <4>2. Above(u)' \subseteq Above(p) \cup {u}
        BY <3>1 DEF Above
      <4>3. IsFiniteSet(Above(p) \cup {u}) /\ Cardinality(Above(p) \cup {u}) <= Cardinality(Above(p)) + 1
            /\ Cardinality(Above(p)) \in Nat /\ Cardinality(Above(p) \cup {u}) \in Nat
        <5>1. IsFiniteSet(Above(p)) /\ Cardinality(Above(p)) \in Nat
          BY <4>1, AboveFacts
        <5> HIDE DEF Above
        <5>2. /\ IsFiniteSet(Above(p) \cup {u})
              /\ Cardinality(Above(p) \cup {u}) =
                   IF u \in Above(p) THEN Cardinality(Above(p)) ELSE Cardinality(Above(p)) + 1
          BY <5>1, FS_AddElement, Zenon
        <5> QED BY <5>1, <5>2
      <4>4. Cardinality(Above(u)') <= Cardinality(Above(p) \cup {u}) /\ Cardinality(Above(u)') \in Nat
        BY <4>2, <4>3, FS_Subset, FS_CardinalityType
      <4>5. Cardinality(Above(p)) < DepthMax
        BY <2>2, <3>3
      <4> QED BY <1>0, <2>8, <4>3, <4>4, <4>5
    <3> QED BY <3>2, <3>3
  <2> QED BY <2>7, <2>8
<1> QED BY <1>2, <1>3 DEF Moves

\* What leads to a log leads to the logs its lines announce.
LEMMA LineAboveFacts ==
  ASSUME NEW t \in Targets
  PROVE  /\ LineAbove(t) \subseteq Targets /\ t \in LineAbove(t)
         /\ IsFiniteSet(LineAbove(t)) /\ Cardinality(LineAbove(t)) \in Nat
         /\ \A v \in LineAbove(t), j \in Instances :
              Holds(j[1], j[2], Do(v)) /\ j[1] # Run => j[1] \in LineAbove(t)
         /\ \A j \in Instances : Holds(j[1], j[2], Do(t)) /\ j[1] # Run => LineAbove(j[1]) \subseteq LineAbove(t)
<1>1. LineAbove(t) \subseteq Targets /\ t \in LineAbove(t)
  BY DEF LineAbove
<1>2. IsFiniteSet(LineAbove(t)) /\ Cardinality(LineAbove(t)) \in Nat
  BY <1>1, LogAssumption, FS_Subset, FS_CardinalityType
<1>3. ASSUME NEW v \in LineAbove(t), NEW j \in Instances, Holds(j[1], j[2], Do(v)), j[1] # Run
      PROVE  j[1] \in LineAbove(t)
  <2>1. j[1] \in Targets
    BY <1>3, InstanceFacts DEF Names
  <2> SUFFICES ASSUME NEW S \in SUBSET Targets, t \in S,
                      \A w \in S, k \in Instances : Holds(k[1], k[2], Do(w)) /\ k[1] # Run => k[1] \in S
               PROVE  j[1] \in S
    BY <2>1 DEF LineAbove
  <2>2. v \in S
    BY DEF LineAbove
  <2> QED BY <1>3, <2>2
<1>4. ASSUME NEW j \in Instances, Holds(j[1], j[2], Do(t)), j[1] # Run
      PROVE  LineAbove(j[1]) \subseteq LineAbove(t)
  <2>1. j[1] \in LineAbove(t)
    BY <1>1, <1>3, <1>4
  <2> QED BY <1>1, <1>3, <2>1 DEF LineAbove
<1> QED BY <1>1, <1>2, <1>3, <1>4

\* As lines are added, more logs lead to each.
LEMMA LineAboveGrows == ASSUME IInv, Moves, NEW t \in Targets PROVE LineAbove(t) \subseteq LineAbove(t)'
<1> SUFFICES ASSUME NEW u \in LineAbove(t), NEW S \in SUBSET Targets, t \in S,
                    \A v \in S, j \in Instances : Holds(j[1], j[2], Do(v))' /\ j[1] # Run => j[1] \in S
             PROVE  u \in S
  BY DEF LineAbove
<1>1. \A v \in S, j \in Instances : Holds(j[1], j[2], Do(v)) /\ j[1] # Run => j[1] \in S
  BY Growth
<1> QED BY <1>1 DEF LineAbove

\* What the follower does to its frames.
LEMMA FrameMoves ==
  ASSUME IInv, Follow
  PROVE  \/ /\ \A i \in DOMAIN stack' : i \in DOMAIN stack /\ stack'[i].of = stack[i].of
            /\ \/ DOMAIN stack' = DOMAIN stack
               \/ ReadDone \/ ProbeFree
         \/ /\ ReadDo /\ stack # <<>> /\ DOMAIN stack' = 1..Len(stack) + 1 /\ stack'[Len(stack) + 1].of = Line.of
            /\ \A i \in 1..Len(stack) : stack'[i].of = stack[i].of
            /\ Line.of \notin visited /\ Line.of \in Targets /\ at[Line.of] # 0
<1>0. stack \in Seq(Frames)
  BY DEF IInv, TypeOK
<1>5. ASSUME stack # <<>>, NEW i \in 1..Len(stack) PROVE Advanced[i].of = stack[i].of
  <2>1. stack[i] \in Frames /\ Advanced[i] = IF i = Len(stack) THEN [stack[i] EXCEPT !.pos = @ + 1] ELSE stack[i]
    BY <1>0, <1>5, StackFacts
  <2>2. [stack[i] EXCEPT !.pos = @ + 1].of = stack[i].of
    BY <2>1 DEF Frames
  <2> QED BY <2>1, <2>2
<1>1. CASE ReadText \/ (ReadDo /\ stack' = Advanced)
  <2>1. stack # <<>> /\ stack' = Advanced
    BY <1>1 DEF ReadText, ReadDo, Reads
  <2>2. Advanced \in Seq(Frames) /\ Len(Advanced) = Len(stack)
    BY <1>0, <2>1, StackFacts
  <2>3. DOMAIN stack = 1..Len(stack) /\ DOMAIN stack' = 1..Len(stack)
    BY <1>0, <2>1, <2>2
  <2> QED BY <1>5, <2>1, <2>3
<1>2. CASE ReadDo /\ stack' # Advanced
  <2>1. /\ stack # <<>> /\ Line.of \notin visited /\ at[Line.of] # 0
        /\ Top.pos < Len(Log(Top)) /\ Line.kind = "do"
        /\ stack' = Append(Advanced, [of |-> Line.of, inst |-> at[Line.of], pos |-> 0])
    BY <1>2 DEF ReadDo, Reads, Line
  <2>2. Line.of \in Targets /\ Line.of \in Names
    BY <2>1, TopFacts DEF Lines, Names
  <2>3. [of |-> Line.of, inst |-> at[Line.of], pos |-> 0] \in Frames
    BY <2>2 DEF Frames, IInv, TypeOK
  <2> DEFINE f == [of |-> Line.of, inst |-> at[Line.of], pos |-> 0]
  <2>4. f.of = Line.of
    OBVIOUS
  <2> HIDE DEF f
  <2>6. /\ stack' \in Seq(Frames) /\ Len(stack') = Len(stack) + 1 /\ stack'[Len(stack) + 1] = f
        /\ \A i \in 1..Len(stack) : stack'[i] = Advanced[i]
    BY <1>0, <2>1, <2>3, StackFacts DEF f
  <2>7. \A i \in 1..Len(stack) : stack'[i].of = stack[i].of
    BY <1>5, <2>1, <2>6
  <2> QED BY <1>2, <2>1, <2>2, <2>4, <2>6, <2>7
<1>3. CASE ReadDone \/ ProbeFree
  <2>1. stack # <<>> /\ stack' = Popped
    BY <1>3 DEF ReadDone, Reads, ProbeFree, IInv, Walked
  <2>2. \A i \in DOMAIN stack' : i \in DOMAIN stack /\ stack'[i] = stack[i]
    BY <1>0, <2>1, StackFacts
  <2> QED BY <1>3, <2>2
<1>4. CASE ReadEof \/ ProbeHeld
  BY <1>4 DEF ReadEof, ProbeHeld
<1> QED BY <1>1, <1>2, <1>3, <1>4 DEF Follow

LEMMA NestedStep == ASSUME IInv, Nested, Moves PROVE Nested'
<1>0. stack \in Seq(Frames) /\ Run \notin Targets /\ DOMAIN stack = 1..Len(stack) /\ Len(stack) \in Nat
  BY LogAssumption DEF IInv, TypeOK
<1>1. ASSUME NEW u \in Targets, NEW v \in Targets, NEW i \in DOMAIN stack, NEW k \in DOMAIN stack,
             stack[i].of = u, stack[k].of = v, i <= k
      PROVE  u \in LineAbove(v)'
  <2>1. u \in LineAbove(v)
    BY <1>1 DEF Nested
  <2> QED BY <2>1, LineAboveGrows
<1>2. CASE \A i \in DOMAIN stack' : i \in DOMAIN stack /\ stack'[i].of = stack[i].of
  BY <1>1, <1>2 DEF Nested
<1>3. ASSUME ReadDo, stack # <<>>, DOMAIN stack' = 1..Len(stack) + 1, stack'[Len(stack) + 1].of = Line.of,
             \A i \in 1..Len(stack) : stack'[i].of = stack[i].of, Line.of \in Targets
      PROVE  Nested'
  <2> PICK t \in Targets : t = Line.of
    BY <1>3
  <2> DEFINE n == Len(stack)
  <2>1. Top.pos < Len(Log(Top)) /\ Line.kind = "do"
    BY <1>3 DEF ReadDo, Reads, Line
  <2>2. /\ Top.of \in Names /\ <<Top.of, Top.inst>> \in Instances /\ Top.pos + 1 \in DOMAIN Log(Top)
        /\ Line \in Lines
    BY <1>3, <2>1, TopFacts
  <2>3. Line = Do(t)
    BY <2>1, <2>2 DEF Lines, Do
  <2>4. Holds(Top.of, Top.inst, Do(t))
    BY <2>2, <2>3 DEF Holds, Log, Line
  <2>5. n \in Nat \ {0} /\ Top = stack[n] /\ n \in DOMAIN stack
    BY <1>0, <1>3 DEF Top
  <2>6. Line.of = t
    OBVIOUS
  <2> HIDE DEF n
  <2>7. t \in LineAbove(t)'
    BY LineAboveFacts, LineAboveGrows
  <2>8. ASSUME NEW u \in Targets, NEW i \in 1..n, stack[i].of = u PROVE u \in LineAbove(t)'
    <3>1. i <= n /\ i \in DOMAIN stack
      BY <2>5, <1>0 DEF n
    <3>2. i # 1
      BY <1>0, <2>8, <3>1 DEF IInv, Walked
    <3>3. n # 1
      BY <2>5, <3>2
    <3>4. Top.of \in Targets
      BY <2>5, <3>3 DEF IInv, Walked, TypeOK
    <3>5. u \in LineAbove(Top.of)
      BY <2>5, <2>8, <3>1, <3>4 DEF Nested
    <3>6. LineAbove(Top.of) \subseteq LineAbove(t)
      <4> DEFINE j == <<Top.of, Top.inst>>
      <4>1. j \in Instances /\ Holds(j[1], j[2], Do(t)) /\ j[1] = Top.of /\ j[1] # Run
        BY <1>0, <2>2, <2>4, <3>4
      <4> HIDE DEF j
      <4> QED BY <4>1, LineAboveFacts
    <3> QED BY <3>5, <3>6, LineAboveGrows
  <2> SUFFICES ASSUME NEW u \in Targets, NEW v \in Targets, NEW i \in DOMAIN stack', NEW k \in DOMAIN stack',
                      stack'[i].of = u, stack'[k].of = v, i <= k
               PROVE  u \in LineAbove(v)'
    BY DEF Nested
  <2>9. CASE k \in 1..n
    <3>1. i \in 1..n
      BY <1>3, <2>5, <2>9 DEF n
    <3> QED BY <1>0, <1>1, <1>3, <2>9, <3>1 DEF n
  <2>10. CASE k = n + 1
    <3>1. v = t
      BY <1>3, <2>6, <2>10 DEF n
    <3>2. CASE i \in 1..n
      <4>1. stack[i].of = u
        BY <1>3, <3>2 DEF n
      <4>2. u \in LineAbove(t)'
        BY <2>8, <3>2, <4>1
      <4> QED BY <3>1, <4>2
    <3>3. CASE i = n + 1
      BY <2>7, <2>10, <3>1, <3>3
    <3> QED BY <1>3, <2>5, <3>2, <3>3 DEF n
  <2> QED BY <1>3, <2>5, <2>9, <2>10 DEF n
<1>4. CASE UNCHANGED follower
  BY <1>2, <1>4 DEF follower
<1> QED BY <1>2, <1>3, <1>4, FrameMoves DEF Moves

\* A printed log is closed and stays as it is.
LEMMA ShownKept ==
  ASSUME IInv, Moves, NEW j \in Instances, NEW x, Holds(j[1], j[2], Done(x)) PROVE lines'[j] = lines[j]
<1>1. j = <<j[1], j[2]>>
  BY InstanceFacts
<1>2. PICK t, l : Written1(t, l)
  BY DEF Moves
<1>3. PICK k \in DOMAIN lines[j] : lines[j][k] = Done(x)
  BY <1>1 DEF Holds
<1>4. ~(j[2] = inst[j[1]] /\ pc[j[1]] = "running")
  BY <1>3 DEF IInv, Written, Done
<1>5. ASSUME Says(t, l) PROVE j # <<t, inst[t]>>
  BY <1>1, <1>4, <1>5 DEF Says
<1> QED BY <1>2, <1>5 DEF Written1, Says, IInv, TypeOK

LEMMA PrintedStep == ASSUME IInv, Printed, Moves, [Next]_vars PROVE Printed'
<1>0. /\ stack \in Seq(Frames) /\ Run \notin Targets /\ DOMAIN stack = 1..Len(stack) /\ Len(stack) \in Nat
      /\ visited \subseteq Targets /\ shown \subseteq Instances
      /\ inst \in [Names -> Nat] /\ Targets \subseteq Names
  BY LogAssumption DEF IInv, TypeOK, Names
<1>1. \A x \in Targets : inst'[x] \in Nat /\ inst[x] <= inst'[x]
  <2>1. ASSUME NEW x \in Targets PROVE inst'[x] \in Nat /\ inst[x] <= inst'[x]
    <3>1. Moved(x) /\ inst[x] \in Nat
      BY <1>0 DEF Moves
    <3> QED BY <3>1 DEF Moved
  <2> QED BY <2>1
<1>2. ASSUME NEW x \in Targets, NEW n \in 1..inst[x] PROVE n \in 1..inst'[x]
  BY <1>0, <1>1
<1>3. ASSUME NEW j \in shown
      PROVE  /\ Holds(j[1], j[2], Done(j[1]))'
             /\ \A k \in DOMAIN lines'[j] : lines'[j][k].kind = "do" => lines'[j][k].of \in visited
  <2>1. Holds(j[1], j[2], Done(j[1])) /\ j \in Instances
    BY <1>0 DEF Printed
  <2>2. lines'[j] = lines[j] /\ Holds(j[1], j[2], Done(j[1]))'
    BY <2>1, ShownKept, Growth
  <2> QED BY <2>2 DEF Printed
<1>4. CASE UNCHANGED follower
  <2>1. UNCHANGED <<stack, visited, shown, noted, lost>>
    BY <1>4 DEF follower
  <2>2. pc'[Run] = "joined" => stack = <<>>
    BY DEF Moves, Join, Printed
  <2>3. \A t \in visited : \/ Stacked(t)' \/ t \in lost
                           \/ \E n \in 1..inst'[t] : <<t, n>> \in shown \cup noted
    BY <1>0, <1>2, <2>1 DEF Printed, Stacked
  <2> QED BY <1>3, <2>1, <2>2, <2>3 DEF Printed
<1>5. CASE Follow /\ UNCHANGED <<lines, build>>
  <2>1. UNCHANGED <<pc, inst, lines>> /\ stack # <<>> /\ pc[Run] # "joined"
    BY <1>5 DEF build, Follow, ReadText, ReadDo, ReadDone, ReadEof, ProbeHeld, ProbeFree, Reads,
                IInv, Walked, Printed
  <2>2. /\ Top \in Frames /\ Top.of \in Names /\ <<Top.of, Top.inst>> \in Instances
        /\ Top.inst \in 1..inst[Top.of] /\ Top = stack[Len(stack)] /\ Len(stack) \in DOMAIN stack
    <3>1. Len(stack) \in DOMAIN stack /\ Top = stack[Len(stack)]
      BY <1>0, <2>1 DEF Top
    <3>2. Top.inst > 0 /\ Top.inst <= inst[Top.of] /\ Top.of \in Names /\ Top.inst \in Nat
          /\ Top \in Frames /\ <<Top.of, Top.inst>> \in Instances
      BY <2>1, <3>1, TopFacts DEF IInv, TypeOK, Counted
    <3> QED BY <1>0, <3>1, <3>2
  <2>3. shown \subseteq shown' /\ noted \subseteq noted' /\ lost \subseteq lost' /\ visited \subseteq visited'
    BY <1>5 DEF Follow, ReadText, ReadDo, ReadDone, ReadEof, ProbeHeld, ProbeFree
  \* What is popped is printed or noted.
  <2>4. ASSUME NEW t \in Targets, Stacked(t), ~Stacked(t)' PROVE \E n \in 1..inst[t] : <<t, n>> \in shown' \cup noted'
    <3>1. PICK i \in DOMAIN stack : stack[i].of = t
      BY <2>4 DEF Stacked
    <3>2. CASE ReadDone \/ ProbeFree
      <4>1. stack' = Popped /\ <<Top.of, Top.inst>> \in shown' \cup noted'
        BY <3>2 DEF ReadDone, ProbeFree
      <4>2. i \notin 1..Len(stack) - 1
        <5> SUFFICES ASSUME i \in 1..Len(stack) - 1 PROVE FALSE
          OBVIOUS
        <5>1. Len(stack') = Len(stack) - 1 /\ stack' \in Seq(Frames) /\ stack'[i] = stack[i]
          BY <1>0, <2>1, <4>1, StackFacts
        <5>2. i \in DOMAIN stack'
          BY <5>1
        <5> QED BY <2>4, <3>1, <5>1, <5>2 DEF Stacked
      <4>3. i = Len(stack)
        BY <1>0, <3>1, <4>2
      <4> QED BY <2>2, <3>1, <4>1, <4>3
    <3>3. CASE \A k \in 1..Len(stack) : k \in DOMAIN stack' /\ stack'[k].of = stack[k].of
      BY <1>0, <2>4, <3>1, <3>3 DEF Stacked
    <3>4. CASE /\ \A k \in DOMAIN stack' : k \in DOMAIN stack /\ stack'[k].of = stack[k].of
               /\ DOMAIN stack' = DOMAIN stack
      BY <2>4, <3>1, <3>4 DEF Stacked
    <3>5. CASE ReadDo /\ DOMAIN stack' = 1..Len(stack) + 1 /\ \A k \in 1..Len(stack) : stack'[k].of = stack[k].of
      <4>1. \A k \in 1..Len(stack) : k \in DOMAIN stack'
        BY <1>0, <3>5
      <4> QED BY <3>3, <3>5, <4>1
    <3> QED BY <1>5, <3>2, <3>4, <3>5, FrameMoves
  <2>5. ASSUME NEW t \in visited', t \notin visited PROVE Stacked(t)' \/ t \in lost'
    <3>1. ReadDo /\ t = Line.of
      BY <1>5, <2>5 DEF Follow, ReadText, ReadDo, ReadDone, ReadEof, ProbeHeld, ProbeFree
    <3>2. CASE lost' = lost \cup {Line.of}
      BY <3>1, <3>2
    <3>3. CASE stack' = Append(Advanced, [of |-> Line.of, inst |-> at[Line.of], pos |-> 0])
      <4>1. DOMAIN stack' # DOMAIN stack
        <5>1. Advanced \in Seq(Frames) /\ Len(Advanced) = Len(stack)
          BY <1>0, <2>1, StackFacts
        <5>2. Len(stack') = Len(stack) + 1 /\ DOMAIN stack' = 1..Len(stack')
          BY <1>0, <3>3, <5>1
        <5>3. Len(stack) + 1 \in DOMAIN stack' /\ Len(stack) + 1 \notin DOMAIN stack
          BY <1>0, <5>2
        <5> QED BY <5>3
      <4>2. ~ReadDone /\ ~ProbeFree
        <5>1. Line.kind = "do" /\ Reads("do") /\ ~eof
          BY <3>1 DEF ReadDo, Reads, Line
        <5>2. ~ReadDone
          BY <5>1 DEF ReadDone, Reads, Line
        <5>3. ~ProbeFree
          BY <5>1 DEF ProbeFree
        <5> QED BY <5>2, <5>3
      <4>3. DOMAIN stack' = 1..Len(stack) + 1 /\ stack'[Len(stack) + 1].of = Line.of
        BY <1>5, <4>1, <4>2, FrameMoves
      <4> QED BY <1>0, <3>1, <4>3 DEF Stacked
    <3> QED BY <2>5, <3>1, <3>2, <3>3 DEF ReadDo
  <2>6. \A t \in visited' : \/ Stacked(t)' \/ t \in lost'
                            \/ \E n \in 1..inst'[t] : <<t, n>> \in shown' \cup noted'
    <3> SUFFICES ASSUME NEW t \in visited', t \in visited, ~Stacked(t)', t \notin lost'
                 PROVE  \E n \in 1..inst[t] : <<t, n>> \in shown' \cup noted'
      BY <2>1, <2>5
    <3> QED BY <1>0, <2>3, <2>4 DEF Printed
  <2>7. ASSUME NEW j \in shown', j \notin shown
        PROVE  /\ Holds(j[1], j[2], Done(j[1]))
               /\ \A k \in DOMAIN lines[j] : lines[j][k].kind = "do" => lines[j][k].of \in visited'
    <3>1. ReadDone /\ j = <<Top.of, Top.inst>>
      BY <1>5, <2>7 DEF Follow, ReadText, ReadDo, ReadDone, ReadEof, ProbeHeld, ProbeFree
    <3>2. Top.pos < Len(Log(Top)) /\ Line.kind = "done"
      BY <3>1 DEF ReadDone, Reads, Line
    <3>3. /\ Top.pos + 1 \in DOMAIN Log(Top) /\ Line \in Lines /\ Log(Top) = lines[j] /\ Top.pos \in Nat
          /\ Len(lines[j]) \in Nat /\ DOMAIN lines[j] = 1..Len(lines[j])
      BY <2>1, <3>1, <3>2, TopFacts DEF Log
    <3>4. lines[j][Top.pos + 1] = Line /\ Line.of = Top.of /\ Top.pos + 1 = Len(lines[j])
      BY <2>2, <3>1, <3>2, <3>3 DEF Line, IInv, Written
    <3>5. Line = Done(Top.of)
      BY <3>2, <3>3, <3>4 DEF Lines, Done
    <3>6. Holds(j[1], j[2], Done(j[1]))
      BY <3>1, <3>3, <3>4, <3>5 DEF Holds
    <3>7. \A k \in 1..Top.pos : lines[j][k].kind = "do" => lines[j][k].of \in visited
      BY <2>2, <3>3 DEF IInv, Walked
    <3>8. \A k \in DOMAIN lines[j] : k \in 1..Top.pos \/ k = Top.pos + 1
      BY <3>3, <3>4
    <3> QED BY <2>3, <3>2, <3>4, <3>6, <3>7, <3>8
  <2>8. \A j \in shown' : /\ Holds(j[1], j[2], Done(j[1]))'
                          /\ \A k \in DOMAIN lines'[j] : lines'[j][k].kind = "do" => lines'[j][k].of \in visited'
    BY <1>3, <2>1, <2>3, <2>7 DEF Holds
  <2> QED BY <2>1, <2>6, <2>8 DEF Printed
<1> QED BY <1>4, <1>5 DEF Moves

-----------------------------------------------------------------------------
\* THE LINES MIRROR THE CALLS, as long as no target is built twice.

LEMMA RebuiltStays == ASSUME IInv, Moves, ~Rebuilt' PROVE ~Rebuilt /\ \A x \in Targets : inst[x] \in 0..1 /\ inst'[x] \in 0..1
<1>1. ASSUME NEW x \in Targets PROVE inst[x] \in 0..1 /\ inst'[x] \in 0..1
  <2>1. Moved(x) /\ inst[x] \in Nat
    BY DEF Moves, IInv, TypeOK, Names
  <2>2. ~(inst'[x] > 1) /\ inst'[x] \in Nat /\ inst[x] <= inst'[x]
    BY <2>1 DEF Moved, Rebuilt
  <2> QED BY <2>1, <2>2
<1> QED BY <1>1 DEF Rebuilt

\* A `do' line is in the first log of whoever was asked.
LEMMA TraceSays ==
  ASSUME IInv, There, ~Rebuilt, NEW x \in Targets, Trace(x)
  PROVE  /\ caller[x] \in Names /\ caller'[x] = caller[x] /\ <<caller[x], 1>> \in Instances
         /\ \A p \in Names : p = caller[x] => Holds(p, 1, Do(x))'
<1>1. /\ pc[x] = "logged" /\ Append1(caller[x], Do(x))
      /\ UNCHANGED <<caller, inst, at, built, died, crashes, follower>>
  BY DEF Trace
<1>2. PICK p \in Names : p = caller[x]
  BY DEF IInv, TypeOK
<1>3. pc[p] = "running" /\ Do(x) \in Lines /\ <<p, inst[p]>> \in Instances /\ inst[p] \in Nat /\ inst[p] > 0
  BY <1>1, <1>2, Existing DEF IInv, TypeOK, Called, Locked, Do, Lines, Counted
<1>4. inst[p] = 1
  <2>1. CASE p \in Targets
    BY <1>3, <2>1 DEF Rebuilt
  <2>2. CASE p = Run
    BY <2>2 DEF IInv, Counted
  <2> QED BY <2>1, <2>2 DEF Names
<1>5. at[p] # 0
  <2>1. CASE p \in Targets
    <3>1. ~Holds(p, 1, Done(p))
      <4> SUFFICES ASSUME NEW k \in DOMAIN lines[<<p, 1>>], lines[<<p, 1>>][k] = Done(p) PROVE FALSE
        BY DEF Holds
      <4> DEFINE j == <<p, 1>>
      <4>1. j \in Instances /\ j[1] = p /\ j[2] = 1 /\ lines[j][k].kind = "done" /\ k \in DOMAIN lines[j]
        BY <1>3, <1>4 DEF Done
      <4> HIDE DEF j
      <4> QED BY <1>3, <1>4, <4>1 DEF IInv, Written
    <3> QED BY <1>3, <2>1, <3>1 DEF There
  <2>2. CASE p = Run
    BY <1>3, <2>2 DEF There
  <2> QED BY <2>1, <2>2 DEF Names
<1>6. at[p] = inst[p]
  BY <1>5 DEF IInv, Counted
<1>7. Says(p, Do(x))
  BY <1>1, <1>2, <1>3, <1>6, Saying DEF IInv
<1>8. Holds(p, 1, Do(x))'
  <2>1. lines'[<<p, 1>>] = Append(lines[<<p, 1>>], Do(x)) /\ lines[<<p, 1>>] \in Seq(Lines)
    BY <1>3, <1>4, <1>7 DEF Says, IInv, TypeOK
  <2>2. \E k \in DOMAIN lines'[<<p, 1>>] : lines'[<<p, 1>>][k] = Do(x)
    <3> DEFINE s == lines[<<p, 1>>]
               d == Do(x)
    <3>1. s \in Seq(Lines) /\ d \in Lines /\ lines'[<<p, 1>>] = Append(s, d)
      BY <1>3, <2>1
    <3> HIDE DEF s, d
    <3>2. Len(s) + 1 \in DOMAIN Append(s, d) /\ Append(s, d)[Len(s) + 1] = d
      BY <3>1
    <3> QED BY <3>1, <3>2 DEF d
  <2> QED BY <2>2 DEF Holds
<1> QED BY <1>1, <1>2, <1>3, <1>4, <1>8

LEMMA TracedStep == ASSUME IInv, Traced, There, Moves, ~Rebuilt' PROVE Traced'
<1> SUFFICES ASSUME NEW x \in Targets, pc'[x] \in {"running", "finished"}, NEW p, p = caller'[x]
             PROVE  Holds(p, 1, Do(x))'
  BY DEF Traced, Holds
<1>1. Moved(x) /\ ~Rebuilt
  BY RebuiltStays DEF Moves
<1>2. p = caller[x] /\ p \in Names
  BY <1>1 DEF Moved, IInv, TypeOK
<1>3. CASE Trace(x)
  BY <1>1, <1>2, <1>3, TraceSays
<1>4. CASE pc[x] \in {"running", "finished"}
  <2>1. Holds(p, 1, Do(x))
    BY <1>2, <1>4 DEF Traced
  <2>2. <<p, 1>> \in Instances
    <3>1. pc[p] = "running"  \/ p \in Targets \/ p = Run
      BY <1>2 DEF Names
    <3>2. CASE p = Run
      BY <3>2, InstanceFacts
    <3>3. CASE p \in Targets
      BY <3>3, InstanceFacts, LogAssumption
    <3> QED BY <1>2, <3>2, <3>3 DEF Names
  <2> QED BY <2>1, <2>2, Growth
<1> QED BY <1>1, <1>3, <1>4 DEF Moved

LEMMA SingleStep == ASSUME IInv, Single, Moves, ~Rebuilt' PROVE Single'
<1> SUFFICES ASSUME NEW x \in Targets, pc'[x] \in Logged, NEW j \in Instances, Holds(j[1], j[2], Do(x))'
             PROVE  j[1] = caller'[x] /\ pc'[x] # "logged"
  BY DEF Single
<1>1. Moved(x) /\ inst[x] \in 0..1 /\ inst'[x] \in 0..1
  BY RebuiltStays DEF Moves
<1>2. CASE Trace(x) /\ j[1] = caller[x]
  BY <1>2 DEF Trace, Goto, IInv, TypeOK, Names
<1>3. CASE Holds(j[1], j[2], Do(x))
  <2>1. inst[x] > 0
    <3>1. j = <<j[1], j[2]>>
      BY InstanceFacts
    <3>2. PICK k \in DOMAIN lines[j] : lines[j][k] = Do(x)
      BY <1>3, <3>1 DEF Holds
    <3>3. lines[j][k].kind = "do" /\ lines[j][k].of = x
      BY <3>2 DEF Do
    <3> QED BY <3>3 DEF IInv, Written
  <2>2. ~CreateLog(x)
    <3> SUFFICES ASSUME CreateLog(x) PROVE FALSE
      OBVIOUS
    <3>1. inst'[x] = inst[x] + 1
      BY DEF CreateLog, IInv, TypeOK, Names
    <3> QED BY <1>1, <2>1, <3>1
  <2>3. pc[x] \in Logged \/ Trace(x)
    BY <1>1, <2>2 DEF Moved
  <2>4. pc[x] \in Logged
    BY <2>3 DEF Trace
  <2>5. j[1] = caller[x] /\ pc[x] # "logged"
    BY <1>3, <2>4 DEF Single
  <2> QED BY <1>1, <2>2, <2>5 DEF Moved
<1> QED BY <1>2, <1>3, Growth

LEMMA ClosedStep == ASSUME IInv, Traced, Closed, Moves, ~Rebuilt' PROVE Closed'
<1> SUFFICES ASSUME NEW x \in Targets, Holds(x, 1, Done(x))' PROVE Announced(x)'
  BY DEF Closed
<1>1. <<x, 1>> \in Instances
  BY InstanceFacts, LogAssumption
<1>2. CASE Announced(x)
  BY <1>2, Growth DEF Announced
<1>3. CASE Holds(x, 1, Done(x))
  BY <1>2, <1>3 DEF Closed
<1>4. CASE Finish(x)
  <2>1. PICK p \in Names : p = caller[x] /\ Holds(p, 1, Do(x))
    BY <1>4 DEF Finish, Traced, IInv, TypeOK
  <2>2. <<p, 1>> \in Instances
    BY InstanceFacts, LogAssumption DEF Names
  <2> DEFINE j == <<p, 1>>
  <2>3. j \in Instances /\ j[1] = p /\ j[2] = 1
    BY <2>2
  <2> HIDE DEF j
  <2> QED BY <1>2, <2>1, <2>3 DEF Announced
<1>5. Holds(x, 1, Done(x)) \/ Finish(x)
  <2> DEFINE j == <<x, 1>>
  <2>1. j \in Instances /\ j[1] = x /\ j[2] = 1
    BY <1>1
  <2> HIDE DEF j
  <2> QED BY <2>1, Growth
<1> QED BY <1>3, <1>4, <1>5

LEMMA ThereStep == ASSUME IInv, There, Moves, ~Rebuilt' PROVE There'
<1>1. at'[Run] = 0 => pc'[Run] = "joined"
  BY DEF Moves, There, Join, Goto, IInv, TypeOK, Names
<1>2. ASSUME NEW x \in Targets, inst'[x] > 0, at'[x] = 0 PROVE Holds(x, 1, Done(x))'
  <2>1. Moved(x) /\ inst[x] \in 0..1 /\ inst'[x] \in 0..1 /\ <<x, 1>> \in Instances
    BY RebuiltStays, InstanceFacts, LogAssumption DEF Moves
  <2>2. ~CreateLog(x)
    <3> SUFFICES ASSUME CreateLog(x) PROVE FALSE
      OBVIOUS
    <3>1. at'[x] = inst[x] + 1
      BY DEF CreateLog, IInv, TypeOK, Names
    <3> QED BY <1>2, <2>1, <3>1
  <2>3. inst[x] = 1
    BY <1>2, <2>1, <2>2 DEF Moved
  <2>4. Holds(x, 1, Done(x))
    <3>1. CASE at[x] = 0
      BY <2>3, <3>1 DEF There
    <3>2. CASE ReadDone /\ x = Top.of
      <4>1. stack # <<>> /\ Top.pos < Len(Log(Top)) /\ Line.kind = "done"
        BY <3>2 DEF ReadDone, Reads, Line
      <4>2. /\ <<x, Top.inst>> \in Instances /\ Top.pos + 1 \in DOMAIN Log(Top) /\ Line \in Lines
        BY <3>2, <4>1, TopFacts
      <4>3. Top.inst = 1
        <5>1. Len(stack) \in DOMAIN stack /\ Top = stack[Len(stack)] /\ Top.inst \in Nat
          BY <4>1, StackFacts, TopFacts DEF IInv, TypeOK
        <5>2. Top.inst > 0 /\ Top.inst <= inst[Top.of]
          BY <5>1 DEF IInv, TypeOK, Counted
        <5> QED BY <2>3, <3>2, <5>1, <5>2
      <4> DEFINE j == <<x, 1>>
      <4>4. j \in Instances /\ j[1] = x /\ Log(Top) = lines[j]
        BY <3>2, <4>2, <4>3 DEF Log
      <4> HIDE DEF j
      <4>5. Line.of = x
        BY <4>1, <4>2, <4>4 DEF IInv, Written, Line
      <4>6. Line = Done(x)
        BY <4>1, <4>2, <4>5 DEF Lines, Done
      <4> QED BY <4>2, <4>4, <4>6 DEF Holds, Line, j
    <3> QED BY <1>2, <2>1, <2>2, <3>1, <3>2 DEF Moved
  <2> QED BY <2>1, <2>4, Growth
<1> QED BY <1>1, <1>2 DEF There

\* Only those that wait for a builder lead to its log.
LEMMA LinesInside == IInv /\ Single => \A t \in Targets : pc[t] \in Logged => LineAbove(t) \subseteq Above(t)
<1> SUFFICES ASSUME IInv, Single, NEW t \in Targets, pc[t] \in Logged PROVE LineAbove(t) \subseteq Above(t)
  OBVIOUS
<1>1. Above(t) \in SUBSET Targets /\ t \in Above(t)
  BY AboveFacts DEF Locked
<1>2. ASSUME NEW v \in Above(t), NEW j \in Instances, Holds(j[1], j[2], Do(v)), j[1] # Run
      PROVE  j[1] \in Above(t)
  <2>1. v \in Targets /\ Locked(v)
    BY DEF Above
  <2>2. pc[v] \in Logged
    <3>1. CASE \E w \in Targets : Locked(w) /\ caller[w] = v
      BY <3>1 DEF IInv, Called
    <3> QED BY <3>1, AboveFacts
  <2>3. j[1] = caller[v]
    BY <1>2, <2>1, <2>2 DEF Single
  <2>4. caller[v] \in Targets /\ Locked(caller[v])
    BY <1>2, <2>1, <2>3 DEF IInv, TypeOK, Called, Locked, Names
  <2> QED BY <2>3, <2>4, AboveFacts
<1> HIDE DEF Above
<1> QED BY <1>1, <1>2 DEF LineAbove

LEMMA NarrowStep ==
  ASSUME IInv, IInv', Single', Shallow', Narrow, Moves, ~Rebuilt'
  PROVE  Narrow'
<1> SUFFICES ASSUME NEW x \in Targets, Announced(x)' PROVE Cardinality(LineAbove(x)') <= DepthMax
  BY DEF Narrow
<1>0. DepthMax \in Nat \ {0}
  BY LogAssumption
<1>1. CASE Trace(x)
  <2>1. pc'[x] = "running"
    BY <1>1 DEF Trace, Goto, IInv, TypeOK, Names
  <2>2. (\A t \in Targets : pc[t] \in Logged => LineAbove(t) \subseteq Above(t))'
    BY LinesInside, PTL
  <2>3. LineAbove(x)' \subseteq Above(x)'
    BY <2>1, <2>2
  <2>4. Cardinality(Above(x)') <= DepthMax
    BY <2>1 DEF Shallow, Locked
  <2>5. Above(x)' \subseteq Targets
    BY DEF Above
  <2>6. IsFiniteSet(Above(x)') /\ Cardinality(Above(x)') \in Nat
    BY <2>5, LogAssumption, FS_Subset, FS_CardinalityType
  <2>7. Cardinality(LineAbove(x)') <= Cardinality(Above(x)') /\ Cardinality(LineAbove(x)') \in Nat
    BY <2>3, <2>6, FS_Subset, FS_CardinalityType
  <2> QED BY <1>0, <2>4, <2>6, <2>7
<1>2. CASE ~Trace(x)
  <2>1. Announced(x)
    <3>1. PICK j \in Instances : Holds(j[1], j[2], Do(x))'
      BY DEF Announced
    <3> QED BY <1>2, <3>1, Growth DEF Announced
  \* Whose line is being written has no lines of its own.
  <2>2. ASSUME NEW u \in Targets, Trace(u) PROVE u \notin LineAbove(x)
    <3> DEFINE S == {v \in Targets : v = x \/ \E j \in Instances : j[1] = v /\ lines[j] # <<>>}
    <3>1. \A v \in S, j \in Instances : Holds(j[1], j[2], Do(v)) /\ j[1] # Run => j[1] \in S
      <4> SUFFICES ASSUME NEW v \in S, NEW j \in Instances, Holds(j[1], j[2], Do(v)), j[1] # Run
                   PROVE  j[1] \in S
        OBVIOUS
      <4>1. j[1] \in Targets /\ j = <<j[1], j[2]>>
        BY InstanceFacts DEF Names
      <4>2. lines[j] # <<>>
        BY <4>1 DEF Holds
      <4> QED BY <4>1, <4>2
    <3>2. u # x
      BY <1>2, <2>2
    <3>3. \A j \in Instances : j[1] = u => lines[j] = <<>>
      <4> SUFFICES ASSUME NEW j \in Instances, j[1] = u PROVE lines[j] = <<>>
        OBVIOUS
      <4>1. pc[u] = "logged" /\ inst[u] \in 0..1 /\ j[2] \in Nat \ {0}
        BY <2>2, InstanceFacts, RebuiltStays DEF Trace
      <4>2. j[2] > inst[u] \/ j[2] = inst[u]
        BY <4>1
      <4> QED BY <4>1, <4>2 DEF IInv, Written
    <3>4. u \notin S
      BY <3>2, <3>3
    <3>5. S \in SUBSET Targets /\ x \in S
      OBVIOUS
    <3> HIDE DEF S
    <3>6. LineAbove(x) \subseteq S
      BY <3>1, <3>5 DEF LineAbove
    <3> QED BY <3>4, <3>6
  <2>3. LineAbove(x)' \subseteq LineAbove(x)
    <3>1. LineAbove(x) \in SUBSET Targets /\ x \in LineAbove(x)
      BY LineAboveFacts
    <3>2. ASSUME NEW v \in LineAbove(x), NEW j \in Instances, Holds(j[1], j[2], Do(v))', j[1] # Run
          PROVE  j[1] \in LineAbove(x)
      <4>1. Holds(j[1], j[2], Do(v))
        BY <2>2, <3>1, <3>2, Growth
      <4> QED BY <3>2, <4>1, LineAboveFacts
    <3> QED BY <3>1, <3>2 DEF LineAbove
  <2>4. Cardinality(LineAbove(x)') <= Cardinality(LineAbove(x)) /\ Cardinality(LineAbove(x)') \in Nat
        /\ Cardinality(LineAbove(x)) \in Nat
    BY <2>3, LineAboveFacts, FS_Subset, FS_CardinalityType
  <2> QED BY <1>0, <2>1, <2>4 DEF Narrow
<1> QED BY <1>1, <1>2

\* The follower's frames and the target it has just met lead to that target.
LEMMA DeepEnough ==
  ASSUME IInv, Nested, Narrow, ReadDo, Line.of \notin visited
  PROVE  Len(stack) <= DepthMax
<1>0. /\ stack \in Seq(Frames) /\ DOMAIN stack = 1..Len(stack) /\ Len(stack) \in Nat /\ stack # <<>>
      /\ Top.pos < Len(Log(Top)) /\ Line.kind = "do" /\ Run \notin Targets /\ DepthMax \in Nat
  BY LogAssumption DEF IInv, TypeOK, ReadDo, Reads, Line
<1>1. /\ Top.of \in Names /\ <<Top.of, Top.inst>> \in Instances /\ Top.pos + 1 \in DOMAIN Log(Top) /\ Line \in Lines
  BY <1>0, TopFacts
<1>2. PICK t \in Targets : t = Line.of
  BY <1>0, <1>1 DEF Lines
<1>3. Holds(Top.of, Top.inst, Do(t))
  <2>1. Line = Do(t)
    BY <1>0, <1>1, <1>2 DEF Lines, Do
  <2> QED BY <1>1, <2>1 DEF Holds, Log, Line
<1> DEFINE j == <<Top.of, Top.inst>>
           n == Len(stack)
<1>4. j \in Instances /\ j[1] = Top.of /\ Holds(j[1], j[2], Do(t))
  BY <1>1, <1>3
<1>5. n \in Nat \ {0} /\ Top = stack[n] /\ DOMAIN stack = 1..n
  BY <1>0 DEF Top
<1> HIDE DEF j, n
<1>6. ASSUME NEW i \in 2..n PROVE stack[i].of \in LineAbove(t) /\ stack[i].of # t
  <2>1. i \in DOMAIN stack /\ n \in DOMAIN stack /\ i <= n /\ i # 1 /\ n # 1
    BY <1>5
  <2>2. stack[i].of \in visited /\ stack[n].of \in visited
    BY <2>1 DEF IInv, Walked
  <2>3. stack[i].of \in Targets /\ Top.of \in Targets
    BY <1>5, <2>2 DEF IInv, TypeOK
  <2>4. stack[i].of \in LineAbove(Top.of)
    BY <1>5, <2>1, <2>3 DEF Nested
  <2>5. LineAbove(Top.of) \subseteq LineAbove(t)
    BY <1>0, <1>4, <2>3, LineAboveFacts
  <2> QED BY <1>2, <2>2, <2>4, <2>5
<1>7. Cardinality(LineAbove(t)) <= DepthMax /\ IsFiniteSet(LineAbove(t)) /\ t \in LineAbove(t)
      /\ Cardinality(LineAbove(t)) \in Nat
  BY <1>4, LineAboveFacts DEF Narrow, Announced
<1> DEFINE f == [i \in 1..n |-> IF i = 1 THEN t ELSE stack[i].of]
<1>8. f \in Injection(1..n, LineAbove(t))
  <2>1. \A i \in 1..n : i = 1 \/ i \in 2..n
    BY <1>5
  <2>2. \A i \in 1..n : f[i] \in LineAbove(t)
    BY <1>6, <1>7, <2>1
  <2>3. \A i, k \in 1..n : f[i] = f[k] => i = k
    <3> SUFFICES ASSUME NEW i \in 1..n, NEW k \in 1..n, f[i] = f[k] PROVE i = k
      OBVIOUS
    <3>1. CASE i # 1 /\ k # 1
      BY <1>5, <3>1 DEF IInv, Walked
    <3>2. CASE i = 1 \/ k = 1
      BY <1>6, <2>1, <3>2
    <3> QED BY <3>1, <3>2
  <2> QED BY <2>2, <2>3 DEF Injection, IsInjective
<1> HIDE DEF f
<1>9. Cardinality(1..n) <= Cardinality(LineAbove(t))
  BY <1>7, <1>8, FS_Injection
<1>10. Cardinality(1..n) = n
  <2>1. 1 \in Int /\ n \in Int /\ n >= 1
    BY <1>5
  <2> QED BY <2>1, FS_Interval
<1> QED BY <1>0, <1>5, <1>7, <1>9, <1>10 DEF n

LEMMA OnceStep == ASSUME Whole, Moves, [Next]_vars, IInv', Shallow' PROVE Once'
<1> USE DEF Whole
<1> SUFFICES ASSUME ~Rebuilt' PROVE (Traced /\ Single /\ Closed /\ There /\ Narrow /\ lost = {})'
  BY DEF Once
<1>1. Traced /\ Single /\ Closed /\ There /\ Narrow /\ lost = {}
  BY RebuiltStays DEF Once
<1>2. Traced' /\ Single' /\ Closed' /\ There'
  BY <1>1, TracedStep, SingleStep, ClosedStep, ThereStep
<1>3. Narrow'
  BY <1>1, <1>2, NarrowStep
<1>4. lost' = lost
  <2>1. CASE ReadDo
    <3>1. Line.of \notin visited => Len(stack) <= DepthMax /\ at[Line.of] # 0
      BY <1>1, <2>1, DeepEnough, LogThere
    <3>2. Len(stack) \in Nat /\ DepthMax \in Nat
      BY LogAssumption DEF IInv, TypeOK
    <3> QED BY <2>1, <3>1, <3>2 DEF ReadDo
  <2>2. CASE UNCHANGED follower
    BY <2>2 DEF follower
  <2>3. CASE Follow /\ ~ReadDo
    BY <2>3 DEF Follow, ReadText, ReadDone, ReadEof, ProbeHeld, ProbeFree
  <2> QED BY <2>1, <2>2, <2>3 DEF Moves
<1> QED BY <1>1, <1>2, <1>3, <1>4

LEMMA WholeStep == Whole /\ [Next]_vars => Whole'
<1> SUFFICES ASSUME Whole, [Next]_vars PROVE Whole'
  OBVIOUS
<1>1. IInv /\ Moves /\ IInv'
  BY NextStep, MovesStep DEF Whole
<1>2. Printed' /\ Shallow' /\ Nested'
  BY <1>1, PrintedStep, ShallowStep, NestedStep DEF Whole
<1>3. Once'
  BY <1>1, <1>2, OnceStep
<1> QED BY <1>1, <1>2, <1>3 DEF Whole

LEMMA InitWhole == Init => Whole
<1> SUFFICES ASSUME Init PROVE Whole
  OBVIOUS
<1>1. IInv
  BY InitIInv
<1>2. Run \in Names /\ Run \notin Targets /\ Targets \subseteq Names
  BY LogAssumption DEF Names
<1>3. /\ \A t \in Targets : pc[t] = "idle" /\ inst[t] = 0
      /\ pc[Run] = "running" /\ at[Run] = 1 /\ visited = {} /\ shown = {} /\ lost = {}
      /\ \A j \in Instances : lines[j] = <<>>
      /\ DOMAIN stack = 1..1 /\ stack[1].of = Run
  BY <1>2 DEF Init
<1>4. \A line : \A j \in Instances : ~Holds(j[1], j[2], line)
  <2> SUFFICES ASSUME NEW j \in Instances, NEW line, Holds(j[1], j[2], line) PROVE FALSE
    OBVIOUS
  <2>1. lines[<<j[1], j[2]>>] = <<>>
    BY <1>3, InstanceFacts
  <2> QED BY <2>1 DEF Holds
<1>5. \A line : \A t \in Targets : ~Holds(t, 1, line)
  <2> SUFFICES ASSUME NEW t \in Targets, NEW line, Holds(t, 1, line) PROVE FALSE
    OBVIOUS
  <2>1. lines[<<t, 1>>] = <<>>
    BY <1>3, InstanceFacts, LogAssumption
  <2> QED BY <2>1 DEF Holds
<1>6. Printed
  BY <1>3 DEF Printed
<1>7. Shallow
  BY <1>3 DEF Shallow, Locked
<1>8. Nested
  BY <1>2, <1>3 DEF Nested
<1>9. Once
  BY <1>3, <1>4, <1>5 DEF Once, Traced, Single, Closed, There, Narrow, Announced
<1> QED BY <1>1, <1>6, <1>7, <1>8, <1>9 DEF Whole

\* The walk as a whole: when the run is over, every build that reached its end
\* has been announced, and what a printed log announces has been printed or
\* called crashed, whatever was killed and in whatever order builders and the
\* follower took their steps; only a target that was built twice can be missed.
THEOREM WholeWalk == Spec => []NothingLost
<1>1. Whole => NothingLost
  <2> SUFFICES ASSUME Whole, pc[Run] = "joined", NEW t \in Targets
               PROVE  /\ Holds(t, 1, Done(t)) => Rebuilt \/ \E i \in Instances : Holds(i[1], i[2], Do(t))
                      /\ \A i \in shown : Holds(i[1], i[2], Do(t)) =>
                           \/ \E n \in 1..inst[t] : <<t, n>> \in shown \cup noted
                           \/ t \in lost /\ Rebuilt
    BY DEF NothingLost
  <2>1. Holds(t, 1, Done(t)) => Rebuilt \/ \E i \in Instances : Holds(i[1], i[2], Do(t))
    BY DEF Whole, Once, Closed, Announced
  <2>2. ASSUME NEW i \in shown, Holds(i[1], i[2], Do(t))
        PROVE  \/ \E n \in 1..inst[t] : <<t, n>> \in shown \cup noted
               \/ t \in lost /\ Rebuilt
    <3>1. i \in Instances /\ i = <<i[1], i[2]>>
      BY InstanceFacts DEF Whole, IInv, TypeOK
    <3>2. PICK k \in DOMAIN lines[i] : lines[i][k] = Do(t)
      BY <2>2, <3>1 DEF Holds
    <3>3. t \in visited
      BY <3>2 DEF Whole, Printed, Do
    <3>4. ~Stacked(t)
      BY DEF Whole, Printed, Stacked
    <3>5. t \in lost => Rebuilt
      BY DEF Whole, Once
    <3> QED BY <3>3, <3>4, <3>5 DEF Whole, Printed
  <2> QED BY <2>1, <2>2
<1> QED BY <1>1, InitWhole, WholeStep, PTL DEF Spec
=============================================================================
