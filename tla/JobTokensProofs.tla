-------------------------- MODULE JobTokensProofs --------------------------
(***************************************************************************)
(* Proofs about JobTokens for any finite tree of calls and jobs and any -j.*)
(***************************************************************************)
EXTENDS JobTokens, FiniteSetTheorems, TLAPS

States ==
  /\ pc \in [Calls -> {"new"} \cup Open \cup Over]
  /\ own \in [Calls -> BOOLEAN] /\ err \in [Calls -> BOOLEAN]
  /\ job \in [Jobs -> {"queued", "busy"} \cup Over]
  /\ src \in [Jobs -> {None, "Own", "Pool"}]
  /\ pool \in Nat /\ lost \in Nat /\ gone \subseteq Calls

\* The one job that holds a call's own token.
OwnTokens ==
  /\ \A c \in Calls \ gone : own[c] <=> \E j \in Jobs : CallOf[j] = c /\ src[j] = "Own"
  /\ \A i, j \in Jobs : CallOf[i] = CallOf[j] /\ src[i] = "Own" /\ src[j] = "Own" => i = j

\* Tokens are with started jobs of started calls, calls with busy jobs.
Holders ==
  /\ \A j \in Jobs : /\ src[j] # None => job[j] # "queued"
                     /\ job[j] = "busy" => src[j] # None
                     /\ src[j] # None => pc[CallOf[j]] \in Open \/ CallOf[j] \in gone
  /\ \A c \in Calls \ {Root} : pc[c] \in Open => job[JobOf[c]] = "busy"
  /\ \A c \in gone : pc[c] = "failed"

Control == States /\ OwnTokens /\ Holders

\* Success is that of all the call's jobs.
Outcomes ==
  \A j \in Jobs :
    /\ src[j] = None /\ job[j] # "queued" /\ CallOf[j] \notin gone /\ ~err[CallOf[j]] => job[j] = "ok"
    /\ CallOf[j] \notin gone /\ pc[CallOf[j]] = "ok" => job[j] = "ok"

\* A token is in the pool, with a job that is not waiting for a call, or it is
\* the own token of a call that has none of its jobs on it.
Holding == {j \in Jobs : src[j] # None /\ OpenCalls(j) = {}}
Free == {c \in Calls : pc[c] \in Open /\ ~own[c]}
TokensBound == gone = {} => pool + Cardinality(Holding) + Cardinality(Free) <= J

IInv == Control /\ Outcomes /\ TokensConserved

USE DEF Open, Over, TryAcquire, Release

LEMMA InitHolds == Init => IInv
<1> SUFFICES ASSUME Init PROVE IInv
  OBVIOUS
<1>1. Control
  BY TreeAssumption DEF Init, Control, States, OwnTokens, Holders
<1>2. Outcomes
  BY TreeAssumption DEF Init, Outcomes
<1>3. PoolHeld = {}
  BY TreeAssumption DEF Init, PoolHeld
<1>4. TokensConserved
  BY <1>3, FS_EmptySet, TreeAssumption DEF Init, TokensConserved
<1> QED BY <1>1, <1>2, <1>4 DEF IInv

-----------------------------------------------------------------------------
LEMMA ControlStep == Control /\ [Next]_vars => Control'
<1> SUFFICES ASSUME Control, [Next]_vars PROVE Control'
  OBVIOUS
<1> USE TreeAssumption DEF Control, history
<1>1. ASSUME NEW c \in Calls, Start(c) PROVE Control'
  BY <1>1 DEF Start, States, OwnTokens, Holders, OpenCalls
<1>2. ASSUME NEW j \in Jobs, Finish(j) PROVE Control'
  BY <1>2 DEF Finish, States, OwnTokens, Holders, OpenCalls
<1>3. ASSUME NEW c \in Calls, NEW j \in Jobs, LaunchOwn(c, j) PROVE Control'
  <2>1. States'
    BY <1>3 DEF LaunchOwn, Spawn, States, Queued
  <2>2. OwnTokens'
    <3>1. CallOf[j] = c /\ src[j] = None /\ ~own[c] /\ c \notin gone /\ None # "Own"
      BY <1>3 DEF LaunchOwn, Queued, Holders, States
    <3>2. /\ own' = [own EXCEPT ![c] = TRUE] /\ src' = [src EXCEPT ![j] = "Own"]
          /\ gone' = gone
      BY <1>3 DEF LaunchOwn, Spawn
    <3>3. ASSUME NEW i \in Jobs, i # j, CallOf[i] = c PROVE src[i] # "Own"
      BY <3>1, <3>3 DEF OwnTokens
    <3>4. ASSUME NEW d \in Calls \ gone
          PROVE  own'[d] <=> \E i \in Jobs : CallOf[i] = d /\ src'[i] = "Own"
      <4>1. CASE d = c
        BY <4>1, <3>1, <3>2 DEF States
      <4>2. CASE d # c
        BY <4>2, <3>1, <3>2, <3>4 DEF States, OwnTokens
      <4> QED BY <4>1, <4>2
    <3>5. ASSUME NEW i \in Jobs, NEW k \in Jobs, CallOf[i] = CallOf[k],
                 src'[i] = "Own", src'[k] = "Own"
          PROVE  i = k
      BY <3>1, <3>2, <3>3, <3>5 DEF States, OwnTokens
    <3> QED BY <3>2, <3>4, <3>5 DEF OwnTokens
  <2>3. Holders'
    BY <1>3 DEF LaunchOwn, Spawn, States, Queued, Holders
  <2> QED BY <2>1, <2>2, <2>3
<1>4. ASSUME NEW c \in Calls, NEW j \in Jobs, LaunchPool(c, j) PROVE Control'
  <2>1. States'
    BY <1>4 DEF LaunchPool, Spawn, States, Queued
  <2>2. OwnTokens'
    BY <1>4 DEF LaunchPool, Spawn, States, Queued, OwnTokens, Holders
  <2>3. Holders'
    BY <1>4 DEF LaunchPool, Spawn, States, Queued, Holders
  <2> QED BY <2>1, <2>2, <2>3
<1>5. ASSUME NEW c \in Calls, NEW j \in Jobs, Reap(c, j) PROVE Control'
  <2>1. States'
    BY <1>5 DEF Reap, States, Running
  <2>2. OwnTokens'
    <3>1. CallOf[j] = c /\ c \notin gone /\ None # "Own" /\ gone' = gone
      BY <1>5 DEF Reap, Running, Holders, States
    <3>2. /\ own' = [own EXCEPT ![c] = @ /\ src[j] # "Own"]
          /\ src' = [src EXCEPT ![j] = None]
      BY <1>5 DEF Reap
    <3>3. own'[c] <=> own[c] /\ src[j] # "Own"
      BY <3>2 DEF States
    <3>4. own'[c] <=> \E i \in Jobs : CallOf[i] = c /\ src'[i] = "Own"
      <4>1. CASE src[j] = "Own"
        BY <4>1, <3>1, <3>2, <3>3 DEF States, OwnTokens
      <4>2. CASE src[j] # "Own"
        <5>1. \A i \in Jobs : src'[i] = "Own" <=> src[i] = "Own"
          BY <4>2, <3>1, <3>2 DEF States
        <5> QED BY <5>1, <4>2, <3>1, <3>3 DEF OwnTokens
      <4> QED BY <4>1, <4>2
    <3>5. ASSUME NEW d \in Calls \ gone, d # c
          PROVE  own'[d] <=> \E i \in Jobs : CallOf[i] = d /\ src'[i] = "Own"
      <4>1. own'[d] = own[d]
        BY <3>2, <3>5 DEF States
      <4>2. \A i \in Jobs : CallOf[i] = d => src'[i] = src[i]
        BY <3>1, <3>2, <3>5 DEF States
      <4> QED BY <4>1, <4>2 DEF OwnTokens
    <3>6. ASSUME NEW i \in Jobs, NEW k \in Jobs, CallOf[i] = CallOf[k],
                 src'[i] = "Own", src'[k] = "Own"
          PROVE  i = k
      BY <3>1, <3>2, <3>6 DEF States, OwnTokens
    <3> QED BY <3>1, <3>4, <3>5, <3>6 DEF OwnTokens
  <2>3. Holders'
    BY <1>5 DEF Reap, States, Running, Holders
  <2> QED BY <2>1, <2>2, <2>3
<1>6. ASSUME NEW c \in Calls, Wait(c) \/ Timeout(c) PROVE Control'
  BY <1>6 DEF Wait, Timeout, States, OwnTokens, Holders
<1>7. ASSUME NEW c \in Calls, Return(c) PROVE Control'
  BY <1>7 DEF Return, States, OwnTokens, Holders, Running
<1>8. ASSUME NEW c \in Calls, Abandon(c) \/ Kill(c) PROVE Control'
  <2>1. IsFiniteSet({j \in Running(c) : src[j] = "Pool"})
    BY FS_Subset DEF Running
  <2>2. Cardinality({j \in Running(c) : src[j] = "Pool"}) \in Nat
    BY <2>1, FS_CardinalityType
  <2>3. States'
    BY <1>8, <2>2 DEF Abandon, Kill, Lose, States
  <2>4. OwnTokens' /\ Holders'
    BY <1>8 DEF Abandon, Kill, Lose, States, OwnTokens, Holders
  <2> QED BY <2>3, <2>4
<1>9. CASE UNCHANGED vars
  BY <1>9 DEF vars, States, OwnTokens, Holders
<1> QED BY <1>1, <1>2, <1>3, <1>4, <1>5, <1>6, <1>7, <1>8, <1>9 DEF Next, Scheduler

LEMMA OutcomesStep == Control /\ Outcomes /\ [Next]_vars => Outcomes'
<1> SUFFICES ASSUME Control, Outcomes, [Next]_vars, NEW j \in Jobs
             PROVE  /\ src'[j] = None /\ job'[j] # "queued" /\ CallOf[j] \notin gone' /\ ~err'[CallOf[j]]
                         => job'[j] = "ok"
                    /\ CallOf[j] \notin gone' /\ pc'[CallOf[j]] = "ok" => job'[j] = "ok"
  BY DEF Outcomes
<1> USE TreeAssumption DEF Control, States, Holders, Outcomes, history
<1>1. ASSUME NEW c \in Calls, Start(c) \/ Wait(c) \/ Timeout(c) PROVE Outcomes'
  BY <1>1 DEF Start, Wait, Timeout
<1>2. ASSUME NEW i \in Jobs, Finish(i) PROVE Outcomes'
  BY <1>2 DEF Finish
<1>3. ASSUME NEW c \in Calls, NEW i \in Jobs, LaunchOwn(c, i) \/ LaunchPool(c, i) PROVE Outcomes'
  BY <1>3 DEF LaunchOwn, LaunchPool, Spawn, Queued
<1>4. ASSUME NEW c \in Calls, NEW i \in Jobs, Reap(c, i) PROVE Outcomes'
  BY <1>4 DEF Reap, Running
<1>5. ASSUME NEW c \in Calls, Return(c) PROVE Outcomes'
  BY <1>5 DEF Return, Running, ToLaunch, Queued
<1>6. ASSUME NEW c \in Calls, Abandon(c) \/ Kill(c) PROVE Outcomes'
  BY <1>6 DEF Abandon, Kill, Lose
<1>7. CASE UNCHANGED vars
  BY <1>7 DEF vars
<1> QED BY <1>1, <1>2, <1>3, <1>4, <1>5, <1>6, <1>7 DEF Next, Scheduler

-----------------------------------------------------------------------------
LEMMA Finite ==
  ASSUME NEW S \in SUBSET Jobs
  PROVE  IsFiniteSet(S) /\ Cardinality(S) \in Nat
  BY FS_Subset, FS_CardinalityType, TreeAssumption

\* Tokens move between the pool, the jobs of live calls and the lost.
LEMMA TokensStep == Control /\ TokensConserved /\ [Next]_vars => TokensConserved'
<1> SUFFICES ASSUME Control, TokensConserved, [Next]_vars PROVE TokensConserved'
  OBVIOUS
<1> USE TreeAssumption DEF Control, history
<1>0. /\ PoolHeld \in SUBSET Jobs /\ IsFiniteSet(PoolHeld) /\ Cardinality(PoolHeld) \in Nat
      /\ pool \in Nat /\ lost \in Nat /\ None # "Pool"
      /\ src \in [Jobs -> {None, "Own", "Pool"}]
  BY Finite DEF PoolHeld, States
<1>1. ASSUME UNCHANGED <<src, pool, history>> PROVE TokensConserved'
  BY <1>1 DEF TokensConserved, PoolHeld
<1>2. ASSUME NEW c \in Calls, NEW j \in Jobs, LaunchOwn(c, j) PROVE TokensConserved'
  <2>1. src[j] = None /\ src' = [src EXCEPT ![j] = "Own"] /\ UNCHANGED <<pool, history>>
    BY <1>2 DEF LaunchOwn, Spawn, Queued, Holders, States
  <2>2. PoolHeld' = PoolHeld
    BY <2>1, <1>0 DEF PoolHeld
  <2> QED BY <2>1, <2>2 DEF TokensConserved
<1>3. ASSUME NEW c \in Calls, NEW j \in Jobs, LaunchPool(c, j) PROVE TokensConserved'
  <2>1. /\ src[j] = None /\ CallOf[j] \notin gone /\ src' = [src EXCEPT ![j] = "Pool"]
        /\ pool' = pool - 1 /\ UNCHANGED history
    BY <1>3 DEF LaunchPool, Spawn, Queued, Holders, States
  <2>2. PoolHeld' = PoolHeld \cup {j} /\ j \notin PoolHeld
    BY <2>1, <1>0 DEF PoolHeld
  <2>3. Cardinality(PoolHeld') = Cardinality(PoolHeld) + 1
    BY <2>2, <1>0, FS_AddElement
  <2> QED BY <2>1, <2>3, <1>0 DEF TokensConserved
<1>4. ASSUME NEW c \in Calls, NEW j \in Jobs, Reap(c, j) PROVE TokensConserved'
  <2>1. /\ src' = [src EXCEPT ![j] = None] /\ CallOf[j] \notin gone
        /\ pool' = (IF src[j] = "Pool" THEN pool + 1 ELSE pool) /\ UNCHANGED history
    BY <1>4 DEF Reap, Running, Holders, States
  <2>2. CASE src[j] = "Pool"
    <3>1. PoolHeld' = PoolHeld \ {j} /\ j \in PoolHeld
      BY <2>1, <2>2, <1>0 DEF PoolHeld
    <3>2. Cardinality(PoolHeld') = Cardinality(PoolHeld) - 1
      BY <3>1, <1>0, FS_RemoveElement
    <3> QED BY <2>1, <2>2, <3>2, <1>0 DEF TokensConserved
  <2>3. CASE src[j] # "Pool"
    <3>1. PoolHeld' = PoolHeld
      BY <2>1, <2>3, <1>0 DEF PoolHeld
    <3> QED BY <2>1, <2>3, <3>1 DEF TokensConserved
  <2> QED BY <2>2, <2>3
<1>5. ASSUME NEW c \in Calls, Abandon(c) \/ Kill(c) PROVE TokensConserved'
  <2> DEFINE H == {j \in Running(c) : src[j] = "Pool"}
  <2>1. /\ c \notin gone /\ src' = src /\ gone' = gone \cup {c}
        /\ \E taken \in {0, 1} : pool' = pool - taken /\ lost' = lost + taken + Cardinality(H)
    BY <1>5, <1>0 DEF Abandon, Kill, Lose, Holders
  <2>2. PoolHeld = PoolHeld' \cup H /\ PoolHeld' \cap H = {}
    BY <2>1, <1>0 DEF PoolHeld, Running
  <2>3. /\ IsFiniteSet(PoolHeld') /\ IsFiniteSet(H)
        /\ Cardinality(PoolHeld') \in Nat /\ Cardinality(H) \in Nat
    BY <2>2, <1>0, FS_Subset, FS_CardinalityType
  <2> HIDE DEF H
  <2>4. Cardinality(PoolHeld) = Cardinality(PoolHeld') + Cardinality(H)
    <3>1. Cardinality(PoolHeld' \cap H) = 0
      BY <2>2, FS_EmptySet
    <3>2. Cardinality(PoolHeld' \cup H)
            = Cardinality(PoolHeld') + Cardinality(H) - Cardinality(PoolHeld' \cap H)
      BY <2>3, FS_Union
    <3> QED BY <2>2, <2>3, <3>1, <3>2
  <2> QED BY <2>1, <2>3, <2>4, <1>0 DEF TokensConserved
<1> QED
  BY <1>1, <1>2, <1>3, <1>4, <1>5 DEF Next, Scheduler, Start, Wait, Timeout, Return, Finish, vars

-----------------------------------------------------------------------------
\* THEOREMS

\* The inductive invariant holds of every behaviour.
THEOREM Invariance == Spec => []IInv
<1>1. IInv /\ [Next]_vars => IInv'
  BY ControlStep, OutcomesStep, TokensStep DEF IInv
<1> QED BY <1>1, InitHolds, PTL DEF Spec

\* TypeOK holds of every run: states, and who has a call's own token.
THEOREM TypeCorrect == Spec => []TypeOK
<1>1. IInv => TypeOK
  BY DEF IInv, Control, States, OwnTokens, TypeOK
<1> QED BY <1>1, Invariance, PTL

\* No token is lost but with a call that is killed or fails to start a job, and none
\* is ever made.
THEOREM PoolConserved == Spec => []TokensConserved
<1>1. IInv => TokensConserved
  BY DEF IInv
<1> QED BY <1>1, Invariance, PTL

\* A call that returns has no job left, and its success is that of all of them.
THEOREM ReturnsComplete == Spec => []ReturnsLast
<1>1. IInv => ReturnsLast
  BY TreeAssumption DEF IInv, Control, Holders, Outcomes, Running, ReturnsLast
<1> QED BY <1>1, Invariance, PTL

-----------------------------------------------------------------------------
\* The limit, for do-files that make their calls one at a time.
LEMMA BoundTypes ==
  Control => /\ Holding \in SUBSET Jobs /\ IsFiniteSet(Holding) /\ Cardinality(Holding) \in Nat
             /\ Free \in SUBSET Calls /\ IsFiniteSet(Free) /\ Cardinality(Free) \in Nat
  BY FS_Subset, FS_CardinalityType, TreeAssumption DEF Holding, Free

\* What a step adds to one of the two sets it takes from the other, or from
\* the pool.
LEMMA AtMostOneMore ==
  ASSUME NEW S, NEW T, NEW x, IsFiniteSet(S), T \subseteq S \cup {x}
  PROVE  IsFiniteSet(T) /\ Cardinality(T) \in Nat /\ Cardinality(S) \in Nat
         /\ Cardinality(T) <= Cardinality(S) + 1
<1>0. Cardinality(S) \in Nat
  BY FS_CardinalityType
<1>1. IsFiniteSet(S \cup {x}) /\ Cardinality(S \cup {x}) <= Cardinality(S) + 1
  BY <1>0, FS_AddElement
<1> QED BY <1>1, FS_Subset, FS_CardinalityType

LEMMA OneLess ==
  ASSUME NEW S, NEW T, NEW x, IsFiniteSet(S), x \in S, T \subseteq S \ {x}
  PROVE  IsFiniteSet(T) /\ Cardinality(T) \in Nat /\ Cardinality(S) \in Nat
         /\ Cardinality(T) + 1 <= Cardinality(S)
<1>1. IsFiniteSet(S \ {x}) /\ Cardinality(S \ {x}) = Cardinality(S) - 1
  BY FS_RemoveElement
<1> QED BY <1>1, FS_Subset, FS_CardinalityType

LEMMA NoMore ==
  ASSUME NEW S, NEW T, IsFiniteSet(S), T \subseteq S
  PROVE  IsFiniteSet(T) /\ Cardinality(T) \in Nat /\ Cardinality(S) \in Nat
         /\ Cardinality(T) <= Cardinality(S)
  BY FS_Subset, FS_CardinalityType

LEMMA BoundInit == Init => TokensBound
<1> SUFFICES ASSUME Init PROVE TokensBound
  OBVIOUS
<1>1. Holding = {}
  BY TreeAssumption DEF Init, Holding
<1>2. Free = {Root}
  BY TreeAssumption DEF Init, Free
<1>3. Cardinality({Root}) = 1
  <2>1. {Root} = {} \cup {Root}
    OBVIOUS
  <2> QED BY <2>1, FS_EmptySet, FS_AddElement
<1> QED BY <1>1, <1>2, <1>3, FS_EmptySet, TreeAssumption DEF Init, TokensBound

LEMMA BoundStep ==
  ASSUME Background = {}, Control, TokensBound, [Next]_vars, gone' = {}
  PROVE  pool' + Cardinality(Holding') + Cardinality(Free') <= J
<1> USE TreeAssumption DEF Control, history
<1>0. /\ IsFiniteSet(Holding) /\ IsFiniteSet(Free) /\ Cardinality(Holding) \in Nat
      /\ Cardinality(Free) \in Nat /\ pool \in Nat /\ J \in Nat
  BY BoundTypes DEF States
<1>1. gone = {} /\ pool + Cardinality(Holding) + Cardinality(Free) <= J
  <2>1. UNCHANGED gone \/ \E c \in Calls : gone' = gone \cup {c}
    BY DEF Next, Start, Finish, Scheduler, LaunchOwn, LaunchPool, Spawn, Reap, Wait, Timeout,
           Return, Abandon, Kill, Lose, vars
  <2> QED BY <2>1 DEF TokensBound
<1>2. ASSUME NEW c \in Calls, Start(c)
      PROVE  pool' + Cardinality(Holding') + Cardinality(Free') <= J
  <2>1. /\ pc' = [pc EXCEPT ![c] = "launch"] /\ UNCHANGED <<own, src, pool>>
        /\ c # Root /\ JobOf[c] \in Jobs /\ src[JobOf[c]] # None /\ OpenCalls(JobOf[c]) = {}
    BY <1>2 DEF Start, Holders
  <2>2. JobOf[c] \in Holding /\ Holding' \subseteq Holding \ {JobOf[c]}
    BY <2>1 DEF Holding, OpenCalls, States
  <2>3. Free' \subseteq Free \cup {c}
    BY <2>1 DEF Free, States
  <2>4. Cardinality(Holding') + 1 <= Cardinality(Holding) /\ Cardinality(Holding') \in Nat
    BY <2>2, <1>0, OneLess
  <2>5. Cardinality(Free') <= Cardinality(Free) + 1 /\ Cardinality(Free') \in Nat
    BY <2>3, <1>0, AtMostOneMore
  <2> QED BY <2>1, <2>4, <2>5, <1>0, <1>1
<1>3. ASSUME NEW j \in Jobs, Finish(j)
      PROVE  pool' + Cardinality(Holding') + Cardinality(Free') <= J
  <2>1. UNCHANGED <<pc, own, src, pool>>
    BY <1>3 DEF Finish
  <2>2. Holding' = Holding /\ Free' = Free
    BY <2>1 DEF Holding, Free, OpenCalls
  <2> QED BY <2>1, <2>2, <1>1
<1>4. ASSUME NEW c \in Calls, NEW j \in Jobs, LaunchOwn(c, j)
      PROVE  pool' + Cardinality(Holding') + Cardinality(Free') <= J
  <2>1. /\ own' = [own EXCEPT ![c] = TRUE] /\ src' = [src EXCEPT ![j] = "Own"]
        /\ UNCHANGED <<pc, pool>> /\ c \in Free
    BY <1>4 DEF LaunchOwn, Spawn, Free
  <2>2. Holding' \subseteq Holding \cup {j}
    BY <2>1 DEF Holding, OpenCalls, States
  <2>3. Free' \subseteq Free \ {c}
    BY <2>1 DEF Free, States
  <2>4. Cardinality(Holding') <= Cardinality(Holding) + 1 /\ Cardinality(Holding') \in Nat
    BY <2>2, <1>0, AtMostOneMore
  <2>5. Cardinality(Free') + 1 <= Cardinality(Free) /\ Cardinality(Free') \in Nat
    BY <2>1, <2>3, <1>0, OneLess
  <2> QED BY <2>1, <2>4, <2>5, <1>0, <1>1
<1>5. ASSUME NEW c \in Calls, NEW j \in Jobs, LaunchPool(c, j)
      PROVE  pool' + Cardinality(Holding') + Cardinality(Free') <= J
  <2>1. /\ src' = [src EXCEPT ![j] = "Pool"] /\ pool' = pool - 1 /\ UNCHANGED <<pc, own>>
    BY <1>5 DEF LaunchPool, Spawn
  <2>2. Holding' \subseteq Holding \cup {j} /\ Free' = Free
    BY <2>1 DEF Holding, Free, OpenCalls, States
  <2>3. Cardinality(Holding') <= Cardinality(Holding) + 1 /\ Cardinality(Holding') \in Nat
    BY <2>2, <1>0, AtMostOneMore
  <2> QED BY <2>1, <2>2, <2>3, <1>0, <1>1
<1>6. ASSUME NEW c \in Calls, NEW j \in Jobs, Reap(c, j)
      PROVE  pool' + Cardinality(Holding') + Cardinality(Free') <= J
  <2>1. /\ src[j] # None /\ OpenCalls(j) = {} /\ pc[c] = "wait" /\ pc' = [pc EXCEPT ![c] = "launch"]
        /\ src' = [src EXCEPT ![j] = None]
        /\ own' = [own EXCEPT ![c] = @ /\ src[j] # "Own"]
        /\ pool' = (IF src[j] = "Pool" THEN pool + 1 ELSE pool)
    BY <1>6 DEF Reap, Running, OpenCalls, Holders
  <2>2. OpenCalls(j)' = {} /\ \A i \in Jobs : OpenCalls(i)' = OpenCalls(i)
    BY <2>1 DEF OpenCalls, States
  <2>3. j \in Holding /\ Holding' \subseteq Holding \ {j}
    BY <2>1, <2>2 DEF Holding, States
  <2>4. Cardinality(Holding') + 1 <= Cardinality(Holding) /\ Cardinality(Holding') \in Nat
    BY <2>3, <1>0, OneLess
  <2>5. CASE src[j] = "Pool"
    <3>1. Free' \subseteq Free
      BY <2>1, <2>5 DEF Free, States
    <3>2. Cardinality(Free') <= Cardinality(Free) /\ Cardinality(Free') \in Nat
      BY <3>1, <1>0, NoMore
    <3> QED BY <2>1, <2>4, <2>5, <3>2, <1>0, <1>1
  <2>6. CASE src[j] # "Pool"
    <3>1. Free' \subseteq Free \cup {c}
      BY <2>1 DEF Free, States
    <3>2. Cardinality(Free') <= Cardinality(Free) + 1 /\ Cardinality(Free') \in Nat
      BY <3>1, <1>0, AtMostOneMore
    <3> QED BY <2>1, <2>4, <2>6, <3>2, <1>0, <1>1
  <2> QED BY <2>5, <2>6
<1>7. ASSUME NEW c \in Calls, Wait(c) \/ Timeout(c)
      PROVE  pool' + Cardinality(Holding') + Cardinality(Free') <= J
  <2>1. /\ pc[c] \in Open /\ UNCHANGED <<own, src, pool>>
        /\ pc' = [pc EXCEPT ![c] = "wait"] \/ pc' = [pc EXCEPT ![c] = "launch"]
    BY <1>7 DEF Wait, Timeout
  <2>2. Holding' = Holding /\ Free' = Free
    BY <2>1 DEF Holding, Free, OpenCalls, States
  <2> QED BY <2>1, <2>2, <1>1
<1>8. ASSUME NEW c \in Calls, Return(c)
      PROVE  pool' + Cardinality(Holding') + Cardinality(Free') <= J
  <2>1. /\ pc[c] = "launch" /\ pc' = [pc EXCEPT ![c] = IF err[c] THEN "failed" ELSE "ok"]
        /\ UNCHANGED <<own, src, pool>>
    BY <1>8 DEF Return
  <2>2. c \in Free
    <3>1. \A i \in Jobs : CallOf[i] = c => src[i] = None
      BY <1>8 DEF Return, Running
    <3> QED BY <3>1, <2>1, <1>1 DEF OwnTokens, Free, States
  <2>3. Free' \subseteq Free \ {c}
    BY <2>1 DEF Free, States
  <2>4. Cardinality(Free') + 1 <= Cardinality(Free) /\ Cardinality(Free') \in Nat
    BY <2>2, <2>3, <1>0, OneLess
  <2>5. Holding' \subseteq Holding \cup {JobOf[c]}
    BY <2>1 DEF Holding, OpenCalls, States
  <2>6. Cardinality(Holding') <= Cardinality(Holding) + 1 /\ Cardinality(Holding') \in Nat
    BY <2>5, <1>0, AtMostOneMore
  <2> QED BY <2>1, <2>4, <2>6, <1>0, <1>1
<1>9. ASSUME NEW c \in Calls, Abandon(c) \/ Kill(c) PROVE FALSE
  BY <1>9 DEF Abandon, Kill, Lose
<1>10. CASE UNCHANGED vars
  BY <1>1, <1>10 DEF vars, Holding, Free, OpenCalls
<1> QED
  BY <1>2, <1>3, <1>4, <1>5, <1>6, <1>7, <1>8, <1>9, <1>10 DEF Next, Scheduler

\* While no call is lost and no do-file makes calls
\* side by side, J do-files at most execute at any moment.
THEOREM LimitHolds == ASSUME Background = {} PROVE Spec => []JobLimit
<1>1. IInv /\ TokensBound /\ [Next]_vars => TokensBound'
  BY BoundStep DEF IInv, TokensBound
<1>2. IInv /\ TokensBound => JobLimit
  <2> SUFFICES ASSUME Control, TokensBound, gone = {} PROVE Cardinality(Executing) <= J
    BY DEF IInv, JobLimit
  <2>1. Executing \subseteq Holding
    BY DEF Control, Holders, Executing, Holding
  <2>2. /\ IsFiniteSet(Holding) /\ Cardinality(Holding) \in Nat /\ Cardinality(Free) \in Nat
        /\ pool \in Nat /\ J \in Nat
    BY BoundTypes, TreeAssumption DEF Control, States
  <2>3. Cardinality(Executing) <= Cardinality(Holding) /\ Cardinality(Executing) \in Nat
    BY <2>1, <2>2, NoMore
  <2> QED BY <2>2, <2>3 DEF TokensBound
<1> QED BY <1>1, <1>2, BoundInit, Invariance, PTL DEF Spec
=============================================================================
