---------------------------- MODULE EvidenceProofs ----------------------------
(***************************************************************************)
(* Proofs about Evidence, for any set of candidates, contents, clock rules *)
(* and checkers.                                                           *)
(***************************************************************************)
EXTENDS Evidence, TLAPS

\* A build between its marker transaction and its commit.
Marking == {"launch", "create", "sample", "stat", "hash", "row", "edge", "read", "commit"}
Declared == Marking \ {"launch", "create"}

Types ==
  /\ now \in 0..MaxNow /\ src \in Files
  /\ path \in [Candidates -> Contents \cup {Dir, None}]
  /\ other \in BOOLEAN /\ edits \in 0..MaxEdits
  /\ row \in Stamps \cup {None}
  /\ edges \in Edges \cup {None} /\ out \in Inputs \cup {None}
  /\ pc \in {"idle", "find", "stamp"} \cup Marking
  /\ probed \subseteq Candidates /\ chosen \in Candidates \cup {None}
  /\ hashed \in Stamps /\ used \in [text : Contents, other : BOOLEAN, src : Contents]
  /\ check \in [Checkers -> {"idle", "sample", "hash", "update"}]
  /\ seen \in [Checkers -> Stamps]

Above(c) == {d \in Candidates : Before(d, c)}

\* The search has gone through the candidates in order.
Searched ==
  /\ \A c \in probed : Above(c) \subseteq probed
  /\ pc \in {"idle", "find"} => chosen = None
  /\ pc = "stamp" => chosen \in Candidates /\ probed = Above(chosen)

\* What is on record, while a build runs and when one has committed.
Recorded ==
  /\ edges # None => edges.absent = Above(edges.rule)
  /\ pc \in Marking =>
       /\ edges \in Edges /\ chosen = edges.rule /\ ~edges.committed
       /\ edges.absent = Above(edges.rule)
  /\ pc \in Declared => edges.create
  /\ edges # None /\ edges.committed =>
       out \in Inputs /\ out.rule = edges.rule /\ edges.create

\* A stamp that can be trusted for the source as it is: no write gives the
\* file an mtime that a hash taken before may match by the rules.
Sound(x) == x.m = src.m /\ Trustworthy(x.m) /\ ~Racy(x) => x.c = src.c

Stamped ==
  /\ hashed.h <= now /\ (pc = "row" => Sound(hashed))
  /\ row # None => row.h <= now /\ Sound(row)
  /\ \A k \in Checkers : seen[k].h <= now /\ (check[k] = "update" => Sound(seen[k]))

IInv == Types /\ Searched /\ Recorded /\ Stamped

LEMMA BlankTypes ==
  /\ Blank \in Stamps /\ Blank.h = 0
  /\ Unused \in [text : Contents, other : BOOLEAN, src : Contents]
<1>1. Blank.c \in Contents
  BY EvidenceAssumption DEF Blank
<1> QED BY <1>1 DEF Blank, Unused, Stamps

LEMMA InitHolds == Init => IInv
<1> SUFFICES ASSUME Init PROVE IInv
  OBVIOUS
<1>1. Types
  <2>1. src \in Files
    BY DEF Init, Files
  <2>2. now \in 0..MaxNow /\ edits \in 0..MaxEdits
    BY EvidenceAssumption DEF Init
  <2> QED BY <2>1, <2>2, BlankTypes, InitialAssumption DEF Init, Types
<1>2. Searched /\ Recorded
  BY DEF Init, Searched, Recorded, Marking, Declared
<1>3. Stamped
  BY BlankTypes DEF Init, Stamped
<1> QED BY <1>1, <1>2, <1>3 DEF IInv

-----------------------------------------------------------------------------
\* TYPES

LEMMA TypesStep == IInv /\ [Next]_vars => Types'
<1> SUFFICES ASSUME IInv, [Next]_vars PROVE Types'
  OBVIOUS
<1> USE EvidenceAssumption, BlankTypes DEF IInv, Types, Marking
<1>1. CASE Tick
  BY <1>1 DEF Tick, user, building, checking
<1>2. CASE EditSource
  <2>1. src' \in Files
    BY <1>2 DEF EditSource, Mtimes, Files
  <2> QED BY <1>2, <2>1 DEF EditSource, Edit, building, checking
<1>3. CASE EditRule
  BY <1>3 DEF EditRule, Edit, building, checking
<1>4. CASE EditOther
  BY <1>4 DEF EditOther, Edit, building, checking
<1>5. CASE Begin \/ Probe \/ NoRule
  BY <1>5 DEF Begin, Probe, NoRule, Return, Goto, Next1, user, checking
<1>6. CASE Stamp
  <2>1. Marked(probed) \in Edges
    BY <1>6 DEF Stamp, Searched, Marked, Edges
  <2> QED BY <1>6, <2>1 DEF Stamp, Goto, user, checking
<1>7. CASE Launch
  BY <1>7 DEF Launch, Return, Goto, user, checking
<1>8. CASE IfCreate
  <2>1. edges \in Edges
    BY <1>8 DEF IfCreate, Recorded
  <2>2. [edges EXCEPT !.create = TRUE] \in Edges
    BY <2>1 DEF Edges
  <2> QED BY <1>8, <2>1, <2>2 DEF IfCreate, Return, Goto, user, checking
<1>9. CASE Sample \/ Stat \/ HashFile
  BY <1>9 DEF Sample, Stat, HashFile, Goto, user, checking, Stamps, Files
<1>10. CASE UpsertRow
  BY <1>10 DEF UpsertRow, Goto, user, checking
<1>11. CASE RecordEdge
  BY <1>11 DEF RecordEdge, Goto, user, checking, Recorded, Edges, Files
<1>12. CASE Read
  BY <1>12 DEF Read, Goto, user, checking, Files
<1>13. CASE Commit
  <2>1. edges' \in Edges /\ out' \in Inputs
    BY <1>13 DEF Commit, Recorded, Edges, Inputs
  <2> QED BY <1>13, <2>1 DEF Commit, Return, Goto, user, checking
<1>14. ASSUME NEW k \in Checkers, Check(k) PROVE Types'
  BY <1>14 DEF Check, CheckStat, CheckSample, CheckHash, CheckUpdate, user, building, Stamps, Files
<1>15. CASE UNCHANGED vars
  BY <1>15 DEF vars
<1> QED
  BY <1>1, <1>2, <1>3, <1>4, <1>5, <1>6, <1>7, <1>8, <1>9, <1>10, <1>11, <1>12, <1>13, <1>14, <1>15
  DEF Next, Search, DoFile

-----------------------------------------------------------------------------
\* THE SEARCH

LEMMA BeforeTotal ==
  ASSUME NEW c \in Candidates, NEW d \in Candidates, c # d
  PROVE  Before(c, d) \/ Before(d, c)
<1>1. PICK i \in 0..Depth, j \in 0..Parts : c = <<i, j>>
  BY DEF Candidates
<1>2. PICK k \in 0..Depth, l \in 0..Parts : d = <<k, l>>
  BY DEF Candidates
<1> QED BY <1>1, <1>2, EvidenceAssumption DEF Before

\* The candidate that is found comes after all those that were not, and
\* before all others.
LEMMA FoundNext ==
  ASSUME IInv, NEW c \in Candidates, Next1(c)
  PROVE  probed = Above(c)
<1>1. Above(c) \subseteq probed
  BY DEF Next1, Above
<1>2. ASSUME NEW d \in probed PROVE Before(d, c)
  <2>1. d \in Candidates /\ d # c /\ c \notin Above(d)
    BY <1>2 DEF Next1, IInv, Types, Searched
  <2> QED BY <2>1, BeforeTotal DEF Above
<1> QED BY <1>1, <1>2 DEF IInv, Types, Above

LEMMA SearchedStep == IInv /\ [Next]_vars => Searched'
<1> SUFFICES ASSUME IInv, [Next]_vars PROVE Searched'
  OBVIOUS
<1> USE DEF Searched, Marking
<1>1. Searched /\ Types
  BY DEF IInv
<1>2. CASE Probe
  <2>1. PICK c \in Candidates :
          /\ Next1(c)
          /\ \/ chosen' = c /\ pc' = "stamp" /\ probed' = probed
             \/ probed' = probed \cup {c} /\ UNCHANGED <<pc, chosen>>
    BY <1>2 DEF Probe, Goto
  <2>2. probed = Above(c)
    BY <2>1, FoundNext
  <2>3. pc = "find"
    BY <1>2 DEF Probe
  <2> QED BY <1>1, <2>1, <2>2, <2>3
<1>3. CASE Begin \/ NoRule \/ Stamp \/ DoFile
  BY <1>1, <1>3 DEF Begin, NoRule, Stamp, DoFile, Launch, IfCreate, Sample, Stat, HashFile, UpsertRow,
     RecordEdge, Read, Commit, Return, Goto
<1>4. CASE UNCHANGED building
  BY <1>1, <1>4 DEF building
<1>5. ASSUME NEW k \in Checkers, Check(k) PROVE UNCHANGED building
  BY <1>5 DEF Check, CheckStat, CheckSample, CheckHash, CheckUpdate
<1>6. CASE Tick \/ EditSource \/ EditRule \/ EditOther \/ UNCHANGED vars
  BY <1>4, <1>6 DEF Tick, EditSource, EditRule, EditOther, Edit, vars, building
<1> QED BY <1>2, <1>3, <1>4, <1>5, <1>6 DEF Next, Search

-----------------------------------------------------------------------------
\* THE RECORD

LEMMA RecordedStep == IInv /\ [Next]_vars => Recorded'
<1> SUFFICES ASSUME IInv, [Next]_vars PROVE Recorded'
  OBVIOUS
<1>0. Recorded /\ Types /\ Searched
  BY DEF IInv
<1> USE DEF Recorded, Marking, Declared
<1>1. CASE Begin \/ Probe \/ NoRule
  BY <1>0, <1>1 DEF Begin, Probe, NoRule, Return, Goto
<1>2. CASE Stamp
  <2>1. Marked(probed) \in Edges
    BY <1>0, <1>2 DEF Stamp, Types, Searched, Marked, Edges
  <2> QED BY <1>0, <1>2, <2>1 DEF Stamp, Goto, Searched, Marked
<1>3. CASE Launch
  <2>1. UNCHANGED <<edges, out>> /\ pc = "launch"
        /\ (pc' = "idle" \/ (pc' = "create" /\ chosen' = chosen))
    BY <1>3 DEF Launch, Return, Goto
  <2> QED BY <1>0, <2>1
<1>4. CASE IfCreate
  <2>1. /\ pc = "create" /\ out' = out
        /\ \/ pc' = "idle" /\ edges' = edges
           \/ pc' = "sample" /\ chosen' = chosen /\ edges' = [edges EXCEPT !.create = TRUE]
    BY <1>4 DEF IfCreate, Return, Goto
  <2>2. /\ edges \in Edges /\ chosen = edges.rule /\ ~edges.committed
        /\ edges.absent = Above(edges.rule)
    BY <1>0, <2>1
  <2>3. CASE pc' = "idle" /\ edges' = edges
    BY <1>0, <2>1, <2>3
  <2>4. CASE pc' = "sample" /\ chosen' = chosen /\ edges' = [edges EXCEPT !.create = TRUE]
    <3>1. /\ edges' \in Edges /\ edges'.create /\ edges'.rule = edges.rule
          /\ edges'.absent = edges.absent /\ ~edges'.committed
      BY <2>2, <2>4 DEF Edges
    <3> QED BY <1>0, <2>1, <2>2, <2>4, <3>1
  <2> QED BY <2>1, <2>3, <2>4
<1>5. CASE Sample \/ Stat \/ HashFile \/ UpsertRow \/ Read
  <2>1. UNCHANGED <<edges, out, chosen>> /\ pc \in Declared /\ pc' \in Declared
    BY <1>5 DEF Sample, Stat, HashFile, UpsertRow, Read, Goto
  <2> QED BY <1>0, <2>1
<1>6. CASE RecordEdge
  <2>1. /\ pc = "edge" /\ pc' = "read" /\ UNCHANGED <<out, chosen>>
        /\ edges' = [edges EXCEPT !.src = src.c]
    BY <1>6 DEF RecordEdge, Goto
  <2>2. /\ edges \in Edges /\ chosen = edges.rule /\ ~edges.committed /\ edges.create
        /\ edges.absent = Above(edges.rule) /\ src.c \in Contents
    BY <1>0, <2>1 DEF Types, Files
  <2>3. /\ edges' \in Edges /\ edges'.create /\ edges'.rule = edges.rule
        /\ edges'.absent = edges.absent /\ ~edges'.committed
    BY <2>1, <2>2 DEF Edges
  <2> QED BY <2>1, <2>2, <2>3
<1>7. CASE Commit
  <2>1. /\ edges \in Edges /\ chosen = edges.rule /\ edges.create
        /\ edges.absent = Above(edges.rule)
    BY <1>0, <1>7 DEF Commit
  <2>2. out' \in Inputs /\ out'.rule = edges.rule
    BY <1>0, <1>7, <2>1 DEF Commit, Types, Edges, Inputs
  <2>3. /\ edges' = [edges EXCEPT !.committed = TRUE] /\ pc' = "idle"
    BY <1>7 DEF Commit, Return, Goto
  <2>4. edges'.rule = edges.rule /\ edges'.absent = edges.absent /\ edges'.create
    BY <2>1, <2>3 DEF Edges
  <2> QED BY <2>1, <2>2, <2>3, <2>4
<1>8. CASE UNCHANGED <<pc, edges, out, chosen>>
  BY <1>0, <1>8
<1>9. ASSUME NEW k \in Checkers, Check(k) PROVE UNCHANGED <<pc, edges, out, chosen>>
  BY <1>9 DEF Check, CheckStat, CheckSample, CheckHash, CheckUpdate, building
<1>10. CASE Tick \/ EditSource \/ EditRule \/ EditOther \/ UNCHANGED vars
  BY <1>8, <1>10 DEF Tick, EditSource, EditRule, EditOther, Edit, vars, building
<1> QED BY <1>1, <1>2, <1>3, <1>4, <1>5, <1>6, <1>7, <1>8, <1>9, <1>10 DEF Next, Search, DoFile

-----------------------------------------------------------------------------
\* STAMPS

\* A write leaves every stamp sound that was taken before it.
LEMMA WriteSound ==
  ASSUME Types, Types', NEW x \in Stamps, x.h <= now, Sound(x), src' = src \/ EditSource
  PROVE  Sound(x)'
<1>1. CASE src' = src
  BY <1>1 DEF Sound, Trustworthy, Racy
<1>2. CASE EditSource
  <2>1. src'.m \in Int /\ (src'.m >= now - Behind \/ ~Trustworthy(src'.m))
    BY <1>2 DEF EditSource, Mtimes, Trustworthy, Types, Files
  <2>2. x.m \in Int /\ x.h \in Int /\ now \in Int
    BY EvidenceAssumption DEF Stamps, Types
  <2>3. ASSUME x.m = src'.m, src'.m >= now - Behind PROVE Racy(x)
    BY <2>1, <2>2, <2>3, EvidenceAssumption DEF Racy
  <2> QED BY <2>1, <2>3 DEF Sound, Trustworthy, Racy
<1> QED BY <1>1, <1>2

LEMMA StampedStep == IInv /\ [Next]_vars => Stamped'
<1> SUFFICES ASSUME IInv, [Next]_vars PROVE Stamped'
  OBVIOUS
<1>0. Stamped /\ Types /\ Types'
  BY TypesStep DEF IInv
<1>1. now \in Int /\ now' \in Int /\ now <= now'
  BY <1>0, EvidenceAssumption DEF Types, Next, Tick, EditSource, EditRule, EditOther, Edit, Search,
     Begin, Probe, NoRule, Stamp, DoFile, Launch, IfCreate, Sample, Stat, HashFile, UpsertRow,
     RecordEdge, Read, Commit, Check, CheckStat, CheckSample, CheckHash, CheckUpdate, vars
<1>2. src' = src \/ EditSource
  BY DEF Next, Tick, EditRule, EditOther, Edit, Search,
     Begin, Probe, NoRule, Stamp, DoFile, Launch, IfCreate, Sample, Stat, HashFile, UpsertRow,
     RecordEdge, Read, Commit, Check, CheckStat, CheckSample, CheckHash, CheckUpdate, vars, user
<1>3. ASSUME NEW x \in Stamps, x.h <= now
      PROVE  x.h <= now' /\ (Sound(x) => Sound(x)')
  <2>1. x.h <= now'
    BY <1>1, <1>3 DEF Stamps
  <2>2. ASSUME Sound(x) PROVE Sound(x)'
    BY <1>0, <1>2, <1>3, <2>2, WriteSound
  <2> QED BY <2>1, <2>2
<1>4. ASSUME UNCHANGED <<row, hashed, pc, seen, check>> PROVE Stamped'
  BY <1>0, <1>3, <1>4 DEF Stamped, Types
<1>5. CASE Tick \/ EditSource \/ EditRule \/ EditOther \/ UNCHANGED vars
  BY <1>4, <1>5 DEF Tick, EditSource, EditRule, EditOther, Edit, vars, building, checking
<1>6. ASSUME UNCHANGED <<now, src, row, seen, check>>, pc' # "row", hashed'.h <= now PROVE Stamped'
  BY <1>0, <1>3, <1>6 DEF Stamped, Types
<1>7. CASE Search \/ Launch \/ IfCreate \/ RecordEdge \/ Read \/ Commit
  <2>1. /\ UNCHANGED <<now, src, row, seen, check>> /\ pc' # "row"
        /\ hashed' = hashed \/ hashed' = Blank
    BY <1>7 DEF Search, Begin, Probe, NoRule, Stamp, Launch, IfCreate, RecordEdge, Read, Commit,
       Return, Goto, user, checking
  <2>2. 0 <= now
    BY <1>0, EvidenceAssumption DEF Types
  <2> QED BY <1>0, <1>6, <2>1, <2>2, BlankTypes DEF Stamped
<1>8. CASE Sample \/ Stat
  <2>1. /\ UNCHANGED <<now, src, row, seen, check>> /\ pc' # "row"
        /\ hashed'.h = now \/ hashed'.h = hashed.h
    BY <1>0, <1>8 DEF Sample, Stat, Goto, user, checking, Types, Stamps
  <2> QED BY <1>0, <1>1, <1>6, <2>1 DEF Stamped
<1>9. CASE HashFile
  <2>1. /\ UNCHANGED <<now, src, row, seen, check>>
        /\ hashed' = [hashed EXCEPT !.c = src.c]
    BY <1>9 DEF HashFile, user, checking
  <2>2. hashed'.c = src.c /\ hashed'.h = hashed.h
    BY <1>0, <2>1 DEF Types, Stamps
  <2>3. Sound(hashed)'
    BY <2>1, <2>2 DEF Sound
  <2> QED BY <1>0, <1>3, <2>1, <2>2, <2>3 DEF Stamped, Types
<1>10. CASE UpsertRow
  <2>1. UNCHANGED <<now, src, hashed, seen, check>> /\ row' = hashed /\ pc = "row" /\ pc' = "edge"
    BY <1>10 DEF UpsertRow, Goto, user, checking
  <2> QED BY <1>0, <1>3, <2>1 DEF Stamped, Types
<1>11. ASSUME NEW k \in Checkers, Check(k) PROVE Stamped'
  <2>1. UNCHANGED <<now, src, hashed, pc>>
    BY <1>11 DEF Check, CheckStat, CheckSample, CheckHash, CheckUpdate, user, building
  <2>2. ASSUME NEW i \in Checkers
        PROVE  seen'[i].h <= now' /\ (check'[i] = "update" => Sound(seen[i])')
    <3>1. CASE i # k
      <4>1. seen'[i] = seen[i] /\ check'[i] = check[i]
        BY <1>0, <1>11, <3>1 DEF Check, CheckStat, CheckSample, CheckHash, CheckUpdate, Types
      <4> QED BY <1>0, <1>3, <2>1, <4>1 DEF Stamped, Types, Sound
    <3>2. CASE i = k /\ (CheckStat(k) \/ CheckSample(k) \/ CheckUpdate(k))
      <4>1. /\ check'[k] # "update"
            /\ seen'[k].h = seen[k].h \/ seen'[k].h = now \/ seen'[k].h = 0
        BY <1>0, <3>2, BlankTypes DEF CheckStat, CheckSample, CheckUpdate, Types, Stamps
      <4>2. 0 <= now
        BY <1>0, EvidenceAssumption DEF Types
      <4> QED BY <1>0, <1>1, <2>1, <3>2, <4>1, <4>2 DEF Stamped
    <3>3. CASE i = k /\ CheckHash(k)
      <4>1. seen'[k] = [seen[k] EXCEPT !.c = src.c]
        BY <1>0, <3>3 DEF CheckHash, Types
      <4>2. seen'[k].c = src.c /\ seen'[k].h = seen[k].h
        BY <1>0, <4>1 DEF Types, Stamps
      <4> QED BY <1>0, <2>1, <3>3, <4>2 DEF Stamped, Sound
    <3> QED BY <1>11, <3>1, <3>2, <3>3 DEF Check
  <2>3. row' # None => row'.h <= now' /\ Sound(row)'
    <3>1. row' = row \/ row' = None \/ (check[k] = "update" /\ row' = seen[k])
      BY <1>11 DEF Check, CheckStat, CheckSample, CheckHash, CheckUpdate
    <3> QED BY <1>0, <1>3, <2>1, <3>1 DEF Stamped, Types, Sound
  <2> QED BY <1>0, <1>3, <2>1, <2>2, <2>3 DEF Stamped, Types, Sound
<1> QED BY <1>5, <1>7, <1>8, <1>9, <1>10, <1>11 DEF Next, DoFile

-----------------------------------------------------------------------------
\* The inductive invariant.
THEOREM Invariance == Spec => []IInv
<1>1. IInv /\ [Next]_vars => IInv'
  BY TypesStep, SearchedStep, RecordedStep, StampedStep DEF IInv
<1> QED BY <1>1, InitHolds, PTL DEF Spec

\* Type correctness; the recorded absences are the candidates searched before
\* the recorded do-file, in a search tree of any size.
THEOREM TypeCorrect == Spec => []TypeOK
<1>1. IInv => TypeOK
  BY DEF IInv, Types, Marking, Recorded, Above, TypeOK
<1> QED BY <1>1, Invariance, PTL

\* A hash that is trusted without reading the file is the file's, for any
\* margin larger than what the file system's clock may lie behind.
THEOREM TrustedHashesTrue == Spec => []CacheHonest
<1>1. IInv => CacheHonest
  BY DEF IInv, Stamped, Sound, CacheHonest, Cached
<1> QED BY <1>1, Invariance, PTL

\* What the check compares is what the file holds.
LEMMA CurrentTrue == IInv => Current = src.c
  BY DEF IInv, Stamped, Sound, Cached, Current

\* "Up to date" is true of everything that goes into the target, if the build
\* was not torn.
THEOREM UpToDateTrue == Spec => []FreshUnlessTorn
<1>1. IInv => FreshUnlessTorn
  <2> SUFFICES ASSUME IInv, UpToDate, ~Torn PROVE Wanted(out)
    BY DEF FreshUnlessTorn
  <2>1. /\ edges # None /\ edges.committed /\ path[edges.rule] = edges.text
        /\ \A c \in edges.absent : path[c] = None
        /\ edges.create => ~other
        /\ src.c = edges.src
    BY CurrentTrue DEF UpToDate
  <2>2. /\ out \in Inputs /\ out.rule = edges.rule /\ edges.create
        /\ edges.absent = Above(edges.rule)
    BY <2>1 DEF IInv, Recorded
  <2>3. out.text = edges.text /\ out.src = edges.src /\ ~out.other
    BY DEF Torn
  <2>4. out.text \in Contents /\ out.other \in BOOLEAN /\ other \in BOOLEAN
    BY <2>2 DEF Inputs, IInv, Types
  <2>5. Found(out.rule)
    BY <2>1, <2>2, <2>3, <2>4, EvidenceAssumption DEF Found, Above
  <2> QED BY <2>1, <2>2, <2>3, <2>4, <2>5 DEF Wanted
<1> QED BY <1>1, Invariance, PTL

\* A target whose inputs are what they were is up to date, unless a
\* directory has the name of a do-file that would win the search.
THEOREM RebuildsJustified == Spec => []RebuiltForCause
<1>1. IInv => RebuiltForCause
  <2> SUFFICES ASSUME IInv, edges # None, edges.committed, ~Torn, Wanted(out),
                      \A c \in edges.absent : path[c] # Dir
               PROVE  UpToDate
    BY DEF RebuiltForCause
  <2>1. /\ out \in Inputs /\ out.rule = edges.rule
        /\ edges.absent = Above(edges.rule)
    BY DEF IInv, Recorded
  <2>2. out.text = edges.text /\ out.src = edges.src /\ ~out.other
    BY DEF Torn
  <2>3. /\ Found(out.rule) /\ out.text = path[out.rule]
        /\ out.other = other /\ out.src = src.c
    BY DEF Wanted
  <2>4. \A c \in edges.absent : path[c] = None
    BY <2>1, <2>3 DEF Found, Above, IInv, Types
  <2> QED BY <2>1, <2>2, <2>3, <2>4, CurrentTrue DEF UpToDate
<1> QED BY <1>1, Invariance, PTL
=============================================================================
