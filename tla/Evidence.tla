------------------------------ MODULE Evidence ------------------------------
(***************************************************************************)
(* What the answer "up to date" rests on: the search for a do-file in      *)
(* src/src/dofile.rs, stamps in src/src/stamp.rs, and the edges a build    *)
(* records and is_ood_walk compares in src/src/build.rs.                   *)
(*                                                                         *)
(* One target with one source.  A build searches its do-file candidate by  *)
(* candidate, records the hash of the one it found and the absence of      *)
(* those before it, and runs it; the do-file calls redo-ifcreate on a path *)
(* and redo-ifchange on the source, then uses both.  The hash of a source  *)
(* is cached with its mtime and trusted again by rules about clocks.  The  *)
(* user edits everything at any moment.  The target's output is what went  *)
(* into it; its own file, the marker of a failed build and the locks are   *)
(* in TargetBuild, dependencies that are targets in DepGraph.              *)
(***************************************************************************)
EXTENDS Integers

CONSTANTS
  Depth,     \* how many directories below the project root the target is
  Parts,     \* how many dot-separated parts its name has
  Contents,  \* contents of a file, all of one size: others stat tells apart
  Second,    \* ticks of the clock in a second
  Margin,    \* RACY_MARGIN_NANOS
  Behind,    \* how far a fine-grained mtime lies behind this machine's clock
  Ahead,     \* how far it may lie ahead
  Checkers,  \* processes that ask whether the target is up to date
  Initial,   \* the do-files there are at first
  Dir,       \* a path that is a directory
  None,
  MaxNow,    \* bound: the clock
  MaxEdits   \* bound: what the user changes

ASSUME EvidenceAssumption ==
  /\ Contents # {}
  /\ Depth \in Nat /\ Parts \in Nat \ {0}
  /\ Second \in Nat \ {0} /\ Margin \in Nat /\ Behind \in Nat /\ Ahead \in Nat
  /\ Behind < Margin
  /\ Dir \notin Contents /\ None \notin Contents /\ Dir # None
  /\ MaxNow \in Nat /\ MaxEdits \in Nat

\* A candidate by the depth of its directory and the number of parts of the
\* target's name it has after `default': all of them is the exact do-file,
\* which there is only beside the target.
Candidates == {c \in (0..Depth) \X (0..Parts) : c[2] = Parts => c[1] = Depth}

\* The order of the search: deeper directories first, and in a directory the
\* exact do-file, then the longest extension.
Before(c, d) == c[1] > d[1] \/ (c[1] = d[1] /\ c[2] > d[2])

ASSUME InitialAssumption == Initial \in [Candidates -> Contents \cup {Dir, None}]

VARIABLES
  now,     \* this machine's clock
  src,     \* the source: content and mtime
  path,    \* what is at each candidate's path
  other,   \* whether the path given to redo-ifcreate exists
  edits,
  row,     \* the cached stamp of the source, or None
  edges,   \* what the last build recorded
  out,     \* what went into the target's output
  pc,      \* where the build is
  probed,  \* the candidates it has found absent
  chosen,  \* the do-file it has found
  hashed,  \* the stamp it is taking
  used,    \* what the do-file has used so far
  check,   \* where each checker is
  seen     \* the stamp it is taking

user == <<src, path, other, edits>>
building == <<pc, probed, chosen, hashed, used>>
checking == <<check, seen>>
vars == <<now, src, path, other, edits, row, edges, out, pc, probed, chosen, hashed, used, check, seen>>

Files == [c : Contents, m : Int]
Stamps == [m : Int, c : Contents, h : Int]
Inputs == [rule : Candidates, text : Contents, other : BOOLEAN, src : Contents]
Edges == [rule : Candidates, text : Contents \cup {Dir, None}, absent : SUBSET Candidates,
          create : BOOLEAN, src : Contents \cup {None}, committed : BOOLEAN]

\* The last conjunct: the recorded absences are the candidates searched
\* before the recorded do-file, all of them and no other.
TypeOK ==
  /\ now \in 0..MaxNow /\ src \in Files
  /\ path \in [Candidates -> Contents \cup {Dir, None}]
  /\ other \in BOOLEAN /\ edits \in 0..MaxEdits
  /\ row \in Stamps \cup {None}
  /\ edges \in Edges \cup {None} /\ out \in Inputs \cup {None}
  /\ pc \in {"idle", "find", "stamp", "launch", "create", "sample", "stat", "hash", "row",
             "edge", "read", "commit"}
  /\ probed \subseteq Candidates /\ chosen \in Candidates \cup {None}
  /\ hashed \in Stamps /\ used \in [text : Contents, other : BOOLEAN, src : Contents]
  /\ check \in [Checkers -> {"idle", "sample", "hash", "update"}]
  /\ seen \in [Checkers -> Stamps]
  /\ edges # None => edges.absent = {c \in Candidates : Before(c, edges.rule)}

\* Values of the locals out of their scope.
Blank == [m |-> 0, c |-> CHOOSE c \in Contents : TRUE, h |-> 0]
Unused == [text |-> Blank.c, other |-> FALSE, src |-> Blank.c]

Init ==
  /\ now = 0 /\ path = Initial /\ other = FALSE /\ edits = 0
  /\ src \in [c : Contents, m : {0}]
  /\ row = None /\ edges = None /\ out = None
  /\ pc = "idle" /\ probed = {} /\ chosen = None
  /\ hashed = Blank /\ used = Unused
  /\ check = [k \in Checkers |-> "idle"] /\ seen = [k \in Checkers |-> Blank]

-----------------------------------------------------------------------------
\* THE USER AND THE CLOCK

Tick ==
  /\ now < MaxNow /\ now' = now + 1
  /\ UNCHANGED <<user, row, edges, out, building, checking>>

\* The mtime of a write: near this machine's clock, or, on a file system with
\* coarse timestamps, any whole second.
Mtimes == {m \in 0..(now + Ahead) : m >= now - Behind \/ m % Second = 0}

Edit == edits < MaxEdits /\ edits' = edits + 1 /\ UNCHANGED <<now, row, edges, out, building, checking>>
EditSource ==
  Edit /\ src' \in [c : Contents, m : Mtimes] /\ UNCHANGED <<path, other>>
EditRule ==
  Edit /\ \E c \in Candidates, f \in Contents \cup {Dir, None} :
            path' = [path EXCEPT ![c] = f] /\ UNCHANGED <<src, other>>
EditOther == Edit /\ other' = ~other /\ UNCHANGED <<src, path>>

-----------------------------------------------------------------------------
\* A BUILD

Goto(label) == pc' = label
Return ==
  Goto("idle") /\ probed' = {} /\ chosen' = None /\ hashed' = Blank /\ used' = Unused

Begin ==
  /\ pc = "idle" /\ Goto("find")
  /\ UNCHANGED <<now, user, row, edges, out, probed, chosen, hashed, used, checking>>

\* find: one candidate at a time.
Next1(c) == c \notin probed /\ \A d \in Candidates : Before(d, c) => d \in probed

\* Mutant: the candidate that is found counts among the absent.
ProbeAll ==
  /\ pc = "find"
  /\ \E c \in Candidates :
       /\ Next1(c) /\ probed' = probed \cup {c}
       /\ IF path[c] \in Contents THEN chosen' = c /\ Goto("stamp") ELSE UNCHANGED <<pc, chosen>>
  /\ UNCHANGED <<now, user, row, edges, out, hashed, used, checking>>

Probe ==
  /\ pc = "find"
  /\ \E c \in Candidates :
       /\ Next1(c)
       /\ \/ path[c] \in Contents /\ chosen' = c /\ Goto("stamp") /\ UNCHANGED probed
          \/ path[c] \notin Contents /\ probed' = probed \cup {c} /\ UNCHANGED <<pc, chosen>>
  /\ UNCHANGED <<now, user, row, edges, out, hashed, used, checking>>

\* No do-file: an error, or, if a file lies at the target's path, it is recorded
\* as a source, and the edges stay.  Nothing of what this module has changes.
NoRule ==
  /\ pc = "find" /\ probed = Candidates /\ Return
  /\ UNCHANGED <<now, user, row, edges, out, checking>>

\* Mutant: the edges of the build before are not cleared.
MarkedOnTop(absent) ==
  [rule |-> chosen, text |-> path[chosen],
   absent |-> absent \cup (IF edges = None THEN {} ELSE edges.absent),
   create |-> FALSE, src |-> None, committed |-> FALSE]

Marked(absent) ==
  [rule |-> chosen, text |-> path[chosen], absent |-> absent, create |-> FALSE, src |-> None,
   committed |-> FALSE]

\* Mutant: only the do-file is recorded.
StampAlone ==
  /\ pc = "stamp" /\ edges' = Marked({}) /\ Goto("launch")
  /\ UNCHANGED <<now, user, row, out, probed, chosen, hashed, used, checking>>

\* The do-file is hashed, then the marker transaction replaces the edges.
Stamp ==
  /\ pc = "stamp" /\ edges' = Marked(probed) /\ Goto("launch")
  /\ UNCHANGED <<now, user, row, out, probed, chosen, hashed, used, checking>>

\* The interpreter reads the do-file, or fails to.
Launch ==
  /\ pc = "launch"
  /\ \/ /\ path[chosen] \in Contents /\ used' = [used EXCEPT !.text = path[chosen]]
        /\ Goto("create") /\ UNCHANGED <<probed, chosen, hashed>>
     \/ path[chosen] \notin Contents /\ Return
  /\ UNCHANGED <<now, user, row, edges, out, checking>>

\* ifcreate: an error if the path exists.
IfCreate ==
  /\ pc = "create"
  /\ \/ /\ ~other /\ edges' = [edges EXCEPT !.create = TRUE]
        /\ Goto("sample") /\ UNCHANGED <<probed, chosen, hashed, used>>
     \/ other /\ Return /\ UNCHANGED edges
  /\ UNCHANGED <<now, user, row, out, checking>>

\* ifchange, stamp_file: clock, stat, hash; then the row.
Sample ==
  /\ pc = "sample" /\ hashed' = [hashed EXCEPT !.h = now] /\ Goto("stat")
  /\ UNCHANGED <<now, user, row, edges, out, probed, chosen, used, checking>>
Stat ==
  /\ pc = "stat" /\ hashed' = [hashed EXCEPT !.m = src.m] /\ Goto("hash")
  /\ UNCHANGED <<now, user, row, edges, out, probed, chosen, used, checking>>
HashFile ==
  /\ pc = "hash" /\ hashed' = [hashed EXCEPT !.c = src.c] /\ Goto("row")
  /\ UNCHANGED <<now, user, row, edges, out, probed, chosen, used, checking>>
UpsertRow ==
  /\ pc = "row" /\ row' = hashed /\ Goto("edge")
  /\ UNCHANGED <<now, user, edges, out, probed, chosen, hashed, used, checking>>

\* The edge gets a stamp of its own.
RecordEdge ==
  /\ pc = "edge" /\ edges' = [edges EXCEPT !.src = src.c] /\ Goto("read")
  /\ UNCHANGED <<now, user, row, out, probed, chosen, hashed, used, checking>>

\* The do-file uses what it has declared.
Read ==
  /\ pc = "read" /\ used' = [used EXCEPT !.src = src.c, !.other = other] /\ Goto("commit")
  /\ UNCHANGED <<now, user, row, edges, out, probed, chosen, hashed, checking>>

Commit ==
  /\ pc = "commit"
  /\ out' = [rule |-> chosen, text |-> used.text, other |-> used.other, src |-> used.src]
  /\ edges' = [edges EXCEPT !.committed = TRUE]
  /\ Return
  /\ UNCHANGED <<now, user, row, checking>>

-----------------------------------------------------------------------------
\* CHECKS

\* Mutant: a matching mtime is always trusted.
NeverRacy(stamp) == FALSE

Racy(stamp) == stamp.h - stamp.m < Margin

Trustworthy(m) == m % Second # 0

\* current_csum's fast path.
Cached == row # None /\ row.m = src.m /\ Trustworthy(src.m) /\ ~Racy(row)
Current == IF Cached THEN row.c ELSE src.c

\* The slow path: stat, clock, hash, and an UPDATE of whatever row there is by
\* then.
CheckStat(k) ==
  /\ check[k] = "idle" /\ ~Cached
  /\ seen' = [seen EXCEPT ![k].m = src.m] /\ check' = [check EXCEPT ![k] = "sample"]
  /\ UNCHANGED <<now, user, row, edges, out, building>>
CheckSample(k) ==
  /\ check[k] = "sample"
  /\ seen' = [seen EXCEPT ![k].h = now] /\ check' = [check EXCEPT ![k] = "hash"]
  /\ UNCHANGED <<now, user, row, edges, out, building>>
CheckHash(k) ==
  /\ check[k] = "hash"
  /\ seen' = [seen EXCEPT ![k].c = src.c] /\ check' = [check EXCEPT ![k] = "update"]
  /\ UNCHANGED <<now, user, row, edges, out, building>>
CheckUpdate(k) ==
  /\ check[k] = "update"
  /\ row' = IF row = None THEN None ELSE seen[k]
  /\ check' = [check EXCEPT ![k] = "idle"] /\ seen' = [seen EXCEPT ![k] = Blank]
  /\ UNCHANGED <<now, user, edges, out, building>>

\* is_ood_walk over the edges, as it answers at this moment.
UpToDate ==
  /\ edges # None /\ edges.committed
  /\ path[edges.rule] = edges.text
  /\ \A c \in edges.absent : path[c] = None
  /\ edges.create => ~other
  /\ Current = edges.src

Search == Begin \/ Probe \/ NoRule \/ Stamp
DoFile ==
  \/ Launch \/ IfCreate \/ Sample \/ Stat \/ HashFile \/ UpsertRow \/ RecordEdge \/ Read \/ Commit
Check(k) == CheckStat(k) \/ CheckSample(k) \/ CheckHash(k) \/ CheckUpdate(k)

Next == Tick \/ EditSource \/ EditRule \/ EditOther \/ Search \/ DoFile \/ \E k \in Checkers : Check(k)

Spec == Init /\ [][Next]_vars

-----------------------------------------------------------------------------
\* PROPERTIES

\* A hash that is trusted without reading the file is the file's: whatever
\* was written in the same timestamp tick, and whoever updated the row last
\* (stamp_is_racy, stat_is_trustworthy).
CacheHonest == Cached => row.c = src.c

\* What a build would use if it ran now and nothing moved under it.
Found(c) == path[c] \in Contents /\ \A d \in Candidates : Before(d, c) => path[d] \notin Contents
Wanted(i) ==
  /\ Found(i.rule) /\ i.text = path[i.rule]
  /\ i.other = other /\ i.src = src.c

\* A build is torn if something changed between its stamp and its use.
Torn == out.text # edges.text \/ out.src # edges.src \/ out.other

\* "Up to date" means that the output is what a build would make now: a new
\* do-file that wins the search, an edit of the old one, a path that appears
\* and an edit of the source are all seen; only a torn build whose input
\* changed back escapes (is_ood_walk, find).
FreshUnlessTorn == UpToDate => Torn \/ Wanted(out)

\* The other way round: a target whose inputs are what they were is not built
\* again, unless a candidate is a directory, which the search passes over and
\* the check takes for a new do-file.
RebuiltForCause ==
  /\ edges # None /\ edges.committed /\ ~Torn /\ Wanted(out)
  /\ \A c \in edges.absent : path[c] # Dir
  => UpToDate
=============================================================================
