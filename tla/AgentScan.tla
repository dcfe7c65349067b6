------------------------------- MODULE AgentScan -------------------------------
(***************************************************************************)
(* agent_inflight_summary (agents.rs): which worktree every running agent  *)
(* works in and whether it still writes, put together from the transcripts *)
(* of the tasks, the heartbeat files and the names of the worktrees.       *)
(*                                                                         *)
(* A transcript is its task, the time of its last write and the worktree   *)
(* its text names first; a heartbeat also has a tool.  A task id and the   *)
(* name of a worktree are sequences of characters, a time is a number.     *)
(***************************************************************************)
EXTENDS Naturals, Sequences, FiniteSets, SequencesExt, FiniteSetsExt

CONSTANTS
  Unattributed,   \* no worktree
  NoTool,
  Known,          \* the worktrees of the repository, in git's order
  Now, Cutoff,    \* the time of the call, and stale_minutes
  Scans           \* the file systems the properties are checked for

\* A transcript has no tool, and nothing was written after the call.
ASSUME ScanAssumption ==
  /\ {Now, Cutoff} \subseteq Nat
  /\ \A scan \in Scans :
       /\ scan.transcripts \in Seq(Range(scan.transcripts))
       /\ scan.heartbeats \in Seq(Range(scan.heartbeats))
       /\ \A f \in Range(scan.transcripts) : f.mtime \in 0..Now /\ f.tool = NoTool
       /\ \A f \in Range(scan.heartbeats) : f.mtime \in 0..Now

\* A task as it is seen in one file.
Seen(f) == [task |-> f.task, newest |-> f.mtime, worktree |-> f.worktree, tool |-> f.tool]

-----------------------------------------------------------------------------
(* scan_observations.                                                      *)

\* Fault: the file read last decides.
LastRead(a, b) == b

Newest(a, b) == IF b > a THEN b ELSE a

\* What an earlier file said stays.
Merged(o, f) ==
  [o EXCEPT !.newest = Newest(@, f.mtime),
            !.worktree = IF @ = Unattributed THEN f.worktree ELSE @,
            !.tool = IF @ = NoTool THEN f.tool ELSE @]

Observe(obs, f) ==
  IF \E o \in obs : o.task = f.task
  THEN {IF o.task = f.task THEN Merged(o, f) ELSE o : o \in obs}
  ELSE obs \cup {Seen(f)}

\* The transcripts, in the order the directories are read in, then the
\* heartbeats.
Observations(scan) ==
  LET files == scan.transcripts \o scan.heartbeats
      read[n \in 0..Len(files)] == IF n = 0 THEN {} ELSE Observe(read[n - 1], files[n])
  IN read[Len(files)]

-----------------------------------------------------------------------------
(* agent_inflight_summary.                                                 *)

Occurs(name, id) ==
  \E i \in 0..Len(id) : Len(name) + i <= Len(id) /\ SubSeq(id, i + 1, i + Len(name)) = name

\* associate_via_known: the longest name in the task id, the first of equals.
ByName(id) ==
  LET named == {i \in DOMAIN Known : Known[i] # <<>> /\ Occurs(Known[i], id)}
      longest == {i \in named : \A j \in named : Len(Known[j]) <= Len(Known[i])}
  IN IF named = {} THEN Unattributed ELSE Known[Min(longest)]

Place(o) == IF o.worktree # Unattributed THEN o.worktree ELSE ByName(o.task)

\* A time in the future has no age, and counts as stale.
Stale(o) == o.newest > Now \/ Now - o.newest > Cutoff

Group(place, obs) ==
  LET agents == {o \in obs : Place(o) = place}
  IN [path |-> place, agents |-> agents,
      latest |-> Max({o.newest : o \in agents}),
      stale |-> \A o \in agents : Stale(o)]

Summary(scan) ==
  LET obs == Observations(scan) IN {Group(place, obs) : place \in {Place(o) : o \in obs}}

-----------------------------------------------------------------------------
(* What the summary should mean, by the files it was made of.              *)

FilesOf(scan) == Range(scan.transcripts) \cup Range(scan.heartbeats)

TasksOf(group) == {o.task : o \in group.agents}

\* Every task of a file is in one group.
NobodyLost(scan) ==
  \A f \in FilesOf(scan) :
    \E g \in Summary(scan) :
      /\ f.task \in TasksOf(g)
      /\ \A h \in Summary(scan) : f.task \in TasksOf(h) => h = g

\* A group is alive when one of its files was written within the cutoff, and
\* its time is that of the newest.
LifeMeans(scan) ==
  \A g \in Summary(scan) :
    LET written == {f.mtime : f \in {h \in FilesOf(scan) : h.task \in TasksOf(g)}}
    IN g.latest = Max(written) /\ (g.stale <=> Max(written) + Cutoff < Now)

Named(files, task) == {f.worktree : f \in {h \in files : h.task = task}} \ {Unattributed}

\* A transcript is believed before a heartbeat, and both before a name.
PlaceMeans(scan) ==
  \A g \in Summary(scan) : \A task \in TasksOf(g) :
    LET written == Named(Range(scan.transcripts), task)
        beaten == Named(Range(scan.heartbeats), task)
    IN g.path \in IF written # {} THEN written
                  ELSE IF beaten # {} THEN beaten
                  ELSE {ByName(task)}

\* The order of the directory does not matter, unless two transcripts of one
\* task name different worktrees.
OrderMeans(scan) ==
  (\A f \in Range(scan.transcripts) : \A v, w \in Named(Range(scan.transcripts), f.task) : v = w)
    => Summary(scan) = Summary([transcripts |-> Reverse(scan.transcripts),
                                heartbeats |-> scan.heartbeats])

SummaryMeans ==
  \A scan \in Scans :
    NobodyLost(scan) /\ LifeMeans(scan) /\ PlaceMeans(scan) /\ OrderMeans(scan)
==============================================================================
