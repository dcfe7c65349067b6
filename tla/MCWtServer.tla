------------------------------ MODULE MCWtServer ------------------------------
(* Patterns of up to three segments with both wildcards, also adjacent ones *)
(* and a segment where "*" has to backtrack, and paths of up to three       *)
(* segments.  The years meet the epoch, leap years, centuries that are and  *)
(* are not leap years, the end of an era and the last year of the format.   *)
EXTENDS WtRules

Symmetry == Permutations(Slots) \cup Permutations(Tasks)

UpTo(n, S) == UNION {[1..k -> S] : k \in 1..n}

PatternSegments == {<<"a">>, <<"*">>, <<"*", "a">>, <<"*", "a", "*", "b">>, <<"*", "*">>}
PathSegments == {<<>>, <<"a">>, <<"b">>, <<"a", "a", "b">>, <<"b", "a">>}

MCPatterns == UpTo(3, PatternSegments)
MCPaths == UpTo(2, PathSegments) \cup [1..3 -> {<<"a">>, <<"b", "a">>}]
MCYears == {0, 1600, 1899, 1900, 1970, 1999, 2000, 2024, 2026, 2100, 2399, 2400, 9998}

\* Requests for a lease: anything may be wrong with them, or nothing but the
\* JSON types; times no calendar has, and one that has passed.
Clock(d, hour, second) ==
  [year |-> d[1], month |-> d[2], day |-> d[3], hour |-> hour, minute |-> 0,
   second |-> second, sign |-> 1, offHour |-> 0, offMinute |-> 0]

MCBadTimes ==
  {Clock(d, 0, 0) : d \in {<<1900, 2, 29>>, <<2026, 4, 31>>, <<2026, 13, 1>>, <<2026, 1, 0>>}}
    \cup {Clock(<<2026, 1, 1>>, 24, 0), Clock(<<2026, 1, 1>>, 0, 60)}

TaskIds == {<<>>, <<"a">>, <<"a", "-">>, <<"-">>, <<"a", "!">>, <<"a", "a", "a", "a">>}
Ask1 == [task |-> <<"a">>, worker |-> "codex", branch |-> "b", allowed |-> {<<Globstar>>},
         forbidden |-> {}, expires |-> NoTime]
Globs == {NotAnArray, {}, {<<Globstar>>}, {<< <<"a">>, Globstar>>}, {<< <<"a">> >>, NotAString}}

MCEmitRequests ==
  {[Ask1 EXCEPT !.task = t, !.worker = w, !.branch = b] :
     t \in TaskIds, w \in {"codex", "robot"}, b \in {"b", NoBranch}}
    \cup {[Ask1 EXCEPT !.expires = e] : e \in MCBadTimes \cup {Clock(<<2000, 2, 29>>, 23, 59)}}
    \cup {[Ask1 EXCEPT !.allowed = a, !.forbidden = f] : a \in Globs, f \in Globs}

\* Two tasks, one of whose ids holds the names of both worktrees.
AgentIds == {<<"u", "i">>, <<"x">>}
MCKnown == << <<"u">>, <<"u", "i">> >>

Places == Range(MCKnown) \cup {Unattributed}
Transcripts ==
  [task : AgentIds, mtime : {0, 3}, worktree : Places, tool : {NoTool}]
Heartbeats ==
  [task : AgentIds, mtime : {0, 3}, worktree : {<<"u">>, Unattributed}, tool : {"Bash"}]

\* A task has one heartbeat file.
MCScans ==
  {scan \in [transcripts : {<<>>} \cup UpTo(2, Transcripts),
             heartbeats : {<<>>} \cup UpTo(2, Heartbeats)] :
     Len(scan.heartbeats) = 2 => scan.heartbeats[1].task # scan.heartbeats[2].task}
==============================================================================
