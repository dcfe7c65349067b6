----------------------------- MODULE MergeToMain -----------------------------
(***************************************************************************)
(* merge_to_main of wtpool (src/wtpool/src/merge.rs), one action per gate  *)
(* and per git command, run by any number of servers over shared branches, *)
(* worktrees and verdict files, while workers commit, reviewers write      *)
(* their verdicts and servers crash.                                       *)
(*                                                                         *)
(* A commit of a worker is an element of Changes.  A branch's tip is the   *)
(* set of changes of the main it stands on (base) and its own (work); its  *)
(* tree is the union, and main is the set of changes that have landed.     *)
(***************************************************************************)
EXTENDS Integers

CONSTANTS
  Servers,         \* processes that run merge_to_main
  Branches,        \* branches, each checked out in its own worktree
  Changes,         \* the commits workers may make (bounds the model)
  Carveout,        \* changes that touch allowlisted paths only
  Reviewers,       \* voices that review
  Worker,          \* the voice "worktree-worker"
  None,            \* no branch, no verdict, no rebase in progress
  WhileMerging     \* TRUE: workers and reviewers do not wait for a merge of
                   \* their branch to return

ASSUME MergeAssumption ==
  /\ Carveout \subseteq Changes
  /\ Worker \notin Reviewers
  /\ None \notin Branches
  /\ WhileMerging \in BOOLEAN

VARIABLES
  main,        \* the changes on main
  halfMerged,  \* main's worktree has a MERGE_HEAD: a merge did not conclude
  tip,         \* tip[b]: the branch as its ref has it
  landed,      \* tips that main reaches
  onto,        \* onto[b]: the main a rebase in b's worktree moves it to
  verdict,     \* verdict[b][r]: the verdict file of reviewer r for b
  pc, branch, voices,   \* of each server: where it is, its request
  reply        \* the status the last step returned, None if it returned none

repo == <<main, halfMerged, tip, landed, onto>>
request == <<branch, voices>>
vars == <<repo, verdict, pc, request, reply>>

Voices == Reviewers \cup {Worker}
Tips == [base : SUBSET Changes, work : SUBSET Changes]
\* The gate tells one value of the lease field from the others.
Scopes == {"in-scope", "out-of-scope"}
Garbled == [tree |-> {}, lease |-> "garbled"]
Verdicts == [tree : SUBSET Changes, lease : Scopes] \cup {Garbled, None}
Statuses == {"merged", "rebase_conflict", "hook_blocked", "already_merged", "dry_run", "error"}

ASSUME StatusAssumption == None \notin Statuses

TypeOK ==
  /\ main \in SUBSET Changes
  /\ halfMerged \in BOOLEAN
  /\ tip \in [Branches -> Tips]
  /\ landed \in SUBSET Tips
  /\ onto \in [Branches -> (SUBSET Changes) \cup {None}]
  /\ verdict \in [Branches -> [Reviewers -> Verdicts]]
  /\ pc \in [Servers -> {"idle", "voiceGate", "leaseGate", "snapshot", "rebase",
                         "conflict", "tipGate", "merge", "verify"}]
  /\ branch \in [Servers -> Branches \cup {None}]
  /\ voices \in [Servers -> SUBSET Voices]
  /\ reply \in Statuses \cup {None}

Init ==
  /\ main = {} /\ halfMerged = FALSE /\ landed = {}
  /\ tip = [b \in Branches |-> [base |-> {}, work |-> {}]]
  /\ onto = [b \in Branches |-> None]
  /\ verdict = [b \in Branches |-> [r \in Reviewers |-> None]]
  /\ pc = [p \in Servers |-> "idle"]
  /\ branch = [p \in Servers |-> None]
  /\ voices = [p \in Servers |-> {}]
  /\ reply = None

-----------------------------------------------------------------------------
(* Reading the repository and the verdict files.  As in WtPool, a Fault is *)
(* the definition after it with a plausible bug.                           *)

Tree(t) == t.base \cup t.work

\* is-ancestor: nothing of the tip is missing on main.
Reaches(t) == t \in landed \/ t.work = {}

\* git diff main...HEAD: the branch's own changes since its merge base.
ChangedPaths(b) == tip[b].work \ main

\* Fault: one allowlisted path is enough.
SomeAllowlisted(b) == ChangedPaths(b) \cap Carveout # {}

\* branch_carveout_eligible.
CarveoutEligible(b) == ChangedPaths(b) # {} /\ ChangedPaths(b) \subseteq Carveout

\* validate_voices.
VoicesValid(p) ==
  \/ voices[p] \cap Reviewers # {}
  \/ voices[p] = {} /\ CarveoutEligible(branch[p])

\* The verdict files a gate finds for the request's voices.
Found(p) == {verdict[branch[p]][r] : r \in voices[p] \cap Reviewers} \ {None}

Parsed(p) == Found(p) \ {Garbled}

\* Fault: lease_compliance is read under another name, so that every verdict
\* that parses is "not-applicable".
LeaseUnread(p) == Garbled \notin Found(p)

\* enforce_lease_compliance: no verdict fails to parse or is out of scope.
LeaseCompliant(p) ==
  Garbled \notin Found(p) /\ \A v \in Parsed(p) : v.lease # "out-of-scope"

\* Fault: a reviewed tip that the branch contains is good enough.
TipContainsSigned(p) ==
  Garbled \notin Found(p) /\ \A v \in Parsed(p) : v.tree \subseteq Tree(tip[branch[p]])

\* enforce_merge_tip: every verdict was given on the tree the branch has now.
TipSigned(p) ==
  Garbled \notin Found(p) /\ \A v \in Parsed(p) : v.tree = Tree(tip[branch[p]])

GoTo(p, label) == pc' = [pc EXCEPT ![p] = label]

Silent == reply' = None

Continue(p, label) == GoTo(p, label) /\ Silent /\ UNCHANGED request

Forget(p) ==
  /\ GoTo(p, "idle")
  /\ branch' = [branch EXCEPT ![p] = None]
  /\ voices' = [voices EXCEPT ![p] = {}]

\* Fault: a wire string that is not in the output schema.
MisspeltConflict == "rebase-conflict"

\* MergeStatus::RebaseConflict.as_wire().
RebaseConflict == "rebase_conflict"

Reply(p, status) == Forget(p) /\ reply' = status

-----------------------------------------------------------------------------
(* merge_to_main.                                                          *)

\* validate_request refuses the worker as the only voice; the worktree must
\* have the branch checked out, so no rebase may be in progress in it.
Start(p, b, V) ==
  /\ pc[p] = "idle"
  /\ V # {Worker} /\ onto[b] = None
  /\ branch' = [branch EXCEPT ![p] = b]
  /\ voices' = [voices EXCEPT ![p] = V]
  /\ Silent
  /\ GoTo(p, "voiceGate")
  /\ UNCHANGED <<repo, verdict>>

StartRefused(p, b, V) ==
  /\ pc[p] = "idle"
  /\ V = {Worker} \/ onto[b] # None
  /\ Reply(p, "error")
  /\ UNCHANGED <<repo, verdict>>

Asked(p) ==
  \E b \in Branches, V \in SUBSET Voices : Start(p, b, V) \/ StartRefused(p, b, V)

VoiceGate(p) ==
  /\ pc[p] = "voiceGate"
  /\ \/ VoicesValid(p) /\ Continue(p, "leaseGate")
     \/ ~VoicesValid(p) /\ Reply(p, "error")
  /\ UNCHANGED <<repo, verdict>>

LeaseGate(p) ==
  /\ pc[p] = "leaseGate"
  /\ \/ LeaseCompliant(p) /\ Continue(p, "snapshot")
     \/ ~LeaseCompliant(p) /\ Reply(p, "error")
  /\ UNCHANGED <<repo, verdict>>

\* The tip is HEAD of the worktree.  A dry run stops here.
Snapshot(p) ==
  LET t == tip[branch[p]] IN
  /\ pc[p] = "snapshot"
  /\ \/ Reaches(t) /\ Reply(p, "already_merged")
     \/ ~Reaches(t) /\ Reply(p, "dry_run")
     \/ ~Reaches(t) /\ Continue(p, "rebase")
  /\ UNCHANGED <<repo, verdict>>

Rebased(b, m) == tip' = [tip EXCEPT ![b] = [base |-> m, work |-> @.work \ m]]

\* git rebase main, clean or not needed.
RebaseClean(p) ==
  /\ pc[p] = "rebase" /\ onto[branch[p]] = None
  /\ Rebased(branch[p], main)
  /\ Continue(p, "tipGate")
  /\ UNCHANGED <<main, halfMerged, landed, onto, verdict>>

\* It stops at a conflict, or does not begin: the worktree is dirty or another
\* rebase is in it.
RebaseStops(p) ==
  LET b == branch[p] IN
  /\ pc[p] = "rebase"
  /\ \/ onto[b] = None /\ tip[b].base # main /\ onto' = [onto EXCEPT ![b] = main]
     \/ UNCHANGED onto
  /\ Continue(p, "conflict")
  /\ UNCHANGED <<main, halfMerged, tip, landed, verdict>>

\* Only the cumulative document conflicts and the heuristic resolves it:
\* git add, git rebase --continue.
ConflictResolved(p) ==
  LET b == branch[p] IN
  /\ pc[p] = "conflict" /\ onto[b] # None
  /\ Rebased(b, onto[b])
  /\ onto' = [onto EXCEPT ![b] = None]
  /\ Continue(p, "tipGate")
  /\ UNCHANGED <<main, halfMerged, landed, verdict>>

\* git rebase --abort ends whichever rebase is in the worktree, that of
\* another server too.
RebaseAborted(b) == onto' = [onto EXCEPT ![b] = None]

\* Nobody looks whether it did: the index may be locked.
ConflictBails(p) ==
  /\ pc[p] = "conflict"
  /\ RebaseAborted(branch[p]) \/ UNCHANGED onto
  /\ Reply(p, RebaseConflict)
  /\ UNCHANGED <<main, halfMerged, tip, landed, verdict>>

\* Reading or writing the document fails: an error, and no abort.
ConflictIoError(p) ==
  /\ pc[p] = "conflict"
  /\ Reply(p, "error")
  /\ UNCHANGED <<repo, verdict>>

\* merge_tip_drift leaves the branch rebased.
TipGate(p) ==
  /\ pc[p] = "tipGate"
  /\ \/ TipSigned(p) /\ Continue(p, "merge")
     \/ ~TipSigned(p) /\ Reply(p, "error")
  /\ UNCHANGED <<repo, verdict>>

\* git merge --no-ff <branch>, by name; "already up to date" also succeeds.
MergeLands(p) ==
  LET t == tip[branch[p]] IN
  /\ pc[p] = "merge" /\ ~halfMerged
  /\ main' = main \cup t.work
  /\ landed' = landed \cup {t}
  /\ Continue(p, "verify")
  /\ UNCHANGED <<halfMerged, tip, onto, verdict>>

\* Main moved since the rebase and the merge conflicts: git leaves the merge
\* open in main's worktree, and nobody aborts it.
MergeConflicts(p) ==
  LET t == tip[branch[p]] IN
  /\ pc[p] = "merge" /\ ~halfMerged /\ ~Reaches(t) /\ t.base # main
  /\ halfMerged' = TRUE
  /\ Reply(p, RebaseConflict)
  /\ UNCHANGED <<main, tip, landed, onto, verdict>>

\* A hook refuses the commit: "not committing merge", which is left open too.
\* The status depends on what the hook prints.
MergeHookBlocks(p) ==
  /\ pc[p] = "merge" /\ ~halfMerged /\ ~Reaches(tip[branch[p]])
  /\ halfMerged' = TRUE
  /\ Reply(p, "hook_blocked") \/ Reply(p, RebaseConflict)
  /\ UNCHANGED <<main, tip, landed, onto, verdict>>

\* git does not begin: "you have not concluded your merge", or local changes
\* are in the way.
MergeRefused(p) ==
  /\ pc[p] = "merge"
  /\ Reply(p, RebaseConflict)
  /\ UNCHANGED <<repo, verdict>>

\* The trailer check only adds a warning.
Verify(p) ==
  /\ pc[p] = "verify"
  /\ Reply(p, "merged")
  /\ UNCHANGED <<repo, verdict>>

Step(p) ==
  \/ Asked(p)
  \/ VoiceGate(p) \/ LeaseGate(p) \/ Snapshot(p)
  \/ RebaseClean(p) \/ RebaseStops(p)
  \/ ConflictResolved(p) \/ ConflictBails(p) \/ ConflictIoError(p)
  \/ TipGate(p)
  \/ MergeLands(p) \/ MergeConflicts(p) \/ MergeHookBlocks(p) \/ MergeRefused(p)
  \/ Verify(p)

-----------------------------------------------------------------------------
(* The rest of the world.                                                  *)

\* The server dies and whatever git left behind stays.
Crash(p) ==
  /\ pc[p] # "idle"
  /\ Forget(p) /\ Silent
  /\ UNCHANGED <<repo, verdict>>

Free(b) == WhileMerging \/ \A p \in Servers : branch[p] # b

\* A worker commits a change nobody has made yet.
Commit(b, c) ==
  /\ Free(b) /\ onto[b] = None
  /\ c \notin main /\ \A d \in Branches : c \notin tip[d].work
  /\ tip' = [tip EXCEPT ![b].work = @ \cup {c}]
  /\ Silent /\ UNCHANGED <<main, halfMerged, landed, onto, verdict, pc, request>>

\* A reviewer writes a verdict on a branch that has something to merge.
Review(b, r, scope) ==
  /\ Free(b) /\ ~Reaches(tip[b])
  /\ verdict' = [verdict EXCEPT ![b][r] = [tree |-> Tree(tip[b]), lease |-> scope]]
  /\ Silent /\ UNCHANGED <<repo, pc, request>>

ReviewGarbled(b, r) ==
  /\ Free(b) /\ ~Reaches(tip[b])
  /\ verdict' = [verdict EXCEPT ![b][r] = Garbled]
  /\ Silent /\ UNCHANGED <<repo, pc, request>>

\* Somebody runs git rebase --abort, or git merge --abort, by hand.
CleanWorktree(b) ==
  /\ onto[b] # None /\ \A p \in Servers : branch[p] # b
  /\ onto' = [onto EXCEPT ![b] = None]
  /\ Silent /\ UNCHANGED <<main, halfMerged, tip, landed, verdict, pc, request>>

CleanMain ==
  /\ halfMerged /\ halfMerged' = FALSE
  /\ Silent /\ UNCHANGED <<main, tip, landed, onto, verdict, pc, request>>

Next ==
  \/ \E p \in Servers : Step(p) \/ Crash(p)
  \/ \E b \in Branches :
       \/ \E c \in Changes : Commit(b, c)
       \/ \E r \in Reviewers : ReviewGarbled(b, r) \/ \E scope \in Scopes : Review(b, r, scope)
       \/ CleanWorktree(b)
  \/ CleanMain

Spec == Init /\ [][Next]_vars

-----------------------------------------------------------------------------
(* Properties.                                                             *)

\* Server p merges, and main gets something new.
Lands(p) == pc[p] = "merge" /\ pc'[p] = "verify" /\ main' # main

(* What lands on main is part of what each listed reviewer who left a      *)
(* verdict looked at: "refusing merge" of a tree that differs "from the    *)
(* tip the reviewer signed" (merge.rs 549-565, 689-811).                   *)
LandedAsSigned ==
  [][\A p \in Servers : Lands(p) =>
       \A v \in Parsed(p) : main' \ main \subseteq v.tree]_vars

(* Nothing lands against a listed reviewer who says that the worker left   *)
(* its lease: "Merge MUST NOT proceed" (merge.rs 852-857).                 *)
NoneOutOfScope ==
  [][\A p \in Servers : Lands(p) =>
       \A v \in Parsed(p) : v.lease = "in-scope"]_vars

(* Without a reviewer only allowlisted changes land, and the worker's own  *)
(* voice is not a reviewer (merge.rs 51-78, 219-254).                      *)
UnreviewedIsCarveout ==
  [][\A p \in Servers : Lands(p) =>
       voices[p] \cap Reviewers # {} \/ (voices[p] = {} /\ main' \ main \subseteq Carveout)]_vars
==============================================================================
