----------------------------- MODULE MergeProofs ------------------------------
(***************************************************************************)
(* What is proved of merge_to_main for every set of servers, branches,     *)
(* changes and reviewers, with any overlap of merges, rebases and crashes: *)
(* the state is well typed and, while nobody touches a branch that is      *)
(* being merged (WhileMerging = FALSE), the gates hold for what lands on   *)
(* main.  And, for every file and every document: a verdict is read as it  *)
(* is written, by the gates and by the script, and a resolved conflict of  *)
(* rows that the branches only added or removed keeps what either added.   *)
(***************************************************************************)
EXTENDS MergeRules, SharedLemmas

-----------------------------------------------------------------------------
(* Typing.  TypeOK is not inductive: the gates read the branch of the      *)
(* request, so a server that is not idle must have one.                    *)

AtBranch == \A p \in Servers : pc[p] # "idle" => branch[p] \in Branches

Typed == TypeOK /\ AtBranch

LEMMA TypeInit == Init => Typed
<1>1. [base |-> {}, work |-> {}] \in Tips /\ None \in Verdicts
  BY DEF Tips, Verdicts
<1> SUFFICES ASSUME Init PROVE Typed
  OBVIOUS
<1>2. /\ main \in SUBSET Changes /\ halfMerged \in BOOLEAN /\ landed \in SUBSET Tips
      /\ reply \in Statuses \cup {None}
  BY DEF Init
<1>3. tip \in [Branches -> Tips] /\ onto \in [Branches -> (SUBSET Changes) \cup {None}]
  BY <1>1 DEF Init
<1>4. verdict \in [Branches -> [Reviewers -> Verdicts]]
  BY <1>1 DEF Init
<1>5. /\ pc \in [Servers -> {"idle"}] /\ branch \in [Servers -> {None}]
      /\ voices \in [Servers -> SUBSET Voices] /\ AtBranch
  BY DEF Init, AtBranch
<1> QED
  BY <1>2, <1>3, <1>4, <1>5 DEF Typed, TypeOK

Labels == {"voiceGate", "leaseGate", "snapshot", "rebase", "conflict", "tipGate", "merge", "verify"}

\* What a server's own steps assign.
ServersTyped ==
  /\ pc \in [Servers -> {"idle"} \cup Labels]
  /\ branch \in [Servers -> Branches \cup {None}]
  /\ voices \in [Servers -> SUBSET Voices]
  /\ reply \in Statuses \cup {None}
  /\ AtBranch

LEMMA ContinueTyped ==
  ASSUME Typed, NEW p \in Servers, pc[p] # "idle", NEW label \in Labels, Continue(p, label)
  PROVE  ServersTyped'
BY DEF Typed, TypeOK, AtBranch, ServersTyped, Labels, Continue, GoTo, Silent, request

LEMMA ReplyTyped ==
  ASSUME Typed, NEW p \in Servers, NEW status \in Statuses, Reply(p, status)
  PROVE  ServersTyped'
BY DEF Typed, TypeOK, AtBranch, ServersTyped, Labels, Reply, Forget, GoTo

LEMMA CrashTyped ==
  ASSUME Typed, NEW p \in Servers, Forget(p), Silent
  PROVE  ServersTyped'
BY DEF Typed, TypeOK, AtBranch, ServersTyped, Labels, Silent, Forget, GoTo

LEMMA RebasedTyped ==
  ASSUME Typed, NEW b \in Branches, NEW m \in SUBSET Changes, Rebased(b, m)
  PROVE  tip' \in [Branches -> Tips]
BY DEF Typed, TypeOK, Rebased, Tips

LEMMA TypeStep ==
  ASSUME Typed, NEW p \in Servers, Step(p)
  PROVE  Typed'
<1> USE DEF Typed, TypeOK, ServersTyped, Labels
<1>1. ASSUME NEW b \in Branches, NEW V \in SUBSET Voices, Start(p, b, V)
      PROVE  Typed'
  BY <1>1 DEF Start, GoTo, Silent, repo, AtBranch
<1>2. ASSUME NEW b \in Branches, NEW V \in SUBSET Voices, StartRefused(p, b, V)
      PROVE  Typed'
  BY <1>2, ReplyTyped DEF StartRefused, Statuses, repo
<1>3. CASE VoiceGate(p)
  BY <1>3, ReplyTyped, ContinueTyped DEF VoiceGate, Statuses, repo
<1>4. CASE LeaseGate(p)
  BY <1>4, ReplyTyped, ContinueTyped DEF LeaseGate, Statuses, repo
<1>5. CASE Snapshot(p)
  BY <1>5, ReplyTyped, ContinueTyped DEF Snapshot, Statuses, repo
<1>6. CASE RebaseClean(p)
  <2>1. tip' \in [Branches -> Tips]
    BY <1>6, RebasedTyped DEF RebaseClean, AtBranch
  <2> QED
    BY <1>6, <2>1, ContinueTyped DEF RebaseClean
<1>7. CASE RebaseStops(p)
  <2>1. onto' \in [Branches -> (SUBSET Changes) \cup {None}]
    BY <1>7 DEF RebaseStops
  <2> QED
    BY <1>7, <2>1, ContinueTyped DEF RebaseStops
<1>8. CASE ConflictResolved(p)
  <2>1. tip' \in [Branches -> Tips]
    BY <1>8, RebasedTyped DEF ConflictResolved, AtBranch
  <2>2. onto' \in [Branches -> (SUBSET Changes) \cup {None}]
    BY <1>8 DEF ConflictResolved
  <2> QED
    BY <1>8, <2>1, <2>2, ContinueTyped DEF ConflictResolved
<1>9. CASE ConflictBails(p)
  <2>1. onto' \in [Branches -> (SUBSET Changes) \cup {None}]
    <3>1. CASE RebaseAborted(branch[p])
      BY <3>1 DEF RebaseAborted
    <3>2. CASE UNCHANGED onto
      BY <3>2
    <3> QED
      BY <1>9, <3>1, <3>2 DEF ConflictBails
  <2> QED
    BY <1>9, <2>1, ReplyTyped DEF ConflictBails, Statuses, RebaseConflict
<1>10. CASE ConflictIoError(p)
  BY <1>10, ReplyTyped DEF ConflictIoError, Statuses, repo
<1>11. CASE TipGate(p)
  BY <1>11, ReplyTyped, ContinueTyped DEF TipGate, Statuses, repo
<1>12. CASE MergeLands(p)
  <2>1. tip[branch[p]] \in Tips
    BY <1>12 DEF MergeLands, AtBranch
  <2>2. main' \in SUBSET Changes /\ landed' \in SUBSET Tips
    BY <1>12, <2>1 DEF MergeLands, Tips
  <2> QED
    BY <1>12, <2>2, ContinueTyped DEF MergeLands
<1>13. CASE MergeConflicts(p)
  BY <1>13, ReplyTyped DEF MergeConflicts, Statuses, RebaseConflict
<1>14. CASE MergeHookBlocks(p)
  BY <1>14, ReplyTyped DEF MergeHookBlocks, Statuses, RebaseConflict
<1>15. CASE MergeRefused(p)
  BY <1>15, ReplyTyped DEF MergeRefused, Statuses, RebaseConflict, repo
<1>16. CASE Verify(p)
  BY <1>16, ReplyTyped DEF Verify, Statuses, repo
<1> QED
  BY <1>1, <1>2, <1>3, <1>4, <1>5, <1>6, <1>7, <1>8, <1>9, <1>10, <1>11, <1>12, <1>13, <1>14,
     <1>15, <1>16 DEF Step, Asked

LEMMA TypeWorld ==
  ASSUME Typed, NEW b \in Branches,
         \/ \E c \in Changes : Commit(b, c)
         \/ \E r \in Reviewers : ReviewGarbled(b, r) \/ \E scope \in Scopes : Review(b, r, scope)
         \/ CleanWorktree(b)
  PROVE  Typed'
<1> USE DEF Typed, TypeOK, AtBranch, Silent, repo, request
<1>1. ASSUME NEW c \in Changes, Commit(b, c)
      PROVE  Typed'
  <2>1. tip' \in [Branches -> Tips]
    BY <1>1, ZenonT(30) DEF Commit, Tips
  <2> QED
    BY <1>1, <2>1 DEF Commit
<1>2. ASSUME NEW r \in Reviewers, NEW v \in Verdicts, Silent, UNCHANGED <<repo, pc, request>>,
             verdict' = [verdict EXCEPT ![b][r] = v]
      PROVE  Typed'
  BY <1>2
<1>3. ASSUME NEW r \in Reviewers, NEW scope \in Scopes, Review(b, r, scope)
      PROVE  Typed'
  <2>1. [tree |-> Tree(tip[b]), lease |-> scope] \in Verdicts
    BY DEF Tree, Tips, Verdicts
  <2> QED
    BY <1>2, <1>3, <2>1 DEF Review
<1>4. ASSUME NEW r \in Reviewers, ReviewGarbled(b, r)
      PROVE  Typed'
  BY <1>2, <1>4 DEF ReviewGarbled, Verdicts
<1>5. CASE CleanWorktree(b)
  BY <1>5 DEF CleanWorktree
<1> QED
  BY <1>1, <1>3, <1>4, <1>5

LEMMA TypeNext == Typed /\ [Next]_vars => Typed'
<1> SUFFICES ASSUME Typed, [Next]_vars PROVE Typed'
  OBVIOUS
<1>1. ASSUME NEW p \in Servers, Crash(p) PROVE Typed'
  BY <1>1, CrashTyped DEF Crash, Typed, TypeOK, ServersTyped, Labels, repo
<1>2. CASE CleanMain
  BY <1>2 DEF CleanMain, Typed, TypeOK, AtBranch, Silent, request
<1>3. CASE UNCHANGED vars
  BY <1>3 DEF Typed, TypeOK, AtBranch, vars, repo, request
<1> QED
  BY <1>1, <1>2, <1>3, TypeStep, TypeWorld DEF Next

(* The state stays well typed, and a server at work knows its branch.      *)
THEOREM TypeCorrect == Spec => []TypeOK
<1>1. Spec => []Typed
  BY TypeInit, TypeNext, PTL DEF Spec
<1>2. Typed => TypeOK
  BY DEF Typed
<1> QED
  BY <1>1, <1>2, PTL

-----------------------------------------------------------------------------
(* What lands.  The gates look at a branch and its verdicts and the merge  *)
(* comes several steps later, so what they found has to last: nobody       *)
(* touches the branch meanwhile, a rebase by another server only takes     *)
(* changes away that main has, and main only grows.                        *)

VoicedPcs == {"leaseGate", "snapshot", "rebase", "conflict", "tipGate", "merge"}
LeasedPcs == VoicedPcs \ {"leaseGate"}

(* The voice gate has been passed and would be again.                      *)
VoiceInv(p) ==
  pc[p] \in VoicedPcs =>
    \/ voices[p] \cap Reviewers # {}
    \/ voices[p] = {} /\ ChangedPaths(branch[p]) \subseteq Carveout

(* So has the lease gate.                                                  *)
LeaseInv(p) == pc[p] \in LeasedPcs => LeaseCompliant(p)

(* A branch past the tip gate has nothing that was not reviewed.           *)
TipInv(p) ==
  pc[p] = "merge" => \A v \in Parsed(p) : tip[branch[p]].work \subseteq v.tree

GatesInv(p) == VoiceInv(p) /\ LeaseInv(p) /\ TipInv(p)

IInv == \A p \in Servers : GatesInv(p)

LEMMA InvInit == Init => IInv
BY DEF Init, IInv, GatesInv, VoiceInv, LeaseInv, TipInv, VoicedPcs, LeasedPcs

\* What every step does to the branches that are being merged.
Lasting ==
  /\ main \subseteq main'
  /\ \A p \in Servers : pc[p] # "idle" =>
       /\ tip'[branch[p]].work \subseteq tip[branch[p]].work
       /\ verdict'[branch[p]] = verdict[branch[p]]

\* Server p does nothing.
Waits(p) == pc'[p] = pc[p] /\ branch'[p] = branch[p] /\ voices'[p] = voices[p]

OthersWait(p) == \A q \in Servers \ {p} : Waits(q)

LEMMA ContinueFrame ==
  ASSUME Typed, NEW p \in Servers, NEW label, Continue(p, label)
  PROVE  OthersWait(p) /\ pc'[p] = label /\ branch'[p] = branch[p] /\ voices'[p] = voices[p]
BY DEF Typed, TypeOK, Continue, GoTo, request, OthersWait, Waits

LEMMA ForgetFrame ==
  ASSUME Typed, NEW p \in Servers, Forget(p)
  PROVE  OthersWait(p) /\ pc'[p] = "idle"
BY DEF Typed, TypeOK, Forget, GoTo, OthersWait, Waits

LEMMA StepFrame ==
  ASSUME Typed, NEW p \in Servers, Step(p) \/ Crash(p)
  PROVE  OthersWait(p)
<1>1. CASE Asked(p)
  BY <1>1, ForgetFrame
     DEF Asked, Start, StartRefused, Reply, GoTo, OthersWait, Waits, Typed, TypeOK
<1>2. CASE Forget(p)
  BY <1>2, ForgetFrame
<1>3. CASE \E label \in Labels : Continue(p, label)
  BY <1>3, ContinueFrame
<1>4. Asked(p) \/ Forget(p) \/ \E label \in Labels : Continue(p, label)
  BY DEF Step, Crash, Reply, Labels, VoiceGate, LeaseGate, Snapshot, RebaseClean, RebaseStops,
         ConflictResolved, ConflictBails, ConflictIoError, TipGate, MergeLands,
         MergeConflicts, MergeHookBlocks, MergeRefused, Verify
<1> QED
  BY <1>1, <1>2, <1>3, <1>4

LEMMA RebasedShrinks ==
  ASSUME Typed, NEW b \in Branches, NEW m, Rebased(b, m)
  PROVE  \A d \in Branches : tip'[d].work \subseteq tip[d].work
BY DEF Typed, TypeOK, Rebased, Tips

LEMMA ServerLasting ==
  ASSUME Typed, NEW p \in Servers, Step(p) \/ Crash(p)
  PROVE  Lasting
<1>1. verdict' = verdict
  BY DEF Step, Crash, Asked, Start, StartRefused, VoiceGate, LeaseGate, Snapshot, RebaseClean,
         RebaseStops, ConflictResolved, ConflictBails, ConflictIoError, TipGate, MergeLands,
         MergeConflicts, MergeHookBlocks, MergeRefused, Verify
<1>2. main \subseteq main'
  BY DEF Step, Crash, Asked, Start, StartRefused, VoiceGate, LeaseGate, Snapshot, RebaseClean,
         RebaseStops, ConflictResolved, ConflictBails, ConflictIoError, TipGate, MergeLands,
         MergeConflicts, MergeHookBlocks, MergeRefused, Verify, repo
<1>3. \A d \in Branches : tip'[d].work \subseteq tip[d].work
  <2>1. CASE RebaseClean(p) \/ ConflictResolved(p)
    BY <2>1, RebasedShrinks DEF RebaseClean, ConflictResolved, Typed, AtBranch
  <2>2. CASE tip' = tip
    BY <2>2
  <2> QED
    BY <2>1, <2>2
       DEF Step, Crash, Asked, Start, StartRefused, VoiceGate, LeaseGate, Snapshot, RebaseStops,
           ConflictBails, ConflictIoError, TipGate, MergeLands, MergeConflicts,
           MergeHookBlocks, MergeRefused, Verify, repo
<1> QED
  BY <1>1, <1>2, <1>3 DEF Lasting, Typed, AtBranch

LEMMA WorldLasting ==
  ASSUME WhileMerging = FALSE, Typed, NEW b \in Branches,
         \/ \E c \in Changes : Commit(b, c)
         \/ \E r \in Reviewers : ReviewGarbled(b, r) \/ \E scope \in Scopes : Review(b, r, scope)
         \/ CleanWorktree(b)
  PROVE  Lasting /\ \A p \in Servers : Waits(p)
<1> USE DEF Lasting, Waits, request, repo, Typed, TypeOK, AtBranch
<1>1. ASSUME NEW c \in Changes, Commit(b, c)
      PROVE  Lasting /\ \A p \in Servers : Waits(p)
  <2>1. \A p \in Servers : pc[p] # "idle" => branch[p] # b
    BY <1>1 DEF Commit, Free
  <2>2. \A d \in Branches \ {b} : tip'[d] = tip[d]
    BY <1>1 DEF Commit
  <2> QED
    BY <1>1, <2>1, <2>2 DEF Commit
<1>2. ASSUME NEW r \in Reviewers, NEW v, Free(b), verdict' = [verdict EXCEPT ![b][r] = v],
             UNCHANGED <<repo, pc, request>>
      PROVE  Lasting /\ \A p \in Servers : Waits(p)
  <2>1. \A p \in Servers : pc[p] # "idle" => branch[p] # b
    BY <1>2 DEF Free
  <2>2. \A d \in Branches \ {b} : verdict'[d] = verdict[d]
    BY <1>2
  <2> QED
    BY <1>2, <2>1, <2>2
<1>3. CASE CleanWorktree(b)
  BY <1>3 DEF CleanWorktree
<1> QED
  BY <1>1, <1>2, <1>3 DEF Review, ReviewGarbled

\* What was found of a branch is still so as long as the server has the request.
LEMMA FoundStays ==
  ASSUME Typed, Lasting, NEW p \in Servers, pc[p] # "idle",
         branch'[p] = branch[p], voices'[p] = voices[p]
  PROVE  /\ ChangedPaths(branch[p])' \subseteq ChangedPaths(branch[p])
         /\ Parsed(p)' = Parsed(p) /\ LeaseCompliant(p)' = LeaseCompliant(p)
         /\ tip'[branch[p]].work \subseteq tip[branch[p]].work
BY DEF Lasting, ChangedPaths, Found, Parsed, LeaseCompliant

LEMMA WaitsKeeps ==
  ASSUME Typed, Lasting, NEW p \in Servers, GatesInv(p), Waits(p)
  PROVE  GatesInv(p)'
<1>1. CASE pc[p] = "idle"
  BY <1>1 DEF Waits, GatesInv, VoiceInv, LeaseInv, TipInv, VoicedPcs, LeasedPcs
<1>2. CASE pc[p] # "idle"
  BY <1>2, FoundStays DEF Waits, GatesInv, VoiceInv, LeaseInv, TipInv
<1> QED
  BY <1>1, <1>2

LEMMA OutsideKeeps ==
  ASSUME NEW p \in Servers, pc'[p] \notin VoicedPcs
  PROVE  GatesInv(p)'
BY DEF GatesInv, VoiceInv, LeaseInv, TipInv, VoicedPcs, LeasedPcs

\* A step past no gate.
LEMMA ContinueKeeps ==
  ASSUME Typed, Lasting, NEW p \in Servers, GatesInv(p), pc[p] \in LeasedPcs,
         NEW label \in LeasedPcs \ {"merge"}, Continue(p, label)
  PROVE  GatesInv(p)'
<1>1. pc'[p] = label /\ branch'[p] = branch[p] /\ voices'[p] = voices[p]
  BY ContinueFrame
<1> QED
  BY <1>1, FoundStays DEF GatesInv, VoiceInv, LeaseInv, TipInv, VoicedPcs, LeasedPcs

LEMMA StepKeeps ==
  ASSUME Typed, Lasting, NEW p \in Servers, GatesInv(p), Step(p) \/ Crash(p)
  PROVE  GatesInv(p)'
<1> USE DEF VoicedPcs, LeasedPcs
<1>1. CASE Asked(p)
  BY <1>1, ForgetFrame, OutsideKeeps
     DEF Asked, Start, StartRefused, Reply, GoTo, Typed, TypeOK
<1>2. CASE Forget(p)
  BY <1>2, ForgetFrame, OutsideKeeps
<1>3. CASE VoiceGate(p) /\ ~Forget(p)
  <2>1. /\ pc[p] = "voiceGate" /\ VoicesValid(p)
        /\ pc'[p] = "leaseGate" /\ branch'[p] = branch[p] /\ voices'[p] = voices[p]
    BY <1>3, ContinueFrame DEF VoiceGate, Reply
  <2> QED
    BY <2>1, FoundStays DEF VoicesValid, CarveoutEligible, GatesInv, VoiceInv, LeaseInv, TipInv
<1>4. CASE LeaseGate(p) /\ ~Forget(p)
  <2>1. /\ pc[p] = "leaseGate" /\ LeaseCompliant(p)
        /\ pc'[p] = "snapshot" /\ branch'[p] = branch[p] /\ voices'[p] = voices[p]
    BY <1>4, ContinueFrame DEF LeaseGate, Reply
  <2> QED
    BY <2>1, FoundStays DEF GatesInv, VoiceInv, LeaseInv, TipInv
<1>5. CASE TipGate(p) /\ ~Forget(p)
  <2>1. /\ pc[p] = "tipGate" /\ TipSigned(p)
        /\ pc'[p] = "merge" /\ branch'[p] = branch[p] /\ voices'[p] = voices[p]
    BY <1>5, ContinueFrame DEF TipGate, Reply
  <2>2. \A v \in Parsed(p) : tip[branch[p]].work \subseteq v.tree
    BY <2>1 DEF TipSigned, Tree
  <2> QED
    BY <2>1, <2>2, FoundStays DEF GatesInv, VoiceInv, LeaseInv, TipInv
<1>6. CASE Snapshot(p) \/ RebaseClean(p) \/ RebaseStops(p) \/ ConflictResolved(p)
  BY <1>2, <1>6, ContinueKeeps DEF Snapshot, RebaseClean, RebaseStops, ConflictResolved, Reply
<1>7. CASE MergeLands(p)
  BY <1>7, ContinueFrame, OutsideKeeps DEF MergeLands
<1> QED
  BY <1>1, <1>2, <1>3, <1>4, <1>5, <1>6, <1>7
     DEF Step, Crash, Reply, ConflictBails, ConflictIoError, MergeConflicts, MergeHookBlocks,
         MergeRefused, Verify

LEMMA InvNext ==
  ASSUME WhileMerging = FALSE
  PROVE  Typed /\ IInv /\ [Next]_vars => IInv'
<1> SUFFICES ASSUME Typed, IInv, [Next]_vars, NEW q \in Servers PROVE GatesInv(q)'
  BY DEF IInv
<1>1. GatesInv(q)
  BY DEF IInv
<1>2. ASSUME NEW p \in Servers, Step(p) \/ Crash(p) PROVE GatesInv(q)'
  <2>1. Lasting /\ OthersWait(p)
    BY <1>2, ServerLasting, StepFrame
  <2> QED
    BY <1>1, <1>2, <2>1, StepKeeps, WaitsKeeps DEF OthersWait
<1>3. ASSUME NEW b \in Branches,
             \/ \E c \in Changes : Commit(b, c)
             \/ \E r \in Reviewers : ReviewGarbled(b, r) \/ \E scope \in Scopes : Review(b, r, scope)
             \/ CleanWorktree(b)
      PROVE GatesInv(q)'
  BY <1>1, <1>3, WorldLasting, WaitsKeeps
<1>4. CASE CleanMain \/ UNCHANGED vars
  <2>1. Lasting /\ Waits(q)
    BY <1>4 DEF CleanMain, vars, repo, request, Lasting, Waits
  <2> QED
    BY <1>1, <2>1, WaitsKeeps
<1> QED
  BY <1>2, <1>3, <1>4 DEF Next

LEMMA InvHolds ==
  ASSUME WhileMerging = FALSE
  PROVE  Spec => [](Typed /\ IInv)
<1>1. Init => Typed /\ IInv
  BY TypeInit, InvInit
<1>2. Typed /\ IInv /\ [Next]_vars => (Typed /\ IInv)'
  BY TypeNext, InvNext
<1> QED
  BY <1>1, <1>2, PTL DEF Spec

\* What a step does that lets a server land something.
LEMMA LandsIs ==
  ASSUME Typed, IInv, [Next]_vars, NEW p \in Servers, Lands(p)
  PROVE  MergeLands(p) /\ main' \ main = ChangedPaths(branch[p])
<1>1. ASSUME NEW q \in Servers, Step(q) \/ Crash(q) PROVE MergeLands(p)
  <2>1. q = p
    BY <1>1, StepFrame DEF OthersWait, Waits, Lands
  <2> QED
    BY <1>1, <2>1, ForgetFrame
       DEF Lands, Step, Crash, Asked, Start, StartRefused, VoiceGate, LeaseGate, Snapshot,
           RebaseClean, RebaseStops, ConflictResolved, ConflictBails, ConflictIoError, TipGate,
           MergeConflicts, MergeHookBlocks, MergeRefused, Verify, Reply
<1>2. pc' # pc
  BY DEF Lands
<1>3. MergeLands(p)
  BY <1>1, <1>2 DEF Next, Commit, Review, ReviewGarbled, CleanWorktree, CleanMain, vars
<1> QED
  BY <1>3 DEF MergeLands, ChangedPaths

(* While nobody touches a branch that is being merged, what lands on main  *)
(* is part of what each listed reviewer looked at, whatever rebases,       *)
(* merges and crashes overlap (enforce_merge_tip and what follows it).     *)
THEOREM OnlyReviewedLands ==
  ASSUME WhileMerging = FALSE
  PROVE  Spec => LandedAsSigned
<1>1. Typed /\ IInv /\ [Next]_vars =>
        [\A p \in Servers : Lands(p) => \A v \in Parsed(p) : main' \ main \subseteq v.tree]_vars
  <2> SUFFICES ASSUME Typed, IInv, [Next]_vars, NEW p \in Servers, Lands(p), NEW v \in Parsed(p)
               PROVE  main' \ main \subseteq v.tree
    OBVIOUS
  <2> QED
    BY LandsIs DEF MergeLands, ChangedPaths, IInv, GatesInv, TipInv
<1> QED
  BY <1>1, InvHolds, PTL DEF Spec, LandedAsSigned

(* ... none of them said that the worker had left its lease                *)
(* (enforce_lease_compliance) ...                                          *)
THEOREM LeaseKept ==
  ASSUME WhileMerging = FALSE
  PROVE  Spec => NoneOutOfScope
<1>1. Typed /\ IInv /\ [Next]_vars =>
        [\A p \in Servers : Lands(p) => \A v \in Parsed(p) : v.lease = "in-scope"]_vars
  <2> SUFFICES ASSUME Typed, IInv, [Next]_vars, NEW p \in Servers, Lands(p), NEW v \in Parsed(p)
               PROVE  v.lease = "in-scope"
    OBVIOUS
  <2>1. pc[p] = "merge"
    BY DEF Lands
  <2>2. v.lease # "out-of-scope"
    BY <2>1 DEF IInv, GatesInv, LeaseInv, LeasedPcs, VoicedPcs, LeaseCompliant
  <2>3. branch[p] \in Branches
    BY <2>1 DEF Typed, AtBranch
  <2>4. v \in [tree : SUBSET Changes, lease : Scopes]
    BY <2>3 DEF Parsed, Found, Typed, TypeOK, Verdicts
  <2> QED
    BY <2>2, <2>4 DEF Scopes
<1> QED
  BY <1>1, InvHolds, PTL DEF Spec, NoneOutOfScope

(* ... and what lands without a reviewer is on the allowlist               *)
(* (validate_voices, branch_carveout_eligible).                            *)
THEOREM CarveoutOnly ==
  ASSUME WhileMerging = FALSE
  PROVE  Spec => UnreviewedIsCarveout
<1>1. Typed /\ IInv /\ [Next]_vars =>
        [\A p \in Servers : Lands(p) =>
           voices[p] \cap Reviewers # {} \/ (voices[p] = {} /\ main' \ main \subseteq Carveout)]_vars
  <2> SUFFICES ASSUME Typed, IInv, [Next]_vars, NEW p \in Servers, Lands(p)
               PROVE  \/ voices[p] \cap Reviewers # {}
                      \/ voices[p] = {} /\ main' \ main \subseteq Carveout
    OBVIOUS
  <2> QED
    BY LandsIs DEF Lands, IInv, GatesInv, VoiceInv, VoicedPcs
<1> QED
  BY <1>1, InvHolds, PTL DEF Spec, UnreviewedIsCarveout

-----------------------------------------------------------------------------
(* Verdict files.  The parsers go line by line; what is claimed of them is *)
(* shown for the lines before line n, one line at a time.                  *)

\* The last number is the greatest.
LEMMA MaxOfLast ==
  ASSUME NEW n \in Nat, NEW S, S \subseteq 1..n - 1
  PROVE  Max(S \cup {n}) = n
<1> DEFINE T == S \cup {n}
<1>1. \A y \in T : y \in Int /\ n >= y
  OBVIOUS
<1>2. \E x \in T : \A y \in T : x >= y
  BY <1>1
<1>3. Max(T) \in T /\ \A y \in T : Max(T) >= y
  BY <1>2 DEF Max
<1>4. PICK m : m = Max(T)
  OBVIOUS
<1>5. m \in Int /\ n >= m /\ m >= n
  BY <1>1, <1>3, <1>4
<1> QED
  BY <1>4, <1>5

\* The least of some numbers is one of them.
LEMMA MinIs ==
  ASSUME NEW S, S \subseteq Nat, S # {}
  PROVE  Min(S) \in S /\ \A y \in S : Min(S) <= y
<1>1. \E x \in S : \A y \in S : x <= y
  BY NatLess
<1> QED
  BY <1>1 DEF Min

\* The lines up to n that set the key, and what the last of them says.
Settings(front, key, n) == {i \in 1..n : front[i].kind = "field" /\ front[i].name = key}

LastValue(front, key, n) ==
  IF Settings(front, key, n) = {} THEN NoValue ELSE front[Max(Settings(front, key, n))].value

\* A line that sets the key decides, another leaves what was set before it
\* (extract-verdict.sh 88-96).
LEMMA ValueStep ==
  ASSUME NEW front, NEW key, NEW n \in Nat, n # 0
  PROVE  LastValue(front, key, n) =
           IF front[n].kind = "field" /\ front[n].name = key THEN front[n].value
           ELSE LastValue(front, key, n - 1)
<1>1. Settings(front, key, n - 1) \subseteq 1..n - 1
  BY DEF Settings
<1>2. CASE front[n].kind = "field" /\ front[n].name = key
  <2>1. Settings(front, key, n) = Settings(front, key, n - 1) \cup {n}
    BY <1>2 DEF Settings
  <2>2. Max(Settings(front, key, n)) = n
    BY <1>1, <2>1, MaxOfLast
  <2> QED
    BY <1>2, <2>1, <2>2 DEF LastValue
<1>3. CASE ~(front[n].kind = "field" /\ front[n].name = key)
  <2>1. Settings(front, key, n) = Settings(front, key, n - 1)
    BY <1>3 DEF Settings
  <2> QED
    BY <1>3, <2>1, Zenon DEF LastValue
<1> QED
  BY <1>2, <1>3

\* What is read of a key is what its last line says.
LEMMA ValueIsLast ==
  ASSUME NEW front, NEW key, NEW N \in Nat, N = Len(front)
  PROVE  Value(front, key) = LastValue(front, key, N)
<1> DEFINE Reading(f) == [n \in 0..Len(front) |->
                         IF n = 0 THEN NoValue
                         ELSE IF front[n].kind = "field" /\ front[n].name = key
                         THEN front[n].value ELSE f[n - 1]]
           last == [n \in 0..N |-> LastValue(front, key, n)]
           value == CHOOSE f : f = Reading(f)
<1>1. Value(front, key) = value[N]
  BY DEF Value
<1>2. last = Reading(last)
  <2>1. ASSUME NEW n \in 0..N PROVE last[n] = Reading(last)[n]
    <3>1. CASE n = 0
      <4>1. LastValue(front, key, 0) = NoValue
        BY DEF LastValue, Settings
      <4> QED
        BY <3>1, <4>1
    <3>2. CASE n # 0
      <4>1. n \in Nat /\ n - 1 \in 0..N
        BY <3>2
      <4>2. last[n - 1] = LastValue(front, key, n - 1) /\ last[n] = LastValue(front, key, n)
        BY <4>1
      <4> HIDE DEF last
      <4> QED
        BY <3>2, <4>1, <4>2, ValueStep
    <3> QED
      BY <3>1, <3>2
  <2>2. last = [n \in 0..N |-> last[n]] /\ Reading(last) = [n \in 0..N |-> Reading(last)[n]]
    OBVIOUS
  <2> HIDE DEF last, Reading
  <2> QED
    BY <2>1, <2>2
<1>3. value = Reading(value)
  <2> HIDE DEF last, Reading
  <2> QED
    BY <1>2
<1> DEFINE ok == {n \in 0..N : value[n] = LastValue(front, key, n)}
<1> HIDE DEF value
<1>4. \A n \in 0..N : value[n] = IF n = 0 THEN NoValue
                         ELSE IF front[n].kind = "field" /\ front[n].name = key
                         THEN front[n].value ELSE value[n - 1]
  BY <1>3
<1>5. 0 \in ok
  BY <1>4 DEF LastValue, Settings
<1>6. ASSUME NEW n \in 1..N, n - 1 \in ok PROVE n \in ok
  <2>1. n \in Nat /\ n # 0 /\ n \in 0..N
    OBVIOUS
  <2> QED
    BY <1>4, <1>6, <2>1, ValueStep
<1>7. N \in ok
  <2> HIDE DEF ok
  <2>1. N \in 0..N
    OBVIOUS
  <2> QED
    BY <1>5, <1>6, <2>1, UpToAll
<1> QED
  BY <1>1, <1>7

\* A line after the others comes last in the list.
LEMMA ListGrows ==
  ASSUME NEW S, NEW lines, NEW n \in Nat, NEW P, P \subseteq 1..n - 1, lines[n] \in S,
         NEW list \in Seq(S), InOrder(lines, P, list)
  PROVE  /\ Append(list, lines[n]) \in Seq(S)
         /\ InOrder(lines, P \cup {n}, Append(list, lines[n]))
<1> DEFINE Q == P \cup {n}
           more == Append(list, lines[n])
<1>1. IsFiniteSet(1..n - 1)
  BY FS_Interval
<1>2. IsFiniteSet(P) /\ Cardinality(P) \in Nat
  BY <1>1, FS_Subset, FS_CardinalityType
<1>3. n \notin P
  OBVIOUS
<1>4. Cardinality(Q) = Cardinality(P) + 1
  BY <1>2, <1>3, FS_AddElement
<1>5. PICK c \in Nat : c = Cardinality(P) /\ c = Len(list)
  BY <1>2 DEF InOrder
<1>6. /\ more \in Seq(S) /\ Len(more) = c + 1 /\ more[c + 1] = lines[n]
      /\ \A k \in 1..c : more[k] = list[k]
  BY <1>5
<1>7. ASSUME NEW i \in P PROVE more[Cardinality({j \in Q : j <= i})] = lines[i]
  <2>1. {j \in Q : j <= i} = {j \in P : j <= i}
    <3>1. ~(n <= i)
      OBVIOUS
    <3> QED
      BY <3>1
  <2>2. PICK U : U = {j \in P : j <= i} /\ U \subseteq P /\ i \in U
    <3>1. i <= i
      OBVIOUS
    <3> QED
      BY <3>1
  <2>3. IsFiniteSet(U) /\ Cardinality(U) <= Cardinality(P)
    BY <1>2, <2>2, FS_Subset
  <2>4. Cardinality(U) \in Nat /\ Cardinality(U) # 0
    BY <2>2, <2>3, FS_CardinalityType, FS_EmptySet
  <2>5. Cardinality(U) \in 1..c
    BY <1>5, <2>3, <2>4
  <2>6. list[Cardinality(U)] = lines[i]
    BY <2>2 DEF InOrder
  <2> HIDE DEF Q, more
  <2> QED
    BY <1>6, <2>1, <2>2, <2>5, <2>6
<1>8. more[Cardinality({j \in Q : j <= n})] = lines[n]
  <2>1. {j \in Q : j <= n} = Q
    <3>1. \A j \in Q : j <= n
      OBVIOUS
    <3> QED
      BY <3>1
  <2> HIDE DEF Q, more
  <2> QED
    BY <1>4, <1>5, <1>6, <2>1
<1>9. Len(more) = Cardinality(Q)
  <2> HIDE DEF Q, more
  <2> QED
    BY <1>4, <1>5, <1>6
<1>10. \A i \in Q : more[Cardinality({j \in Q : j <= i})] = lines[i]
  BY <1>7, <1>8
<1> QED
  BY <1>6, <1>9, <1>10 DEF InOrder

\* The parser before line n: what it has seen, section by section.
FoundBefore(lines, section, n) == {i \in 1..n - 1 : i \in Findings(lines, section)}

\* The findings of a section before line n are listed.
Listed(lines, section, n, list) ==
  list \in Seq(Range(lines)) /\ InOrder(lines, FoundBefore(lines, section, n), list)

\* The section line n is in.
Under(lines, n) ==
  IF Headings(lines, n) = {} THEN "none" ELSE lines[Max(Headings(lines, n))].name

\* What the parser knows before line n.
Tells(lines, n, s) ==
  /\ s = [section |-> s.section, fenced |-> s.fenced, issues |-> s.issues,
          followups |-> s.followups, strengths |-> s.strengths]
  /\ s.fenced \in BOOLEAN /\ (s.fenced <=> ~Visible(lines, n))
  /\ s.section = Under(lines, n)
  /\ Listed(lines, "issues", n, s.issues)
  /\ Listed(lines, "followups", n, s.followups)
  /\ Listed(lines, "strengths", n, s.strengths)

\* A fence ends or begins what is not read.
LEMMA FenceFlips ==
  ASSUME NEW lines, NEW n \in Nat, n # 0
  PROVE  Visible(lines, n + 1) <=> (Visible(lines, n) <=> lines[n].kind # "fence")
<1>1. Fences(lines, n) \subseteq 1..n - 1 /\ n \notin Fences(lines, n)
  BY DEF Fences
<1>2. IsFiniteSet(Fences(lines, n))
  BY <1>1, FS_Interval, FS_Subset
<1>3. PICK c \in Nat : c = Cardinality(Fences(lines, n))
  BY <1>2, FS_CardinalityType
<1>4. CASE lines[n].kind = "fence"
  <2>1. Fences(lines, n + 1) = Fences(lines, n) \cup {n}
    BY <1>4 DEF Fences
  <2>2. Cardinality(Fences(lines, n + 1)) = c + 1
    BY <1>1, <1>2, <1>3, <2>1, FS_AddElement
  <2>3. (c + 1) % 2 = 0 <=> c % 2 # 0
    OBVIOUS
  <2> QED
    BY <1>3, <1>4, <2>2, <2>3 DEF Visible
<1>5. CASE lines[n].kind # "fence"
  <2>1. Fences(lines, n + 1) = Fences(lines, n)
    BY <1>5 DEF Fences
  <2> QED
    BY <1>5, <2>1 DEF Visible
<1> QED
  BY <1>4, <1>5

\* A visible heading opens its section.
LEMMA HeadingOpens ==
  ASSUME NEW lines, NEW n \in Nat, n # 0
  PROVE  Under(lines, n + 1) =
           IF lines[n].kind = "heading" /\ Visible(lines, n) THEN lines[n].name ELSE Under(lines, n)
<1>1. Headings(lines, n) \subseteq 1..n - 1
  BY DEF Headings
<1>2. CASE lines[n].kind = "heading" /\ Visible(lines, n)
  <2>1. Headings(lines, n + 1) = Headings(lines, n) \cup {n}
    BY <1>2 DEF Headings
  <2>2. Max(Headings(lines, n + 1)) = n
    BY <1>1, <2>1, MaxOfLast
  <2> QED
    BY <1>2, <2>1, <2>2 DEF Under
<1>3. CASE ~(lines[n].kind = "heading" /\ Visible(lines, n))
  <2>1. Headings(lines, n + 1) = Headings(lines, n)
    BY <1>3 DEF Headings
  <2> QED
    BY <1>3, <2>1, Zenon DEF Under
<1> QED
  BY <1>2, <1>3

\* The lists before the next line.
LEMMA ListedNext ==
  ASSUME NEW lines, NEW N \in Nat, DOMAIN lines = 1..N, NEW n \in 1..N, NEW section, NEW list,
         Listed(lines, section, n, list)
  PROVE  /\ n \in Findings(lines, section) => Listed(lines, section, n + 1, Append(list, lines[n]))
         /\ n \notin Findings(lines, section) => Listed(lines, section, n + 1, list)
<1>1. FoundBefore(lines, section, n) \subseteq 1..n - 1 /\ (n + 1) - 1 = n
  BY DEF FoundBefore
<1>2. lines[n] \in Range(lines)
  BY DEF Range
<1>3. CASE n \in Findings(lines, section)
  <2>1. FoundBefore(lines, section, n + 1) = FoundBefore(lines, section, n) \cup {n}
    BY <1>3 DEF FoundBefore
  <2>2. PICK P : P = FoundBefore(lines, section, n)
    OBVIOUS
  <2>3. list \in Seq(Range(lines)) /\ InOrder(lines, P, list)
    BY <2>2 DEF Listed
  <2>4. n \in Nat
    OBVIOUS
  <2>5. /\ Append(list, lines[n]) \in Seq(Range(lines))
        /\ InOrder(lines, P \cup {n}, Append(list, lines[n]))
    BY <1>1, <1>2, <2>2, <2>3, <2>4, ListGrows
  <2> QED
    BY <1>3, <2>1, <2>2, <2>5 DEF Listed
<1>4. CASE n \notin Findings(lines, section)
  <2>1. FoundBefore(lines, section, n + 1) = FoundBefore(lines, section, n)
    BY <1>4 DEF FoundBefore
  <2> QED
    BY <1>4, <2>1 DEF Listed
<1> QED
  BY <1>3, <1>4

\* When a line is a finding.
LEMMA FindingIs ==
  ASSUME NEW lines, NEW n \in DOMAIN lines, NEW section \in {"issues", "followups", "strengths"}
  PROVE  n \in Findings(lines, section) <=>
           /\ lines[n].kind = "bullet" /\ Visible(lines, n)
           /\ section # "strengths" => lines[n].name \in Severities
           /\ Under(lines, n) = section
BY DEF Findings, Under

\* One line more.
LEMMA LineRead ==
  ASSUME NEW lines, NEW N \in Nat, DOMAIN lines = 1..N, NEW n \in 1..N, NEW s, Tells(lines, n, s)
  PROVE  Tells(lines, n + 1, ReadLine(s, lines[n]))
<1>1. PICK line : line = lines[n]
  OBVIOUS
<1>2. PICK t : t = ReadLine(s, line)
  OBVIOUS
<1>3. /\ s = [section |-> s.section, fenced |-> s.fenced, issues |-> s.issues,
              followups |-> s.followups, strengths |-> s.strengths]
      /\ s.fenced \in BOOLEAN /\ (s.fenced <=> ~Visible(lines, n)) /\ s.section = Under(lines, n)
  BY DEF Tells
<1>4. /\ Visible(lines, n + 1) <=> (Visible(lines, n) <=> line.kind # "fence")
      /\ Under(lines, n + 1) =
           IF line.kind = "heading" /\ Visible(lines, n) THEN line.name ELSE Under(lines, n)
  BY <1>1, FenceFlips, HeadingOpens, SMTT(30)
<1>5. \A section \in {"issues", "followups", "strengths"} :
        n \in Findings(lines, section) <=>
          /\ line.kind = "bullet" /\ ~s.fenced
          /\ section # "strengths" => line.name \in Severities
          /\ s.section = section
  BY <1>1, <1>3, FindingIs
<1>6. /\ t = [section |-> t.section, fenced |-> t.fenced, issues |-> t.issues,
              followups |-> t.followups, strengths |-> t.strengths]
      /\ t.fenced = IF line.kind = "fence" THEN ~s.fenced ELSE s.fenced
      /\ t.section = IF line.kind = "heading" /\ ~s.fenced THEN line.name ELSE s.section
      /\ t.issues = IF n \in Findings(lines, "issues") THEN Append(s.issues, line) ELSE s.issues
      /\ t.followups =
           IF n \in Findings(lines, "followups") THEN Append(s.followups, line) ELSE s.followups
      /\ t.strengths =
           IF n \in Findings(lines, "strengths") THEN Append(s.strengths, line) ELSE s.strengths
  <2> USE DEF ReadLine, Bullet, Hidden
  <2>1. CASE line.kind = "fence"
    BY <1>2, <1>3, <1>5, <2>1
  <2>2. CASE line.kind = "heading"
    BY <1>2, <1>3, <1>5, <2>2
  <2>3. CASE line.kind = "bullet"
    BY <1>2, <1>3, <1>5, <2>3
  <2>4. CASE line.kind \notin {"fence", "heading", "bullet"}
    BY <1>2, <1>3, <1>5, <2>4
  <2> QED
    BY <2>1, <2>2, <2>3, <2>4
<1>7. t.fenced \in BOOLEAN /\ (t.fenced <=> ~Visible(lines, n + 1)) /\ t.section = Under(lines, n + 1)
  BY <1>3, <1>4, <1>6
<1>8. /\ Listed(lines, "issues", n + 1, t.issues)
      /\ Listed(lines, "followups", n + 1, t.followups)
      /\ Listed(lines, "strengths", n + 1, t.strengths)
  BY <1>1, <1>6, ListedNext DEF Tells
<1> QED
  BY <1>1, <1>2, <1>6, <1>7, <1>8 DEF Tells

\* The body parser, line by line.
BodyReading(lines, read) ==
  [n \in 0..Len(lines) |-> IF n = 0 THEN Unread ELSE ReadLine(read[n - 1], lines[n])]

\* The parser can be run over every body.
LEMMA CanReadBody ==
  ASSUME NEW lines, Len(lines) \in Nat
  PROVE  \E read : read = BodyReading(lines, read)
<1> DEFINE N == Len(lines)
           Upto(k, f) == f = [n \in 0..k |-> IF n = 0 THEN Unread ELSE ReadLine(f[n - 1], lines[n])]
           ok == {k \in 0..N : \E f : Upto(k, f)}
<1>1. 0 \in ok
  <2>1. Upto(0, [n \in 0..0 |-> Unread])
    OBVIOUS
  <2>2. 0 \in 0..N
    OBVIOUS
  <2> HIDE DEF Upto
  <2> QED
    BY <2>1, <2>2
<1>2. ASSUME NEW k \in 1..N, k - 1 \in ok PROVE k \in ok
  <2>1. PICK f : Upto(k - 1, f)
    BY <1>2
  <2> DEFINE g == [n \in 0..k |-> IF n = k THEN ReadLine(f[k - 1], lines[k]) ELSE f[n]]
  <2>2. ASSUME NEW n \in 0..k
        PROVE  g[n] = IF n = 0 THEN Unread ELSE ReadLine(g[n - 1], lines[n])
    <3>1. CASE n = 0
      BY <2>1, <3>1
    <3>2. CASE n \in 1..k - 1
      <4>1. n \in 0..k - 1 /\ n - 1 \in 0..k /\ n # k /\ n - 1 # k /\ n # 0
        BY <3>2
      <4>2. g[n] = f[n] /\ g[n - 1] = f[n - 1]
        BY <4>1
      <4>3. f[n] = ReadLine(f[n - 1], lines[n])
        BY <2>1, <4>1
      <4> QED
        BY <4>1, <4>2, <4>3
    <3>3. CASE n = k
      <4>1. g[k] = ReadLine(f[k - 1], lines[k]) /\ g[k - 1] = f[k - 1] /\ k # 0
        OBVIOUS
      <4> QED
        BY <3>3, <4>1
    <3> QED
      BY <3>1, <3>2, <3>3
  <2>3. g = [n \in 0..k |-> g[n]]
    OBVIOUS
  <2> HIDE DEF g
  <2>4. Upto(k, g)
    BY <2>2, <2>3
  <2> QED
    BY <2>4
<1> HIDE DEF ok
<1>3. N \in ok
  <2>1. N \in Nat /\ N \in 0..N
    OBVIOUS
  <2> HIDE DEF N
  <2> QED
    BY <1>1, <1>2, <2>1, UpToAll
<1> USE DEF ok
<1> QED
  BY <1>3 DEF BodyReading

\* Before the first line.
LEMMA NothingRead ==
  ASSUME NEW lines
  PROVE  Tells(lines, 1, Unread)
<1>1. Fences(lines, 1) = {} /\ Headings(lines, 1) = {} /\ 1 - 1 = 0 /\ 1..0 = {}
  BY DEF Fences, Headings
<1>2. Visible(lines, 1)
  BY <1>1, FS_EmptySet DEF Visible
<1>3. Under(lines, 1) = "none"
  BY <1>1 DEF Under
<1>4. <<>> \in Seq(Range(lines)) /\ Len(<<>>) = 0 /\ Cardinality({}) = 0
  BY FS_EmptySet
<1>5. \A section : Listed(lines, section, 1, <<>>)
  <2>1. \A section : FoundBefore(lines, section, 1) = {}
    BY <1>1 DEF FoundBefore
  <2> QED
    BY <1>4, <2>1 DEF Listed, InOrder
<1> QED
  BY <1>2, <1>3, <1>5 DEF Tells, Unread

\* After the last.
LEMMA BodyRead ==
  ASSUME NEW lines, NEW N \in Nat, N = Len(lines), DOMAIN lines = 1..N
  PROVE  Tells(lines, N + 1, ReadBody(lines))
<1> DEFINE read == CHOOSE f : f = BodyReading(lines, f)
           ok == {n \in 0..N : Tells(lines, n + 1, read[n])}
<1>1. ReadBody(lines) = read[N]
  BY DEF ReadBody, BodyReading
<1>2. read = BodyReading(lines, read)
  BY CanReadBody
<1> HIDE DEF read
<1>3. \A n \in 0..N : read[n] = IF n = 0 THEN Unread ELSE ReadLine(read[n - 1], lines[n])
  <2>1. \A f : \A n \in 0..N :
          BodyReading(lines, f)[n] = IF n = 0 THEN Unread ELSE ReadLine(f[n - 1], lines[n])
    BY DEF BodyReading
  <2> QED
    BY <1>2, <2>1
<1>4. 0 \in ok
  <2>1. 0 \in 0..N /\ 0 + 1 = 1
    OBVIOUS
  <2> QED
    BY <1>3, <2>1, NothingRead
<1>5. ASSUME NEW n \in 1..N, n - 1 \in ok PROVE n \in ok
  <2>1. n \in 0..N /\ n # 0 /\ (n - 1) + 1 = n
    OBVIOUS
  <2>2. Tells(lines, n, read[n - 1])
    BY <1>5, <2>1
  <2>3. Tells(lines, n + 1, ReadLine(read[n - 1], lines[n]))
    BY <2>2, LineRead
  <2> QED
    BY <1>3, <2>1, <2>3
<1>6. N \in ok
  <2>1. N \in 0..N
    OBVIOUS
  <2> HIDE DEF ok
  <2> QED
    BY <1>4, <1>5, <2>1, UpToAll
<1> QED
  BY <1>1, <1>6

\* The bullets of a body are listed by section, in order.
LEMMA BodiesMean ==
  ASSUME NEW lines, NEW N \in Nat, N = Len(lines), DOMAIN lines = 1..N
  PROVE  LET body == ReadBody(lines)
         IN /\ InOrder(lines, Findings(lines, "issues"), body.issues)
            /\ InOrder(lines, Findings(lines, "followups"), body.followups)
            /\ InOrder(lines, Findings(lines, "strengths"), body.strengths)
<1>1. \A section : FoundBefore(lines, section, N + 1) = Findings(lines, section)
  <2>1. (N + 1) - 1 = N
    OBVIOUS
  <2>2. \A section : Findings(lines, section) \subseteq 1..N
    BY DEF Findings
  <2> QED
    BY <2>1, <2>2 DEF FoundBefore
<1> QED
  BY <1>1, BodyRead DEF Tells, Listed

\* A file with two delimiters has a frontmatter and a body.
LEMMA FrameIs ==
  ASSUME NEW S, NEW file \in Seq(S), Framed(file)
  PROVE  /\ Frontmatter(file) \in Seq(S) /\ Body(file) \in Seq(S)
         /\ Opening(file) \in 1..Len(file) /\ file[Opening(file)].kind = "---"
         /\ \A i \in 1..Opening(file) - 1 : file[i].kind = "blank"
<1> DEFINE D == Delimiters(file)
           N == Len(file)
<1>1. PICK n \in Nat : n = Len(file) /\ DOMAIN file = 1..n
  OBVIOUS
<1>2. D \subseteq 1..n /\ \A i \in D : file[i].kind = "---"
  BY <1>1 DEF Delimiters
<1>3. IsFiniteSet(D)
  <2>1. IsFiniteSet(1..n)
    BY FS_Interval
  <2> HIDE DEF D
  <2> QED
    BY <1>2, <2>1, FS_Subset
<1>4. Cardinality(D) >= 2
  BY DEF Framed
<1>5. D # {}
  BY <1>4, FS_EmptySet
<1>6. PICK o : o = Opening(file)
  OBVIOUS
<1>7. o \in D /\ \A i \in D : o <= i
  BY <1>2, <1>5, <1>6, MinIs DEF Opening
<1>8. D \ {o} # {}
  <2>1. SUFFICES ASSUME D = {o} PROVE FALSE
    BY <1>7
  <2>2. Cardinality({o}) = 1
    BY FS_Singleton
  <2> QED
    BY <1>4, <2>1, <2>2
<1>9. PICK c : c = Closing(file)
  OBVIOUS
<1>10. c \in D \ {o}
  BY <1>2, <1>6, <1>8, <1>9, MinIs DEF Closing
<1>11. o \in 1..n /\ c \in 1..n /\ o < c
  BY <1>2, <1>7, <1>10
<1>12. Frontmatter(file) \in Seq(S)
  <2>1. o + 1 \in 1..n + 1 /\ c - 1 \in (o + 1) - 1..n
    BY <1>11
  <2> QED
    BY <1>1, <1>6, <1>9, <2>1, SubSeqProperties DEF Frontmatter
<1>13. Body(file) \in Seq(S)
  <2>1. c + 1 \in 1..n + 1 /\ n \in (c + 1) - 1..n
    BY <1>11
  <2> QED
    BY <1>1, <1>9, <2>1, SubSeqProperties DEF Body
<1>14. ASSUME NEW i \in 1..o - 1 PROVE file[i].kind = "blank"
  <2>1. 1 \in 1..n + 1 /\ o - 1 \in 1 - 1..n
    BY <1>11
  <2>2. PICK head : head = SubSeq(file, 1, o - 1)
    OBVIOUS
  <2>3. head \in Seq(S) /\ Len(head) = o - 1 /\ \A k \in 1..o - 1 : head[k] = file[1 + k - 1]
    BY <1>1, <2>1, <2>2, SubSeqProperties
  <2>4. DOMAIN head = 1..o - 1 /\ head[i] = file[i]
    BY <2>3
  <2>5. AllBlank(head)
    BY <1>6, <2>2 DEF Framed, Opening
  <2> QED
    BY <2>4, <2>5 DEF AllBlank
<1> QED
  BY <1>1, <1>2, <1>6, <1>7, <1>11, <1>12, <1>13, <1>14

-----------------------------------------------------------------------------

(* The gates learn what the frontmatter of a verdict file says last, and   *)
(* the script lists the findings that are under their heading and not in a *)
(* fenced excerpt, in order (extract-verdict.sh 88-96, 207-274).           *)
THEOREM ReadAsWritten == VerdictsReadAsWritten
<1> SUFFICES ASSUME NEW file \in Files, Extracted(file) # Rejected
             PROVE  FieldsMean(file, Extracted(file)) /\ BodyMeans(file, Extracted(file))
  BY DEF VerdictsReadAsWritten, ReadingsMean
<1>1. PICK S : file \in Seq(S)
  BY FilesAssumption
<1>2. Accepted(file)
  BY DEF Extracted
<1>3. PICK front, lines : front = Frontmatter(file) /\ lines = Body(file)
  OBVIOUS
<1>4. /\ front \in Seq(S) /\ lines \in Seq(S)
      /\ Opening(file) \in 1..Len(file) /\ file[Opening(file)].kind = "---"
      /\ \A i \in 1..Opening(file) - 1 : file[i].kind = "blank"
  BY <1>1, <1>2, <1>3, FrameIs DEF Accepted
<1>5. PICK read : read = Extracted(file)
  OBVIOUS
<1>6. PICK body : body = ReadBody(lines)
  OBVIOUS
<1>7. /\ read.fields = [key \in Required |-> Value(front, key)]
      /\ read.issues = body.issues /\ read.followups = body.followups
      /\ read.strengths = body.strengths
  BY <1>2, <1>3, <1>5, <1>6 DEF Extracted
<1>8. FieldsMean(file, read)
  <2>1. PICK n \in Nat : n = Len(front) /\ DOMAIN front = 1..n
    BY <1>4
  <2>2. ASSUME NEW key \in Required
        PROVE  LET setting == {i \in DOMAIN front : front[i].kind = "field" /\ front[i].name = key}
               IN setting # {} /\ read.fields[key] = front[Max(setting)].value
    <3>1. Value(front, key) # NoValue
      BY <1>2, <1>3 DEF Accepted, NothingMissing
    <3>2. Value(front, key) = LastValue(front, key, n)
      BY <2>1, ValueIsLast
    <3>3. Settings(front, key, n) =
            {i \in DOMAIN front : front[i].kind = "field" /\ front[i].name = key}
      BY <2>1 DEF Settings
    <3>4. /\ Settings(front, key, n) # {}
          /\ read.fields[key] = front[Max(Settings(front, key, n))].value
      BY <1>7, <3>1, <3>2 DEF LastValue
    <3> QED
      BY <3>3, <3>4, Zenon
  <2> QED
    BY <1>3, <2>2, Zenon DEF FieldsMean
<1>9. BodyMeans(file, read)
  <2>1. PICK n \in Nat : n = Len(lines) /\ DOMAIN lines = 1..n
    BY <1>4
  <2>2. /\ InOrder(lines, Findings(lines, "issues"), body.issues)
        /\ InOrder(lines, Findings(lines, "followups"), body.followups)
        /\ InOrder(lines, Findings(lines, "strengths"), body.strengths)
    BY <1>6, <2>1, BodiesMean
  <2> HIDE DEF InOrder, Findings
  <2> QED
    BY <1>3, <1>7, <2>2 DEF BodyMeans
<1> QED
  BY <1>5, <1>8, <1>9

-----------------------------------------------------------------------------
(* Conflicts in the cumulative document.  A row is united with the others  *)
(* by its place among them: places are distinct, so none is lost.          *)

\* A row is told by its branch and its text; the rows before a row.
Determined(L) == \A a, b \in L : a.branch = b.branch /\ a.text = b.text => a = b

Earlier(line, L) == {other \in L : Before(other, line)}

\* A place is one of as many as there are lines.
LEMMA PlaceRange ==
  ASSUME NEW L, IsFiniteSet(L), L \subseteq Lines, NEW line \in L
  PROVE  /\ Place(line, L) \in 1..Cardinality(L)
         /\ IsFiniteSet(Earlier(line, L)) /\ Cardinality(Earlier(line, L)) \in Nat
         /\ Place(line, L) = Cardinality(Earlier(line, L)) + 1
<1> DEFINE E == Earlier(line, L)
<1>1. E \subseteq L \ {line}
  <2>1. line.branch \in Nat /\ line.text \in Nat
    BY DEF Lines
  <2>2. ~Before(line, line)
    BY <2>1 DEF Before
  <2> QED
    BY <2>2 DEF Earlier
<1>2. IsFiniteSet(L \ {line}) /\ Cardinality(L \ {line}) = Cardinality(L) - 1
  BY FS_RemoveElement
<1>3. IsFiniteSet(E) /\ Cardinality(E) <= Cardinality(L \ {line})
  BY <1>1, <1>2, FS_Subset
<1>4. Cardinality(E) \in Nat /\ Cardinality(L) \in Nat
  BY <1>3, FS_CardinalityType
<1>5. Place(line, L) = Cardinality(E) + 1
  BY DEF Place, Earlier
<1> HIDE DEF E
<1>6. Place(line, L) \in 1..Cardinality(L)
  BY <1>2, <1>3, <1>4, <1>5
<1> QED
  BY <1>3, <1>4, <1>5, <1>6 DEF E

\* What is before has the smaller place.
LEMMA PlaceGrows ==
  ASSUME NEW L, IsFiniteSet(L), L \subseteq Lines, NEW a \in L, NEW b \in L, Before(a, b)
  PROVE  Place(a, L) < Place(b, L)
<1> DEFINE A == Earlier(a, L)
           B == Earlier(b, L)
<1>1. A \cup {a} \subseteq B /\ a \notin A
  <2>1. ASSUME NEW c \in A PROVE c \in B
    <3>1. c \in L /\ Before(c, a)
      BY DEF Earlier
    <3>2. /\ a.branch \in Nat /\ a.text \in Nat /\ b.branch \in Nat /\ b.text \in Nat
          /\ c.branch \in Nat /\ c.text \in Nat
      BY <3>1 DEF Lines
    <3>3. Before(c, b)
      BY <3>1, <3>2 DEF Before
    <3> QED
      BY <3>1, <3>3 DEF Earlier
  <2>2. a.branch \in Nat /\ a.text \in Nat
    BY DEF Lines
  <2>3. ~Before(a, a)
    BY <2>2 DEF Before
  <2>4. a \in B
    BY DEF Earlier
  <2> QED
    BY <2>1, <2>3, <2>4 DEF Earlier
<1>2. IsFiniteSet(A) /\ IsFiniteSet(B)
  BY PlaceRange
<1>3. IsFiniteSet(A \cup {a}) /\ Cardinality(A \cup {a}) = Cardinality(A) + 1
  BY <1>1, <1>2, FS_AddElement
<1>4. Cardinality(A \cup {a}) <= Cardinality(B)
  BY <1>1, <1>2, FS_Subset
<1>5. Cardinality(A) \in Nat /\ Cardinality(B) \in Nat
  BY <1>2, FS_CardinalityType
<1>6. Place(a, L) = Cardinality(A) + 1 /\ Place(b, L) = Cardinality(B) + 1
  BY PlaceRange
<1> HIDE DEF A, B
<1> QED
  BY <1>3, <1>4, <1>5, <1>6

\* No two lines have the same place: a BTreeSet holds a key once.
LEMMA PlaceOnce ==
  ASSUME NEW L, IsFiniteSet(L), L \subseteq Lines, Determined(L), NEW a \in L, NEW b \in L,
         Place(a, L) = Place(b, L)
  PROVE  a = b
<1>1. Place(a, L) \in Nat /\ Place(b, L) \in Nat
  <2>1. Cardinality(L) \in Nat
    BY FS_CardinalityType
  <2> QED
    BY <2>1, PlaceRange
<1>2. ~Before(a, b) /\ ~Before(b, a)
  BY <1>1, PlaceGrows
<1>3. /\ a.branch \in Nat /\ a.text \in Nat /\ b.branch \in Nat /\ b.text \in Nat
  BY DEF Lines
<1>4. a.branch = b.branch /\ a.text = b.text
  BY <1>2, <1>3 DEF Before
<1> QED
  BY <1>4 DEF Determined

\* No place is left empty.
LEMMA PlaceTaken ==
  ASSUME NEW L, IsFiniteSet(L), L \subseteq Lines, Determined(L), NEW k \in 1..Cardinality(L)
  PROVE  \E line \in L : Place(line, L) = k
<1> DEFINE n == Cardinality(L)
           f == [line \in L |-> Place(line, L)]
<1>1. n \in Nat
  BY FS_CardinalityType
<1>2. IsFiniteSet(1..n)
  BY <1>1, FS_Interval
<1>3. Cardinality(1..n) = n
  BY <1>1, FS_Interval
<1>4. f \in [L -> 1..n]
  BY PlaceRange
<1>5. \A a, b \in L : f[a] = f[b] => a = b
  BY PlaceOnce
<1> HIDE DEF f
<1>6. f \in Injection(L, 1..n)
  BY <1>4, <1>5 DEF Injection, IsInjective
<1>7. f \in Surjection(L, 1..n)
  BY <1>2, <1>3, <1>6, FS_Injection
<1>8. \E line \in L : f[line] = k
  BY <1>7 DEF Surjection
<1> QED
  BY <1>8 DEF f

\* A function on the first numbers is a sequence.
LEMMA SequenceOf ==
  ASSUME NEW S, NEW n \in Nat, NEW s, s = [k \in 1..n |-> s[k]],
         \A k \in 1..n : s[k] \in S
  PROVE  s \in Seq(S)
<1>1. s \in [1..n -> S]
  OBVIOUS
<1> QED
  BY <1>1

\* Sorting keeps the lines (union_merge_sorted, cumulative_md.rs 161-187).
LEMMA SortedKeeps ==
  ASSUME NEW L, IsFiniteSet(L), L \subseteq Lines, Determined(L),
         NEW n \in Nat, n = Cardinality(L), NEW s, s = [k \in 1..n |-> s[k]],
         \A k \in 1..n : s[k] = CHOOSE line \in L : Place(line, L) = k
  PROVE  s \in Seq(L) /\ Range(s) = L
<1>1. ASSUME NEW k \in 1..n PROVE s[k] \in L /\ Place(s[k], L) = k
  <2>1. \E line \in L : Place(line, L) = k
    BY PlaceTaken
  <2>2. s[k] = CHOOSE line \in L : Place(line, L) = k
    OBVIOUS
  <2> QED
    BY <2>1, <2>2
<1>2. DOMAIN s = 1..n
  OBVIOUS
<1>3. ASSUME NEW line \in L PROVE \E k \in 1..n : s[k] = line
  <2>1. Place(line, L) \in 1..n
    BY PlaceRange
  <2>2. s[Place(line, L)] \in L /\ Place(s[Place(line, L)], L) = Place(line, L)
    BY <1>1, <2>1
  <2>3. s[Place(line, L)] = line
    BY <2>2, PlaceOnce
  <2> QED
    BY <2>1, <2>3
<1>4. Range(s) = {s[k] : k \in 1..n}
  BY <1>2 DEF Range
<1>5. \A k \in 1..n : s[k] \in L
  BY <1>1
<1>6. s \in Seq(L)
  BY <1>5, SequenceOf
<1>7. Range(s) = L
  <2>1. Range(s) \subseteq L
    BY <1>1, <1>4
  <2>2. L \subseteq Range(s)
    BY <1>3, <1>4
  <2> QED
    BY <2>1, <2>2
<1> QED
  BY <1>6, <1>7

-----------------------------------------------------------------------------
(* Blocks.                                                                 *)

\* A member that is not above any other is the least.
LEMMA MinFirst ==
  ASSUME NEW S, S \subseteq Nat, NEW m \in S, \A y \in S : m <= y
  PROVE  Min(S) = m
<1>1. Min(S) \in S /\ \A y \in S : Min(S) <= y
  BY MinIs
<1>2. PICK x \in Nat : x = Min(S) /\ x \in S /\ \A y \in S : x <= y
  BY <1>1
<1>3. x <= m /\ m <= x /\ m \in Nat
  BY <1>2
<1> QED
  BY <1>2, <1>3

\* The block that line i opens, parted and closed at two further lines.
BlockAt(doc, i, sep, close) ==
  /\ {i, sep, close} \subseteq 1..Len(doc) /\ i < sep /\ sep < close
  /\ doc[i].kind = "opens" /\ doc[sep].kind = "parts" /\ doc[close].kind = "closes"
  /\ \A j \in i + 1..close - 1 : doc[j].kind \notin {"opens", "closes"}
  /\ \A j \in i + 1..sep - 1 : doc[j].kind # "parts"

\* A well-formed opening marker has a separator and an end
\* (find_conflict_blocks, cumulative_md.rs 190ff).
LEMMA BlockFound ==
  ASSUME NEW doc \in Seq(Lines), NEW i \in Opens(doc), Matched(doc, i)
  PROVE  \E sep, close \in Nat : BlockAt(doc, i, sep, close)
<1> DEFINE P == NextOf("parts", doc, i)
           C == NextOf("closes", doc, i)
<1>1. PICK n \in Nat : n = Len(doc) /\ DOMAIN doc = 1..n
  BY Lengths
<1>2. i \in 1..n /\ doc[i].kind = "opens"
  BY <1>1 DEF Opens, IsA
<1>3. /\ P \subseteq i + 1..n /\ \A j \in i + 1..n : j \in P <=> doc[j].kind = "parts"
      /\ C \subseteq i + 1..n /\ \A j \in i + 1..n : j \in C <=> doc[j].kind = "closes"
  BY <1>1 DEF NextOf, IsA
<1>4. PICK close : close = Min(C)
  OBVIOUS
<1>5. PICK sep : sep = Min(P)
  OBVIOUS
<1>6. C # {} /\ P # {} /\ \E j \in P : j < close
  BY <1>4 DEF Matched
<1>7. \A j \in Opens(doc) : ~(i < j /\ j < close)
  BY <1>4 DEF Matched
<1> HIDE DEF P, C
<1>8. P \subseteq Nat /\ C \subseteq Nat
  BY <1>2, <1>3
<1>9. close \in C /\ \A j \in C : close <= j
  BY <1>4, <1>6, <1>8, MinIs
<1>10. sep \in P /\ \A j \in P : sep <= j
  BY <1>5, <1>6, <1>8, MinIs
<1>11. close \in i + 1..n /\ sep \in i + 1..n
  BY <1>3, <1>9, <1>10
<1>12. sep < close
  BY <1>3, <1>6, <1>10, <1>11
<1>13. ASSUME NEW j \in i + 1..close - 1 PROVE doc[j].kind \notin {"opens", "closes"}
  <2>1. j \in i + 1..n /\ i < j /\ j < close /\ ~(close <= j)
    BY <1>2, <1>11
  <2>2. doc[j].kind # "closes"
    BY <1>3, <1>9, <2>1
  <2>3. j \in 1..n
    BY <1>2, <2>1
  <2>4. doc[j].kind # "opens"
    BY <1>1, <1>7, <2>1, <2>3 DEF Opens, IsA
  <2> QED
    BY <2>2, <2>4
<1>14. ASSUME NEW j \in i + 1..sep - 1 PROVE doc[j].kind # "parts"
  <2>1. j \in i + 1..n /\ ~(sep <= j)
    BY <1>2, <1>11
  <2> QED
    BY <1>3, <1>10, <2>1
<1>15. doc[sep].kind = "parts" /\ doc[close].kind = "closes"
  BY <1>3, <1>9, <1>10, <1>11
<1>16. {i, sep, close} \subseteq 1..Len(doc) /\ i < sep
  BY <1>1, <1>2, <1>11
<1>17. BlockAt(doc, i, sep, close)
  BY <1>2, <1>12, <1>13, <1>14, <1>15, <1>16 DEF BlockAt
<1> QED
  BY <1>2, <1>11, <1>17

\* ... and the block that is found is that one.
LEMMA BlockIs ==
  ASSUME NEW doc, NEW n \in Nat, Len(doc) = n, DOMAIN doc = 1..n, NEW i, NEW sep, NEW close,
         BlockAt(doc, i, sep, close)
  PROVE  /\ Matched(doc, i)
         /\ Block(doc, i) = [start |-> i, end |-> close, ours |-> SubSeq(doc, i + 1, sep - 1),
                             theirs |-> SubSeq(doc, sep + 1, close - 1)]
<1> DEFINE P == NextOf("parts", doc, i)
           C == NextOf("closes", doc, i)
<1>1. i \in 1..n /\ sep \in 1..n /\ close \in 1..n /\ i < sep /\ sep < close
  BY DEF BlockAt
<1>2. doc[sep].kind = "parts" /\ doc[close].kind = "closes"
  BY DEF BlockAt
<1>3. /\ P \subseteq i + 1..n /\ \A j \in i + 1..n : j \in P <=> doc[j].kind = "parts"
      /\ C \subseteq i + 1..n /\ \A j \in i + 1..n : j \in C <=> doc[j].kind = "closes"
  BY DEF NextOf, IsA
<1>4. \A j \in i + 1..close - 1 : doc[j].kind # "opens" /\ doc[j].kind # "closes"
  BY DEF BlockAt
<1>5. \A j \in i + 1..sep - 1 : doc[j].kind # "parts"
  BY DEF BlockAt
<1> HIDE DEF P, C
<1>6. P \subseteq Nat /\ C \subseteq Nat
  BY <1>1, <1>3
<1>7. sep \in i + 1..n /\ close \in i + 1..n
  BY <1>1
<1>8. sep \in P /\ close \in C
  BY <1>2, <1>3, <1>7
<1>9. ASSUME NEW j \in P PROVE sep <= j
  <2>1. j \in i + 1..n /\ doc[j].kind = "parts"
    BY <1>3
  <2> QED
    BY <1>1, <1>5, <2>1
<1>10. ASSUME NEW j \in C PROVE close <= j
  <2>1. j \in i + 1..n /\ doc[j].kind = "closes"
    BY <1>3
  <2> QED
    BY <1>1, <1>4, <2>1
<1>11. Min(P) = sep
  BY <1>6, <1>8, <1>9, MinFirst
<1>12. Min(C) = close
  BY <1>6, <1>8, <1>10, MinFirst
<1>13. ASSUME NEW j \in Opens(doc), i < j, j < close PROVE FALSE
  <2>1. j \in 1..n /\ doc[j].kind = "opens"
    BY DEF Opens, IsA
  <2> QED
    BY <1>1, <1>4, <1>13, <2>1
<1>14. Matched(doc, i)
  BY <1>1, <1>8, <1>12, <1>13 DEF Matched, P, C
<1>15. Block(doc, i) = [start |-> i, end |-> close, ours |-> SubSeq(doc, i + 1, sep - 1),
                             theirs |-> SubSeq(doc, sep + 1, close - 1)]
  BY <1>11, <1>12 DEF Block, P, C
<1> QED
  BY <1>14, <1>15

\* sepOf and endOf tell where the block of every opening marker is parted and closed.
Parted(doc, sepOf, endOf) ==
  /\ doc \in Seq(Lines)
  /\ \A i \in Opens(doc) : BlockAt(doc, i, sepOf[i], endOf[i])

\* Every opening marker of a well-formed document.
LEMMA PartedExists ==
  ASSUME NEW doc \in Seq(Lines), ~MalformedMarkers(doc)
  PROVE  \E sepOf, endOf : Parted(doc, sepOf, endOf)
<1> DEFINE endOf == [i \in Opens(doc) |->
                       CHOOSE close \in Nat : \E sep \in Nat : BlockAt(doc, i, sep, close)]
           sepOf == [i \in Opens(doc) |-> CHOOSE sep \in Nat : BlockAt(doc, i, sep, endOf[i])]
<1>1. ASSUME NEW i \in Opens(doc) PROVE BlockAt(doc, i, sepOf[i], endOf[i])
  <2>1. \E sep, close \in Nat : BlockAt(doc, i, sep, close)
    BY BlockFound DEF MalformedMarkers
  <2>2. \E close \in Nat : \E sep \in Nat : BlockAt(doc, i, sep, close)
    BY <2>1
  <2>3. endOf[i] = CHOOSE close \in Nat : \E sep \in Nat : BlockAt(doc, i, sep, close)
    OBVIOUS
  <2>4. sepOf[i] = CHOOSE sep \in Nat : BlockAt(doc, i, sep, endOf[i])
    OBVIOUS
  <2> HIDE DEF endOf, sepOf
  <2>5. \E sep \in Nat : BlockAt(doc, i, sep, endOf[i])
    BY <2>2, <2>3
  <2> QED
    BY <2>4, <2>5
<1> HIDE DEF endOf, sepOf
<1>2. Parted(doc, sepOf, endOf)
  BY <1>1 DEF Parted
<1> QED
  BY <1>2

\* Where a block lies.
LEMMA OpenIs ==
  ASSUME NEW doc, NEW sepOf, NEW endOf, Parted(doc, sepOf, endOf), NEW i \in Opens(doc)
  PROVE  /\ i \in 1..Len(doc) /\ sepOf[i] \in 1..Len(doc) /\ endOf[i] \in 1..Len(doc)
         /\ i < sepOf[i] /\ sepOf[i] < endOf[i] /\ Len(doc) \in Nat
         /\ BlockAt(doc, i, sepOf[i], endOf[i])
         /\ Block(doc, i) = [start |-> i, end |-> endOf[i],
                             ours |-> SubSeq(doc, i + 1, sepOf[i] - 1),
                             theirs |-> SubSeq(doc, sepOf[i] + 1, endOf[i] - 1)]
<1>1. BlockAt(doc, i, sepOf[i], endOf[i]) /\ doc \in Seq(Lines)
  BY DEF Parted
<1>2. PICK n \in Nat : n = Len(doc) /\ DOMAIN doc = 1..n
  BY <1>1, Lengths
<1>3. PICK sep, close : sep = sepOf[i] /\ close = endOf[i]
  OBVIOUS
<1>4. BlockAt(doc, i, sep, close)
  BY <1>1, <1>3
<1>5. Block(doc, i) = [start |-> i, end |-> close, ours |-> SubSeq(doc, i + 1, sep - 1),
                       theirs |-> SubSeq(doc, sep + 1, close - 1)]
  BY <1>2, <1>4, BlockIs
<1>6. /\ i \in 1..Len(doc) /\ sep \in 1..Len(doc) /\ close \in 1..Len(doc)
      /\ i < sep /\ sep < close /\ Len(doc) \in Nat
  BY <1>2, <1>4 DEF BlockAt
<1> QED
  BY <1>3, <1>4, <1>5, <1>6

\* What a block holds.
LEMMA SidesAre ==
  ASSUME NEW doc, NEW sepOf, NEW endOf, Parted(doc, sepOf, endOf), NEW i \in Opens(doc),
         NEW sep, NEW close, sep = sepOf[i], close = endOf[i]
  PROVE  /\ Block(doc, i).start = i /\ Block(doc, i).end = close
         /\ Block(doc, i).ours \in Seq(Lines) /\ Len(Block(doc, i).ours) = sep - i - 1
         /\ \A k \in 1..sep - i - 1 : Block(doc, i).ours[k] = doc[i + k]
         /\ Block(doc, i).theirs \in Seq(Lines) /\ Len(Block(doc, i).theirs) = close - sep - 1
         /\ \A k \in 1..close - sep - 1 : Block(doc, i).theirs[k] = doc[sep + k]
<1>1. PICK n \in Nat : n = Len(doc) /\ \A k \in 1..n : doc[k] \in Lines
  BY Lengths DEF Parted
<1>2. i \in 1..n /\ sep \in 1..n /\ close \in 1..n /\ i < sep /\ sep < close
  BY <1>1, OpenIs
<1>3. Block(doc, i) = [start |-> i, end |-> close, ours |-> SubSeq(doc, i + 1, sep - 1),
                       theirs |-> SubSeq(doc, sep + 1, close - 1)]
  BY OpenIs
<1>4. PICK a, b \in Int : a = i + 1 /\ b = sep - 1
  BY <1>2
<1>5. PICK ours : ours = SubSeq(doc, a, b)
  OBVIOUS
<1>6. \A k \in a..b : doc[k] \in Lines
  BY <1>1, <1>2, <1>4
<1>7. ours \in Seq(Lines)
  BY <1>4, <1>5, <1>6, SubSeqProperties
<1>8. Len(ours) = IF a <= b THEN b - a + 1 ELSE 0
  BY <1>4, <1>5, <1>6, SubSeqProperties
<1>9. \A k \in 1..b - a + 1 : ours[k] = doc[a + k - 1]
  BY <1>4, <1>5, <1>6, SubSeqProperties
<1>10. PICK c, d \in Int : c = sep + 1 /\ d = close - 1
  BY <1>2
<1>11. PICK theirs : theirs = SubSeq(doc, c, d)
  OBVIOUS
<1>12. \A k \in c..d : doc[k] \in Lines
  BY <1>1, <1>2, <1>10
<1>13. theirs \in Seq(Lines)
  BY <1>10, <1>11, <1>12, SubSeqProperties
<1>14. Len(theirs) = IF c <= d THEN d - c + 1 ELSE 0
  BY <1>10, <1>11, <1>12, SubSeqProperties
<1>15. \A k \in 1..d - c + 1 : theirs[k] = doc[c + k - 1]
  BY <1>10, <1>11, <1>12, SubSeqProperties
<1>16. Len(ours) = sep - i - 1 /\ Len(theirs) = close - sep - 1
  <2>1. (IF a <= b THEN b - a + 1 ELSE 0) = sep - i - 1
    BY <1>2, <1>4
  <2>2. (IF c <= d THEN d - c + 1 ELSE 0) = close - sep - 1
    BY <1>2, <1>10
  <2> QED
    BY <1>8, <1>14, <2>1, <2>2
<1>17. \A k \in 1..sep - i - 1 : ours[k] = doc[i + k]
  <2>1. b - a + 1 = sep - i - 1 /\ \A k \in 1..sep - i - 1 : a + k - 1 = i + k
    BY <1>2, <1>4
  <2> QED
    BY <1>9, <2>1
<1>18. \A k \in 1..close - sep - 1 : theirs[k] = doc[sep + k]
  <2>1. d - c + 1 = close - sep - 1 /\ \A k \in 1..close - sep - 1 : c + k - 1 = sep + k
    BY <1>2, <1>10
  <2> QED
    BY <1>15, <2>1
<1>19. /\ Block(doc, i).start = i /\ Block(doc, i).end = close
       /\ Block(doc, i).ours = ours /\ Block(doc, i).theirs = theirs
  <2>1. Block(doc, i) = [start |-> i, end |-> close, ours |-> ours, theirs |-> theirs]
    BY <1>3, <1>4, <1>5, <1>10, <1>11, Zenon
  <2> QED
    BY <2>1
<1> QED
  BY <1>7, <1>13, <1>16, <1>17, <1>18, <1>19

\* Blocks do not overlap: no line is in two of them.
LEMMA Apart ==
  ASSUME NEW doc, NEW sepOf, NEW endOf, Parted(doc, sepOf, endOf),
         NEW i \in Opens(doc), NEW k \in Nat, i < k, k <= endOf[i]
  PROVE  k \notin Opens(doc) /\ \A j \in Opens(doc) : j < k /\ k <= endOf[j] => j = i
<1>1. ASSUME NEW a \in Opens(doc), NEW b \in Opens(doc), a < b, b <= endOf[a] PROVE FALSE
  <2>1. PICK close \in Nat : close = endOf[a]
    BY OpenIs
  <2>2. a \in Nat /\ b \in Nat /\ BlockAt(doc, a, sepOf[a], close)
    <3>1. Len(doc) \in Nat /\ a \in 1..Len(doc) /\ b \in 1..Len(doc)
      BY OpenIs, Zenon
    <3>2. BlockAt(doc, a, sepOf[a], endOf[a])
      BY DEF Parted
    <3>3. BlockAt(doc, a, sepOf[a], close)
      BY <2>1, <3>2, Zenon
    <3> QED
      BY <3>1, <3>3, SMT
  <2>3. doc[b].kind = "opens"
    BY DEF Opens, IsA
  <2>4. b = close \/ b \in a + 1..close - 1
    BY <1>1, <2>1, <2>2
  <2> QED
    BY <2>2, <2>3, <2>4 DEF BlockAt
<1>2. k \notin Opens(doc)
  BY <1>1
<1>3. ASSUME NEW j \in Opens(doc), j < k, k <= endOf[j], j # i PROVE FALSE
  <2>1. i \in Nat /\ j \in Nat /\ endOf[i] \in Nat /\ endOf[j] \in Nat
    BY OpenIs
  <2>2. (i < j /\ j <= endOf[i]) \/ (j < i /\ i <= endOf[j])
    BY <1>3, <2>1
  <2> QED
    BY <1>1, <2>2
<1> QED
  BY <1>2, <1>3

\* What becomes of an opening marker, of the rest of a block and of other lines
\* (the loop of resolve_cumulative_md_conflict, cumulative_md.rs 90-112).
LEMMA ResolvedIs ==
  ASSUME NEW doc, NEW sepOf, NEW endOf, Parted(doc, sepOf, endOf), NEW k \in Nat
  PROVE  /\ k \in Opens(doc) => Resolved(doc, k) = UnionMergeSorted(Block(doc, k))
         /\ (\E i \in Opens(doc) : i < k /\ k <= endOf[i]) => Resolved(doc, k) = <<>>
         /\ k \notin Opens(doc) /\ (\A i \in Opens(doc) : ~(i < k /\ k <= endOf[i]))
              => Resolved(doc, k) = <<doc[k]>>
<1>1. \A i \in Opens(doc) : Block(doc, i).start = i /\ Block(doc, i).end = endOf[i]
  BY SidesAre
<1>2. (\E b \in Blocks(doc) : b.start = k) <=> k \in Opens(doc)
  BY <1>1 DEF Blocks
<1>3. (\E b \in Blocks(doc) : b.start < k /\ k <= b.end)
        <=> \E i \in Opens(doc) : i < k /\ k <= endOf[i]
  BY <1>1 DEF Blocks
<1>4. (\E i \in Opens(doc) : i < k /\ k <= endOf[i]) => k \notin Opens(doc)
  BY Apart
<1> QED
  BY <1>2, <1>3, <1>4 DEF Resolved

-----------------------------------------------------------------------------
(* The same conflict from the other branch.                                *)

\* w is a, a line, b and another line.
Joined(w, a, x, b, y, m, n) ==
  /\ a \in Seq(Lines) /\ b \in Seq(Lines) /\ x \in Lines /\ y \in Lines
  /\ m \in Nat /\ n \in Nat /\ m = Len(a) /\ n = Len(b)
  /\ w = a \o <<x>> \o b \o <<y>>

\* Where the lines of a joined block are.
LEMMA FourParts ==
  ASSUME NEW w, NEW a, NEW x, NEW b, NEW y, NEW m, NEW n, Joined(w, a, x, b, y, m, n)
  PROVE  /\ \A k \in 1..m : w[k] = a[k]
         /\ w[m + 1] = x
         /\ \A k \in 1..n : w[m + 1 + k] = b[k]
         /\ w[m + n + 2] = y
<1> DEFINE S == Lines
<1>0. /\ a \in Seq(S) /\ b \in Seq(S) /\ x \in S /\ y \in S
      /\ m \in Nat /\ n \in Nat /\ m = Len(a) /\ n = Len(b)
  BY DEF Joined
<1>01. w = a \o <<x>> \o b \o <<y>>
  BY DEF Joined
<1> HIDE DEF S
<1>1. PICK u : u = a \o <<x>>
  OBVIOUS
<1>2. u \in Seq(S) /\ Len(u) = m + 1 /\ u[m + 1] = x /\ \A k \in 1..m : u[k] = a[k]
  BY <1>0, <1>1
<1>3. PICK v : v = u \o b
  OBVIOUS
<1>4. v \in Seq(S) /\ Len(v) = m + 1 + n
  <2>1. v \in Seq(S) /\ Len(v) = Len(u) + Len(b)
    BY <1>0, <1>2, <1>3, ConcatProperties
  <2> QED
    BY <1>0, <1>2, <2>1
<1>5. /\ \A k \in 1..m + 1 : v[k] = u[k]
      /\ \A k \in 1..n : v[m + 1 + k] = b[k]
  BY <1>0, <1>2, <1>3
<1>6. w = v \o <<y>>
  BY <1>01, <1>1, <1>3
<1>7. w[m + 1 + n + 1] = y /\ \A k \in 1..m + 1 + n : w[k] = v[k]
  BY <1>0, <1>4, <1>6
<1>8. \A k \in 1..m : w[k] = a[k]
  <2>1. \A k \in 1..m : k \in 1..m + 1 /\ k \in 1..m + 1 + n
    BY <1>0
  <2> QED
    BY <1>2, <1>5, <1>7, <2>1
<1>9. w[m + 1] = x
  <2>1. m + 1 \in 1..m + 1 /\ m + 1 \in 1..m + 1 + n
    BY <1>0
  <2> QED
    BY <1>2, <1>5, <1>7, <2>1
<1>10. \A k \in 1..n : w[m + 1 + k] = b[k]
  <2>1. \A k \in 1..n : m + 1 + k \in 1..m + 1 + n
    BY <1>0
  <2> QED
    BY <1>5, <1>7, <2>1
<1>11. w[m + n + 2] = y
  <2>1. m + n + 2 = m + 1 + n + 1
    BY <1>0
  <2> QED
    BY <1>7, <2>1
<1> QED
  BY <1>8, <1>9, <1>10, <1>11

\* The markers between and after the sides.
PartsLine == Line("parts", 0, 0)
ClosesLine == Line("closes", 0, 0)

\* The two markers a swapped block gets.
LEMMA MarkersAreLines ==
  /\ PartsLine \in Lines /\ ClosesLine \in Lines
  /\ PartsLine.kind = "parts" /\ ClosesLine.kind = "closes"
BY DEF PartsLine, ClosesLine, Line, Lines, Kinds

\* The other branch sees the same lines outside the conflicts.
LEMMA SwappedOutside ==
  ASSUME NEW doc, NEW sepOf, NEW endOf, Parted(doc, sepOf, endOf), NEW k \in 1..Len(doc),
         \A i \in Opens(doc) : ~(i < k /\ k <= endOf[i])
  PROVE  Swapped(doc)[k] = doc[k]
<1>1. \A i \in Opens(doc) : Block(doc, i).start = i /\ Block(doc, i).end = endOf[i]
  BY SidesAre
<1>2. {b \in Blocks(doc) : b.start < k /\ k <= b.end} = {}
  BY <1>1 DEF Blocks
<1>3. k \in DOMAIN doc
  BY DEF Parted
<1> QED
  BY <1>2, <1>3 DEF Swapped

\* ... and in them the two sides exchanged.
LEMMA SwappedInside ==
  ASSUME NEW doc, NEW sepOf, NEW endOf, Parted(doc, sepOf, endOf), NEW i \in Opens(doc),
         NEW sep, NEW close, sep = sepOf[i], close = endOf[i], NEW k \in i + 1..close
  PROVE  /\ k < i + close - sep => Swapped(doc)[k] = doc[k + sep - i]
         /\ k = i + close - sep => Swapped(doc)[k] = PartsLine
         /\ k > i + close - sep /\ k < close => Swapped(doc)[k] = doc[k + sep - close]
         /\ k = close => Swapped(doc)[k] = ClosesLine
<1> DEFINE B == Block(doc, i)
           other(b) == b.theirs \o <<PartsLine>> \o b.ours \o <<ClosesLine>>
<1>1. PICK n \in Nat : n = Len(doc) /\ DOMAIN doc = 1..n
  BY Lengths DEF Parted
<1>2. i \in 1..n /\ sep \in 1..n /\ close \in 1..n /\ i < sep /\ sep < close
  BY <1>1, OpenIs
<1>3. \A j \in Opens(doc) : Block(doc, j).start = j /\ Block(doc, j).end = endOf[j]
  BY SidesAre
<1>4. k \in Nat /\ i < k /\ k <= endOf[i] /\ k \in DOMAIN doc
  BY <1>1, <1>2
<1>5. \A j \in Opens(doc) : j < k /\ k <= endOf[j] => j = i
  BY <1>4, Apart
<1>6. {b \in Blocks(doc) : b.start < k /\ k <= b.end} = {B}
  BY <1>3, <1>4, <1>5 DEF Blocks
<1>7. Swapped(doc)[k] = other(B)[k - i]
  <2>1. (CHOOSE b \in {B} : TRUE) = B
    OBVIOUS
  <2>2. B.start = i
    BY <1>3
  <2> HIDE DEF B
  <2> QED
    BY <1>4, <1>6, <2>1, <2>2 DEF Swapped, PartsLine, ClosesLine
<1>8. PICK t : t = B.theirs /\ t \in Seq(Lines) /\ Len(t) = close - sep - 1
               /\ \A j \in 1..close - sep - 1 : t[j] = doc[sep + j]
  BY SidesAre
<1>9. PICK o : o = B.ours /\ o \in Seq(Lines) /\ Len(o) = sep - i - 1
               /\ \A j \in 1..sep - i - 1 : o[j] = doc[i + j]
  BY SidesAre
<1>10. PICK w : w = other(B)
  OBVIOUS
<1>11. w = t \o <<PartsLine>> \o o \o <<ClosesLine>>
  BY <1>8, <1>9, <1>10
<1>12. PICK m \in Nat : m = close - sep - 1 /\ m = Len(t)
  BY <1>2, <1>8
<1>13. PICK l \in Nat : l = sep - i - 1 /\ l = Len(o)
  BY <1>2, <1>9
<1>14. PartsLine \in Lines /\ ClosesLine \in Lines
  BY MarkersAreLines
<1>15. /\ \A j \in 1..m : w[j] = t[j]
       /\ w[m + 1] = PartsLine
       /\ \A j \in 1..l : w[m + 1 + j] = o[j]
       /\ w[m + l + 2] = ClosesLine
  <2>1. t \in Seq(Lines) /\ o \in Seq(Lines)
    BY <1>8, <1>9
  <2>2. m \in Nat /\ l \in Nat /\ m = Len(t) /\ l = Len(o)
    BY <1>12, <1>13
  <2> HIDE DEF B, other
  <2> QED
    <3>1. Joined(w, t, PartsLine, o, ClosesLine, m, l)
      BY <1>11, <1>14, <2>1, <2>2 DEF Joined
    <3> QED
      BY <3>1, FourParts
<1>16. /\ i \in Nat /\ k \in Nat /\ sep = i + l + 1 /\ close = i + m + l + 2
       /\ i < k /\ k <= close
  <2>1. m \in Nat /\ l \in Nat
    BY <1>12, <1>13
  <2>2. m = close - sep - 1 /\ l = sep - i - 1
    BY <1>12, <1>13
  <2> QED
    BY <1>2, <1>4, <2>1, <2>2
<1>18. Swapped(doc)[k] = w[k - i]
  BY <1>7, <1>10
<1> HIDE DEF B, other
<1>19. ASSUME k < i + close - sep PROVE Swapped(doc)[k] = doc[k + sep - i]
  <2>1. k - i \in 1..m /\ sep + (k - i) = k + sep - i
    BY <1>16, <1>19
  <2>2. t[k - i] = doc[sep + (k - i)]
    BY <1>8, <1>12, <2>1
  <2> QED
    BY <1>15, <1>18, <2>1, <2>2
<1>20. ASSUME k = i + close - sep PROVE Swapped(doc)[k] = PartsLine
  <2>1. k - i = m + 1
    BY <1>16, <1>20
  <2> QED
    BY <1>15, <1>18, <2>1
<1>21. ASSUME k > i + close - sep, k < close PROVE Swapped(doc)[k] = doc[k + sep - close]
  <2>1. PICK j \in 1..l : k - i = m + 1 + j /\ i + j = k + sep - close
    <3>1. k - i - m - 1 \in 1..l
      BY <1>16, <1>21
    <3>2. k - i = m + 1 + (k - i - m - 1) /\ i + (k - i - m - 1) = k + sep - close
      BY <1>16
    <3> QED
      BY <3>1, <3>2
  <2>2. o[j] = doc[i + j]
    BY <1>9, <1>13, <2>1
  <2> QED
    BY <1>15, <1>18, <2>1, <2>2
<1>22. ASSUME k = close PROVE Swapped(doc)[k] = ClosesLine
  <2>1. k - i = m + l + 2
    BY <1>16, <1>22
  <2> QED
    BY <1>15, <1>18, <2>1
<1> QED
  BY <1>19, <1>20, <1>21, <1>22

\* What a conflict that is not refused has between its markers.
PlainContent(doc, sepOf, endOf) ==
  \A i \in Opens(doc) : \A k \in i + 1..endOf[i] - 1 :
    k # sepOf[i] => doc[k].kind \in {"row", "comment", "blank"}

\* Where the other branch's conflict has its separator.
SepOfOther(doc, sepOf, endOf) == [i \in Opens(doc) |-> i + endOf[i] - sepOf[i]]

\* The swapped document opens its conflicts where the document does.
LEMMA SwappedIsLines ==
  ASSUME NEW doc, NEW sepOf, NEW endOf, Parted(doc, sepOf, endOf),
         PlainContent(doc, sepOf, endOf)
  PROVE  /\ Swapped(doc) \in Seq(Lines) /\ Len(Swapped(doc)) = Len(doc)
         /\ Opens(Swapped(doc)) = Opens(doc)
<1> DEFINE other == Swapped(doc)
<1>1. PICK n \in Nat : n = Len(doc) /\ DOMAIN doc = 1..n /\ \A k \in 1..n : doc[k] \in Lines
  BY Lengths DEF Parted
<1>2. DOMAIN other = 1..n /\ other = [k \in 1..n |-> other[k]]
  <2> DEFINE around(k) == {b \in Blocks(doc) : b.start < k /\ k <= b.end}
             sides(b) == b.theirs \o <<PartsLine>> \o b.ours \o <<ClosesLine>>
             line(k) == IF around(k) = {} THEN doc[k]
                        ELSE LET b == CHOOSE b \in around(k) : TRUE IN sides(b)[k - b.start]
  <2>2. other = [k \in DOMAIN doc |-> line(k)]
    BY Zenon DEF Swapped, PartsLine, ClosesLine
  <2> HIDE DEF line
  <2>1. DOMAIN other = DOMAIN doc /\ other = [k \in DOMAIN doc |-> other[k]]
    BY <2>2
  <2> HIDE DEF other
  <2> QED
    BY <1>1, <2>1
<1>3. ASSUME NEW k \in 1..n
      PROVE  /\ other[k] \in Lines
             /\ k \in Opens(doc) => other[k].kind = "opens"
             /\ k \notin Opens(doc) => other[k].kind # "opens"
  <2>1. CASE \A i \in Opens(doc) : ~(i < k /\ k <= endOf[i])
    <3>1. other[k] = doc[k] /\ doc[k] \in Lines
      BY <1>1, <2>1, SwappedOutside
    <3>2. k \in Opens(doc) <=> doc[k].kind = "opens"
      BY <1>1 DEF Opens, IsA
    <3> HIDE DEF other
    <3> QED
      BY <3>1, <3>2
  <2>2. CASE \E i \in Opens(doc) : i < k /\ k <= endOf[i]
    <3>1. PICK i \in Opens(doc) : i < k /\ k <= endOf[i]
      BY <2>2
    <3>2. PICK sep, close : sep = sepOf[i] /\ close = endOf[i]
      OBVIOUS
    <3>3. /\ i \in 1..n /\ sep \in 1..n /\ close \in 1..n /\ i < sep /\ sep < close
          /\ k \in i + 1..close
      <4>1. i \in 1..n /\ sep \in 1..n /\ close \in 1..n /\ i < sep /\ sep < close
        BY <1>1, <3>2, OpenIs
      <4> QED
        BY <3>1, <3>2, <4>1
    <3>4. k \notin Opens(doc)
      <4>1. k \in Nat
        BY <1>3
      <4> QED
        BY <3>1, <4>1, Apart
    <3>5. /\ k < i + close - sep => other[k] = doc[k + sep - i]
          /\ k = i + close - sep => other[k] = PartsLine
          /\ k > i + close - sep /\ k < close => other[k] = doc[k + sep - close]
          /\ k = close => other[k] = ClosesLine
      BY <3>2, <3>3, SwappedInside
    <3>6. \A j \in i + 1..close - 1 : j # sep => doc[j].kind \in {"row", "comment", "blank"}
      BY <3>2 DEF PlainContent
    <3> HIDE DEF other
    <3>7. CASE k < i + close - sep
      <4>1. k + sep - i \in i + 1..close - 1 /\ k + sep - i # sep /\ k + sep - i \in 1..n
        BY <3>3, <3>7
      <4>2. doc[k + sep - i] \in Lines /\ doc[k + sep - i].kind # "opens"
        BY <1>1, <3>6, <4>1
      <4> QED
        BY <3>4, <3>5, <3>7, <4>2
    <3>8. CASE k > i + close - sep /\ k < close
      <4>1. k + sep - close \in i + 1..close - 1 /\ k + sep - close # sep /\ k + sep - close \in 1..n
        BY <3>3, <3>8
      <4>2. doc[k + sep - close] \in Lines /\ doc[k + sep - close].kind # "opens"
        BY <1>1, <3>6, <4>1
      <4> QED
        BY <3>4, <3>5, <3>8, <4>2
    <3>9. CASE k = i + close - sep \/ k = close
      BY <3>4, <3>5, <3>9, MarkersAreLines
    <3> QED
      BY <3>3, <3>7, <3>8, <3>9
  <2> QED
    BY <2>1, <2>2
<1> HIDE DEF other
<1>4. other \in [1..n -> Lines]
  BY <1>2, <1>3
<1>5. other \in Seq(Lines) /\ Len(other) = n
  BY <1>4
<1>6. Opens(other) = Opens(doc)
  <2>1. ASSUME NEW k PROVE k \in Opens(other) <=> k \in Opens(doc)
    BY <1>1, <1>2, <1>3 DEF Opens, IsA
  <2> QED
    BY <2>1
<1> QED
  BY <1>1, <1>5, <1>6 DEF other

\* ... and they are well formed.
LEMMA SwappedParted ==
  ASSUME NEW doc, NEW sepOf, NEW endOf, Parted(doc, sepOf, endOf),
         PlainContent(doc, sepOf, endOf)
  PROVE  Parted(Swapped(doc), SepOfOther(doc, sepOf, endOf), endOf)
<1> DEFINE sep2 == SepOfOther(doc, sepOf, endOf)
<1>1. PICK other : other = Swapped(doc)
  OBVIOUS
<1>2. PICK n \in Nat : n = Len(doc) /\ DOMAIN doc = 1..n
  BY Lengths DEF Parted
<1>3. other \in Seq(Lines) /\ Len(other) = n /\ Opens(other) = Opens(doc)
  BY <1>1, <1>2, SwappedIsLines
<1>4. ASSUME NEW i \in Opens(doc) PROVE BlockAt(other, i, sep2[i], endOf[i])
  <2>1. PICK sep, close : sep = sepOf[i] /\ close = endOf[i]
    OBVIOUS
  <2>2. i \in 1..n /\ sep \in 1..n /\ close \in 1..n /\ i < sep /\ sep < close
    BY <1>2, <2>1, OpenIs
  <2>3. PICK mid \in 1..n : mid = sep2[i] /\ mid = i + close - sep
    <3>1. i + close - sep \in 1..n
      BY <2>2
    <3>2. sep2[i] = i + close - sep
      BY <2>1 DEF SepOfOther
    <3> QED
      BY <3>1, <3>2
  <2>4. ASSUME NEW k \in i + 1..close
        PROVE  /\ k < mid => other[k] = doc[k + sep - i]
               /\ k = mid => other[k] = PartsLine
               /\ k > mid /\ k < close => other[k] = doc[k + sep - close]
               /\ k = close => other[k] = ClosesLine
    BY <1>1, <2>1, <2>3, SwappedInside
  <2>5. \A j \in i + 1..close - 1 : j # sep => doc[j].kind \in {"row", "comment", "blank"}
    BY <2>1 DEF PlainContent
  <2>6. ASSUME NEW k \in i + 1..close - 1
        PROVE  other[k].kind \notin {"opens", "closes"} /\ (k < mid => other[k].kind # "parts")
    <3>1. k \in i + 1..close /\ k < close
      BY <2>2
    <3>2. CASE k < mid
      <4>1. k + sep - i \in i + 1..close - 1 /\ k + sep - i # sep
        BY <2>2, <2>3, <3>2
      <4>2. doc[k + sep - i].kind \in {"row", "comment", "blank"}
        BY <2>5, <4>1
      <4> QED
        BY <2>4, <3>1, <3>2, <4>2
    <3>3. CASE k > mid
      <4>1. k + sep - close \in i + 1..close - 1 /\ k + sep - close # sep
        BY <2>2, <2>3, <3>3
      <4>2. doc[k + sep - close].kind \in {"row", "comment", "blank"}
        BY <2>5, <4>1
      <4>3. ~(k < mid)
        BY <2>3, <3>3
      <4> QED
        BY <2>4, <3>1, <3>3, <4>2, <4>3
    <3>4. CASE k = mid
      <4>1. ~(k < mid)
        BY <2>3, <3>4
      <4> QED
        BY <2>4, <3>1, <3>4, <4>1, MarkersAreLines
    <3> QED
      BY <2>3, <3>2, <3>3, <3>4
  <2>7. i < mid /\ mid < close /\ mid \in i + 1..close /\ close \in i + 1..close
    BY <2>2, <2>3
  <2>8. other[mid].kind = "parts" /\ other[close].kind = "closes"
    BY <2>4, <2>7, MarkersAreLines
  <2>9. other[i].kind = "opens"
    BY <1>3 DEF Opens, IsA
  <2>10. \A j \in i + 1..mid - 1 : other[j].kind # "parts"
    <3>1. \A j \in i + 1..mid - 1 : j \in i + 1..close - 1 /\ j < mid
      BY <2>2, <2>3, <2>7
    <3> QED
      BY <2>6, <3>1
  <2>11. {i, mid, close} \subseteq 1..Len(other)
    BY <1>3, <2>2, <2>3
  <2>12. BlockAt(other, i, mid, close)
    BY <2>6, <2>7, <2>8, <2>9, <2>10, <2>11 DEF BlockAt
  <2> QED
    BY <2>1, <2>3, <2>12
<1> QED
  BY <1>1, <1>3, <1>4 DEF Parted

\* Its blocks have the sides exchanged.
LEMMA SidesSwap ==
  ASSUME NEW doc, NEW sepOf, NEW endOf, Parted(doc, sepOf, endOf),
         PlainContent(doc, sepOf, endOf), NEW i \in Opens(doc)
  PROVE  /\ Block(Swapped(doc), i).ours = Block(doc, i).theirs
         /\ Block(Swapped(doc), i).theirs = Block(doc, i).ours
<1> DEFINE sep2 == SepOfOther(doc, sepOf, endOf)
<1>1. PICK turned : turned = Swapped(doc)
  OBVIOUS
<1>2. Parted(turned, sep2, endOf) /\ i \in Opens(turned)
  BY <1>1, SwappedIsLines, SwappedParted
<1>3. PICK sep, close : sep = sepOf[i] /\ close = endOf[i]
  OBVIOUS
<1>4. PICK n \in Nat : n = Len(doc)
  BY Lengths DEF Parted
<1>5. i \in 1..n /\ sep \in 1..n /\ close \in 1..n /\ i < sep /\ sep < close
  BY <1>3, <1>4, OpenIs
<1>6. PICK mid \in 1..n : mid = sep2[i] /\ mid = i + close - sep
  <2>1. i + close - sep \in 1..n
    BY <1>5
  <2>2. sep2[i] = i + close - sep
    BY <1>3 DEF SepOfOther
  <2> QED
    BY <2>1, <2>2
<1>7. ASSUME NEW k \in i + 1..close
      PROVE  /\ k < mid => turned[k] = doc[k + sep - i]
             /\ k > mid /\ k < close => turned[k] = doc[k + sep - close]
  BY <1>1, <1>3, <1>6, SwappedInside
<1> HIDE DEF sep2
<1>8. PICK ours, theirs :
        /\ ours = Block(doc, i).ours /\ theirs = Block(doc, i).theirs
        /\ ours \in Seq(Lines) /\ Len(ours) = sep - i - 1
        /\ \A k \in 1..sep - i - 1 : ours[k] = doc[i + k]
        /\ theirs \in Seq(Lines) /\ Len(theirs) = close - sep - 1
        /\ \A k \in 1..close - sep - 1 : theirs[k] = doc[sep + k]
  BY <1>3, SidesAre
<1>9. PICK ours2, theirs2 :
        /\ ours2 = Block(turned, i).ours /\ theirs2 = Block(turned, i).theirs
        /\ ours2 \in Seq(Lines) /\ Len(ours2) = mid - i - 1
        /\ \A k \in 1..mid - i - 1 : ours2[k] = turned[i + k]
        /\ theirs2 \in Seq(Lines) /\ Len(theirs2) = close - mid - 1
        /\ \A k \in 1..close - mid - 1 : theirs2[k] = turned[mid + k]
  <2>1. PICK seps : seps = sep2 /\ mid = seps[i]
    BY <1>6
  <2>2. Parted(turned, seps, endOf)
    BY <1>2, <2>1
  <2>3. close = endOf[i]
    BY <1>3
  <2>4. /\ Block(turned, i).ours \in Seq(Lines) /\ Len(Block(turned, i).ours) = mid - i - 1
        /\ \A k \in 1..mid - i - 1 : Block(turned, i).ours[k] = turned[i + k]
    BY <1>2, <2>1, <2>2, <2>3, SidesAre
  <2>5. /\ Block(turned, i).theirs \in Seq(Lines)
        /\ Len(Block(turned, i).theirs) = close - mid - 1
        /\ \A k \in 1..close - mid - 1 : Block(turned, i).theirs[k] = turned[mid + k]
    BY <1>2, <2>1, <2>2, <2>3, SidesAre
  <2> QED
    BY <2>4, <2>5
<1>10. PICK m \in Nat : m = close - sep - 1 /\ m = mid - i - 1
  BY <1>5, <1>6
<1>11. PICK l \in Nat : l = sep - i - 1 /\ l = close - mid - 1
  BY <1>5, <1>6
<1>12. ours2 = theirs
  <2>1. ASSUME NEW k \in 1..m PROVE ours2[k] = theirs[k]
    <3>1. i + k \in i + 1..close /\ i + k < mid /\ i + k + sep - i = sep + k
      BY <1>5, <1>6, <1>10
    <3>2. turned[i + k] = doc[sep + k]
      BY <1>7, <3>1
    <3> QED
      BY <1>8, <1>9, <1>10, <3>2
  <2>2. Len(ours2) = m /\ Len(theirs) = m
    BY <1>8, <1>9, <1>10
  <2>3. ours2 \in Seq(Lines) /\ theirs \in Seq(Lines)
    BY <1>8, <1>9
  <2> QED
    BY <2>1, <2>2, <2>3, SameSequence
<1>13. theirs2 = ours
  <2>1. ASSUME NEW k \in 1..l PROVE theirs2[k] = ours[k]
    <3>1. /\ mid + k \in i + 1..close /\ mid + k > mid /\ mid + k < close
          /\ mid + k + sep - close = i + k
      BY <1>5, <1>6, <1>11
    <3>2. turned[mid + k] = doc[i + k]
      BY <1>7, <3>1
    <3> QED
      BY <1>8, <1>9, <1>11, <3>2
  <2>2. Len(theirs2) = l /\ Len(ours) = l
    BY <1>8, <1>9, <1>11
  <2>3. theirs2 \in Seq(Lines) /\ ours \in Seq(Lines)
    BY <1>8, <1>9
  <2> QED
    BY <2>1, <2>2, <2>3, SameSequence
<1> QED
  BY <1>1, <1>8, <1>9, <1>12, <1>13

\* The lines of a conflict that the union keeps.
Merged(b) == {line \in Range(b.ours) \cup Range(b.theirs) : line.kind # "blank"}

\* So every line of it becomes what the line of the document becomes: the union
\* does not tell ours from theirs.
LEMMA ResolvedSwap ==
  ASSUME NEW doc, NEW sepOf, NEW endOf, Parted(doc, sepOf, endOf),
         PlainContent(doc, sepOf, endOf), NEW k \in 1..Len(doc)
  PROVE  Resolved(Swapped(doc), k) = Resolved(doc, k)
<1> DEFINE sep2 == SepOfOther(doc, sepOf, endOf)
<1>1. PICK turned : turned = Swapped(doc)
  OBVIOUS
<1>2. Parted(turned, sep2, endOf)
  BY <1>1, SwappedParted
<1>3. Opens(turned) = Opens(doc)
  BY <1>1, SwappedIsLines
<1>4. k \in Nat
  OBVIOUS
<1> HIDE DEF sep2
<1>5. CASE k \in Opens(doc)
  <2>1. Resolved(doc, k) = UnionMergeSorted(Block(doc, k))
    BY <1>4, <1>5, ResolvedIs
  <2>2. Resolved(turned, k) = UnionMergeSorted(Block(turned, k))
    BY <1>2, <1>3, <1>4, <1>5, ResolvedIs
  <2>3. PICK a, b : a = Block(doc, k) /\ b = Block(turned, k)
    OBVIOUS
  <2>4. b.ours = a.theirs /\ b.theirs = a.ours
    BY <1>1, <1>5, <2>3, SidesSwap
  <2>5. Range(b.ours) \cup Range(b.theirs) = Range(a.ours) \cup Range(a.theirs)
    BY <2>4
  <2>6. UnionMergeSorted(b) = UnionMergeSorted(a)
    <3> DEFINE sorted(L) == [j \in 1..Cardinality(L) |-> CHOOSE line \in L : Place(line, L) = j]
    <3>1. Merged(a) = Merged(b)
      BY <2>5, Zenon DEF Merged
    <3>2. UnionMergeSorted(a) = sorted(Merged(a)) /\ UnionMergeSorted(b) = sorted(Merged(b))
      BY Zenon DEF UnionMergeSorted, Merged
    <3> HIDE DEF sorted
    <3> QED
      BY <3>1, <3>2, Zenon
  <2> QED
    BY <1>1, <2>1, <2>2, <2>3, <2>6
<1>6. CASE \E i \in Opens(doc) : i < k /\ k <= endOf[i]
  <2>1. Resolved(doc, k) = <<>>
    BY <1>4, <1>6, ResolvedIs
  <2>2. Resolved(turned, k) = <<>>
    BY <1>2, <1>3, <1>4, <1>6, ResolvedIs
  <2> QED
    BY <1>1, <2>1, <2>2
<1>7. CASE k \notin Opens(doc) /\ \A i \in Opens(doc) : ~(i < k /\ k <= endOf[i])
  <2>1. Resolved(doc, k) = <<doc[k]>>
    BY <1>4, <1>7, ResolvedIs
  <2>2. Resolved(turned, k) = <<turned[k]>>
    BY <1>2, <1>3, <1>4, <1>7, ResolvedIs
  <2>3. turned[k] = doc[k]
    BY <1>1, <1>7, SwappedOutside
  <2> QED
    BY <1>1, <2>1, <2>2, <2>3
<1> QED
  BY <1>5, <1>6, <1>7

\* The rows and comments of a document are (DocumentsAssumption).
RowsDetermined(doc) ==
  \A a, b \in {line \in Range(doc) : line.kind \in {"row", "comment"}} :
    a.branch = b.branch /\ a.text = b.text => a = b

\* The lines that are united are those between the markers.
LEMMA MergedIs ==
  ASSUME NEW doc, NEW sepOf, NEW endOf, Parted(doc, sepOf, endOf), NEW i \in Opens(doc),
         NEW line
  PROVE  line \in Merged(Block(doc, i))
           <=> /\ \E k \in i + 1..endOf[i] - 1 : k # sepOf[i] /\ line = doc[k]
               /\ line.kind # "blank"
<1>1. PICK sep, close : sep = sepOf[i] /\ close = endOf[i]
  OBVIOUS
<1>2. PICK n \in Nat : n = Len(doc)
  BY Lengths DEF Parted
<1>3. i \in 1..n /\ sep \in 1..n /\ close \in 1..n /\ i < sep /\ sep < close
  BY <1>1, <1>2, OpenIs
<1>4. PICK ours, theirs :
        /\ ours = Block(doc, i).ours /\ theirs = Block(doc, i).theirs
        /\ ours \in Seq(Lines) /\ Len(ours) = sep - i - 1
        /\ \A k \in 1..sep - i - 1 : ours[k] = doc[i + k]
        /\ theirs \in Seq(Lines) /\ Len(theirs) = close - sep - 1
        /\ \A k \in 1..close - sep - 1 : theirs[k] = doc[sep + k]
  BY <1>1, SidesAre
<1>5. PICK m \in Nat : m = close - sep - 1
  BY <1>3
<1>6. PICK l \in Nat : l = sep - i - 1
  BY <1>3
<1>7. line \in Range(ours) <=> \E k \in 1..l : line = doc[i + k]
  <2>1. DOMAIN ours = 1..l
    BY <1>4, <1>6
  <2>2. \A k \in 1..l : ours[k] = doc[i + k]
    BY <1>4, <1>6
  <2> QED
    BY <2>1, <2>2 DEF Range
<1>8. line \in Range(theirs) <=> \E k \in 1..m : line = doc[sep + k]
  <2>1. DOMAIN theirs = 1..m
    BY <1>4, <1>5
  <2>2. \A k \in 1..m : theirs[k] = doc[sep + k]
    BY <1>4, <1>5
  <2> QED
    BY <2>1, <2>2 DEF Range
<1>9. ASSUME NEW k \in 1..l PROVE i + k \in i + 1..close - 1 /\ i + k # sep
  BY <1>3, <1>6
<1>10. ASSUME NEW k \in 1..m PROVE sep + k \in i + 1..close - 1 /\ sep + k # sep
  BY <1>3, <1>5
<1>11. ASSUME NEW k \in i + 1..close - 1, k # sep, line = doc[k]
       PROVE  line \in Range(ours) \/ line \in Range(theirs)
  <2>1. CASE k < sep
    <3>1. k - i \in 1..l /\ i + (k - i) = k
      BY <1>3, <1>6, <2>1
    <3> QED
      BY <1>7, <1>11, <3>1
  <2>2. CASE k > sep
    <3>1. k - sep \in 1..m /\ sep + (k - sep) = k
      BY <1>3, <1>5, <2>2
    <3> QED
      BY <1>8, <1>11, <3>1
  <2> QED
    BY <1>3, <1>11, <2>1, <2>2
<1>12. line \in Range(ours) \cup Range(theirs)
         <=> \E k \in i + 1..close - 1 : k # sep /\ line = doc[k]
  BY <1>7, <1>8, <1>9, <1>10, <1>11
<1>13. line \in Merged(Block(doc, i))
         <=> line \in Range(ours) \cup Range(theirs) /\ line.kind # "blank"
  BY <1>4 DEF Merged
<1> QED
  BY <1>1, <1>12, <1>13

\* The union is sorted and keeps them all.
LEMMA UnionKeeps ==
  ASSUME NEW doc, NEW sepOf, NEW endOf, Parted(doc, sepOf, endOf),
         PlainContent(doc, sepOf, endOf), RowsDetermined(doc), NEW i \in Opens(doc)
  PROVE  /\ UnionMergeSorted(Block(doc, i)) \in Seq(Lines)
         /\ Range(UnionMergeSorted(Block(doc, i))) = Merged(Block(doc, i))
<1> DEFINE L == Merged(Block(doc, i))
           s == UnionMergeSorted(Block(doc, i))
<1>1. PICK n \in Nat : n = Len(doc) /\ DOMAIN doc = 1..n /\ \A k \in 1..n : doc[k] \in Lines
  BY Lengths DEF Parted
<1>2. ASSUME NEW line \in L
      PROVE  line \in Lines /\ line \in Range(doc) /\ line.kind \in {"row", "comment"}
  <2>1. PICK k \in i + 1..endOf[i] - 1 : k # sepOf[i] /\ line = doc[k] /\ line.kind # "blank"
    BY MergedIs
  <2>2. k \in 1..n
    <3>1. i \in 1..n /\ endOf[i] \in 1..n
      BY <1>1, OpenIs
    <3> QED
      BY <2>1, <3>1
  <2>3. doc[k].kind \in {"row", "comment", "blank"}
    BY <2>1 DEF PlainContent
  <2>4. line \in Lines
    BY <1>1, <2>1, <2>2
  <2>5. line \in Range(doc)
    BY <1>1, <2>1, <2>2 DEF Range
  <2> QED
    BY <2>1, <2>3, <2>4, <2>5
<1>3. L \subseteq Lines
  BY <1>2
<1>4. Determined(L)
  BY <1>2 DEF Determined, RowsDetermined
<1>5. IsFiniteSet(L)
  <2>1. IsFiniteSet(1..n)
    BY FS_Interval
  <2>2. doc \in Surjection(1..n, Range(doc))
    <3>1. Range(doc) = {doc[k] : k \in 1..n}
      BY <1>1 DEF Range
    <3>2. doc = [k \in 1..n |-> doc[k]]
      BY <1>1 DEF Parted
    <3>3. doc \in [1..n -> Range(doc)]
      BY <3>1, <3>2
    <3>4. \A line \in Range(doc) : \E k \in 1..n : doc[k] = line
      BY <3>1
    <3> QED
      BY <3>3, <3>4 DEF Surjection
  <2>3. IsFiniteSet(Range(doc))
    BY <2>1, <2>2, FS_Surjection
  <2>4. L \subseteq Range(doc)
    BY <1>2
  <2> HIDE DEF L
  <2> QED
    BY <2>3, <2>4, FS_Subset
<1>6. PICK m \in Nat : m = Cardinality(L)
  BY <1>5, FS_CardinalityType
<1>7. s = [k \in 1..m |-> CHOOSE line \in L : Place(line, L) = k]
  BY <1>6, Zenon DEF UnionMergeSorted, Merged
<1>8. PICK t : t = s
  OBVIOUS
<1>9. t = [k \in 1..m |-> t[k]] /\ \A k \in 1..m : t[k] = CHOOSE line \in L : Place(line, L) = k
  BY <1>7, <1>8
<1> HIDE DEF L, s
<1>10. t \in Seq(L) /\ Range(t) = L
  BY <1>3, <1>4, <1>5, <1>6, <1>9, SortedKeeps
<1>11. t \in Seq(Lines)
  BY <1>3, <1>10
<1> QED
  BY <1>8, <1>10, <1>11 DEF L, s

-----------------------------------------------------------------------------
(* The output, line by line.                                               *)

\* The output after each line.
Outputs(doc, f) ==
  [n \in 0..Len(doc) |-> IF n = 0 THEN <<>> ELSE f[n - 1] \o Resolved(doc, n)]

\* The output can be composed for every document.
LEMMA CanResolve ==
  ASSUME NEW doc, Len(doc) \in Nat
  PROVE  \E f : f = Outputs(doc, f)
<1> DEFINE N == Len(doc)
           Upto(k, f) == f = [n \in 0..k |-> IF n = 0 THEN <<>> ELSE f[n - 1] \o Resolved(doc, n)]
           ok == {k \in 0..N : \E f : Upto(k, f)}
<1>1. 0 \in ok
  <2>1. Upto(0, [n \in 0..0 |-> <<>>])
    OBVIOUS
  <2>2. 0 \in 0..N
    OBVIOUS
  <2> HIDE DEF Upto
  <2> QED
    BY <2>1, <2>2
<1>2. ASSUME NEW k \in 1..N, k - 1 \in ok PROVE k \in ok
  <2>1. PICK f : Upto(k - 1, f)
    BY <1>2
  <2> DEFINE g == [n \in 0..k |-> IF n = k THEN f[k - 1] \o Resolved(doc, k) ELSE f[n]]
  <2>2. ASSUME NEW n \in 0..k
        PROVE  g[n] = IF n = 0 THEN <<>> ELSE g[n - 1] \o Resolved(doc, n)
    <3>1. CASE n = 0
      BY <2>1, <3>1
    <3>2. CASE n \in 1..k - 1
      <4>1. n \in 0..k - 1 /\ n - 1 \in 0..k /\ n # k /\ n - 1 # k /\ n # 0
        BY <3>2
      <4>2. g[n] = f[n] /\ g[n - 1] = f[n - 1]
        BY <4>1
      <4>3. f[n] = f[n - 1] \o Resolved(doc, n)
        BY <2>1, <4>1
      <4> HIDE DEF g
      <4> QED
        BY <4>1, <4>2, <4>3
    <3>3. CASE n = k
      <4>1. k - 1 \in 0..k /\ k - 1 # k /\ k \in 0..k /\ k # 0
        OBVIOUS
      <4>2. g[k] = f[k - 1] \o Resolved(doc, k) /\ g[k - 1] = f[k - 1]
        BY <4>1
      <4> HIDE DEF g
      <4> QED
        BY <3>3, <4>1, <4>2
    <3> QED
      BY <3>1, <3>2, <3>3
  <2>3. g = [n \in 0..k |-> g[n]]
    OBVIOUS
  <2> HIDE DEF g
  <2>4. Upto(k, g)
    BY <2>2, <2>3
  <2>5. k \in 0..N
    OBVIOUS
  <2> HIDE DEF Upto, N
  <2> QED
    BY <2>4, <2>5
<1> HIDE DEF ok
<1>3. N \in ok
  <2>1. N \in Nat /\ N \in 0..N
    OBVIOUS
  <2> HIDE DEF N
  <2> QED
    BY <1>1, <1>2, <2>1, UpToAll
<1> USE DEF ok
<1> QED
  BY <1>3 DEF Outputs

\* out[k] is what the first k parts make.
Joins(out, part, n) == out[0] = <<>> /\ \A k \in 1..n : out[k] = out[k - 1] \o part[k]

\* The resolution is what all lines become, one after the other.
LEMMA ResolveJoins ==
  ASSUME NEW doc, NEW n \in Nat, n = Len(doc), NEW part,
         \A k \in 1..n : part[k] = Resolved(doc, k)
  PROVE  \E out : Joins(out, part, n) /\ Resolve(doc) = out[n]
<1> DEFINE out == CHOOSE f : f = Outputs(doc, f)
<1>1. Resolve(doc) = out[n]
  BY Zenon DEF Resolve, Outputs
<1>2. out = Outputs(doc, out)
  BY CanResolve
<1> HIDE DEF out
<1>3. \A k \in 0..n : out[k] = IF k = 0 THEN <<>> ELSE out[k - 1] \o Resolved(doc, k)
  <2>1. \A f : \A k \in 0..n :
          Outputs(doc, f)[k] = IF k = 0 THEN <<>> ELSE f[k - 1] \o Resolved(doc, k)
    BY DEF Outputs
  <2> QED
    BY <1>2, <2>1
<1>4. out[0] = <<>>
  BY <1>3
<1>5. \A k \in 1..n : out[k] = out[k - 1] \o part[k]
  <2>1. \A k \in 1..n : k \in 0..n /\ k # 0
    OBVIOUS
  <2> QED
    BY <1>3, <2>1
<1>6. Joins(out, part, n)
  BY <1>4, <1>5 DEF Joins
<1> QED
  BY <1>1, <1>6

\* The same parts make the same document.
LEMMA JoinsSame ==
  ASSUME NEW n \in Nat, NEW part, NEW a, NEW b, Joins(a, part, n), Joins(b, part, n)
  PROVE  a[n] = b[n]
<1> DEFINE ok == {k \in 0..n : a[k] = b[k]}
<1>1. 0 \in ok
  BY DEF Joins
<1>2. ASSUME NEW k \in 1..n, k - 1 \in ok PROVE k \in ok
  <2>1. a[k - 1] = b[k - 1]
    BY <1>2
  <2>2. a[k] = a[k - 1] \o part[k] /\ b[k] = b[k - 1] \o part[k]
    BY DEF Joins
  <2>3. a[k] = b[k] /\ k \in 0..n
    BY <2>1, <2>2
  <2> QED
    BY <2>3
<1>3. n \in ok
  <2>1. n \in 0..n
    OBVIOUS
  <2> HIDE DEF ok
  <2> QED
    BY <1>1, <1>2, <2>1, UpToAll
<1> QED
  BY <1>3

\* The lines of two parts.
LEMMA RangeJoined ==
  ASSUME NEW S, NEW a \in Seq(S), NEW b \in Seq(S), NEW c, c = a \o b
  PROVE  c \in Seq(S) /\ \A x : x \in Range(c) <=> x \in Range(a) \/ x \in Range(b)
<1>1. PICK m, n : m = Len(a) /\ m \in Nat /\ n = Len(b) /\ n \in Nat
  BY Lengths
<1>2. c \in Seq(S) /\ Len(c) = m + n
  BY <1>1, ConcatProperties
<1>3. \A i \in 1..m + n : c[i] = IF i <= m THEN a[i] ELSE b[i - m]
  BY <1>1, ConcatProperties
<1>4. DOMAIN a = 1..m /\ DOMAIN b = 1..n /\ DOMAIN c = 1..m + n
  BY <1>1, <1>2
<1>5. ASSUME NEW x, x \in Range(c) PROVE x \in Range(a) \/ x \in Range(b)
  <2>1. PICK i \in 1..m + n : c[i] = x
    BY <1>4, <1>5 DEF Range
  <2>2. CASE i <= m
    <3>1. i \in 1..m /\ a[i] = x
      BY <1>1, <1>3, <2>1, <2>2
    <3> QED
      BY <1>4, <3>1 DEF Range
  <2>3. CASE ~(i <= m)
    <3>1. i - m \in 1..n
      BY <1>1, <2>1, <2>3
    <3>2. b[i - m] = x
      BY <1>3, <2>1, <2>3
    <3> QED
      BY <1>4, <3>1, <3>2 DEF Range
  <2> QED
    BY <2>2, <2>3
<1>6. ASSUME NEW x, x \in Range(a) PROVE x \in Range(c)
  <2>1. PICK i \in 1..m : a[i] = x
    BY <1>4, <1>6 DEF Range
  <2>2. i \in 1..m + n /\ i <= m
    BY <1>1, <2>1
  <2>3. c[i] = a[i]
    BY <1>3, <2>2, Zenon
  <2> QED
    BY <1>4, <2>1, <2>2, <2>3 DEF Range
<1>7. ASSUME NEW x, x \in Range(b) PROVE x \in Range(c)
  <2>1. PICK i \in 1..n : b[i] = x
    BY <1>4, <1>7 DEF Range
  <2>2. m + i \in 1..m + n /\ ~(m + i <= m) /\ m + i - m = i
    BY <1>1, <2>1
  <2>3. PICK j : j = m + i
    OBVIOUS
  <2>4. c[j] = b[j - m]
    BY <1>3, <2>2, <2>3, Zenon
  <2> QED
    <3>1. j - m = i /\ j \in 1..m + n
      BY <1>1, <2>2, <2>3
    <3>2. c[j] = x
      BY <2>1, <2>4, <3>1
    <3> QED
      BY <1>4, <3>1, <3>2 DEF Range
<1> QED
  BY <1>2, <1>5, <1>6, <1>7

\* The first m parts have the lines of out[m].
SameLines(out, part, m) == \A x : x \in Range(out[m]) <=> \E k \in 1..m : x \in Range(part[k])

\* A document has the lines of its parts.
LEMMA JoinsRange ==
  ASSUME NEW S, NEW n \in Nat, NEW part, NEW out, Joins(out, part, n),
         \A k \in 1..n : part[k] \in Seq(S)
  PROVE  \A m \in 0..n : out[m] \in Seq(S) /\ SameLines(out, part, m)
<1> DEFINE Good(m) == /\ out[m] \in Seq(S)
                      /\ \A x : x \in Range(out[m]) <=> \E k \in 1..m : x \in Range(part[k])
           ok == {m \in 0..n : Good(m)}
<1>1. 0 \in ok
  <2>1. out[0] = <<>> /\ 1..0 = {} /\ Range(<<>>) = {} /\ <<>> \in Seq(S)
    BY DEF Joins, Range
  <2>2. Good(0)
    BY <2>1
  <2> HIDE DEF Good
  <2> QED
    BY <2>2
<1>2. ASSUME NEW m \in 1..n, m - 1 \in ok PROVE m \in ok
  <2>1. /\ out[m - 1] \in Seq(S)
        /\ \A x : x \in Range(out[m - 1]) <=> \E k \in 1..m - 1 : x \in Range(part[k])
    BY <1>2
  <2>2. PICK a \in Seq(S) : a = out[m - 1]
    BY <2>1
  <2>3. PICK b \in Seq(S) : b = part[m]
    OBVIOUS
  <2>4. PICK c : c = out[m] /\ c = a \o b
    BY <2>2, <2>3 DEF Joins
  <2>5. c \in Seq(S) /\ \A x : x \in Range(c) <=> x \in Range(a) \/ x \in Range(b)
    <3>1. c = a \o b
      BY <2>4
    <3> HIDE DEF Good, ok
    <3>2. a \in Seq(S)
      BY <2>2
    <3>3. b \in Seq(S)
      BY <2>3
    <3> QED
      BY <3>1, <3>2, <3>3, RangeJoined, Zenon
  <2>6. \A x : (\E k \in 1..m : x \in Range(part[k]))
                 <=> (\E k \in 1..m - 1 : x \in Range(part[k])) \/ x \in Range(part[m])
    <3>1. \A k : k \in 1..m <=> k \in 1..m - 1 \/ k = m
      OBVIOUS
    <3> QED
      BY <3>1, Zenon
  <2>7. Good(m)
    BY <2>1, <2>2, <2>3, <2>4, <2>5, <2>6
  <2>8. m \in 0..n
    OBVIOUS
  <2> HIDE DEF Good
  <2> QED
    BY <2>7, <2>8
<1>3. \A m \in 0..n : m \in ok
  <2> HIDE DEF ok
  <2> QED
    BY <1>1, <1>2, UpToAll
<1> QED
  BY <1>3 DEF SameLines

\* A sequence and what follows it.
LEMMA Longer ==
  ASSUME NEW S, NEW a \in Seq(S), NEW b \in Seq(S), NEW c, c = a \o b
  PROVE  /\ Len(a) <= Len(c) /\ Len(c) = Len(a) + Len(b)
         /\ \A i \in 1..Len(a) : c[i] = a[i]
         /\ \A i \in 1..Len(b) : c[Len(a) + i] = b[i]
<1>1. PICK m, n : m = Len(a) /\ m \in Nat /\ n = Len(b) /\ n \in Nat
  BY Lengths
<1>2. Len(c) = m + n
  BY <1>1, ConcatProperties
<1>3. \A i \in 1..m + n : c[i] = IF i <= m THEN a[i] ELSE b[i - m]
  BY <1>1, ConcatProperties
<1>4. ASSUME NEW i \in 1..m PROVE c[i] = a[i]
  <2>1. i \in 1..m + n /\ i <= m
    BY <1>1
  <2> QED
    BY <1>3, <2>1, Zenon
<1>5. ASSUME NEW i \in 1..n PROVE c[m + i] = b[i]
  <2>1. PICK j : j = m + i
    OBVIOUS
  <2>2. j \in 1..m + n /\ ~(j <= m) /\ j - m = i
    BY <1>1, <2>1
  <2>3. c[j] = b[j - m]
    BY <1>3, <2>2, Zenon
  <2>4. c[j] = b[i]
    BY <2>2, <2>3
  <2> QED
    BY <2>1, <2>4
<1>6. m <= m + n
  BY <1>1
<1> QED
  BY <1>1, <1>2, <1>4, <1>5, <1>6

\* What has been put out is not changed by what follows.
LEMMA JoinsGrow ==
  ASSUME NEW S, NEW n \in Nat, NEW part, NEW out, Joins(out, part, n),
         \A k \in 1..n : part[k] \in Seq(S), NEW p \in 0..n
  PROVE  \A m \in p..n : /\ Len(out[p]) <= Len(out[m])
                         /\ \A i \in 1..Len(out[p]) : out[m][i] = out[p][i]
<1> DEFINE Good(m) == /\ Len(out[p]) <= Len(out[m])
                      /\ \A i \in 1..Len(out[p]) : out[m][i] = out[p][i]
           ok == {m \in 0..n : p <= m => Good(m)}
<1>1. ASSUME NEW m \in 0..n PROVE out[m] \in Seq(S)
  BY JoinsRange
<1>2. PICK l \in Nat : l = Len(out[p])
  BY <1>1
<1>3. Good(p)
  BY <1>2
<1>4. 0 \in ok
  <2>1. 0 \in 0..n /\ (p <= 0 => p = 0)
    OBVIOUS
  <2> HIDE DEF Good
  <2> QED
    BY <1>3, <2>1
<1>5. ASSUME NEW m \in 1..n, m - 1 \in ok PROVE m \in ok
  <2>1. m \in 0..n /\ m - 1 \in 0..n
    OBVIOUS
  <2>2. CASE p <= m - 1
    <3>1. Good(m - 1)
      BY <1>5, <2>2
    <3>2. PICK a \in Seq(S) : a = out[m - 1]
      BY <1>1, <2>1
    <3>3. PICK b \in Seq(S) : b = part[m]
      OBVIOUS
    <3>4. PICK c \in Seq(S) : c = out[m]
      BY <1>1, <2>1
    <3>5. c = a \o b
      BY <3>2, <3>3, <3>4 DEF Joins
    <3>6. Len(a) <= Len(c) /\ \A i \in 1..Len(a) : c[i] = a[i]
      <4>1. a \in Seq(S)
        BY <3>2
      <4>2. b \in Seq(S)
        BY <3>3
      <4> HIDE DEF Good, ok
      <4> QED
        BY <3>5, <4>1, <4>2, Longer
    <3>7. PICK la, lc : la = Len(a) /\ la \in Nat /\ lc = Len(c) /\ lc \in Nat
      BY <3>2, <3>4, Lengths
    <3>8. l <= la /\ \A i \in 1..l : a[i] = out[p][i]
      BY <1>2, <3>1, <3>2, <3>7
    <3>9. l <= lc
      BY <1>2, <3>6, <3>7, <3>8
    <3>10. \A i \in 1..l : c[i] = out[p][i]
      <4>1. \A i \in 1..l : i \in 1..la
        BY <1>2, <3>7, <3>8
      <4> QED
        BY <3>6, <3>7, <3>8, <4>1
    <3>11. Good(m)
      BY <1>2, <3>4, <3>7, <3>9, <3>10
    <3> HIDE DEF Good
    <3> QED
      BY <2>1, <3>11
  <2>3. CASE ~(p <= m - 1)
    <3>1. p <= m => p = m
      BY <2>3
    <3> HIDE DEF Good
    <3> QED
      BY <1>3, <2>1, <3>1
  <2> QED
    BY <2>2, <2>3
<1>6. \A m \in 0..n : m \in ok
  <2> HIDE DEF ok
  <2> QED
    BY <1>4, <1>5, UpToAll
<1>7. ASSUME NEW m \in p..n PROVE Good(m)
  <2>1. m \in 0..n /\ p <= m
    OBVIOUS
  <2> HIDE DEF Good
  <2> QED
    BY <1>6, <2>1
<1> QED
  BY <1>7

\* Parts q + 1 to r are the lines of the document; the first q make l lines.
PlainRun(out, part, n, doc, q, r, l) ==
  /\ n \in Nat /\ q \in 0..n /\ r \in q..n /\ l \in Nat /\ l = Len(out[q])
  /\ Joins(out, part, n)
  /\ \A k \in 1..n : part[k] \in Seq(Lines) /\ doc[k] \in Lines
  /\ \A k \in q + 1..r : part[k] = <<doc[k]>>

\* ... and are put out after these.
RunMade(out, doc, q, r, l) ==
  /\ Len(out[r]) = l + (r - q)
  /\ \A i \in 1..r - q : out[r][l + i] = doc[q + i]

\* Lines that are not in a conflict are put out as they are.
LEMMA JoinsPlain ==
  ASSUME NEW out, NEW part, NEW n, NEW doc, NEW q, NEW r, NEW l,
         PlainRun(out, part, n, doc, q, r, l)
  PROVE  RunMade(out, doc, q, r, l)
<1> DEFINE Good(m) == /\ Len(out[m]) = l + (m - q)
                      /\ \A i \in 1..m - q : out[m][l + i] = doc[q + i]
           ok == {m \in 0..r : q <= m => Good(m)}
<1> SUFFICES ASSUME n \in Nat, q \in 0..n, r \in q..n, l \in Nat, l = Len(out[q]),
                    Joins(out, part, n),
                    \A k \in 1..n : part[k] \in Seq(Lines) /\ doc[k] \in Lines,
                    \A k \in q + 1..r : part[k] = <<doc[k]>>
             PROVE  Good(r)
  BY DEF PlainRun, RunMade
<1>1. ASSUME NEW m \in 0..n PROVE out[m] \in Seq(Lines)
  BY JoinsRange
<1>2. Good(q)
  <2>1. q - q = 0 /\ l + 0 = l /\ 1..0 = {}
    OBVIOUS
  <2> QED
    BY <2>1
<1>3. 0 \in ok
  <2>1. 0 \in 0..r /\ (q <= 0 => q = 0)
    OBVIOUS
  <2> HIDE DEF Good
  <2> QED
    BY <1>2, <2>1
<1>4. ASSUME NEW m \in 1..r, m - 1 \in ok PROVE m \in ok
  <2>1. m \in 0..r /\ m - 1 \in 0..r /\ m \in 0..n /\ m - 1 \in 0..n /\ m \in 1..n
    OBVIOUS
  <2>2. CASE q <= m - 1
    <3>1. Good(m - 1)
      BY <1>4, <2>2
    <3>2. PICK a \in Seq(Lines) : a = out[m - 1]
      BY <1>1, <2>1
    <3>3. PICK x \in Lines : x = doc[m]
      BY <2>1
    <3>4. part[m] = <<x>>
      <4>1. m \in q + 1..r
        BY <2>2
      <4> QED
        BY <3>3, <4>1
    <3>5. PICK c : c = out[m] /\ c = a \o <<x>>
      BY <2>1, <3>2, <3>4 DEF Joins
    <3>6. PICK b : b = <<x>> /\ b \in Seq(Lines) /\ Len(b) = 1 /\ b[1] = x
      <4>1. x \in Lines
        BY <3>3
      <4> HIDE DEF Good, ok
      <4>2. <<x>> \in Seq(Lines) /\ Len(<<x>>) = 1 /\ <<x>>[1] = x
        BY <4>1
      <4> QED
        BY <4>2
    <3>7. c = a \o b
      BY <3>5, <3>6
    <3>8. PICK la \in Nat : la = Len(a)
      BY <3>2, Lengths
    <3>9. Len(c) = la + 1 /\ (\A i \in 1..la : c[i] = a[i])
      BY <3>2, <3>6, <3>7, <3>8, Longer
    <3>10. c[la + 1] = x
      <4>1. \A i \in 1..Len(b) : c[Len(a) + i] = b[i]
        BY <3>2, <3>6, <3>7, Longer
      <4>2. 1 \in 1..Len(b)
        BY <3>6
      <4>3. c[Len(a) + 1] = b[1]
        BY <4>1, <4>2
      <4> QED
        BY <3>6, <3>8, <4>3
    <3>11. la = l + (m - 1 - q) /\ \A i \in 1..m - 1 - q : a[l + i] = doc[q + i]
      BY <3>1, <3>2, <3>8
    <3>12. Len(c) = l + (m - q)
      <4>1. l + (m - 1 - q) + 1 = l + (m - q)
        OBVIOUS
      <4> QED
        BY <3>9, <3>11, <4>1
    <3>13. ASSUME NEW i \in 1..m - q PROVE c[l + i] = doc[q + i]
      <4>1. CASE i = m - q
        <5>1. l + i = la + 1 /\ q + i = m
          BY <3>11, <4>1
        <5> QED
          BY <3>3, <3>10, <5>1
      <4>2. CASE i # m - q
        <5>1. i \in 1..m - 1 - q
          BY <4>2
        <5>2. l + i \in 1..la
          BY <3>11, <5>1
        <5> QED
          BY <3>9, <3>11, <5>1, <5>2
      <4> QED
        BY <4>1, <4>2
    <3>14. Good(m)
      BY <3>5, <3>12, <3>13
    <3> HIDE DEF Good
    <3> QED
      BY <2>1, <3>14
  <2>3. CASE ~(q <= m - 1)
    <3>1. q <= m => q = m
      BY <2>3
    <3> HIDE DEF Good
    <3> QED
      BY <1>2, <2>1, <3>1
  <2> QED
    BY <2>2, <2>3
<1>5. \A m \in 0..r : m \in ok
  <2>1. r \in Nat
    OBVIOUS
  <2> HIDE DEF ok
  <2> QED
    BY <1>3, <1>4, <2>1, UpToAll
<1>6. r \in 0..r /\ q <= r
  OBVIOUS
<1> HIDE DEF Good
<1> QED
  BY <1>5, <1>6

-----------------------------------------------------------------------------
(* What a resolution keeps.                                                *)

\* What a resolution that is not refused can rely on (InProtectedZone,
\* ContentMixed: cumulative_md.rs 96-106).
LEMMA UnrefusedIs ==
  ASSUME NEW doc \in Documents, ~Refused(doc)
  PROVE  /\ RowsDetermined(doc)
         /\ \E sepOf, endOf :
              /\ Parted(doc, sepOf, endOf) /\ PlainContent(doc, sepOf, endOf)
              /\ \A i \in Opens(doc) : Preamble < i /\ endOf[i] + Footer < Len(doc)
<1>1. doc \in Seq(Lines) /\ RowsDetermined(doc) /\ Preamble \in Nat /\ Footer \in Nat
  BY DocumentsAssumption DEF RowsDetermined
<1>2. ~MalformedMarkers(doc) /\ \A b \in Blocks(doc) : ~InProtectedZone(doc, b) /\ ~ContentMixed(b)
  BY DEF Refused
<1>3. PICK sepOf, endOf : Parted(doc, sepOf, endOf)
  BY <1>1, <1>2, PartedExists
<1>4. ASSUME NEW i \in Opens(doc)
      PROVE  /\ Preamble < i /\ endOf[i] + Footer < Len(doc)
             /\ \A k \in i + 1..endOf[i] - 1 :
                  k # sepOf[i] => doc[k].kind \in {"row", "comment", "blank"}
  <2>1. PICK b : b = Block(doc, i) /\ b \in Blocks(doc)
    BY DEF Blocks
  <2>2. b.start = i /\ b.end = endOf[i]
    BY <1>3, <2>1, SidesAre
  <2>3. i \in Nat /\ endOf[i] \in Nat /\ Len(doc) \in Nat
    BY <1>3, OpenIs
  <2>4. ~(i <= Preamble) /\ ~(endOf[i] + Footer >= Len(doc))
    BY <1>2, <2>1, <2>2 DEF InProtectedZone
  <2>5. Preamble < i /\ endOf[i] + Footer < Len(doc)
    BY <1>1, <2>3, <2>4
  <2>6. \A line \in Merged(b) : line.kind \in {"row", "comment", "blank"}
    BY <1>2, <2>1 DEF ContentMixed, Merged
  <2>7. ASSUME NEW k \in i + 1..endOf[i] - 1, k # sepOf[i], doc[k].kind # "blank"
        PROVE  doc[k] \in Merged(b)
    BY <1>3, <2>1, <2>7, MergedIs
  <2> QED
    BY <2>5, <2>6, <2>7
<1>5. PlainContent(doc, sepOf, endOf)
  BY <1>4 DEF PlainContent
<1> QED
  BY <1>1, <1>3, <1>4, <1>5

\* Line k is on one side of a conflict, or in none.
Inside(k, sepOf, endOf, opens) ==
  \E i \in opens : k \in i + 1..endOf[i] - 1 /\ k # sepOf[i]

Outside(k, endOf, opens) == \A i \in opens : k \notin i..endOf[i]

\* The lines that one side or the other has.
LEMMA SideIs ==
  ASSUME NEW doc, NEW sepOf, NEW endOf, Parted(doc, sepOf, endOf), NEW k
  PROVE  k \in Side(doc, "ours") \cup Side(doc, "theirs")
           <=> /\ k \in 1..Len(doc)
               /\ Inside(k, sepOf, endOf, Opens(doc)) \/ Outside(k, endOf, Opens(doc))
<1>1. PICK n \in Nat : n = Len(doc) /\ DOMAIN doc = 1..n
  BY Lengths DEF Parted
<1> DEFINE Around(b) == k \in b.start + 1..b.start + Len(b.ours)
           Behind(b) == k \in b.end - Len(b.theirs)..b.end - 1
<1>2. k \in Side(doc, "ours") \cup Side(doc, "theirs")
        <=> \/ k \in 1..n /\ \A b \in Blocks(doc) : k \notin b.start..b.end
            \/ \E b \in Blocks(doc) : Around(b) \/ Behind(b)
  BY <1>1 DEF Side
<1>3. ASSUME NEW i \in Opens(doc)
      PROVE  /\ k \in Block(doc, i).start..Block(doc, i).end <=> k \in i..endOf[i]
             /\ Around(Block(doc, i)) \/ Behind(Block(doc, i))
                  <=> k \in i + 1..endOf[i] - 1 /\ k # sepOf[i]
             /\ Around(Block(doc, i)) \/ Behind(Block(doc, i)) => k \in 1..n
  <2>1. PICK sep, close : sep = sepOf[i] /\ close = endOf[i]
    OBVIOUS
  <2>2. i \in 1..n /\ sep \in 1..n /\ close \in 1..n /\ i < sep /\ sep < close
    BY <1>1, <2>1, OpenIs
  <2>3. PICK b : b = Block(doc, i) /\ b.start = i /\ b.end = close
    BY <2>1, SidesAre
  <2>4. Len(b.ours) = sep - i - 1 /\ Len(b.theirs) = close - sep - 1
    BY <2>1, <2>3, SidesAre
  <2>5. i + (sep - i - 1) = sep - 1 /\ close - (close - sep - 1) = sep + 1
    BY <2>2
  <2>6. Around(b) <=> k \in i + 1..sep - 1
    BY <2>3, <2>4, <2>5
  <2>7. Behind(b) <=> k \in sep + 1..close - 1
    BY <2>3, <2>4, <2>5
  <2> HIDE DEF Around, Behind
  <2>8. Around(b) \/ Behind(b) <=> k \in i + 1..close - 1 /\ k # sep
    BY <2>2, <2>6, <2>7
  <2>9. Around(b) \/ Behind(b) => k \in 1..n
    BY <2>2, <2>8
  <2> QED
    BY <2>1, <2>3, <2>8, <2>9
<1> HIDE DEF Around, Behind
<1>4. (\A b \in Blocks(doc) : k \notin b.start..b.end) <=> Outside(k, endOf, Opens(doc))
  BY <1>3 DEF Blocks, Outside
<1>5. (\E b \in Blocks(doc) : Around(b) \/ Behind(b)) <=> Inside(k, sepOf, endOf, Opens(doc))
  <2>1. (\E b \in Blocks(doc) : Around(b) \/ Behind(b))
          <=> \E i \in Opens(doc) : Around(Block(doc, i)) \/ Behind(Block(doc, i))
    BY Zenon DEF Blocks
  <2> QED
    BY <1>3, <2>1 DEF Inside
<1>6. (\E b \in Blocks(doc) : Around(b) \/ Behind(b)) => k \in 1..n
  BY <1>3 DEF Blocks
<1> QED
  BY <1>1, <1>2, <1>4, <1>5, <1>6

\* What a line becomes, and the lines in it.
LEMMA PartIs ==
  ASSUME NEW doc, NEW sepOf, NEW endOf, Parted(doc, sepOf, endOf),
         PlainContent(doc, sepOf, endOf), RowsDetermined(doc), NEW k \in 1..Len(doc)
  PROVE  /\ Resolved(doc, k) \in Seq(Lines)
         /\ k \in Opens(doc) => Range(Resolved(doc, k)) = Merged(Block(doc, k))
         /\ k \notin Opens(doc) => Range(Resolved(doc, k))
              = IF Outside(k, endOf, Opens(doc)) THEN {doc[k]} ELSE {}
         /\ Outside(k, endOf, Opens(doc)) => Resolved(doc, k) = <<doc[k]>>
<1>1. k \in Nat /\ doc[k] \in Lines
  BY DEF Parted
<1>2. \A i \in Opens(doc) : i \in Nat /\ endOf[i] \in Nat /\ i \in i..endOf[i]
  <2>1. \A i \in Opens(doc) : i \in Nat /\ endOf[i] \in Nat /\ sepOf[i] \in Nat
                              /\ i < sepOf[i] /\ sepOf[i] < endOf[i]
    BY OpenIs
  <2> QED
    BY <2>1
<1>3. k \in Opens(doc) => ~Outside(k, endOf, Opens(doc))
  BY <1>2 DEF Outside
<1>4. CASE k \in Opens(doc)
  <2>1. Resolved(doc, k) = UnionMergeSorted(Block(doc, k))
    BY <1>1, <1>4, ResolvedIs
  <2>2. /\ UnionMergeSorted(Block(doc, k)) \in Seq(Lines)
        /\ Range(UnionMergeSorted(Block(doc, k))) = Merged(Block(doc, k))
    BY <1>4, UnionKeeps
  <2> QED
    BY <1>3, <1>4, <2>1, <2>2
<1>5. CASE \E i \in Opens(doc) : i < k /\ k <= endOf[i]
  <2>1. Resolved(doc, k) = <<>>
    BY <1>1, <1>5, ResolvedIs
  <2>2. k \notin Opens(doc)
    BY <1>1, <1>5, Apart
  <2>3. ~Outside(k, endOf, Opens(doc))
    BY <1>1, <1>2, <1>5 DEF Outside
  <2>4. Range(<<>>) = {} /\ <<>> \in Seq(Lines)
    BY DEF Range
  <2> QED
    BY <2>1, <2>2, <2>3, <2>4
<1>6. CASE k \notin Opens(doc) /\ \A i \in Opens(doc) : ~(i < k /\ k <= endOf[i])
  <2>1. Resolved(doc, k) = <<doc[k]>>
    BY <1>1, <1>6, ResolvedIs
  <2>2. Outside(k, endOf, Opens(doc))
    <3>1. ASSUME NEW i \in Opens(doc), k \in i..endOf[i] PROVE FALSE
      <4>1. i = k \/ (i < k /\ k <= endOf[i])
        BY <1>1, <1>2, <3>1
      <4> QED
        BY <1>6, <4>1
    <3> QED
      BY <3>1 DEF Outside
  <2>3. PICK x \in Lines : x = doc[k]
    BY <1>1
  <2>4. Range(<<x>>) = {x} /\ <<x>> \in Seq(Lines)
    BY DEF Range
  <2> QED
    BY <1>6, <2>1, <2>2, <2>3, <2>4
<1> QED
  BY <1>4, <1>5, <1>6

\* A line that is not blank is put out if and only if a side has it, and no
\* opening marker is put out.
LEMMA LinesKept ==
  ASSUME NEW doc, NEW sepOf, NEW endOf, Parted(doc, sepOf, endOf),
         PlainContent(doc, sepOf, endOf), RowsDetermined(doc), NEW line
  PROVE  /\ line.kind # "blank"
              => ((\E k \in 1..Len(doc) : line \in Range(Resolved(doc, k)))
                    <=> \E k \in Side(doc, "ours") \cup Side(doc, "theirs") : line = doc[k])
         /\ (\E k \in 1..Len(doc) : line \in Range(Resolved(doc, k))) => line.kind # "opens"
<1>1. PICK n \in Nat : n = Len(doc) /\ DOMAIN doc = 1..n
  BY Lengths DEF Parted
<1>2. ASSUME NEW k \in 1..n, line \in Range(Resolved(doc, k))
      PROVE  /\ line.kind # "opens"
             /\ \E j \in Side(doc, "ours") \cup Side(doc, "theirs") : line = doc[j]
  <2>1. CASE k \in Opens(doc)
    <3>1. line \in Merged(Block(doc, k))
      BY <1>1, <1>2, <2>1, PartIs
    <3>2. PICK j \in k + 1..endOf[k] - 1 : j # sepOf[k] /\ line = doc[j]
      BY <2>1, <3>1, MergedIs
    <3>3. line.kind \in {"row", "comment", "blank"}
      BY <2>1, <3>2 DEF PlainContent
    <3>4. j \in 1..n
      <4>1. endOf[k] \in 1..n
        BY <1>1, <2>1, OpenIs
      <4> QED
        BY <3>2, <4>1
    <3>5. Inside(j, sepOf, endOf, Opens(doc))
      BY <2>1, <3>2 DEF Inside
    <3>6. j \in Side(doc, "ours") \cup Side(doc, "theirs")
      BY <1>1, <3>4, <3>5, SideIs
    <3> QED
      BY <3>2, <3>3, <3>6
  <2>2. CASE k \notin Opens(doc)
    <3>1. line = doc[k] /\ Outside(k, endOf, Opens(doc))
      BY <1>1, <1>2, <2>2, PartIs
    <3>2. k \in Side(doc, "ours") \cup Side(doc, "theirs")
      BY <1>1, <3>1, SideIs
    <3>3. doc[k].kind # "opens"
      BY <1>1, <2>2 DEF Opens, IsA
    <3> QED
      BY <3>1, <3>2, <3>3
  <2> QED
    BY <2>1, <2>2
<1>3. ASSUME NEW j \in Side(doc, "ours") \cup Side(doc, "theirs"), line = doc[j],
             line.kind # "blank"
      PROVE  \E k \in 1..n : line \in Range(Resolved(doc, k))
  <2>1. j \in 1..n /\ (Inside(j, sepOf, endOf, Opens(doc)) \/ Outside(j, endOf, Opens(doc)))
    BY <1>1, SideIs
  <2>2. CASE Inside(j, sepOf, endOf, Opens(doc))
    <3>1. PICK i \in Opens(doc) : j \in i + 1..endOf[i] - 1 /\ j # sepOf[i]
      BY <2>2 DEF Inside
    <3>2. line \in Merged(Block(doc, i))
      BY <1>3, <3>1, MergedIs
    <3>3. i \in 1..n
      BY <1>1, OpenIs
    <3>4. Range(Resolved(doc, i)) = Merged(Block(doc, i))
      BY <1>1, <3>3, PartIs
    <3> QED
      BY <3>2, <3>3, <3>4
  <2>3. CASE Outside(j, endOf, Opens(doc))
    <3>1. Resolved(doc, j) = <<doc[j]>>
      BY <1>1, <2>1, <2>3, PartIs
    <3>2. \A x : x \in Range(<<x>>)
      BY DEF Range
    <3> QED
      BY <1>3, <2>1, <3>1, <3>2
  <2> QED
    BY <2>1, <2>2, <2>3
<1> QED
  BY <1>1, <1>2, <1>3

\* The resolution is the same whichever branch is rebased.
LEMMA SameResolution ==
  ASSUME NEW doc, NEW sepOf, NEW endOf, Parted(doc, sepOf, endOf),
         PlainContent(doc, sepOf, endOf)
  PROVE  Resolve(Swapped(doc)) = Resolve(doc)
<1>1. PICK turned : turned = Swapped(doc)
  OBVIOUS
<1>2. PICK n \in Nat : n = Len(doc) /\ n = Len(turned)
  <2>1. Len(doc) \in Nat
    BY Lengths DEF Parted
  <2> QED
    BY <1>1, <2>1, SwappedIsLines
<1>3. PICK part : \A k \in 1..n : part[k] = Resolved(doc, k)
  <2>1. \A k \in 1..n : [j \in 1..n |-> Resolved(doc, j)][k] = Resolved(doc, k)
    OBVIOUS
  <2> QED
    BY <2>1
<1>4. \A k \in 1..n : part[k] = Resolved(turned, k)
  BY <1>1, <1>2, <1>3, ResolvedSwap
<1>5. PICK a : Joins(a, part, n) /\ Resolve(doc) = a[n]
  BY <1>2, <1>3, ResolveJoins
<1>6. PICK b : Joins(b, part, n) /\ Resolve(turned) = b[n]
  BY <1>2, <1>4, ResolveJoins
<1>7. a[n] = b[n]
  BY <1>5, <1>6, JoinsSame
<1> QED
  BY <1>1, <1>5, <1>6, <1>7

\* The protected head and foot are put out as they are.
LEMMA EndsKept ==
  ASSUME NEW doc, NEW sepOf, NEW endOf, Parted(doc, sepOf, endOf),
         PlainContent(doc, sepOf, endOf), RowsDetermined(doc),
         Preamble \in Nat, Footer \in Nat, Opens(doc) # {},
         \A i \in Opens(doc) : Preamble < i /\ endOf[i] + Footer < Len(doc),
         NEW part, NEW out, NEW n \in Nat, n = Len(doc), Joins(out, part, n),
         \A k \in 1..n : part[k] = Resolved(doc, k)
  PROVE  /\ SubSeq(out[n], 1, Preamble) = SubSeq(doc, 1, Preamble)
         /\ Foot(Footer, out[n]) = Foot(Footer, doc)
<1>1. PICK p \in Nat : p = Preamble
  OBVIOUS
<1>2. PICK f \in Nat : f = Footer
  OBVIOUS
<1>3. \A i \in Opens(doc) : /\ i \in 1..n /\ endOf[i] \in 1..n /\ i < endOf[i]
                            /\ p < i /\ endOf[i] + f < n
  <2>1. \A i \in Opens(doc) : i \in 1..n /\ endOf[i] \in 1..n /\ sepOf[i] \in 1..n
                              /\ i < sepOf[i] /\ sepOf[i] < endOf[i]
    BY OpenIs
  <2> QED
    BY <1>1, <1>2, <2>1
<1>4. PICK q \in Nat : q = n - f /\ p \in 0..n /\ q \in 0..n
  <2>1. PICK i : i \in Opens(doc)
    OBVIOUS
  <2>2. PICK e \in 1..n : e = endOf[i]
    BY <1>3, <2>1
  <2>3. p < i /\ i \in 1..n /\ e + f < n
    BY <1>3, <2>1, <2>2
  <2>4. n - f \in Nat /\ n - f \in 0..n /\ p \in 0..n
    BY <1>1, <1>2, <2>2, <2>3
  <2> QED
    BY <2>4
<1>5. \A k \in 1..n : doc[k] \in Lines
  BY DEF Parted
<1>6. \A k \in 1..n : part[k] \in Seq(Lines)
  BY PartIs
<1>a. \A k \in 1..n : part[k] \in Seq(Lines) /\ doc[k] \in Lines
  BY <1>5, <1>6
<1>7. ASSUME NEW k \in 1..n, k <= p \/ k > q PROVE part[k] = <<doc[k]>>
  <2>1. ASSUME NEW i \in Opens(doc) PROVE k \notin i..endOf[i]
    <3>1. PICK e \in 1..n : e = endOf[i]
      BY <1>3
    <3>2. i \in 1..n /\ p < i /\ e + f < n
      BY <1>3, <3>1
    <3>3. k \notin i..e
      BY <1>4, <1>7, <3>2
    <3> QED
      BY <3>1, <3>3
  <2>2. Outside(k, endOf, Opens(doc))
    BY <2>1 DEF Outside
  <2> QED
    BY <2>2, PartIs
<1>8. PICK result \in Seq(Lines) : result = out[n]
  <2>1. n \in 0..n
    OBVIOUS
  <2> QED
    BY <1>6, <2>1, JoinsRange
<1>9. PICK m \in Nat : m = Len(result)
  BY <1>8, Lengths
<1>10. p <= m /\ \A i \in 1..p : result[i] = doc[i]
  <2>1. out[0] = <<>> /\ Len(<<>>) = 0
    BY DEF Joins
  <2>2. 0 \in 0..n /\ p \in 0..n /\ 0 \in Nat /\ \A k \in 0 + 1..p : k \in 1..n /\ k <= p
    BY <1>4
  <2>3. \A k \in 0 + 1..p : part[k] = <<doc[k]>>
    BY <1>7, <2>2
  <2>4. Len(out[p]) = 0 + (p - 0) /\ \A i \in 1..p - 0 : out[p][0 + i] = doc[0 + i]
    <3>1. 0 \in 0..n /\ p \in 0..n /\ 0 \in Nat /\ 0 = Len(out[0])
      BY <2>1, <2>2
    <3>2. PlainRun(out, part, n, doc, 0, p, 0)
      BY <1>4, <1>a, <2>2, <2>3, <3>1 DEF PlainRun
    <3> QED
      BY <3>2, JoinsPlain DEF RunMade
  <2>5. Len(out[p]) = p /\ \A i \in 1..p : out[p][i] = doc[i]
    BY <2>4
  <2>6. n \in p..n
    BY <1>4
  <2>7. Len(out[p]) <= Len(out[n]) /\ \A i \in 1..Len(out[p]) : out[n][i] = out[p][i]
    <3>1. p \in 0..n
      BY <1>4
    <3>2. \A j \in p..n : /\ Len(out[p]) <= Len(out[j])
                          /\ \A i \in 1..Len(out[p]) : out[j][i] = out[p][i]
      BY <1>6, <3>1, JoinsGrow, SMTT(30)
    <3> QED
      BY <2>6, <3>2
  <2> QED
    BY <1>8, <1>9, <2>5, <2>7
<1>11. PICK l \in Nat : l = Len(out[q])
  <2>1. out[q] \in Seq(Lines)
    BY <1>4, <1>6, JoinsRange
  <2> QED
    BY <2>1, Lengths
<1>12. m = l + f /\ \A i \in 1..f : result[l + i] = doc[q + i]
  <2>1. n \in q..n /\ n - q = f /\ \A k \in q + 1..n : k \in 1..n /\ k > q
    BY <1>4
  <2>2. \A k \in q + 1..n : part[k] = <<doc[k]>>
    BY <1>7, <2>1
  <2>3. Len(out[n]) = l + (n - q) /\ \A i \in 1..n - q : out[n][l + i] = doc[q + i]
    <3>1. q \in 0..n /\ l \in Nat /\ l = Len(out[q])
      BY <1>4, <1>11
    <3>2. n \in q..n
      BY <2>1
    <3>3. PlainRun(out, part, n, doc, q, n, l)
      BY <1>a, <2>2, <3>1, <3>2 DEF PlainRun
    <3> QED
      <4>1. RunMade(out, doc, q, n, l)
        BY <3>3, JoinsPlain
      <4> QED
        BY <4>1 DEF RunMade
  <2> QED
    BY <1>8, <1>9, <2>1, <2>3
<1>13. \A i \in 1..m : result[i] \in Lines
  BY <1>8, <1>9
<1>14. SubSeq(result, 1, p) = SubSeq(doc, 1, p)
  <2>1. \A i \in 1..p : result[i] \in Lines /\ doc[i] \in Lines
    BY <1>4, <1>5, <1>9, <1>10, <1>13
  <2>2. PICK a : a = SubSeq(result, 1, p)
    OBVIOUS
  <2>3. PICK b : b = SubSeq(doc, 1, p)
    OBVIOUS
  <2>4. /\ a \in Seq(Lines) /\ Len(a) = IF 1 <= p THEN p - 1 + 1 ELSE 0
        /\ \A i \in 1..p - 1 + 1 : a[i] = result[1 + i - 1]
    BY <2>1, <2>2, SubSeqProperties
  <2>5. /\ b \in Seq(Lines) /\ Len(b) = IF 1 <= p THEN p - 1 + 1 ELSE 0
        /\ \A i \in 1..p - 1 + 1 : b[i] = doc[1 + i - 1]
    BY <2>1, <2>3, SubSeqProperties
  <2>6. Len(a) = p /\ Len(b) = p /\ \A i \in 1..p : a[i] = result[i] /\ b[i] = doc[i]
    <3>1. p - 1 + 1 = p /\ (IF 1 <= p THEN p - 1 + 1 ELSE 0) = p
          /\ \A i \in 1..p : 1 + i - 1 = i
      OBVIOUS
    <3> QED
      BY <2>4, <2>5, <3>1
  <2>7. \A i \in 1..Len(b) : a[i] = b[i]
    BY <1>10, <2>6
  <2> QED
    BY <2>2, <2>3, <2>4, <2>5, <2>6, <2>7, SameSequence
<1>15. SubSeq(result, m - f + 1, m) = SubSeq(doc, n - f + 1, n)
  <2>1. PICK c \in Int : c = m - f + 1 /\ m - c + 1 = f /\ c = l + 1
    BY <1>12
  <2>2. PICK d \in Int : d = n - f + 1 /\ n - d + 1 = f /\ d = q + 1
    <3>1. q = n - f
      BY <1>4
    <3>2. n - f + 1 \in Int /\ n - (n - f + 1) + 1 = f /\ n - f + 1 = q + 1
      BY <1>2, <3>1
    <3> QED
      BY <3>2
  <2>3. \A i \in c..m : result[i] \in Lines
    <3>1. \A i \in c..m : i \in 1..m
      BY <1>9, <2>1
    <3> QED
      BY <1>13, <3>1
  <2>4. \A i \in d..n : doc[i] \in Lines
    <3>1. \A i \in d..n : i \in 1..n
      BY <2>2
    <3> QED
      BY <1>5, <3>1
  <2>5. PICK a : a = SubSeq(result, c, m)
    OBVIOUS
  <2>6. PICK b : b = SubSeq(doc, d, n)
    OBVIOUS
  <2>7. /\ a \in Seq(Lines) /\ Len(a) = IF c <= m THEN m - c + 1 ELSE 0
        /\ \A i \in 1..m - c + 1 : a[i] = result[c + i - 1]
    BY <1>9, <2>3, <2>5, SubSeqProperties
  <2>8. /\ b \in Seq(Lines) /\ Len(b) = IF d <= n THEN n - d + 1 ELSE 0
        /\ \A i \in 1..n - d + 1 : b[i] = doc[d + i - 1]
    BY <2>4, <2>6, SubSeqProperties
  <2>9. /\ (IF c <= m THEN m - c + 1 ELSE 0) = f /\ (IF d <= n THEN n - d + 1 ELSE 0) = f
        /\ \A i \in 1..f : c + i - 1 = l + i /\ d + i - 1 = q + i
    BY <1>9, <1>12, <2>1, <2>2
  <2>10. Len(a) = f /\ \A i \in 1..f : a[i] = result[l + i]
    BY <2>1, <2>7, <2>9
  <2>11. Len(b) = f /\ \A i \in 1..f : b[i] = doc[q + i]
    BY <2>2, <2>8, <2>9
  <2>12. \A i \in 1..Len(b) : a[i] = b[i]
    BY <1>12, <2>10, <2>11
  <2>13. a = b
    BY <2>7, <2>8, <2>10, <2>11, <2>12, SameSequence
  <2> QED
    BY <2>1, <2>2, <2>5, <2>6, <2>13
<1> QED
  BY <1>1, <1>2, <1>8, <1>9, <1>14, <1>15 DEF Foot

\* What is kept of a document that is not refused.
LEMMA ResolutionsAreKept ==
  ASSUME NEW doc \in Documents, ~Refused(doc)
  PROVE  ResolutionKeeps(doc)
<1>1. Preamble \in Nat /\ Footer \in Nat /\ RowsDetermined(doc)
  BY DocumentsAssumption, UnrefusedIs
<1>2. PICK sepOf, endOf :
        /\ Parted(doc, sepOf, endOf) /\ PlainContent(doc, sepOf, endOf)
        /\ \A i \in Opens(doc) : Preamble < i /\ endOf[i] + Footer < Len(doc)
  BY UnrefusedIs
<1>3. PICK n \in Nat : n = Len(doc)
  BY <1>2, Lengths DEF Parted
<1>4. PICK part : \A k \in 1..n : part[k] = Resolved(doc, k)
  <2>1. \A k \in 1..n : [j \in 1..n |-> Resolved(doc, j)][k] = Resolved(doc, k)
    OBVIOUS
  <2> QED
    BY <2>1
<1>5. PICK out : Joins(out, part, n) /\ Resolve(doc) = out[n]
  BY <1>3, <1>4, ResolveJoins
<1>6. PICK result : result = Resolve(doc)
  OBVIOUS
<1>7. \A k \in 1..n : part[k] \in Seq(Lines)
  BY <1>1, <1>2, <1>3, <1>4, PartIs
<1>8. result \in Seq(Lines) /\ \A x : x \in Range(result) <=> \E k \in 1..n : x \in Range(part[k])
  <2>1. n \in 0..n
    OBVIOUS
  <2> QED
    <3>1. Joins(out, part, n) /\ result = out[n]
      BY <1>5, <1>6
    <3>2. out[n] \in Seq(Lines)
      BY <1>7, <2>1, <3>1, JoinsRange
    <3>3. SameLines(out, part, n)
      BY <1>7, <2>1, <3>1, JoinsRange
    <3> QED
      BY <3>1, <3>2, <3>3 DEF SameLines
<1>9. \A x : x \in Range(result) <=> \E k \in 1..Len(doc) : x \in Range(Resolved(doc, k))
  BY <1>3, <1>4, <1>8
<1> DEFINE sides == Side(doc, "ours") \cup Side(doc, "theirs")
<1>10. Content(Range(result)) = Content({doc[i] : i \in sides})
  <2>1. ASSUME NEW x, x.kind # "blank"
        PROVE  x \in Range(result) <=> \E i \in sides : x = doc[i]
    BY <1>1, <1>2, <1>9, <2>1, LinesKept
  <2> HIDE DEF sides
  <2> QED
    BY <2>1 DEF Content
<1>11. Opens(result) = {}
  <2>1. \A x \in Range(result) : x.kind # "opens"
    BY <1>1, <1>2, <1>9, LinesKept
  <2> QED
    BY <2>1 DEF Opens, IsA, Range
<1>12. result = Resolve(Swapped(doc))
  BY <1>2, <1>6, SameResolution
<1>13. ASSUME Blocks(doc) # {}
       PROVE  /\ SubSeq(result, 1, Preamble) = SubSeq(doc, 1, Preamble)
              /\ Foot(Footer, result) = Foot(Footer, doc)
  <2>1. Opens(doc) # {}
    BY <1>13 DEF Blocks
  <2> QED
    BY <1>1, <1>2, <1>3, <1>4, <1>5, <1>6, <2>1, EndsKept
<1> HIDE DEF sides
<1> QED
  BY <1>6, <1>10, <1>11, <1>12, <1>13, Zenon DEF ResolutionKeeps, sides

(* A conflict that is resolved keeps what either branch added and nothing  *)
(* else, is resolved the same from either side, and leaves the head and    *)
(* the foot alone (resolve_cumulative_md_conflict, cumulative_md.rs        *)
(* 80-116).                                                                *)
THEOREM BothSidesKept == MdKeepsBothSides
<1>1. ResolutionsKeep
  BY ResolutionsAreKept DEF ResolutionsKeep
<1> QED
  BY <1>1 DEF MdKeepsBothSides
==============================================================================
