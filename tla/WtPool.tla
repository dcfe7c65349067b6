------------------------------- MODULE WtPool --------------------------------
(***************************************************************************)
(* The worktree pool of wtpool (src/wtpool/src/pool.rs): pool_acquire and  *)
(* pool_release, one action per read, git command or lock operation, run   *)
(* by any number of processes (MCP servers, CLI invocations) over shared   *)
(* git state.  A request runs on behalf of one worker, so pc[w] is the     *)
(* program counter of the process that serves worker w; the process may    *)
(* crash between any two steps.                                            *)
(*                                                                         *)
(* A commit made by a worker is an element of Commits; a tip (of main, of  *)
(* a branch, of a detached HEAD) is the set of those commits reachable     *)
(* from it, so "reachable from main" is inclusion.  A slot's files are the *)
(* kinds of uncommitted files in it; "cargo" is a tracked file below       *)
(* .cargo/ with changes (an untracked one is the template's own, which no  *)
(* step touches).                                                          *)
(*                                                                         *)
(* The pool keeps no record of who has a slot.  holds[w] is what worker w  *)
(* believes; lent[w] is a history variable, the slot on loan to w: from    *)
(* the checkout that gives it to w to the detach of any release of it.     *)
(***************************************************************************)
EXTENDS Integers

CONSTANTS
  Slots,              \* the wt-NN directories, numbered in path order
  Workers,            \* who asks for a slot; one request at a time each
  Branches,           \* branch names callers pass
  Commits,            \* the commits workers may create (bounds the model)
  None,               \* no worker, no slot; as a HEAD or a request: detached
  Serial,             \* TRUE: one MCP server serves every request in turn
  DetachedAcquire,    \* TRUE: callers may omit branch_name
  CarefulCallers,     \* TRUE: nobody asks while a slot lent without a branch,
                      \* which still counts as free, is out
  WorkDuringRelease,  \* TRUE: a worker still writes while its slot is released
  ForceRelease,       \* TRUE: callers may pass force=true
  HoldersRelease,     \* TRUE: a caller releases no slot but the one it holds
  EditKinds           \* the kinds of uncommitted files workers leave

ASSUME PoolAssumption ==
  /\ Slots \subseteq Nat
  /\ None \notin Slots /\ None \notin Workers /\ None \notin Branches
  /\ EditKinds \subseteq {"tracked", "untracked", "ignored", "cargo"}
  /\ {Serial, DetachedAcquire, CarefulCallers, WorkDuringRelease, ForceRelease, HoldersRelease}
       \subseteq BOOLEAN

VARIABLES
  main,    \* tip of main
  refs,    \* branches that exist in the repository
  tip,     \* tip[b]: tip of branch b (meaningful while b \in refs)
  head,    \* head[s]: branch slot s is on, None when its HEAD is detached
  at,      \* at[s]: the commit a detached HEAD of s points at
  files,   \* files[s]: kinds of uncommitted files in slot s
  lock,    \* lock[s]: whose process holds the flock of slot s
  pc,      \* where the process serving w is
  want,    \* the request's branch_name, None when omitted
  base,    \* resolved_base of an acquire, main_tip of a release
  todo,    \* slots of the acquire's inventory not tried yet
  cur,     \* slot the request is at
  force,   \* the release's force flag
  old,     \* branch the release found the slot on
  holds,   \* holds[w]: the slot w was granted and has not given back
  lent     \* lent[w]: the slot that is on loan to w, whatever w knows of it

git  == <<main, refs, tip, head, at, files>>
locals == <<base, todo, cur, force, old>>
vars == <<git, lock, pc, want, locals, holds, lent>>

AcquirePcs == {"inUse", "inventory", "lock", "reverify", "checkout", "reply"}
ReleasePcs == {"dirtyGate", "mergeGate", "detach", "reset", "clean", "branchD", "postVerify"}
LockedPcs  == {"reverify", "checkout", "reply"}

TypeOK ==
  /\ main \in SUBSET Commits
  /\ refs \in SUBSET Branches
  /\ tip \in [Branches -> SUBSET Commits]
  /\ head \in [Slots -> Branches \cup {None}]
  /\ at \in [Slots -> SUBSET Commits]
  /\ files \in [Slots -> SUBSET EditKinds]
  /\ lock \in [Slots -> Workers \cup {None}]
  /\ pc \in [Workers -> {"idle"} \cup AcquirePcs \cup ReleasePcs]
  /\ want \in [Workers -> Branches \cup {None}]
  /\ base \in [Workers -> SUBSET Commits]
  /\ todo \in [Workers -> SUBSET Slots]
  /\ cur \in [Workers -> Slots \cup {None}]
  /\ force \in [Workers -> BOOLEAN]
  /\ old \in [Workers -> Branches \cup {None}]
  /\ holds \in [Workers -> Slots \cup {None}]
  /\ lent \in [Workers -> Slots \cup {None}]

Init ==
  /\ main = {}
  /\ refs = {}
  /\ tip = [b \in Branches |-> {}]
  /\ head = [s \in Slots |-> None]
  /\ at = [s \in Slots |-> {}]
  /\ files = [s \in Slots |-> {}]
  /\ lock = [s \in Slots |-> None]
  /\ pc = [w \in Workers |-> "idle"]
  /\ want = [w \in Workers |-> None]
  /\ base = [w \in Workers |-> {}]
  /\ todo = [w \in Workers |-> {}]
  /\ cur = [w \in Workers |-> None]
  /\ force = [w \in Workers |-> FALSE]
  /\ old = [w \in Workers |-> None]
  /\ holds = [w \in Workers |-> None]
  /\ lent = [w \in Workers |-> None]

-----------------------------------------------------------------------------
(* Reading the repository.  A definition marked Fault is the definition     *)
(* after it with a plausible bug; no specification here uses it.           *)

\* Fault: status is asked without include_untracked.
IsTrackedDirty(s) == "tracked" \in files[s]

\* Tracked-modified or untracked files.  Ignored files are not looked at,
\* and paths below .cargo/ are skipped, tracked or not.
IsDirty(s) == files[s] \cap {"tracked", "untracked"} # {}

\* What git status shows and git checkout takes care not to overwrite.
Shown(s) == files[s] \cap {"tracked", "untracked", "cargo"}

\* classify_slot: detached and clean is free, wherever HEAD points.
SlotFree(s) == head[s] = None /\ ~IsDirty(s)

HeadTip(s) == IF head[s] = None THEN at[s] ELSE tip[head[s]]

BranchInUse(b) == \E s \in Slots : head[s] = b

\* Fault: git checkout -B, which takes over an existing branch.
BranchTakenOver(b) == FALSE

\* git checkout -b refuses a branch that exists, checked out or not.
BranchExists(b) == b \in refs

\* Fault: the new branch starts at the slot's idle HEAD.
StartAtIdleHead(w) == HeadTip(cur[w])

\* The explicit start point of git checkout -b and of --detach.
StartPoint(w) == base[w]

\* Fault: the lock is taken, the slot not classified again.
FreeWhenListed(w) == TRUE

StillFree(w) == SlotFree(cur[w])

\* Fault: a lock attempt that never fails.
NeverContended(s) == FALSE

Contended(s) == lock[s] # None

\* Fault: ahead and behind swapped.
Behind(w) == head[cur[w]] # None /\ ~(base[w] \subseteq HeadTip(cur[w]))

\* The slot's branch has commits that main does not reach.
Unmerged(w) == head[cur[w]] # None /\ ~(HeadTip(cur[w]) \subseteq base[w])

\* Fault: the lock is the existence of a marker file (O_EXCL).
MarkerSurvives(w) == lock

\* The kernel drops the flock of a process that ends.
LocksWithout(w) == [s \in Slots |-> IF lock[s] = w THEN None ELSE lock[s]]

GoTo(w, label) == pc' = [pc EXCEPT ![w] = label]

Continue(w, label) == GoTo(w, label) /\ UNCHANGED locals

\* The call returns (or its process dies): its locals are gone.
Finish(w) ==
  /\ GoTo(w, "idle")
  /\ base' = [base EXCEPT ![w] = {}]
  /\ todo' = [todo EXCEPT ![w] = {}]
  /\ cur' = [cur EXCEPT ![w] = None]
  /\ force' = [force EXCEPT ![w] = FALSE]
  /\ old' = [old EXCEPT ![w] = None]

ForgetBranch(w) == want' = [want EXCEPT ![w] = None]

Unlock(s) == lock' = [lock EXCEPT ![s] = None]

MayStart(w) == pc[w] = "idle" /\ (Serial => \A v \in Workers : pc[v] = "idle")

-----------------------------------------------------------------------------
(* pool_acquire.                                                           *)

\* base_sha: omitted, or an old commit of main (here the first one).
Bases == {main, {}}

AcquireStart(w, b) ==
  /\ MayStart(w) /\ holds[w] = None
  /\ want' = [want EXCEPT ![w] = b]
  /\ \E c \in Bases : base' = [base EXCEPT ![w] = c]
  /\ GoTo(w, IF b = None THEN "inventory" ELSE "inUse")
  /\ UNCHANGED <<git, lock, todo, cur, force, old, holds, lent>>

AcquireBranchCheck(w) ==
  /\ pc[w] = "inUse"
  /\ \/ BranchInUse(want[w]) /\ Finish(w) /\ ForgetBranch(w)
     \/ ~BranchInUse(want[w]) /\ Continue(w, "inventory") /\ UNCHANGED want
  /\ UNCHANGED <<git, lock, holds, lent>>

\* An empty inventory leaves todo empty: "pool exhausted" at the next step.
AcquireInventory(w) ==
  /\ pc[w] = "inventory"
  /\ todo' = [todo EXCEPT ![w] = {s \in Slots : SlotFree(s)}]
  /\ GoTo(w, "lock")
  /\ UNCHANGED <<git, lock, want, base, cur, force, old, holds, lent>>

\* try_lock_exclusive on the next slot in path order; contended: go on.
AcquireTryLock(w, s) ==
  /\ pc[w] = "lock"
  /\ s \in todo[w] /\ \A t \in todo[w] : s <= t
  /\ todo' = [todo EXCEPT ![w] = @ \ {s}]
  /\ \/ /\ ~Contended(s)
        /\ lock' = [lock EXCEPT ![s] = w]
        /\ cur' = [cur EXCEPT ![w] = s]
        /\ GoTo(w, "reverify")
     \/ /\ Contended(s)
        /\ UNCHANGED <<lock, cur, pc>>
  /\ UNCHANGED <<git, want, base, force, old, holds, lent>>

AcquireExhausted(w) ==
  /\ pc[w] = "lock" /\ todo[w] = {}
  /\ Finish(w) /\ ForgetBranch(w)
  /\ UNCHANGED <<git, lock, holds, lent>>

\* Classify again under the lock; no longer free: drop the lock, go on.
AcquireReverify(w) ==
  /\ pc[w] = "reverify"
  /\ \/ /\ StillFree(w)
        /\ Continue(w, "checkout") /\ UNCHANGED lock
     \/ /\ ~StillFree(w)
        /\ Continue(w, "lock") /\ Unlock(cur[w])
  /\ UNCHANGED <<git, want, holds, lent>>

\* git carries edits along to another commit, unless they touch files that
\* differ between the two commits.
CheckoutMayFail(s, commit) == Shown(s) # {} /\ HeadTip(s) # commit

\* The error of a checkout ends the call: the other free slots are not tried.
AcquireFails(w) ==
  /\ Finish(w) /\ ForgetBranch(w) /\ Unlock(cur[w])
  /\ UNCHANGED <<refs, tip, head, at, lent>>

Lend(w) == lent' = [lent EXCEPT ![w] = cur[w]]

\* git checkout -b <want> <base>, which git refuses when the branch exists.
AcquireCheckoutBranch(w) ==
  /\ pc[w] = "checkout" /\ want[w] # None
  /\ \/ /\ ~BranchExists(want[w])
        /\ refs' = refs \cup {want[w]}
        /\ tip' = [tip EXCEPT ![want[w]] = StartPoint(w)]
        /\ head' = [head EXCEPT ![cur[w]] = want[w]]
        /\ at' = [at EXCEPT ![cur[w]] = {}]
        /\ Continue(w, "reply") /\ Lend(w)
        /\ UNCHANGED <<lock, want>>
     \/ /\ BranchExists(want[w]) \/ CheckoutMayFail(cur[w], StartPoint(w))
        /\ AcquireFails(w)
  /\ UNCHANGED <<main, files, holds>>

\* git checkout --detach <base>.
AcquireCheckoutDetached(w) ==
  /\ pc[w] = "checkout" /\ want[w] = None
  /\ \/ /\ head' = [head EXCEPT ![cur[w]] = None]
        /\ at' = [at EXCEPT ![cur[w]] = StartPoint(w)]
        /\ Continue(w, "reply") /\ Lend(w)
        /\ UNCHANGED <<refs, tip, lock, want>>
     \/ /\ CheckoutMayFail(cur[w], StartPoint(w))
        /\ AcquireFails(w)
  /\ UNCHANGED <<main, files, holds>>

\* Fault: the reply names the branch, not the slot.
ReplyPayloadBranch(w) == want[w]

ReplyPayload(w) == cur[w]

\* drop(lock) and the Ok payload.
AcquireReply(w) ==
  /\ pc[w] = "reply"
  /\ Unlock(cur[w])
  /\ holds' = [holds EXCEPT ![w] = ReplyPayload(w)]
  /\ Finish(w)
  /\ UNCHANGED <<git, want, lent>>

Acquire(w) ==
  \/ AcquireBranchCheck(w)
  \/ AcquireInventory(w)
  \/ \E s \in Slots : AcquireTryLock(w, s)
  \/ AcquireExhausted(w)
  \/ AcquireReverify(w)
  \/ AcquireCheckoutBranch(w)
  \/ AcquireCheckoutDetached(w)
  \/ AcquireReply(w)

-----------------------------------------------------------------------------
(* pool_release.  It takes no lock, and it asks only that the path lies in  *)
(* the pool: whoever has the slot, or nobody, any caller may release it.   *)

ReleaseStart(w, s, f) ==
  /\ MayStart(w)
  /\ cur' = [cur EXCEPT ![w] = s]
  /\ force' = [force EXCEPT ![w] = f]
  /\ base' = [base EXCEPT ![w] = main]
  /\ GoTo(w, "dirtyGate")
  /\ UNCHANGED <<git, lock, want, todo, old, holds, lent>>

ReleaseDirtyGate(w) ==
  /\ pc[w] = "dirtyGate"
  /\ IF ~force[w] /\ IsDirty(cur[w]) THEN Finish(w) ELSE Continue(w, "mergeGate")
  /\ UNCHANGED <<git, lock, want, holds, lent>>

\* HEAD is read here; a branch with commits main does not have is refused.
ReleaseMergeGate(w) ==
  /\ pc[w] = "mergeGate"
  /\ \/ /\ ~force[w] /\ Unmerged(w)
        /\ Finish(w)
     \/ /\ force[w] \/ ~Unmerged(w)
        /\ old' = [old EXCEPT ![w] = head[cur[w]]]
        /\ GoTo(w, "detach")
        /\ UNCHANGED <<base, todo, cur, force>>
  /\ UNCHANGED <<git, lock, want, holds, lent>>

\* git checkout --detach <main_tip>.  From here on the slot is on loan to
\* nobody; the worker who asked gives up its claim to it, and its branch.
ReleaseDetach(w) ==
  /\ pc[w] = "detach"
  /\ \/ /\ head' = [head EXCEPT ![cur[w]] = None]
        /\ at' = [at EXCEPT ![cur[w]] = base[w]]
        /\ lent' = [v \in Workers |-> IF lent[v] = cur[w] THEN None ELSE lent[v]]
        /\ \/ holds[w] = cur[w] /\ holds' = [holds EXCEPT ![w] = None] /\ ForgetBranch(w)
           \/ holds[w] # cur[w] /\ UNCHANGED <<holds, want>>
        /\ Continue(w, "reset")
     \/ /\ CheckoutMayFail(cur[w], base[w])
        /\ Finish(w)
        /\ UNCHANGED <<head, at, want, holds, lent>>
  /\ UNCHANGED <<main, refs, tip, files, lock>>

\* git reset --hard <main_tip> moves whatever HEAD is on by now.
ReleaseReset(w) ==
  LET s == cur[w] IN
  /\ pc[w] = "reset"
  /\ files' = [files EXCEPT ![s] = @ \ {"tracked", "cargo"}]
  /\ \/ /\ head[s] = None
        /\ at' = [at EXCEPT ![s] = base[w]]
        /\ UNCHANGED tip
     \/ /\ head[s] # None
        /\ tip' = [tip EXCEPT ![head[s]] = base[w]]
        /\ UNCHANGED at
  /\ Continue(w, "clean")
  /\ UNCHANGED <<main, refs, head, lock, want, holds, lent>>

\* git clean -fdx -e .cargo
ReleaseClean(w) ==
  /\ pc[w] = "clean"
  /\ files' = [files EXCEPT ![cur[w]] = @ \ {"untracked", "ignored"}]
  /\ Continue(w, "branchD")
  /\ UNCHANGED <<main, refs, tip, head, at, lock, want, holds, lent>>

\* git branch -D, best effort: git keeps a branch some worktree is on.
ReleaseDeleteBranch(w) ==
  LET gone == {b \in {old[w]} \cap refs : ~BranchInUse(b)} IN
  /\ pc[w] = "branchD"
  /\ refs' = refs \ gone
  /\ tip' = [b \in Branches |-> IF b \in gone THEN {} ELSE tip[b]]
  /\ Continue(w, "postVerify")
  /\ UNCHANGED <<main, head, at, files, lock, want, holds, lent>>

\* verify_post_release only decides between Ok and Err.
ReleaseVerify(w) ==
  /\ pc[w] = "postVerify"
  /\ Finish(w)
  /\ UNCHANGED <<git, lock, want, holds, lent>>

Release(w) ==
  \/ ReleaseDirtyGate(w)
  \/ ReleaseMergeGate(w)
  \/ ReleaseDetach(w)
  \/ ReleaseReset(w)
  \/ ReleaseClean(w)
  \/ ReleaseDeleteBranch(w)
  \/ ReleaseVerify(w)

-----------------------------------------------------------------------------
(* The rest of the world.                                                  *)

\* The process serving w dies: no reply, and the kernel drops its flock.  A
\* grant whose reply is lost is on loan to nobody, though it looks in use.
Crash(w) ==
  /\ pc[w] # "idle"
  /\ lock' = LocksWithout(w)
  /\ Finish(w)
  /\ want' = [want EXCEPT ![w] = IF holds[w] = None THEN None ELSE @]
  /\ lent' = [lent EXCEPT ![w] = IF pc[w] = "reply" THEN None ELSE @]
  /\ UNCHANGED <<git, holds>>

\* Where a worker writes: the slot it holds while it has no request pending
\* and, if it does not wait for the reply, the slot being released for it.
\* Nothing tells it that somebody else has released its slot.
WorksIn(w, s) ==
  \/ pc[w] = "idle" /\ holds[w] = s
  \/ WorkDuringRelease /\ pc[w] \in ReleasePcs /\ cur[w] = s

Edit(w, s, kind) ==
  /\ WorksIn(w, s)
  /\ files' = [files EXCEPT ![s] = @ \cup {kind}]
  /\ UNCHANGED <<main, refs, tip, head, at, lock, pc, want, locals, holds, lent>>

\* git add + git commit of everything git status shows, onto HEAD.
Commit(w, s, c) ==
  /\ WorksIn(w, s) /\ Shown(s) # {}
  /\ c \notin main /\ \A b \in Branches : c \notin tip[b]
  /\ \A t \in Slots : c \notin at[t]
  /\ files' = [files EXCEPT ![s] = @ \cap {"ignored"}]
  /\ \/ /\ head[s] = None
        /\ at' = [at EXCEPT ![s] = @ \cup {c}]
        /\ UNCHANGED tip
     \/ /\ head[s] # None
        /\ tip' = [tip EXCEPT ![head[s]] = @ \cup {c}]
        /\ UNCHANGED at
  /\ UNCHANGED <<main, refs, head, lock, pc, want, locals, holds, lent>>

\* merge_to_main of some branch (MergeToMain is its own module).
Merge(b) ==
  /\ b \in refs
  /\ main' = main \cup tip[b]
  /\ UNCHANGED <<refs, tip, head, at, files, lock, pc, want, locals, holds, lent>>

DetachedLoan == \E w \in Workers : lent[w] # None /\ head[lent[w]] = None

MayAsk == CarefulCallers => ~DetachedLoan

Request(w) ==
  \/ MayAsk /\ \E b \in Branches : AcquireStart(w, b)
  \/ MayAsk /\ DetachedAcquire /\ AcquireStart(w, None)
  \/ \E s \in Slots, f \in BOOLEAN :
       /\ HoldersRelease => holds[w] = s
       /\ f => ForceRelease
       /\ ReleaseStart(w, s, f)

Work(w) ==
  \E s \in Slots : \/ \E kind \in EditKinds : Edit(w, s, kind)
                   \/ \E c \in Commits : Commit(w, s, c)

Next ==
  \/ \E w \in Workers : Request(w) \/ Acquire(w) \/ Release(w) \/ Crash(w) \/ Work(w)
  \/ \E b \in Branches : Merge(b)

Spec == Init /\ [][Next]_vars

\* A process that is running keeps running (or dies); nothing makes a worker
\* ask, work or merge.
FairSpec == Spec /\ \A w \in Workers : WF_vars(Acquire(w) \/ Release(w))

-----------------------------------------------------------------------------
(* Properties.                                                             *)

Owns(w, s) == lent[w] = s

(* A slot is never on loan to two workers, whatever acquires, releases and *)
(* crashes overlap: flock plus re-classification under it (pool.rs         *)
(* 337-355).  A release by somebody else ends a loan like any other.       *)
Exclusive ==
  \A s \in Slots : \A v, w \in Workers : Owns(v, s) /\ Owns(w, s) => v = w

(* While a slot is on loan to a worker that asked for a branch, the slot   *)
(* stays on that branch and no other slot is on it (git checkout -b is the *)
(* arbiter).                                                               *)
OwnerKeepsBranch ==
  \A w \in Workers, s \in Slots :
    Owns(w, s) /\ want[w] # None =>
      /\ head[s] = want[w] /\ want[w] \in refs
      /\ \A t \in Slots : head[t] = want[w] => t = s

(* An acquire answers Ok only with the slot clean and its HEAD at the base *)
(* it reports, "slot HEAD == resolved_base" (pool.rs 361-362).             *)
GrantAtBase ==
  \A w \in Workers :
    pc[w] = "reply" => HeadTip(cur[w]) = base[w] /\ ~IsDirty(cur[w])

ForcedStep(w) == force[w] /\ pc[w] \in ReleasePcs /\ pc'[w] # pc[w]

OnBranches == main \cup UNION {tip[b] : b \in refs}

Everywhere == OnBranches \cup UNION {at[s] : s \in Slots}

(* Without force no step takes a commit from every branch that has it: a   *)
(* release refuses a branch with commits main does not reach (pool.rs      *)
(* 441-445, "would silently lose work").                                   *)
NoSilentLoss ==
  [][(\A w \in Workers : ~ForcedStep(w)) => OnBranches \subseteq OnBranches']_vars

(* Without force, uncommitted files outside .cargo/ disappear only into a  *)
(* new commit on the HEAD of their slot: the dirty gate of pool_release    *)
(* (pool.rs 497-515, and is_dirty's exemption, 188-195).                   *)
FilesGate ==
  [][\A s \in Slots :
       \/ files[s] \cap {"tracked", "untracked"} \subseteq files'[s]
       \/ ~(HeadTip(s)' \subseteq Everywhere)
       \/ \E w \in Workers : ForcedStep(w)]_vars

(* A flock is never held for ever, not even by a process that died inside  *)
(* the acquire window (pool.rs 50-62, 312-320).                            *)
LockFreed == \A s \in Slots : lock[s] # None ~> lock[s] = None

(* The pool implements the abstract allocator of slots.                    *)
OwnerOf(s) == IF \E w \in Workers : Owns(w, s)
              THEN CHOOSE w \in Workers : Owns(w, s) ELSE None

Lease == INSTANCE SlotLease WITH owner <- [s \in Slots |-> OwnerOf(s)]

LeaseRefined == Lease!LeaseSpec
==============================================================================
