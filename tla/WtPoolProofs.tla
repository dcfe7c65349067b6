---------------------------- MODULE WtPoolProofs -----------------------------
(***************************************************************************)
(* What is proved of the worktree pool for every set of slots, workers,    *)
(* branches and commits, with any overlap of acquires, releases, crashes   *)
(* and edits: the state is well typed, and, when callers name a branch     *)
(* (DetachedAcquire = FALSE), a slot is never on loan twice, the branch it *)
(* was lent on stays on it, and the pool implements SlotLease, whoever     *)
(* releases which slot.  With callers that omit the branch, this holds of  *)
(* one careful server at a time (Serial, CarefulCallers).  When, besides,  *)
(* callers release only what they hold (HoldersRelease), its grants are    *)
(* clean and at their base; and when workers leave a slot alone while it   *)
(* is released, nothing is lost that was not given up by force.            *)
(***************************************************************************)
EXTENDS WtPool, TLAPS

EarlyReleasePcs == {"dirtyGate", "mergeGate", "detach"}
LateReleasePcs == {"reset", "clean", "branchD", "postVerify"}

(* The flock of a slot is held by the process that is working on it.       *)
LockInv ==
  \A w \in Workers, s \in Slots :
    lock[s] = w <=> pc[w] \in LockedPcs /\ cur[w] = s

(* What a process knows of its request.                                    *)
RequestInv ==
  \A w \in Workers :
    /\ pc[w] \in AcquirePcs => want[w] # None
    /\ pc[w] = "checkout" => head[cur[w]] = None

(* A worker that has a slot on loan knows, or is about to be told.         *)
KnownInv ==
  \A w \in Workers :
    /\ pc[w] \in AcquirePcs => holds[w] = None
    /\ lent[w] # None => holds[w] = lent[w] \/ (pc[w] = "reply" /\ cur[w] = lent[w])

(* git's own rule: a branch is checked out in one worktree at most.        *)
HeadsInv ==
  \A s \in Slots :
    head[s] # None =>
      /\ head[s] \in refs
      /\ \A t \in Slots : head[t] = head[s] => t = s

(* A slot on loan is on the branch it was lent on: it cannot look free.    *)
OwnerInv ==
  \A w \in Workers, s \in Slots :
    Owns(w, s) => want[w] # None /\ head[s] = want[w]

IInv == LockInv /\ RequestInv /\ KnownInv /\ HeadsInv /\ OwnerInv /\ Exclusive
-----------------------------------------------------------------------------
(* Typing.  TypeOK is not inductive: pool_release reads the HEAD of the    *)
(* slot it is at, so a request past its first steps must be at a slot.     *)

AtSlot == \A w \in Workers : pc[w] \in LockedPcs \cup ReleasePcs => cur[w] \in Slots

Typed == TypeOK /\ AtSlot

LEMMA TypeInit == Init => Typed
BY PoolAssumption DEF Init, Typed, TypeOK, AtSlot, LockedPcs, ReleasePcs

\* The variables a request's own steps assign.
LocalsTyped ==
  /\ pc \in [Workers -> {"idle"} \cup AcquirePcs \cup ReleasePcs]
  /\ base \in [Workers -> SUBSET Commits]
  /\ todo \in [Workers -> SUBSET Slots]
  /\ cur \in [Workers -> Slots \cup {None}]
  /\ force \in [Workers -> BOOLEAN]
  /\ old \in [Workers -> Branches \cup {None}]

LEMMA FinishTyped ==
  ASSUME Typed, NEW w \in Workers, Finish(w)
  PROVE  LocalsTyped' /\ AtSlot'
BY DEF Typed, TypeOK, AtSlot, LocalsTyped, LockedPcs, ReleasePcs, Finish, GoTo

LEMMA ContinueTyped ==
  ASSUME Typed, NEW w \in Workers, pc[w] \in LockedPcs \cup ReleasePcs,
         NEW label \in AcquirePcs \cup ReleasePcs, Continue(w, label)
  PROVE  LocalsTyped' /\ AtSlot'
BY DEF Typed, TypeOK, AtSlot, LocalsTyped, Continue, GoTo, locals

LEMMA TypeStart ==
  ASSUME Typed, NEW w \in Workers, Request(w)
  PROVE  Typed'
<1> USE DEF Typed, TypeOK, AtSlot, LockedPcs, AcquirePcs, ReleasePcs, GoTo
<1>1. ASSUME NEW b \in Branches \cup {None}, AcquireStart(w, b)
      PROVE  Typed'
  <2>1. PICK c \in SUBSET Commits : base' = [base EXCEPT ![w] = c]
    BY <1>1 DEF AcquireStart, Bases
  <2>2. base' \in [Workers -> SUBSET Commits]
    BY <2>1
  <2>3. QED  BY <1>1, <2>2 DEF AcquireStart, MayStart, git
<1>2. ASSUME NEW s \in Slots, NEW f \in BOOLEAN, ReleaseStart(w, s, f)
      PROVE  Typed'
  BY <1>2 DEF ReleaseStart, MayStart, git
<1> QED
  BY <1>1, <1>2 DEF Request

LEMMA TypeAcquire ==
  ASSUME Typed, NEW w \in Workers, Acquire(w)
  PROVE  Typed'
<1>1. CASE AcquireBranchCheck(w)
  <2>1. LocalsTyped' /\ AtSlot'
    <3>1. CASE Finish(w)
      BY <3>1, FinishTyped
    <3>2. CASE Continue(w, "inventory")
      BY <3>2 DEF Typed, TypeOK, AtSlot, LocalsTyped, LockedPcs, AcquirePcs, ReleasePcs,
                  Continue, GoTo, locals
    <3> QED
      BY <1>1, <3>1, <3>2 DEF AcquireBranchCheck
  <2> QED
    BY <1>1, <2>1 DEF AcquireBranchCheck, ForgetBranch, Typed, TypeOK, LocalsTyped, git
<1>2. CASE AcquireInventory(w)
  BY <1>2 DEF AcquireInventory, GoTo, git, Typed, TypeOK, AtSlot, LockedPcs, AcquirePcs, ReleasePcs
<1>3. ASSUME NEW s \in Slots, AcquireTryLock(w, s)
      PROVE  Typed'
  <2>1. LocalsTyped' /\ AtSlot'
    BY <1>3 DEF AcquireTryLock, GoTo, Typed, TypeOK, AtSlot, LocalsTyped, LockedPcs, AcquirePcs,
                ReleasePcs
  <2>2. lock' \in [Slots -> Workers \cup {None}]
    BY <1>3 DEF AcquireTryLock, Typed, TypeOK
  <2> QED
    BY <1>3, <2>1, <2>2 DEF AcquireTryLock, git, Typed, TypeOK, LocalsTyped
<1>4. CASE AcquireExhausted(w)
  BY <1>4, FinishTyped DEF AcquireExhausted, ForgetBranch, git, Typed, TypeOK, LocalsTyped
<1>5. CASE AcquireReverify(w)
  BY <1>5, ContinueTyped
     DEF AcquireReverify, Unlock, LockedPcs, AcquirePcs, git, Typed, TypeOK, LocalsTyped
<1>6. CASE AcquireCheckoutBranch(w)
  <2>1. LocalsTyped' /\ AtSlot'
    BY <1>6, FinishTyped, ContinueTyped
       DEF AcquireCheckoutBranch, AcquireFails, LockedPcs, AcquirePcs
  <2>2. /\ refs' \in SUBSET Branches /\ tip' \in [Branches -> SUBSET Commits]
        /\ head' \in [Slots -> Branches \cup {None}] /\ at' \in [Slots -> SUBSET Commits]
    BY <1>6 DEF AcquireCheckoutBranch, AcquireFails, StartPoint, Typed, TypeOK
  <2> QED
    BY <1>6, <2>1, <2>2
       DEF AcquireCheckoutBranch, AcquireFails, Lend, ForgetBranch, Unlock, Typed, TypeOK, LocalsTyped
<1>7. CASE AcquireCheckoutDetached(w)
  <2>1. LocalsTyped' /\ AtSlot'
    BY <1>7, FinishTyped, ContinueTyped
       DEF AcquireCheckoutDetached, AcquireFails, LockedPcs, AcquirePcs
  <2>2. head' \in [Slots -> Branches \cup {None}] /\ at' \in [Slots -> SUBSET Commits]
    BY <1>7 DEF AcquireCheckoutDetached, AcquireFails, StartPoint, Typed, TypeOK
  <2> QED
    BY <1>7, <2>1, <2>2
       DEF AcquireCheckoutDetached, AcquireFails, Lend, ForgetBranch, Unlock, Typed, TypeOK, LocalsTyped
<1>8. CASE AcquireReply(w)
  BY <1>8, FinishTyped DEF AcquireReply, Unlock, ReplyPayload, git, Typed, TypeOK, LocalsTyped
<1> QED
  BY <1>1, <1>2, <1>3, <1>4, <1>5, <1>6, <1>7, <1>8 DEF Acquire

LEMMA TypeRelease ==
  ASSUME Typed, NEW w \in Workers, Release(w)
  PROVE  Typed'
<1> USE DEF Typed, TypeOK, LocalsTyped
<1>1. CASE ReleaseDirtyGate(w)
  BY <1>1, FinishTyped, ContinueTyped DEF ReleaseDirtyGate, ReleasePcs, git
<1>2. CASE ReleaseMergeGate(w)
  <2>1. CASE Finish(w)
    BY <1>2, <2>1, FinishTyped DEF ReleaseMergeGate, git
  <2>2. CASE old' = [old EXCEPT ![w] = head[cur[w]]]
             /\ GoTo(w, "detach") /\ UNCHANGED <<base, todo, cur, force>>
    BY <1>2, <2>2 DEF ReleaseMergeGate, ReleasePcs, AtSlot, GoTo, git
  <2> QED
    BY <1>2, <2>1, <2>2 DEF ReleaseMergeGate
<1>3. CASE ReleaseDetach(w)
  <2>1. LocalsTyped' /\ AtSlot'
    BY <1>3, FinishTyped, ContinueTyped DEF ReleaseDetach, ReleasePcs
  <2>2. head' \in [Slots -> Branches \cup {None}] /\ at' \in [Slots -> SUBSET Commits]
    BY <1>3 DEF ReleaseDetach
  <2>3. /\ lent' \in [Workers -> Slots \cup {None}] /\ holds' \in [Workers -> Slots \cup {None}]
        /\ want' \in [Workers -> Branches \cup {None}]
    BY <1>3 DEF ReleaseDetach, ForgetBranch
  <2> QED
    BY <1>3, <2>1, <2>2, <2>3 DEF ReleaseDetach
<1>4. CASE ReleaseReset(w)
  <2>1. LocalsTyped' /\ AtSlot'
    BY <1>4, ContinueTyped DEF ReleaseReset, ReleasePcs
  <2>2. tip' \in [Branches -> SUBSET Commits] /\ at' \in [Slots -> SUBSET Commits]
    BY <1>4 DEF ReleaseReset
  <2>3. files' \in [Slots -> SUBSET EditKinds]
    BY <1>4 DEF ReleaseReset
  <2> QED
    BY <1>4, <2>1, <2>2, <2>3 DEF ReleaseReset
<1>5. CASE ReleaseClean(w)
  BY <1>5, ContinueTyped DEF ReleaseClean, ReleasePcs
<1>6. CASE ReleaseDeleteBranch(w)
  BY <1>6, ContinueTyped DEF ReleaseDeleteBranch, ReleasePcs
<1>7. CASE ReleaseVerify(w)
  BY <1>7, FinishTyped DEF ReleaseVerify, git
<1> QED
  BY <1>1, <1>2, <1>3, <1>4, <1>5, <1>6, <1>7 DEF Release

LEMMA TypeWorld ==
  ASSUME Typed, NEW w \in Workers, Crash(w) \/ Work(w)
  PROVE  Typed'
<1> USE PoolAssumption DEF Typed, TypeOK, AtSlot, LockedPcs, ReleasePcs
<1>1. CASE Crash(w)
  BY <1>1 DEF Crash, LocksWithout, Finish, GoTo, git
<1>2. ASSUME NEW s \in Slots, NEW kind \in EditKinds, Edit(w, s, kind)
      PROVE  Typed'
  BY <1>2 DEF Edit, locals
<1>3. ASSUME NEW s \in Slots, NEW c \in Commits, Commit(w, s, c)
      PROVE  Typed'
  <2>1. tip' \in [Branches -> SUBSET Commits] /\ at' \in [Slots -> SUBSET Commits]
    BY <1>3 DEF Commit
  <2> QED
    BY <1>3, <2>1 DEF Commit, locals
<1> QED
  BY <1>1, <1>2, <1>3 DEF Work

LEMMA TypeNext == Typed /\ [Next]_vars => Typed'
<1> SUFFICES ASSUME Typed, [Next]_vars PROVE Typed'
  OBVIOUS
<1>1. ASSUME NEW b \in Branches, Merge(b) PROVE Typed'
  BY <1>1 DEF Typed, TypeOK, AtSlot, Merge, locals
<1>2. CASE UNCHANGED vars
  BY <1>2 DEF Typed, TypeOK, AtSlot, vars, git, locals
<1> QED
  BY <1>1, <1>2, TypeStart, TypeAcquire, TypeRelease, TypeWorld DEF Next

(* The state stays well typed, and a request that reads or changes a slot  *)
(* has a slot to do it to.                                                 *)
THEOREM TypeCorrect == Spec => []TypeOK
<1>1. Spec => []Typed
  BY TypeInit, TypeNext, PTL DEF Spec
<1>2. Typed => TypeOK
  BY DEF Typed
<1> QED
  BY <1>1, <1>2, PTL

-----------------------------------------------------------------------------
(* Exclusive loans.  Most steps neither lock a slot nor move a branch: they *)
(* only advance one request (QuietStep) or do not concern the pool at all. *)

LEMMA InvInit == Init => IInv
BY PoolAssumption DEF Init, IInv, LockInv, RequestInv, KnownInv, HeadsInv, OwnerInv, Exclusive,
   Owns, LockedPcs, AcquirePcs

OthersWait(w) ==
  \A v \in Workers \ {w} :
    pc'[v] = pc[v] /\ cur'[v] = cur[v] /\ want'[v] = want[v] /\ holds'[v] = holds[v]

QuietStep(w) ==
  /\ OthersWait(w)
  /\ pc[w] \notin LockedPcs /\ pc'[w] \notin LockedPcs
  /\ pc'[w] \in AcquirePcs => holds[w] = None /\ want'[w] # None
  /\ lent[w] # None => want'[w] = want[w]
  /\ UNCHANGED <<lock, refs, head, lent>> /\ holds'[w] = holds[w]

LEMMA QuietKeeps ==
  ASSUME Typed, IInv, NEW w \in Workers, QuietStep(w)
  PROVE  IInv'
<1> USE DEF IInv, QuietStep, OthersWait, LockedPcs
<1>1. LockInv'
  BY PoolAssumption DEF LockInv
<1>2. HeadsInv'
  BY DEF HeadsInv
<1>3. OwnerInv'
  BY PoolAssumption DEF OwnerInv, Owns
<1>4. Exclusive'
  BY DEF Exclusive, Owns
<1>5. RequestInv'
  BY DEF RequestInv
<1>6. KnownInv'
  BY DEF KnownInv
<1> QED
  BY <1>1, <1>2, <1>3, <1>4, <1>5, <1>6

LEMMA BystanderKeeps ==
  ASSUME IInv, UNCHANGED <<lock, refs, head, pc, cur, want, holds, lent>>
  PROVE  IInv'
BY DEF IInv, LockInv, RequestInv, KnownInv, HeadsInv, OwnerInv, Exclusive, Owns

LEMMA FinishFrame ==
  ASSUME Typed, NEW w \in Workers, Finish(w)
  PROVE  pc'[w] = "idle" /\ \A v \in Workers \ {w} : pc'[v] = pc[v] /\ cur'[v] = cur[v]
BY DEF Typed, TypeOK, Finish, GoTo

\* A slot is unlocked by the process that has it.
LEMMA UnlockKeeps ==
  ASSUME Typed, LockInv, NEW w \in Workers, OthersWait(w),
         pc[w] \in LockedPcs, pc'[w] \notin LockedPcs, Unlock(cur[w])
  PROVE  LockInv'
BY PoolAssumption DEF Typed, TypeOK, AtSlot, LockInv, OthersWait, Unlock

LEMMA StartKeeps ==
  ASSUME Typed, IInv, DetachedAcquire = FALSE, NEW w \in Workers, Request(w)
  PROVE  IInv'
<1> USE PoolAssumption DEF Typed, TypeOK, LockedPcs, AcquirePcs
<1>1. ASSUME NEW b \in Branches, AcquireStart(w, b)
      PROVE  IInv'
  <2>1. lent[w] = None
    BY <1>1 DEF AcquireStart, MayStart, IInv, KnownInv
  <2>2. QuietStep(w)
    BY <1>1, <2>1 DEF AcquireStart, MayStart, GoTo, QuietStep, OthersWait, git
  <2> QED
    BY <2>2, QuietKeeps
<1>2. ASSUME NEW s \in Slots, NEW f \in BOOLEAN, ReleaseStart(w, s, f)
      PROVE  IInv'
  <2>1. QuietStep(w)
    BY <1>2 DEF ReleaseStart, MayStart, GoTo, QuietStep, OthersWait, git
  <2> QED
    BY <2>1, QuietKeeps
<1> QED
  BY <1>1, <1>2 DEF Request

LEMMA TryLockKeeps ==
  ASSUME Typed, IInv, NEW w \in Workers, NEW s \in Slots, AcquireTryLock(w, s)
  PROVE  IInv'
<1> USE PoolAssumption DEF Typed, TypeOK, LockedPcs, AcquirePcs, OthersWait
<1>1. CASE Contended(s)
  BY <1>1, BystanderKeeps DEF AcquireTryLock, git
<1>2. CASE ~Contended(s)
  <2>1. /\ OthersWait(w) /\ pc[w] = "lock" /\ pc'[w] = "reverify" /\ cur'[w] = s
        /\ lock[s] = None /\ lock' = [lock EXCEPT ![s] = w]
        /\ UNCHANGED <<refs, head, want, holds, lent>>
    BY <1>2 DEF AcquireTryLock, Contended, GoTo, git
  <2>2. LockInv'
    BY <2>1 DEF IInv, LockInv
  <2>3. RequestInv' /\ KnownInv'
    BY <2>1 DEF IInv, RequestInv, KnownInv
  <2>4. HeadsInv' /\ OwnerInv' /\ Exclusive'
    BY <2>1, SMTT(30) DEF IInv, HeadsInv, OwnerInv, Exclusive, Owns
  <2> QED
    BY <2>2, <2>3, <2>4 DEF IInv
<1> QED
  BY <1>1, <1>2

\* Only now is the slot known to be free: the flock keeps it so.
LEMMA ReverifyKeeps ==
  ASSUME Typed, IInv, NEW w \in Workers, AcquireReverify(w)
  PROVE  IInv'
<1> USE PoolAssumption DEF Typed, TypeOK, AtSlot, LockedPcs, AcquirePcs, OthersWait
<1>1. /\ OthersWait(w) /\ pc[w] = "reverify" /\ UNCHANGED <<refs, head, cur, want, holds, lent>>
      /\ \/ pc'[w] = "checkout" /\ head[cur[w]] = None /\ lock' = lock
         \/ pc'[w] = "lock" /\ Unlock(cur[w])
  BY DEF AcquireReverify, StillFree, SlotFree, Continue, GoTo, git, locals
<1>2. LockInv'
  <2>1. CASE lock' = lock /\ pc'[w] = "checkout"
    BY <1>1, <2>1 DEF IInv, LockInv
  <2>2. CASE Unlock(cur[w]) /\ pc'[w] = "lock"
    BY <1>1, <2>2, UnlockKeeps DEF IInv
  <2> QED
    BY <1>1, <2>1, <2>2
<1>3. RequestInv' /\ KnownInv'
  BY <1>1 DEF IInv, RequestInv, KnownInv
<1>4. HeadsInv' /\ OwnerInv' /\ Exclusive'
  BY <1>1 DEF IInv, HeadsInv, OwnerInv, Exclusive, Owns
<1> QED
  BY <1>2, <1>3, <1>4 DEF IInv

\* The grant: the slot was free, so nobody has it, and no slot is on the
\* new branch, so nobody else can claim the slot through it.
LEMMA CheckoutKeeps ==
  ASSUME Typed, IInv, NEW w \in Workers, AcquireCheckoutBranch(w)
  PROVE  IInv'
<1> USE PoolAssumption DEF Typed, TypeOK, AtSlot, LockedPcs, AcquirePcs, ReleasePcs, OthersWait
<1>1. CASE AcquireFails(w)
  <2>1. /\ OthersWait(w) /\ pc[w] = "checkout" /\ pc'[w] = "idle" /\ Unlock(cur[w])
        /\ UNCHANGED <<refs, head, holds, lent>> /\ lent[w] = None
    BY <1>1 DEF AcquireCheckoutBranch, AcquireFails, Finish, ForgetBranch, GoTo, IInv, KnownInv
  <2>2. LockInv'
    BY <2>1, UnlockKeeps DEF IInv
  <2>3. RequestInv' /\ KnownInv'
    BY <2>1 DEF IInv, RequestInv, KnownInv
  <2>4. HeadsInv' /\ OwnerInv' /\ Exclusive'
    BY <2>1 DEF IInv, HeadsInv, OwnerInv, Exclusive, Owns
  <2> QED
    BY <2>2, <2>3, <2>4 DEF IInv
<1>2. CASE ~AcquireFails(w)
  <2>1. /\ OthersWait(w) /\ pc[w] = "checkout" /\ pc'[w] = "reply"
        /\ want[w] \in Branches /\ want[w] \notin refs /\ refs' = refs \cup {want[w]}
        /\ cur[w] \in Slots /\ head[cur[w]] = None /\ holds[w] = None
        /\ head' = [head EXCEPT ![cur[w]] = want[w]]
        /\ lent' = [lent EXCEPT ![w] = cur[w]]
        /\ UNCHANGED <<lock, cur, want, holds>>
    BY <1>2 DEF AcquireCheckoutBranch, BranchExists, Lend, Continue, GoTo, locals, IInv, RequestInv,
                KnownInv
  <2>2. ASSUME NEW v \in Workers, Owns(v, cur[w]) PROVE FALSE
    BY ONLY <2>1, <2>2, IInv DEF IInv, OwnerInv
  <2>3. LockInv'
    BY <2>1 DEF IInv, LockInv
  <2>4. RequestInv'
    <3>1. \A v \in Workers \ {w} : pc[v] = "checkout" => cur[v] # cur[w]
      <4>1. lock[cur[w]] = w
        BY <2>1 DEF IInv, LockInv
      <4>2. \A v \in Workers : pc[v] = "checkout" /\ cur[v] = cur[w] => lock[cur[w]] = v
        BY <2>1 DEF IInv, LockInv
      <4> QED
        BY <4>1, <4>2
    <3> QED
      BY <2>1, <3>1 DEF IInv, RequestInv
  <2>5. HeadsInv'
    BY <2>1 DEF IInv, HeadsInv
  <2>6. OwnerInv'
    BY <2>1, <2>2 DEF IInv, OwnerInv, Owns
  <2>7. Exclusive'
    <3>1. \A v \in Workers \ {w} : lent'[v] = lent[v] /\ lent[v] # cur[w]
      BY <2>1, <2>2 DEF Owns
    <3>2. lent'[w] = cur[w]
      BY <2>1
    <3> QED
      BY <3>1, <3>2 DEF IInv, Exclusive, Owns
  <2>8. KnownInv'
    BY <2>1 DEF IInv, KnownInv
  <2> QED
    BY <2>3, <2>4, <2>5, <2>6, <2>7, <2>8 DEF IInv
<1> QED
  BY <1>1, <1>2

LEMMA AcquireKeeps ==
  ASSUME Typed, IInv, NEW w \in Workers, Acquire(w)
  PROVE  IInv'
<1> USE PoolAssumption DEF Typed, TypeOK, AtSlot, LockedPcs, AcquirePcs, OthersWait
<1>1. CASE AcquireBranchCheck(w)
  <2>1. QuietStep(w)
    <3>1. /\ pc[w] = "inUse" /\ holds[w] = None /\ lent[w] = None /\ want[w] # None
          /\ UNCHANGED <<head, refs, lock, holds, lent>>
      BY <1>1 DEF AcquireBranchCheck, git, IInv, RequestInv, KnownInv
    <3>2. CASE Finish(w) /\ ForgetBranch(w)
      <4>1. pc'[w] = "idle" /\ \A v \in Workers \ {w} : pc'[v] = pc[v] /\ cur'[v] = cur[v]
        BY <3>2, FinishFrame
      <4> QED
        BY <3>1, <3>2, <4>1 DEF ForgetBranch, QuietStep
    <3>3. CASE Continue(w, "inventory") /\ UNCHANGED want
      BY <3>1, <3>3 DEF Continue, GoTo, locals, QuietStep
    <3> QED
      BY <1>1, <3>2, <3>3 DEF AcquireBranchCheck
  <2> QED
    BY <2>1, QuietKeeps
<1>2. CASE AcquireInventory(w)
  <2>1. QuietStep(w)
    BY <1>2 DEF AcquireInventory, GoTo, git, QuietStep, IInv, RequestInv, KnownInv
  <2> QED
    BY <2>1, QuietKeeps
<1>3. CASE \E s \in Slots : AcquireTryLock(w, s)
  BY <1>3, TryLockKeeps
<1>4. CASE AcquireExhausted(w)
  <2>1. QuietStep(w)
    BY <1>4 DEF AcquireExhausted, Finish, ForgetBranch, GoTo, git, QuietStep, IInv, KnownInv
  <2> QED
    BY <2>1, QuietKeeps
<1>5. CASE AcquireReverify(w)
  BY <1>5, ReverifyKeeps
<1>6. CASE AcquireCheckoutBranch(w)
  BY <1>6, CheckoutKeeps
<1>7. CASE AcquireCheckoutDetached(w)
  BY <1>7 DEF AcquireCheckoutDetached, IInv, RequestInv
<1>8. CASE AcquireReply(w)
  <2>1. /\ OthersWait(w) /\ pc[w] = "reply" /\ pc'[w] = "idle" /\ Unlock(cur[w])
        /\ holds[w] = None /\ holds'[w] = cur[w] /\ UNCHANGED <<refs, head, want, lent>>
    BY <1>8 DEF AcquireReply, ReplyPayload, Finish, GoTo, git, IInv, KnownInv
  <2>2. LockInv'
    BY <2>1, UnlockKeeps DEF IInv
  <2>3. RequestInv' /\ KnownInv'
    BY <2>1 DEF IInv, RequestInv, KnownInv
  <2>4. HeadsInv'
    <3>1. HeadsInv /\ refs' = refs /\ head' = head
      BY <2>1 DEF IInv
    <3> QED
      BY <3>1, ZenonT(30) DEF HeadsInv
  <2>5. OwnerInv' /\ Exclusive'
    BY <2>1 DEF IInv, OwnerInv, Exclusive, Owns
  <2> QED
    BY <2>2, <2>3, <2>4, <2>5 DEF IInv
<1> QED
  BY <1>1, <1>2, <1>3, <1>4, <1>5, <1>6, <1>7, <1>8 DEF Acquire

LEMMA ReleaseKeeps ==
  ASSUME Typed, IInv, NEW w \in Workers, Release(w)
  PROVE  IInv'
<1> USE PoolAssumption DEF Typed, TypeOK, AtSlot, LockedPcs, AcquirePcs, ReleasePcs, OthersWait
<1>1. CASE ReleaseDirtyGate(w) \/ ReleaseMergeGate(w)
  <2>1. QuietStep(w)
    BY <1>1 DEF ReleaseDirtyGate, ReleaseMergeGate, Finish, Continue, GoTo, git, locals, QuietStep
  <2> QED
    BY <2>1, QuietKeeps
<1>2. CASE ReleaseDetach(w)
  <2>1. CASE UNCHANGED <<head, at, want, holds, lent>> /\ Finish(w)
    <3>1. QuietStep(w)
      BY <1>2, <2>1 DEF ReleaseDetach, Finish, GoTo, QuietStep
    <3> QED
      BY <3>1, QuietKeeps
  <2>2. CASE /\ head' = [head EXCEPT ![cur[w]] = None]
             /\ lent' = [v \in Workers |-> IF lent[v] = cur[w] THEN None ELSE lent[v]]
             /\ \/ holds[w] = cur[w] /\ holds' = [holds EXCEPT ![w] = None] /\ ForgetBranch(w)
                \/ holds[w] # cur[w] /\ UNCHANGED <<holds, want>>
             /\ Continue(w, "reset")
    <3>1. /\ OthersWait(w) /\ pc[w] = "detach" /\ pc'[w] = "reset"
          /\ cur[w] \in Slots /\ UNCHANGED <<lock, refs, cur>>
      BY <1>2, <2>2 DEF ReleaseDetach, Continue, ForgetBranch, GoTo, locals
    <3>2. \/ holds[w] = cur[w] /\ holds'[w] = None
          \/ holds'[w] = holds[w] /\ want'[w] = want[w]
      BY <2>2
    <3>3. LockInv'
      <4>1. LockInv /\ \A v \in Workers : v # w => pc'[v] = pc[v]
        BY <3>1 DEF IInv
      <4> QED
        BY ONLY <3>1, <4>1 DEF LockInv, LockedPcs
    <3>4. RequestInv'
      BY <3>1, <2>2 DEF IInv, RequestInv
    <3>5. HeadsInv'
      BY <3>1, <2>2 DEF IInv, HeadsInv
    <3>6. \A v \in Workers : lent'[v] # None =>
            lent'[v] = lent[v] /\ lent[v] # cur[w] /\ want'[v] = want[v]
      BY <3>1, <3>2, <2>2 DEF IInv, KnownInv
    <3>7. OwnerInv' /\ Exclusive'
      BY <3>1, <3>6, <2>2 DEF IInv, OwnerInv, Exclusive, Owns
    <3>8. KnownInv'
      BY <3>1, <3>2, <3>6 DEF IInv, KnownInv
    <3> QED
      BY <3>3, <3>4, <3>5, <3>7, <3>8 DEF IInv
  <2> QED
    BY <1>2, <2>1, <2>2 DEF ReleaseDetach
<1>3. CASE ReleaseReset(w) \/ ReleaseClean(w) \/ ReleaseVerify(w)
  <2>1. QuietStep(w)
    <3>1. CASE ReleaseReset(w)
      BY <3>1 DEF ReleaseReset, Continue, GoTo, locals, QuietStep
    <3>2. CASE ReleaseClean(w)
      BY <3>2 DEF ReleaseClean, Continue, GoTo, locals, QuietStep
    <3>3. CASE ReleaseVerify(w)
      <4>1. pc'[w] = "idle" /\ \A v \in Workers \ {w} : pc'[v] = pc[v] /\ cur'[v] = cur[v]
        BY <3>3, FinishFrame DEF ReleaseVerify
      <4> QED
        BY <3>3, <4>1 DEF ReleaseVerify, git, QuietStep
    <3> QED
      BY <1>3, <3>1, <3>2, <3>3
  <2> QED
    BY <2>1, QuietKeeps
<1>4. CASE ReleaseDeleteBranch(w)
  <2>1. /\ OthersWait(w) /\ pc[w] = "branchD" /\ pc'[w] = "postVerify"
        /\ \A s \in Slots : head[s] \in refs => head[s] \in refs'
        /\ UNCHANGED <<lock, head, cur, want, holds, lent>>
    BY <1>4 DEF ReleaseDeleteBranch, BranchInUse, Continue, GoTo, locals
  <2>2. LockInv' /\ RequestInv' /\ KnownInv'
    BY <2>1 DEF IInv, LockInv, RequestInv, KnownInv
  <2>3. HeadsInv' /\ OwnerInv' /\ Exclusive'
    BY <2>1 DEF IInv, HeadsInv, OwnerInv, Exclusive, Owns
  <2> QED
    BY <2>2, <2>3 DEF IInv
<1> QED
  BY <1>1, <1>2, <1>3, <1>4 DEF Release

LEMMA CrashKeeps ==
  ASSUME Typed, IInv, NEW w \in Workers, Crash(w)
  PROVE  IInv'
<1>1. /\ OthersWait(w) /\ pc'[w] = "idle" /\ lock' = LocksWithout(w)
      /\ UNCHANGED <<refs, head, holds>>
      /\ lent' = [lent EXCEPT ![w] = IF pc[w] = "reply" THEN None ELSE @]
      /\ (holds[w] # None => want'[w] = want[w])
  BY DEF Crash, Finish, GoTo, git, OthersWait, Typed, TypeOK
<1>2. LockInv'
  BY <1>1, PoolAssumption DEF IInv, LockInv, LocksWithout, OthersWait, LockedPcs, Typed, TypeOK
<1>3. RequestInv'
  BY <1>1 DEF IInv, RequestInv, OthersWait, AcquirePcs
<1>4. \A v \in Workers : lent'[v] # None => lent'[v] = lent[v] /\ want'[v] = want[v]
  BY <1>1 DEF IInv, KnownInv, OthersWait, Typed, TypeOK
<1>5. HeadsInv' /\ OwnerInv' /\ Exclusive'
  BY <1>1, <1>4, PoolAssumption DEF IInv, HeadsInv, OwnerInv, Exclusive, Owns, OthersWait
<1>6. KnownInv'
  BY <1>1 DEF IInv, KnownInv, OthersWait, AcquirePcs, Typed, TypeOK
<1> QED
  BY <1>2, <1>3, <1>5, <1>6 DEF IInv

LEMMA InvNext == 
  ASSUME DetachedAcquire = FALSE
  PROVE  Typed /\ IInv /\ [Next]_vars => IInv'
<1> SUFFICES ASSUME Typed, IInv, [Next]_vars PROVE IInv'
  OBVIOUS
<1>1. ASSUME NEW w \in Workers, Work(w) PROVE IInv'
  BY <1>1, BystanderKeeps DEF Work, Edit, Commit, locals
<1>2. ASSUME NEW b \in Branches, Merge(b) PROVE IInv'
  BY <1>2, BystanderKeeps DEF Merge, locals
<1>3. CASE UNCHANGED vars
  BY <1>3, BystanderKeeps DEF vars, git, locals
<1> QED
  BY <1>1, <1>2, <1>3, StartKeeps, AcquireKeeps, ReleaseKeeps, CrashKeeps DEF Next

LEMMA InvHolds ==
  ASSUME DetachedAcquire = FALSE
  PROVE  Spec => [](Typed /\ IInv)
<1>1. Init => Typed /\ IInv
  BY TypeInit, InvInit
<1>2. Typed /\ IInv /\ [Next]_vars => (Typed /\ IInv)'
  BY TypeNext, InvNext
<1> QED
  BY <1>1, <1>2, PTL DEF Spec

(* When every caller names a branch, a slot is never on loan to two        *)
(* workers, whatever overlaps (pool_acquire's lock and re-classification)  *)
(* and whoever releases: a release only ever ends loans.                   *)
THEOREM SlotExclusive ==
  ASSUME DetachedAcquire = FALSE
  PROVE  Spec => []Exclusive
<1>1. IInv => Exclusive
  BY DEF IInv
<1> QED
  BY <1>1, InvHolds, PTL

(* ... and a slot on loan stays on the branch its worker asked for, which  *)
(* no other slot is on.                                                    *)
THEOREM BranchKept ==
  ASSUME DetachedAcquire = FALSE
  PROVE  Spec => []OwnerKeepsBranch
<1>1. Typed /\ IInv => OwnerKeepsBranch
  BY DEF IInv, OwnerInv, HeadsInv, OwnerKeepsBranch
<1> QED
  BY <1>1, InvHolds, PTL

-----------------------------------------------------------------------------
(* One server at a time (Serial), careful callers.  Here acquires may omit *)
(* the branch, so that what keeps a slot is no longer its branch: it is    *)
(* that nobody else's request is on its way.                               *)

(* A server serves one request at a time.                                  *)
SoloInv == \A v, w \in Workers : pc[v] # "idle" /\ pc[w] # "idle" => v = w

(* While an acquire looks for a slot, no slot on loan looks free; the one  *)
(* it settles on is detached.                                              *)
UnseenInv ==
  \A w \in Workers :
    /\ pc[w] \in AcquirePcs \ {"reply"} => \A v \in Workers : lent[v] # None => head[lent[v]] # None
    /\ pc[w] = "checkout" => head[cur[w]] = None

SerialInv == SoloInv /\ HeadsInv /\ KnownInv /\ Exclusive /\ UnseenInv

(* When callers release only what they hold, a worker has on loan what it  *)
(* believes it has, and nobody has the slot that is being cleaned.         *)
HolderInv ==
  \A w \in Workers :
    /\ holds[w] # None => lent[w] = holds[w]
    /\ pc[w] = "reply" => lent[w] = cur[w]
    /\ pc[w] \in EarlyReleasePcs => holds[w] = cur[w]
    /\ pc[w] \in LateReleasePcs => holds[w] = None /\ \A v \in Workers : lent[v] # cur[w]

(* What was seen of the slot under the lock stays true.                    *)
GrantInv ==
  /\ \A w \in Workers : pc[w] = "checkout" => SlotFree(cur[w])
  /\ GrantAtBase

CleanInv == HolderInv /\ GrantInv

LEMMA SerialInit == Init => SerialInv /\ CleanInv
BY PoolAssumption DEF Init, SerialInv, SoloInv, HeadsInv, KnownInv, Exclusive, Owns, UnseenInv, CleanInv,
       HolderInv, GrantInv, GrantAtBase, AcquirePcs, EarlyReleasePcs, LateReleasePcs

\* A step of the one request under way that neither moves a slot nor
\* changes a loan.
PlainStep(w) ==
  /\ pc[w] \notin {"idle", "reply"} /\ OthersWait(w) /\ UNCHANGED <<head, holds, lent>>
  /\ \/ pc'[w] = "idle"
     \/ pc[w] \in AcquirePcs /\ pc'[w] \in {"inventory", "lock", "reverify"}
     \/ pc[w] \in EarlyReleasePcs /\ pc'[w] \in EarlyReleasePcs /\ cur'[w] = cur[w]
     \/ pc[w] \in LateReleasePcs /\ pc'[w] \in LateReleasePcs /\ cur'[w] = cur[w]

LEMMA PlainKeeps ==
  ASSUME Typed, SerialInv, NEW w \in Workers, PlainStep(w), HeadsInv'
  PROVE  SerialInv' /\ (CleanInv => CleanInv')
<1> USE DEF AcquirePcs, EarlyReleasePcs, LateReleasePcs
<1>1. /\ \A v \in Workers \ {w} : pc[v] = "idle" /\ pc'[v] = "idle"
      /\ SoloInv'
  BY DEF SerialInv, SoloInv, PlainStep, OthersWait
<1>2. KnownInv' /\ Exclusive' /\ UnseenInv'
  <2>1. KnownInv'
    BY <1>1 DEF SerialInv, KnownInv, PlainStep
  <2>2. Exclusive'
    BY DEF SerialInv, Exclusive, Owns, PlainStep
  <2>3. UnseenInv'
    BY <1>1 DEF SerialInv, UnseenInv, PlainStep
  <2> QED
    BY <2>1, <2>2, <2>3
<1>3. ASSUME CleanInv PROVE CleanInv'
  <2>1. HolderInv'
    BY <1>1, <1>3 DEF CleanInv, HolderInv, PlainStep, OthersWait
  <2>2. GrantInv'
    BY <1>1 DEF GrantInv, GrantAtBase, PlainStep
  <2> QED
    BY <2>1, <2>2 DEF CleanInv
<1> QED
  BY <1>1, <1>2, <1>3 DEF SerialInv

LEMMA SerialStart ==
  ASSUME Serial = TRUE, CarefulCallers = TRUE, Typed, SerialInv, NEW w \in Workers, Request(w)
  PROVE  SerialInv' /\ (HoldersRelease = TRUE /\ CleanInv => CleanInv')
<1> USE DEF AcquirePcs, EarlyReleasePcs, LateReleasePcs
<1>1. \A v \in Workers : pc[v] = "idle"
  BY DEF Request, AcquireStart, ReleaseStart, MayStart
<1>2. ASSUME NEW b \in Branches \cup {None}, MayAsk, AcquireStart(w, b)
      PROVE  SerialInv' /\ (CleanInv => CleanInv')
  <2>1. /\ pc'[w] \in {"inUse", "inventory"} /\ \A v \in Workers \ {w} : pc'[v] = "idle"
        /\ holds[w] = None /\ UNCHANGED <<holds, lent, head, refs>>
    BY <1>1, <1>2 DEF AcquireStart, GoTo, git, Typed, TypeOK
  <2>2. SoloInv' /\ HeadsInv'
    BY <2>1 DEF SoloInv, SerialInv, HeadsInv
  <2>3. KnownInv'
    BY <1>1, <2>1 DEF SerialInv, KnownInv
  <2>4. Exclusive'
    BY <2>1 DEF SerialInv, Exclusive, Owns
  <2>5. UnseenInv'
    BY <1>2, <2>1 DEF UnseenInv, MayAsk, DetachedLoan
  <2>6. ASSUME CleanInv PROVE CleanInv'
    BY <2>1, <2>6 DEF CleanInv, HolderInv, GrantInv, GrantAtBase
  <2> QED
    BY <2>2, <2>3, <2>4, <2>5, <2>6 DEF SerialInv
<1>3. ASSUME NEW s \in Slots, NEW f \in BOOLEAN, HoldersRelease => holds[w] = s,
             ReleaseStart(w, s, f)
      PROVE  SerialInv' /\ (HoldersRelease = TRUE /\ CleanInv => CleanInv')
  <2>1. /\ pc'[w] = "dirtyGate" /\ \A v \in Workers \ {w} : pc'[v] = "idle"
        /\ cur'[w] = s /\ UNCHANGED <<holds, lent, head, refs>>
    BY <1>1, <1>3 DEF ReleaseStart, GoTo, git, Typed, TypeOK
  <2>2. SoloInv' /\ HeadsInv'
    BY <2>1 DEF SoloInv, SerialInv, HeadsInv
  <2>3. KnownInv' /\ UnseenInv'
    BY <1>1, <2>1 DEF SerialInv, KnownInv, UnseenInv
  <2>4. Exclusive'
    BY <2>1 DEF SerialInv, Exclusive, Owns
  <2>5. ASSUME HoldersRelease = TRUE, CleanInv PROVE CleanInv'
    BY <1>3, <2>1, <2>5 DEF CleanInv, HolderInv, GrantInv, GrantAtBase
  <2> QED
    BY <2>2, <2>3, <2>4, <2>5 DEF SerialInv
<1> QED
  BY <1>2, <1>3 DEF Request

LEMMA SerialGrant ==
  ASSUME Typed, SerialInv, NEW w \in Workers,
         AcquireReverify(w) \/ AcquireCheckoutBranch(w) \/ AcquireCheckoutDetached(w)
  PROVE  SerialInv' /\ (CleanInv => CleanInv')
<1> USE DEF Typed, TypeOK, AtSlot, LockedPcs, AcquirePcs, EarlyReleasePcs, LateReleasePcs
<1>1. CASE AcquireReverify(w) /\ ~StillFree(w)
  <2>1. PlainStep(w) /\ HeadsInv'
    BY <1>1 DEF AcquireReverify, Continue, GoTo, git, locals, PlainStep, OthersWait,
                SerialInv, HeadsInv
  <2> QED
    BY <2>1, PlainKeeps
<1>2. CASE AcquireReverify(w) /\ StillFree(w)
  <2>1. /\ pc[w] = "reverify" /\ pc'[w] = "checkout" /\ SlotFree(cur[w]) /\ cur[w] \in Slots
        /\ \A v \in Workers \ {w} : pc'[v] = pc[v]
        /\ UNCHANGED <<refs, tip, head, at, files, holds, lent, cur, base>>
    BY <1>2 DEF AcquireReverify, StillFree, Continue, GoTo, git, locals
  <2>2. SoloInv' /\ HeadsInv' /\ \A v \in Workers \ {w} : pc'[v] = "idle"
    BY <2>1 DEF SerialInv, SoloInv, HeadsInv
  <2>3. KnownInv' /\ UnseenInv'
    BY <2>1, <2>2 DEF SerialInv, KnownInv, UnseenInv, SlotFree
  <2>4. Exclusive'
    BY <2>1 DEF SerialInv, Exclusive, Owns
  <2>5. ASSUME CleanInv PROVE CleanInv'
    <3>1. HolderInv'
      BY <2>1, <2>2, <2>5 DEF CleanInv, HolderInv
    <3>2. GrantInv'
      BY <2>1, <2>2 DEF GrantInv, GrantAtBase, SlotFree, IsDirty
    <3> QED
      BY <3>1, <3>2 DEF CleanInv
  <2> QED
    BY <2>2, <2>3, <2>4, <2>5 DEF SerialInv
<1>3. CASE (AcquireCheckoutBranch(w) \/ AcquireCheckoutDetached(w)) /\ AcquireFails(w)
  <2>1. PlainStep(w) /\ HeadsInv'
    BY <1>3, FinishFrame
       DEF AcquireCheckoutBranch, AcquireCheckoutDetached, AcquireFails, ForgetBranch, PlainStep,
           OthersWait, SerialInv, HeadsInv
  <2> QED
    BY <2>1, PlainKeeps
<1>4. CASE (AcquireCheckoutBranch(w) \/ AcquireCheckoutDetached(w)) /\ ~AcquireFails(w)
  <2>1. /\ pc[w] = "checkout" /\ pc'[w] = "reply" /\ cur[w] \in Slots
        /\ \A v \in Workers \ {w} : pc'[v] = pc[v]
        /\ UNCHANGED <<files, holds, cur, base>>
        /\ lent' = [lent EXCEPT ![w] = cur[w]]
        /\ \A s \in Slots \ {cur[w]} : head'[s] = head[s]
    BY <1>4 DEF AcquireCheckoutBranch, AcquireCheckoutDetached, Lend, Continue, GoTo, locals
  <2>2. SoloInv' /\ \A v \in Workers \ {w} : pc'[v] = "idle"
    BY <2>1 DEF SerialInv, SoloInv
  <2>3. HeadsInv' /\ HeadTip(cur[w])' = base[w]
    <3>1. CASE AcquireCheckoutBranch(w)
      <4>1. /\ want[w] \in Branches /\ want[w] # None /\ want[w] \notin refs
            /\ refs' = refs \cup {want[w]}
            /\ head' = [head EXCEPT ![cur[w]] = want[w]]
            /\ tip' = [tip EXCEPT ![want[w]] = base[w]]
        BY <1>4, <3>1 DEF AcquireCheckoutBranch, BranchExists, StartPoint
      <4>2. HeadsInv'
        BY <2>1, <4>1 DEF SerialInv, HeadsInv
      <4>3. HeadTip(cur[w])' = base[w]
        BY <2>1, <4>1 DEF HeadTip
      <4> QED
        BY <4>2, <4>3
    <3>2. CASE AcquireCheckoutDetached(w)
      <4>1. /\ head' = [head EXCEPT ![cur[w]] = None] /\ refs' = refs
            /\ at' = [at EXCEPT ![cur[w]] = base[w]]
        BY <1>4, <3>2 DEF AcquireCheckoutDetached, StartPoint
      <4>2. HeadsInv'
        BY <2>1, <4>1 DEF SerialInv, HeadsInv
      <4>3. HeadTip(cur[w])' = base[w]
        BY <2>1, <4>1 DEF HeadTip
      <4> QED
        BY <4>2, <4>3
    <3> QED
      BY <1>4, <3>1, <3>2
  <2>4. /\ holds[w] = None /\ lent[w] = None
        /\ \A v \in Workers : lent[v] # None => head[lent[v]] # None /\ lent[v] # cur[w]
    BY <2>1 DEF SerialInv, KnownInv, UnseenInv
  <2>5. KnownInv'
    BY <2>1, <2>2, <2>4 DEF SerialInv, KnownInv
  <2>6. Exclusive'
    BY <2>1, <2>4 DEF SerialInv, Exclusive, Owns
  <2>7. UnseenInv'
    BY <2>1, <2>2 DEF UnseenInv
  <2>8. ASSUME CleanInv PROVE CleanInv'
    <3>1. ~IsDirty(cur[w])'
      BY <2>1, <2>8 DEF CleanInv, GrantInv, SlotFree, IsDirty
    <3>2. GrantInv'
      BY <2>1, <2>2, <2>3, <3>1 DEF GrantInv, GrantAtBase, HeadTip, IsDirty
    <3>3. HolderInv'
      BY <2>1, <2>2, <2>4, <2>8 DEF CleanInv, HolderInv
    <3> QED
      BY <3>2, <3>3 DEF CleanInv
  <2> QED
    BY <2>2, <2>3, <2>5, <2>6, <2>7, <2>8 DEF SerialInv
<1> QED
  BY <1>1, <1>2, <1>3, <1>4

LEMMA SerialAcquire ==
  ASSUME Typed, SerialInv, NEW w \in Workers, Acquire(w)
  PROVE  SerialInv' /\ (CleanInv => CleanInv')
<1> USE DEF Typed, TypeOK, AcquirePcs, EarlyReleasePcs, LateReleasePcs
<1>1. CASE AcquireBranchCheck(w) \/ AcquireExhausted(w)
  <2>1. PlainStep(w) /\ HeadsInv'
    BY <1>1, FinishFrame
       DEF AcquireBranchCheck, AcquireExhausted, Continue, GoTo, ForgetBranch, git, locals,
           PlainStep, OthersWait, SerialInv, HeadsInv
  <2> QED
    BY <2>1, PlainKeeps
<1>2. CASE AcquireInventory(w) \/ \E s \in Slots : AcquireTryLock(w, s)
  <2>1. PlainStep(w) /\ HeadsInv'
    BY <1>2 DEF AcquireInventory, AcquireTryLock, GoTo, git, locals, PlainStep, OthersWait,
                SerialInv, HeadsInv
  <2> QED
    BY <2>1, PlainKeeps
<1>3. CASE AcquireReply(w)
  <2>1. /\ pc[w] = "reply" /\ pc'[w] = "idle" /\ \A v \in Workers \ {w} : pc'[v] = pc[v]
        /\ holds' = [holds EXCEPT ![w] = cur[w]] /\ UNCHANGED <<refs, head, lent>>
    BY <1>3, FinishFrame DEF AcquireReply, ReplyPayload, git
  <2>2. SoloInv' /\ HeadsInv' /\ \A v \in Workers : pc'[v] = "idle"
    BY <2>1 DEF SerialInv, SoloInv, HeadsInv
  <2>3. KnownInv' /\ UnseenInv'
    BY <2>1, <2>2 DEF SerialInv, SoloInv, KnownInv, UnseenInv
  <2>4. Exclusive'
    BY <2>1 DEF SerialInv, Exclusive, Owns
  <2>5. ASSUME CleanInv PROVE CleanInv'
    BY <2>1, <2>2, <2>5 DEF CleanInv, HolderInv, GrantInv, GrantAtBase
  <2> QED
    BY <2>2, <2>3, <2>4, <2>5 DEF SerialInv
<1> QED
  BY <1>1, <1>2, <1>3, SerialGrant DEF Acquire

LEMMA SerialRelease ==
  ASSUME Typed, SerialInv, NEW w \in Workers, Release(w)
  PROVE  SerialInv' /\ (CleanInv => CleanInv')
<1> USE DEF Typed, TypeOK, AtSlot, ReleasePcs, AcquirePcs, EarlyReleasePcs, LateReleasePcs
<1>1. CASE ReleaseDirtyGate(w) \/ ReleaseMergeGate(w) \/ ReleaseVerify(w)
  <2>1. PlainStep(w) /\ HeadsInv'
    BY <1>1, FinishFrame
       DEF ReleaseDirtyGate, ReleaseMergeGate, ReleaseVerify, Continue, GoTo, git, locals,
           PlainStep, OthersWait, SerialInv, HeadsInv
  <2> QED
    BY <2>1, PlainKeeps
<1>2. CASE ReleaseReset(w) \/ ReleaseClean(w) \/ ReleaseDeleteBranch(w)
  <2>1. PlainStep(w)
    BY <1>2 DEF ReleaseReset, ReleaseClean, ReleaseDeleteBranch, Continue, GoTo, locals,
                PlainStep, OthersWait
  <2>2. head' = head /\ \A s \in Slots : head[s] \in refs => head[s] \in refs'
    BY <1>2 DEF ReleaseReset, ReleaseClean, ReleaseDeleteBranch, BranchInUse
  <2>3. HeadsInv'
    BY <2>2 DEF SerialInv, HeadsInv
  <2> QED
    BY <2>1, <2>3, PlainKeeps
<1>3. CASE ReleaseDetach(w) /\ Finish(w)
  <2>1. pc[w] = "detach" /\ pc'[w] = "idle" /\ \A v \in Workers \ {w} : pc'[v] = pc[v] /\ cur'[v] = cur[v]
    BY <1>3, FinishFrame DEF ReleaseDetach
  <2>2. UNCHANGED <<refs, head, want, holds, lent>>
    BY <1>3, <2>1 DEF ReleaseDetach, Continue, GoTo
  <2>3. PlainStep(w) /\ HeadsInv'
    BY <2>1, <2>2 DEF PlainStep, OthersWait, SerialInv, HeadsInv
  <2> QED
    BY <2>3, PlainKeeps
<1>4. CASE ReleaseDetach(w) /\ ~Finish(w)
  <2>1. /\ pc[w] = "detach" /\ pc'[w] = "reset" /\ \A v \in Workers \ {w} : pc'[v] = pc[v]
        /\ cur' = cur /\ cur[w] \in Slots /\ refs' = refs
        /\ head' = [head EXCEPT ![cur[w]] = None]
        /\ lent' = [v \in Workers |-> IF lent[v] = cur[w] THEN None ELSE lent[v]]
        /\ holds' = [holds EXCEPT ![w] = IF holds[w] = cur[w] THEN None ELSE @]
    BY <1>4 DEF ReleaseDetach, Continue, GoTo, locals
  <2>2. SoloInv' /\ \A v \in Workers \ {w} : pc[v] = "idle" /\ pc'[v] = "idle"
    BY <2>1 DEF SerialInv, SoloInv
  <2>3. HeadsInv'
    BY <2>1 DEF SerialInv, HeadsInv
  <2>4. KnownInv' /\ UnseenInv'
    BY <2>1, <2>2, PoolAssumption DEF SerialInv, KnownInv, UnseenInv
  <2>5. Exclusive'
    BY <2>1, PoolAssumption DEF SerialInv, Exclusive, Owns
  <2>6. ASSUME CleanInv PROVE CleanInv'
    <3>1. holds[w] = cur[w] /\ holds'[w] = None
      BY <2>1, <2>6 DEF CleanInv, HolderInv
    <3>2. ASSUME NEW v \in Workers, holds'[v] # None PROVE lent'[v] = holds'[v]
      <4>1. v # w /\ holds'[v] = holds[v] /\ lent[v] = holds[v] /\ lent[w] = cur[w]
        BY <2>1, <2>6, <3>1, <3>2, PoolAssumption DEF CleanInv, HolderInv
      <4>2. lent[v] # cur[w]
        BY <2>1, <4>1 DEF SerialInv, Exclusive, Owns
      <4> QED
        BY <2>1, <4>1, <4>2
    <3>3. HolderInv'
      BY <2>1, <2>2, <3>1, <3>2, PoolAssumption DEF HolderInv
    <3>4. GrantInv'
      BY <2>1, <2>2 DEF GrantInv, GrantAtBase
    <3> QED
      BY <3>3, <3>4 DEF CleanInv
  <2> QED
    BY <2>2, <2>3, <2>4, <2>5, <2>6 DEF SerialInv
<1> QED
  BY <1>1, <1>2, <1>3, <1>4 DEF Release

\* Where a worker writes, no request is about to grant the slot, and no
\* other slot is on its branch.
LEMMA SerialWork ==
  ASSUME Typed, SerialInv, NEW w \in Workers, Work(w)
  PROVE  SerialInv' /\ (CleanInv => CleanInv')
<1> USE DEF Typed, TypeOK
<1>1. PICK s \in Slots : \/ \E kind \in EditKinds : Edit(w, s, kind)
                         \/ \E c \in Commits : Commit(w, s, c)
  BY DEF Work
<1>2. WorksIn(w, s) /\ UNCHANGED <<refs, head, pc, cur, base, holds, lent>>
  BY <1>1 DEF Edit, Commit, locals
<1>3. SerialInv'
  BY <1>2 DEF SerialInv, SoloInv, HeadsInv, KnownInv, Exclusive, Owns, UnseenInv
<1>4. ASSUME NEW t \in Slots \ {s} PROVE files'[t] = files[t] /\ HeadTip(t)' = HeadTip(t)
  BY <1>1 DEF Edit, Commit, HeadTip, SerialInv, HeadsInv
<1>5. ASSUME CleanInv, NEW v \in Workers, pc[v] \in {"checkout", "reply"}
      PROVE  cur[v] \in Slots \ {s}
  <2>1. cur[v] \in Slots
    BY <1>5 DEF AtSlot, LockedPcs
  <2>2. pc[w] = "idle" /\ holds[w] = s
    BY <1>2, <1>5 DEF WorksIn, SerialInv, SoloInv, ReleasePcs
  <2>3. lent[w] = s
    BY <2>2, <1>5, PoolAssumption DEF CleanInv, HolderInv
  <2>4. CASE pc[v] = "checkout"
    BY <2>1, <2>3, <2>4, PoolAssumption DEF SerialInv, UnseenInv, AcquirePcs
  <2>5. CASE pc[v] = "reply"
    BY <1>5, <2>1, <2>2, <2>3, <2>5 DEF CleanInv, HolderInv, SerialInv, Exclusive, Owns
  <2> QED
    BY <1>5, <2>4, <2>5
<1>6. ASSUME CleanInv PROVE GrantInv'
  <2>1. ASSUME NEW v \in Workers, pc'[v] = "checkout" PROVE SlotFree(cur[v])'
    <3>1. cur[v] \in Slots \ {s} /\ SlotFree(cur[v])
      BY <1>2, <1>5, <1>6, <2>1 DEF CleanInv, GrantInv
    <3>2. files'[cur[v]] = files[cur[v]]
      BY <1>4, <3>1
    <3> QED
      BY <1>2, <3>1, <3>2 DEF SlotFree, IsDirty
  <2>2. ASSUME NEW v \in Workers, pc'[v] = "reply"
        PROVE  (HeadTip(cur[v]) = base[v] /\ ~IsDirty(cur[v]))'
    <3>1. cur[v] \in Slots \ {s} /\ HeadTip(cur[v]) = base[v] /\ ~IsDirty(cur[v])
      BY <1>2, <1>5, <1>6, <2>2 DEF CleanInv, GrantInv, GrantAtBase
    <3>2. PICK t \in Slots \ {s} : t = cur[v]
      BY <3>1
    <3>3. files'[t] = files[t] /\ HeadTip(t)' = HeadTip(t)
      BY <1>4
    <3>4. HeadTip(cur[v])' = HeadTip(t)' /\ cur'[v] = t
      BY <1>2, <3>2 DEF HeadTip
    <3> QED
      BY <1>2, <3>1, <3>2, <3>3, <3>4 DEF IsDirty
  <2> QED
    BY <2>1, <2>2 DEF GrantInv, GrantAtBase
<1>7. CleanInv => HolderInv'
  BY <1>2 DEF CleanInv, HolderInv
<1> QED
  BY <1>3, <1>6, <1>7 DEF CleanInv

\* A crash in the middle of a grant takes the loan with it.
LEMMA SerialCrash ==
  ASSUME Typed, SerialInv, NEW w \in Workers, Crash(w)
  PROVE  SerialInv' /\ (CleanInv => CleanInv')
<1> USE DEF Typed, TypeOK, AcquirePcs, EarlyReleasePcs, LateReleasePcs
<1>1. /\ pc'[w] = "idle" /\ pc[w] # "idle" /\ UNCHANGED <<refs, head, holds>>
      /\ lent' = [lent EXCEPT ![w] = IF pc[w] = "reply" THEN None ELSE @]
      /\ \A v \in Workers \ {w} : pc'[v] = pc[v] /\ cur'[v] = cur[v] /\ want'[v] = want[v]
  BY FinishFrame DEF Crash, git
<1>2. CASE pc[w] # "reply"
  <2>1. PlainStep(w) /\ HeadsInv'
    BY <1>1, <1>2 DEF PlainStep, OthersWait, SerialInv, HeadsInv
  <2> QED
    BY <2>1, PlainKeeps
<1>3. CASE pc[w] = "reply"
  <2>1. SoloInv' /\ HeadsInv' /\ \A v \in Workers : pc'[v] = "idle"
    BY <1>1 DEF SerialInv, SoloInv, HeadsInv
  <2>2. holds[w] = None /\ lent'[w] = None
    BY <1>1, <1>3 DEF SerialInv, KnownInv
  <2>3. KnownInv' /\ UnseenInv'
    BY <1>1, <2>1, <2>2 DEF SerialInv, SoloInv, KnownInv, UnseenInv
  <2>4. Exclusive'
    BY <1>1, <1>3, PoolAssumption DEF SerialInv, Exclusive, Owns
  <2>5. ASSUME CleanInv PROVE CleanInv'
    BY <1>1, <1>3, <2>1, <2>2, <2>5 DEF CleanInv, HolderInv, GrantInv, GrantAtBase
  <2> QED
    BY <2>1, <2>3, <2>4, <2>5 DEF SerialInv
<1> QED
  BY <1>2, <1>3

LEMMA SerialNext ==
  ASSUME Serial = TRUE, CarefulCallers = TRUE, Typed, SerialInv, [Next]_vars
  PROVE  SerialInv' /\ (HoldersRelease = TRUE /\ CleanInv => CleanInv')
<1>1. ASSUME UNCHANGED <<refs, tip, head, at, files, pc, base, cur, holds, lent>>
      PROVE  SerialInv' /\ (CleanInv => CleanInv')
  BY <1>1 DEF SerialInv, SoloInv, HeadsInv, KnownInv, Exclusive, Owns, UnseenInv, CleanInv,
              HolderInv, GrantInv, GrantAtBase, SlotFree, IsDirty, HeadTip
<1>2. ASSUME NEW b \in Branches, Merge(b) PROVE SerialInv' /\ (CleanInv => CleanInv')
  BY <1>1, <1>2 DEF Merge, locals
<1>3. CASE UNCHANGED vars
  BY <1>1, <1>3 DEF vars, git, locals
<1> QED
  BY <1>2, <1>3, SerialStart, SerialAcquire, SerialRelease, SerialCrash, SerialWork DEF Next

LEMMA SerialHolds ==
  ASSUME Serial = TRUE, CarefulCallers = TRUE
  PROVE  Spec => [](Typed /\ SerialInv)
<1>1. Init => Typed /\ SerialInv
  BY TypeInit, SerialInit
<1>2. Typed /\ SerialInv /\ [Next]_vars => (Typed /\ SerialInv)'
  BY TypeNext, SerialNext
<1> QED
  BY <1>1, <1>2, PTL DEF Spec

LEMMA CleanHolds ==
  ASSUME Serial = TRUE, CarefulCallers = TRUE, HoldersRelease = TRUE
  PROVE  Spec => []CleanInv
<1>1. Init => CleanInv
  BY SerialInit
<1>2. Typed /\ SerialInv /\ CleanInv /\ [Next]_vars => CleanInv'
  BY SerialNext
<1> QED
  BY <1>1, <1>2, SerialHolds, PTL DEF Spec

(* When one server serves every request, nobody asks while a slot lent     *)
(* without a branch is out, and callers release only what they hold, a     *)
(* slot is granted clean and at the base the reply names, even if workers  *)
(* write during releases (pool.rs 361-362).                                *)
THEOREM GrantIsClean ==
  ASSUME Serial = TRUE, CarefulCallers = TRUE, HoldersRelease = TRUE
  PROVE  Spec => []GrantAtBase
<1>1. CleanInv => GrantAtBase
  BY DEF CleanInv, GrantInv
<1> QED
  BY <1>1, CleanHolds, PTL

(* With a single server and careful callers, no two workers have the same  *)
(* slot, though callers may omit the branch, a slot lent without one still *)
(* classifies as free, and anybody may release it.                         *)
THEOREM SerialExclusive ==
  ASSUME Serial = TRUE, CarefulCallers = TRUE
  PROVE  Spec => []Exclusive
<1>1. SerialInv => Exclusive
  BY DEF SerialInv
<1> QED
  BY <1>1, SerialHolds, PTL

-----------------------------------------------------------------------------
(* What a release may take away.  Nobody works in a slot while it is being *)
(* released (WorkDuringRelease = FALSE), so what its gates have seen stays *)
(* true until it is used: unforced, there are no files to lose and main    *)
(* reaches what the branch has.                                            *)

GateOf(w) ==
  /\ pc[w] \in ReleasePcs => base[w] \subseteq main
  /\ pc[w] = "detach" => old[w] = head[cur[w]]
  /\ pc[w] \in {"reset", "clean", "branchD"} =>
       head[cur[w]] = None /\ \A s \in Slots : old[w] = None \/ head[s] # old[w]
  /\ ~force[w] /\ pc[w] \in {"mergeGate", "detach", "reset", "clean"} => ~IsDirty(cur[w])
  /\ ~force[w] /\ pc[w] \in {"detach", "reset", "clean", "branchD"} /\ old[w] # None =>
       tip[old[w]] \subseteq base[w]

GateInv == \A w \in Workers : GateOf(w)

LEMMA GateInit == Init => GateInv
BY DEF Init, GateInv, GateOf, ReleasePcs

LEMMA OtherGates ==
  ASSUME SoloInv', NEW w \in Workers, pc'[w] # "idle" => GateOf(w)',
         \A v \in Workers \ {w} : pc'[v] = "idle"
  PROVE  GateInv'
<1>1. ASSUME NEW v \in Workers, pc'[v] = "idle" PROVE GateOf(v)'
  BY <1>1 DEF GateOf, ReleasePcs
<1> QED
  BY <1>1 DEF GateInv

LEMMA GateRelease ==
  ASSUME Typed, SerialInv, SerialInv', GateInv, NEW w \in Workers, Release(w)
  PROVE  GateInv'
<1> USE DEF Typed, TypeOK, AtSlot, ReleasePcs
<1>1. pc[w] \in ReleasePcs /\ cur[w] \in Slots /\ GateOf(w)
  BY DEF Release, ReleaseDirtyGate, ReleaseMergeGate, ReleaseDetach, ReleaseReset, ReleaseClean,
         ReleaseDeleteBranch, ReleaseVerify, GateInv
<1>2. \A v \in Workers \ {w} : pc[v] = "idle"
  BY <1>1 DEF SerialInv, SoloInv
<1>3. CASE pc'[w] = "idle"
  <2>1. \A v \in Workers \ {w} : pc'[v] = pc[v]
    BY FinishFrame DEF Release, ReleaseDirtyGate, ReleaseMergeGate, ReleaseDetach, ReleaseReset,
         ReleaseClean, ReleaseDeleteBranch, ReleaseVerify, Continue, GoTo
  <2> QED
    BY <1>2, <1>3, <2>1, OtherGates DEF SerialInv
<1>4. CASE pc'[w] # "idle"
  <2>1. ~Finish(w)
    BY <1>4, FinishFrame
  <2>2. \A v \in Workers \ {w} : pc'[v] = "idle"
    BY <1>2, <2>1 DEF Release, ReleaseDirtyGate, ReleaseMergeGate, ReleaseDetach, ReleaseReset,
         ReleaseClean, ReleaseDeleteBranch, ReleaseVerify, Continue, GoTo
  <2>3. ASSUME ReleaseDirtyGate(w) PROVE GateOf(w)'
    <3>1. /\ pc'[w] = "mergeGate" /\ (force[w] \/ ~IsDirty(cur[w])) /\ base[w] \subseteq main
          /\ UNCHANGED <<main, files, base, cur, force>>
      BY <1>1, <2>1, <2>3 DEF ReleaseDirtyGate, Continue, GoTo, git, locals, GateOf
    <3> QED
      BY <3>1 DEF GateOf, IsDirty
  <2>4. ASSUME ReleaseMergeGate(w) PROVE GateOf(w)'
    <3>1. /\ pc[w] = "mergeGate" /\ pc'[w] = "detach" /\ old'[w] = head[cur[w]]
          /\ force[w] \/ ~Unmerged(w)
          /\ UNCHANGED <<main, tip, head, files, base, cur, force>>
      BY <2>1, <2>4 DEF ReleaseMergeGate, GoTo, git
    <3>2. base[w] \subseteq main /\ (~force[w] => ~IsDirty(cur[w]))
      BY <1>1, <3>1 DEF GateOf
    <3>3. ~force[w] /\ old'[w] # None => tip[old'[w]] \subseteq base[w]
      BY <3>1 DEF Unmerged, HeadTip
    <3> QED
      BY <3>1, <3>2, <3>3 DEF GateOf, IsDirty
  <2>5. ASSUME ReleaseDetach(w) PROVE GateOf(w)'
    <3>1. /\ pc[w] = "detach" /\ pc'[w] = "reset"
          /\ head' = [head EXCEPT ![cur[w]] = None]
          /\ UNCHANGED <<main, tip, files, base, cur, force, old>>
      BY <2>1, <2>5 DEF ReleaseDetach, Continue, GoTo, locals
    <3>2. /\ base[w] \subseteq main /\ old[w] = head[cur[w]]
          /\ ~force[w] => ~IsDirty(cur[w]) /\ (old[w] # None => tip[old[w]] \subseteq base[w])
      BY <1>1, <3>1 DEF GateOf
    <3>3. \A s \in Slots : old[w] = None \/ head'[s] # old[w]
      BY <1>1, <3>1, <3>2 DEF SerialInv, HeadsInv
    <3> QED
      BY <1>1, <3>1, <3>2, <3>3 DEF GateOf, IsDirty
  <2>6. ASSUME ReleaseReset(w) PROVE GateOf(w)'
    <3>1. pc[w] = "reset" /\ head[cur[w]] = None
      BY <1>1, <2>6 DEF ReleaseReset, GateOf
    <3>2. /\ pc'[w] = "clean" /\ files'[cur[w]] \subseteq files[cur[w]]
          /\ UNCHANGED <<main, tip, head, base, cur, force, old>>
      BY <1>1, <2>6, <3>1 DEF ReleaseReset, Continue, GoTo, locals
    <3>3. IsDirty(cur[w])' => IsDirty(cur[w])
      BY <3>2 DEF IsDirty
    <3> QED
      BY <1>1, <3>1, <3>2, <3>3 DEF GateOf
  <2>7. ASSUME ReleaseClean(w) PROVE GateOf(w)'
    <3>1. /\ pc[w] = "clean" /\ pc'[w] = "branchD"
          /\ UNCHANGED <<main, tip, head, base, cur, force, old>>
      BY <2>7 DEF ReleaseClean, Continue, GoTo, locals
    <3> QED
      BY <1>1, <3>1 DEF GateOf
  <2>8. ASSUME ReleaseDeleteBranch(w) PROVE GateOf(w)'
    <3>1. pc'[w] = "postVerify" /\ UNCHANGED <<main, base>>
      BY <2>8 DEF ReleaseDeleteBranch, Continue, GoTo, locals
    <3> QED
      BY <1>1, <3>1 DEF GateOf
  <2>9. CASE ReleaseVerify(w)
    BY <2>1, <2>9 DEF ReleaseVerify
  <2> QED
    BY <2>2, <2>3, <2>4, <2>5, <2>6, <2>7, <2>8, <2>9, OtherGates DEF Release, SerialInv
<1> QED
  BY <1>3, <1>4

\* A worker writes in its own slot, never in the one that is being released.
LEMMA WorksElsewhere ==
  ASSUME WorkDuringRelease = FALSE, Typed, SerialInv, CleanInv,
         NEW w \in Workers, NEW s \in Slots, WorksIn(w, s),
         NEW v \in Workers, pc[v] \in ReleasePcs
  PROVE  cur[v] # s
<1>1. pc[w] = "idle" /\ holds[w] = s /\ lent[w] = s
  BY PoolAssumption DEF WorksIn, CleanInv, HolderInv
<1>2. CASE pc[v] \in EarlyReleasePcs
  <2>1. holds[v] = cur[v] /\ v # w
    BY <1>1, <1>2 DEF CleanInv, HolderInv, EarlyReleasePcs
  <2>2. cur[v] = s => lent[v] = s
    BY <2>1, PoolAssumption DEF CleanInv, HolderInv
  <2> QED
    BY <1>1, <2>1, <2>2 DEF SerialInv, Exclusive, Owns
<1>3. CASE pc[v] \in LateReleasePcs
  BY <1>1, <1>3 DEF CleanInv, HolderInv
<1> QED
  BY <1>2, <1>3 DEF ReleasePcs, EarlyReleasePcs, LateReleasePcs

LEMMA GateWork ==
  ASSUME WorkDuringRelease = FALSE, Typed, SerialInv, CleanInv, GateInv, NEW w \in Workers, Work(w)
  PROVE  GateInv'
<1> USE DEF Typed, TypeOK
<1>1. PICK s \in Slots : \/ \E kind \in EditKinds : Edit(w, s, kind)
                         \/ \E c \in Commits : Commit(w, s, c)
  BY DEF Work
<1>2. /\ WorksIn(w, s) /\ UNCHANGED <<main, head, pc, base, cur, force, old>>
      /\ \A t \in Slots \ {s} : files'[t] = files[t]
      /\ \A b \in Branches : head[s] # b => tip'[b] = tip[b]
  BY <1>1 DEF Edit, Commit, locals
<1>3. ASSUME NEW v \in Workers PROVE GateOf(v)'
  <2>1. GateOf(v)
    BY DEF GateInv
  <2>2. CASE pc[v] \notin ReleasePcs
    BY <1>2, <2>2 DEF GateOf, ReleasePcs
  <2>3. CASE pc[v] \in ReleasePcs
    <3>1. cur[v] \in Slots /\ cur[v] # s
      BY <1>2, <2>3, WorksElsewhere DEF AtSlot
    <3>2. IsDirty(cur[v])' = IsDirty(cur[v])
      BY <1>2, <3>1 DEF IsDirty
    <3>3. pc[v] \in {"detach", "reset", "clean", "branchD"} /\ old[v] # None =>
            tip'[old[v]] = tip[old[v]]
      <4>1. pc[v] \in {"detach", "reset", "clean", "branchD"} /\ old[v] # None => head[s] # old[v]
        BY <2>1, <3>1 DEF GateOf, SerialInv, HeadsInv
      <4>2. old[v] # None => old[v] \in Branches
        OBVIOUS
      <4> QED
        BY <1>2, <4>1, <4>2
    <3> QED
      BY <1>2, <2>1, <3>2, <3>3 DEF GateOf
  <2> QED
    BY <2>2, <2>3
<1> QED
  BY <1>3 DEF GateInv

LEMMA GateNext ==
  ASSUME WorkDuringRelease = FALSE
  PROVE  Typed /\ SerialInv /\ SerialInv' /\ CleanInv /\ GateInv /\ [Next]_vars => GateInv'
<1> SUFFICES ASSUME Typed, SerialInv, SerialInv', CleanInv, GateInv, [Next]_vars PROVE GateInv'
  OBVIOUS
<1> USE DEF Typed, TypeOK
<1>1. ASSUME NEW w \in Workers, Request(w) PROVE GateInv'
  <2>1. pc'[w] # "idle" /\ GateOf(w)'
    <3>1. ASSUME NEW b \in Branches \cup {None}, AcquireStart(w, b) PROVE pc'[w] # "idle" /\ GateOf(w)'
      <4>1. pc'[w] \in {"inUse", "inventory"}
        BY <3>1 DEF AcquireStart, GoTo
      <4> QED
        BY <4>1 DEF GateOf, ReleasePcs
    <3>2. ASSUME NEW s \in Slots, NEW f \in BOOLEAN, ReleaseStart(w, s, f)
          PROVE  pc'[w] # "idle" /\ GateOf(w)'
      <4>1. pc'[w] = "dirtyGate" /\ base'[w] = main /\ main' = main
        BY <3>2 DEF ReleaseStart, GoTo, git
      <4> QED
        BY <4>1 DEF GateOf
    <3> QED
      BY <1>1, <3>1, <3>2 DEF Request
  <2> QED
    BY <2>1, OtherGates DEF SerialInv, SoloInv
<1>2. ASSUME NEW w \in Workers, Acquire(w) \/ Crash(w) PROVE GateInv'
  <2>1. /\ pc[w] # "idle" /\ pc'[w] \notin ReleasePcs /\ \A v \in Workers \ {w} : pc'[v] = pc[v]
    BY <1>2, FinishFrame
       DEF Acquire, AcquireBranchCheck, AcquireInventory, AcquireTryLock, AcquireExhausted,
           AcquireReverify, AcquireCheckoutBranch, AcquireCheckoutDetached, AcquireFails, AcquireReply,
           Crash,
           Continue, GoTo, ReleasePcs
  <2>2. GateOf(w)'
    BY <2>1 DEF GateOf, ReleasePcs
  <2> QED
    BY <2>1, <2>2, OtherGates DEF SerialInv, SoloInv
<1>3. ASSUME main \subseteq main', UNCHANGED <<tip, head, files, pc, base, cur, force, old>>
      PROVE  GateInv'
  BY <1>3 DEF GateInv, GateOf, IsDirty
<1>4. ASSUME NEW b \in Branches, Merge(b) PROVE GateInv'
  BY <1>3, <1>4 DEF Merge, locals
<1>5. CASE UNCHANGED vars
  BY <1>3, <1>5 DEF vars, git, locals
<1> QED
  BY <1>1, <1>2, <1>4, <1>5, GateRelease, GateWork DEF Next

LEMMA GateHolds ==
  ASSUME Serial = TRUE, CarefulCallers = TRUE, HoldersRelease = TRUE, WorkDuringRelease = FALSE
  PROVE  Spec => [](Typed /\ SerialInv /\ GateInv)
<1>1. Init => GateInv
  BY GateInit
<1>2. Typed /\ SerialInv /\ SerialInv' /\ CleanInv /\ GateInv /\ [Next]_vars => GateInv'
  BY GateNext
<1> QED
  BY <1>1, <1>2, SerialHolds, CleanHolds, PTL DEF Spec

\* A release that is not forced moves no branch until it deletes one that
\* main reaches.
LEMMA ReleaseLosesNothing ==
  ASSUME Typed, GateInv, NEW w \in Workers, Release(w), ~ForcedStep(w)
  PROVE  OnBranches \subseteq OnBranches'
<1> USE DEF Typed, TypeOK
<1>1. CASE UNCHANGED <<main, refs, tip>>
  BY <1>1 DEF OnBranches
<1>2. CASE ReleaseReset(w)
  <2>1. head[cur[w]] = None
    BY <1>2 DEF ReleaseReset, GateInv, GateOf
  <2> QED
    BY <1>1, <1>2, <2>1 DEF ReleaseReset
<1>3. CASE ReleaseDeleteBranch(w)
  <2>1. /\ pc[w] = "branchD" /\ pc'[w] # pc[w] /\ main' = main
        /\ \A b \in refs : b # old[w] => b \in refs' /\ tip'[b] = tip[b]
        /\ refs \subseteq Branches
    BY <1>3 DEF ReleaseDeleteBranch, Continue, GoTo
  <2>2. ~force[w]
    BY <2>1 DEF ForcedStep, ReleasePcs
  <2>3. old[w] # None => tip[old[w]] \subseteq main
    BY <2>1, <2>2 DEF GateInv, GateOf, ReleasePcs
  <2>4. ASSUME NEW b \in refs PROVE tip[b] \subseteq OnBranches'
    <3>1. CASE b = old[w]
      BY <2>1, <2>3, <2>4, <3>1, PoolAssumption DEF OnBranches
    <3>2. CASE b # old[w]
      BY <2>1, <3>2 DEF OnBranches
    <3> QED
      BY <3>1, <3>2
  <2>5. main \subseteq OnBranches'
    BY <2>1 DEF OnBranches
  <2> QED
    BY <2>4, <2>5 DEF OnBranches
<1> QED
  BY <1>1, <1>2, <1>3
     DEF Release, ReleaseDirtyGate, ReleaseMergeGate, ReleaseDetach, ReleaseClean, ReleaseVerify,
         git

\* Every other step keeps the branches and what is on them.
LEMMA NobodyLoses ==
  ASSUME Typed, NEW w \in Workers, Request(w) \/ Acquire(w) \/ Crash(w) \/ Work(w)
  PROVE  OnBranches \subseteq OnBranches'
<1> USE DEF Typed, TypeOK
<1>1. CASE UNCHANGED <<main, refs, tip>>
  BY <1>1 DEF OnBranches
<1>2. ASSUME main' = main, refs \subseteq refs', \A b \in refs : tip[b] \subseteq tip'[b]
      PROVE  OnBranches \subseteq OnBranches'
  BY <1>2 DEF OnBranches
<1>3. CASE Acquire(w)
  <2>1. CASE AcquireCheckoutBranch(w)
    BY <1>1, <1>2, <2>1 DEF AcquireCheckoutBranch, AcquireFails, BranchExists
  <2> QED
    BY <1>1, <1>3, <2>1
       DEF Acquire, AcquireBranchCheck, AcquireInventory, AcquireTryLock, AcquireExhausted,
           AcquireReverify, AcquireCheckoutDetached, AcquireFails, AcquireReply, git
<1>4. CASE Work(w)
  <2>1. PICK s \in Slots : \/ \E kind \in EditKinds : Edit(w, s, kind)
                           \/ \E c \in Commits : Commit(w, s, c)
    BY <1>4 DEF Work
  <2>2. main' = main /\ refs' = refs /\ \A b \in Branches : tip[b] \subseteq tip'[b]
    BY <2>1 DEF Edit, Commit
  <2> QED
    BY <1>2, <2>2
<1>5. CASE Request(w) \/ Crash(w)
  BY <1>1, <1>5 DEF Request, AcquireStart, ReleaseStart, Crash, git
<1> QED
  BY <1>3, <1>4, <1>5

(* When, besides, workers leave a slot alone while it is released, no      *)
(* unforced step takes a commit from every branch that has it              *)
(* (pool_release's merge gate, pool.rs 441-445).                           *)
THEOREM NothingLost ==
  ASSUME Serial = TRUE, CarefulCallers = TRUE, HoldersRelease = TRUE, WorkDuringRelease = FALSE
  PROVE  Spec => NoSilentLoss
<1>1. Typed /\ SerialInv /\ GateInv /\ [Next]_vars =>
        [(\A w \in Workers : ~ForcedStep(w)) => OnBranches \subseteq OnBranches']_vars
  <2> SUFFICES ASSUME Typed, GateInv, Next, \A w \in Workers : ~ForcedStep(w)
               PROVE  OnBranches \subseteq OnBranches'
    OBVIOUS
  <2>1. ASSUME NEW b \in Branches, Merge(b) PROVE OnBranches \subseteq OnBranches'
    BY <2>1 DEF Merge, OnBranches
  <2> QED
    BY <2>1, ReleaseLosesNothing, NobodyLoses DEF Next
<1> QED
  BY <1>1, GateHolds, PTL DEF Spec, NoSilentLoss

Uncommitted(s) == files[s] \cap {"tracked", "untracked"}

\* A commit is new: it was reachable from nothing.
LEMMA CommitTakesFiles ==
  ASSUME Typed, NEW w \in Workers, NEW s \in Slots, NEW c \in Commits, Commit(w, s, c)
  PROVE  /\ ~(HeadTip(s)' \subseteq Everywhere)
         /\ \A t \in Slots \ {s} : files'[t] = files[t]
<1> USE DEF Typed, TypeOK
<1>1. c \notin Everywhere
  BY DEF Commit, Everywhere, OnBranches
<1>2. c \in HeadTip(s)'
  <2>1. CASE head[s] = None
    BY <2>1 DEF Commit, HeadTip
  <2>2. CASE head[s] # None
    BY <2>2 DEF Commit, HeadTip
  <2> QED
    BY <2>1, <2>2
<1>3. \A t \in Slots \ {s} : files'[t] = files[t]
  BY DEF Commit
<1> QED
  BY <1>1, <1>2, <1>3

LEMMA ReleaseKeepsFiles ==
  ASSUME Typed, GateInv, NEW w \in Workers, Release(w), ~ForcedStep(w), NEW s \in Slots
  PROVE  Uncommitted(s) \subseteq files'[s]
<1> USE DEF Typed, TypeOK, Uncommitted
<1>1. CASE UNCHANGED files
  BY <1>1
<1>2. CASE ReleaseReset(w) \/ ReleaseClean(w)
  <2>1. pc[w] \in {"reset", "clean"} /\ pc'[w] # pc[w]
    BY <1>2 DEF ReleaseReset, ReleaseClean, Continue, GoTo
  <2>2. ~IsDirty(cur[w])
    BY <2>1 DEF ForcedStep, ReleasePcs, GateInv, GateOf
  <2>3. s # cur[w] => files'[s] = files[s]
    BY <1>2 DEF ReleaseReset, ReleaseClean
  <2> QED
    BY <2>2, <2>3 DEF IsDirty
<1> QED
  BY <1>1, <1>2
     DEF Release, ReleaseDirtyGate, ReleaseMergeGate, ReleaseDetach, ReleaseDeleteBranch,
         ReleaseVerify, git

(* ... and no unforced step takes uncommitted files outside .cargo/,       *)
(* except into a new commit on their slot's HEAD (pool_release's dirty     *)
(* gate, 497-515, with is_dirty's exemption, 188-195).                     *)
THEOREM FilesKept ==
  ASSUME Serial = TRUE, CarefulCallers = TRUE, HoldersRelease = TRUE, WorkDuringRelease = FALSE
  PROVE  Spec => FilesGate
<1>1. Typed /\ SerialInv /\ GateInv /\ [Next]_vars =>
        [\A s \in Slots :
           \/ files[s] \cap {"tracked", "untracked"} \subseteq files'[s]
           \/ ~(HeadTip(s)' \subseteq Everywhere)
           \/ \E w \in Workers : ForcedStep(w)]_vars
  <2> SUFFICES ASSUME Typed, GateInv, Next, NEW s \in Slots, \A w \in Workers : ~ForcedStep(w)
               PROVE  Uncommitted(s) \subseteq files'[s] \/ ~(HeadTip(s)' \subseteq Everywhere)
    BY DEF Uncommitted
  <2>1. CASE UNCHANGED files
    BY <2>1 DEF Uncommitted
  <2>2. ASSUME NEW w \in Workers, Work(w)
        PROVE  Uncommitted(s) \subseteq files'[s] \/ ~(HeadTip(s)' \subseteq Everywhere)
    <3>1. ASSUME NEW t \in Slots, NEW kind \in EditKinds, Edit(w, t, kind)
          PROVE  Uncommitted(s) \subseteq files'[s]
      BY <3>1 DEF Edit, Uncommitted, Typed, TypeOK
    <3>2. ASSUME NEW t \in Slots, NEW c \in Commits, Commit(w, t, c)
          PROVE  Uncommitted(s) \subseteq files'[s] \/ ~(HeadTip(s)' \subseteq Everywhere)
      BY <3>2, CommitTakesFiles DEF Uncommitted
    <3> QED
      BY <2>2, <3>1, <3>2 DEF Work
  <2>3. ASSUME NEW w \in Workers, Request(w) \/ Acquire(w) \/ Crash(w) PROVE UNCHANGED files
    BY <2>3 DEF Request, AcquireStart, ReleaseStart, Crash, Acquire, AcquireBranchCheck,
         AcquireInventory, AcquireTryLock, AcquireExhausted, AcquireReverify,
         AcquireCheckoutBranch, AcquireCheckoutDetached, AcquireReply, git
  <2>4. ASSUME NEW b \in Branches, Merge(b) PROVE UNCHANGED files
    BY <2>4 DEF Merge
  <2> QED
    BY <2>1, <2>2, <2>3, <2>4, ReleaseKeepsFiles DEF Next
<1> QED
  BY <1>1, GateHolds, PTL DEF Spec, FilesGate

-----------------------------------------------------------------------------
(* Refinement of SlotLease.                                                *)

LEMMA OwnerIs ==
  ASSUME Exclusive, NEW w \in Workers, NEW s \in Slots, Owns(w, s)
  PROVE  OwnerOf(s) = w
BY DEF Exclusive, OwnerOf

LEMMA OwnerIsNext ==
  ASSUME Exclusive', NEW w \in Workers, NEW s \in Slots, Owns(w, s)'
  PROVE  OwnerOf(s)' = w
BY DEF Exclusive, OwnerOf

\* What a grant needs to know of the loans.
LeaseReady ==
  /\ Exclusive
  /\ \A w \in Workers :
       pc[w] = "checkout" => lent[w] = None /\ \A v \in Workers : ~Owns(v, cur[w])

LEMMA BranchedReady ==
  ASSUME Typed, IInv
  PROVE  LeaseReady
<1>1. ASSUME NEW w \in Workers, pc[w] = "checkout", NEW v \in Workers
      PROVE  lent[w] = None /\ ~Owns(v, cur[w])
  <2>1. cur[w] \in Slots /\ head[cur[w]] = None /\ lent[w] = None
    BY <1>1 DEF Typed, AtSlot, LockedPcs, IInv, RequestInv, KnownInv, AcquirePcs
  <2> QED
    BY <2>1 DEF IInv, OwnerInv
<1> QED
  BY <1>1 DEF IInv, LeaseReady

LEMMA SerialReady ==
  ASSUME Typed, SerialInv
  PROVE  LeaseReady
<1>1. ASSUME NEW w \in Workers, pc[w] = "checkout", NEW v \in Workers
      PROVE  lent[w] = None /\ ~Owns(v, cur[w])
  <2>1. cur[w] \in Slots /\ head[cur[w]] = None /\ lent[w] = None
    BY <1>1 DEF Typed, AtSlot, LockedPcs, SerialInv, UnseenInv, KnownInv, AcquirePcs
  <2> QED
    BY <1>1, <2>1, PoolAssumption DEF SerialInv, UnseenInv, Owns, AcquirePcs
<1> QED
  BY <1>1 DEF SerialInv, LeaseReady

SameOwners(s) == \A w \in Workers : Owns(w, s)' <=> Owns(w, s)

LEMMA SameOwner ==
  ASSUME Exclusive, Exclusive', NEW s \in Slots, SameOwners(s)
  PROVE  OwnerOf(s)' = OwnerOf(s)
<1>1. CASE \E w \in Workers : Owns(w, s)
  <2>1. PICK w \in Workers : Owns(w, s)
    BY <1>1
  <2>2. Owns(w, s)'
    BY <2>1 DEF SameOwners
  <2> QED
    BY <2>1, <2>2, OwnerIs, OwnerIsNext
<1>2. CASE \A w \in Workers : ~Owns(w, s)
  BY <1>2 DEF SameOwners, OwnerOf
<1> QED
  BY <1>1, <1>2

LEMMA GrantStep ==
  ASSUME Exclusive, Exclusive', NEW s \in Slots, NEW w \in Workers,
         \A v \in Workers : ~Owns(v, s), Owns(w, s)', \A t \in Slots \ {s} : SameOwners(t)
  PROVE  Lease!Grant(s, w)
<1>1. OwnerOf(s) = None
  BY DEF OwnerOf
<1>2. OwnerOf(s)' = w
  BY OwnerIsNext
<1>3. \A t \in Slots \ {s} : OwnerOf(t)' = OwnerOf(t)
  BY SameOwner
<1> QED
  BY <1>1, <1>2, <1>3 DEF Lease!Grant

LEMMA GiveBackStep ==
  ASSUME Exclusive, Exclusive', NEW s \in Slots, NEW w \in Workers,
         Owns(w, s), \A v \in Workers : ~Owns(v, s)', \A t \in Slots \ {s} : SameOwners(t)
  PROVE  Lease!GiveBack(s)
<1>1. OwnerOf(s) = w /\ w # None
  BY OwnerIs, PoolAssumption
<1>2. OwnerOf(s)' = None
  BY DEF OwnerOf
<1>3. \A t \in Slots \ {s} : OwnerOf(t)' = OwnerOf(t)
  BY SameOwner
<1>4. [t \in Slots |-> OwnerOf(t)]' = [[t \in Slots |-> OwnerOf(t)] EXCEPT ![s] = None]
  BY <1>2, <1>3
<1> QED
  BY <1>1, <1>4 DEF Lease!GiveBack

LEMMA QuietOwners ==
  ASSUME UNCHANGED lent
  PROVE  \A s \in Slots : SameOwners(s)
BY DEF SameOwners, Owns

\* What a step does to the owners: only a checkout, a detach and the loss of
\* a reply change a loan.
LEMMA LeaseStep ==
  ASSUME Typed, LeaseReady, LeaseReady', [Next]_vars
  PROVE  \/ \A s \in Slots : SameOwners(s)
         \/ \E s \in Slots : Lease!GiveBack(s) \/ \E w \in Workers : Lease!Grant(s, w)
<1> DEFINE Same == \A s \in Slots : SameOwners(s)
           Changed == \E s \in Slots : Lease!GiveBack(s) \/ \E w \in Workers : Lease!Grant(s, w)
<1> USE DEF Typed, TypeOK
<1>1. ASSUME NEW w \in Workers, AcquireCheckoutBranch(w) \/ AcquireCheckoutDetached(w)
      PROVE  Same \/ Changed
  <2>1. CASE UNCHANGED lent
    BY <2>1, QuietOwners
  <2>2. CASE ~UNCHANGED lent
    <3>1. pc[w] = "checkout" /\ cur[w] \in Slots /\ lent' = [lent EXCEPT ![w] = cur[w]]
      BY <1>1, <2>2 DEF AcquireCheckoutBranch, AcquireCheckoutDetached, AcquireFails, Lend, LockedPcs, AtSlot
    <3>2. lent[w] = None /\ \A v \in Workers : ~Owns(v, cur[w])
      BY <3>1 DEF LeaseReady
    <3>3. Owns(w, cur[w])' /\ \A t \in Slots \ {cur[w]} : SameOwners(t)
      <4>1. PICK s \in Slots : s = cur[w]
        BY <3>1
      <4>2. cur'[w] = cur[w]
        BY <1>1, <2>2 DEF AcquireCheckoutBranch, AcquireCheckoutDetached, AcquireFails, Continue, locals
      <4> QED
        BY <3>1, <3>2, <4>2, PoolAssumption DEF Owns, SameOwners
    <3>4. PICK s \in Slots : s = cur[w]
      BY <3>1
    <3>5. Owns(w, s)' /\ (\A t \in Slots \ {s} : SameOwners(t)) /\ \A v \in Workers : ~Owns(v, s)
      BY <3>1, <3>2, <3>3, <3>4 DEF Owns
    <3> QED
      BY <3>5, GrantStep DEF LeaseReady
  <2> QED
    BY <2>1, <2>2
<1>2. ASSUME NEW w \in Workers, Acquire(w) PROVE Same \/ Changed
  BY <1>1, <1>2, QuietOwners
     DEF Acquire, AcquireBranchCheck, AcquireInventory, AcquireTryLock, AcquireExhausted,
         AcquireReverify, AcquireReply
<1>3. ASSUME NEW s \in Slots, NEW w \in Workers, Owns(w, s), lent'[w] = None,
             \A v \in Workers : lent'[v] = lent[v] \/ (lent[v] = s /\ lent'[v] = None)
      PROVE  Changed
  <2>1. \A v \in Workers : ~Owns(v, s)'
    BY <1>3, PoolAssumption DEF Owns, LeaseReady, Exclusive
  <2>2. \A t \in Slots \ {s} : SameOwners(t)
    BY <1>3, PoolAssumption DEF Owns, SameOwners
  <2> QED
    BY <1>3, <2>1, <2>2, GiveBackStep DEF LeaseReady
<1>4. ASSUME NEW w \in Workers, Release(w) PROVE Same \/ Changed
  <2>1. CASE UNCHANGED lent
    BY <2>1, QuietOwners
  <2>2. CASE ~UNCHANGED lent
    <3>1. /\ cur[w] \in Slots
          /\ lent' = [v \in Workers |-> IF lent[v] = cur[w] THEN None ELSE lent[v]]
      BY <1>4, <2>2
         DEF Release, ReleaseDirtyGate, ReleaseMergeGate, ReleaseDetach, ReleaseReset, ReleaseClean,
             ReleaseDeleteBranch, ReleaseVerify, ReleasePcs, AtSlot
    <3>2. PICK v \in Workers : lent'[v] # lent[v]
      BY <2>2, <3>1
    <3> QED
      BY <1>3, <3>1, <3>2 DEF Owns
  <2> QED
    BY <2>1, <2>2
<1>5. ASSUME NEW w \in Workers, Crash(w) PROVE Same \/ Changed
  <2>1. lent' = [lent EXCEPT ![w] = IF pc[w] = "reply" THEN None ELSE @]
    BY <1>5 DEF Crash
  <2>2. CASE lent'[w] = lent[w]
    BY <2>1, <2>2, QuietOwners
  <2>3. CASE lent'[w] # lent[w]
    <3>1. lent[w] \in Slots /\ lent'[w] = None
      BY <2>1, <2>3
    <3> QED
      BY <1>3, <2>1, <3>1 DEF Owns
  <2> QED
    BY <2>2, <2>3
<1>6. ASSUME NEW w \in Workers, Request(w) \/ Work(w) PROVE Same
  BY <1>6, QuietOwners DEF Request, AcquireStart, ReleaseStart, Work, Edit, Commit
<1>7. ASSUME NEW b \in Branches, Merge(b) PROVE Same
  BY <1>7, QuietOwners DEF Merge
<1>8. CASE UNCHANGED vars
  BY <1>8, QuietOwners DEF vars
<1> QED
  BY <1>2, <1>4, <1>5, <1>6, <1>7, <1>8 DEF Next

LEMMA LeaseStart == Init => Lease!LeaseInit
BY PoolAssumption DEF Init, Lease!LeaseInit, OwnerOf, Owns

LEMMA LeaseNextStep ==
  Typed /\ LeaseReady /\ LeaseReady' /\ [Next]_vars
    => [Lease!LeaseNext]_[s \in Slots |-> OwnerOf(s)]
<1> SUFFICES ASSUME Typed, LeaseReady, LeaseReady', [Next]_vars
             PROVE  [Lease!LeaseNext]_[s \in Slots |-> OwnerOf(s)]
  OBVIOUS
<1>1. CASE \A s \in Slots : SameOwners(s)
  BY <1>1, SameOwner DEF LeaseReady
<1>2. CASE \E s \in Slots : Lease!GiveBack(s) \/ \E w \in Workers : Lease!Grant(s, w)
  BY <1>2 DEF Lease!LeaseNext
<1> QED
  BY <1>1, <1>2, LeaseStep

(* The pool implements the abstract allocator: every step of an acquire,   *)
(* release or crash is a grant, a return or invisible, whoever releases.   *)
THEOREM PoolImplementsLease ==
  ASSUME DetachedAcquire = FALSE
  PROVE  Spec => LeaseRefined
<1>1. Typed /\ IInv => LeaseReady
  BY BranchedReady
<1> QED
  BY <1>1, InvHolds, LeaseStart, LeaseNextStep, PTL DEF Spec, LeaseRefined, Lease!LeaseSpec

(* ... and so does a single server for callers that omit the branch, which *)
(* no lock or branch protects, if they ask for nothing in the meantime.    *)
THEOREM SerialImplementsLease ==
  ASSUME Serial = TRUE, CarefulCallers = TRUE
  PROVE  Spec => LeaseRefined
<1>1. Typed /\ SerialInv => LeaseReady
  BY SerialReady
<1> QED
  BY <1>1, SerialHolds, LeaseStart, LeaseNextStep, PTL DEF Spec, LeaseRefined, Lease!LeaseSpec
==============================================================================
