----------------------------- MODULE CodexProofs -----------------------------
(***************************************************************************)
(* What is proved of codex_run_task for every set of changes, number of    *)
(* commits and size of the pipes: what the server says of a task is what   *)
(* happened to the worktree, whatever codex does, fails at or leaves, and  *)
(* wherever the server itself is killed.                                   *)
(***************************************************************************)
EXTENDS CodexTask, TLAPS

-----------------------------------------------------------------------------
(* git.                                                                    *)

LEMMA CommitNat == MaxCommits \in Nat /\ MaxChunks \in Nat /\ PipeSize \in Nat
BY TaskAssumption

LEMMA TrackedIn ==
  ASSUME work \subseteq Changes
  PROVE  Tracked \subseteq Changes
BY DEF Tracked

\* With everything committed, git tracks what is committed.
LEMMA TrackedCommitted ==
  ASSUME AsCommitted
  PROVE  Tracked = head.tree
BY DEF AsCommitted, Tracked

LEMMA DifferenceIn ==
  ASSUME NEW A \in SUBSET Changes, NEW B \in SUBSET Changes
  PROVE  /\ Difference(A, B) \in SUBSET Changes
         /\ A # B => Difference(A, B) # {}
BY DEF Difference

-----------------------------------------------------------------------------
(* Typing.                                                                 *)

CallTyped ==
  /\ pc \in {"idle", "start", "spawn", "feed", "wait", "message", "diff",
             "paths", "head", "status"}
  /\ pre \in Heads \cup {None}
  /\ text \in [own : BOOLEAN, text : Texts] \cup {None}
  /\ shown \in Shown \cup {None}

ProcessTyped ==
  /\ child \in {"none", "new", "reading", "working", "zero", "failed"}
  /\ long \in BOOLEAN
  /\ todo \in [Streams -> 0..MaxChunks] /\ pipes \in [Streams -> 0..PipeSize]

DiskTyped ==
  /\ outfile \in [own : BOOLEAN, text : Texts] \cup {None}
  /\ head \in Heads /\ work \subseteq Changes /\ index \subseteq NewFiles
  /\ orphan \in BOOLEAN /\ commits \in 0..MaxCommits
  /\ before \in Heads /\ trouble \in BOOLEAN

LEMMA TypeMeans == TypeOK <=> CallTyped /\ ProcessTyped /\ DiskTyped
BY DEF TypeOK, CallTyped, ProcessTyped, DiskTyped

LEMMA EmptyTyped == Empty \in [Streams -> 0..MaxChunks] /\ Empty \in [Streams -> 0..PipeSize]
BY CommitNat DEF Empty

LEMMA TypeInit == Init => TypeOK
<1> SUFFICES ASSUME Init PROVE TypeOK
  OBVIOUS
<1>1. head \in Heads /\ before \in Heads
  BY CommitNat DEF Init, Heads
<1>2. ProcessTyped
  BY EmptyTyped DEF Init, ProcessTyped
<1>3. DiskTyped
  <2>1. outfile = None /\ work = {} /\ index = {} /\ orphan = FALSE /\ commits = 0 /\ trouble = FALSE
    BY DEF Init
  <2>2. orphan \in BOOLEAN /\ trouble \in BOOLEAN
    BY <2>1, Zenon
  <2> QED
    BY <1>1, <2>1, <2>2, CommitNat DEF DiskTyped
<1>4. CallTyped
  BY DEF Init, CallTyped
<1> QED
  BY <1>2, <1>3, <1>4, TypeMeans

\* The server between two calls.
LEMMA Returned ==
  ASSUME CallTyped, NEW result, Return(result)
  PROVE  CallTyped'
BY DEF CallTyped, Return

LEMMA TypeServer ==
  ASSUME TypeOK, Call \/ Server
  PROVE  CallTyped' /\ ProcessTyped' /\ DiskTyped'
<1>0. CallTyped /\ ProcessTyped /\ DiskTyped
  BY TypeMeans
<1>1. CASE Call
  BY <1>0, <1>1 DEF Call, CallTyped, ProcessTyped, DiskTyped, process, worktree
<1>2. CASE Refused \/ SpawnFails \/ Unread \/ PathsRefused \/ Committed \/ Dirty \/ Clean
  <2>1. CallTyped'
    BY <1>0, <1>2, Returned DEF Refused, SpawnFails, Unread, PathsRefused, Committed, Dirty, Clean
  <2>2. ProcessTyped' /\ DiskTyped'
    BY <1>0, <1>2 DEF Refused, SpawnFails, Unread, PathsRefused, Committed, Dirty, Clean,
                      ProcessTyped, DiskTyped, process, worktree
  <2> QED
    BY <2>1, <2>2
<1>3. CASE FeedBroken \/ ExecFailed
  <2>1. CallTyped'
    BY <1>0, <1>3, Returned DEF FeedBroken, ExecFailed
  <2>2. ProcessTyped' /\ DiskTyped'
    BY <1>0, <1>3, EmptyTyped DEF FeedBroken, ExecFailed, FileRemoved, NoChild,
                                  ProcessTyped, DiskTyped, worktree
  <2> QED
    BY <2>1, <2>2
<1>4. CASE Snapshot \/ Feed \/ ReadMessage \/ PathsInside \/ NotCommitted
  <2>1. CASE Snapshot
    <3>1. CallTyped'
      BY <1>0, <2>1 DEF Snapshot, CallTyped, DiskTyped, worktree
    <3>2. ProcessTyped' /\ DiskTyped'
      BY <1>0, <2>1 DEF Snapshot, ProcessTyped, DiskTyped, process, worktree
    <3> QED
      BY <3>1, <3>2
  <2>2. CASE Feed
    BY <1>0, <2>2 DEF Feed, CallTyped, ProcessTyped, DiskTyped, process, worktree
  <2>3. CASE ReadMessage
    <3>1. /\ pc' = "diff" /\ text' \in [own : BOOLEAN, text : Texts] \cup {None}
          /\ outfile' = None
          /\ UNCHANGED <<pre, shown, process, worktree, orphan, commits, before, trouble>>
      BY <1>0, <2>3 DEF ReadMessage, Readable, DiskTyped
    <3> QED
      BY <1>0, <3>1 DEF CallTyped, ProcessTyped, DiskTyped, process, worktree
  <2>4. CASE PathsInside \/ NotCommitted
    BY <1>0, <2>4 DEF PathsInside, NotCommitted, CallTyped, ProcessTyped, DiskTyped, process, worktree
  <2> QED
    BY <1>4, <2>1, <2>2, <2>3, <2>4
<1>5. CASE Spawn \/ ExecDone
  BY <1>0, <1>5, EmptyTyped DEF Spawn, ExecDone, NoChild, CallTyped, ProcessTyped, DiskTyped, worktree
<1>6. ASSUME NEW s \in Streams, Drain(s) PROVE CallTyped' /\ ProcessTyped' /\ DiskTyped'
  <2>1. pipes' \in [Streams -> 0..PipeSize]
    <3>1. pipes[s] \in 0..PipeSize /\ pipes[s] > 0
      BY <1>0, <1>6 DEF Drain, ProcessTyped
    <3>2. pipes[s] - 1 \in 0..PipeSize
      BY <3>1, CommitNat
    <3> QED
      BY <1>0, <1>6, <3>2 DEF Drain, ProcessTyped
  <2> QED
    BY <1>0, <1>6, <2>1 DEF Drain, CallTyped, ProcessTyped, DiskTyped, call, worktree
<1>7. CASE TakeDiff
  <2>1. shown' \in Shown
    <3>1. CASE pre # None /\ shown' = PreferReal(DiffFrom(pre))
      <4>1. pre.tree \in SUBSET Changes /\ Tracked \in SUBSET Changes
        BY <1>0, <3>1, TrackedIn DEF CallTyped, DiskTyped, Heads
      <4>2. DiffFrom(pre) \in SUBSET Changes
        BY <4>1, DifferenceIn DEF DiffFrom
      <4> QED
        BY <3>1, <4>2 DEF PreferReal, Shown
    <3> QED
      BY <1>7, <3>1 DEF TakeDiff, Shown
  <2> QED
    BY <1>0, <1>7, <2>1 DEF TakeDiff, CallTyped, ProcessTyped, DiskTyped, process, worktree
<1> QED
  BY <1>1, <1>2, <1>3, <1>4, <1>5, <1>6, <1>7 DEF Server

\* The names of codex's steps.
Codex ==
  \/ (\E c \in Changes : Edit(c)) \/ Stage \/ Commit
  \/ Read \/ Begin \/ (\E s \in Streams : Emit(s))
  \/ WriteMessage \/ Finish \/ Fail \/ OrphanEnds

LEMMA TypeCodex ==
  ASSUME TypeOK, Codex
  PROVE  CallTyped' /\ ProcessTyped' /\ DiskTyped'
<1>0. CallTyped /\ ProcessTyped /\ DiskTyped
  BY TypeMeans
<1>1. ASSUME NEW c \in Changes, Edit(c) PROVE CallTyped' /\ ProcessTyped' /\ DiskTyped'
  <2>1. work' \subseteq Changes
    BY <1>0, <1>1, DifferenceIn DEF Edit, DiskTyped
  <2> QED
    <3>1. UNCHANGED <<pc, pre, text, shown, child, long, todo, pipes, outfile, head, index,
                      orphan, commits, before, trouble>>
      BY <1>1 DEF Edit, call, process
    <3> QED
      BY <1>0, <2>1, <3>1 DEF CallTyped, ProcessTyped, DiskTyped
<1>2. CASE Stage
  BY <1>0, <1>2 DEF Stage, CallTyped, ProcessTyped, DiskTyped, call, process
<1>3. CASE Commit
  <2>1. Tracked \in SUBSET Changes /\ commits + 1 \in 0..MaxCommits
    BY <1>0, <1>3, TrackedIn, CommitNat DEF Commit, DiskTyped
  <2>2. head' \in Heads /\ commits' \in 0..MaxCommits
    BY <1>3, <2>1 DEF Commit, Heads
  <2> QED
    BY <1>0, <1>3, <2>2 DEF Commit, CallTyped, ProcessTyped, DiskTyped, call, process
<1>4. ASSUME NEW s \in Streams, Emit(s) PROVE CallTyped' /\ ProcessTyped' /\ DiskTyped'
  <2>1. todo[s] - 1 \in 0..MaxChunks /\ pipes[s] + 1 \in 0..PipeSize
    <3>1. todo[s] \in 0..MaxChunks /\ pipes[s] \in 0..PipeSize /\ todo[s] > 0 /\ pipes[s] < PipeSize
      BY <1>0, <1>4 DEF Emit, ProcessTyped
    <3> QED
      BY <3>1, CommitNat
  <2>2. todo' \in [Streams -> 0..MaxChunks] /\ pipes' \in [Streams -> 0..PipeSize]
    BY <1>0, <1>4, <2>1 DEF Emit, ProcessTyped
  <2> QED
    BY <1>0, <1>4, <2>2 DEF Emit, CallTyped, ProcessTyped, DiskTyped, call, worktree
<1>5. CASE WriteMessage \/ OrphanEnds
  <2>1. outfile' \in [own : BOOLEAN, text : Texts] \cup {None}
    <3>1. \A t \in Texts : [own |-> TRUE, text |-> t] \in [own : BOOLEAN, text : Texts]
      OBVIOUS
    <3>2. outfile' = outfile \/ \E t \in Texts : outfile' = [own |-> TRUE, text |-> t]
      BY <1>5 DEF WriteMessage, OrphanEnds
    <3> QED
      BY <1>0, <3>1, <3>2 DEF DiskTyped
  <2> QED
    <3>1. CASE WriteMessage
      BY <1>0, <3>1, <2>1 DEF WriteMessage, CallTyped, ProcessTyped, DiskTyped, call, process, worktree
    <3>2. CASE OrphanEnds
      <4>1. CallTyped' /\ ProcessTyped'
        BY <1>0, <3>2 DEF OrphanEnds, CallTyped, ProcessTyped, call, process
      <4>2. DiskTyped'
        BY <1>0, <3>2 DEF OrphanEnds, DiskTyped, worktree
      <4> QED
        BY <4>1, <4>2
    <3> QED
      BY <1>5, <3>1, <3>2
<1>6. CASE Read \/ Begin \/ Finish \/ Fail
  <2>1. CallTyped' /\ DiskTyped'
    BY <1>0, <1>6 DEF Read, Begin, Finish, Fail, CallTyped, DiskTyped, call, worktree
  <2>2. ProcessTyped'
    BY <1>0, <1>6, EmptyTyped DEF Read, Begin, Finish, Fail, ProcessTyped, call
  <2> QED
    BY <2>1, <2>2
<1> QED
  BY <1>1, <1>2, <1>3, <1>4, <1>5, <1>6 DEF Codex

LEMMA TypeNext == TypeOK /\ [Next]_vars => TypeOK'
<1> SUFFICES ASSUME TypeOK, [Next]_vars PROVE CallTyped' /\ ProcessTyped' /\ DiskTyped'
  BY DEF TypeOK, CallTyped, ProcessTyped, DiskTyped
<1>0. CallTyped /\ ProcessTyped /\ DiskTyped
  BY TypeMeans
<1>1. CASE Restart \/ Tidy
  BY <1>0, <1>1, EmptyTyped DEF Restart, Tidy, NoChild, Heads, CallTyped, ProcessTyped, DiskTyped,
                                call, process, worktree
<1>2. CASE UNCHANGED vars
  BY <1>0, <1>2 DEF CallTyped, ProcessTyped, DiskTyped, vars, call, process, worktree
<1> QED
  BY <1>1, <1>2, TypeServer, TypeCodex DEF Next, Codex

(* The state stays well typed: no pipe overfills, and HEAD is a commit the *)
(* model has made.                                                         *)
THEOREM TypeCorrect == Spec => []TypeOK
BY TypeInit, TypeNext, PTL DEF Spec

-----------------------------------------------------------------------------
(* What the reports rest on.                                               *)

\* Codex has been waited for, and has answered.
Asking == {"diff", "paths", "head", "status"}

\* There is a child from its spawn until it has been waited for.
ChildInv == /\ pc \notin {"feed", "wait"} => child = "none"
            /\ child = "working" => pc = "wait"

\* What a call answers is there until the next one.
QuietInv == pc # "idle" => answer = None

\* An orphan is known for trouble as long as there is something to report.
OrphanInv == orphan /\ (pc # "idle" \/ answer # None) => trouble

\* A file that another call has left cannot be read.
MessageInv ==
  /\ outfile # None => outfile.text = "garbled" \/ (outfile.own /\ pc \in {"wait", "message"})
  /\ pc \in Asking => text.own

\* Without trouble the snapshot is where the call began, and HEAD is there
\* as long as codex has not started, and once it is known not to have moved.
BeforeInv ==
  ~trouble => /\ pc \in {"start", "status"} => head = before
              /\ pc \in {"spawn", "feed", "wait", "message"} \cup Asking => pre = before

\* Without trouble what is shown is still what the files differ by.
ShownInv ==
  ~trouble /\ pc \in {"paths", "head"} => shown = PreferReal(Difference(before.tree, Tracked))

Reports == NoneMeansUntouched /\ ShownIsCommitted /\ MessageIsOwn

IInv == /\ TypeOK /\ ChildInv /\ QuietInv /\ OrphanInv /\ MessageInv /\ BeforeInv /\ ShownInv
        /\ Reports

LEMMA InvInit == Init => IInv
BY TypeInit DEF Init, IInv, ChildInv, QuietInv, OrphanInv, MessageInv, BeforeInv, ShownInv, Asking,
  Reports, NoneMeansUntouched, ShownIsCommitted, MessageIsOwn

\* Nothing to report.
LEMMA NoReport ==
  ASSUME answer' = None
  PROVE  Reports'
BY DEF Reports, NoneMeansUntouched, ShownIsCommitted, MessageIsOwn

LEMMA Failure ==
  ASSUME NEW kind \in {"refused", "spawn", "feed", "exec", "message", "paths", "dirty"},
         answer' = Failed(kind)
  PROVE  Reports'
BY DEF Reports, NoneMeansUntouched, ShownIsCommitted, MessageIsOwn, Failed

\* Codex does nothing to the worktree between the time it has been waited for
\* and the end of the call, nor does an orphan nobody knows of.
LEMMA CodexIsGone ==
  ASSUME IInv, Codex, pc \notin {"feed", "wait"}, pc # "idle" \/ answer # None
  PROVE  trouble /\ UNCHANGED <<trouble, text, pc, outfile, answer>>
<1>1. child = "none"
  BY DEF IInv, ChildInv
<1>2. orphan
  BY <1>1 DEF Codex, Edit, Stage, Commit, Read, Begin, Emit, WriteMessage, Finish, Fail, OrphanEnds, AtWork
<1> QED
  BY <1>1, <1>2 DEF Codex, Edit, Stage, Commit, Read, Begin, Emit, WriteMessage, Finish, Fail, OrphanEnds,
                    call, process, IInv, OrphanInv

LEMMA InvCodex ==
  ASSUME IInv, Codex
  PROVE  IInv'
<1>0. UNCHANGED <<pc, pre, text, shown, before, trouble, answer>>
  BY DEF Codex, Edit, Stage, Commit, Read, Begin, Emit, WriteMessage, Finish, Fail, OrphanEnds, call
<1>1. TypeOK'
  BY TypeNext DEF IInv, Next, Codex
<1>2. ChildInv' /\ QuietInv' /\ OrphanInv' /\ MessageInv'
  <2>0. ChildInv /\ QuietInv /\ OrphanInv /\ MessageInv
    BY DEF IInv
  <2>1. CASE (\E c \in Changes : Edit(c)) \/ Stage \/ Commit \/ (\E s \in Streams : Emit(s)) \/ OrphanEnds
    <3>1. UNCHANGED <<child, outfile>> /\ (orphan' = orphan \/ orphan' = FALSE)
      BY <2>1 DEF Edit, Stage, Commit, Emit, OrphanEnds, process
    <3> QED
      BY <1>0, <2>0, <3>1 DEF ChildInv, QuietInv, OrphanInv, MessageInv
  <2>2. CASE WriteMessage
    <3>1. UNCHANGED <<child, orphan>> /\ pc = "wait" /\ outfile'.own
      BY <2>0, <2>2 DEF WriteMessage, process, ChildInv
    <3> QED
      BY <1>0, <2>0, <3>1 DEF ChildInv, QuietInv, OrphanInv, MessageInv
  <2>3. CASE Read \/ Begin \/ Finish \/ Fail
    <3>1. /\ UNCHANGED <<outfile, orphan>> /\ pc \in {"feed", "wait"}
          /\ child' = "working" => pc = "wait"
      BY <2>0, <2>3 DEF Read, Begin, Finish, Fail, ChildInv
    <3> QED
      BY <1>0, <2>0, <3>1 DEF ChildInv, QuietInv, OrphanInv, MessageInv
  <2> QED
    BY <2>1, <2>2, <2>3 DEF Codex
<1>3. BeforeInv' /\ ShownInv'
  <2>1. CASE pc \in {"feed", "wait"} \/ trouble
    BY <1>0, <2>1 DEF IInv, BeforeInv, ShownInv, Asking
  <2>2. CASE pc = "idle"
    BY <1>0, <2>2 DEF BeforeInv, ShownInv, Asking
  <2> QED
    BY <2>1, <2>2, CodexIsGone
<1>4. Reports'
  <2>1. CASE answer = None
    BY <1>0, <2>1, NoReport
  <2>2. CASE answer # None
    <3>1. trouble /\ pc = "idle"
      BY <2>2, CodexIsGone DEF IInv, QuietInv
    <3> QED
      BY <1>0, <3>1 DEF IInv, Reports, NoneMeansUntouched, ShownIsCommitted, MessageIsOwn
  <2> QED
    BY <2>1, <2>2
<1> QED
  BY <1>1, <1>2, <1>3, <1>4 DEF IInv

\* The steps of the server that end a call without success.
Ends == \/ Refused \/ SpawnFails \/ FeedBroken \/ ExecFailed \/ Unread \/ PathsRefused \/ Dirty

LEMMA InvEnds ==
  ASSUME IInv, Ends
  PROVE  IInv'
<1>1. TypeOK'
  BY TypeNext DEF IInv, Next, Server, Ends
<1>2. pc' = "idle" /\ UNCHANGED <<orphan, trouble>> /\ child' = "none"
  BY DEF Ends, Refused, SpawnFails, FeedBroken, ExecFailed, Unread, PathsRefused, Dirty, Return,
         NoChild, process, IInv, ChildInv
<1>3. ChildInv' /\ QuietInv' /\ BeforeInv' /\ ShownInv'
  BY <1>2 DEF ChildInv, QuietInv, BeforeInv, ShownInv, Asking
<1>4. OrphanInv'
  <2>1. pc # "idle"
    BY DEF Ends, Refused, SpawnFails, FeedBroken, ExecFailed, Ended, Unread, PathsRefused, Dirty
  <2> QED
    BY <1>2, <2>1 DEF IInv, OrphanInv
<1>5. MessageInv'
  <2>1. CASE Refused \/ SpawnFails \/ FeedBroken \/ PathsRefused \/ Dirty
    BY <1>2, <2>1 DEF Refused, SpawnFails, FeedBroken, PathsRefused, Dirty, IInv, MessageInv, Asking
  <2>2. CASE ExecFailed
    BY <1>2, <2>2 DEF ExecFailed, FileRemoved, MessageInv, Asking
  <2>3. CASE Unread
    BY <1>2, <2>3 DEF Unread, Readable, IInv, MessageInv, Asking
  <2> QED
    BY <2>1, <2>2, <2>3 DEF Ends
<1>6. Reports'
  BY Failure DEF Ends, Refused, SpawnFails, FeedBroken, ExecFailed, Unread, PathsRefused, Dirty, Return
<1> QED
  BY <1>1, <1>3, <1>4, <1>5, <1>6 DEF IInv

\* The steps of the server within a call.
LEMMA InvGoesOn ==
  ASSUME IInv, \/ Snapshot \/ Spawn \/ Feed \/ (\E s \in Streams : Drain(s)) \/ ExecDone
               \/ ReadMessage \/ TakeDiff \/ PathsInside \/ NotCommitted
  PROVE  IInv'
<1>1. TypeOK'
  BY TypeNext DEF IInv, Next, Server
<1>2. answer' = None /\ pc # "idle" /\ pc' # "idle" /\ UNCHANGED <<orphan, worktree, before>>
  <2>1. /\ pc # "idle" /\ pc' # "idle" /\ answer' = answer
        /\ UNCHANGED <<orphan, worktree, before>>
    BY DEF Snapshot, Spawn, Feed, Drain, ExecDone, Ended, ReadMessage, TakeDiff, PathsInside,
           NotCommitted, call
  <2> QED
    BY <2>1 DEF IInv, QuietInv
<1>3. Reports' /\ QuietInv'
  BY <1>2, NoReport DEF QuietInv
<1>4. ChildInv' /\ OrphanInv'
  BY <1>2 DEF Snapshot, Spawn, Feed, Drain, ExecDone, ReadMessage, TakeDiff, PathsInside, NotCommitted,
              IInv, ChildInv, OrphanInv, NoChild, process, call
<1>5. MessageInv'
  <2>1. CASE Snapshot \/ Spawn \/ Feed \/ (\E s \in Streams : Drain(s)) \/ ExecDone
             \/ TakeDiff \/ PathsInside \/ NotCommitted
    BY <2>1 DEF Snapshot, Spawn, Feed, Drain, ExecDone, TakeDiff, PathsInside, NotCommitted,
                IInv, MessageInv, Asking, call
  <2>2. CASE ReadMessage
    BY <2>2 DEF ReadMessage, Readable, IInv, MessageInv, Asking
  <2> QED
    BY <2>1, <2>2
<1>6. BeforeInv' /\ ShownInv'
  <2>1. head \in Heads /\ None \notin Heads
    BY TaskAssumption DEF IInv, TypeOK
  <2>2. CASE Snapshot
    BY <2>2, <1>2 DEF Snapshot, IInv, BeforeInv, ShownInv, Asking
  <2>3. CASE Spawn \/ Feed \/ (\E s \in Streams : Drain(s)) \/ ExecDone \/ ReadMessage
    <3>1. /\ UNCHANGED <<pre, trouble>> /\ pc \in {"spawn", "feed", "wait", "message"}
          /\ pc' \in {"feed", "wait", "message", "diff"}
      BY <2>3 DEF Spawn, Feed, Drain, ExecDone, Ended, ReadMessage, call
    <3> QED
      BY <1>2, <3>1 DEF IInv, BeforeInv, ShownInv, Asking
  <2>4. CASE TakeDiff
    <3>1. BeforeInv'
      BY <2>4, <1>2 DEF TakeDiff, IInv, BeforeInv, Asking
    <3>2. ASSUME ~trouble' PROVE shown' = PreferReal(Difference(before.tree, Tracked))
      BY <2>4, <3>2 DEF TakeDiff, DiffFrom, IInv, BeforeInv, Asking
    <3> QED
      BY <1>2, <3>1, <3>2 DEF ShownInv, worktree, Tracked, PreferReal, Difference
  <2>5. CASE PathsInside
    BY <2>5, <1>2 DEF PathsInside, IInv, BeforeInv, ShownInv, Asking, worktree, Tracked
  <2>6. CASE NotCommitted
    <3>1. before \in Heads
      BY DEF IInv, TypeOK
    <3> QED
      BY <2>1, <2>6, <3>1, <1>2 DEF NotCommitted, IInv, BeforeInv, ShownInv, Asking, worktree
  <2> QED
    BY <2>2, <2>3, <2>4, <2>5, <2>6
<1> QED
  BY <1>1, <1>3, <1>4, <1>5, <1>6 DEF IInv

\* The two reports of success.
LEMMA InvCommitted ==
  ASSUME IInv, Committed
  PROVE  Reports'
<1>1. pc = "head" /\ answer' = Done("codex") /\ UNCHANGED <<worktree, before, trouble>>
  BY DEF Committed, Return
<1>2. text.own /\ answer'.own /\ answer'.by = "codex" /\ answer'.shown = shown
  BY <1>1 DEF IInv, MessageInv, Asking, Done
<1>3. ASSUME ~trouble, AsCommitted, head.tree # before.tree
      PROVE  shown = Difference(before.tree, head.tree)
  <2>1. head.tree \in SUBSET Changes /\ before.tree \in SUBSET Changes
    BY DEF IInv, TypeOK, Heads
  <2>2. Difference(before.tree, head.tree) # {}
    BY <1>3, <2>1, DifferenceIn
  <2> QED
    BY <1>1, <1>3, <2>2, TrackedCommitted DEF IInv, ShownInv, PreferReal
<1>4. ShownIsCommitted'
  BY <1>1, <1>2, <1>3 DEF ShownIsCommitted, AsCommitted, worktree, Difference
<1> QED
  BY <1>2, <1>4 DEF Reports, NoneMeansUntouched, MessageIsOwn

LEMMA InvClean ==
  ASSUME IInv, Clean
  PROVE  Reports'
<1>1. pc = "status" /\ answer' = Done("none") /\ UNCHANGED <<worktree, before>>
  BY DEF Clean, Return
<1>2. text.own /\ answer'.own /\ answer'.by = "none"
  BY <1>1 DEF IInv, MessageInv, Asking, Done
<1>3. ~trouble' => AsCommitted /\ head = before
  BY <1>1 DEF Clean, PorcelainDirty, IInv, BeforeInv
<1>4. NoneMeansUntouched'
  BY <1>1, <1>3 DEF NoneMeansUntouched, AsCommitted, worktree
<1> QED
  BY <1>2, <1>4 DEF Reports, ShownIsCommitted, MessageIsOwn

LEMMA InvDone ==
  ASSUME IInv, Committed \/ Clean
  PROVE  IInv'
<1>1. TypeOK'
  BY TypeNext DEF IInv, Next, Server
<1>2. /\ pc \in {"head", "status"} /\ pc' = "idle" /\ UNCHANGED <<orphan, outfile, child>>
      /\ trouble => trouble'
  BY DEF Committed, Clean, Return, process
<1>3. ChildInv' /\ QuietInv' /\ OrphanInv' /\ MessageInv' /\ BeforeInv' /\ ShownInv'
  BY <1>2 DEF IInv, ChildInv, QuietInv, OrphanInv, MessageInv, BeforeInv, ShownInv, Asking
<1> QED
  BY <1>1, <1>3, InvCommitted, InvClean DEF IInv

LEMMA InvCall ==
  ASSUME IInv, Call
  PROVE  IInv'
<1>1. TypeOK'
  BY TypeNext DEF IInv, Next
<1>2. /\ pc = "idle" /\ pc' = "start" /\ before' = head /\ head' = head /\ answer' = None
      /\ trouble' = orphan /\ orphan' = orphan /\ child' = child
  BY DEF Call, process, worktree
<1>3. outfile' # None => outfile # None /\ outfile'.text = outfile.text
  BY DEF Call, IInv, TypeOK
<1>4. ChildInv' /\ QuietInv' /\ OrphanInv' /\ MessageInv' /\ BeforeInv' /\ ShownInv'
  BY <1>2, <1>3 DEF IInv, ChildInv, QuietInv, OrphanInv, MessageInv, BeforeInv, ShownInv, Asking
<1> QED
  BY <1>1, <1>2, <1>4, NoReport DEF IInv

\* A killed server has been in a call, which has not answered.
LEMMA InvWorld ==
  ASSUME IInv, Restart \/ Tidy
  PROVE  IInv'
<1>1. TypeOK'
  BY TypeNext DEF IInv, Next
<1>2. answer' = None /\ pc' = "idle" /\ child' = "none" /\ (outfile' = None \/ UNCHANGED <<pc, outfile>>)
  BY DEF Restart, Tidy, NoChild, call, process, IInv, QuietInv, ChildInv
<1>3. ChildInv' /\ QuietInv' /\ OrphanInv' /\ MessageInv' /\ BeforeInv' /\ ShownInv'
  BY <1>2 DEF IInv, ChildInv, QuietInv, OrphanInv, MessageInv, BeforeInv, ShownInv, Asking
<1> QED
  BY <1>1, <1>2, <1>3, NoReport DEF IInv

LEMMA InvNext == IInv /\ [Next]_vars => IInv'
<1> SUFFICES ASSUME IInv, [Next]_vars PROVE IInv'
  OBVIOUS
<1>1. CASE UNCHANGED vars
  <2>1. TypeOK'
    BY TypeNext DEF IInv
  <2> QED
    BY <1>1, <2>1 DEF vars, call, process, worktree, IInv, ChildInv, QuietInv, OrphanInv, MessageInv,
      BeforeInv, ShownInv, Asking, Tracked, PreferReal, Difference, Reports, NoneMeansUntouched,
      ShownIsCommitted, MessageIsOwn, AsCommitted
<1> QED
  BY <1>1, InvCodex, InvEnds, InvGoesOn, InvDone, InvCall, InvWorld DEF Next, Server, Codex, Ends

LEMMA Invariant == Spec => []IInv
BY InvInit, InvNext, PTL DEF Spec

(* A task reported as not done has left no commit and no file behind,      *)
(* unless git could not be asked or an orphan was at work: HEAD is read    *)
(* after codex has ended, and nothing writes between that and the status.  *)
THEOREM NoneIsUntouched == Spec => []NoneMeansUntouched
<1>1. IInv => NoneMeansUntouched
  BY DEF IInv, Reports
<1> QED
  BY <1>1, Invariant, PTL

(* The diff of a reply is what the reported commits have changed, when     *)
(* codex has left nothing uncommitted and they change anything.            *)
THEOREM ShowsCommitted == Spec => []ShownIsCommitted
<1>1. IInv => ShownIsCommitted
  BY DEF IInv, Reports
<1> QED
  BY <1>1, Invariant, PTL

(* The text of a reply was written by this call's codex: what an earlier   *)
(* one left in the file under the server's pid cannot be read, or has been *)
(* removed.                                                                *)
THEOREM OwnMessage == Spec => []MessageIsOwn
<1>1. IInv => MessageIsOwn
  BY DEF IInv, Reports
<1> QED
  BY <1>1, Invariant, PTL

==============================================================================
