------------------------------ MODULE CodexTask ------------------------------
(***************************************************************************)
(* codex_run_task: one codex process is run in a worktree, and git is      *)
(* asked before and after it what it has done (run_task.rs, codex.rs).     *)
(* The server handles one call at a time.  codex edits, stages and commits *)
(* at will, may fail after any of it, and outlives a server that is killed.*)
(*                                                                         *)
(* A commit is a number and the set of changes in its tree; of a diff only *)
(* the changes it shows are kept.                                          *)
(***************************************************************************)
EXTENDS Naturals, FiniteSets

CONSTANTS
  None,        \* no snapshot, no file, no answer
  ModelText,   \* the diff of a reply that carries what the model said
  Changes,     \* what codex may change
  NewFiles,    \* those that create a file, which git diff ignores until
               \* it is in the index
  MaxCommits,  \* bounds the model: commits made
  MaxChunks,   \* bounds the model: pipe buffers codex fills on one stream
  PipeSize     \* buffers a pipe holds before its writer blocks

Heads == [n : 0..MaxCommits, tree : SUBSET Changes]

ASSUME TaskAssumption ==
  /\ None \notin Heads
  /\ NewFiles \subseteq Changes
  /\ MaxCommits \in Nat /\ MaxChunks \in Nat /\ PipeSize \in Nat \ {0}

VARIABLES
  pc,          \* where the server is in dispatch; "idle" between calls
  pre,         \* pre_sha, with the tree it names
  text,        \* model_text
  shown,       \* diff
  child,       \* the codex process: "new" until it turns to its prompt
  long,        \* the prompt is longer than a pipe holds
  todo,        \* what it still writes to each stream
  pipes,       \* what is in each pipe
  outfile,     \* codex-stdio-out-<pid>.txt
  head,        \* HEAD of the worktree
  work,        \* changes in the worktree's files
  index,       \* new files that git tracks
  orphan,      \* a codex whose server was killed is at work
  commits,     \* commits made so far
  before,      \* history: HEAD when the call began
  trouble,     \* history: an orphan was at work or a git command failed
  answer       \* history: what the last call returned

call == <<pc, pre, text, shown>>
process == <<child, long, todo, pipes>>
worktree == <<head, work, index>>
vars == <<call, process, outfile, worktree, orphan, commits, before, trouble, answer>>

Streams == {"stdout", "stderr"}
Texts == {"plain", "escaping", "garbled"}
Shown == {ModelText} \cup ((SUBSET Changes) \ {{}})

TypeOK ==
  /\ pc \in {"idle", "start", "spawn", "feed", "wait", "message", "diff",
             "paths", "head", "status"}
  /\ pre \in Heads \cup {None}
  /\ text \in [own : BOOLEAN, text : Texts] \cup {None}
  /\ shown \in Shown \cup {None}
  /\ child \in {"none", "new", "reading", "working", "zero", "failed"}
  /\ long \in BOOLEAN
  /\ todo \in [Streams -> 0..MaxChunks] /\ pipes \in [Streams -> 0..PipeSize]
  /\ outfile \in [own : BOOLEAN, text : Texts] \cup {None}
  /\ head \in Heads /\ work \subseteq Changes /\ index \subseteq NewFiles
  /\ orphan \in BOOLEAN /\ commits \in 0..MaxCommits
  /\ before \in Heads /\ trouble \in BOOLEAN

Empty == [s \in Streams |-> 0]

Init ==
  /\ pc = "idle" /\ pre = None /\ text = None /\ shown = None
  /\ child = "none" /\ long = FALSE /\ todo = Empty /\ pipes = Empty
  /\ outfile = None
  /\ head = [n |-> 0, tree |-> {}] /\ work = {} /\ index = {}
  /\ orphan = FALSE /\ commits = 0
  /\ before = head /\ trouble = FALSE /\ answer = None

-----------------------------------------------------------------------------
(* git.                                                                    *)

\* What the files that git tracks contain.
Tracked == (work \ NewFiles) \cup (work \cap index)

Difference(a, b) == (a \ b) \cup (b \ a)

\* Fault: git diff without a commit compares with HEAD.
DiffFromHead(sha) == Difference(head.tree, Tracked)

\* git diff <pre_sha>.
DiffFrom(sha) == Difference(sha.tree, Tracked)

\* Fault: git status -uno.
TrackedDirty == Tracked # head.tree

AsCommitted == work = head.tree /\ index = head.tree \cap NewFiles

\* git status --porcelain prints something.
PorcelainDirty == ~AsCommitted

\* Fault: the diff from disk is taken even when there is nothing in it.
AnyDiff(real) == real

\* The diff on disk, and what the model said when that is blank.
PreferReal(real) == IF real = {} THEN ModelText ELSE real

-----------------------------------------------------------------------------
(* The call returns.  Only a child that has been waited for is gone.       *)

Return(result) ==
  /\ pc' = "idle" /\ pre' = None /\ text' = None /\ shown' = None
  /\ answer' = result

Failed(kind) == [kind |-> kind]
Done(by) == [kind |-> "ok", by |-> by, shown |-> shown,
             own |-> text.own]

NoChild == child' = "none" /\ long' = FALSE /\ todo' = Empty /\ pipes' = Empty

Call ==
  /\ pc = "idle"
  /\ pc' = "start"
  /\ outfile' = IF outfile = None THEN None ELSE [outfile EXCEPT !.own = FALSE]
  /\ before' = head /\ trouble' = orphan /\ answer' = None
  /\ UNCHANGED <<pre, text, shown, process, worktree, orphan, commits>>

\* The arguments, the boundary check or locate_codex_binary refuse.
Refused ==
  /\ pc = "start"
  /\ Return(Failed("refused"))
  /\ UNCHANGED <<process, outfile, worktree, orphan, commits, before, trouble>>

Snapshot ==
  /\ pc = "start"
  /\ pc' = "spawn"
  /\ \/ pre' = head /\ UNCHANGED trouble
     \/ pre' = None /\ trouble' = TRUE
  /\ UNCHANGED <<text, shown, process, outfile, worktree, orphan, commits, before, answer>>

SpawnFails ==
  /\ pc = "spawn"
  /\ Return(Failed("spawn"))
  /\ UNCHANGED <<process, outfile, worktree, orphan, commits, before, trouble>>

Spawn ==
  /\ pc = "spawn"
  /\ pc' = "feed" /\ child' = "new" /\ long' \in BOOLEAN
  /\ todo' \in [Streams -> 0..MaxChunks] /\ pipes' = Empty
  /\ UNCHANGED <<pre, text, shown, outfile, worktree, orphan, commits, before, trouble, answer>>

\* write_all of the prompt, before anything is read: a long one waits for the
\* child to read.  Then the child has the end of its input.
Feed ==
  /\ pc = "feed" /\ child \in {"new", "reading"} /\ (long => child = "reading")
  /\ pc' = "wait"
  /\ UNCHANGED <<pre, text, shown, process, outfile, worktree, orphan, commits,
                 before, trouble, answer>>

FeedBroken ==
  /\ pc = "feed" /\ child = "failed"
  /\ NoChild /\ Return(Failed("feed"))
  /\ UNCHANGED <<outfile, worktree, orphan, commits, before, trouble>>

\* Fault: stderr is piped and nobody reads it.
StdoutOnly == {"stdout"}

\* The streams wait_with_output reads until the child is gone.
Drained == Streams

Drain(s) ==
  /\ pc = "wait" /\ s \in Drained /\ pipes[s] > 0
  /\ pipes' = [pipes EXCEPT ![s] = @ - 1]
  /\ UNCHANGED <<call, child, long, todo, outfile, worktree, orphan, commits,
                 before, trouble, answer>>

Ended == pc = "wait" /\ \A s \in Drained : pipes[s] = 0

\* Fault: the output file is kept when codex fails.
FileKept == outfile

\* remove_file.
FileRemoved == None

ExecFailed ==
  /\ Ended /\ child = "failed"
  /\ NoChild /\ outfile' = FileRemoved
  /\ Return(Failed("exec"))
  /\ UNCHANGED <<worktree, orphan, commits, before, trouble>>

ExecDone ==
  /\ Ended /\ child = "zero"
  /\ NoChild /\ pc' = "message"
  /\ UNCHANGED <<pre, text, shown, outfile, worktree, orphan, commits, before, trouble, answer>>

\* read_to_string refuses what is not UTF-8, and the file stays.
Readable == outfile # None /\ outfile.text # "garbled"

Unread ==
  /\ pc = "message" /\ ~Readable
  /\ Return(Failed("message"))
  /\ UNCHANGED <<process, outfile, worktree, orphan, commits, before, trouble>>

ReadMessage ==
  /\ pc = "message" /\ Readable
  /\ text' = outfile /\ outfile' = None
  /\ pc' = "diff"
  /\ UNCHANGED <<pre, shown, process, worktree, orphan, commits, before, trouble, answer>>

-----------------------------------------------------------------------------
(* What the worktree has to say about it.                                  *)

TakeDiff ==
  /\ pc = "diff"
  /\ pc' = "paths"
  /\ \/ /\ pre # None
        /\ shown' = PreferReal(DiffFrom(pre)) /\ UNCHANGED trouble
     \/ /\ shown' = ModelText /\ trouble' = TRUE
  /\ UNCHANGED <<pre, text, process, outfile, worktree, orphan, commits, before, answer>>

\* validate_diff_paths_under_worktree; a diff of git's stays inside.
Escapes == shown = ModelText /\ text.text = "escaping"

PathsRefused ==
  /\ pc = "paths" /\ Escapes
  /\ Return(Failed("paths"))
  /\ UNCHANGED <<process, outfile, worktree, orphan, commits, before, trouble>>

PathsInside ==
  /\ pc = "paths" /\ ~Escapes
  /\ pc' = "head"
  /\ UNCHANGED <<pre, text, shown, process, outfile, worktree, orphan, commits,
                 before, trouble, answer>>

\* decide_commit_outcome.
Committed ==
  /\ pc = "head" /\ pre # None /\ pre # head
  /\ Return(Done("codex"))
  /\ UNCHANGED <<process, outfile, worktree, orphan, commits, before, trouble>>

NotCommitted ==
  /\ pc = "head"
  /\ pc' = "status"
  /\ \/ (pre = None \/ pre = head) /\ UNCHANGED trouble
     \/ trouble' = TRUE
  /\ UNCHANGED <<pre, text, shown, process, outfile, worktree, orphan, commits, before, answer>>

Dirty ==
  /\ pc = "status" /\ PorcelainDirty
  /\ Return(Failed("dirty"))
  /\ UNCHANGED <<process, outfile, worktree, orphan, commits, before, trouble>>

\* A git status that fails counts as clean.
Clean ==
  /\ pc = "status"
  /\ \/ ~PorcelainDirty /\ UNCHANGED trouble
     \/ trouble' = TRUE
  /\ Return(Done("none"))
  /\ UNCHANGED <<process, outfile, worktree, orphan, commits, before>>

Server ==
  \/ Refused \/ Snapshot \/ SpawnFails \/ Spawn \/ Feed \/ FeedBroken
  \/ (\E s \in Streams : Drain(s)) \/ ExecFailed \/ ExecDone
  \/ Unread \/ ReadMessage
  \/ TakeDiff \/ PathsRefused \/ PathsInside \/ Committed \/ NotCommitted
  \/ Dirty \/ Clean

-----------------------------------------------------------------------------
(* codex.                                                                  *)

AtWork == child = "working" \/ orphan

Edit(c) ==
  /\ AtWork
  /\ work' = Difference(work, {c})
  /\ UNCHANGED <<call, process, outfile, head, index, orphan, commits, before, trouble, answer>>

Stage ==
  /\ AtWork /\ work \cap NewFiles # index
  /\ index' = work \cap NewFiles
  /\ UNCHANGED <<call, process, outfile, head, work, orphan, commits, before, trouble, answer>>

\* git commit -a: what is tracked.
Commit ==
  /\ AtWork /\ TrackedDirty /\ commits < MaxCommits
  /\ commits' = commits + 1
  /\ head' = [n |-> commits + 1, tree |-> Tracked]
  /\ index' = Tracked \cap NewFiles
  /\ UNCHANGED <<call, process, outfile, work, orphan, before, trouble, answer>>

\* It turns to its prompt when it has written what it writes before.
Read ==
  /\ child = "new" /\ todo = Empty
  /\ child' = "reading"
  /\ UNCHANGED <<call, long, todo, pipes, outfile, worktree, orphan, commits,
                 before, trouble, answer>>

\* It has read its prompt to the end.
Begin ==
  /\ child = "reading" /\ pc = "wait"
  /\ child' = "working" /\ todo' \in [Streams -> 0..MaxChunks]
  /\ UNCHANGED <<call, long, pipes, outfile, worktree, orphan, commits, before, trouble, answer>>

Emit(s) ==
  /\ child \in {"new", "working"} /\ todo[s] > 0 /\ pipes[s] < PipeSize
  /\ todo' = [todo EXCEPT ![s] = @ - 1] /\ pipes' = [pipes EXCEPT ![s] = @ + 1]
  /\ UNCHANGED <<call, child, long, outfile, worktree, orphan, commits, before, trouble, answer>>

\* --output-last-message.
WriteMessage ==
  /\ child = "working"
  /\ \E t \in Texts : outfile' = [own |-> TRUE, text |-> t]
  /\ UNCHANGED <<call, process, worktree, orphan, commits, before, trouble, answer>>

\* It ends when it has written all it had to.
Finish ==
  /\ child = "working" /\ todo = Empty
  /\ child' = "zero"
  /\ UNCHANGED <<call, long, todo, pipes, outfile, worktree, orphan, commits,
                 before, trouble, answer>>

Fail ==
  /\ child \in {"new", "reading", "working"}
  /\ child' = "failed" /\ todo' = Empty
  /\ UNCHANGED <<call, long, pipes, outfile, worktree, orphan, commits, before, trouble, answer>>

OrphanEnds ==
  /\ orphan
  /\ orphan' = FALSE
  /\ UNCHANGED <<call, process, outfile, worktree, commits, before, trouble, answer>>

-----------------------------------------------------------------------------
(* The rest of the world: the server is killed and started again with      *)
(* another pid, and its client, done with an answer, cleans the worktree.   *)

Restart ==
  /\ pc # "idle"
  /\ pc' = "idle" /\ pre' = None /\ text' = None /\ shown' = None
  /\ orphan' = (orphan \/ child \in {"new", "reading", "working"})
  /\ NoChild /\ outfile' = None
  /\ UNCHANGED <<worktree, commits, before, trouble, answer>>

Tidy ==
  /\ pc = "idle" /\ ~orphan /\ ~AsCommitted
  /\ work' = head.tree /\ index' = head.tree \cap NewFiles
  /\ answer' = None
  /\ UNCHANGED <<call, process, outfile, head, orphan, commits, before, trouble>>

Next ==
  \/ Call \/ Server
  \/ (\E c \in Changes : Edit(c)) \/ Stage \/ Commit
  \/ Read \/ Begin \/ (\E s \in Streams : Emit(s))
  \/ WriteMessage \/ Finish \/ Fail \/ OrphanEnds
  \/ Restart \/ Tidy

Spec == Init /\ [][Next]_vars

\* The server runs, and codex reads its prompt, writes what it has to write and
\* ends: nothing in the server bounds its time.
FairSpec ==
  /\ Spec
  /\ WF_vars(Server)
  /\ WF_vars(Read) /\ WF_vars(Begin)
  /\ WF_vars(\E s \in Streams : Emit(s)) /\ WF_vars(Finish)

-----------------------------------------------------------------------------
(* Properties.                                                             *)

(* "(None, "none") when the worktree is clean": a task reported as not     *)
(* done has left no commit and no file behind, unless git could not be     *)
(* asked or an orphan was at work (run_task.rs 389-413).                   *)
NoneMeansUntouched ==
  answer # None => (answer.kind = "ok" => (answer.by = "none" /\ ~trouble =>
    head = before /\ AsCommitted))

(* The diff of a reply is what the reported commits have changed, when     *)
(* codex has left nothing uncommitted and they change anything (dispatch,  *)
(* run_task.rs 162-204).                                                   *)
ShownIsCommitted ==
  answer # None => (answer.kind = "ok" =>
    (answer.by = "codex" /\ ~trouble /\ AsCommitted /\ head.tree # before.tree =>
      answer.shown = Difference(before.tree, head.tree)))

(* The text of a reply was written by this call's codex, not left in the   *)
(* output file by one that failed before (codex.rs 259-302).               *)
MessageIsOwn == answer # None => (answer.kind = "ok" => answer.own)

\* The server waits for codex to read its prompt, and codex for the server to
\* read what it has written.
Jammed ==
  /\ pc = "feed" /\ long
  /\ child = "new" /\ \E s \in Streams : todo[s] > 0 /\ pipes[s] = PipeSize

(* A call returns, however much codex writes to either stream and whenever  *)
(* it reads, unless the prompt is longer than a pipe holds and codex fills  *)
(* an output pipe before it reads the prompt (codex.rs 281-290).            *)
ReturnsUnlessJammed == (pc # "idle") ~> (pc = "idle" \/ Jammed)
==============================================================================
