# Verification of mcp-tools

TLA+ specifications of the MCP servers in this repository, the TLC runs that
check them on small instances, and theorems proved with TLAPS. `PROJECT.json`
lists the runs, the source lines each definition stands for, the hazards and
the disagreements between code and documentation that the runs show.

    tlc -workers 2 -config PoolRace.cfg MCWtPool      # any run
    tlapm WtPoolProofs.tla                            # any module of proofs

## 1. The system

Four independent MCP servers (stdio, one request at a time each) and helpers.

| component | state it keeps | operations | interacts with |
|---|---|---|---|
| wtpool worktree pool (`wtpool/src/pool.rs`) | none of its own: the git worktrees `wt-NN`, branches, `flock`ed files in `/tmp` | `pool_acquire`, `pool_release`, `pool_status` | other wtpool processes, workers writing in slots, merges |
| wtpool `merge_to_main` (`merge.rs`) | branches, worktrees, main's worktree, verdict files | gates, rebase, merge, verify | reviewers (verdict files), workers, other servers, hooks |
| wtpool TTL cache and MCP server (`cache.rs`, `mcp.rs`) | cached answers with their time | tools/call | all wtpool tools |
| wtpool leases (`lease.rs`) | JSON lease files | write, match, expire | dispatchers of work |
| wtpool cumulative document (`cumulative_md.rs`) | none | union merge of conflict hunks | `merge_to_main` |
| wtpool agent summary, pending reviews (`agents.rs`, `reviews.rs`) | none | queries | agents' transcripts and heartbeats, verdict files |
| wtpool verdict script (`extract-verdict.sh`) | none | a verdict file to JSON | reviewers, the gates of `merge_to_main` |
| wtpool git reads, CLI (`git.rs`) | none | queries | git |
| lsp-cpp supervisor (`supervisor.rs`) | state, backoff, restart history, instants | `record_spawn`, `record_exit`, `should_retry` | the MCP loop |
| lsp-cpp MCP loop and queue (`mcp.rs`, `queue.rs`) | slots in flight | tools/call in five layers, status, shutdown | supervisor, clangd client |
| lsp-cpp clangd client (`clangd.rs`) | the child, its pipes, request ids, opened files, warm-up | spawn, request, index build, shutdown | clangd |
| lsp-rust client (`lsp.rs`) | the child, request ids, indexing | request with retry, wait for indexing | rust-analyzer |
| lsp-shim-core framing | none | read and write frames | both LSP clients |
| codex-stdio runner (`run_task.rs`, `codex.rs`) | a worktree before and after | run a task, decide the outcome | codex |
| codex-stdio MCP server, health, hooks | none | tools/call | the runner |
| clangd-launcher | a pid file | start, stop | clangd |

What is hard in it:

* wtpool: several processes act on shared git state with a lock on one side
  only; every operation is a series of commands that can be cut at any point;
  workers go on working. Correct means that a slot is lent once, that a grant
  is clean and current, that nothing is lost without `force`, and that what
  lands on main is what was reviewed.
* lsp-cpp: a child that dies at any moment, observed late and by several
  layers; a policy over time windows. Correct means that no client is locked
  out, that hints are kept and that every restart is charged to the budget.
* lsp-rust, lsp-cpp client: replies out of order, timeouts that race answers, a
  child that dies inside a handshake, a batch or a shutdown, and progress that can
  only be guessed from outside (samples of an index, shards on disk).
* codex-stdio: a task that fails after it has changed the worktree.
* cache and leases: answers older than they look, a lease that outlives the task it
  was emitted for; calendar and glob arithmetic.
* text that decides: verdict files, conflicts of the cumulative document, agents'
  traces, read by hand-written parsers whose result depends on order.

## 2. Modules

| module | role |
|---|---|
| `SlotLease` | abstract allocator: `Grant`, `GiveBack` |
| `WtPool` | `pool_acquire` and `pool_release`; refines `SlotLease` |
| `MCWtPool` | symmetry for the pool's runs |
| `WtPoolProofs`, `MergeProofs`, `WtServerProofs`, `CodexProofs`, `SessionProofs`, `ServeProofs`, `ClangdProofs` | theorems about the modules they extend (section 4) |
| `SharedLemmas` | the least of some numbers, induction over the places of a sequence, and the messages between a client and its language server |
| `MergeToMain` | `merge_to_main` |
| `MergeRules`, `MCMerge` | it and the two texts it reads, with what must be so of them; its runs' instances |
| `Supervisor` | the restart policy |
| `LspServe` | the MCP loop, the queue and clangd's life, over `Supervisor` |
| `RustSession` | lsp-rust's client, its pipes and rust-analyzer |
| `CodexTask` | `codex_run_task` around one codex process |
| `ClangdSession`, `MCClangd` | lsp-cpp's client: spawn, warm-up, requests, index build, shutdown; and its compile database |
| `WtServer` | wtpool's server: the cache over timed reads, and lease files, while tasks come and go |
| `LeaseRules`, `LeaseFile` | globs, calendar and timestamps of leases; validation and the lease tools |
| `AgentScan` | `agent_inflight_summary` |
| `WtRules`, `MCWtServer` | the server, the leases and the agents together, with what must be so of the rules; the instances |
| `CumulativeMd` | resolution of a conflict in the cumulative document |
| `VerdictFile` | `extract-verdict.sh` |

A definition marked *Fault* is a plausible bug in the definition that follows
it. No specification uses one; each shows that some property depends on the
code it replaces.

### WtPool

A request of worker `w` is served by a process whose program counter is
`pc[w]`; one action per read of git state, git command or lock operation:
`AcquireStart` (resolve the base), `AcquireBranchCheck`, `AcquireInventory`,
`AcquireTryLock` (non-blocking `flock`, next slot when contended),
`AcquireReverify`, `AcquireCheckoutBranch` or `AcquireCheckoutDetached`,
`AcquireReply`; and for a release `ReleaseStart`, `ReleaseDirtyGate`,
`ReleaseMergeGate`, `ReleaseDetach`, `ReleaseReset`, `ReleaseClean`,
`ReleaseDeleteBranch`, `ReleaseVerify`. `Crash` ends a process between any two
steps; a git command that fails inside a release has the same effect.

Commits are elements of `Commits` and a tip is the set of commits reachable
from it, so "ahead of main" is non-inclusion. A slot's `files` are the kinds of
uncommitted files in it (tracked, tracked below `.cargo/`, untracked, ignored),
which is what the gates, reset and clean tell apart. A checkout may be refused when
the slot has uncommitted files and its HEAD moves to another commit, and ends the
request. The code keeps no record of who has a slot, and `pool_release` releases any
slot of the pool for anybody. So two histories stand for a loan: `holds[w]` is what
worker `w` was told and has not given back itself; `lent[w]` is the slot that is on
loan to `w`, from the checkout that gives it to `w` to the detach of whichever release
comes first. Workers edit and commit in the slots they hold; main grows by merging
branches. `base_sha` is main or its first commit. Not modelled: the syntax of branch
names, path checks, `pool_status` (read only).

### MergeToMain

One action per gate and git command, in the order of the code: `Start`
(request and branch check), `VoiceGate`, `LeaseGate`, `Snapshot` (already
merged, dry run), `RebaseClean` / `RebaseStops`, `ConflictResolved` /
`ConflictBails` / `ConflictIoError`, `TipGate`, `MergeLands` /
`MergeConflicts` / `MergeHookBlocks` / `MergeRefused`, `Verify`. A change is an
element of `Changes`, those in `Carveout` touch allowlisted paths only; a tip is
the main it stands on and the branch's own changes; `verdict[b][r]` is the
verdict file with the tree that was reviewed and its lease field. `halfMerged`
is a MERGE_HEAD in main's worktree, `onto[b]` a rebase in progress, which the
`git rebase --abort` of a server ends or, when it fails, leaves open. Whether a
conflict is confined to the cumulative document, and what a hook prints, are
free choices. `reply` is the status returned by the last step. Left out: message
and trailer text (the voices decide, the hook checks the text), symlink
resolution, and the override variables, which are taken as unset.

### Supervisor and LspServe

The policy compares its clock with stored instants only, so the model keeps
the *age* of each instant and `Age` advances them, up to the largest value the
code distinguishes. `Proceed`, `Wait` and `Fail` are the answers of
`should_retry` with their state changes.

`LspServe` is the handler of tools/call: `Call` (queue slot), `GateProceed` /
`GateWait` / `GateFail`, `Probe`, dispatch, handshake, request, `Record`;
`Status` and `Shutdown` bypass the gates. `child` is `"up"`, `"dead"` (exited
and not reaped) or `"none"`; `Die` may happen between any two steps and `Tick`
lets time pass anywhere. A unit of time is less than a `Second`, and the hint of a
refusal is cut to whole seconds as in the reply. `hint` (what is left of the time a
caller was told to wait), `standing` (the restarts in the window at that time), `spawned`
and `counted` (an exit was recorded since the last spawn) are history variables. The
conversation with clangd is reduced to the outcomes that `ClangdSession` has for
it; the error of `try_wait` is left out, as are counters no decision reads. The queue never refuses here: the
loop serves one call at a time.

### RustSession

The client serves one call at a time, so its state is one program counter and the
locals of the function it is in: `Call` (a query or `wait_for_indexing`) and
`Shutdown` begin a call, `AlreadySpawned` / `Spawn` / `Handshake*` are `spawn`,
`SendRequest` writes a frame, and the receive loop is `Skip`, `Timeout`,
`Broken` and the three ways to use the awaited answer (`QueryAnswered`,
`QueryTransient`, `Sampled`). `Return` is every way out of a call; it leaves the
child alone, as the code does. rust-analyzer answers the requests it has
(`pending`) in any order, late, with an error, or never; it sends
notifications, with `ServerAsks` also requests that carry ids of its own (`ServerRequest`),
indexes (`Grow`) and may die or fall silent. `inbox` is its stdout and keeps its
messages across calls, so an answer that comes after a timeout meets a later
call.

Ids: the code counts upwards and compares for equality, so the model takes an
id that no request or answer of the client in transit carries; a request of the server
may carry any, and the receive loops take it for an answer when it is the awaited one. Both receive loops look at the clock only
after a message that is not the awaited one; the read itself blocks, and
`Timeout` is written so. `index` stands for the number of workspace symbols,
which is all the digest depends on; an error answer samples as `Null`. Left out: what
the tools make of a result, argument checks that send nothing, the sleeps between
attempts and samples, malformed frames.

### CodexTask

`dispatch` with the `codex exec` client in it: `Snapshot` (the first `rev-parse`),
`Spawn`, `Feed` (the whole prompt, before anything is read), `Drain` (`wait_with_output` reads both
streams), `ExecFailed` / `ExecDone`, `ReadMessage` / `Unread` (the output
file), `TakeDiff`, `PathsRefused` / `PathsInside`, and the outcome: `Committed`,
`NotCommitted`, `Dirty`, `Clean`. Each git command may fail, with the effect the
code gives it. A prompt may be longer than a pipe holds (`long`): the server then waits
in `Feed` until codex reads (`Read`). codex may write to its streams before it does; when
it has its prompt (`Begin`) it edits, stages and commits (all that
is tracked) in any order, writes to its streams and the output file, and ends or
fails after any of it. `Restart` kills the server; a codex that is running goes
on as an `orphan`, and since the file's name holds the pid, `outfile` starts anew.
`Tidy` is the client cleaning the worktree.

Commits are numbered, so that HEAD can move back to an old tree; `work` is what
the files contain, `index` the new files that git tracks, which is what separates
`git diff` from `git status`. `before` and `trouble` are histories: the worktree
when the call began, and whether an orphan or a failing git command has left
the server without the facts (`Jammed` is server and codex waiting for each other to read). Left out: arguments, ids and tokens, the replay
transport of the tests, paths through symlinks, the effect of the sandbox. codex is
taken to keep stdin open until it ends.

### ClangdSession

A call of the serve loop as `clangd.rs` carries it out: `spawn` (`Spawn`, the
handshake `Init*`, `Seed`, and the warm-up gate `GateSkipped` / `GateProbe` /
`ProbeAnswered`), `request` (`SendRequest`, `Skip`, `Timeout`, `Broken`,
`QueryAnswered`), `build_full_index` (`Plan`, then `CloseBatch` and `OpenBatch` for
each chunk, then `SettlePoll`, one round of the drain loop) and `shutdown`.
The receive loops are those of `RustSession`: a frame that is not the awaited answer
is dropped, and only then is the deadline looked at. `Return` is the only way out of a
call and keeps the child; a child that died is reaped by the next `Call`, which
starts with the serve loop's `is_alive`.

clangd answers what is `pending` in any order, with a result or an error, sends
notifications, parses an open document (`warm`: its symbols answer the probe), adds
shards while the build drains (the loop compares their number, which a shard written in the
place of an old one leaves as it is: that is no step here), and may fall silent or die at any time. `open` holds the documents
that are open in clangd, `batch` what the client believes to have open. Time in the
drain loop is counted in polls; `quiet` (polls since a shard was added) is the history a report is compared with.
The files of a build are kept as positions in the compile database, the first of each
file, taken in order. Left out: positions, payloads, URIs, the extra `didOpen` of a queried
file, the log and index files.

### WtServer, LeaseRules and LeaseFile

`WtServer` has the cache (`Hit`, `Miss`, `Compose`, `Fail`) with an age per entry,
over reads that take time: `worktree_list` reads the slots one after the other
(`ReadSlot`). Meanwhile tasks take slots and edit; anybody releases any slot, forced or
not, in the steps that matter for a lease (`ReleaseGate`, `Detach`, `Reset`, `Clean`,
`Released`), each of which may fail or be the last before the process is killed; and
tasks emit leases, for a slot of theirs or any other, since `lease emit` asks only for a
directory: a temporary file in the worktree and a rename, either of which may fail or be
cut off. Who a slot is lent to stands for all the facts the tools report of it; `Acquire`
is atomic here, as in `SlotLease`, and may come as soon as the slot is detached. `since`
and `old` are histories: how long ago a fact was last true, and which leases and
temporary files were begun before the last release of their slot.

`LeaseRules` has globs over paths, the parser of timestamps, the calendar and
expiry as functions, next to what they should mean (a glob by a cut of the path into
pieces that its items cover, a date by counting days). The reader and the writer check
the text of a timestamp digit by digit; here it is the record of its fields.
`LeaseFile` adds what surrounds them: `validate_self`, the reader with its missing and
unknown fields, and `worktree_lease_emit`, `_get` and `_check`. Left out: fields
that are only copied, and the exact-match rule for test commands.

### AgentScan

A transcript or a heartbeat is its task, the time it was written and the worktree
named in it; `Observations` merges them in the order they are read, `Place`
attributes, `Group` and `Summary` build the answer. Left out: how a worktree's name is
found in a transcript's text, and formats.

### CumulativeMd and VerdictFile

Pure functions on documents whose lines are what the parsers can make of them: a kind
and the parts that are compared. `CumulativeMd` finds conflict blocks, refuses those
in the head or foot or with anything but rows, and unites the sides in order: a row
has the place that counts the rows before it (`Place`), as in a `BTreeSet`.
`MergeToMain` takes either outcome (`ConflictResolved` or `ConflictBails`).
`VerdictFile` splits the file at its delimiters, reads fields (the last counts),
checks versions, words and required fields, and collects findings by section outside
fences; the result is what `MergeToMain` calls a verdict file. Left out: quotes, byte-order marks, letter case.

## 3. Runs

| run | instance | shows |
|---|---|---|
| `PoolRace` | 2 slots, 2 workers, 2 branches, no commits, any interleaving, crashes, anybody releases any slot; no force | `TypeOK`, `Exclusive`, `OwnerKeepsBranch`, `LeaseRefined` (the pool implements `SlotLease`), `LockFreed` |
| `PoolSerial` | one server for two workers, also acquiring without a branch, tracked, untracked and `.cargo` files, 2 commits, force | `GrantAtBase`, `NoSilentLoss`, `FilesGate` |
| `MergeGates` | 2 servers, 2 branches, 2 changes (one allowlisted), 1 reviewer; small documents and verdict files | `TypeOK`, `LandedAsSigned`, `NoneOutOfScope`, `UnreviewedIsCarveout`; `MdKeepsBothSides`, `VerdictsReadAsWritten` |
| `ServeLoop` | two ticks to a second, backoff 2 to 4, healthy 5, window 6, 3 restarts | `TypeOK`, `HintProgress`, `NoLockout`, `RespawnCounted` |
| `SessionFlow` | 2 questions, 2 attempts, an index that grows once, 2 messages in the pipe, 1 abandoned request, requests of the server | `TypeOK`, `NoForeignAnswer`, `NoDoubleAsk`, `ReturnsIfSpokenTo` |
| `ClangdFlow` | 1 seeded header, a database of 5 entries for 4 files, 3 of them built in batches of 2, 2 quiet polls, 4 at most, 3 shards | `TypeOK`, `OnlyTheDeadAreCharged`, `DocumentsBounded`, `NoFileAdded`, `ReturnsIfSpokenTo`, `ShutdownKillsTheTalking` |
| `WtServer` | questions about the list and a slot, 2 slots, 1 task, a TTL and computations of 1 tick, no leases; patterns, dates, lease requests, agents' files | `TypeOK`, `AnswersFresh`; `LeaseRulesMean`, `AgentsSeen` |
| `WtLease` | 2 slots, 2 tasks that emit leases anywhere, no questions | `ReleasedIsPristine` |
| `CodexFlow` | an edited and a new file, 2 commits, short and long prompts, 2 pipe buffers of output per stream into pipes of 1 | `TypeOK`, `NoneMeansUntouched`, `ShownIsCommitted`, `MessageIsOwn`, `ReturnsUnlessJammed` |

Violation runs: the statement is one that a comment of the repository makes, and the
program does something else (the full texts are in `PROJECT.json`).

| run | property | what happens |
|---|---|---|
| `PoolLateReset` | `GrantAtBase` | A release takes no lock. After its `checkout --detach` the slot is free to `pool_acquire`; `reset --hard` and `clean` then hit the new owner. |
| `MergeRace` | `LandedAsSigned` | The merge names the branch, so a commit made after the tip check lands unreviewed. |
| `SessionDead` | `DeadIsReplaced` | A child that died stays in `self.child`; `spawn` does nothing while it is there, so every later call fails until `shutdown`. |

`MdKeepsBothSides`, `VerdictsReadAsWritten`, `LeaseRulesMean` and `AgentsSeen` are
about functions of no state. They are invariants of the form `Init => ...`, so TLC
evaluates them in the initial states only, over every member of the instance.

### Behaviours met while modelling

What the code does, and the models with it, although a text of the repository says
otherwise or a reader would not expect it. The properties above leave these cases aside by
a constant, a premise or their wording; they are not claims that the cases are right.

Where a text says otherwise:

* Pool, `WorkDuringRelease = TRUE`: a worker commits between the merge gate (pool.rs 533) and
  the detach of the release of its slot; the commit goes with `reset --hard` and `branch -D`.
  pool.rs 441-444 has such a release refused unless forced. `NoSilentLoss` fails.
* Pool, `DetachedAcquire = TRUE` and `CarefulCallers = FALSE`: a slot granted without a branch is
  detached and clean, which is what `classify_slot` (141) calls free, and is granted again. pool.rs
  246-249 offers that path for work "on a slot they own". `Exclusive` fails.
* Pool: `is_dirty` skips every path below `.cargo/`, tracked or not (192), and `reset --hard`
  (554) discards tracked changes there without force; the comment at the gate (497-501)
  makes no exemption. `FilesGate` speaks of the other files.
* Merge: a merge that git stops, because main moved and conflicts or a hook refuses it, is answered
  with `rebase_conflict` and nothing runs `merge --abort` (merge.rs 590): main's worktree keeps its
  MERGE_HEAD and later merges are refused. merge.rs 88 says "main is untouched".
* Merge: the result of `git rebase --abort` is thrown away (985, 994, 1001). When it fails, the reply is
  still `rebase_conflict`, and a rebase is open in the worktree; merge.rs 947-948 says "Rebase has been
  aborted by the time this is returned."
* Merge, `WhileMerging = TRUE`: a verdict that says out-of-scope and is written between the lease
  gate (491) and the merge is not seen, where merge.rs 851-853 says "Merge MUST NOT
  proceed". `NoneOutOfScope` fails.
* Cumulative document: a block in which both sides have a row of one branch with different texts
  passes the filters, and both versions stay (cumulative_md.rs 82, 140-151); 72-77 says the
  filters "will both correctly bail on that pattern". `MdKeepsBothSides` is about rows
  that were added or removed.
* Pending reviews: the word is read from the first line of the file (reviews.rs 111), which
  in every file that `extract-verdict.sh` accepts is blank or the `---` of the frontmatter, so it is
  never the verdict; reviews.rs 17-19 says that files open with `VERDICT: ...`.
* Leases: a release detaches before it cleans (pool.rs 547-564). A grant between the two, or after a
  release that ended there, hands out the lease of the task before, which
  pool.rs 559-561 says the clean is for. `ReleasedIsPristine` is about slots whose release came to its end.
* lsp-cpp loop: the probe of the first call finds no child and records an exit (mcp.rs 499), so that
  clangd is started for the first time with a restart in the history and the state Backoff;
  supervisor.rs 391-393 says "no restart history entry is added". `RespawnCounted`
  leaves the first clangd aside.
* lsp-cpp loop: Failed tells the window minus the age of the oldest restart (supervisor.rs 507), cut to
  whole seconds (mcp.rs 457, 474), and a restart exactly as old as the window still counts (548). A caller
  that waits what it was told, 0 s included, may be refused again, where mcp.rs 467 says "window
  expires in {}s". `HintProgress` gives it a second more.
* lsp-cpp client: a deadline is looked at between blocking reads (clangd.rs 514), so a clangd that is
  alive and silent is waited for without limit and `clangd_busy` never comes, where the README of
  lsp-cpp (50-52) has it at the deadline; and `shutdown` waits in the same way before it kills
  (1459), under a comment that says "If clangd is wedged we still want to kill it". Without the premise `Talks`,
  `ReturnsIfSpokenTo` and `ShutdownKillsTheTalking` fail.
* lsp-cpp client: the drain loop compares numbers of shards (983); a shard that is written again in
  its place changes none, so a report without `cap_fired` does not say, as 288-290 does, that
  writing had ended. `NoFileAdded` says what it does.
* lsp-rust: the same blocking read (lsp.rs 322-329), where 15-17 has every request use the timeout.
* lsp-rust: any frame with the awaited number is the answer (335), a request of the server's own
  included; it has no result and is returned as null. 302-304 says "route by `id`. Drops notifications
  and unrelated responses." `NoForeignAnswer` holds because such a null is the answer to no question.
* lsp-rust: three equal samples end `wait_for_indexing` (475), where 446-447, 461-462 and the tool's
  description (mcp.rs 207) say two; and error answers count as equal samples (468), where 466-467
  promises another query.
* codex: a `git status` that fails counts as clean (run_task.rs 412), where 391-393 says that `"none"`
  means a clean worktree. `NoneMeansUntouched` leaves out the calls in which git could not be asked.

Where no text says otherwise, or the step is left out of the models:

* Pool: nothing ties a slot to who has it. A second release of a slot, or one by
  somebody else, passes the gates as soon as the slot is clean and merged, and takes its new owner off the
  branch; the slot is then lent again while that worker goes on in it. pool.rs (504-506) names
  cleanup after a stuck slot as a use of release, and no text excludes the rest. So a loan ends,
  in `Exclusive` and the other properties, with any release; what they say is
  that no acquire gives a slot away that is on loan. The dirty flag of `worktree_list`
  counts `.cargo`, the pool's does not. A lease file that is not ignored makes a slot
  dirty, so that an unforced release is refused.
* Merge: the gates read a verdict's tip and lease fields and never its word, so a BLOCK
  on the tip that is merged stops nothing (merge.rs 861). An I/O error while the
  document is resolved leaves the rebase open (975), and the `merge_sha` of the
  reply may be another server's merge (601).
* Leases and agents: `worktree_lease_check` does not look at `expires_at`, and the
  fields of an offset are not range-checked. An argument that is not an array counts
  as an empty list, and members that are no strings are dropped (mcp.rs 617-627). A
  file time in the future makes an agent stale. A transcript is cut at 20 kB, which
  may truncate a worktree's name (agents.rs 306).
* The server's own acquire does not evict its cached list; `cache.rs` documents
  it, and `AnswersFresh` bounds how long it lasts.
* lsp-cpp loop: a success after a probe that led to Failed turns it into Running inside the
  window, which mcp.rs 616-618 excludes. A window may hold more restarts than the budget, and
  `retry_after` is then the time left of the oldest alone; the code
  calls it a "hint, not a hard guarantee".
* lsp-cpp client: the gate's default is 60 s and one probe may take 90 s, and a gate
  that runs out lets the call go on with a cold index. A clangd whose handshake failed
  is kept, and the next call queries it uninitialized. clangd dying while shards settle
  gives a report without `cap_fired`. stdout is drained between batches only.
* Framing: after a malformed header `recv_frame` is out of step with the stream.
* codex: a prompt longer than a pipe and a codex that fills an output pipe before it reads
  block each other for ever (`Jammed`, codex.rs 284), and `wait_with_output` has no time limit.
  `codex_run_task` blames codex for files an earlier, failed run has left
  (run_task.rs 407), and no reply names a commit of a run that fails after it.
* clangd-launcher: two starts at once both spawn, a stale pid file may name another
  process, and its `pgrep` fallback may adopt the clangd of lsp-cpp.

### Bounds

* Pool: a conflict over a slot needs two workers and the fall-through to the next
  slot a second slot; exhaustion needs as many requests as slots, and two branch
  names separate "same branch" from "another branch". `PoolSerial` has two
  commits, so that one can be merged and the other not. `PoolRace` has none and no force,
  since neither decides who has a slot: its three safety properties are proved with both. Files of kind ignored, which no gate of the pool looks at, are in no run and in
  all theorems.
* Merge: the second branch is what moves main between a rebase and a merge;
  both servers may also work on the same branch. Reviewers write a verdict when
  the branch has something to merge.
* Serve: the values keep the order of the code's (1 s, 16 s, 60 s, 300 s, 5 restarts):
  the backoffs before Failed add up to no more than the window, the cap is reached,
  a child can become healthy within a window. Two ticks to a second are what cutting a
  time to whole seconds needs. `MaxRecent` bounds the model: a call
  is made while fewer restarts than that are inside the window. It lies above
  `MaxRestarts`, because one call can record two exits and a success can overrule
  Failed, so the history does grow past the budget.
* Session: two attempts are one that is retried and one that is the last (the code
  has 3). One growth of the index is a digest that changes between samples. Two
  messages in the pipe and one abandoned request are an old answer ahead of the
  awaited one, with a notification between them or not. Two questions are needed to mistake one
  answer for another. At most one request of the server is in the pipe.
* Codex: an edited and a new file are what diff and status tell apart; two commits make
  a run whose net effect is nothing, or one in each of two calls; twice what a pipe
  holds blocks a writer nobody reads. A prompt is short or too long for the pipe.

* clangd: 5 database entries are one duplicate, one file beyond `MaxTus` and a second,
  shorter batch. Two quiet polls of at most four separate a quiet end from the cap, with
  a shard in between; three new shards can come before, between and after the first
  count. Two messages in the pipe and one abandoned request are as for the session.
* Server: the age of an entry passes the TTL, and a read is slower than the rest of a
  computation. Two slots separate the list from a question about one slot; the other slot
  is symmetric to it. `WtServer` and `WtLease` have one half each: questions and
  one task without leases, and the leases of two tasks, which may write in one slot at
  once or one after the other, without questions. One release per slot is under way at
  a time, which bounds the model and every theorem about it.
* Functions: patterns and paths of up to three segments, with a segment where `*` has to
  backtrack; every day of years at the epoch, leap years, centuries, the ends of an
  era and of the format; offsets around midnight; two
  transcripts and two heartbeats of two tasks; documents of a head, a foot and one or
  two conflicts, with guards of one line; verdict files with up to two fields too many
  and bodies of up to five lines. Two of the six required fields are used, as all are
  treated alike.

### Assumptions of the passing runs

`PoolSerial` serves one request at a time. Its workers release the slot they hold
(`HoldersRelease`), wait for a release to return, and ask for nothing while a slot
lent without a branch is out (`CarefulCallers`). `MergeGates` has nobody commit to or
review a branch while it is being merged. `PoolRace` has callers name a branch.
`WtServer` has no leases (`Emitters`), which are no fact a cached tool reports. What
happens without these is shown by `PoolLateReset` and `MergeRace` and told above of the other
constants; without `HoldersRelease` a release by somebody else makes a worker lose its slot
without a word.

Symmetry is used for interchangeable workers, branches, commits, servers, reviewers,
tasks and the slots of `WtLease`, in runs without liveness only; the pool's slots are tried
in order and are not symmetric.

### Fairness

`PoolRace`: weak fairness of each running acquire or release, which may still
crash; these are straight-line code with non-blocking locks. Nothing makes a worker
ask, work or merge. `CodexFlow`: the server runs, and codex reads its prompt,
writes what it has to write and ends; the code sets no time limit, so a codex that
hangs blocks its server. `ServeLoop`: time passes, the client keeps calling, and the
handler goes on. The last holds only for a clangd that answers, goes on talking or ends:
`ServeLoop` takes it as given, since `NoLockout` is about the policy and not about the reads.

`SessionFlow` and `ClangdFlow` have the client run, its deadlines pass and (lsp-rust)
calls keep coming, and nothing of the child. `ReturnsIfSpokenTo` and
`ShutdownKillsTheTalking` have as their premise (`Talks`) that a child that is alive says
something now and then (an answer, any answer, a notification) or dies. It is a premise
about rust-analyzer and clangd, not about the code: without it a silent child is waited for
without limit, and both fail.

## 4. Proofs

Every safety invariant and action property of the passing runs is a theorem, for all values
of the constants: any number of slots, workers, branches, servers, reviewers, requests given
up, files, messages, shards, and any budget, window, TTL and pipe size. `*` marks a theorem with a hypothesis (below).

| module | theorem | property |
|---|---|---|
| `WtPoolProofs` | `TypeCorrect` | `TypeOK` |
| | `SlotExclusive`\* `BranchKept`\* `PoolImplementsLease`\* | `Exclusive`, `OwnerKeepsBranch`, `LeaseRefined`, when every acquire names a branch, whoever releases |
| | `SerialExclusive`\* `SerialImplementsLease`\* `GrantIsClean`\* | `Exclusive`, `LeaseRefined`, `GrantAtBase`, for one server whose callers may omit the branch |
| | `NothingLost`\* `FilesKept`\* | `NoSilentLoss`, `FilesGate`, for one server |
| `MergeProofs` | `TypeCorrect` | `TypeOK` |
| | `OnlyReviewedLands`\* `LeaseKept`\* `CarveoutOnly`\* | `LandedAsSigned`, `NoneOutOfScope`, `UnreviewedIsCarveout` |
| | `ReadAsWritten` `BothSidesKept` | `VerdictsReadAsWritten`, `MdKeepsBothSides` |
| `WtServerProofs` | `TypeCorrect` `NoOldLease` `AnswersAreFresh` | `TypeOK`, `ReleasedIsPristine`, `AnswersFresh` |
| | `DateAndBack` `DayAndBack` `DaysAdvance` `CalendarCounts` | the calendar of the leases; `DaysCount` |
| | `WrittenIsRead` `EmittedReadsBack` `ExpiresOnTime` | timestamps, what emit writes, `ExpiryMeans` |
| | `SegmentMatchMeans` `PathMatchMeans` `GlobsMatch` | the two matchers accept what their patterns cover |
| | `EmitWorks` `CheckWorks` `LeaseRulesHold` | what emit refuses, what check reports; `LeaseRulesMean` |
| | `AgentsAreSeen` | `AgentsSeen` |
| `CodexProofs` | `TypeCorrect` `NoneIsUntouched` `ShowsCommitted` `OwnMessage` | `TypeOK`, `NoneMeansUntouched`, `ShownIsCommitted`, `MessageIsOwn` |
| `SessionProofs` | `TypeCorrect` `OwnAnswer` `AskedOnce` | `TypeOK`, `NoForeignAnswer`, `NoDoubleAsk` |
| `ServeProofs` | `TypeCorrect` `NoFreeRespawn` `HintSuffices` | `TypeOK`, `RespawnCounted`, `HintProgress` |
| `ClangdProofs` | `TypeCorrect` `NoFalseCharge` `MemoryBounded` `CleanReportIsQuiet` | `TypeOK`, `OnlyTheDeadAreCharged`, `DocumentsBounded`, `NoFileAdded` |

Each module has an inductive invariant, with a lemma per action or group of actions that
shows which conjuncts it keeps.

### Hypotheses

The named `ASSUME`s say of what kind a constant is: slots are numbers, bounds and budgets
are natural or positive numbers, the first backoff is not above the cap, `None` and
`Failure` are nobody's name and no value, pseudo-statuses differ from `None`. Of the texts:
`DocumentsAssumption` has documents as sequences of lines, guards as numbers of lines, and rows and comments
determined by their branch and text, because the code takes all of these from the line's
text. `FilesAssumption` has verdict files as sequences of lines; `RulesAssumption` has patterns and paths
as sequences of segments of characters, one of which is `*`, years as integers, and `NoTime` as neither a
timestamp nor a moment; `FileAssumption` has the requests to emit well typed, with `BadTimes` the timestamps
whose date or time of day does not exist; `ScanAssumption` has traces in sequences, written no later than
`Now`. TLC evaluates them in every run of the module. The hypotheses of theorems are about how the system is used:

* `DetachedAcquire = FALSE`: every acquire names a branch. Nothing is assumed about who
  releases, seriality, force, crashes or work during a release.
* `Serial`, `CarefulCallers`: one server at a time, and no caller asks while a slot lent without
  a branch is out. `HoldersRelease`: a caller releases the slot it holds.
  `WorkDuringRelease = FALSE`: nobody commits to or edits a slot that is being released.
  `SerialExclusive` and `SerialImplementsLease` need the first two only, `GrantIsClean` the first
  three, `NothingLost` and `FilesKept` all four. Section 3 tells what fails without them.
* `WhileMerging = FALSE`: nobody commits to or reviews a branch that is being merged
  (`MergeRace` shows why); servers may merge the same branch, fail to abort a
  rebase and be killed anywhere.

### The pool

`Exclusive` is not inductive: it says nothing of a process that holds a lock and is
about to check out. The invariant has two layers. `Typed` is `TypeOK` with
`AtSlot` (a process past the lock, or in a release, has a slot). `IInv` adds:

* `LockInv`: a process in the acquire window holds the flock of its slot, and
  nobody else does;
* `RequestInv`: what a request has asked for, by program counter, and that the slot it is
  about to check out is detached;
* `KnownInv`: a loan is to a worker that knows of it or is about to be told;
* `HeadsInv`: a branch is checked out in one slot at most and exists then, which
  `git checkout -b` and the refusal to delete a checked-out branch keep up;
* `OwnerInv`: a slot on loan is on the branch it was lent on, so that it cannot be
  classified as free; and `Exclusive` itself.

A grant needs a slot that is detached under the lock; a slot on loan is on a branch;
so a granted slot has no owner. A release, whoever asks for it, detaches a slot and
ends the loan in the same step, and its later commands cannot put a slot on a branch
or take it off one. The refinement follows with a lemma that says how each step changes the owner of
each slot.

For one server and callers that omit the branch the argument is another one, since no branch
marks a loan: `SerialInv` has one request at a time (`SoloInv`) and no loan that looks free while an
acquire is on its way (`UnseenInv`). When callers release only what they hold, `CleanInv` adds that a
worker has on loan what it believes it has and nobody has the slot that is being cleaned
(`HolderInv`), and that a slot stays as it was seen under the lock until the checkout (`GrantInv`).
For the losses `GateInv` carries what a release's gates
saw up to the command that relies on it: the slot is clean and main has the branch's
commits, unless the release is forced, and no slot is on the branch that is deleted. The two refinement theorems share their lemmas (`LeaseReady`: a granted slot
has no owner).

### The others

* Merge: `GatesInv` says that a gate, once passed, would still pass. What a server works on
  changes by its own rebase only, which drops what main has and adds nothing, and a verdict
  stays (`Lasting`); so what lands is what the gates saw, whether or not rebases are aborted.
* Server: a fact is current (`NowInv`), a read is no older than the computation it belongs to
  (`SeenInv`), an entry no older than its age and one computation (`CacheInv`). For leases,
  a release leaves, from its clean on, neither a lease nor a temporary file begun before it
  (`WipedInv`): a rename after the clean finds no file, or one that was begun later, since a file
  that does not exist is not old (`OldInv`).
* Codex: what the snapshot, the diff and the message are worth by program counter (`BeforeInv`,
  `ShownInv`, `MessageInv`), as long as no orphan has been at work (`OrphanInv`).
* Sessions: no id is under way twice (`Once` in `SharedLemmas`, which has how sending, answering,
  dying and reading change it), and every message with the awaited id is about what is asked
  (`MatchInv`). The type invariant has that an unused id exists, which needs the count of
  requests given up: it is cited for every request sent. The numbers that rust-analyzer gives its own
  requests are left out of `Once` (`Replies`): one of them may equal the awaited id, and the request
  then passes for an answer, which is about no question (`NoForeignAnswer`) and leaves one request
  more under way (`Few`).
* Serve: the history is in order of age (`PolicyInv`), a dispatch without a child has had its
  exit counted (`CountInv`), and a hint that was given covers, with a second more, what is left of
  the backoff, or of the oldest restart, in the state the policy is still in (`HintInv`).
* clangd: what is open is the batch and the headers, and a batch is at most `BatchSize`
  (`OpenInv`); the files left and those counted never pass `MaxTus` (`BuildInv`); the calm polls
  of the drain loop have seen no new shard unless one came since the last count (`DrainInv`).
* Calendar: days split into eras of 400 years, years that start in March and days of such
  a year; `EraYear` and `EraDay`, `FromYear` and `ToYear` are the two directions, each linear
  arithmetic with constant divisors over a bounded range. `DaysAdvance` has a case per
  month's length, and `LongYear` for the end of February and of an era.

### Texts and rules

What is claimed of a parser, a matcher or a merge of records holds for inputs of every
length. The functions are recursive LET definitions over the places of a sequence. That
such a function exists, and then what it computes, is shown for the places up to n:
`UpToAll` is induction as the absence of a least counterexample (`NatLess`, from the well-foundedness
of the numbers), so no theorem with an operator for a parameter is needed.

* Globs: a cut is a function from the items of the pattern to places of the path, one piece for each.
  That the items after the p-th cover the path from place a on (`Rest`) satisfies, from the last item back
  (`RestEnd`, `RestStep`), the equation of the backtracking matcher, which tries the pieces of a star one after the other.
* Leases: `emit` refuses exactly what is improper, because each of its checks has one
  of the named reasons; what it writes reads back by the calendar's theorems.
* Agents: after n files each group is what the first n make of it. Which is the newest does not
  depend on their order, nor does the worktree, unless two transcripts of one task name different ones.
* Verdicts (`ReadAsWritten`): before line n the parser knows the section line n is in, whether a
  fence is open, and the findings above it in order (`Tells`); `LineRead` is the step. A field's value is that
  of the last line that sets it (`ValueIsLast`).
* Documents (`BothSidesKept`): rows are distinct in branch or text, so places are (`PlaceOnce`), and as many
  places as rows leave none empty (`PlaceTaken`, a count): the union loses nothing. Blocks do not
  overlap (`Apart`), so each line of the output comes from one block or is a line outside (`PartIs`,
  `LinesKept`). The document of the other branch (`Swapped`) has the same blocks with exchanged sides
  (`SidesSwap`), and what a line becomes does not tell the sides apart. Lines
  before the first block and after the last go out one by one (`JoinsPlain`, `JoinsGrow`).

### Only model-checked

`LockFreed`, `NoLockout`, `ReturnsIfSpokenTo` (two runs), `ReturnsUnlessJammed` and
`ShutdownKillsTheTalking`: liveness under fairness, which the installed provers do not reach.

## 5. Plan

1. More abstract specifications to refine: a merge that is a single step, a server
   without a cache.
2. Possible extensions: the bytes of a frame, the text of a transcript.

## 6. Not modelled

* Configuration and CLI of every server, payload formatting, `pool_status`, `pending_review`, log and
  ahead counts, health checks: they keep no state between calls.
* The MCP server of codex-stdio, a serial loop that `CodexTask` takes as one call at a
  time, and its shell hooks, which share no state with it.
* clangd-launcher: scripts a developer starts by hand; no server calls them.
* The bytes of lsp-shim-core's frames. A frame is a message of the two sessions, and
  the end of the stream is `AtEof`.
* `last_spawn_ns` is refreshed by every success, so that the healthy-uptime rule measures
  the time since the last good answer: two comments of the code disagree on this and
  the model follows the code.
