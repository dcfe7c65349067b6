---------------------------- MODULE ClangdSession ----------------------------
(***************************************************************************)
(* The conversation of lsp-cpp with clangd (clangd.rs): spawn with its     *)
(* handshake, seeded headers and warm-up gate, one request at a time, the  *)
(* index build, which opens documents in batches and then watches the      *)
(* shards on disk, and shutdown.  LspServe takes the outcomes of all this  *)
(* as given; here is where they come from.                                 *)
(*                                                                         *)
(* A document is a model value; what clangd makes of it is whether it has  *)
(* symbols to answer the warm-up probe with, and the number of shards it   *)
(* has written.  Request ids are compared for equality only, so the model  *)
(* takes one that no message in transit carries.                           *)
(***************************************************************************)
EXTENDS Naturals, Sequences, FiniteSets

CONSTANTS
  None,
  Seeds,         \* effective_seed_headers
  Database,      \* the files compile_commands.json lists, in its order
  MaxTus,        \* max_tus of an index build
  BatchSize,     \* BUILD_FULL_INDEX_BATCH
  Quiescence,    \* BUILD_FULL_INDEX_QUIESCENCE_SECS, in polls of the shards
  DrainCap,      \* BUILD_FULL_INDEX_MAX_DRAIN_SECS, in polls of the shards
  MaxShards,     \* bounds the model: shards clangd writes
  MaxInbox,      \* bounds the model: messages in clangd's stdout
  MaxAbandoned   \* bounds the model: a call is made while at most so many
                 \* earlier requests are unanswered

Files == {Database[i] : i \in DOMAIN Database}

ASSUME ClangdAssumption ==
  /\ Database \in Seq(Files) /\ Seeds \cap Files = {}
  /\ {MaxTus, BatchSize, Quiescence, DrainCap} \subseteq Nat \ {0}
  /\ {MaxShards, MaxInbox, MaxAbandoned} \subseteq Nat
  /\ None \notin Nat

VARIABLES
  pc,         \* where the client is; "idle" between calls
  tool,       \* the kind of the call
  probing,    \* the request is the warm-up gate's
  waiting,    \* id the receive loop looks for
  late,       \* the deadline of that loop has passed
  gateOver,   \* the deadline of the warm-up gate has passed
  child,      \* self.child and the process behind it
  inbox,      \* clangd's stdout
  pending,    \* requests clangd has not answered
  open,       \* documents open in clangd
  warm,       \* clangd has symbols to find
  todo,       \* index build: entries of Database not looked at yet
  batch,      \* open_uris
  tally,      \* tus_opened and skipped_io_errors
  shards,     \* index shards on disk, from the start of the drain on
  lastCount,  \* last_count of the drain loop
  calm,       \* polls since last_change
  polls,      \* polls since drain_started
  quiet,      \* history: polls of the drain loop since a shard was last added
  answer      \* history: what the last call returned

request == <<probing, waiting, late, gateOver>>
clangd == <<child, inbox, pending, open, warm>>
feeding == <<todo, batch, tally>>
draining == <<shards, lastCount, calm, polls>>
vars == <<pc, tool, request, clangd, feeding, draining, quiet, answer>>

Ids == 1..MaxAbandoned + MaxInbox + 2
Topics == {"initialize", "probe", "query", "shutdown"}
Messages == [id : Ids \cup {None}, kind : {"result", "error", "note"}, found : BOOLEAN]
Outcomes == {"ok", "refused", "error", "lost", "busy", "exited", "initTimeout", "report"}

TypeOK ==
  /\ pc \in {"idle", "start", "init", "seed", "gate", "send", "recv",
             "plan", "close", "open", "settle"}
  /\ tool \in {"query", "build", "shutdown", None}
  /\ probing \in BOOLEAN /\ late \in BOOLEAN /\ gateOver \in BOOLEAN
  /\ waiting \in Ids \cup {None}
  /\ child \in {"none", "up", "dead"}
  /\ inbox \in Seq(Messages)
  /\ pending \subseteq [id : Ids, about : Topics]
  /\ open \subseteq Seeds \cup Files /\ warm \in BOOLEAN
  /\ todo \subseteq DOMAIN Database /\ batch \subseteq Files
  /\ tally \in [opened : 0..MaxTus, skipped : 0..MaxTus]
  /\ tally.opened + tally.skipped + Cardinality(todo) <= MaxTus
  /\ shards \in 0..MaxShards /\ lastCount \in 0..MaxShards
  /\ calm \in 0..Quiescence /\ polls \in 0..DrainCap /\ quiet \in 0..DrainCap + 1
  /\ answer \in [kind : Outcomes, capped : BOOLEAN] \cup {None}

Nothing == [opened |-> 0, skipped |-> 0]

Init ==
  /\ pc = "idle" /\ tool = None
  /\ probing = FALSE /\ waiting = None /\ late = FALSE /\ gateOver = FALSE
  /\ child = "none" /\ inbox = <<>> /\ pending = {} /\ open = {} /\ warm = FALSE
  /\ todo = {} /\ batch = {} /\ tally = Nothing
  /\ shards = 0 /\ lastCount = 0 /\ calm = 0 /\ polls = 0
  /\ quiet = 0
  /\ answer = None

-----------------------------------------------------------------------------
(* Frames and the ends of a call.                                          *)

\* next_request_id.
FreshId ==
  CHOOSE id \in Ids :
    /\ \A r \in pending : r.id # id
    /\ \A i \in DOMAIN inbox : inbox[i].id # id

Send(about) ==
  LET id == FreshId IN
  /\ pending' = pending \cup {[id |-> id, about |-> about]}
  /\ waiting' = id /\ late' = FALSE

\* The next frame is not the awaited answer: it is dropped, and the loops
\* look at their deadline.
Unrelated == inbox # <<>> /\ Head(inbox).id # waiting

Own == inbox # <<>> /\ Head(inbox).id = waiting

\* Fault: the end of the pipe is taken for silence.
EofIgnored == FALSE

AtEof == inbox = <<>> /\ child = "dead"

Take == inbox' = Tail(inbox) /\ UNCHANGED <<child, pending, open, warm>>

\* Dropping the handles of a child that is gone.
NoClangd ==
  /\ child' = "none" /\ inbox' = <<>> /\ pending' = {} /\ open' = {} /\ warm' = FALSE

Forget == probing' = FALSE /\ waiting' = None /\ late' = FALSE /\ gateOver' = FALSE

BuildOver ==
  /\ todo' = {} /\ batch' = {} /\ tally' = Nothing
  /\ shards' = 0 /\ lastCount' = 0 /\ calm' = 0 /\ polls' = 0

\* The child is kept whatever the outcome.
Return(kind, capped) ==
  /\ pc' = "idle" /\ tool' = None
  /\ Forget /\ BuildOver
  /\ answer' = [kind |-> kind, capped |-> capped]

Error(kind) == Return(kind, FALSE)

GoTo(label) == pc' = label /\ UNCHANGED <<tool, answer>>

-----------------------------------------------------------------------------
(* A call.  is_alive of the serve loop has reaped a child that died        *)
(* between two calls.                                                      *)

Call(t) ==
  /\ pc = "idle" /\ Cardinality(pending) <= MaxAbandoned
  /\ pc' = "start" /\ tool' = t /\ answer' = None /\ quiet' = 0
  /\ \/ child = "dead" /\ NoClangd
     \/ child # "dead" /\ UNCHANGED clangd
  /\ UNCHANGED <<request, feeding, draining>>

Query == Call("query")
Build == Call("build")

\* shutdown goes straight to the child.
Shutdown ==
  /\ pc = "idle" /\ child # "none" /\ Cardinality(pending) <= MaxAbandoned
  /\ pc' = "send" /\ tool' = "shutdown" /\ answer' = None /\ quiet' = 0
  /\ UNCHANGED <<request, clangd, feeding, draining>>

\* Arguments the tool does not accept.
Rejected ==
  /\ pc = "start"
  /\ Error("refused") /\ UNCHANGED <<clangd, quiet>>

\* IndexMode::Full: a prebuilt index is not built upon.
ReadOnly ==
  /\ pc = "start" /\ tool = "build"
  /\ Error("refused") /\ UNCHANGED <<clangd, quiet>>

-----------------------------------------------------------------------------
(* spawn.                                                                  *)

\* What the call does with a clangd that has been spawned.
Ready == IF tool = "build" THEN "plan" ELSE "send"

\* child.is_some(), though it may have died or never been initialized.
AlreadySpawned ==
  /\ pc = "start" /\ child # "none"
  /\ GoTo(Ready)
  /\ UNCHANGED <<request, clangd, feeding, draining, quiet>>

\* No compile commands, no log file, no index file, no binary.
SpawnRefused ==
  /\ pc = "start" /\ child = "none"
  /\ Error("refused") /\ UNCHANGED <<clangd, quiet>>

Spawn ==
  /\ pc = "start" /\ child = "none"
  /\ child' = "up"
  /\ Send("initialize") /\ GoTo("init")
  /\ UNCHANGED <<probing, gateOver, inbox, open, warm, feeding, draining, quiet>>

InitSkip ==
  /\ pc = "init" /\ Unrelated /\ ~late
  /\ Take
  /\ UNCHANGED <<pc, tool, request, feeding, draining, quiet, answer>>

InitTimeout ==
  /\ pc = "init" /\ Unrelated /\ late
  /\ Take /\ Error("initTimeout")
  /\ UNCHANGED quiet

InitBroken ==
  /\ pc = "init" /\ AtEof
  /\ Error("lost") /\ UNCHANGED <<clangd, quiet>>

InitError ==
  /\ pc = "init" /\ Own /\ Head(inbox).kind = "error"
  /\ Take /\ Error("error")
  /\ UNCHANGED quiet

\* The answer and the initialized notification, which a dead child refuses.
InitDone ==
  /\ pc = "init" /\ Own /\ Head(inbox).kind = "result"
  /\ Take
  /\ \/ /\ child = "up"
        /\ GoTo("seed") /\ Forget /\ UNCHANGED <<feeding, draining>>
     \/ child = "dead" /\ Error("lost")
  /\ UNCHANGED quiet

\* seed_didopen: unreadable headers and broken pipes are logged.
Seed ==
  /\ pc = "seed"
  /\ \E readable \in SUBSET Seeds : open' = IF child = "up" THEN readable ELSE {}
  /\ GoTo("gate")
  /\ UNCHANGED <<request, child, inbox, pending, warm, feeding, draining, quiet>>

\* wait_for_warm is switched off, or there is nothing to wait for.
GateSkipped ==
  /\ pc = "gate"
  /\ GoTo(Ready)
  /\ UNCHANGED <<request, clangd, feeding, draining, quiet>>

GateProbe ==
  /\ pc = "gate" /\ Seeds # {}
  /\ probing' = TRUE /\ GoTo("send")
  /\ UNCHANGED <<waiting, late, gateOver, clangd, feeding, draining, quiet>>

\* The probe failed or found nothing: the gate looks at its own deadline,
\* which lets the call go on with a clangd that is not warm.
ProbeAgain ==
  /\ \/ gateOver /\ GoTo(Ready) /\ Forget
     \/ ~gateOver /\ GoTo("send") /\ UNCHANGED request
  /\ UNCHANGED <<feeding, draining>>

-----------------------------------------------------------------------------
(* request.                                                                *)

About == IF probing THEN "probe" ELSE tool

SendRequest ==
  /\ pc = "send" /\ child = "up"
  /\ Send(About) /\ GoTo("recv")
  /\ UNCHANGED <<probing, gateOver, child, inbox, open, warm, feeding, draining, quiet>>

\* Fault: the error of the request is returned before the child is closed.
RequestFirst ==
  \/ Own /\ NoClangd /\ Error("ok")
  \/ ~Own /\ UNCHANGED clangd /\ Error("lost")

\* shutdown: the outcome is ignored, stdin is closed and the child is
\* reaped, after two seconds killed.
Close == NoClangd /\ Error("ok")

\* The request ends without an answer.
GiveUp(kind) ==
  \/ probing /\ ProbeAgain
  \/ ~probing /\ tool = "query" /\ Error(kind)

SendBroken ==
  /\ pc = "send" /\ child = "dead"
  /\ \/ ~probing /\ tool = "shutdown" /\ Close
     \/ UNCHANGED clangd /\ GiveUp("lost")
  /\ UNCHANGED quiet

Skip ==
  /\ pc = "recv" /\ Unrelated /\ ~late
  /\ Take
  /\ UNCHANGED <<pc, tool, request, feeding, draining, quiet, answer>>

\* Fault: a child that does not answer is taken for dead.
SilentMeansExited == "exited"

\* classify_timeout.
TimeoutKind == IF child = "up" THEN "busy" ELSE "exited"

Timeout ==
  /\ pc = "recv" /\ Unrelated /\ late
  /\ Take /\ GiveUp(TimeoutKind)
  /\ UNCHANGED quiet

Broken ==
  /\ pc = "recv" /\ AtEof
  /\ UNCHANGED clangd /\ GiveUp("lost")
  /\ UNCHANGED quiet

ProbeAnswered ==
  /\ pc = "recv" /\ Own /\ probing
  /\ Take
  /\ \/ Head(inbox).found /\ GoTo(Ready) /\ Forget /\ UNCHANGED <<feeding, draining>>
     \/ ~Head(inbox).found /\ ProbeAgain
  /\ UNCHANGED quiet

QueryAnswered ==
  /\ pc = "recv" /\ Own /\ ~probing /\ tool = "query"
  /\ Take /\ Error(IF Head(inbox).kind = "result" THEN "ok" ELSE "error")
  /\ UNCHANGED quiet

ShutdownEnds ==
  /\ pc = "recv" /\ ~probing /\ tool = "shutdown"
  /\ AtEof \/ (Unrelated /\ late) \/ Own
  /\ Close /\ UNCHANGED quiet

-----------------------------------------------------------------------------
(* build_full_index.                                                       *)

\* read_compile_commands: every file once, in the order of its first entry.
Unique ==
  {i \in DOMAIN Database :
     \A j \in DOMAIN Database : j < i => Database[j] # Database[i]}

Before(i, entries) == Cardinality({j \in entries : j < i})

\* Fault: one file too many.
OneMore(n, entries) == {i \in entries : Before(i, entries) <= n}

AtMost(n, entries) == {i \in entries : Before(i, entries) < n}

Plan ==
  /\ pc = "plan"
  /\ todo' = AtMost(MaxTus, Unique)
  /\ GoTo("close")
  /\ UNCHANGED <<request, clangd, batch, tally, draining, quiet>>

\* The compile database cannot be read.
PlanFails ==
  /\ pc = "plan"
  /\ Error("refused") /\ UNCHANGED <<clangd, quiet>>

\* Fault: the documents of a batch stay open.
LeftOpen == open

Closed == open \ batch

\* didClose for the last batch, whose errors are ignored.  With no file left
\* the shards are counted and the drain begins.
CloseBatch ==
  /\ pc = "close"
  /\ open' = Closed /\ batch' = {}
  /\ \/ todo # {} /\ GoTo("open") /\ UNCHANGED <<draining, quiet>>
     \/ /\ todo = {} /\ GoTo("settle")
        /\ shards' = 0 /\ lastCount' = 0 /\ calm' = 0 /\ polls' = 0
        /\ quiet' = 0
  /\ UNCHANGED <<request, child, inbox, pending, warm, todo, tally>>

Chunk == AtMost(BatchSize, todo)

Names(entries) == {Database[i] : i \in entries}

\* drain_pending_stdout: what is in the pipe is thrown away, answers
\* included, and so is the end of the pipe.
DrainStdout == inbox' = <<>>

\* didOpen for the files of the chunk that can be read, then a drain of
\* clangd's stdout.
OpenBatch ==
  /\ pc = "open" /\ child = "up"
  /\ \E readable \in SUBSET Names(Chunk) :
       /\ open' = open \cup readable /\ batch' = readable
       /\ tally' = [opened |-> tally.opened + Cardinality(readable),
                    skipped |-> tally.skipped + Cardinality(Chunk) - Cardinality(readable)]
  /\ todo' = todo \ Chunk
  /\ DrainStdout /\ GoTo("close")
  /\ UNCHANGED <<request, child, pending, warm, draining, quiet>>

\* Nothing of the chunk can be read, so nothing is written to the dead child.
OpenNothing ==
  /\ pc = "open" /\ child = "dead"
  /\ todo' = todo \ Chunk
  /\ tally' = [tally EXCEPT !.skipped = @ + Cardinality(Chunk)]
  /\ DrainStdout /\ GoTo("close")
  /\ UNCHANGED <<request, child, pending, open, warm, batch, draining, quiet>>

OpenBroken ==
  /\ pc = "open" /\ child = "dead"
  /\ Error("lost") /\ UNCHANGED <<clangd, quiet>>

\* Fault: the time of the last change is set once, before the loop.
CalmKept == calm + 1

\* last_change = now when the count differs.
CalmNow == IF shards = lastCount THEN calm + 1 ELSE 0

Older(n) == IF n <= DrainCap THEN n + 1 ELSE n

\* BuildFullIndexReport, of which the callers here look at cap_fired.
Report(capped) == Return("report", capped)

\* One round of the drain loop: sleep, drain stdout, count the shards.
SettlePoll ==
  /\ pc = "settle"
  /\ DrainStdout /\ quiet' = Older(quiet)
  /\ \/ CalmNow >= Quiescence /\ Report(FALSE)
     \/ CalmNow < Quiescence /\ polls + 1 >= DrainCap /\ Report(TRUE)
     \/ /\ CalmNow < Quiescence /\ polls + 1 < DrainCap
        /\ calm' = CalmNow /\ lastCount' = shards /\ polls' = polls + 1
        /\ UNCHANGED <<pc, tool, request, feeding, shards, answer>>
  /\ UNCHANGED <<child, pending, open, warm>>

Client ==
  \/ Rejected \/ ReadOnly \/ AlreadySpawned \/ SpawnRefused \/ Spawn
  \/ InitSkip \/ InitTimeout \/ InitBroken \/ InitError \/ InitDone
  \/ Seed \/ GateSkipped \/ GateProbe
  \/ SendRequest \/ SendBroken \/ Skip \/ Timeout \/ Broken
  \/ ProbeAnswered \/ QueryAnswered \/ ShutdownEnds
  \/ Plan \/ PlanFails \/ CloseBatch \/ OpenBatch \/ OpenNothing \/ OpenBroken
  \/ SettlePoll

-----------------------------------------------------------------------------
(* Clocks.  A probe may take 90 s and the gate, by default, 60 s.            *)

Deadline ==
  /\ pc \in {"init", "recv"} /\ ~late
  /\ late' = TRUE /\ gateOver' = (gateOver \/ probing)
  /\ UNCHANGED <<pc, tool, probing, waiting, clangd, feeding, draining,
                 quiet, answer>>

GateDeadline ==
  /\ probing /\ ~gateOver
  /\ gateOver' = TRUE
  /\ UNCHANGED <<pc, tool, probing, waiting, late, clangd, feeding, draining, quiet, answer>>

-----------------------------------------------------------------------------
(* clangd.                                                                 *)

Says(m) == child = "up" /\ Len(inbox) < MaxInbox /\ inbox' = Append(inbox, m)

Answer(r, kind) ==
  /\ Says([id |-> r.id, kind |-> kind,
            found |-> kind = "result" /\ r.about = "probe" /\ warm])
  /\ pending' = pending \ {r}
  /\ UNCHANGED <<pc, tool, request, child, open, warm, feeding, draining,
                 quiet, answer>>

Answers == \E r \in pending : \E kind \in {"result", "error"} : Answer(r, kind)

Notify ==
  /\ Says([id |-> None, kind |-> "note", found |-> FALSE])
  /\ UNCHANGED <<pc, tool, request, child, pending, open, warm, feeding, draining, quiet, answer>>

\* An open document has been parsed.
Parse ==
  /\ child = "up" /\ open # {} /\ ~warm
  /\ warm' = TRUE
  /\ UNCHANGED <<pc, tool, request, child, inbox, pending, open, feeding, draining, quiet, answer>>

\* The background index writes the first shard of a file.  Files written before
\* the drain are in its first count; a shard written in the place of an older
\* one changes no count, so the client cannot tell it from none.
WriteShard ==
  /\ pc = "settle" /\ child = "up" /\ shards < MaxShards
  /\ shards' = shards + 1 /\ quiet' = 0
  /\ UNCHANGED <<pc, tool, request, clangd, feeding, lastCount, calm, polls, answer>>

Die ==
  /\ child = "up"
  /\ child' = "dead" /\ pending' = {} /\ open' = {} /\ warm' = FALSE
  /\ UNCHANGED <<pc, tool, request, inbox, feeding, draining, quiet, answer>>

Next ==
  \/ Query \/ Build \/ Shutdown
  \/ Client \/ Deadline \/ GateDeadline
  \/ Answers \/ Notify \/ Parse \/ WriteShard \/ Die

Spec == Init /\ [][Next]_vars

\* The client runs and time passes.  Nothing is asked of clangd.
FairSpec ==
  Spec /\ WF_vars(Client) /\ WF_vars(Deadline) /\ WF_vars(GateDeadline)

\* A clangd that is alive says something now and then, or dies.
Talks == WF_vars(Answers \/ Notify \/ Die)

-----------------------------------------------------------------------------
(* Properties.                                                             *)

(* A call is charged to the restart budget, as broken pipe or as exited,   *)
(* only when clangd has ended: a clangd that is slow, or wedged, is        *)
(* reported as busy and left alone (classify_timeout 560-605; mcp.rs       *)
(* 578-604).                                                               *)
OnlyTheDeadAreCharged ==
  answer # None => (answer.kind \in {"lost", "exited"} => child # "up")

(* An index build never has more than a batch of documents open in clangd, *)
(* and none when it is over, however it ends and however many builds came  *)
(* before: "same memory-bounded pattern the Python driver uses" (816-819). *)
DocumentsBounded ==
  /\ Cardinality(open \ Seeds) <= BatchSize
  /\ pc = "idle" => open \subseteq Seeds

(* A report without cap_fired says that no file was added to the index for *)
(* the whole quiescence time before it (968-994).  Files are counted, so   *)
(* it says nothing of shards that are rewritten in place.                  *)
NoFileAdded ==
  answer # None => (answer.kind = "report" /\ ~answer.capped => quiet >= Quiescence)

Returns == (pc # "idle") ~> (pc = "idle")

(* Every call to a clangd that goes on talking returns, whatever it says,  *)
(* and whenever it dies.                                                   *)
ReturnsIfSpokenTo == Talks => Returns

ShutdownKills == (tool = "shutdown") ~> (child = "none")

(* A shutdown of a clangd that goes on talking ends with clangd gone,      *)
(* whether the request is answered, runs into its deadline, or breaks      *)
(* because clangd died (1454-1480).                                        *)
ShutdownKillsTheTalking == Talks => ShutdownKills
==============================================================================
