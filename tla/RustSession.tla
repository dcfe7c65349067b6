----------------------------- MODULE RustSession -----------------------------
(***************************************************************************)
(* The session of lsp-rust with rust-analyzer: the client of lsp.rs, which *)
(* serves one call at a time, and the two pipes between it and the child   *)
(* process.  The server answers in any order, late, with an error or not   *)
(* at all, sends notifications and requests of its own, falls silent, and  *)
(* may die at any moment.                                                  *)
(*                                                                         *)
(* The code draws request ids from a counter and compares them for         *)
(* equality only; the model takes one that no other request of the client  *)
(* in transit and no answer to one carries.                                *)
(***************************************************************************)
EXTENDS Naturals, Sequences, FiniteSets

CONSTANTS
  None,         \* no id, no digest, no answer
  Null,         \* the sample taken from an error answer
  Questions,    \* what callers ask for
  RetryBudget,  \* RETRY_BUDGET
  ServerAsks,   \* the server sends requests too, which carry ids of its own
  MaxIndex,     \* bounds the model: how often the symbol index grows
  MaxInbox,     \* bounds the model: messages in the child's stdout
  MaxAbandoned  \* bounds the model: a call is made while at most so many
                \* earlier requests are unanswered

ASSUME SessionAssumption ==
  /\ None # Null /\ {None, Null} \cap (Nat \cup Questions) = {}
  /\ None \notin {"query", "wait", "shutdown"}
  /\ RetryBudget \in Nat \ {0} /\ ServerAsks \in BOOLEAN
  /\ {MaxIndex, MaxInbox, MaxAbandoned} \subseteq Nat

VARIABLES
  pc,           \* where the client is; "idle" between calls
  tool,         \* the kind of the call
  asked,        \* its question
  attempt,      \* requests sent by request_with_retry
  waiting,      \* id the receive loop looks for
  late,         \* the deadline of that loop has passed
  over,         \* the deadline of wait_for_indexing has passed
  digest,       \* last_digest
  stable,       \* stable_samples
  child,        \* self.child and the process behind it
  inbox,        \* the child's stdout
  pending,      \* requests the child has not answered
  index,        \* what its symbol index holds
  answer,       \* history: what the last call returned
  ours          \* history: ids of the requests of the current call

call == <<tool, asked, attempt, waiting, late, over, digest, stable>>
server == <<child, inbox, pending, index>>
history == <<answer, ours>>
vars == <<pc, call, server, history>>

Ids == 1..MaxAbandoned + MaxInbox + 2
Samples == 0..MaxIndex \cup {Null}
Messages ==
  [id : Ids \cup {None}, kind : {"result", "transient", "error", "note", "request"},
   about : Questions \cup {"initialize", "shutdown", "symbols", None}, seen : 0..MaxIndex]

\* What a caller can be told: RustError and the two kinds of success.
Outcomes == {"ok", "settled", "transient", "error", "timeout", "lost"}

TypeOK ==
  /\ pc \in {"idle", "start", "handshake", "send", "recv"}
  /\ tool \in {"query", "wait", "shutdown", None}
  /\ asked \in Questions \cup {"symbols", "shutdown", None}
  /\ attempt \in 0..RetryBudget
  /\ waiting \in Ids \cup {None}
  /\ late \in BOOLEAN /\ over \in BOOLEAN
  /\ digest \in Samples \cup {None} /\ stable \in 0..1
  /\ child \in {"none", "up", "dead"}
  /\ inbox \in Seq(Messages)
  /\ \A r \in pending : r.id \in Ids
  /\ index \in 0..MaxIndex
  /\ ours \subseteq Ids
  /\ answer # None => answer.kind \in Outcomes

Init ==
  /\ pc = "idle" /\ tool = None /\ asked = None /\ attempt = 0
  /\ waiting = None /\ late = FALSE /\ over = FALSE
  /\ digest = None /\ stable = 0
  /\ child = "none" /\ inbox = <<>> /\ pending = {} /\ index = 0
  /\ answer = None /\ ours = {}

-----------------------------------------------------------------------------
(* Frames.                                                                 *)

\* next_request_id.
FreshId ==
  CHOOSE id \in Ids :
    /\ \A r \in pending : r.id # id
    /\ \A i \in DOMAIN inbox : inbox[i].kind # "request" => inbox[i].id # id

Request(id, about) == [id |-> id, about |-> about]

\* Fault: the first answer in the pipe is taken for the awaited one.
AnyAnswer(m) == m.id # None

\* value.get("id") == Some(id).
IsOwn(m) == m.id = waiting

\* A notification, the answer to a request that was given up, or a request
\* of the server with another id.  Both receive loops look at their deadline
\* after such a message, never while the read of the next one blocks.
Unrelated == inbox # <<>> /\ ~IsOwn(Head(inbox))

\* A frame without an error object is a success, and its result is null when
\* it has none: the server's own request with the awaited id is one.
Succeeds(m) == m.kind \in {"result", "request"}

\* Fault: the end of the pipe is taken for silence.
EofIgnored == FALSE

AtEof == inbox = <<>> /\ child = "dead"

\* A request of the current call goes out and the receive loop starts.
Send(about) ==
  LET id == FreshId IN
  /\ pending' = pending \cup {Request(id, about)}
  /\ waiting' = id /\ late' = FALSE

-----------------------------------------------------------------------------
(* The call returns: ok, settled, transient, error, timeout, or lost when  *)
(* the pipe is broken.  The child is kept whatever the outcome.            *)

Return(kind, about) ==
  /\ pc' = "idle" /\ tool' = None /\ asked' = None /\ attempt' = 0
  /\ waiting' = None /\ late' = FALSE /\ over' = FALSE
  /\ digest' = None /\ stable' = 0
  /\ answer' = [kind |-> kind, about |-> about,
                 to |-> IF kind = "ok" THEN asked ELSE None]
  /\ ours' = {}

\* shutdown: whatever became of the request, stdin is closed and the child
\* is reaped or killed.
Close ==
  /\ Return("ok", "shutdown")
  /\ child' = "none" /\ inbox' = <<>> /\ pending' = {} /\ index' = 0

\* A frame of the pipe has been read.
Take == inbox' = Tail(inbox) /\ UNCHANGED <<child, pending, index>>

Call(t, q) ==
  /\ pc = "idle" /\ Cardinality(pending) <= MaxAbandoned
  /\ pc' = "start" /\ tool' = t /\ asked' = q
  /\ ours' = {} /\ answer' = None
  /\ UNCHANGED <<attempt, waiting, late, over, digest, stable, server>>

Query == \E q \in Questions : Call("query", q)
WaitForIndexing == Call("wait", "symbols")

Shutdown ==
  /\ pc = "idle" /\ child # "none" /\ Cardinality(pending) <= MaxAbandoned
  /\ pc' = "send" /\ tool' = "shutdown" /\ asked' = "shutdown"
  /\ ours' = {} /\ answer' = None
  /\ UNCHANGED <<attempt, waiting, late, over, digest, stable, server>>

-----------------------------------------------------------------------------
(* spawn and its handshake.                                                *)

\* child.is_some(), though the process may be dead or was never initialized.
AlreadySpawned ==
  /\ pc = "start" /\ child # "none"
  /\ pc' = "send"
  /\ UNCHANGED <<call, server, history>>

SpawnRefused ==
  /\ pc = "start" /\ child = "none"
  /\ Return("error", None)
  /\ UNCHANGED server

Spawn ==
  /\ pc = "start" /\ child = "none"
  /\ child' = "up" /\ index' = 0
  /\ Send("initialize")
  /\ pc' = "handshake"
  /\ UNCHANGED <<tool, asked, attempt, over, digest, stable, inbox, history>>

HandshakeSkip ==
  /\ pc = "handshake" /\ Unrelated /\ ~late
  /\ Take
  /\ UNCHANGED <<pc, call, history>>

HandshakeTimeout ==
  /\ pc = "handshake" /\ Unrelated /\ late
  /\ Take /\ Return("timeout", None)

HandshakeBroken ==
  /\ pc = "handshake" /\ AtEof
  /\ Return("lost", None)
  /\ UNCHANGED server

HandshakeDone ==
  /\ pc = "handshake" /\ inbox # <<>> /\ IsOwn(Head(inbox))
  /\ Take
  /\ IF Succeeds(Head(inbox)) /\ child = "up"
     THEN /\ pc' = "send"
          /\ waiting' = None /\ late' = FALSE
          /\ UNCHANGED <<tool, asked, attempt, over, digest, stable, answer, ours>>
     ELSE Return(IF Succeeds(Head(inbox)) THEN "lost" ELSE "error", None)

-----------------------------------------------------------------------------
(* request_once.                                                           *)

\* while Instant::now() < deadline.
PollOver ==
  /\ pc = "send" /\ tool = "wait" /\ over
  /\ Return("timeout", None)
  /\ UNCHANGED server

SendRequest ==
  /\ pc = "send" /\ child = "up" /\ (tool = "wait" => ~over)
  /\ Send(asked)
  /\ ours' = {r.id : r \in {p \in pending : p.id \in ours}} \cup {FreshId}
  /\ attempt' = IF tool = "query" THEN attempt + 1 ELSE attempt
  /\ pc' = "recv"
  /\ UNCHANGED <<tool, asked, over, digest, stable, child, inbox, index,
                 answer>>

\* Broken pipe: nobody reads the child's stdin.
SendBroken ==
  /\ pc = "send" /\ child = "dead" /\ (tool = "wait" => ~over)
  /\ IF tool = "shutdown" THEN Close
     ELSE Return("lost", None) /\ UNCHANGED server

\* Fault: a timed-out request is tried again like a transient one.
RetryLate(kind) == kind \in {"transient", "timeout"}

\* The outcomes request_with_retry tries again.
Retryable(kind) == kind = "transient"

\* Fault: one attempt too many.
OneMore == attempt <= RetryBudget

AttemptsLeft == attempt < RetryBudget

CanRetry(kind) == tool = "query" /\ Retryable(kind) /\ AttemptsLeft

\* The receive loop ends without an answer to the awaited id.
GiveUp(kind) ==
  /\ tool # "shutdown"
  /\ \/ CanRetry(kind) /\ pc' = "send" /\ UNCHANGED <<call, answer, ours>>
     \/ ~CanRetry(kind) /\ Return(kind, None)

Skip ==
  /\ pc = "recv" /\ Unrelated /\ ~late
  /\ Take
  /\ UNCHANGED <<pc, call, history>>

Timeout == pc = "recv" /\ Unrelated /\ late /\ Take /\ GiveUp("timeout")

Broken == pc = "recv" /\ AtEof /\ UNCHANGED server /\ GiveUp("lost")

-----------------------------------------------------------------------------
(* The answer of the awaited request, by the kind of the call.             *)

Own(t) == pc = "recv" /\ inbox # <<>> /\ IsOwn(Head(inbox)) /\ tool = t

QueryAnswered ==
  /\ Own("query") /\ ~Retryable(Head(inbox).kind)
  /\ Take
  /\ IF Succeeds(Head(inbox)) THEN Return("ok", Head(inbox).about)
     ELSE Return("error", None)

\* ContentModified or ServerCancelled: again after RETRY_BACKOFF_MS.
QueryTransient ==
  /\ Own("query") /\ Retryable(Head(inbox).kind)
  /\ Take
  /\ IF AttemptsLeft
     THEN pc' = "send" /\ UNCHANGED <<call, answer, ours>>
     ELSE Return("transient", None)

\* The sample of wait_for_indexing: an error answer counts as Null, like a
\* result that is null.
Sample(m) == IF m.kind = "result" THEN m.seen ELSE Null

Sampled ==
  /\ Own("wait")
  /\ Take
  /\ LET sample == Sample(Head(inbox)) IN
     \/ /\ sample = digest /\ stable + 1 >= 2
        /\ Return("settled", None)
     \/ /\ sample = digest /\ stable + 1 < 2
        /\ stable' = stable + 1 /\ pc' = "send"
        /\ UNCHANGED <<tool, asked, attempt, waiting, late, over, digest, history>>
     \/ /\ sample # digest
        /\ stable' = 0 /\ digest' = sample /\ pc' = "send"
        /\ UNCHANGED <<tool, asked, attempt, waiting, late, over, history>>

ShutdownEnds ==
  /\ pc = "recv" /\ tool = "shutdown"
  /\ AtEof \/ (Unrelated /\ late) \/ Own("shutdown")
  /\ Close

Client ==
  \/ AlreadySpawned \/ SpawnRefused \/ Spawn
  \/ HandshakeSkip \/ HandshakeTimeout \/ HandshakeBroken \/ HandshakeDone
  \/ PollOver \/ SendRequest \/ SendBroken
  \/ Skip \/ Timeout \/ Broken
  \/ QueryAnswered \/ QueryTransient \/ Sampled
  \/ ShutdownEnds

-----------------------------------------------------------------------------
(* The clock.  wait_for_indexing sets its deadline before those of its     *)
(* requests, which last as long.                                           *)

Deadline ==
  /\ pc \in {"handshake", "recv"} /\ ~late
  /\ pc = "recv" /\ tool = "wait" => over
  /\ late' = TRUE
  /\ UNCHANGED <<pc, tool, asked, attempt, waiting, over, digest, stable, server, history>>

PollDeadline ==
  /\ tool = "wait" /\ pc \in {"send", "recv"} /\ ~over
  /\ over' = TRUE
  /\ UNCHANGED <<pc, tool, asked, attempt, waiting, late, digest, stable, server, history>>

-----------------------------------------------------------------------------
(* rust-analyzer.                                                          *)

Says(m) ==
  /\ child = "up" /\ Len(inbox) < MaxInbox
  /\ inbox' = Append(inbox, m)

Answer(r, kind) ==
  /\ Says([id |-> r.id, kind |-> kind, about |-> r.about,
            seen |-> IF r.about = "symbols" /\ kind = "result" THEN index ELSE 0])
  /\ pending' = pending \ {r}
  /\ UNCHANGED <<pc, call, child, index, history>>

Notify ==
  /\ Says([id |-> None, kind |-> "note", about |-> None, seen |-> 0])
  /\ UNCHANGED <<pc, call, child, pending, index, history>>

\* Bounds the model: one such request in the pipe, and none while the
\* client has left many of its own unanswered.
ServerRequest ==
  /\ ServerAsks /\ Cardinality(pending) <= MaxAbandoned
  /\ \A i \in DOMAIN inbox : inbox[i].kind # "request"
  /\ \E id \in Ids : Says([id |-> id, kind |-> "request", about |-> None, seen |-> 0])
  /\ UNCHANGED <<pc, call, child, pending, index, history>>

Grow ==
  /\ child = "up" /\ index < MaxIndex
  /\ index' = index + 1
  /\ UNCHANGED <<pc, call, child, inbox, pending, history>>

Die ==
  /\ child = "up"
  /\ child' = "dead" /\ pending' = {} /\ index' = 0
  /\ UNCHANGED <<pc, call, inbox, history>>

\* The answers the client tells apart: only a query looks at the error code,
\* and shutdown ignores what it is told.
Kinds(about) ==
  CASE about \in Questions -> {"result", "transient", "error"}
    [] about = "shutdown" -> {"result"}
    [] OTHER -> {"result", "error"}

Answers == \E r \in pending : \E kind \in Kinds(r.about) : Answer(r, kind)

\* The tools of the MCP server.
Requests == Query \/ WaitForIndexing \/ Shutdown

Next ==
  \/ Requests
  \/ Client \/ Deadline \/ PollDeadline
  \/ Answers \/ Notify \/ ServerRequest \/ Grow \/ Die

Spec == Init /\ [][Next]_vars

\* The client runs, time passes and callers keep calling.  Nothing is asked
\* of the server.
FairSpec ==
  /\ Spec
  /\ WF_vars(Client) /\ WF_vars(Deadline) /\ WF_vars(PollDeadline)
  /\ WF_vars(Query \/ WaitForIndexing)

\* A server that is alive says something now and then, which need not be the
\* answer, or dies.
Talks == WF_vars(Answers \/ Notify \/ Die)

-----------------------------------------------------------------------------
(* Properties.                                                             *)

(* What a caller gets is never the answer to another question than its     *)
(* own, though the answer to a request that was given up may still be in   *)
(* the pipe ("route by `id`.  Drops notifications and unrelated            *)
(* responses", lsp.rs 302-304).  A request of the server that happens to   *)
(* have the awaited number answers no question; it passes for null.        *)
NoForeignAnswer ==
  answer # None => (answer.kind = "ok" => answer.about \in {answer.to, None})

(* A request is repeated only after its attempt has been answered: no call *)
(* of request_with_retry has two attempts under way (lsp.rs 355-389).      *)
NoDoubleAsk == tool = "query" => Cardinality({r \in pending : r.id \in ours}) <= 1

(* Every request has its deadline ("every request uses the per-instance    *)
(* timeout", lsp.rs 15-17 and 93-95).                                      *)
Returns == (pc # "idle") ~> (pc = "idle")

(* Every call to a server that goes on talking returns: one that talks and *)
(* never answers runs into the deadline, one that dies closes the pipe.    *)
ReturnsIfSpokenTo == Talks => Returns

(* "The shim should treat the subprocess as dead and respawn" (lsp.rs      *)
(* 106-108): callers that go on calling get rid of a dead child.           *)
DeadIsReplaced == (child = "dead") ~> (child # "dead")
==============================================================================
