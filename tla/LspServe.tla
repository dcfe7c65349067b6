------------------------------ MODULE LspServe -------------------------------
(***************************************************************************)
(* The MCP session of lsp-cpp: the single-threaded serve loop and its      *)
(* tools/call handler (src/lsp-cpp/src/mcp.rs), the admission queue        *)
(* (queue.rs), the restart policy (Supervisor) and the life of the clangd  *)
(* child (clangd.rs).  clangd may die between any two steps of the handler.*)
(***************************************************************************)
EXTENDS Supervisor, Integers

CONSTANTS
  Second,       \* units of time to a second: replies tell whole seconds
  Capacity,     \* slots of the BoundedQueue
  MaxRecent     \* bounds the model: calls are made while the window holds
                \* fewer recorded restarts than this

ASSUME ServeAssumption ==
  /\ Second \in Nat \ {0} /\ Capacity \in Nat \ {0} /\ MaxRecent \in Nat
  /\ None \notin Int

VARIABLES
  pc,           \* where the handler is; "idle" between requests
  tool,         \* kind of the tools/call being served
  inFlight,     \* slots taken in the queue
  child,        \* self.child and the process behind it
  hint,         \* history: time left of the last retry hint, down to a
                \* second less than nothing; None if void
  standing,     \* history: restarts in the window when that hint was given
                \* by Failed, 0 if it was given by Backoff
  spawned,      \* history: a clangd was started in this session
  counted       \* history: an exit was recorded since the last spawn

session == <<pc, tool, inFlight>>
told == <<hint, standing>>
counts == <<spawned, counted>>
vars == <<policy, session, child, told, counts>>

\* "rejected": an unknown tool, bad arguments, or an index build in
\* read-only mode; all are found after the liveness probe.
Tools == {"query", "index", "rejected"}

TypeOK ==
  /\ PolicyTypeOK
  /\ pc \in {"idle", "gate", "probe", "dispatch", "handshake", "request", "record"}
  /\ tool \in Tools \cup {None}
  /\ inFlight \in 0..Capacity
  /\ child \in {"none", "up", "dead"}
  /\ hint \in (0 - Second)..(Window + MaxBackoff) \cup {None}
  /\ standing \in Nat
  /\ spawned \in BOOLEAN /\ counted \in BOOLEAN

Init ==
  /\ PolicyInit
  /\ pc = "idle" /\ tool = None /\ inFlight = 0
  /\ child = "none"
  /\ hint = None /\ standing = 0 /\ spawned = FALSE /\ counted = FALSE

-----------------------------------------------------------------------------
\* Fault: the slot is returned on success only.
SlotsAfterError == inFlight

\* Drop of the queue slot when the handler returns.
SlotsAfterReply == inFlight - 1

\* The handler returns with an answer or an error.
Reply ==
  /\ pc' = "idle" /\ tool' = None
  /\ inFlight' = SlotsAfterReply

GoTo(label) == pc' = label /\ UNCHANGED <<tool, inFlight>>

\* record_exit, and what it means to the history variables.
CountExit ==
  /\ RecordExit
  /\ hint' = None /\ counted' = TRUE
  /\ UNCHANGED <<standing, spawned>>

PolicyKept == UNCHANGED <<policy, told, counts>>

\* Duration::as_secs, of what retry_after_s tells.
WholeSeconds(time) == Second * (time \div Second)

\* is_alive reaps a child that has exited.
Reaped == IF child = "dead" THEN "none" ELSE child

\* Fault: only a child reaped by this very probe counts as an exit.
ExitJustReaped == child = "dead"

\* is_alive answers Ok(false): the child has exited, or there is none.
NotAlive == child # "up"

\* Calls per unit of time are bounded through the restarts they record.
RecentRestarts == Len(Prune(history))

-----------------------------------------------------------------------------
(* Requests that bypass the gates.                                         *)

Status ==
  /\ pc = "idle"
  /\ child' = Reaped
  /\ UNCHANGED <<policy, session, told, counts>>

Shutdown ==
  /\ pc = "idle" /\ child # "none"
  /\ child' = "none"
  /\ UNCHANGED <<policy, session, told, counts>>

-----------------------------------------------------------------------------
(* tools/call.  Layer 2: the queue; a call that finds it full is refused.  *)

\* try_acquire.
SlotFree == inFlight < Capacity

Call(t) ==
  /\ pc = "idle" /\ RecentRestarts < MaxRecent
  /\ SlotFree
  /\ pc' = "gate" /\ tool' = t /\ inFlight' = inFlight + 1
  /\ PolicyKept /\ UNCHANGED child

\* Layer 3: should_retry.
GateProceed ==
  /\ pc = "gate"
  /\ Proceed /\ GoTo("probe")
  /\ hint' = None
  /\ UNCHANGED <<child, standing, counts>>

GateWait ==
  /\ pc = "gate"
  /\ Wait /\ Reply
  /\ hint' = WholeSeconds(duration - entered) /\ standing' = 0
  /\ UNCHANGED <<child, counts>>

GateFail ==
  /\ pc = "gate"
  /\ Fail /\ Reply
  /\ hint' = WholeSeconds(Window - Head(InWindow(history)))
  /\ standing' = Len(InWindow(history))
  /\ UNCHANGED <<child, counts>>

\* Layer 4: the liveness probe.
Probe ==
  /\ pc = "probe"
  /\ child' = Reaped
  /\ \/ NotAlive /\ CountExit
     \/ ~NotAlive /\ PolicyKept
  /\ GoTo("dispatch")

\* Layer 5: the call is refused before the backend is touched.
DispatchRejected ==
  /\ pc = "dispatch" /\ tool = "rejected"
  /\ Reply /\ PolicyKept /\ UNCHANGED child

\* Clangd::spawn: no compile commands, no index file, no clangd binary.
SpawnRefused ==
  /\ pc = "dispatch" /\ tool # "rejected" /\ child = "none"
  /\ Reply /\ PolicyKept /\ UNCHANGED child

Spawn ==
  /\ pc = "dispatch" /\ tool # "rejected" /\ child = "none"
  /\ child' = "up" /\ spawned' = TRUE /\ counted' = FALSE
  /\ GoTo("handshake")
  /\ UNCHANGED <<policy, told>>

\* child.is_some(), even when the process died since the probe.
AlreadySpawned ==
  /\ pc = "dispatch" /\ tool # "rejected" /\ child # "none"
  /\ GoTo("request") /\ PolicyKept /\ UNCHANGED child

\* initialize is answered; seeding and the warm-up gate never fail.
HandshakeDone ==
  /\ pc = "handshake" /\ child = "up"
  /\ GoTo("request") /\ PolicyKept /\ UNCHANGED child

\* InitializeTimeout or an error answer: the child is kept.
HandshakeFailed ==
  /\ pc = "handshake" /\ child = "up"
  /\ Reply /\ PolicyKept /\ UNCHANGED child

\* Broken pipe or EOF; the dead child is kept until a probe reaps it.
Broken ==
  /\ pc \in {"handshake", "request"} /\ child = "dead"
  /\ CountExit /\ Reply
  /\ UNCHANGED child

Answered ==
  /\ pc = "request" /\ child = "up"
  /\ GoTo("record") /\ PolicyKept /\ UNCHANGED child

\* build_full_index ignores EOF while it drains clangd's notifications.
IndexOutlivesChild ==
  /\ pc = "request" /\ tool = "index" /\ child = "dead"
  /\ GoTo("record") /\ PolicyKept /\ UNCHANGED child

\* ClangdBusy or an error answer: not a sign of death.
RequestFailed ==
  /\ pc = "request" /\ child = "up"
  /\ Reply /\ PolicyKept /\ UNCHANGED child

\* record_dispatch_outcome on success, whatever the state was.
Record ==
  /\ pc = "record"
  /\ RecordSpawn /\ Reply
  /\ UNCHANGED <<child, told, counts>>

Handler ==
  \/ GateProceed \/ GateWait \/ GateFail
  \/ Probe
  \/ DispatchRejected \/ SpawnRefused \/ Spawn \/ AlreadySpawned
  \/ HandshakeDone \/ HandshakeFailed
  \/ Answered \/ IndexOutlivesChild \/ RequestFailed
  \/ Broken
  \/ Record

-----------------------------------------------------------------------------
(* The rest of the world.                                                  *)

Die ==
  /\ child = "up"
  /\ child' = "dead"
  /\ UNCHANGED <<policy, session, told, counts>>

Tick ==
  /\ Age
  /\ hint' = IF hint \in {0 - Second, None} THEN hint ELSE hint - 1
  /\ UNCHANGED <<session, child, standing, counts>>

\* handle_message: what a client can ask for; the other methods touch no
\* state.
Requests == Status \/ Shutdown \/ \E t \in Tools : Call(t)

Next == Handler \/ Requests \/ Die \/ Tick

Spec == Init /\ [][Next]_vars

\* Time passes, the client keeps calling, and the serve loop keeps running.
\* The last is an assumption about clangd: the loop blocks in every read, and
\* a deadline is looked at only when a message has come (ClangdSession).
FairSpec ==
  Spec /\ WF_vars(Tick) /\ WF_vars(Handler) /\ WF_vars(\E t \in Tools : Call(t))

-----------------------------------------------------------------------------
(* Properties.                                                             *)

(* A caller that was told to retry after so many seconds and lets one more *)
(* pass is not told to wait again, unless another exit was recorded        *)
(* meanwhile or fewer restarts stand in the way than before: retry_after   *)
(* is the time the oldest of them has left, and a window may hold more     *)
(* than the budget (supervisor.rs 504-535; the lockout of 512-522).        *)
HintProgress ==
  [][pc = "gate" /\ hint = 0 - Second /\ pc' # pc
       => pc' = "probe" \/ Len(InWindow(history)) < standing]_vars

(* Whatever clangd does, a client that keeps calling passes the gate again *)
(* and again: Failed and Backoff give up "for a window", not for ever      *)
(* (supervisor.rs 61-67), and no error path keeps a queue slot.            *)
NoLockout == []<>(pc = "probe")

(* No crash escapes the restart budget: a clangd that follows another is   *)
(* started only after the end of that one was recorded, even when the      *)
(* status tool has reaped it, or it died between the probe and the request *)
(* (mcp.rs 485-502).                                                       *)
RespawnCounted ==
  [][pc = "dispatch" /\ pc' = "handshake" /\ spawned => counted]_vars
==============================================================================
