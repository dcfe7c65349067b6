----------------------------- MODULE Supervisor ------------------------------
(***************************************************************************)
(* The restart policy of lsp-cpp (src/lsp-cpp/src/supervisor.rs): pure     *)
(* data and a clock.  The code compares the clock with stored instants     *)
(* only, so an instant is modelled by its age, which Tick increases up to  *)
(* the largest value the code tells apart.                                 *)
(***************************************************************************)
EXTENDS Naturals, Sequences, FiniteSets

CONSTANTS
  InitialBackoff, MaxBackoff,   \* the exponential backoff, 1 s up to 16 s
  HealthyUptime,                \* uptime that resets the backoff, 60 s
  Window, MaxRestarts,          \* the restart budget, 5 in 300 s
  None                          \* an instant that has not happened

ASSUME SupervisorAssumption ==
  /\ {InitialBackoff, MaxBackoff, HealthyUptime, Window, MaxRestarts} \subseteq Nat \ {0}
  /\ InitialBackoff <= MaxBackoff
  /\ None \notin Nat

VARIABLES
  state,        \* current_state
  duration,     \* the duration of Backoff, 0 in other states
  history,      \* ages of restart_history_ns, oldest first
  lastSpawn,    \* age of last_spawn_ns
  entered,      \* age of state_entered_ns
  curBackoff    \* current_backoff

policy == <<state, duration, history, lastSpawn, entered, curBackoff>>

PolicyTypeOK ==
  /\ state \in {"stopped", "running", "backoff", "failed"}
  /\ IF state = "backoff" THEN duration \in InitialBackoff..MaxBackoff ELSE duration = 0
  /\ history \in Seq(0..Window + 1)
  /\ lastSpawn \in 0..HealthyUptime \cup {None}
  /\ entered \in 0..MaxBackoff \cup {None}
  /\ curBackoff \in {0} \cup InitialBackoff..MaxBackoff

PolicyInit ==
  /\ state = "stopped" /\ duration = 0 /\ history = <<>>
  /\ lastSpawn = None /\ entered = None /\ curBackoff = 0

AtMost(n, bound) == IF n <= bound THEN n ELSE bound

\* One unit of time passes.
Older(age, bound) == IF age = None THEN None ELSE AtMost(age + 1, bound)

Age ==
  /\ history' = [i \in DOMAIN history |-> Older(history[i], Window + 1)]
  /\ lastSpawn' = Older(lastSpawn, HealthyUptime)
  /\ entered' = Older(entered, MaxBackoff)
  /\ UNCHANGED <<state, duration, curBackoff>>

\* prune_history: the restarts inside the window.  The history is oldest
\* first, so what it does not retain is at the front.
Prune(ages) ==
  SubSeq(ages, Cardinality({i \in DOMAIN ages : ages[i] > Window}) + 1, Len(ages))

\* Fault: should_retry does not prune.
Unpruned(ages) == ages

\* should_retry looks at the window as it is now.
InWindow(ages) == Prune(ages)

\* Fault: Backoff is left only by record_spawn (the lockout the code had).
BackoffStays == FALSE

BackoffElapsed == entered >= duration

RecordSpawn ==
  /\ state' = "running" /\ duration' = 0
  /\ lastSpawn' = 0 /\ entered' = 0
  /\ UNCHANGED <<history, curBackoff>>

\* Fault: the backoff doubles without the cap.
Uncapped(backoff) == 2 * backoff

Doubled(backoff) == AtMost(2 * backoff, MaxBackoff)

\* Decided before anything changes, from the age of the last spawn.
NextBackoff ==
  IF (lastSpawn # None /\ lastSpawn >= HealthyUptime) \/ curBackoff < InitialBackoff
  THEN InitialBackoff ELSE Doubled(curBackoff)

RecordExit ==
  LET spent == Len(history') >= MaxRestarts IN
  /\ history' = Prune(Append(history, 0))
  /\ curBackoff' = NextBackoff
  /\ entered' = 0
  /\ state' = IF spent THEN "failed" ELSE "backoff"
  /\ duration' = IF spent THEN 0 ELSE NextBackoff
  /\ UNCHANGED lastSpawn

\* should_retry, one operator per decision.  Proceed also leaves Failed or
\* Backoff when its time is over.
Proceed ==
  \/ /\ state \in {"running", "stopped"}
     /\ UNCHANGED policy
  \/ /\ state = "backoff" /\ BackoffElapsed
     /\ state' = "stopped" /\ duration' = 0 /\ entered' = 0
     /\ UNCHANGED <<history, lastSpawn, curBackoff>>
  \/ /\ state = "failed" /\ Len(InWindow(history)) < MaxRestarts
     /\ state' = "stopped" /\ entered' = 0 /\ curBackoff' = 0
     /\ history' = InWindow(history)
     /\ UNCHANGED <<duration, lastSpawn>>

\* Wait { wait: duration - elapsed }
Wait ==
  /\ state = "backoff" /\ ~BackoffElapsed
  /\ UNCHANGED policy

\* Fail { retry_after: RESTART_WINDOW - age of the oldest restart in it }
Fail ==
  /\ state = "failed" /\ Len(InWindow(history)) >= MaxRestarts
  /\ history' = InWindow(history)
  /\ UNCHANGED <<state, duration, lastSpawn, entered, curBackoff>>
==============================================================================
