----------------------------- MODULE ServeProofs -----------------------------
(***************************************************************************)
(* What is proved of the serve loop of lsp-cpp and its restart policy for  *)
(* every window, budget and backoff, with clangd dying at any moment: no   *)
(* respawn escapes the count, and the time a caller is told to wait is     *)
(* enough.                                                                 *)
(***************************************************************************)
EXTENDS LspServe, SequenceTheorems, FiniteSetTheorems, TLAPS

-----------------------------------------------------------------------------
(* The history of restarts: oldest first, each in its cap.                 *)

Sorted(ages) == \A i, j \in 1..Len(ages) : i <= j => ages[j] <= ages[i]

Ages == 0..Window + 1

LEMMA Params ==
  /\ InitialBackoff \in Nat \ {0} /\ MaxBackoff \in Nat \ {0} /\ InitialBackoff <= MaxBackoff
  /\ HealthyUptime \in Nat \ {0} /\ Window \in Nat \ {0} /\ MaxRestarts \in Nat \ {0}
  /\ Capacity \in Nat \ {0} /\ Second \in Nat \ {0} /\ None \notin Nat /\ None \notin Int
BY SupervisorAssumption, ServeAssumption

\* The seconds told fall short of the time by less than one of them.
LEMMA SecondsMeans ==
  ASSUME NEW time \in Nat
  PROVE  /\ WholeSeconds(time) \in 0..time
         /\ WholeSeconds(time) + Second > time
<1> DEFINE q == time \div Second
<1>1. time \in Int /\ Second \in Int /\ Second > 0
  BY Params
<1>2. q \in Int /\ Second * q <= time /\ time < Second * q + Second
  BY <1>1, SMTT(30)
<1>3. q >= 0
  BY <1>1, SMTT(30)
<1> HIDE DEF q
<1>4. Second * q \in Int /\ Second * q >= 0
  BY <1>1, <1>2, <1>3, SMTT(30)
<1>5. WholeSeconds(time) = Second * q
  BY DEF WholeSeconds, q
<1> QED
  BY <1>1, <1>2, <1>4, <1>5

\* Pruning drops the front of the history, the oldest restart if that is too
\* old, and leaves what is inside the window.
LEMMA PruneMeans ==
  ASSUME NEW ages \in Seq(Ages), Sorted(ages)
  PROVE  /\ Prune(ages) \in Seq(0..Window) /\ Sorted(Prune(ages))
         /\ Len(Prune(ages)) \in Nat /\ Len(Prune(ages)) <= Len(ages)
         /\ ages # <<>> /\ ages[1] > Window => Len(Prune(ages)) < Len(ages)
<1> DEFINE n == Len(ages)
           D == {i \in 1..n : ages[i] > Window}
           k == Cardinality(D)
<1>1. n \in Nat /\ DOMAIN ages = 1..n /\ ages \in [1..n -> Ages]
  BY LenProperties
<1>2. \A m \in Nat : IsFiniteSet(1..m) /\ Cardinality(1..m) = m
  BY FS_Interval
<1>3. IsFiniteSet(D) /\ k \in Nat /\ k <= n
  BY <1>1, <1>2, FS_Subset, FS_CardinalityType
<1>4. ASSUME NEW i \in D PROVE i <= k
  <2>1. 1..i \subseteq D
    BY <1>1, Params DEF Sorted, Ages
  <2>2. Cardinality(1..i) <= k /\ i \in Nat
    BY <1>1, <1>3, <2>1, FS_Subset
  <2> QED
    BY <1>2, <2>2
<1>5. Prune(ages) = SubSeq(ages, k + 1, n)
  BY <1>1 DEF Prune
<1> DEFINE m == k + 1
<1>6. \A i \in m..n : ages[i] \in 0..Window
  <2> HIDE DEF k
  <2> QED
    BY <1>1, <1>3, <1>4, Params DEF Ages
<1>7. /\ Prune(ages) \in Seq(0..Window) /\ Len(Prune(ages)) = n - k
      /\ \A i \in 1..n - k : Prune(ages)[i] = ages[k + i]
  <2>1. m \in Int /\ n \in Int /\ m \in 1..n + 1 /\ m = k + 1
    BY <1>1, <1>3
  <2>2. Prune(ages) = SubSeq(ages, m, n)
    BY <1>5
  <2> HIDE DEF m, k, n
  <2>3. /\ SubSeq(ages, m, n) \in Seq(0..Window)
        /\ Len(SubSeq(ages, m, n)) = IF m <= n THEN n - m + 1 ELSE 0
        /\ \A i \in 1..n - m + 1 : SubSeq(ages, m, n)[i] = ages[m + i - 1]
    BY <1>6, <2>1, SubSeqProperties
  <2> QED
    BY <1>1, <1>3, <2>1, <2>2, <2>3
<1> HIDE DEF k, m
<1>8. Sorted(Prune(ages))
  BY <1>1, <1>3, <1>7 DEF Sorted
<1>9. ages # <<>> /\ ages[1] > Window => k >= 1
  BY <1>1, <1>4, EmptySeq
<1> QED
  BY <1>1, <1>3, <1>7, <1>8, <1>9

\* Time leaves the history sorted and in its cap.
Aged(ages) == [i \in DOMAIN ages |-> Older(ages[i], Window + 1)]

LEMMA AgedMeans ==
  ASSUME NEW ages \in Seq(Ages), Sorted(ages)
  PROVE  /\ Aged(ages) \in Seq(Ages) /\ Sorted(Aged(ages)) /\ Len(Aged(ages)) = Len(ages)
         /\ ages # <<>> => Aged(ages) # <<>> /\ Aged(ages)[1] = AtMost(ages[1] + 1, Window + 1)
<1> DEFINE n == Len(ages)
<1>1. n \in Nat /\ DOMAIN ages = 1..n /\ ages \in [1..n -> Ages]
  BY LenProperties
<1>2. \A i \in 1..n : /\ ages[i] \in Nat /\ Aged(ages)[i] = AtMost(ages[i] + 1, Window + 1)
                      /\ Aged(ages)[i] \in Ages
  BY <1>1, Params DEF Aged, Older, AtMost, Ages
<1>3. Aged(ages) \in [1..n -> Ages]
  BY <1>1, <1>2 DEF Aged
<1>4. Aged(ages) \in Seq(Ages)
  BY <1>1, <1>3, SeqDef
<1>5. Len(Aged(ages)) = n
  BY <1>1, <1>3, <1>4, LenProperties
<1>6. Sorted(Aged(ages))
  BY <1>1, <1>2, <1>5, Params, SMTT(30) DEF Sorted, AtMost, Ages
<1>7. ages # <<>> => n \in Nat \ {0}
  BY EmptySeq
<1>8. ages # <<>> => Aged(ages) # <<>>
  BY <1>5, <1>7, EmptySeq
<1> QED
  BY <1>1, <1>2, <1>4, <1>5, <1>6, <1>7, <1>8

\* So does a new restart.
LEMMA AppendSorted ==
  ASSUME NEW ages \in Seq(Ages), Sorted(ages)
  PROVE  Append(ages, 0) \in Seq(Ages) /\ Sorted(Append(ages, 0))
<1> DEFINE n == Len(ages)  more == Append(ages, 0)
<1>1. n \in Nat /\ \A i \in 1..n : ages[i] \in Ages
  BY LenProperties, ElementOfSeq
<1>2. 0 \in Ages
  BY Params DEF Ages
<1>3. /\ more \in Seq(Ages) /\ Len(more) = n + 1
      /\ \A i \in 1..n : more[i] = ages[i]
      /\ more[n + 1] = 0
  BY <1>2, AppendProperties
<1> HIDE DEF more
<1>4. \A i \in 1..n + 1 : more[i] \in Nat /\ (i \in 1..n \/ i = n + 1)
  BY <1>1, <1>3, Params DEF Ages
<1>5. Sorted(more)
  BY <1>1, <1>3, <1>4 DEF Sorted
<1> QED
  BY <1>3, <1>5 DEF more

-----------------------------------------------------------------------------
(* The restart policy alone.                                               *)

PolicyInv ==
  /\ PolicyTypeOK
  /\ Sorted(history)
  /\ state = "backoff" => entered # None

LEMMA BackoffBounded ==
  ASSUME PolicyTypeOK
  PROVE  NextBackoff \in InitialBackoff..MaxBackoff
BY Params DEF PolicyTypeOK, NextBackoff, Doubled, AtMost

LEMMA ExitKept ==
  ASSUME PolicyInv, RecordExit
  PROVE  PolicyInv'
<1>1. history \in Seq(Ages) /\ Sorted(history)
  BY DEF PolicyInv, PolicyTypeOK, Ages
<1>2. history' \in Seq(0..Window) /\ Sorted(history')
  BY <1>1, AppendSorted, PruneMeans DEF RecordExit
<1>3. history' \in Seq(0..Window + 1)
  <2>1. 0..Window \subseteq 0..Window + 1
    BY Params
  <2> QED
    BY <1>2, <2>1, SeqMonotonic
<1>4. NextBackoff \in InitialBackoff..MaxBackoff
  BY BackoffBounded DEF PolicyInv
<1>5. /\ state' \in {"failed", "backoff"}
      /\ IF state' = "backoff" THEN duration' = NextBackoff ELSE duration' = 0
      /\ curBackoff' = NextBackoff /\ entered' = 0 /\ lastSpawn' = lastSpawn
  BY DEF RecordExit
<1> QED
  BY <1>2, <1>3, <1>4, <1>5, Params DEF PolicyInv, PolicyTypeOK

LEMMA SpawnKept ==
  ASSUME PolicyInv, RecordSpawn
  PROVE  PolicyInv'
BY Params DEF PolicyInv, PolicyTypeOK, RecordSpawn, Sorted

LEMMA WindowMeans ==
  ASSUME PolicyInv
  PROVE  /\ InWindow(history) \in Seq(0..Window) /\ InWindow(history) \in Seq(0..Window + 1)
         /\ Sorted(InWindow(history))
         /\ Len(InWindow(history)) \in Nat /\ Len(InWindow(history)) <= Len(history)
         /\ history # <<>> /\ history[1] > Window => Len(InWindow(history)) < Len(history)
<1>1. history \in Seq(Ages) /\ Sorted(history)
  BY DEF PolicyInv, PolicyTypeOK, Ages
<1>2. 0..Window \subseteq 0..Window + 1
  BY Params
<1> HIDE DEF Sorted
<1>3. Prune(history) \in Seq(0..Window)
  BY <1>1, PruneMeans
<1> QED
  BY <1>1, <1>2, <1>3, PruneMeans, SeqMonotonic DEF InWindow

LEMMA ProceedKept ==
  ASSUME PolicyInv, Proceed
  PROVE  PolicyInv'
<1>1. CASE UNCHANGED policy
  BY <1>1 DEF PolicyInv, PolicyTypeOK, Sorted, policy
<1>2. CASE state = "backoff" /\ state' = "stopped" /\ duration' = 0 /\ entered' = 0
           /\ UNCHANGED <<history, lastSpawn, curBackoff>>
  BY <1>2, Params DEF PolicyInv, PolicyTypeOK, Sorted
<1>3. CASE /\ state = "failed" /\ state' = "stopped" /\ entered' = 0 /\ curBackoff' = 0
           /\ history' = InWindow(history) /\ UNCHANGED <<duration, lastSpawn>>
  BY <1>3, Params, WindowMeans DEF PolicyInv, PolicyTypeOK
<1> QED
  BY <1>1, <1>2, <1>3 DEF Proceed

LEMMA FailKept ==
  ASSUME PolicyInv, Fail
  PROVE  PolicyInv'
BY Params, WindowMeans DEF PolicyInv, PolicyTypeOK, Fail

LEMMA AgeKept ==
  ASSUME PolicyInv, Age
  PROVE  PolicyInv'
<1>1. history \in Seq(Ages) /\ Sorted(history)
  BY DEF PolicyInv, PolicyTypeOK, Ages
<1>2. history' = Aged(history)
  BY DEF Age, Aged
<1>3. history' \in Seq(0..Window + 1) /\ Sorted(history')
  BY <1>1, <1>2, AgedMeans DEF Ages
<1>4. lastSpawn' \in 0..HealthyUptime \cup {None} /\ entered' \in 0..MaxBackoff \cup {None}
  BY Params DEF PolicyInv, PolicyTypeOK, Age, Older, AtMost
<1>5. state' = state /\ duration' = duration /\ curBackoff' = curBackoff
      /\ (entered # None => entered' # None)
  BY Params DEF PolicyInv, PolicyTypeOK, Age, Older, AtMost
<1> QED
  BY <1>3, <1>4, <1>5 DEF PolicyInv, PolicyTypeOK

-----------------------------------------------------------------------------
(* The inductive invariant.                                                *)

\* One request at a time: a slot is taken while its handler runs.
LoopInv ==
  /\ pc \in {"idle", "gate", "probe", "dispatch", "handshake", "request", "record"}
  /\ tool \in Tools \cup {None}
  /\ inFlight = IF pc = "idle" THEN 0 ELSE 1
  /\ child \in {"none", "up", "dead"}

\* A call that finds no child at dispatch was probed without one, and the
\* probe recorded the exit.
CountInv ==
  /\ spawned \in BOOLEAN /\ counted \in BOOLEAN
  /\ pc = "dispatch" /\ child = "none" => counted

\* A hint in force is about the Backoff or the Failed the policy is still in,
\* and with one second more covers what is left of it.
Covers ==
  \/ state = "backoff" /\ entered # None /\ entered + hint + Second >= duration
  \/ /\ state = "failed" /\ history # <<>> /\ history[1] + hint + Second >= Window + 1
     /\ Len(history) = standing

HintInv ==
  /\ hint \in (0 - Second)..(Window + MaxBackoff) \cup {None}
  /\ standing \in Nat
  /\ hint # None => pc \in {"idle", "gate"} /\ Covers

IInv == PolicyInv /\ LoopInv /\ CountInv /\ HintInv

LEMMA Start == Init => IInv
<1> SUFFICES ASSUME Init PROVE IInv
  OBVIOUS
<1>1. /\ state = "stopped" /\ duration = 0 /\ history = <<>>
      /\ lastSpawn = None /\ entered = None /\ curBackoff = 0
  BY DEF Init, PolicyInit
<1>2. history \in Seq(0..Window + 1) /\ Len(history) = 0
  BY <1>1, EmptySeq
<1>3. PolicyInv
  BY <1>1, <1>2, Params DEF PolicyInv, PolicyTypeOK, Sorted
<1>4. LoopInv /\ HintInv
  BY Params DEF Init, LoopInv, HintInv
<1>5. counted = FALSE /\ spawned = FALSE /\ pc = "idle"
  BY DEF Init
<1>6. CountInv
  BY <1>5 DEF CountInv
<1> QED
  BY <1>3, <1>4, <1>6 DEF IInv

\* What a step leaves of the policy, its hint and its count.
LEMMA Untouched ==
  ASSUME IInv, UNCHANGED policy
  PROVE  PolicyInv' /\ (Covers /\ UNCHANGED told => Covers')
BY DEF IInv, PolicyInv, PolicyTypeOK, Sorted, policy, Covers, told

\* A recorded exit makes the hint void and counts.
LEMMA Counted ==
  ASSUME IInv, CountExit
  PROVE  PolicyInv' /\ HintInv' /\ counted' = TRUE /\ spawned' = spawned
BY ExitKept DEF IInv, CountExit, HintInv

\* The reply frees the slot.
LEMMA Replied ==
  ASSUME IInv, Reply, child' \in {"none", "up", "dead"}, pc # "idle"
  PROVE  LoopInv' /\ pc' = "idle"
BY DEF IInv, LoopInv, Reply, SlotsAfterReply

LEMMA Moved ==
  ASSUME IInv, NEW label \in {"probe", "dispatch", "handshake", "request", "record"},
         GoTo(label), child' \in {"none", "up", "dead"}, pc # "idle"
  PROVE  LoopInv' /\ pc' = label
BY DEF IInv, LoopInv, GoTo

\* A step that keeps the policy keeps a void hint void.
LEMMA Kept ==
  ASSUME IInv, PolicyKept, pc' \in {"idle", "gate"} \/ hint = None
  PROVE  PolicyInv' /\ HintInv' /\ counted' = counted /\ spawned' = spawned
BY Untouched DEF IInv, PolicyKept, HintInv, told, counts

LEMMA Untold ==
  ASSUME IInv, pc \notin {"idle", "gate"}
  PROVE  hint = None
BY DEF IInv, HintInv

LEMMA GateStep ==
  ASSUME IInv, GateProceed \/ GateWait \/ GateFail
  PROVE  IInv'
<1>1. CASE GateProceed
  <2>1. PolicyInv' /\ LoopInv' /\ pc' = "probe"
    BY <1>1, ProceedKept, Moved DEF IInv, GateProceed, LoopInv
  <2>2. HintInv'
    BY <1>1 DEF GateProceed, HintInv, IInv
  <2>3. CountInv'
    BY <1>1, <2>1 DEF GateProceed, IInv, CountInv, counts
  <2> QED
    BY <2>1, <2>2, <2>3 DEF IInv
<1>2. CASE GateWait
  <2>1. UNCHANGED policy /\ Reply /\ UNCHANGED <<child, counts>> /\ pc = "gate"
        /\ state = "backoff" /\ ~BackoffElapsed
        /\ hint' = WholeSeconds(duration - entered) /\ standing' = 0
    BY <1>2 DEF GateWait, Wait
  <2>2. PolicyInv' /\ LoopInv' /\ pc' = "idle"
    BY <2>1, Untouched, Replied DEF IInv, LoopInv
  <2>3. /\ duration \in Nat /\ duration <= MaxBackoff /\ entered \in Nat /\ entered < duration
        /\ entered # None
    BY <2>1, Params DEF BackoffElapsed, IInv, PolicyInv, PolicyTypeOK
  <2>4. duration - entered \in Nat /\ duration - entered <= MaxBackoff
    BY <2>3, Params
  <2>5. hint' \in 0..(duration - entered) /\ hint' + Second > duration - entered
    BY <2>1, <2>4, SecondsMeans
  <2>6. state' = "backoff" /\ entered' = entered /\ duration' = duration
    BY <2>1 DEF policy
  <2>7. Covers'
    <3>1. entered + hint' + Second >= duration
      <4>1. \A e, d, h \in Int : h + Second > d - e => e + h + Second >= d
        BY Params
      <4> QED
        BY <2>3, <2>4, <2>5, <4>1
    <3> QED
      BY <2>3, <2>6, <3>1 DEF Covers
  <2>8. HintInv'
    BY <2>1, <2>2, <2>4, <2>5, <2>7, Params DEF HintInv
  <2>9. CountInv'
    BY <2>1, <2>2 DEF IInv, CountInv, counts
  <2> QED
    BY <2>2, <2>8, <2>9 DEF IInv
<1>3. CASE GateFail
  <2>1. Fail /\ Reply /\ UNCHANGED <<child, counts>> /\ pc = "gate"
    BY <1>3 DEF GateFail
  <2>2. PolicyInv' /\ LoopInv' /\ pc' = "idle"
    BY <2>1, FailKept, Replied DEF IInv, LoopInv
  <2>3. /\ history' = InWindow(history) /\ Len(history') >= MaxRestarts
        /\ state' = "failed" /\ hint' = WholeSeconds(Window - Head(history'))
        /\ standing' = Len(history')
    BY <1>3 DEF GateFail, Fail
  <2>4. history' \in Seq(0..Window)
    BY <2>3, WindowMeans DEF IInv
  <2>5. /\ history' # <<>> /\ Head(history') = history'[1] /\ history'[1] \in 0..Window
        /\ Len(history') \in Nat
    BY <2>3, <2>4, Params, EmptySeq, ElementOfSeq, LenProperties
  <2>6. Window - history'[1] \in Nat /\ Window - history'[1] <= Window
    BY <2>5, Params
  <2>7. /\ hint' \in 0..(Window - history'[1])
        /\ hint' + Second > Window - history'[1]
    BY <2>3, <2>5, <2>6, SecondsMeans
  <2>8. Covers'
    <3>1. history'[1] + hint' + Second >= Window + 1
      BY <2>5, <2>6, <2>7, Params
    <3> QED
      BY <2>3, <2>5, <3>1 DEF Covers
  <2>9. HintInv'
    BY <2>2, <2>3, <2>5, <2>6, <2>7, <2>8, Params DEF HintInv
  <2>10. CountInv'
    BY <2>1, <2>2 DEF IInv, CountInv, counts
  <2> QED
    BY <2>2, <2>9, <2>10 DEF IInv
<1> QED
  BY <1>1, <1>2, <1>3

LEMMA ProbeStep ==
  ASSUME IInv, Probe
  PROVE  IInv'
<1>1. child' \in {"none", "up", "dead"} /\ pc = "probe" /\ hint = None
  BY Untold DEF Probe, Reaped, IInv, LoopInv
<1>2. LoopInv' /\ pc' = "dispatch"
  BY <1>1, Moved DEF Probe
<1>3. CASE NotAlive /\ CountExit
  <2>1. PolicyInv' /\ HintInv' /\ counted' = TRUE /\ spawned' = spawned
    BY <1>3, Counted
  <2>2. CountInv'
    BY <2>1 DEF IInv, CountInv
  <2> QED
    BY <1>2, <2>1, <2>2 DEF IInv
<1>4. CASE ~NotAlive /\ PolicyKept
  <2>1. PolicyInv' /\ HintInv' /\ counted' = counted /\ spawned' = spawned
    BY <1>1, <1>4, Kept
  <2>2. child' = "up"
    BY <1>4 DEF Probe, Reaped, NotAlive
  <2>3. CountInv'
    BY <2>1, <2>2 DEF IInv, CountInv
  <2> QED
    BY <1>2, <2>1, <2>3 DEF IInv
<1> QED
  BY <1>3, <1>4 DEF Probe

\* The rest of the handler: the hint is void, and only Spawn makes a child.
LEMMA CallStep ==
  ASSUME IInv,
         \/ DispatchRejected \/ SpawnRefused \/ Spawn \/ AlreadySpawned
         \/ HandshakeDone \/ HandshakeFailed
         \/ Answered \/ IndexOutlivesChild \/ RequestFailed
         \/ Broken \/ Record
  PROVE  IInv'
<1>1. hint = None /\ pc # "idle"
  BY Untold DEF DispatchRejected, SpawnRefused, Spawn, AlreadySpawned, HandshakeDone,
    HandshakeFailed, Answered, IndexOutlivesChild, RequestFailed, Broken, Record
<1>2. child' \in {"none", "up", "dead"}
  BY DEF IInv, LoopInv, DispatchRejected, SpawnRefused, Spawn, AlreadySpawned, HandshakeDone,
    HandshakeFailed, Answered, IndexOutlivesChild, RequestFailed, Broken, Record
<1>3. LoopInv' /\ pc' # "dispatch"
  <2>1. CASE \/ DispatchRejected \/ SpawnRefused \/ HandshakeFailed \/ RequestFailed
             \/ Broken \/ Record
    BY <1>1, <1>2, <2>1, Replied
      DEF DispatchRejected, SpawnRefused, HandshakeFailed, RequestFailed, Broken, Record
  <2>2. CASE Spawn \/ AlreadySpawned \/ HandshakeDone \/ Answered \/ IndexOutlivesChild
    BY <1>1, <1>2, <2>2, Moved
      DEF Spawn, AlreadySpawned, HandshakeDone, Answered, IndexOutlivesChild
  <2> QED
    BY <2>1, <2>2
<1>4. PolicyInv' /\ HintInv' /\ counted' \in BOOLEAN /\ spawned' \in BOOLEAN
  <2>1. CASE PolicyKept
    BY <1>1, <2>1, Kept DEF IInv, CountInv
  <2>2. CASE CountExit
    BY <2>2, Counted DEF IInv, CountInv
  <2>3. CASE Spawn
    BY <1>1, <2>3, Untouched DEF Spawn, HintInv, IInv, told
  <2>4. CASE Record
    BY <1>1, <2>4, SpawnKept DEF Record, HintInv, IInv, CountInv, told, counts
  <2> QED
    BY <2>1, <2>2, <2>3, <2>4
      DEF DispatchRejected, SpawnRefused, AlreadySpawned, HandshakeDone,
      HandshakeFailed, Answered, IndexOutlivesChild, RequestFailed, Broken
<1> QED
  BY <1>3, <1>4 DEF IInv, CountInv

\* A hint runs down as fast as the age it waits for goes up.
LEMMA TickStep ==
  ASSUME IInv, Tick
  PROVE  IInv'
<1>1. PolicyInv'
  BY AgeKept DEF IInv, Tick
<1>2. LoopInv' /\ CountInv' /\ standing' = standing /\ standing \in Nat
  BY DEF IInv, LoopInv, CountInv, HintInv, Tick, session, counts
<1>3. /\ hint' \in (0 - Second)..(Window + MaxBackoff) \cup {None}
      /\ hint' # None => /\ hint # None /\ hint \in Int
                         /\ hint' = IF hint = 0 - Second THEN hint ELSE hint - 1
      /\ hint # None => 0 - Second <= hint
  BY Params DEF IInv, HintInv, Tick
<1>4. history \in Seq(Ages) /\ Sorted(history) /\ history' = Aged(history)
  BY DEF IInv, PolicyInv, PolicyTypeOK, Ages, Tick, Age, Aged
<1>5. ASSUME hint # None, hint' # None, Covers PROVE Covers'
  <2>1. /\ hint \in Int /\ 0 - Second <= hint
        /\ hint' = (IF hint = 0 - Second THEN hint ELSE hint - 1)
        /\ state' = state /\ duration' = duration
    BY <1>3, <1>5 DEF Tick, Age
  <2>2. CASE state = "backoff" /\ entered # None /\ entered + hint + Second >= duration
    <3>1. entered \in 0..MaxBackoff /\ entered' = AtMost(entered + 1, MaxBackoff)
          /\ duration \in Nat /\ duration <= MaxBackoff
      BY <2>2, Params DEF IInv, PolicyInv, PolicyTypeOK, Tick, Age, Older
    <3>2. entered' # None /\ entered' + hint' + Second >= duration
      BY <2>1, <2>2, <3>1, Params DEF AtMost
    <3> QED
      BY <2>1, <2>2, <3>2 DEF Covers
  <2>3. CASE /\ state = "failed" /\ history # <<>> /\ history[1] + hint + Second >= Window + 1
             /\ Len(history) = standing
    <3>1. history[1] \in Nat
      BY <1>4, <2>3, EmptySeq, ElementOfSeq, Params DEF Ages
    <3>2. history' # <<>> /\ history'[1] = AtMost(history[1] + 1, Window + 1)
          /\ Len(history') = Len(history)
      BY <1>4, <2>3, AgedMeans
    <3>3. history'[1] + hint' + Second >= Window + 1
      BY <2>1, <2>3, <3>1, <3>2, Params DEF AtMost
    <3> QED
      BY <1>2, <2>1, <2>3, <3>2, <3>3 DEF Covers
  <2> QED
    BY <1>5, <2>2, <2>3 DEF Covers
<1>6. HintInv'
  BY <1>2, <1>3, <1>5 DEF IInv, HintInv, Tick, session
<1> QED
  BY <1>1, <1>2, <1>6 DEF IInv

LEMMA OutsideStep ==
  ASSUME IInv, Requests \/ Die
  PROVE  IInv'
<1>1. PolicyInv' /\ UNCHANGED policy /\ UNCHANGED told /\ UNCHANGED counts
  BY Untouched DEF Requests, Die, Status, Shutdown, Call, PolicyKept
<1>2. LoopInv'
  BY DEF IInv, LoopInv, Requests, Die, Status, Shutdown, Call, Reaped, session
<1>3. \/ pc' = pc
      \/ pc' = "gate" /\ pc = "idle"
  BY DEF Requests, Die, Status, Shutdown, Call, session
<1>4. HintInv'
  BY <1>1, <1>3, Untouched DEF IInv, HintInv, told
<1>5. pc' = "dispatch" => pc = "dispatch" /\ (child' = "none" => child = "none")
  BY <1>3 DEF Requests, Die, Status, Shutdown, Call, session
<1>6. CountInv'
  BY <1>1, <1>5 DEF IInv, CountInv, counts
<1> QED
  BY <1>1, <1>2, <1>4, <1>6 DEF IInv

LEMMA Step ==
  ASSUME IInv, [Next]_vars
  PROVE  IInv'
<1>1. CASE UNCHANGED vars
  BY <1>1, Untouched DEF IInv, LoopInv, CountInv, HintInv, vars, session, told, counts
<1> QED
  BY <1>1, GateStep, ProbeStep, CallStep, TickStep, OutsideStep DEF Next, Handler

LEMMA Invariant == Spec => []IInv
BY Start, Step, PTL DEF Spec

-----------------------------------------------------------------------------
(* The theorems.                                                           *)

\* The type invariant: the policy stays in its states and its backoff below
\* the cap, and a slot is taken exactly while a handler runs (queue.rs,
\* supervisor.rs 88-136).
THEOREM TypeCorrect == Spec => []TypeOK
<1>1. ASSUME IInv PROVE TypeOK
  <2>1. inFlight \in 0..Capacity
    BY <1>1, Params DEF IInv, LoopInv
  <2>2. counted \in BOOLEAN /\ spawned \in BOOLEAN
    BY <1>1 DEF IInv, CountInv
  <2> QED
    BY <1>1, <2>1, <2>2 DEF IInv, PolicyInv, LoopInv, HintInv, TypeOK
<1> QED
  BY <1>1, Invariant, PTL

\* A clangd that follows another is started only after the end of that one
\* was recorded (mcp.rs 485-502).
THEOREM NoFreeRespawn == Spec => RespawnCounted
<1>1. ASSUME IInv, Next, pc = "dispatch", pc' = "handshake" PROVE counted
  <2>1. child = "none"
    BY <1>1 DEF Next, Handler, Requests, GateProceed, GateWait, GateFail, Probe,
      DispatchRejected, SpawnRefused, Spawn, AlreadySpawned, HandshakeDone, HandshakeFailed,
      Answered, IndexOutlivesChild, RequestFailed, Broken, Record, Reply, GoTo,
      Status, Shutdown, Call, Die, Tick, session
  <2> QED
    BY <1>1, <2>1 DEF IInv, CountInv
<1>2. IInv /\ [Next]_vars => [pc = "dispatch" /\ pc' = "handshake" /\ spawned => counted]_vars
  BY <1>1
<1> QED
  BY <1>2, Invariant, PTL DEF Spec, RespawnCounted

\* A caller that waits a second longer than it was told passes the gate, or
\* finds fewer restarts in its way (supervisor.rs 504-535, mcp.rs 457, 474).
THEOREM HintSuffices == Spec => HintProgress
<1>1. ASSUME IInv, Next, pc = "gate", hint = 0 - Second, pc' # pc, pc' # "probe"
      PROVE  Len(InWindow(history)) < standing
  <2>1. Covers /\ hint # None
    BY <1>1, Params DEF IInv, HintInv
  <2>2. GateProceed \/ GateWait \/ GateFail
    BY <1>1 DEF Next, Handler, Requests, GateProceed, GateWait, GateFail, Probe,
      DispatchRejected, SpawnRefused, Spawn, AlreadySpawned, HandshakeDone, HandshakeFailed,
      Answered, IndexOutlivesChild, RequestFailed, Broken, Record, Reply, GoTo,
      Status, Shutdown, Call, Die, Tick, session
  <2>3. ~GateProceed
    BY <1>1 DEF GateProceed, GoTo
  <2>4. CASE state = "backoff" /\ entered # None /\ entered + hint + Second >= duration
    <3>1. entered \in Nat /\ duration \in Nat /\ entered >= duration
      BY <1>1, <2>4, Params DEF IInv, PolicyInv, PolicyTypeOK
    <3>2. ~GateWait
      BY <3>1 DEF GateWait, Wait, BackoffElapsed
    <3>3. ~GateFail
      BY <2>4 DEF GateFail, Fail
    <3> QED
      BY <2>2, <2>3, <3>2, <3>3
  <2>5. CASE /\ state = "failed" /\ history # <<>> /\ history[1] + hint + Second >= Window + 1
             /\ Len(history) = standing
    <3>1. history \in Seq(Ages)
      BY <1>1 DEF IInv, PolicyInv, PolicyTypeOK, Ages
    <3>2. history[1] \in Nat
      BY <2>5, <3>1, EmptySeq, ElementOfSeq, Params DEF Ages
    <3>3. history[1] > Window
      BY <1>1, <2>5, <3>2, Params
    <3> QED
      BY <1>1, <2>5, <3>3, WindowMeans DEF IInv
  <2> QED
    BY <2>1, <2>4, <2>5 DEF Covers
<1>2. IInv /\ [Next]_vars
      => [pc = "gate" /\ hint = 0 - Second /\ pc' # pc
            => pc' = "probe" \/ Len(InWindow(history)) < standing]_vars
  BY <1>1
<1> QED
  BY <1>2, Invariant, PTL DEF Spec, HintProgress

==============================================================================
