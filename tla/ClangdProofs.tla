---------------------------- MODULE ClangdProofs -----------------------------
(***************************************************************************)
(* What is proved of the conversation with clangd for every compile        *)
(* database, batch size, time limit and number of messages in the pipes,   *)
(* whatever clangd answers and whenever it dies: only a clangd that is     *)
(* gone is charged to the restart budget, an index build keeps no more     *)
(* than a batch of documents open and none after its end, and no file was  *)
(* added to an index it reports as complete for the quiescence time.       *)
(***************************************************************************)
EXTENDS ClangdSession, SharedLemmas

LEMMA Bounds ==
  /\ MaxAbandoned \in Nat /\ MaxInbox \in Nat /\ MaxShards \in Nat
  /\ MaxTus \in Nat \ {0} /\ BatchSize \in Nat \ {0}
  /\ Quiescence \in Nat \ {0} /\ DrainCap \in Nat \ {0}
  /\ None \notin Ids /\ Seeds \cap Files = {}
BY ClangdAssumption DEF Ids

-----------------------------------------------------------------------------
(* The compile database.                                                   *)

LEMMA DatabaseFinite ==
  DOMAIN Database \subseteq Nat /\ IsFiniteSet(DOMAIN Database)
<1>1. Len(Database) \in Nat /\ DOMAIN Database = 1..Len(Database)
  BY ClangdAssumption, LenProperties
<1> QED
  BY <1>1, FirstNumbers

\* The first n of a finite set of entries are at most n.
LEMMA AtMostMeans ==
  ASSUME NEW n \in Nat, NEW S, S \subseteq Nat, IsFiniteSet(S)
  PROVE  /\ AtMost(n, S) \subseteq S /\ IsFiniteSet(AtMost(n, S))
         /\ Cardinality(AtMost(n, S)) \in Nat /\ Cardinality(AtMost(n, S)) <= n
         /\ S \ AtMost(n, S) \subseteq S /\ IsFiniteSet(S \ AtMost(n, S))
         /\ Cardinality(S \ AtMost(n, S)) = Cardinality(S) - Cardinality(AtMost(n, S))
<1> DEFINE A == AtMost(n, S)
           rank == [i \in A |-> Before(i, S) + 1]
<1>1. A \subseteq S /\ IsFiniteSet(A) /\ Cardinality(A) \in Nat
  BY FS_Subset, FS_CardinalityType DEF AtMost
<1>2. ASSUME NEW i \in S
      PROVE  IsFiniteSet({j \in S : j < i}) /\ Before(i, S) \in Nat
  BY FS_Subset, FS_CardinalityType DEF Before
<1>3. ASSUME NEW i \in S, NEW k \in S, i < k
      PROVE  Before(i, S) < Before(k, S)
  <2> DEFINE T == {j \in S : j < i}  U == {j \in S : j < k}
  <2>1. IsFiniteSet(T) /\ IsFiniteSet(U) /\ T \subseteq U /\ i \in U /\ i \notin T
    <3>1. IsFiniteSet(T) /\ IsFiniteSet(U)
      BY <1>2
    <3>2. i \in Nat /\ k \in Nat
      OBVIOUS
    <3>3. \A j \in S : j < i => j < k
      BY <1>3, <3>2
    <3>4. i \in U
      BY <1>3
    <3>5. i \notin T
      BY <3>2
    <3>6. T \subseteq U
      BY <3>3
    <3> QED
      BY <3>1, <3>4, <3>5, <3>6
  <2>2. Cardinality(T) <= Cardinality(U) /\ (Cardinality(T) = Cardinality(U) => T = U)
    BY <2>1, FS_Subset
  <2>3. Cardinality(T) \in Nat /\ Cardinality(U) \in Nat
    BY <2>1, FS_CardinalityType
  <2> QED
    BY <2>1, <2>2, <2>3 DEF Before
<1>4. rank \in [A -> 1..n]
  <2>1. \A i \in A : i \in S /\ Before(i, S) < n
    BY DEF AtMost
  <2>2. ASSUME NEW i \in A PROVE Before(i, S) + 1 \in 1..n
    <3>1. Before(i, S) \in Nat /\ Before(i, S) < n
      BY <1>2, <2>1
    <3> QED
      BY <3>1
  <2> HIDE DEF A
  <2> QED
    BY <2>2
<1>5. ASSUME NEW i \in A, NEW k \in A, rank[i] = rank[k] PROVE i = k
  <2>1. i \in S /\ k \in S /\ i \in Nat /\ k \in Nat
    BY <1>1
  <2>2. Before(i, S) \in Nat /\ Before(k, S) \in Nat
    BY <1>2, <2>1
  <2>3. Before(i, S) + 1 = Before(k, S) + 1
    BY <1>5
  <2>4. ~(i < k) /\ ~(k < i)
    BY <1>3, <2>1, <2>2, <2>3
  <2> QED
    BY <2>1, <2>4
<1>6. rank \in Injection(A, 1..n)
  BY <1>4, <1>5 DEF Injection, IsInjective
<1>7. Cardinality(A) <= n
  <2> HIDE DEF rank, A
  <2>1. IsFiniteSet(1..n) /\ Cardinality(1..n) = n
    BY FirstNumbers
  <2>2. Cardinality(A) <= Cardinality(1..n)
    BY <1>6, <2>1, FS_Injection
  <2> QED
    BY <2>1, <2>2
<1>8. IsFiniteSet(S \ A) /\ Cardinality(S \ A) = Cardinality(S) - Cardinality(S \cap A)
  BY <1>1, FS_Difference
<1>9. S \cap A = A
  BY <1>1
<1> QED
  BY <1>1, <1>7, <1>8, <1>9

\* So a batch is no larger than the chunk of entries it comes from.
LEMMA ReadableSmall ==
  ASSUME NEW S, S \subseteq DOMAIN Database, IsFiniteSet(S), NEW readable \in SUBSET Names(S)
  PROVE  /\ readable \subseteq Files /\ IsFiniteSet(readable)
         /\ Cardinality(readable) \in Nat /\ Cardinality(readable) <= Cardinality(S)
<1> DEFINE f == [i \in S |-> Database[i]]
<1>1. Names(S) = {f[i] : i \in S} /\ Names(S) \subseteq Files
  BY DEF Names, Files
<1>2. IsFiniteSet(Names(S)) /\ Cardinality(Names(S)) <= Cardinality(S)
  <2>1. DOMAIN f = S
    OBVIOUS
  <2> HIDE DEF f
  <2> QED
    BY <1>1, <2>1, ImageSmall
<1>3. IsFiniteSet(readable) /\ Cardinality(readable) <= Cardinality(Names(S))
  BY <1>2, FS_Subset
<1>4. Cardinality(readable) \in Nat /\ Cardinality(Names(S)) \in Nat /\ Cardinality(S) \in Nat
  BY <1>2, <1>3, FS_CardinalityType
<1> QED
  BY <1>1, <1>2, <1>3, <1>4

-----------------------------------------------------------------------------
(* The inductive invariant.                                                *)

\* The pipes: no id is under way twice, the dead owe nothing, and what is
\* gone says nothing.
PipeInv ==
  /\ child \in {"none", "up", "dead"}
  /\ inbox \in Seq(Messages) /\ Len(inbox) <= MaxInbox
  /\ pending \subseteq [id : Ids, about : Topics] /\ IsFiniteSet(pending)
  /\ Once(None, pending, inbox)
  /\ child # "up" => pending = {}

\* What is open in clangd besides the headers is the batch, and a batch is
\* open only from its opening to the next closing.
OpenInv ==
  /\ open \subseteq Seeds \cup batch /\ warm \in BOOLEAN
  /\ batch \subseteq Files /\ IsFiniteSet(batch) /\ Cardinality(batch) <= BatchSize
  /\ pc # "close" => batch = {}

CallInv ==
  /\ pc \in {"idle", "start", "init", "seed", "gate", "send", "recv",
             "plan", "close", "open", "settle"}
  /\ tool \in {"query", "build", "shutdown", None}
  /\ pc \in {"start", "init", "seed", "gate"} \/ probing => tool \in {"query", "build"}
  /\ pc \in {"send", "recv"} /\ ~probing => tool \in {"query", "shutdown"}
  /\ probing \in BOOLEAN /\ late \in BOOLEAN /\ gateOver \in BOOLEAN
  /\ probing => pc \in {"send", "recv"} /\ (late => gateOver)
  /\ pc \in {"seed", "gate"} => ~late
  /\ waiting \in Ids \cup {None} /\ (pc \in {"init", "recv"} => waiting # None)

\* What clangd owes: between two requests of one call at most what an
\* overdue probe left, and the awaited answer only while it is awaited.
OwedInv ==
  /\ pc = "start" => Cardinality(pending) <= MaxAbandoned
  /\ pc \in {"seed", "gate"} \/ (pc = "send" /\ probing) => pending = {}
  /\ pc = "send" => Cardinality(pending) <= MaxAbandoned + 1
  /\ pc = "init" \/ (pc = "recv" /\ probing) => \A r \in pending : r.id = waiting

\* The plan of an index build.
BuildInv ==
  /\ todo \subseteq DOMAIN Database /\ IsFiniteSet(todo)
  /\ tally \in [opened : 0..MaxTus, skipped : 0..MaxTus]
  /\ tally.opened + tally.skipped + Cardinality(todo) <= MaxTus
  /\ pc \notin {"close", "open", "settle"} => todo = {} /\ tally = Nothing

\* The drain: calm is no more than the polls without a new file.
DrainInv ==
  /\ shards \in 0..MaxShards /\ lastCount \in 0..shards
  /\ calm \in 0..Quiescence /\ polls \in 0..DrainCap /\ quiet \in 0..DrainCap + 1
  /\ calm <= polls /\ (pc = "settle" => polls < DrainCap)
  /\ pc = "settle" /\ shards = lastCount => calm <= quiet

AnswerInv ==
  /\ answer \in [kind : Outcomes, capped : BOOLEAN] \cup {None}
  /\ pc # "idle" => answer = None
  /\ OnlyTheDeadAreCharged /\ NoFileAdded

IInv == PipeInv /\ OpenInv /\ CallInv /\ OwedInv /\ BuildInv /\ DrainInv /\ AnswerInv

LEMMA Start == Init => IInv
<1> SUFFICES ASSUME Init PROVE IInv
  OBVIOUS
<1>1. PipeInv
  BY Bounds, OnceNothing, FS_EmptySet DEF Init, PipeInv
<1>2. OpenInv
  <2>1. warm \in BOOLEAN
    BY DEF Init
  <2> QED
    BY <2>1, Bounds, FS_EmptySet DEF Init, OpenInv
<1>3. CallInv
  <2>1. probing \in BOOLEAN /\ late \in BOOLEAN /\ gateOver \in BOOLEAN /\ ~probing
    BY DEF Init
  <2>2. pc = "idle" /\ tool = None /\ waiting = None
    BY DEF Init
  <2> QED
    BY <2>1, <2>2 DEF CallInv
<1>4. OwedInv /\ DrainInv
  BY Bounds DEF Init, OwedInv, DrainInv
<1>5. BuildInv
  BY Bounds, FS_EmptySet DEF Init, BuildInv, Nothing
<1>6. AnswerInv
  BY DEF Init, AnswerInv, OnlyTheDeadAreCharged, NoFileAdded
<1> QED
  BY <1>1, <1>2, <1>3, <1>4, <1>5, <1>6 DEF IInv

-----------------------------------------------------------------------------
(* Parts of steps.                                                         *)

\* next_request_id has an id to give.
LEMMA FreshIdFree ==
  ASSUME PipeInv, Cardinality(pending) <= MaxAbandoned + 1
  PROVE  /\ FreshId \in Ids /\ \A r \in pending : r.id # FreshId
         /\ \A i \in 1..Len(inbox) : inbox[i].id # FreshId
<1>1. \E id \in Ids :
        /\ \A r \in pending : r.id # id
        /\ \A i \in DOMAIN inbox : inbox[i].id # id
  <2> DEFINE n == MaxAbandoned + MaxInbox + 2
  <2>1. IsFiniteSet(pending) /\ inbox \in Seq(Messages)
    BY DEF PipeInv
  <2>2. n \in Nat /\ Cardinality(pending) + Len(inbox) < n
    BY <2>1, Bounds, FS_CardinalityType, LenProperties DEF PipeInv
  <2> HIDE DEF n
  <2>3. \E id \in 1..n : /\ \A r \in pending : r.id # id
                         /\ \A i \in DOMAIN inbox : inbox[i].id # id
    BY <2>1, <2>2, FreshExists
  <2> QED
    BY <2>3 DEF n, Ids
<1>2. /\ FreshId \in Ids /\ \A r \in pending : r.id # FreshId
      /\ \A i \in DOMAIN inbox : inbox[i].id # FreshId
  BY <1>1, Zenon DEF FreshId
<1>3. DOMAIN inbox = 1..Len(inbox)
  BY LenProperties DEF PipeInv
<1> QED
  BY <1>2, <1>3

LEMMA Sent ==
  ASSUME PipeInv, Cardinality(pending) <= MaxAbandoned + 1, NEW about \in Topics, Send(about),
         child' = "up", inbox' = inbox
  PROVE  /\ PipeInv' /\ waiting' \in Ids /\ waiting' # None /\ late' = FALSE
         /\ pending' = pending \cup {[id |-> waiting', about |-> about]}
<1>1. /\ waiting' = FreshId /\ late' = FALSE
      /\ pending' = pending \cup {[id |-> FreshId, about |-> about]}
  BY DEF Send
<1>2. /\ FreshId \in Ids /\ \A r \in pending : r.id # FreshId
      /\ \A i \in 1..Len(inbox) : inbox[i].id # FreshId
  BY FreshIdFree
<1>3. IsFiniteSet(pending')
  BY <1>1, FS_AddElement DEF PipeInv
<1>4. Once(None, pending', inbox)
  BY <1>1, <1>2, OnceSend DEF PipeInv
<1>5. PipeInv'
  BY <1>1, <1>2, <1>3, <1>4 DEF PipeInv
<1> QED
  BY <1>1, <1>2, <1>5, Bounds

\* A frame is read; nothing is owed under its id.
LEMMA Taken ==
  ASSUME PipeInv, inbox # <<>>, Take
  PROVE  /\ PipeInv' /\ UNCHANGED <<child, pending, open, warm>>
         /\ \A p \in pending : Head(inbox).id # p.id
<1>1. Tail(inbox) \in Seq(Messages) /\ Len(Tail(inbox)) = Len(inbox) - 1 /\ Len(inbox) \in Nat \ {0}
  BY HeadTailProperties, EmptySeq DEF PipeInv
<1>2. Once(None, pending, Tail(inbox)) /\ \A p \in pending : Head(inbox).id # p.id
  BY OnceTake DEF PipeInv
<1> QED
  BY <1>1, <1>2, Bounds DEF Take, PipeInv

\* What is in the pipe is thrown away, and whatever is owed with it.
LEMMA Drained ==
  ASSUME PipeInv, inbox' = <<>>, UNCHANGED <<child, pending>>
  PROVE  PipeInv'
<1>1. Once(None, pending, <<>>)
  BY OnceLess DEF PipeInv
<1> QED
  BY <1>1, EmptySeq, Bounds DEF PipeInv

LEMMA Gone ==
  ASSUME NoClangd
  PROVE  PipeInv' /\ child' = "none" /\ pending' = {} /\ open' = {} /\ warm' = FALSE
BY OnceNothing, FS_EmptySet, EmptySeq, Bounds DEF NoClangd, PipeInv

\* The call returns.
LEMMA Returned ==
  ASSUME IInv, NEW kind \in Outcomes, NEW capped \in BOOLEAN, Return(kind, capped),
         PipeInv', pc # "close", open' \in {open, {}}, warm' \in BOOLEAN,
         quiet' \in 0..DrainCap + 1,
         kind \in {"lost", "exited"} => child' # "up",
         kind = "report" /\ ~capped => quiet' >= Quiescence
  PROVE  IInv'
<1>1. OpenInv'
  <2>1. batch' = {} /\ open' \subseteq Seeds
    BY DEF IInv, OpenInv, Return, BuildOver
  <2> QED
    BY <2>1, Bounds, FS_EmptySet DEF OpenInv
<1>2. CallInv'
  <2>1. probing' = FALSE /\ late' = FALSE /\ gateOver' = FALSE
    BY DEF Return, Forget
  <2>2. probing' \in BOOLEAN /\ late' \in BOOLEAN /\ gateOver' \in BOOLEAN /\ ~probing'
    BY <2>1
  <2>3. pc' = "idle" /\ tool' = None /\ waiting' = None
    BY DEF Return, Forget
  <2> QED
    BY <2>2, <2>3 DEF CallInv
<1>3. OwedInv' /\ DrainInv'
  BY Bounds DEF Return, BuildOver, Forget, OwedInv, DrainInv
<1>4. BuildInv'
  BY Bounds, FS_EmptySet DEF Return, BuildOver, BuildInv, Nothing
<1>5. AnswerInv'
  <2>1. answer' = [kind |-> kind, capped |-> capped] /\ pc' = "idle"
    BY DEF Return
  <2>2. answer'.kind = kind /\ answer'.capped = capped
    BY <2>1
  <2>3. answer' \in [kind : Outcomes, capped : BOOLEAN]
    BY <2>1
  <2>4. OnlyTheDeadAreCharged'
    BY <2>2 DEF OnlyTheDeadAreCharged
  <2>5. NoFileAdded'
    BY <2>2 DEF NoFileAdded
  <2> QED
    BY <2>1, <2>3, <2>4, <2>5 DEF AnswerInv
<1> QED
  BY <1>1, <1>2, <1>3, <1>4, <1>5 DEF IInv

\* An error charges clangd only when it is gone.
LEMMA Failed ==
  ASSUME IInv, NEW kind \in Outcomes \ {"report"}, Error(kind),
         PipeInv', pc # "close", UNCHANGED <<open, warm, quiet>>,
         kind \in {"lost", "exited"} => child' # "up"
  PROVE  IInv'
<1>1. FALSE \in BOOLEAN /\ warm' \in BOOLEAN /\ quiet' \in 0..DrainCap + 1
  BY DEF IInv, OpenInv, DrainInv
<1> QED
  BY <1>1, Returned DEF Error

\* shutdown returns and clangd is gone.
LEMMA Closes ==
  ASSUME IInv, Close, quiet' = quiet, pc # "close"
  PROVE  IInv'
<1>1. PipeInv' /\ open' = {} /\ warm' \in BOOLEAN
  BY Gone DEF Close
<1>2. FALSE \in BOOLEAN /\ "ok" \in Outcomes /\ quiet' \in 0..DrainCap + 1
  BY DEF IInv, DrainInv, Outcomes
<1> QED
  BY <1>1, <1>2, Returned DEF Error, Close

\* The call goes on outside the index build.
LEMMA Goes ==
  ASSUME IInv, {pc, pc'} \cap {"close", "open", "settle"} = {}, UNCHANGED <<feeding, draining>>,
         quiet' \in {0, quiet}, answer' = None, open' \subseteq Seeds \cup open, warm' \in BOOLEAN,
         PipeInv', CallInv', OwedInv'
  PROVE  IInv'
<1>1. OpenInv'
  BY DEF IInv, OpenInv, feeding
<1>2. UNCHANGED <<todo, batch, tally>> /\ UNCHANGED <<shards, lastCount, calm, polls>>
  BY DEF feeding, draining
<1>4. BuildInv'
  BY <1>2 DEF IInv, BuildInv
<1>5. DrainInv'
  <2>1. pc' # "settle"
    OBVIOUS
  <2> QED
    BY <1>2, <2>1, Bounds DEF IInv, DrainInv
<1>3. AnswerInv'
  BY DEF AnswerInv, OnlyTheDeadAreCharged, NoFileAdded
<1> QED
  BY <1>1, <1>3, <1>4, <1>5 DEF IInv

\* A question under way leaves at most its own request.
LEMMA OneOwed ==
  ASSUME PipeInv, \A r \in pending : r.id = waiting
  PROVE  Cardinality(pending) <= 1
<1>1. pending = {} \/ \E r \in pending : pending = {r}
  <2>1. \A r, q \in pending : r = q
    BY DEF PipeInv, Once
  <2> QED
    BY <2>1
<1>2. CASE pending = {}
  BY <1>2, FS_EmptySet
<1>3. ASSUME NEW r, pending = {r} PROVE Cardinality(pending) <= 1
  <2>1. Cardinality({r}) = 1
    BY FS_Singleton
  <2> QED
    BY <1>3, <2>1
<1> QED
  BY <1>1, <1>2, <1>3

\* The awaited answer has been read: nothing more is owed to the call.
LEMMA OwnTaken ==
  ASSUME IInv, pc = "init" \/ (pc = "recv" /\ probing), Own, Take
  PROVE  PipeInv' /\ pending' = {} /\ UNCHANGED <<child, open, warm>>
BY Taken DEF IInv, OwedInv, Own

\* The gate lets the call go on.
LEMMA Passes ==
  ASSUME IInv, pc \in {"gate", "start"} \/ (pc \in {"send", "recv"} /\ probing),
         GoTo(Ready), UNCHANGED <<feeding, draining, quiet>>,
         probing' = FALSE, late' \in BOOLEAN, gateOver' \in BOOLEAN, waiting' \in Ids \cup {None},
         PipeInv', open' = open, warm' = warm, Cardinality(pending') <= MaxAbandoned + 1
  PROVE  IInv'
<1>1. /\ tool \in {"query", "build"} /\ tool' = tool /\ answer' = None
      /\ pc' = IF tool = "build" THEN "plan" ELSE "send"
  BY DEF IInv, CallInv, AnswerInv, GoTo, Ready
<1>2. CallInv'
  BY <1>1 DEF CallInv
<1>3. OwedInv'
  BY <1>1 DEF OwedInv
<1>4. {pc, pc'} \cap {"close", "open", "settle"} = {} /\ warm' \in BOOLEAN
  BY <1>1 DEF IInv, OpenInv
<1> QED
  BY <1>1, <1>2, <1>3, <1>4, Goes

\* A probe without success: another one is sent only when nothing is owed.
LEMMA Probes ==
  ASSUME IInv, pc \in {"send", "recv"}, probing, ProbeAgain, quiet' = quiet,
         PipeInv', pending' \in {pending, {}}, open' = open, warm' = warm,
         pending' = {} \/ (pc = "recv" /\ gateOver)
  PROVE  IInv'
<1>1. Cardinality(pending') <= 1
  <2>1. CASE pending' = {}
    BY <2>1, FS_EmptySet
  <2>2. CASE pending' # {}
    BY <2>2, OneOwed DEF IInv, OwedInv
  <2> QED
    BY <2>1, <2>2
<1>2. CASE gateOver /\ GoTo(Ready) /\ Forget
  <2>1. probing' = FALSE /\ late' = FALSE /\ gateOver' = FALSE /\ waiting' = None
    BY <1>2 DEF Forget
  <2>2. late' \in BOOLEAN /\ gateOver' \in BOOLEAN /\ UNCHANGED <<feeding, draining, quiet>>
    BY <2>1 DEF ProbeAgain
  <2>3. Cardinality(pending') <= MaxAbandoned + 1
    <3>1. Cardinality(pending') \in Nat
      BY FS_CardinalityType DEF PipeInv
    <3> QED
      BY <1>1, <3>1, Bounds
  <2> QED
    BY <1>2, <2>1, <2>2, <2>3, Passes
<1>3. CASE ~gateOver /\ GoTo("send") /\ UNCHANGED request
  <2>1. pending' = {} /\ pc' = "send" /\ UNCHANGED <<tool, answer, probing, waiting, late, gateOver>>
    BY <1>3 DEF GoTo, request
  <2>2. Cardinality(pending') <= MaxAbandoned + 1
    BY <2>1, FS_EmptySet, Bounds
  <2>3. OwedInv'
    BY <2>1, <2>2 DEF OwedInv
  <2>4. CallInv'
    BY <2>1 DEF IInv, CallInv
  <2>5. warm' \in BOOLEAN /\ answer' = None /\ UNCHANGED <<feeding, draining>>
        /\ {pc, pc'} \cap {"close", "open", "settle"} = {}
    BY <2>1 DEF IInv, OpenInv, AnswerInv, ProbeAgain
  <2> QED
    BY <2>3, <2>4, <2>5, Goes
<1> QED
  BY <1>2, <1>3 DEF ProbeAgain

-----------------------------------------------------------------------------
(* The steps.                                                              *)

LEMMA CallStep ==
  ASSUME IInv, Query \/ Build \/ Shutdown
  PROVE  IInv'
<1>0. ~probing /\ pc = "idle"
  BY DEF IInv, CallInv, Query, Build, Shutdown, Call
<1>1. ASSUME NEW t \in {"query", "build"}, Call(t) PROVE IInv'
  <2>1. /\ pc' = "start" /\ tool' = t /\ answer' = None /\ quiet' = 0
        /\ UNCHANGED <<probing, waiting, late, gateOver, feeding, draining>>
        /\ Cardinality(pending) <= MaxAbandoned
    BY <1>1 DEF Call, request
  <2>2. PipeInv' /\ Cardinality(pending') <= MaxAbandoned /\ open' \in {open, {}} /\ warm' \in BOOLEAN
    <3>1. CASE NoClangd
      BY <3>1, Gone, FS_EmptySet, Bounds
    <3>2. CASE UNCHANGED clangd
      BY <2>1, <3>2 DEF clangd, IInv, PipeInv, OpenInv
    <3> QED
      BY <1>1, <3>1, <3>2 DEF Call
  <2>3. CallInv'
    BY <1>0, <2>1 DEF IInv, CallInv
  <2>4. OwedInv'
    BY <1>0, <2>1, <2>2 DEF OwedInv
  <2> QED
    BY <1>0, <2>1, <2>2, <2>3, <2>4, Goes
<1>2. CASE Shutdown
  <2>1. /\ pc' = "send" /\ tool' = "shutdown" /\ answer' = None /\ quiet' = 0
        /\ UNCHANGED <<probing, waiting, late, gateOver, feeding, draining, child, inbox, pending, open, warm>>
        /\ Cardinality(pending) <= MaxAbandoned
    BY <1>2 DEF Shutdown, request, clangd
  <2>2. PipeInv' /\ open' = open /\ warm' \in BOOLEAN
    BY <2>1 DEF IInv, PipeInv, OpenInv
  <2>3. CallInv'
    BY <1>0, <2>1 DEF IInv, CallInv
  <2>4. OwedInv'
    <3>1. Cardinality(pending) \in Nat
      BY FS_CardinalityType DEF IInv, PipeInv
    <3> QED
      BY <1>0, <2>1, <3>1, Bounds DEF OwedInv
  <2> QED
    BY <1>0, <2>1, <2>2, <2>3, <2>4, Goes
<1> QED
  BY <1>1, <1>2 DEF Query, Build

\* The ends of a call in which nothing is read.
LEMMA RefuseStep ==
  ASSUME IInv, Rejected \/ ReadOnly \/ SpawnRefused \/ InitBroken \/ PlanFails \/ OpenBroken
  PROVE  IInv'
<1>1. PICK kind \in {"refused", "lost"} :
        Error(kind) /\ UNCHANGED <<clangd, quiet>> /\ (kind = "lost" => child = "dead")
  BY DEF Rejected, ReadOnly, SpawnRefused, InitBroken, PlanFails, OpenBroken, AtEof
<1>2. UNCHANGED <<child, inbox, pending>> /\ UNCHANGED <<open, warm, quiet>>
  BY <1>1 DEF clangd
<1>4. PipeInv' /\ (kind \in {"lost", "exited"} => child' # "up")
  BY <1>1, <1>2 DEF IInv, PipeInv
<1>3. pc # "close"
  BY DEF Rejected, ReadOnly, SpawnRefused, InitBroken, PlanFails, OpenBroken
<1> QED
  BY <1>1, <1>2, <1>3, <1>4, Failed DEF Outcomes

\* A call that waits for an answer ends without one.
LEMMA BrokenStep ==
  ASSUME IInv, SendBroken \/ Broken
  PROVE  IInv'
<1>0. pc \in {"send", "recv"} /\ child = "dead" /\ quiet' = quiet
  BY DEF SendBroken, Broken, AtEof
<1>1. CASE UNCHANGED clangd /\ GiveUp("lost")
  <2>1. PipeInv' /\ pending' = {} /\ UNCHANGED <<open, warm, quiet, child>>
    BY <1>0, <1>1 DEF clangd, IInv, PipeInv
  <2>2. CASE probing /\ ProbeAgain
    <3>1. pending' = {} \/ (pc = "recv" /\ gateOver)
      BY <2>1
    <3>4. pending' \in {pending, {}}
      BY <2>1
    <3>2. open' = open /\ warm' = warm /\ quiet' = quiet /\ PipeInv'
      BY <2>1
    <3>3. probing /\ ProbeAgain /\ pc \in {"send", "recv"}
      BY <1>0, <2>2
    <3> QED
      BY <3>1, <3>2, <3>3, <3>4, Probes
  <2>3. CASE Error("lost")
    BY <1>0, <2>1, <2>3, Failed DEF Outcomes
  <2> QED
    BY <1>1, <2>2, <2>3 DEF GiveUp
<1>2. CASE Close
  BY <1>0, <1>2, Closes
<1> QED
  BY <1>1, <1>2 DEF SendBroken, Broken

LEMMA TimeoutStep ==
  ASSUME IInv, InitTimeout \/ Timeout \/ ShutdownEnds
  PROVE  IInv'
<1>0. pc \in {"init", "recv"} /\ quiet' = quiet
  BY DEF InitTimeout, Timeout, ShutdownEnds
<1>1. CASE InitTimeout \/ Timeout
  <2>1. PipeInv' /\ UNCHANGED <<child, pending, open, warm>>
    BY <1>1, Taken DEF InitTimeout, Timeout, Unrelated, IInv
  <2>2. CASE probing /\ ProbeAgain /\ pc = "recv" /\ late
    <3>1. gateOver
      BY <2>2 DEF IInv, CallInv
    <3> QED
      BY <1>0, <2>1, <2>2, <3>1, Probes
  <2>3. ASSUME NEW kind \in {"initTimeout", "busy", "exited"}, Error(kind),
               kind = "exited" => child # "up"
        PROVE  IInv'
    BY <1>0, <2>1, <2>3, Failed DEF Outcomes
  <2> QED
    BY <1>1, <2>2, <2>3 DEF InitTimeout, Timeout, GiveUp, TimeoutKind
<1>2. CASE ShutdownEnds
  BY <1>0, <1>2, Closes DEF ShutdownEnds
<1> QED
  BY <1>1, <1>2

LEMMA ReadStep ==
  ASSUME IInv, InitSkip \/ Skip \/ InitError \/ QueryAnswered
  PROVE  IInv'
<1>0. pc \in {"init", "recv"} /\ quiet' = quiet /\ inbox # <<>> /\ Take
  BY DEF InitSkip, Skip, InitError, QueryAnswered, Unrelated, Own
<1>1. PipeInv' /\ UNCHANGED <<child, pending, open, warm>>
  BY <1>0, Taken DEF IInv
<1>2. CASE InitSkip \/ Skip
  <2>1. UNCHANGED <<pc, tool, probing, waiting, late, gateOver, feeding, draining, answer>>
    BY <1>2 DEF InitSkip, Skip, request
  <2>2. CallInv' /\ OwedInv'
    BY <1>1, <2>1 DEF IInv, CallInv, OwedInv
  <2>3. answer' = None /\ warm' \in BOOLEAN
    BY <1>0, <1>1, <2>1 DEF IInv, AnswerInv, OpenInv
  <2> QED
    BY <1>0, <1>1, <2>1, <2>2, <2>3, Goes
<1>3. CASE InitError \/ QueryAnswered
  <2>1. \E kind \in {"ok", "error"} : Error(kind)
    BY <1>3 DEF InitError, QueryAnswered
  <2> QED
    BY <1>0, <1>1, <2>1, Failed DEF Outcomes
<1> QED
  BY <1>2, <1>3 DEF InitSkip, Skip, InitError, QueryAnswered

LEMMA InitDoneStep ==
  ASSUME IInv, InitDone
  PROVE  IInv'
<1>0. pc = "init" /\ quiet' = quiet /\ Own /\ Take
  BY DEF InitDone
<1>1. PipeInv' /\ pending' = {} /\ UNCHANGED <<child, open, warm>>
  BY <1>0, OwnTaken
<1>2. CASE GoTo("seed") /\ Forget /\ UNCHANGED <<feeding, draining>>
  <2>1. /\ pc' = "seed" /\ tool' = tool /\ answer' = answer
        /\ probing' = FALSE /\ late' = FALSE /\ gateOver' = FALSE /\ waiting' = None
    BY <1>2 DEF GoTo, Forget
  <2>2. probing' \in BOOLEAN /\ late' \in BOOLEAN /\ gateOver' \in BOOLEAN /\ ~probing'
    BY <2>1
  <2>3. CallInv'
    BY <1>0, <2>1, <2>2 DEF IInv, CallInv
  <2>4. OwedInv'
    BY <1>1, <2>1 DEF OwedInv
  <2>5. answer' = None /\ warm' \in BOOLEAN
    BY <1>0, <1>1, <2>1 DEF IInv, AnswerInv, OpenInv
  <2> QED
    BY <1>0, <1>1, <1>2, <2>1, <2>3, <2>4, <2>5, Goes
<1>3. CASE child = "dead" /\ Error("lost")
  BY <1>0, <1>1, <1>3, Failed DEF Outcomes
<1> QED
  BY <1>2, <1>3 DEF InitDone

LEMMA GateStep ==
  ASSUME IInv, AlreadySpawned \/ GateSkipped \/ GateProbe \/ Seed
  PROVE  IInv'
<1>0. pc \in {"start", "seed", "gate"} /\ ~probing /\ answer = None
  BY DEF AlreadySpawned, GateSkipped, GateProbe, Seed, IInv, CallInv, AnswerInv
<1>1. CASE AlreadySpawned \/ GateSkipped
  <2>1. GoTo(Ready) /\ UNCHANGED <<feeding, draining, quiet>>
        /\ UNCHANGED <<probing, waiting, late, gateOver, child, inbox, pending, open, warm>>
    BY <1>1 DEF AlreadySpawned, GateSkipped, request, clangd
  <2>2. PipeInv' /\ waiting' \in Ids \cup {None}
    BY <2>1 DEF IInv, PipeInv, CallInv
  <2>3. probing' = FALSE /\ late' \in BOOLEAN /\ gateOver' \in BOOLEAN
    BY <1>0, <2>1 DEF IInv, CallInv
  <2>4. Cardinality(pending') <= MaxAbandoned + 1
    <3>1. Cardinality(pending) \in Nat
      BY FS_CardinalityType DEF IInv, PipeInv
    <3>2. pc = "gate" => Cardinality(pending) = 0
      BY FS_EmptySet DEF IInv, OwedInv
    <3>3. pc = "start" => Cardinality(pending) <= MaxAbandoned
      BY DEF IInv, OwedInv
    <3> QED
      BY <1>1, <2>1, <3>1, <3>2, <3>3, Bounds DEF AlreadySpawned, GateSkipped
  <2>5. pc \in {"gate", "start"}
    BY <1>1 DEF AlreadySpawned, GateSkipped
  <2> QED
    <3>1. open' = open /\ warm' = warm /\ GoTo(Ready) /\ UNCHANGED <<feeding, draining, quiet>>
      BY <2>1
    <3>2. pc \in {"gate", "start"} \/ (pc \in {"send", "recv"} /\ probing)
      BY <2>5
    <3> QED
      BY <2>2, <2>3, <2>4, <3>1, <3>2, Passes
<1>2. CASE GateProbe
  <2>1. /\ pc = "gate" /\ pc' = "send" /\ probing' = TRUE /\ UNCHANGED <<tool, answer, feeding, draining, quiet>>
        /\ UNCHANGED <<waiting, late, gateOver, child, inbox, pending, open, warm>>
    BY <1>2 DEF GateProbe, GoTo, clangd
  <2>2. PipeInv' /\ pending' = {} /\ warm' \in BOOLEAN
    BY <2>1 DEF IInv, PipeInv, OpenInv, OwedInv
  <2>3. OwedInv'
    BY <2>1, <2>2, FS_EmptySet, Bounds DEF OwedInv
  <2>4. CallInv'
    BY <2>1 DEF IInv, CallInv
  <2> QED
    BY <1>0, <2>1, <2>2, <2>3, <2>4, Goes
<1>3. CASE Seed
  <2>1. /\ pc = "seed" /\ pc' = "gate" /\ UNCHANGED <<tool, answer, feeding, draining, quiet>>
        /\ UNCHANGED <<probing, waiting, late, gateOver, child, inbox, pending, warm>>
        /\ open' \subseteq Seeds
    BY <1>3 DEF Seed, GoTo, request
  <2>2. PipeInv' /\ pending' = {} /\ warm' \in BOOLEAN
    BY <2>1 DEF IInv, PipeInv, OpenInv, OwedInv
  <2>3. OwedInv'
    BY <2>1, <2>2 DEF OwedInv
  <2>4. CallInv'
    BY <1>0, <2>1 DEF IInv, CallInv
  <2> QED
    BY <1>0, <2>1, <2>2, <2>3, <2>4, Goes
<1> QED
  BY <1>1, <1>2, <1>3

LEMMA ProbeStep ==
  ASSUME IInv, ProbeAnswered
  PROVE  IInv'
<1>0. pc = "recv" /\ probing /\ quiet' = quiet /\ Own /\ Take
  BY DEF ProbeAnswered
<1>1. PipeInv' /\ pending' = {} /\ UNCHANGED <<child, open, warm>>
  BY <1>0, OwnTaken
<1>2. open' = open /\ warm' = warm /\ Cardinality(pending') <= MaxAbandoned + 1
  BY <1>1, FS_EmptySet, Bounds
<1>3. CASE GoTo(Ready) /\ Forget /\ UNCHANGED <<feeding, draining>>
  <2>1. probing' = FALSE /\ late' = FALSE /\ gateOver' = FALSE /\ waiting' = None
    BY <1>3 DEF Forget
  <2>2. late' \in BOOLEAN /\ gateOver' \in BOOLEAN
    BY <2>1
  <2>3. UNCHANGED <<feeding, draining, quiet>>
    BY <1>0, <1>3
  <2>4. pc \in {"gate", "start"} \/ (pc \in {"send", "recv"} /\ probing)
    BY <1>0
  <2> QED
    BY <1>1, <1>2, <1>3, <2>1, <2>2, <2>3, <2>4, Passes
<1>4. CASE ProbeAgain
  <2>1. pending' \in {pending, {}}
    BY <1>1
  <2> QED
    BY <1>0, <1>1, <1>2, <1>4, <2>1, Probes
<1> QED
  BY <1>3, <1>4 DEF ProbeAnswered

LEMMA SendStep ==
  ASSUME IInv, Spawn \/ SendRequest
  PROVE  IInv'
<1>0. PipeInv /\ CallInv /\ OwedInv /\ OpenInv /\ answer = None
  BY DEF IInv, AnswerInv, Spawn, SendRequest
<1>1. CASE Spawn
  <2>1. /\ pc = "start" /\ pc' = "init" /\ child = "none" /\ child' = "up" /\ Send("initialize")
        /\ UNCHANGED <<tool, answer>> /\ UNCHANGED <<probing, gateOver, inbox, open, warm>>
        /\ UNCHANGED <<feeding, draining, quiet>>
    BY <1>1 DEF Spawn, GoTo
  <2>2. pending = {} /\ Cardinality(pending) <= MaxAbandoned + 1
    BY <1>0, <2>1, FS_EmptySet, Bounds DEF PipeInv
  <2>3. /\ PipeInv' /\ waiting' \in Ids /\ waiting' # None /\ late' = FALSE
        /\ pending' = {[id |-> waiting', about |-> "initialize"]}
    BY <1>0, <2>1, <2>2, Sent DEF Topics
  <2>4. CallInv'
    <3>1. late' \in BOOLEAN /\ ~late' /\ ~probing /\ probing' = probing /\ gateOver' = gateOver
      BY <1>0, <2>1, <2>3 DEF CallInv
    <3> QED
      BY <1>0, <2>1, <2>3, <3>1 DEF CallInv
  <2>5. OwedInv'
    BY <2>1, <2>3 DEF OwedInv
  <2>6. answer' = None /\ warm' \in BOOLEAN /\ open' \subseteq Seeds \cup open /\ quiet' = quiet
        /\ UNCHANGED <<feeding, draining>>
    BY <1>0, <2>1 DEF OpenInv
  <2>7. {pc, pc'} \cap {"close", "open", "settle"} = {}
    BY <2>1
  <2> QED
    BY <2>3, <2>4, <2>5, <2>6, <2>7, Goes
<1>2. CASE SendRequest
  <2>1. /\ pc = "send" /\ pc' = "recv" /\ child = "up" /\ child' = child /\ Send(About)
        /\ UNCHANGED <<tool, answer>> /\ UNCHANGED <<probing, gateOver, inbox, open, warm>>
        /\ UNCHANGED <<feeding, draining, quiet>>
    BY <1>2 DEF SendRequest, GoTo
  <2>2. Cardinality(pending) <= MaxAbandoned + 1 /\ (probing => pending = {})
    BY <1>0, <2>1 DEF OwedInv
  <2>3. About \in Topics
    BY <1>0, <2>1 DEF About, CallInv, Topics
  <2>4. /\ PipeInv' /\ waiting' \in Ids /\ waiting' # None /\ late' = FALSE
        /\ pending' = pending \cup {[id |-> waiting', about |-> About]}
    BY <1>0, <2>1, <2>2, <2>3, Sent
  <2>5. CallInv'
    <3>1. late' \in BOOLEAN /\ ~late' /\ probing' = probing /\ gateOver' = gateOver
      BY <2>1, <2>4
    <3> QED
      BY <1>0, <2>1, <2>4, <3>1 DEF CallInv
  <2>6. OwedInv'
    <3>1. probing' => \A r \in pending' : r.id = waiting'
      BY <2>1, <2>2, <2>4
    <3> QED
      BY <2>1, <3>1 DEF OwedInv
  <2>7. answer' = None /\ warm' \in BOOLEAN /\ open' \subseteq Seeds \cup open /\ quiet' = quiet
        /\ UNCHANGED <<feeding, draining>>
    BY <1>0, <2>1 DEF OpenInv
  <2>8. {pc, pc'} \cap {"close", "open", "settle"} = {}
    BY <2>1
  <2> QED
    BY <2>4, <2>5, <2>6, <2>7, <2>8, Goes
<1> QED
  BY <1>1, <1>2

\* A step of the index build leaves the call and what it is owed alone.
LEMMA Builds ==
  ASSUME IInv, {pc, pc'} \subseteq {"plan", "close", "open", "settle"},
         UNCHANGED <<tool, answer>>, UNCHANGED request, UNCHANGED <<child, pending>>,
         inbox' \in {inbox, <<>>}
  PROVE  PipeInv' /\ CallInv' /\ OwedInv' /\ AnswerInv'
<1>1. PipeInv'
  BY Drained DEF IInv, PipeInv
<1>2. UNCHANGED <<probing, waiting, late, gateOver>>
  BY DEF request
<1>3. CallInv' /\ OwedInv'
  BY <1>2 DEF IInv, CallInv, OwedInv
<1>4. answer' = None
  BY DEF IInv, AnswerInv
<1>5. AnswerInv'
  BY <1>4 DEF AnswerInv, OnlyTheDeadAreCharged, NoFileAdded
<1> QED
  BY <1>1, <1>3, <1>5

LEMMA PlanStep ==
  ASSUME IInv, Plan \/ CloseBatch
  PROVE  IInv'
<1>1. CASE Plan
  <2>1. /\ pc = "plan" /\ pc' = "close" /\ todo' = AtMost(MaxTus, Unique)
        /\ UNCHANGED <<tool, answer>> /\ UNCHANGED request /\ UNCHANGED <<child, inbox, pending, open, warm>>
        /\ UNCHANGED <<batch, tally>> /\ UNCHANGED draining /\ quiet' = quiet
    BY <1>1 DEF Plan, GoTo, clangd
  <2>2. PipeInv' /\ CallInv' /\ OwedInv' /\ AnswerInv'
    BY <2>1, Builds
  <2>3. OpenInv'
    BY <2>1 DEF IInv, OpenInv
  <2>4. BuildInv'
    <3>1. Unique \subseteq DOMAIN Database
      BY DEF Unique
    <3>2. Unique \subseteq Nat /\ IsFiniteSet(Unique)
      BY <3>1, DatabaseFinite, FS_Subset
    <3>3. /\ todo' \subseteq Unique /\ IsFiniteSet(todo')
          /\ Cardinality(todo') \in Nat /\ Cardinality(todo') <= MaxTus
      BY <2>1, <3>2, Bounds, AtMostMeans
    <3>4. tally' = Nothing
      BY <2>1 DEF IInv, BuildInv
    <3> QED
      BY <2>1, <3>1, <3>3, <3>4, Bounds DEF BuildInv, Nothing
  <2>5. DrainInv'
    BY <2>1 DEF IInv, DrainInv, draining
  <2> QED
    BY <2>2, <2>3, <2>4, <2>5 DEF IInv
<1>2. CASE CloseBatch
  <2>1. /\ pc = "close" /\ pc' \in {"open", "settle"} /\ open' = Closed /\ batch' = {}
        /\ UNCHANGED <<tool, answer>> /\ UNCHANGED request /\ UNCHANGED <<child, inbox, pending>>
        /\ UNCHANGED <<warm, todo, tally>>
    BY <1>2 DEF CloseBatch, GoTo
  <2>2. PipeInv' /\ CallInv' /\ OwedInv' /\ AnswerInv'
    BY <2>1, Builds
  <2>3. OpenInv'
    BY <2>1, FS_EmptySet, Bounds DEF IInv, OpenInv, Closed
  <2>4. BuildInv'
    BY <2>1 DEF IInv, BuildInv
  <2>5. DrainInv'
    BY <1>2, <2>1, Bounds DEF IInv, DrainInv, draining, CloseBatch, GoTo
  <2> QED
    BY <2>2, <2>3, <2>4, <2>5 DEF IInv
<1> QED
  BY <1>1, <1>2

LEMMA OpenStep ==
  ASSUME IInv, OpenBatch \/ OpenNothing
  PROVE  IInv'
<1>1. /\ pc = "open" /\ pc' = "close" /\ todo' = todo \ Chunk /\ inbox' = <<>>
      /\ UNCHANGED <<tool, answer>> /\ UNCHANGED request /\ UNCHANGED <<child, pending>>
      /\ warm' = warm /\ UNCHANGED draining /\ quiet' = quiet
  BY DEF OpenBatch, OpenNothing, GoTo, DrainStdout
<1>2. PipeInv' /\ CallInv' /\ OwedInv' /\ AnswerInv'
  BY <1>1, Builds
<1>3. /\ Chunk \subseteq todo /\ IsFiniteSet(Chunk)
      /\ Cardinality(Chunk) \in Nat /\ Cardinality(Chunk) <= BatchSize
      /\ IsFiniteSet(todo') /\ Cardinality(todo') = Cardinality(todo) - Cardinality(Chunk)
      /\ todo \subseteq DOMAIN Database /\ Cardinality(todo) \in Nat
  <2>1. todo \subseteq DOMAIN Database /\ IsFiniteSet(todo) /\ todo \subseteq Nat
    BY DatabaseFinite DEF IInv, BuildInv
  <2> QED
    BY <1>1, <2>1, Bounds, AtMostMeans, FS_CardinalityType DEF Chunk
<1>4. /\ tally \in [opened : 0..MaxTus, skipped : 0..MaxTus]
      /\ tally.opened + tally.skipped + Cardinality(todo) <= MaxTus /\ batch = {}
      /\ open \subseteq Seeds \cup batch /\ warm \in BOOLEAN
  BY <1>1 DEF IInv, BuildInv, OpenInv
<1>5. OpenInv' /\ tally' \in [opened : Nat, skipped : Nat]
      /\ tally'.opened + tally'.skipped = tally.opened + tally.skipped + Cardinality(Chunk)
  <2>1. CASE OpenBatch
    <3>1. PICK readable \in SUBSET Names(Chunk) :
            /\ open' = open \cup readable /\ batch' = readable
            /\ tally' = [opened |-> tally.opened + Cardinality(readable),
                         skipped |-> tally.skipped + Cardinality(Chunk) - Cardinality(readable)]
      BY <2>1 DEF OpenBatch
    <3>2. /\ readable \subseteq Files /\ IsFiniteSet(readable)
          /\ Cardinality(readable) \in Nat /\ Cardinality(readable) <= Cardinality(Chunk)
      BY <1>3, ReadableSmall
    <3>3. OpenInv'
      BY <1>1, <1>3, <1>4, <3>1, <3>2, Bounds DEF OpenInv
    <3>4. tally.opened \in Nat /\ tally.skipped \in Nat
      BY <1>4, Bounds
    <3> QED
      BY <1>3, <3>1, <3>2, <3>3, <3>4
  <2>2. CASE OpenNothing
    <3>1. /\ open' = open /\ batch' = batch /\ tally.opened \in Nat /\ tally.skipped \in Nat
          /\ tally' = [opened |-> tally.opened, skipped |-> tally.skipped + Cardinality(Chunk)]
      BY <1>4, <2>2, Bounds DEF OpenNothing
    <3>2. OpenInv'
      BY <1>1, <1>4, <3>1 DEF IInv, OpenInv
    <3> QED
      BY <1>3, <3>1, <3>2
  <2> QED
    BY <2>1, <2>2
<1>6. BuildInv'
  <2>1. tally.opened \in Nat /\ tally.skipped \in Nat /\ tally'.opened \in Nat /\ tally'.skipped \in Nat
    BY <1>4, <1>5, Bounds
  <2>2. Cardinality(todo') \in Nat
    BY <1>3, FS_CardinalityType
  <2>3. tally'.opened + tally'.skipped + Cardinality(todo') <= MaxTus
    BY <1>3, <1>4, <1>5, <2>1, <2>2, Bounds
  <2>4. tally'.opened \in 0..MaxTus /\ tally'.skipped \in 0..MaxTus
    BY <2>1, <2>2, <2>3, Bounds
  <2>5. tally' \in [opened : 0..MaxTus, skipped : 0..MaxTus]
    BY <1>5, <2>4
  <2>6. todo' \subseteq DOMAIN Database
    BY <1>1, <1>3
  <2> QED
    BY <1>1, <1>3, <2>3, <2>5, <2>6 DEF BuildInv
<1>7. DrainInv'
  BY <1>1 DEF IInv, DrainInv, draining
<1> QED
  BY <1>2, <1>5, <1>6, <1>7 DEF IInv

\* No file has been added for as many polls as there was calm.
LEMMA SettleStep ==
  ASSUME IInv, SettlePoll
  PROVE  IInv'
<1>1. /\ pc = "settle" /\ inbox' = <<>> /\ quiet' = Older(quiet)
      /\ UNCHANGED <<child, pending, open, warm>>
  BY DEF SettlePoll, DrainStdout
<1>2. /\ shards \in 0..MaxShards /\ lastCount \in 0..shards /\ calm \in 0..Quiescence
      /\ polls \in 0..DrainCap /\ quiet \in 0..DrainCap + 1 /\ calm <= polls /\ polls < DrainCap
      /\ shards = lastCount => calm <= quiet
  BY <1>1 DEF IInv, DrainInv
<1>3. /\ CalmNow \in Nat /\ CalmNow <= polls + 1 /\ quiet' \in 0..DrainCap + 1
      /\ CalmNow <= quiet'
  BY <1>1, <1>2, Bounds DEF CalmNow, Older
<1>4. PipeInv'
  BY <1>1, Drained DEF IInv
<1>5. ASSUME NEW capped \in BOOLEAN, Report(capped), ~capped => CalmNow >= Quiescence PROVE IInv'
  <2>1. warm' \in BOOLEAN /\ open' = open /\ "report" \in Outcomes
    BY <1>1 DEF IInv, OpenInv, Outcomes
  <2>2. ~capped => quiet' >= Quiescence
    BY <1>2, <1>3, <1>5, Bounds
  <2>3. Return("report", capped)
    BY <1>5 DEF Report
  <2> QED
    BY <1>1, <1>3, <1>4, <2>1, <2>2, <2>3, Returned
<1>6. CASE /\ CalmNow < Quiescence /\ polls + 1 < DrainCap
           /\ calm' = CalmNow /\ lastCount' = shards /\ polls' = polls + 1
           /\ UNCHANGED <<pc, tool, request, feeding, shards, answer>>
  <2>1. /\ UNCHANGED <<tool, answer>> /\ UNCHANGED request /\ UNCHANGED <<child, pending>>
        /\ UNCHANGED <<todo, batch, tally>> /\ pc' = "settle" /\ shards' = shards
    BY <1>1, <1>6 DEF feeding
  <2>2. PipeInv' /\ CallInv' /\ OwedInv' /\ AnswerInv'
    BY <1>1, <2>1, Builds
  <2>3. OpenInv' /\ BuildInv'
    BY <1>1, <2>1 DEF IInv, OpenInv, BuildInv
  <2>4. DrainInv'
    BY <1>2, <1>3, <1>6, <2>1, Bounds DEF DrainInv
  <2> QED
    BY <2>2, <2>3, <2>4 DEF IInv
<1>7. CASE CalmNow >= Quiescence /\ Report(FALSE)
  BY <1>5, <1>7
<1>8. CASE Report(TRUE)
  BY <1>5, <1>8
<1> QED
  BY <1>6, <1>7, <1>8 DEF SettlePoll

\* Clocks and clangd touch neither the plan nor the answer of the call.
LEMMA Outside ==
  ASSUME IInv, UNCHANGED <<pc, tool, probing, waiting>>, UNCHANGED <<feeding, answer>>,
         UNCHANGED <<quiet, draining>> \/ (pc = "settle" /\ DrainInv'),
         late' \in BOOLEAN, gateOver' \in BOOLEAN,
         pc \in {"seed", "gate"} => late' = late,
         probing /\ late' => gateOver',
         child' # child => child' = "dead", pending' \subseteq pending,
         open' \subseteq open, warm' \in BOOLEAN, PipeInv'
  PROVE  IInv'
<1>1. UNCHANGED <<todo, batch, tally>> /\ answer' = answer
  BY DEF feeding
<1>2. OpenInv' /\ BuildInv'
  BY <1>1 DEF IInv, OpenInv, BuildInv
<1>3. CallInv'
  BY DEF IInv, CallInv
<1>4. OwedInv'
  <2>1. Cardinality(pending') <= Cardinality(pending) /\ Cardinality(pending') \in Nat
        /\ Cardinality(pending) \in Nat
    BY FS_Subset, FS_CardinalityType DEF IInv, PipeInv
  <2>2. \A n \in Nat : Cardinality(pending) <= n => Cardinality(pending') <= n
    BY <2>1
  <2>3. MaxAbandoned \in Nat /\ MaxAbandoned + 1 \in Nat
    BY Bounds
  <2> QED
    BY <2>2, <2>3 DEF IInv, OwedInv
<1>5. DrainInv'
  BY DEF IInv, DrainInv, draining
<1>6. AnswerInv'
  <2>1. CASE answer = None
    BY <1>1, <2>1 DEF AnswerInv, OnlyTheDeadAreCharged, NoFileAdded
  <2>2. CASE answer # None
    <3>1. pc = "idle" /\ quiet' = quiet
      BY <2>2 DEF IInv, AnswerInv
    <3>2. OnlyTheDeadAreCharged' /\ NoFileAdded'
      BY <1>1, <2>2, <3>1 DEF IInv, AnswerInv, OnlyTheDeadAreCharged, NoFileAdded
    <3> QED
      BY <1>1, <3>1, <3>2 DEF IInv, AnswerInv
  <2> QED
    BY <2>1, <2>2
<1> QED
  BY <1>2, <1>3, <1>4, <1>5, <1>6 DEF IInv

LEMMA ClockStep ==
  ASSUME IInv, Deadline \/ GateDeadline
  PROVE  IInv'
<1>1. /\ UNCHANGED <<pc, tool, probing, waiting>> /\ UNCHANGED <<feeding, answer>>
      /\ UNCHANGED <<quiet, draining>> /\ UNCHANGED <<child, inbox, pending, open, warm>>
  BY DEF Deadline, GateDeadline, clangd
<1>2. PipeInv' /\ warm' \in BOOLEAN
  BY <1>1 DEF IInv, PipeInv, OpenInv
<1>3. late' \in BOOLEAN /\ (pc \in {"seed", "gate"} => late' = late)
  <2>1. CASE Deadline
    <3>1. late' = TRUE /\ pc \in {"init", "recv"}
      BY <2>1 DEF Deadline
    <3> QED
      BY <3>1
  <2>2. CASE GateDeadline
    <3>1. late' = late
      BY <2>2 DEF GateDeadline
    <3> QED
      BY <3>1 DEF IInv, CallInv
  <2> QED
    BY <2>1, <2>2
<1>4. gateOver' \in BOOLEAN /\ (probing /\ late' => gateOver')
  <2>1. CASE Deadline
    <3>1. gateOver' = (gateOver \/ probing)
      BY <2>1 DEF Deadline
    <3> QED
      BY <3>1, Zenon
  <2>2. CASE GateDeadline
    <3>1. gateOver' = TRUE
      BY <2>2 DEF GateDeadline
    <3> QED
      BY <3>1
  <2> QED
    BY <2>1, <2>2
<1> QED
  BY <1>1, <1>2, <1>3, <1>4, Outside

LEMMA ClangdStep ==
  ASSUME IInv, Answers \/ Notify \/ Parse \/ WriteShard \/ Die
  PROVE  IInv'
<1>0. PipeInv /\ warm \in BOOLEAN /\ probing \in BOOLEAN /\ late \in BOOLEAN /\ gateOver \in BOOLEAN
      /\ (probing /\ late => gateOver)
  BY DEF IInv, OpenInv, CallInv
<1>1. /\ UNCHANGED <<pc, tool, probing, waiting>> /\ UNCHANGED <<late, gateOver>>
      /\ UNCHANGED <<feeding, answer>>
  BY DEF Answers, Answer, Notify, Parse, WriteShard, Die, request
<1>2. ASSUME UNCHANGED <<quiet, draining>> \/ (pc = "settle" /\ DrainInv'),
             child' # child => child' = "dead", pending' \subseteq pending,
             open' \subseteq open, warm' \in BOOLEAN, PipeInv'
      PROVE  IInv'
  <2>1. late' \in BOOLEAN /\ gateOver' \in BOOLEAN /\ (pc \in {"seed", "gate"} => late' = late)
    BY <1>0, <1>1
  <2>2. probing /\ late' => gateOver'
    BY <1>0, <1>1
  <2> QED
    BY <1>1, <1>2, <2>1, <2>2, Outside
<1>3. ASSUME NEW m \in Messages, Says(m), NEW rest, rest \subseteq pending, pending' = rest,
             \A p \in rest : p.id # m.id, m.id = None \/ \E p \in pending : p.id = m.id,
             UNCHANGED <<child, open, warm>>, UNCHANGED <<quiet, draining>>
      PROVE  IInv'
  <2>1. Once(None, rest, Append(inbox, m))
    BY <1>0, <1>3, OnceSays DEF PipeInv
  <2>2. Append(inbox, m) \in Seq(Messages) /\ Len(Append(inbox, m)) = Len(inbox) + 1
    BY <1>0, <1>3, AppendProperties DEF PipeInv
  <2>3. IsFiniteSet(rest) /\ Len(inbox) \in Nat
    BY <1>0, <1>3, FS_Subset, LenProperties DEF PipeInv
  <2>4. PipeInv'
    BY <1>0, <1>3, <2>1, <2>2, <2>3, Bounds DEF PipeInv, Says
  <2>5. warm' \in BOOLEAN /\ open' \subseteq open /\ child' = child
    BY <1>0, <1>3
  <2> QED
    BY <1>2, <1>3, <2>4, <2>5
<1>4. ASSUME NEW r \in pending, NEW kind \in {"result", "error"}, Answer(r, kind) PROVE IInv'
  <2> DEFINE m == [id |-> r.id, kind |-> kind,
                   found |-> kind = "result" /\ r.about = "probe" /\ warm]
  <2>1. r.id \in Ids
    BY <1>0 DEF PipeInv
  <2>2. (kind = "result" /\ r.about = "probe" /\ warm) \in BOOLEAN
    OBVIOUS
  <2>3. m \in Messages /\ m.id = r.id
    BY <2>1, <2>2 DEF Messages
  <2>4. /\ Says(m) /\ pending' = pending \ {r} /\ UNCHANGED <<child, open, warm>>
        /\ UNCHANGED <<quiet, draining>>
    BY <1>4 DEF Answer
  <2>5. \A p \in pending \ {r} : p.id # m.id
    BY <1>0, <2>3 DEF PipeInv, Once
  <2> HIDE DEF m
  <2> QED
    BY <1>3, <2>3, <2>4, <2>5
<1>5. CASE Notify
  <2> DEFINE m == [id |-> None, kind |-> "note", found |-> FALSE]
  <2>1. FALSE \in BOOLEAN /\ m.id = None
    OBVIOUS
  <2>2. m \in Messages
    BY <2>1 DEF Messages
  <2>3. /\ Says(m) /\ pending' = pending /\ UNCHANGED <<child, open, warm>>
        /\ UNCHANGED <<quiet, draining>>
    BY <1>5 DEF Notify
  <2>4. \A p \in pending : p.id # m.id
    BY <1>0, <2>1, Bounds DEF PipeInv
  <2> HIDE DEF m
  <2> QED
    BY <1>3, <2>1, <2>2, <2>3, <2>4
<1>6. CASE Parse
  <2>1. warm' = TRUE /\ UNCHANGED <<child, inbox, pending, open>> /\ UNCHANGED <<quiet, draining>>
    BY <1>6 DEF Parse
  <2>2. PipeInv' /\ warm' \in BOOLEAN
    BY <1>0, <2>1 DEF PipeInv
  <2> QED
    BY <1>2, <2>1, <2>2
<1>7. CASE WriteShard
  <2>1. /\ pc = "settle" /\ shards < MaxShards /\ shards' = shards + 1 /\ quiet' = 0
        /\ UNCHANGED <<lastCount, calm, polls>> /\ UNCHANGED <<child, inbox, pending, open, warm>>
    BY <1>7 DEF WriteShard, clangd
  <2>2. PipeInv' /\ warm' \in BOOLEAN
    BY <1>0, <2>1 DEF PipeInv
  <2>3. DrainInv'
    BY <1>1, <2>1, Bounds DEF IInv, DrainInv
  <2> QED
    BY <1>2, <2>1, <2>2, <2>3
<1>8. CASE Die
  <2>1. /\ child' = "dead" /\ pending' = {} /\ open' = {} /\ warm' = FALSE /\ inbox' = inbox
        /\ UNCHANGED <<quiet, draining>>
    BY <1>8 DEF Die
  <2>2. Once(None, {}, inbox)
    BY <1>0, OnceLess DEF PipeInv
  <2>3. PipeInv' /\ warm' \in BOOLEAN
    BY <1>0, <2>1, <2>2, FS_EmptySet DEF PipeInv
  <2> QED
    BY <1>2, <2>1, <2>3
<1> QED
  BY <1>4, <1>5, <1>6, <1>7, <1>8 DEF Answers

LEMMA Step ==
  ASSUME IInv, [Next]_vars
  PROVE  IInv'
<1>1. CASE UNCHANGED vars
  BY <1>1 DEF vars, request, clangd, feeding, draining, IInv, PipeInv, OpenInv, CallInv, OwedInv,
    BuildInv, DrainInv, AnswerInv, OnlyTheDeadAreCharged, NoFileAdded
<1>2. CASE Client
  BY <1>2, RefuseStep, BrokenStep, TimeoutStep, ReadStep, InitDoneStep, GateStep, ProbeStep,
    SendStep, PlanStep, OpenStep, SettleStep DEF Client
<1> QED
  BY <1>1, <1>2, CallStep, ClockStep, ClangdStep DEF Next

LEMMA Invariant == Spec => []IInv
BY Start, Step, PTL DEF Spec

-----------------------------------------------------------------------------
(* The theorems.                                                           *)

\* The type invariant: the bounds of build_full_index hold for every compile
\* database (clangd.rs 816-1037).
THEOREM TypeCorrect == Spec => []TypeOK
<1>1. ASSUME IInv PROVE TypeOK
  <2>1. open \subseteq Seeds \cup Files /\ warm \in BOOLEAN /\ batch \subseteq Files
    BY <1>1 DEF IInv, OpenInv
  <2>2. probing \in BOOLEAN /\ late \in BOOLEAN /\ gateOver \in BOOLEAN
    BY <1>1 DEF IInv, CallInv
  <2>3. shards \in 0..MaxShards /\ lastCount \in 0..MaxShards
    BY <1>1, Bounds DEF IInv, DrainInv
  <2> QED
    BY <1>1, <2>1, <2>2, <2>3
      DEF TypeOK, IInv, PipeInv, CallInv, BuildInv, DrainInv, AnswerInv
<1> QED
  BY <1>1, Invariant, PTL

\* A clangd that is slow or wedged is never charged to the restart budget
\* (clangd.rs 560-605; mcp.rs 578-604).
THEOREM NoFalseCharge == Spec => []OnlyTheDeadAreCharged
<1>1. IInv => OnlyTheDeadAreCharged
  BY DEF IInv, AnswerInv
<1> QED
  BY <1>1, Invariant, PTL

\* However many builds there are and however they end, a batch of documents
\* at most is open and none between calls (clangd.rs 816-957).
THEOREM MemoryBounded == Spec => []DocumentsBounded
<1>1. ASSUME IInv PROVE DocumentsBounded
  <2>1. /\ open \ Seeds \subseteq batch /\ IsFiniteSet(batch) /\ Cardinality(batch) <= BatchSize
        /\ pc = "idle" => open \subseteq Seeds
    BY <1>1 DEF IInv, OpenInv
  <2>2. /\ Cardinality(open \ Seeds) <= Cardinality(batch)
        /\ Cardinality(open \ Seeds) \in Nat /\ Cardinality(batch) \in Nat
    BY <2>1, FS_Subset, FS_CardinalityType
  <2> QED
    BY <2>1, <2>2, Bounds DEF DocumentsBounded
<1> QED
  BY <1>1, Invariant, PTL

\* A report that does not say it was cut short is about an index that no
\* file was added to for the quiescence time (clangd.rs 959-1037).
THEOREM CleanReportIsQuiet == Spec => []NoFileAdded
<1>1. IInv => NoFileAdded
  BY DEF IInv, AnswerInv
<1> QED
  BY <1>1, Invariant, PTL

==============================================================================
