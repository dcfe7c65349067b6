---------------------------- MODULE SessionProofs ----------------------------
(***************************************************************************)
(* What is proved of the session with rust-analyzer for every number of    *)
(* questions, attempts and messages in the pipes: answers reach the call   *)
(* that asked and no query has two requests under way, whatever the server *)
(* answers or asks and when it dies.                                       *)
(***************************************************************************)
EXTENDS RustSession, SharedLemmas

Topics == Questions \cup {"initialize", "shutdown", "symbols"}

-----------------------------------------------------------------------------
(* The invariant.                                                          *)

\* The pipe without the numbers the server gives its own requests.
Reply(m) == IF m.kind = "request" THEN [m EXCEPT !.id = None] ELSE m
Replies(s) == [i \in 1..Len(s) |-> Reply(s[i])]

Asks(i) == inbox[i].kind = "request"
Quiet == \A i \in 1..Len(inbox) : ~Asks(i)

\* The pipes: no id of the client is under way twice, the dead owe nothing,
\* and the server has at most one request in the pipe.
PipeInv ==
  /\ child \in {"none", "up", "dead"} /\ index \in 0..MaxIndex
  /\ inbox \in Seq(Messages) /\ Len(inbox) <= MaxInbox
  /\ pending \subseteq [id : Ids, about : Topics] /\ IsFiniteSet(pending)
  /\ Once(None, pending, Replies(inbox))
  /\ \A i \in 1..Len(inbox) : Asks(i) => inbox[i].about = None
  /\ \A i, j \in 1..Len(inbox) : Asks(i) /\ Asks(j) => i = j
  /\ child # "up" => pending = {}

\* The call.
CallInv ==
  /\ pc \in {"idle", "start", "handshake", "send", "recv"}
  /\ tool \in {"query", "wait", "shutdown", None} /\ (tool = None <=> pc = "idle")
  /\ asked \in Questions \cup {"symbols", "shutdown", None}
  /\ pc # "idle" => asked \in Topics
  /\ tool = "shutdown" => asked = "shutdown" /\ pc \in {"send", "recv"}
  /\ attempt \in 0..RetryBudget
  /\ pc \in {"idle", "start", "handshake"} \/ tool # "query" => attempt = 0
  /\ pc = "send" => attempt < RetryBudget
  /\ waiting \in Ids \cup {None} /\ (pc \in {"handshake", "recv"} => waiting # None)
  /\ late \in BOOLEAN /\ over \in BOOLEAN
  /\ ours \subseteq Ids /\ (pc \in {"start", "handshake"} => ours = {})

\* A request of the server that passes for an answer leaves one request more
\* under way; the server sends the next when there are few.
Few(S) ==
  \/ Cardinality(S) <= MaxAbandoned
  \/ Quiet /\ Cardinality(S) <= MaxAbandoned + 1

\* What is under way for a query is its last request, if that is not
\* answered, and no other one.
MatchInv ==
  /\ tool = "query" => \A r \in pending : r.id \in ours => pc = "recv" /\ r.id = waiting
  /\ pc = "recv" => /\ \A r \in pending : r.id = waiting => r.about = asked
                    /\ \A i \in 1..Len(inbox) :
                         inbox[i].id = waiting /\ ~Asks(i) => inbox[i].about = asked
  /\ pc \in {"start", "send"} => Few(pending)
  /\ pc = "handshake" => \A r \in pending : r.id = waiting
  /\ pc = "recv" => Few({r \in pending : r.id # waiting})

\* The samples of wait_for_indexing.
WaitInv == digest \in Samples \cup {None} /\ stable \in 0..1

\* What the last call returned.
AnswerInv ==
  /\ pc # "idle" => answer = None
  /\ answer # None => answer.kind \in Outcomes
  /\ NoForeignAnswer

IInv == PipeInv /\ CallInv /\ MatchInv /\ WaitInv /\ AnswerInv

-----------------------------------------------------------------------------

LEMMA Bounds ==
  /\ MaxAbandoned \in Nat /\ MaxInbox \in Nat /\ MaxIndex \in Nat /\ RetryBudget \in Nat \ {0}
  /\ None \notin {"query", "wait", "shutdown"} /\ None \notin Ids /\ None \notin Samples /\ None \notin Questions
BY SessionAssumption DEF Ids, Samples

LEMMA IInvMeans ==
  ASSUME IInv
  PROVE  /\ TypeOK /\ NoForeignAnswer /\ NoDoubleAsk
<1>1. TypeOK
  BY DEF IInv, PipeInv, CallInv, WaitInv, AnswerInv, TypeOK
<1>2. NoDoubleAsk
  <2> DEFINE S == {r \in pending : r.id \in ours}
  <2> SUFFICES ASSUME tool = "query" PROVE Cardinality(S) <= 1
    BY DEF NoDoubleAsk
  <2>1. S = {} \/ \E r \in S : S = {r}
    <3>1. \A r, q \in S : r = q
      BY DEF IInv, MatchInv, PipeInv, Once
    <3> QED
      BY <3>1
  <2>2. Cardinality(S) <= 1
    <3> HIDE DEF S
    <3>1. CASE S = {}
      BY <3>1, FS_EmptySet
    <3>2. ASSUME NEW r, S = {r} PROVE Cardinality(S) <= 1
      <4>1. Cardinality({r}) = 1
        BY FS_Singleton
      <4> QED
        BY <3>2, <4>1
    <3> QED
      BY <2>1, <3>1, <3>2
  <2> QED
    BY <2>2
<1> QED
  BY <1>1, <1>2 DEF IInv, AnswerInv

\* Replies of what is read and said.
LEMMA RepliesOfNone == Replies(<<>>) = <<>>
BY DEF Replies

LEMMA ReplyType ==
  ASSUME NEW m \in Messages
  PROVE  /\ Reply(m) \in Messages /\ Reply(m).kind = m.kind /\ Reply(m).about = m.about
         /\ Reply(m).id = IF m.kind = "request" THEN None ELSE m.id
BY DEF Reply, Messages

LEMMA RepliesType ==
  ASSUME NEW s \in Seq(Messages)
  PROVE  /\ Replies(s) \in Seq(Messages) /\ Len(Replies(s)) = Len(s)
         /\ \A i \in 1..Len(s) : Replies(s)[i] = Reply(s[i]) /\ s[i] \in Messages
<1>1. Len(s) \in Nat /\ \A i \in 1..Len(s) : s[i] \in Messages
  BY LenProperties, ElementOfSeq
<1> QED
  BY <1>1, ReplyType DEF Replies

LEMMA RepliesTail ==
  ASSUME NEW s \in Seq(Messages), s # <<>>
  PROVE  Replies(Tail(s)) = Tail(Replies(s))
<1>1. /\ Tail(s) \in Seq(Messages) /\ Len(s) \in Nat \ {0} /\ Len(Tail(s)) = Len(s) - 1
      /\ \A i \in 1..Len(Tail(s)) : Tail(s)[i] = s[i + 1] /\ i + 1 \in 1..Len(s)
  BY HeadTailProperties, EmptySeq
<1>2. Replies(s) \in Seq(Messages) /\ Len(Replies(s)) = Len(s) /\ Replies(s) # <<>>
  BY <1>1, RepliesType, EmptySeq
<1>3. /\ Tail(Replies(s)) \in Seq(Messages) /\ Len(Tail(Replies(s))) = Len(s) - 1
      /\ \A i \in 1..Len(s) - 1 : Tail(Replies(s))[i] = Replies(s)[i + 1]
  BY <1>2, HeadTailProperties
<1>4. Replies(Tail(s)) \in Seq(Messages) /\ Len(Replies(Tail(s))) = Len(Tail(Replies(s)))
  BY <1>1, <1>3, RepliesType
<1>5. \A i \in 1..Len(Tail(Replies(s))) : Replies(Tail(s))[i] = Tail(Replies(s))[i]
  <2>1. \A i \in 1..Len(Tail(s)) : Replies(Tail(s))[i] = Reply(Tail(s)[i])
    BY <1>1, RepliesType
  <2>2. \A i \in 1..Len(s) : Replies(s)[i] = Reply(s[i])
    BY RepliesType
  <2> QED
    BY <1>1, <1>3, <2>1, <2>2
<1> QED
  BY <1>3, <1>4, <1>5, SameSequence

LEMMA RepliesAppend ==
  ASSUME NEW s \in Seq(Messages), NEW m \in Messages
  PROVE  Replies(Append(s, m)) = Append(Replies(s), Reply(m))
<1>1. /\ Append(s, m) \in Seq(Messages) /\ Len(Append(s, m)) = Len(s) + 1 /\ Len(s) \in Nat
      /\ \A i \in 1..Len(s) : Append(s, m)[i] = s[i]
      /\ Append(s, m)[Len(s) + 1] = m
  BY AppendProperties, LenProperties
<1>2. Replies(s) \in Seq(Messages) /\ Len(Replies(s)) = Len(s) /\ Reply(m) \in Messages
  BY RepliesType, ReplyType
<1>3. /\ Append(Replies(s), Reply(m)) \in Seq(Messages)
      /\ Len(Append(Replies(s), Reply(m))) = Len(s) + 1
      /\ \A i \in 1..Len(s) : Append(Replies(s), Reply(m))[i] = Replies(s)[i]
      /\ Append(Replies(s), Reply(m))[Len(s) + 1] = Reply(m)
  BY <1>2, AppendProperties
<1>4. /\ Replies(Append(s, m)) \in Seq(Messages)
      /\ Len(Replies(Append(s, m))) = Len(Append(Replies(s), Reply(m)))
  BY <1>1, <1>3, RepliesType
<1>5. \A i \in 1..Len(s) + 1 : Replies(Append(s, m))[i] = Append(Replies(s), Reply(m))[i]
  <2>1. \A i \in 1..Len(s) + 1 : i \in 1..Len(s) \/ i = Len(s) + 1
    BY <1>1
  <2>2. \A i \in 1..Len(s) + 1 : Replies(Append(s, m))[i] = Reply(Append(s, m)[i])
    BY <1>1, RepliesType
  <2> QED
    BY <1>1, <1>3, <2>1, <2>2, RepliesType
<1> QED
  BY <1>3, <1>4, <1>5, SameSequence

LEMMA InvInit == Init => IInv
<1> SUFFICES ASSUME Init PROVE IInv
  OBVIOUS
<1>1. PipeInv
  <2>1. Replies(<<>>) = <<>> /\ Len(<<>>) = 0
    BY RepliesOfNone, EmptySeq
  <2>2. inbox = <<>> /\ pending = {} /\ child = "none" /\ index = 0
    BY DEF Init
  <2> QED
    BY <2>1, <2>2, Bounds, OnceNothing, FS_EmptySet, EmptySeq DEF PipeInv
<1>2. CallInv
  <2>1. late \in BOOLEAN /\ over \in BOOLEAN
    BY DEF Init
  <2>2. /\ pc = "idle" /\ tool = None /\ asked = None /\ attempt = 0 /\ waiting = None /\ ours = {}
    BY DEF Init
  <2> QED
    BY <2>1, <2>2, Bounds DEF CallInv
<1>4. WaitInv
  BY Bounds DEF Init, WaitInv
<1>5. AnswerInv
  BY DEF Init, AnswerInv, NoForeignAnswer
<1>3. MatchInv
  BY DEF Init, MatchInv
<1> QED
  BY <1>1, <1>2, <1>3, <1>4, <1>5 DEF IInv

-----------------------------------------------------------------------------
(* Parts of steps.                                                         *)

\* next_request_id has an id to give.
LEMMA FreshIdFree ==
  ASSUME PipeInv, Cardinality(pending) <= MaxAbandoned + 1
  PROVE  /\ FreshId \in Ids /\ \A r \in pending : r.id # FreshId
         /\ \A i \in 1..Len(inbox) : ~Asks(i) => inbox[i].id # FreshId
<1>1. \E id \in 1..MaxAbandoned + MaxInbox + 2 :
        /\ \A r \in pending : r.id # id
        /\ \A i \in DOMAIN inbox : inbox[i].kind # "request" => inbox[i].id # id
  <2> DEFINE n == MaxAbandoned + MaxInbox + 2
  <2>1. IsFiniteSet(pending) /\ inbox \in Seq(Messages)
    BY DEF PipeInv
  <2>2. n \in Nat /\ Cardinality(pending) + Len(inbox) < n
    BY <2>1, Bounds, FS_CardinalityType, LenProperties DEF PipeInv
  <2> HIDE DEF n
  <2>3. \E id \in 1..n : /\ \A r \in pending : r.id # id
                         /\ \A i \in DOMAIN inbox : inbox[i].id # id
    BY <2>1, <2>2, FreshExists
  <2> QED
    BY <2>3 DEF n
<1>2. /\ FreshId \in Ids /\ \A r \in pending : r.id # FreshId
      /\ \A i \in DOMAIN inbox : inbox[i].kind # "request" => inbox[i].id # FreshId
  BY <1>1, Zenon DEF FreshId, Ids
<1>3. DOMAIN inbox = 1..Len(inbox)
  BY LenProperties DEF PipeInv
<1> QED
  BY <1>2, <1>3 DEF Asks

LEMMA Sent ==
  ASSUME PipeInv, Cardinality(pending) <= MaxAbandoned + 1, NEW about \in Topics, Send(about)
  PROVE  /\ waiting' = FreshId /\ waiting' \in Ids /\ waiting' # None /\ late' = FALSE
         /\ pending' = pending \cup {Request(FreshId, about)}
         /\ {r \in pending' : r.id # waiting'} = pending
         /\ pending' \subseteq [id : Ids, about : Topics] /\ IsFiniteSet(pending')
         /\ Once(None, pending', Replies(inbox))
         /\ \A r \in pending' : r.id = waiting' => r.about = about
         /\ \A i \in 1..Len(inbox) : ~Asks(i) => inbox[i].id # waiting'
<1>1. waiting' = FreshId /\ late' = FALSE /\ pending' = pending \cup {Request(FreshId, about)}
  BY DEF Send
<1>2. /\ FreshId \in Ids /\ \A r \in pending : r.id # FreshId
      /\ \A i \in 1..Len(inbox) : ~Asks(i) => inbox[i].id # FreshId
  BY FreshIdFree
<1>3. IsFiniteSet(pending')
  BY <1>1, FS_AddElement DEF PipeInv
<1>4. Once(None, pending', Replies(inbox))
  <2> DEFINE r == Request(FreshId, about)
  <2>1. /\ Replies(inbox) \in Seq(Messages)
        /\ \A i \in 1..Len(Replies(inbox)) : Replies(inbox)[i].id # FreshId
    BY <1>2, RepliesType, ReplyType, Bounds DEF PipeInv, Asks
  <2>2. r.id = FreshId /\ pending' = pending \cup {r}
    BY <1>1 DEF Request
  <2> HIDE DEF r
  <2> QED
    BY <1>2, <2>1, <2>2, OnceSend DEF PipeInv
<1> QED
  BY <1>1, <1>2, <1>3, <1>4, Bounds DEF PipeInv, Request

\* A frame is read.
LEMMA Taken ==
  ASSUME PipeInv, inbox # <<>>, Take
  PROVE  /\ PipeInv' /\ pending' = pending /\ child' = child
         /\ Head(inbox) \in Messages /\ Head(inbox) = inbox[1] /\ 1 \in 1..Len(inbox)
         /\ ~Asks(1) => \A p \in pending : Head(inbox).id # p.id
         /\ Quiet \/ Asks(1) => Quiet'
         /\ \A i \in 1..Len(inbox') : inbox'[i] \in {inbox[j] : j \in 1..Len(inbox)}
<1>1. /\ Head(inbox) \in Messages /\ Tail(inbox) \in Seq(Messages) /\ Len(Tail(inbox)) = Len(inbox) - 1
      /\ \A i \in 1..Len(Tail(inbox)) : Tail(inbox)[i] = inbox[i + 1]
      /\ Len(inbox) \in Nat \ {0} /\ Head(inbox) = inbox[1]
  BY HeadTailProperties, EmptySeq DEF PipeInv
<1>2. /\ Once(None, pending, Replies(Tail(inbox)))
      /\ ~Asks(1) => \A p \in pending : Head(inbox).id # p.id
  <2>1. /\ Replies(inbox) \in Seq(Messages) /\ Replies(inbox) # <<>>
        /\ Replies(inbox)[1] = Reply(inbox[1]) /\ 1 \in 1..Len(inbox) /\ inbox \in Seq(Messages)
    BY <1>1, RepliesType, EmptySeq DEF PipeInv
  <2>2. /\ Once(None, pending, Tail(Replies(inbox)))
        /\ \A p \in pending : Head(Replies(inbox)).id # p.id
    <3>1. Once(None, pending, Replies(inbox))
      BY DEF PipeInv
    <3> QED
      BY <2>1, <3>1, OnceTake
  <2>3. Head(Replies(inbox)) = Reply(Head(inbox))
    BY <1>1, <2>1, HeadTailProperties
  <2>4. ~Asks(1) => Head(Replies(inbox)).id = Head(inbox).id
    BY <1>1, <2>3, ReplyType DEF Asks
  <2> QED
    BY <2>1, <2>2, <2>4, RepliesTail
<1>3. /\ \A i \in 1..Len(Tail(inbox)) : i + 1 \in 1..Len(inbox) /\ i + 1 # 1
      /\ 1 \in 1..Len(inbox) /\ \A i, j \in 1..Len(Tail(inbox)) : i + 1 = j + 1 => i = j
  BY <1>1
<1>4. Len(Tail(inbox)) <= MaxInbox
  BY <1>1, Bounds DEF PipeInv
<1>5. inbox' = Tail(inbox) /\ UNCHANGED <<child, pending, index>>
  BY DEF Take
<1>6. \A i \in 1..Len(inbox') : inbox'[i] = inbox[i + 1]
  BY <1>1, <1>5
<1>7. PipeInv'
  <2>1. \A i \in 1..Len(inbox') : Asks(i)' <=> Asks(i + 1)
    BY <1>6 DEF Asks
  <2>2. /\ \A i \in 1..Len(inbox') : Asks(i)' => inbox'[i].about = None
        /\ \A i, j \in 1..Len(inbox') : Asks(i)' /\ Asks(j)' => i = j
    BY <1>3, <1>5, <1>6, <2>1 DEF PipeInv
  <2> QED
    BY <1>1, <1>2, <1>4, <1>5, <2>2 DEF PipeInv
<1>8. Quiet \/ Asks(1) => Quiet'
  BY <1>3, <1>5, <1>6 DEF PipeInv, Quiet, Asks
<1>9. \A i \in 1..Len(inbox') : inbox'[i] \in {inbox[j] : j \in 1..Len(inbox)}
  BY <1>3, <1>5, <1>6
<1> QED
  BY <1>1, <1>2, <1>3, <1>5, <1>7, <1>8, <1>9

\* The call returns.
LEMMA Returned ==
  ASSUME IInv, NEW kind, NEW about, Return(kind, about), PipeInv'
  PROVE  /\ CallInv' /\ MatchInv' /\ WaitInv'
<1>1. CallInv'
  <2>1. late' \in BOOLEAN /\ over' \in BOOLEAN
    BY DEF Return
  <2>2. /\ pc' = "idle" /\ tool' = None /\ asked' = None /\ attempt' = 0 /\ waiting' = None
        /\ ours' = {}
    BY DEF Return
  <2> QED
    BY <2>1, <2>2, Bounds DEF CallInv
<1>2. MatchInv'
  BY Bounds DEF Return, MatchInv
<1>3. WaitInv'
  BY Bounds DEF Return, WaitInv, IInv
<1> QED
  BY <1>1, <1>2, <1>3

\* It returns nothing that has to be vouched for.
LEMMA ReturnedPlain ==
  ASSUME IInv, NEW kind \in {"transient", "error", "timeout", "lost"}, Return(kind, None)
  PROVE  AnswerInv'
BY DEF Return, AnswerInv, NoForeignAnswer, Outcomes

\* The call goes on.
LEMMA NoAnswer ==
  ASSUME answer' = None
  PROVE  AnswerInv'
BY DEF AnswerInv, NoForeignAnswer

\* Fewer requests under way are few, and no request of the server comes in
\* when there are not.
LEMMA FewKept ==
  ASSUME IsFiniteSet(pending), NEW S \in SUBSET pending, NEW T \in SUBSET S, Few(S),
         Quiet' \/ ~Quiet \/ Cardinality(pending) <= MaxAbandoned
  PROVE  Cardinality(T) <= MaxAbandoned \/ (Quiet' /\ Cardinality(T) <= MaxAbandoned + 1)
<1>1. /\ IsFiniteSet(S) /\ IsFiniteSet(T)
      /\ Cardinality(T) <= Cardinality(S) /\ Cardinality(S) <= Cardinality(pending)
  BY FS_Subset
<1>2. Cardinality(S) \in Nat /\ Cardinality(T) \in Nat /\ Cardinality(pending) \in Nat
  BY <1>1, FS_CardinalityType
<1> QED
  BY <1>1, <1>2, Bounds DEF Few

\* Requests are answered or forgotten, messages are read or come in.
LEMMA MatchKept ==
  ASSUME IInv, UNCHANGED <<pc, tool, asked, waiting, ours>>, pending' \subseteq pending,
         Quiet' \/ ~Quiet \/ Cardinality(pending) <= MaxAbandoned,
         \A i \in 1..Len(inbox') :
           \/ inbox'[i] \in {inbox[j] : j \in 1..Len(inbox)}
           \/ inbox'[i].id = None \/ inbox'[i].kind = "request"
           \/ \E r \in pending : r.id = inbox'[i].id /\ r.about = inbox'[i].about
  PROVE  MatchInv'
<1>0. MatchInv /\ CallInv /\ IsFiniteSet(pending)
  BY DEF IInv, PipeInv
<1>1. tool' = "query" => \A r \in pending' : r.id \in ours' => pc' = "recv" /\ r.id = waiting'
  BY <1>0 DEF MatchInv
<1>2. pc' = "recv" => /\ \A r \in pending' : r.id = waiting' => r.about = asked'
                      /\ \A i \in 1..Len(inbox') :
                           inbox'[i].id = waiting' /\ inbox'[i].kind # "request"
                             => inbox'[i].about = asked'
  BY <1>0 DEF MatchInv, CallInv, Asks
<1>3. pc' = "handshake" => \A r \in pending' : r.id = waiting'
  BY <1>0 DEF MatchInv
<1>5. pc' \in {"start", "send"} => Few(pending)'
  BY <1>0, FewKept DEF MatchInv, Few
<1>6. pc' = "recv" => Few({r \in pending : r.id # waiting})'
  <2> DEFINE S == {r \in pending : r.id # waiting}
             T == {r \in pending' : r.id # waiting'}
  <2>1. T \in SUBSET S /\ S \in SUBSET pending
    OBVIOUS
  <2>2. pc' = "recv" => Few(S)
    BY <1>0 DEF MatchInv
  <2>3. pc' = "recv" => Cardinality(T) <= MaxAbandoned \/ (Quiet' /\ Cardinality(T) <= MaxAbandoned + 1)
    <3> HIDE DEF S, T
    <3> QED
      BY <1>0, <2>1, <2>2, FewKept
  <2> QED
    BY <2>3 DEF Few
<1> QED
  BY <1>1, <1>2, <1>3, <1>5, <1>6 DEF MatchInv, Asks

\* The awaited frame has been read.  An answer leaves what is left over from
\* earlier calls; a request of the server was the only one.
LEMMA OwnTaken ==
  ASSUME IInv, pc \in {"handshake", "recv"}, inbox # <<>>, Head(inbox).id = waiting, Take
  PROVE  /\ Head(inbox).kind # "request" =>
              /\ \A r \in pending' : r.id # waiting
              /\ tool = "query" => \A r \in pending' : r.id \notin ours
         /\ Few(pending)'
         /\ pc = "recv" => Head(inbox).about \in {asked, None}
<1>0. PipeInv /\ CallInv /\ MatchInv /\ IsFiniteSet(pending)
  BY DEF IInv, PipeInv
<1>1. /\ pending' = pending /\ Head(inbox) = inbox[1] /\ 1 \in 1..Len(inbox)
      /\ ~Asks(1) => \A p \in pending : waiting # p.id
      /\ Quiet \/ Asks(1) => Quiet'
      /\ Asks(1) <=> Head(inbox).kind = "request"
  BY <1>0, Taken DEF Asks
<1> DEFINE S == {r \in pending : r.id # waiting}
           W == {r \in pending : r.id = waiting}
<1>2. pc = "recv" => Few(S)
  BY <1>0 DEF MatchInv
<1>3. pc = "handshake" => S = {}
  BY <1>0 DEF MatchInv
<1>4. ~Asks(1) => S = pending
  BY <1>1
<1>5. W = {} \/ \E r \in W : W = {r}
  <2>1. \A r, q \in W : r = q
    BY <1>0 DEF PipeInv, Once
  <2> QED
    BY <2>1
<1>6. /\ S \in SUBSET pending /\ W \in SUBSET pending /\ pending = S \cup W
      /\ S \cap W = {}
  OBVIOUS
<1> HIDE DEF S, W
<1>7. Cardinality(S) \in Nat /\ Cardinality(W) \in Nat /\ IsFiniteSet(S) /\ IsFiniteSet(W)
  BY <1>0, <1>6, FS_Subset, FS_CardinalityType
<1>8. Cardinality(W) <= 1
  <2>1. CASE W = {}
    BY <2>1, FS_EmptySet
  <2>2. ASSUME NEW r, W = {r} PROVE Cardinality(W) <= 1
    <3>1. Cardinality({r}) = 1
      BY FS_Singleton
    <3> QED
      BY <2>2, <3>1
  <2> QED
    BY <1>5, <2>1, <2>2
<1>9. Cardinality(pending) <= Cardinality(S) + 1 /\ Cardinality(pending) \in Nat
  <2>1. Cardinality(S \cup W) = Cardinality(S) + Cardinality(W) - Cardinality({})
    BY <1>6, <1>7, FS_Union
  <2> QED
    BY <1>0, <1>6, <1>7, <1>8, <2>1, FS_EmptySet, FS_CardinalityType
<1>10. Few(S)
  <2>1. CASE pc = "handshake"
    <3>1. S = {}
      BY <1>3, <2>1
    <3>2. Cardinality(S) = 0
      BY <3>1, FS_EmptySet
    <3> QED
      BY <3>2, Bounds DEF Few
  <2> QED
    BY <1>2, <2>1
<1>11. Few(pending)'
  <2>1. CASE ~Asks(1)
    BY <1>1, <1>4, <1>10, <2>1 DEF Few
  <2>2. CASE Asks(1)
    <3>1. Quiet' /\ ~Quiet
      BY <1>1, <2>2 DEF Quiet
    <3>2. Cardinality(S) <= MaxAbandoned
      BY <1>10, <3>1 DEF Few
    <3>3. Cardinality(pending') <= MaxAbandoned + 1
      BY <1>1, <1>7, <1>9, <3>2, Bounds
    <3> QED
      BY <3>1, <3>3 DEF Few
  <2> QED
    BY <2>1, <2>2
<1>12. pc = "recv" => Head(inbox).about \in {asked, None}
  BY <1>0, <1>1 DEF PipeInv, MatchInv
<1>13. ~Asks(1) => /\ \A r \in pending' : r.id # waiting
                   /\ tool = "query" => \A r \in pending' : r.id \notin ours
  BY <1>0, <1>1 DEF MatchInv
<1> QED
  BY <1>1, <1>11, <1>12, <1>13

\* A receive loop that ends without an answer ends the call: what
\* request_with_retry tries again has been answered.
LEMMA GivenUp ==
  ASSUME NEW kind \in {"timeout", "lost"}, GiveUp(kind)
  PROVE  Return(kind, None)
BY DEF GiveUp, CanRetry, Retryable

-----------------------------------------------------------------------------
(* The steps.                                                              *)

\* The steps by which a call ends without success or as a shutdown.
Ends ==
  \/ SpawnRefused \/ HandshakeTimeout \/ HandshakeBroken \/ PollOver \/ SendBroken
  \/ Timeout \/ Broken \/ ShutdownEnds

LEMMA InvEnds ==
  ASSUME IInv, Ends
  PROVE  IInv'
<1>0. PipeInv /\ CallInv
  BY DEF IInv
<1>1. CASE SpawnRefused \/ HandshakeBroken \/ PollOver \/ Broken
  <2>1. \E kind \in {"error", "timeout", "lost"} : Return(kind, None)
    BY <1>1, GivenUp DEF SpawnRefused, HandshakeBroken, PollOver, Broken
  <2>2. PipeInv'
    BY <1>0, <1>1 DEF SpawnRefused, HandshakeBroken, PollOver, Broken, server, PipeInv, Asks, Replies
  <2> QED
    BY <2>1, <2>2, Returned, ReturnedPlain DEF IInv
<1>2. CASE HandshakeTimeout \/ Timeout
  <2>1. Return("timeout", None)
    BY <1>2, GivenUp DEF HandshakeTimeout, Timeout
  <2>2. PipeInv'
    BY <1>0, <1>2, Taken DEF HandshakeTimeout, Timeout, Unrelated
  <2> QED
    BY <2>1, <2>2, Returned, ReturnedPlain DEF IInv
<1>3. ASSUME Close, tool = "shutdown" PROVE IInv'
  <2>1. PipeInv'
    <3>1. inbox' = <<>> /\ pending' = {} /\ child' = "none" /\ index' = 0
      BY <1>3 DEF Close
    <3>2. Replies(inbox') = <<>> /\ Len(inbox') = 0
      BY <3>1, RepliesOfNone, EmptySeq
    <3> QED
      BY <3>1, <3>2, OnceNothing, FS_EmptySet, EmptySeq, Bounds DEF PipeInv
  <2>2. Return("ok", "shutdown") /\ asked = "shutdown"
    BY <1>0, <1>3 DEF Close, CallInv
  <2>3. AnswerInv'
    BY <2>2 DEF Return, AnswerInv, NoForeignAnswer, Outcomes
  <2> QED
    BY <2>1, <2>2, <2>3, Returned DEF IInv
<1>4. CASE SendBroken
  <2>1. CASE tool # "shutdown"
    <3>1. Return("lost", None)
      BY <1>4, <2>1 DEF SendBroken
    <3>2. PipeInv'
      BY <1>0, <1>4, <2>1 DEF SendBroken, server, PipeInv, Asks, Replies
    <3> QED
      BY <3>1, <3>2, Returned, ReturnedPlain DEF IInv
  <2> QED
    BY <1>3, <1>4, <2>1 DEF SendBroken
<1>5. CASE ShutdownEnds
  BY <1>3, <1>5 DEF ShutdownEnds
<1> QED
  BY <1>1, <1>2, <1>4, <1>5 DEF Ends

LEMMA InvCalls ==
  ASSUME IInv, Requests \/ AlreadySpawned
  PROVE  IInv'
<1>0. PipeInv /\ CallInv /\ MatchInv /\ WaitInv /\ AnswerInv
  BY DEF IInv
<1>1. ASSUME NEW t \in {"query", "wait"}, NEW q \in Questions \cup {"symbols"}, Call(t, q)
      PROVE  IInv'
  <2>1. /\ pc = "idle" /\ Cardinality(pending) <= MaxAbandoned /\ q \in Topics /\ pc' = "start" /\ tool' = t
        /\ asked' = q /\ ours' = {} /\ answer' = None
        /\ UNCHANGED <<attempt, waiting, late, over, digest, stable, child, inbox, pending, index>>
    BY <1>1 DEF Call, server, Topics
  <2>2. CallInv'
    BY <1>0, <2>1, Bounds DEF CallInv
  <2>3. PipeInv' /\ MatchInv' /\ WaitInv'
    BY <1>0, <2>1, Bounds DEF PipeInv, Asks, Replies, Few, MatchInv, WaitInv
  <2> QED
    BY <2>1, <2>2, <2>3, NoAnswer DEF IInv
<1>2. CASE Shutdown
  <2>1. /\ pc = "idle" /\ Cardinality(pending) <= MaxAbandoned /\ pc' = "send" /\ tool' = "shutdown"
        /\ asked' = "shutdown" /\ ours' = {} /\ answer' = None
        /\ UNCHANGED <<attempt, waiting, late, over, digest, stable, child, inbox, pending, index>>
    BY <1>2 DEF Shutdown, server
  <2>2. CallInv'
    BY <1>0, <2>1, Bounds DEF CallInv, Topics
  <2>3. PipeInv' /\ MatchInv' /\ WaitInv'
    BY <1>0, <2>1, Bounds DEF PipeInv, Asks, Replies, Few, MatchInv, WaitInv
  <2> QED
    BY <2>1, <2>2, <2>3, NoAnswer DEF IInv
<1>3. CASE AlreadySpawned
  <2>1. pc = "start" /\ pc' = "send"
        /\ UNCHANGED <<tool, asked, attempt, waiting, late, over, digest, stable, child, inbox, pending,
                       index, answer, ours>>
    BY <1>3 DEF AlreadySpawned, call, server, history
  <2>2. CallInv'
    BY <1>0, <2>1, Bounds DEF CallInv
  <2>4. PipeInv' /\ MatchInv'
    BY <1>0, <2>1, Bounds DEF PipeInv, Asks, Quiet, Replies, Few, MatchInv, CallInv
  <2>3. WaitInv' /\ answer' = None
    BY <1>0, <2>1 DEF WaitInv, AnswerInv
  <2> QED
    BY <2>2, <2>3, <2>4, NoAnswer DEF IInv
<1>4. Query => \E q \in Questions : Call("query", q)
  BY DEF Query
<1>5. WaitForIndexing => Call("wait", "symbols")
  BY DEF WaitForIndexing
<1> QED
  BY <1>1, <1>2, <1>3, <1>4, <1>5, Bounds DEF Requests, Topics

LEMMA InvSends ==
  ASSUME IInv, Spawn \/ SendRequest
  PROVE  IInv'
<1>0. PipeInv /\ CallInv /\ MatchInv /\ WaitInv /\ AnswerInv
  BY DEF IInv
<1>1. CASE Spawn
  <2>1. /\ pc = "start" /\ pc' = "handshake" /\ child = "none" /\ child' = "up" /\ index' = 0
        /\ Send("initialize")
        /\ UNCHANGED <<tool, asked, attempt, over, digest, stable, inbox, answer, ours>>
    BY <1>1 DEF Spawn, history
  <2>2. pending = {} /\ Cardinality(pending) <= MaxAbandoned + 1 /\ ours = {}
    BY <1>0, <2>1, FS_EmptySet, Bounds DEF PipeInv, CallInv
  <2>3. /\ waiting' = FreshId /\ waiting' \in Ids /\ waiting' # None /\ late' = FALSE
        /\ pending' = {Request(FreshId, "initialize")}
        /\ pending' \subseteq [id : Ids, about : Topics] /\ IsFiniteSet(pending')
        /\ Once(None, pending', Replies(inbox))
    BY <1>0, <2>1, <2>2, Sent DEF Topics
  <2>4. PipeInv'
    BY <1>0, <2>1, <2>3, Bounds DEF PipeInv, Asks, Replies
  <2>5. CallInv'
    BY <1>0, <2>1, <2>3 DEF CallInv
  <2>6. MatchInv'
    BY <2>1, <2>2, <2>3 DEF MatchInv, Request
  <2>7. WaitInv' /\ answer' = None
    BY <1>0, <2>1 DEF WaitInv, AnswerInv
  <2> QED
    BY <2>4, <2>5, <2>6, <2>7, NoAnswer DEF IInv
<1>2. CASE SendRequest
  <2>1. /\ pc = "send" /\ pc' = "recv" /\ child = "up" /\ Send(asked) /\ asked \in Topics
        /\ ours' = {r.id : r \in {p \in pending : p.id \in ours}} \cup {FreshId}
        /\ attempt' = IF tool = "query" THEN attempt + 1 ELSE attempt
        /\ UNCHANGED <<tool, asked, over, digest, stable, child, inbox, index, answer>>
    BY <1>0, <1>2 DEF SendRequest, CallInv
  <2>2. Few(pending) /\ Cardinality(pending) <= MaxAbandoned + 1
    <3>1. Few(pending) /\ Cardinality(pending) \in Nat
      BY <1>0, <2>1, FS_CardinalityType DEF MatchInv, PipeInv
    <3> QED
      BY <3>1, Bounds DEF Few
  <2>3. /\ waiting' = FreshId /\ waiting' \in Ids /\ waiting' # None /\ late' = FALSE
        /\ {r \in pending' : r.id # waiting'} = pending
        /\ pending' \subseteq [id : Ids, about : Topics] /\ IsFiniteSet(pending')
        /\ Once(None, pending', Replies(inbox))
        /\ \A r \in pending' : r.id = waiting' => r.about = asked
        /\ \A i \in 1..Len(inbox) : ~Asks(i) => inbox[i].id # waiting'
    BY <1>0, <2>1, <2>2, Sent
  <2>4. ours' \subseteq Ids /\ (tool = "query" => ours' = {FreshId})
    BY <1>0, <2>1, <2>3 DEF PipeInv, MatchInv
  <2>5. PipeInv'
    BY <1>0, <2>1, <2>3 DEF PipeInv, Asks, Replies
  <2>6. CallInv'
    <3>1. attempt' \in 0..RetryBudget /\ (tool # "query" => attempt' = 0)
      BY <1>0, <2>1, Bounds DEF CallInv
    <3> QED
      BY <1>0, <2>1, <2>3, <2>4, <3>1 DEF CallInv
  <2>7. MatchInv'
    BY <2>1, <2>2, <2>3, <2>4 DEF MatchInv, Few, Quiet, Asks
  <2>8. WaitInv' /\ answer' = None
    BY <1>0, <2>1 DEF WaitInv, AnswerInv
  <2> QED
    BY <2>5, <2>6, <2>7, <2>8, NoAnswer DEF IInv
<1> QED
  BY <1>1, <1>2

\* The awaited answer has been read and the call goes on to a request.
LEMMA ToSend ==
  ASSUME IInv, pc \in {"handshake", "recv"}, inbox # <<>>, Head(inbox).id = waiting, Take,
         pc' = "send", UNCHANGED <<tool, asked, attempt, over, ours>>, attempt < RetryBudget,
         waiting' \in {waiting, None}, late' \in BOOLEAN,
         pc = "recv" /\ tool = "query" => Head(inbox).kind # "request"
  PROVE  PipeInv' /\ CallInv' /\ MatchInv'
<1>1. PipeInv'
  BY Taken DEF IInv
<1>2. CallInv'
  BY DEF IInv, CallInv
<1>3. MatchInv'
  BY OwnTaken DEF MatchInv, IInv, CallInv
<1> QED
  BY <1>1, <1>2, <1>3

LEMMA InvReads ==
  ASSUME IInv, HandshakeSkip \/ HandshakeDone \/ Skip \/ QueryAnswered \/ QueryTransient
  PROVE  IInv'
<1>0. PipeInv /\ CallInv /\ MatchInv /\ WaitInv /\ AnswerInv
  BY DEF IInv
<1>1. CASE HandshakeSkip \/ Skip
  <2>1. Take /\ inbox # <<>> /\ pc # "idle"
        /\ UNCHANGED <<pc, tool, asked, attempt, waiting, late, over, digest, stable, answer, ours>>
    BY <1>1 DEF HandshakeSkip, Skip, Unrelated, call, history
  <2>2. PipeInv' /\ pending' = pending /\ (Quiet' \/ ~Quiet)
        /\ \A i \in 1..Len(inbox') : inbox'[i] \in {inbox[j] : j \in 1..Len(inbox)}
    BY <1>0, <2>1, Taken
  <2>3. MatchInv'
    BY <2>1, <2>2, MatchKept
  <2>4. CallInv' /\ WaitInv' /\ answer' = None
    BY <1>0, <2>1 DEF CallInv, WaitInv, AnswerInv
  <2> QED
    BY <2>2, <2>3, <2>4, NoAnswer DEF IInv
<1>2. CASE HandshakeDone
  <2>1. pc = "handshake" /\ inbox # <<>> /\ Head(inbox).id = waiting /\ Take
    BY <1>2 DEF HandshakeDone, IsOwn
  <2>2. CASE Succeeds(Head(inbox)) /\ child = "up"
    <3>1. /\ pc' = "send" /\ waiting' = None /\ late' = FALSE
          /\ UNCHANGED <<tool, asked, attempt, over, digest, stable, answer, ours>>
      BY <1>2, <2>2 DEF HandshakeDone
    <3>2. PipeInv' /\ CallInv' /\ MatchInv'
      <4>1. attempt < RetryBudget
        BY <1>0, <2>1, Bounds DEF CallInv
      <4> QED
        BY <2>1, <3>1, <4>1, ToSend
    <3>3. WaitInv' /\ answer' = None
      BY <1>0, <2>1, <3>1 DEF WaitInv, AnswerInv
    <3> QED
      BY <3>2, <3>3, NoAnswer DEF IInv
  <2>3. CASE ~(Succeeds(Head(inbox)) /\ child = "up")
    <3>1. \E kind \in {"lost", "error"} : Return(kind, None)
      BY <1>2, <2>3 DEF HandshakeDone
    <3>2. PipeInv'
      BY <1>0, <2>1, Taken
    <3> QED
      BY <2>1, <3>1, <3>2, Returned, ReturnedPlain DEF IInv
  <2> QED
    BY <2>2, <2>3
<1>3. CASE QueryAnswered
  <2>1. /\ pc = "recv" /\ inbox # <<>> /\ Head(inbox).id = waiting /\ tool = "query" /\ Take
    BY <1>3 DEF QueryAnswered, Own, IsOwn
  <2>2. PipeInv' /\ Head(inbox).about \in {asked, None}
    BY <1>0, <2>1, Taken, OwnTaken
  <2>3. CASE Succeeds(Head(inbox))
    <3>1. Return("ok", Head(inbox).about)
      BY <1>3, <2>3 DEF QueryAnswered
    <3>2. AnswerInv'
      BY <2>2, <3>1 DEF Return, AnswerInv, NoForeignAnswer, Outcomes
    <3> QED
      BY <2>1, <2>2, <3>1, <3>2, Returned DEF IInv
  <2>4. CASE ~Succeeds(Head(inbox))
    <3>1. Return("error", None)
      BY <1>3, <2>4 DEF QueryAnswered
    <3> QED
      BY <2>1, <2>2, <3>1, Returned, ReturnedPlain DEF IInv
  <2> QED
    BY <2>3, <2>4
<1>4. CASE QueryTransient
  <2>1. /\ pc = "recv" /\ inbox # <<>> /\ Head(inbox).id = waiting /\ tool = "query" /\ Take
        /\ Head(inbox).kind = "transient"
    BY <1>4 DEF QueryTransient, Own, IsOwn, Retryable
  <2>2. CASE attempt < RetryBudget
    <3>1. /\ pc' = "send"
          /\ UNCHANGED <<tool, asked, attempt, waiting, late, over, digest, stable, answer, ours>>
      BY <1>4, <2>2 DEF QueryTransient, AttemptsLeft, call
    <3>2. PipeInv' /\ CallInv' /\ MatchInv'
      <4>1. late' \in BOOLEAN
        BY <1>0, <3>1 DEF CallInv
      <4> QED
        BY <2>1, <2>2, <3>1, <4>1, ToSend
    <3>3. WaitInv' /\ answer' = None
      BY <1>0, <2>1, <3>1 DEF WaitInv, AnswerInv
    <3> QED
      BY <3>2, <3>3, NoAnswer DEF IInv
  <2>3. CASE ~(attempt < RetryBudget)
    <3>1. Return("transient", None)
      BY <1>4, <2>3 DEF QueryTransient, AttemptsLeft
    <3>2. PipeInv'
      BY <1>0, <2>1, Taken
    <3> QED
      BY <2>1, <3>1, <3>2, Returned, ReturnedPlain DEF IInv
  <2> QED
    BY <2>2, <2>3
<1> QED
  BY <1>1, <1>2, <1>3, <1>4

\* A sample of wait_for_indexing.
LEMMA InvSampled ==
  ASSUME IInv, Sampled
  PROVE  IInv'
<1> DEFINE sample == Sample(Head(inbox))
<1>0. PipeInv /\ CallInv /\ MatchInv /\ WaitInv /\ AnswerInv
  BY DEF IInv
<1>1. pc = "recv" /\ inbox # <<>> /\ Head(inbox).id = waiting /\ tool = "wait" /\ Take
  BY DEF Sampled, Own, IsOwn
<1>2. PipeInv' /\ sample \in Samples
  BY <1>0, <1>1, Taken, Bounds DEF Sample, Samples, Messages
<1> HIDE DEF sample
<1>5. CASE sample = digest /\ stable + 1 >= 2 /\ Return("settled", None)
  <2>1. AnswerInv'
    BY <1>5 DEF Return, AnswerInv, NoForeignAnswer, Outcomes
  <2>2. CallInv'
    <3>1. late' \in BOOLEAN /\ over' \in BOOLEAN
      BY <1>5 DEF Return
    <3>2. /\ pc' = "idle" /\ tool' = None /\ asked' = None /\ attempt' = 0 /\ waiting' = None
          /\ ours' = {}
      BY <1>5 DEF Return
    <3> QED
      BY <3>1, <3>2, Bounds DEF CallInv
  <2>3. MatchInv' /\ WaitInv'
    BY <1>5, Bounds DEF Return, MatchInv, WaitInv
  <2> QED
    BY <1>2, <2>1, <2>2, <2>3 DEF IInv
<1>6. ASSUME pc' = "send", UNCHANGED <<tool, asked, attempt, waiting, late, over, answer, ours>>, WaitInv'
      PROVE  IInv'
  <2>1. attempt < RetryBudget /\ late' \in BOOLEAN
    BY <1>0, <1>1, <1>6, Bounds DEF CallInv
  <2>2. PipeInv' /\ CallInv' /\ MatchInv'
    BY <1>1, <1>6, <2>1, ToSend
  <2>3. answer' = None
    BY <1>0, <1>1, <1>6 DEF AnswerInv
  <2> QED
    BY <1>6, <2>2, <2>3, NoAnswer DEF IInv
<1>7. CASE /\ sample = digest /\ stable + 1 < 2 /\ stable' = stable + 1 /\ pc' = "send"
           /\ UNCHANGED <<tool, asked, attempt, waiting, late, over, digest, answer, ours>>
  <2>1. WaitInv'
    BY <1>0, <1>7 DEF WaitInv
  <2> QED
    BY <1>6, <1>7, <2>1
<1>8. CASE /\ sample # digest /\ stable' = 0 /\ digest' = sample /\ pc' = "send"
           /\ UNCHANGED <<tool, asked, attempt, waiting, late, over, answer, ours>>
  <2>1. WaitInv'
    BY <1>2, <1>8 DEF WaitInv
  <2> QED
    BY <1>6, <1>8, <2>1
<1> QED
  BY <1>5, <1>7, <1>8 DEF Sampled, sample, history

\* The clock.
LEMMA InvClock ==
  ASSUME IInv, Deadline \/ PollDeadline
  PROVE  IInv'
<1>1. /\ UNCHANGED <<pc, tool, asked, attempt, waiting, digest, stable, child, inbox, pending, index,
                     answer, ours>>
      /\ late' \in {late, TRUE} /\ over' \in {over, TRUE}
  BY DEF Deadline, PollDeadline, server, history
<1>2. late' \in BOOLEAN /\ over' \in BOOLEAN
  BY <1>1 DEF IInv, CallInv
<1> QED
  BY <1>1, <1>2 DEF IInv, PipeInv, Asks, Quiet, Replies, Few, CallInv, MatchInv, WaitInv, AnswerInv,
                    NoForeignAnswer

\* rust-analyzer.
LEMMA InvServer ==
  ASSUME IInv, Answers \/ Notify \/ ServerRequest \/ Grow \/ Die
  PROVE  IInv'
<1>0. PipeInv
  BY DEF IInv
<1>1. UNCHANGED <<pc, tool, asked, attempt, waiting, late, over, digest, stable, answer, ours>>
  BY DEF Answers, Answer, Notify, ServerRequest, Grow, Die, call, history
<1>2. CallInv' /\ WaitInv' /\ AnswerInv'
  BY <1>1 DEF IInv, CallInv, WaitInv, AnswerInv, NoForeignAnswer
<1>3. ASSUME NEW m \in Messages, Says(m), pending' \subseteq pending,
             \/ /\ m.kind # "request" /\ \A p \in pending' : p.id # m.id
                /\ m.id = None \/ \E p \in pending : p.id = m.id /\ p.about = m.about
             \/ /\ m.kind = "request" /\ m.about = None
                /\ Quiet /\ Cardinality(pending) <= MaxAbandoned,
             UNCHANGED <<child, index>>
      PROVE  PipeInv' /\ MatchInv'
  <2>1. /\ inbox' \in Seq(Messages) /\ Len(inbox') = Len(inbox) + 1 /\ inbox'[Len(inbox) + 1] = m
        /\ \A i \in 1..Len(inbox) : inbox'[i] = inbox[i]
        /\ Len(inbox) < MaxInbox /\ child = "up" /\ Len(inbox) \in Nat
    BY <1>0, <1>3, AppendProperties, LenProperties DEF Says, PipeInv
  <2>2. Once(None, pending', Replies(inbox'))
    <3>1. /\ Reply(m) \in Messages /\ Reply(m).id = IF m.kind = "request" THEN None ELSE m.id
          /\ Replies(inbox) \in Seq(Messages)
      BY <1>0, <1>3, ReplyType, RepliesType DEF PipeInv
    <3>2. Replies(inbox') = Append(Replies(inbox), Reply(m))
      BY <1>0, <1>3, RepliesAppend DEF Says, PipeInv
    <3>3. Reply(m).id = None \/ \E p \in pending : p.id = Reply(m).id
      BY <1>3, <3>1
    <3>4. \A p \in pending' : p.id # Reply(m).id
      BY <1>0, <1>3, <3>1, Bounds DEF PipeInv
    <3> QED
      BY <1>0, <1>3, <3>1, <3>2, <3>3, <3>4, OnceSays DEF PipeInv
  <2>3. IsFiniteSet(pending')
    BY <1>0, <1>3, FS_Subset DEF PipeInv
  <2>4. \A i \in 1..Len(inbox') : i \in 1..Len(inbox) \/ i = Len(inbox) + 1
    BY <2>1
  <2>5. \A i \in 1..Len(inbox') :
           Asks(i)' <=> IF i \in 1..Len(inbox) THEN Asks(i) ELSE m.kind = "request"
    BY <2>1, <2>4 DEF Asks
  <2>6. PipeInv'
    <3>1. /\ \A i \in 1..Len(inbox') : Asks(i)' => inbox'[i].about = None
          /\ \A i, j \in 1..Len(inbox') : Asks(i)' /\ Asks(j)' => i = j
      BY <1>0, <1>3, <2>1, <2>4, <2>5 DEF PipeInv, Quiet
    <3> QED
      BY <1>0, <1>3, <2>1, <2>2, <2>3, <3>1, Bounds DEF PipeInv
  <2>7. \A i \in 1..Len(inbox') :
           \/ inbox'[i] \in {inbox[j] : j \in 1..Len(inbox)}
           \/ inbox'[i].id = None \/ inbox'[i].kind = "request"
           \/ \E r \in pending : r.id = inbox'[i].id /\ r.about = inbox'[i].about
    BY <1>3, <2>1, <2>4
  <2>8. Quiet' \/ ~Quiet \/ Cardinality(pending) <= MaxAbandoned
    BY <1>3, <2>4, <2>5 DEF Quiet
  <2> QED
    BY <1>1, <1>3, <2>6, <2>7, <2>8, MatchKept
<1>4. ASSUME NEW r \in pending, NEW kind \in {"result", "transient", "error"}, Answer(r, kind)
      PROVE  PipeInv' /\ MatchInv'
  <2> DEFINE m == [id |-> r.id, kind |-> kind, about |-> r.about,
                   seen |-> IF r.about = "symbols" /\ kind = "result" THEN index ELSE 0]
  <2>1. r.id \in Ids /\ r.about \in Topics /\ index \in 0..MaxIndex /\ 0 \in 0..MaxIndex
    BY <1>0, Bounds DEF PipeInv
  <2>2. m \in Messages /\ m.id = r.id /\ m.about = r.about /\ m.kind # "request"
    BY <2>1 DEF Messages, Topics
  <2>3. Says(m) /\ pending' = pending \ {r} /\ UNCHANGED <<child, index>>
    BY <1>4 DEF Answer
  <2>4. \A p \in pending' : p.id # r.id
    BY <1>0, <2>3 DEF PipeInv, Once
  <2> HIDE DEF m
  <2> QED
    BY <1>3, <2>2, <2>3, <2>4
<1>5. CASE Answers
  <2>1. PICK r \in pending, kind \in {"result", "transient", "error"} : Answer(r, kind)
    BY <1>5 DEF Answers, Kinds
  <2> QED
    BY <1>2, <1>4, <2>1 DEF IInv
<1>6. CASE Notify
  <2> DEFINE m == [id |-> None, kind |-> "note", about |-> None, seen |-> 0]
  <2>1. m \in Messages /\ m.id = None /\ m.kind # "request"
    BY Bounds DEF Messages
  <2>2. Says(m) /\ pending' = pending /\ UNCHANGED <<child, index>>
    BY <1>6 DEF Notify
  <2>3. \A p \in pending : p.id # None
    BY <1>0, Bounds DEF PipeInv
  <2> HIDE DEF m
  <2> QED
    BY <1>2, <1>3, <2>1, <2>2, <2>3 DEF IInv
<1>7. CASE Grow
  <2>1. index' \in 0..MaxIndex /\ UNCHANGED <<child, inbox, pending>>
    BY <1>0, <1>7, Bounds DEF Grow, PipeInv
  <2>2. PipeInv' /\ MatchInv'
    BY <1>0, <1>1, <2>1 DEF PipeInv, Asks, Quiet, Replies, Few, MatchInv, IInv
  <2> QED
    BY <1>2, <2>2 DEF IInv
<1>8. CASE Die
  <2>1. PipeInv'
    BY <1>0, <1>8, OnceLess, FS_EmptySet, Bounds DEF Die, PipeInv, Asks, Replies
  <2>2. MatchInv'
    BY <1>1, <1>8, MatchKept DEF Die, Quiet, Asks
  <2> QED
    BY <1>2, <2>1, <2>2 DEF IInv
<1>9. CASE ServerRequest
  <2>1. PICK id \in Ids : Says([id |-> id, kind |-> "request", about |-> None, seen |-> 0])
    BY <1>9 DEF ServerRequest
  <2> DEFINE m == [id |-> id, kind |-> "request", about |-> None, seen |-> 0]
  <2>2. m \in Messages /\ m.kind = "request" /\ m.about = None
    BY Bounds DEF Messages
  <2>3. Says(m) /\ pending' = pending /\ UNCHANGED <<child, index>>
    BY <1>9, <2>1 DEF ServerRequest
  <2>4. Quiet /\ Cardinality(pending) <= MaxAbandoned
    BY <1>0, <1>9, LenProperties DEF ServerRequest, Quiet, Asks, PipeInv
  <2> HIDE DEF m
  <2> QED
    BY <1>2, <1>3, <2>2, <2>3, <2>4 DEF IInv
<1> QED
  BY <1>5, <1>6, <1>7, <1>8, <1>9

LEMMA InvNext == IInv /\ [Next]_vars => IInv'
<1> SUFFICES ASSUME IInv, [Next]_vars PROVE IInv'
  OBVIOUS
<1>1. CASE UNCHANGED vars
  BY <1>1 DEF vars, call, server, history, IInv, PipeInv, Asks, Quiet, Replies, Few, CallInv,
              MatchInv, WaitInv, AnswerInv,
              NoForeignAnswer
<1> QED
  BY <1>1, InvEnds, InvCalls, InvSends, InvReads, InvSampled, InvClock, InvServer
  DEF Next, Client, Ends

LEMMA Invariant == Spec => []IInv
<1>1. IInv /\ [Next]_vars => IInv'
  BY InvNext
<1> QED
  BY InvInit, <1>1, PTL DEF Spec

(* The state stays well typed: there is always an id for the next request. *)
THEOREM TypeCorrect == Spec => []TypeOK
BY Invariant, IInvMeans, PTL

(* A caller never gets the answer to another question than its own: no     *)
(* answer in the pipe has the id of a request it does not answer, however  *)
(* many requests were given up before and whatever the server asks.        *)
THEOREM OwnAnswer == Spec => []NoForeignAnswer
BY Invariant, IInvMeans, PTL

(* A query never has two requests under way: it sends another one only     *)
(* when it has read the answer to the last.                                *)
THEOREM AskedOnce == Spec => []NoDoubleAsk
BY Invariant, IInvMeans, PTL

==============================================================================
