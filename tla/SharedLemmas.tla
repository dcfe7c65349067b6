----------------------------- MODULE SharedLemmas ----------------------------
(***************************************************************************)
(* Facts that several proofs use: the least of some numbers and induction  *)
(* over the places of a sequence, and how the requests and answers of a    *)
(* language server's pipe keep their ids apart, for the clients of         *)
(* rust-analyzer and clangd.                                               *)
(***************************************************************************)
EXTENDS Integers, Sequences, FiniteSets, SequenceTheorems, FiniteSetTheorems,
        WellFoundedInduction, TLAPS

-----------------------------------------------------------------------------
(* Induction, as the least of what a claim is wrong for.                   *)

\* Some number of a set is the least.
LEMMA NatLess ==
  ASSUME NEW T, T \subseteq Nat, T # {}
  PROVE  \E x \in T : \A y \in T : x <= y
<1> DEFINE Less == OpToRel(<, Nat)
<1>1. IsWellFoundedOn(Less, Nat)
  BY NatLessThanWellFounded
<1>2. \A x, y \in Nat : <<x, y>> \in Less <=> x < y
  BY DEF OpToRel
<1> HIDE DEF Less
<1>3. PICK x \in T : \A y \in T : ~(<<y, x>> \in Less)
  BY <1>1, WFMin, Zenon
<1>4. \A y \in T : y \in Nat /\ x \in Nat /\ ~(y < x)
  BY <1>2, <1>3
<1> QED
  BY <1>4

\* A sequence has a length.
LEMMA Lengths ==
  ASSUME NEW S, NEW s \in Seq(S)
  PROVE  Len(s) \in Nat
OBVIOUS

\* Sequences are equal when they have the same elements.
LEMMA SameSequence ==
  ASSUME NEW S, NEW T, NEW s \in Seq(S), NEW t \in Seq(T), Len(s) = Len(t),
         \A i \in 1..Len(t) : s[i] = t[i]
  PROVE  s = t
<1>1. PICK n \in Nat : n = Len(s) /\ n = Len(t)
  BY Lengths
<1>2. s = [i \in 1..n |-> s[i]]
  BY <1>1
<1>3. t = [i \in 1..n |-> t[i]]
  BY <1>1
<1>4. \A i \in 1..n : s[i] = t[i]
  BY <1>1
<1> QED
  BY <1>2, <1>3, <1>4

\* Induction over the places of a sequence.
LEMMA UpToAll ==
  ASSUME NEW n \in Nat, NEW ok, 0 \in ok, \A k \in 1..n : k - 1 \in ok => k \in ok
  PROVE  \A k \in 0..n : k \in ok
<1> DEFINE bad == {k \in 0..n : k \notin ok}
<1>1. SUFFICES ASSUME bad # {} PROVE FALSE
  OBVIOUS
<1>2. PICK k \in bad : \A j \in bad : k <= j
  <2>1. bad \subseteq Nat
    OBVIOUS
  <2> HIDE DEF bad
  <2> QED
    BY <1>1, <2>1, NatLess
<1>3. k \in 1..n /\ k - 1 \in 0..n /\ k - 1 < k
  OBVIOUS
<1>4. k - 1 \notin bad
  BY <1>2, <1>3
<1> QED
  BY <1>2, <1>3, <1>4

-----------------------------------------------------------------------------
(* Counting.                                                               *)

\* A function has at most as many values as arguments.
LEMMA ImageSmall ==
  ASSUME NEW S, IsFiniteSet(S), NEW f, DOMAIN f = S
  PROVE  LET T == {f[x] : x \in S} IN IsFiniteSet(T) /\ Cardinality(T) <= Cardinality(S)
<1> DEFINE T == {f[x] : x \in S}
           g == [x \in S |-> f[x]]
<1>1. g \in Surjection(S, T)
  BY DEF Surjection
<1> QED
  BY <1>1, FS_Surjection

LEMMA FirstNumbers ==
  ASSUME NEW n \in Nat
  PROVE  IsFiniteSet(1..n) /\ Cardinality(1..n) = n
BY FS_Interval

\* Fewer values than numbers leave a number free.
LEMMA SomeFree ==
  ASSUME NEW n \in Nat, NEW U, IsFiniteSet(U), Cardinality(U) < n
  PROVE  \E i \in 1..n : i \notin U
<1>1. IsFiniteSet(1..n) /\ Cardinality(1..n) = n
  BY FirstNumbers
<1>2. SUFFICES ASSUME 1..n \subseteq U PROVE FALSE
  OBVIOUS
<1>3. Cardinality(1..n) <= Cardinality(U)
  BY <1>2, FS_Subset
<1>4. Cardinality(U) \in Nat
  BY FS_CardinalityType
<1> QED
  BY <1>1, <1>3, <1>4

-----------------------------------------------------------------------------
(* Requests and messages.                                                  *)


\* Requests that have been sent and messages that have not been read leave an
\* id free.
LEMMA FreshExists ==
  ASSUME NEW pending, IsFiniteSet(pending), NEW M, NEW inbox \in Seq(M),
         NEW n \in Nat, Cardinality(pending) + Len(inbox) < n
  PROVE  \E id \in 1..n : /\ \A r \in pending : r.id # id
                          /\ \A i \in DOMAIN inbox : inbox[i].id # id
<1> DEFINE P == {r.id : r \in pending}
           Q == {inbox[i].id : i \in 1..Len(inbox)}
           f == [r \in pending |-> r.id]
           g == [i \in 1..Len(inbox) |-> inbox[i].id]
<1>1. IsFiniteSet(P) /\ Cardinality(P) <= Cardinality(pending)
  <2>1. DOMAIN f = pending /\ P = {f[r] : r \in pending}
    OBVIOUS
  <2> HIDE DEF P, f
  <2> QED
    BY <2>1, ImageSmall
<1>2. IsFiniteSet(Q) /\ Cardinality(Q) <= Len(inbox)
  <2>1. DOMAIN g = 1..Len(inbox) /\ Q = {g[i] : i \in 1..Len(inbox)}
    OBVIOUS
  <2>2. IsFiniteSet(1..Len(inbox)) /\ Cardinality(1..Len(inbox)) = Len(inbox)
    <3>1. Len(inbox) \in Nat
      BY LenProperties
    <3> QED
      BY <3>1, FirstNumbers
  <2> HIDE DEF Q, g
  <2> QED
    BY <2>1, <2>2, ImageSmall
<1>3. IsFiniteSet(P \cup Q) /\ Cardinality(P \cup Q) < n
  <2>1. Cardinality(P) \in Nat /\ Cardinality(Q) \in Nat /\ Cardinality(pending) \in Nat
        /\ Len(inbox) \in Nat
    BY <1>1, <1>2, FS_CardinalityType, LenProperties
  <2>2. IsFiniteSet(P \cap Q) /\ Cardinality(P \cap Q) \in Nat
    BY <1>1, FS_Intersection, FS_CardinalityType
  <2>3. IsFiniteSet(P \cup Q)
        /\ Cardinality(P \cup Q) = Cardinality(P) + Cardinality(Q) - Cardinality(P \cap Q)
    BY <1>1, <1>2, FS_Union
  <2> HIDE DEF P, Q
  <2> QED
    BY <1>1, <1>2, <2>1, <2>2, <2>3
<1>4. PICK id \in 1..n : id \notin P \cup Q
  <2> HIDE DEF P, Q
  <2> QED
    BY <1>3, SomeFree
<1> QED
  BY <1>4, LenProperties

-----------------------------------------------------------------------------
(* Requests and messages.                                                  *)

\* No id is under way twice; messages without an id do not count.
Once(none, pending, inbox) ==
  /\ \A p, q \in pending : p.id = q.id => p = q
  /\ \A i, j \in 1..Len(inbox) : inbox[i].id = inbox[j].id /\ inbox[i].id # none => i = j
  /\ \A p \in pending, i \in 1..Len(inbox) : inbox[i].id # p.id

LEMMA OnceSend ==
  ASSUME NEW none, NEW pending, NEW M, NEW inbox \in Seq(M), Once(none, pending, inbox),
         NEW r, \A p \in pending : p.id # r.id,
         \A i \in 1..Len(inbox) : inbox[i].id # r.id
  PROVE  Once(none, pending \cup {r}, inbox)
BY DEF Once

\* A request is answered, or a message without an id is sent.
LEMMA OnceSays ==
  ASSUME NEW none, NEW pending, NEW M, NEW inbox \in Seq(M), Once(none, pending, inbox), NEW m \in M,
         NEW rest, rest \subseteq pending, \A p \in rest : p.id # m.id,
         m.id = none \/ \E p \in pending : p.id = m.id
  PROVE  Once(none, rest, Append(inbox, m))
<1>1. /\ Len(Append(inbox, m)) = Len(inbox) + 1 /\ Append(inbox, m)[Len(inbox) + 1] = m
      /\ \A i \in 1..Len(inbox) : Append(inbox, m)[i] = inbox[i]
  BY AppendProperties
<1>2. \A i \in 1..Len(inbox) + 1 : i \in 1..Len(inbox) \/ i = Len(inbox) + 1
  BY LenProperties
<1>3. m.id = none \/ \A i \in 1..Len(inbox) : inbox[i].id # m.id
  BY DEF Once
<1>4. \A i, j \in 1..Len(inbox) + 1 :
         Append(inbox, m)[i].id = Append(inbox, m)[j].id /\ Append(inbox, m)[i].id # none => i = j
  BY <1>1, <1>2, <1>3 DEF Once
<1>5. \A p \in rest, i \in 1..Len(inbox) + 1 : Append(inbox, m)[i].id # p.id
  BY <1>1, <1>2 DEF Once
<1> QED
  BY <1>1, <1>4, <1>5 DEF Once

LEMMA OnceTake ==
  ASSUME NEW none, NEW pending, NEW M, NEW inbox \in Seq(M), Once(none, pending, inbox), inbox # <<>>
  PROVE  /\ Once(none, pending, Tail(inbox))
         /\ Head(inbox).id # none => \A i \in 1..Len(Tail(inbox)) : Tail(inbox)[i].id # Head(inbox).id
         /\ \A p \in pending : Head(inbox).id # p.id
<1>1. /\ Len(Tail(inbox)) = Len(inbox) - 1 /\ Len(inbox) \in Nat \ {0} /\ Head(inbox) = inbox[1]
      /\ \A i \in 1..Len(Tail(inbox)) : Tail(inbox)[i] = inbox[i + 1]
  BY HeadTailProperties, EmptySeq, LenProperties
<1>2. \A i \in 1..Len(Tail(inbox)) : i + 1 \in 1..Len(inbox) /\ i + 1 # 1
  BY <1>1
<1>3. 1 \in 1..Len(inbox)
  BY <1>1
<1>4. \A i, j \in 1..Len(Tail(inbox)) : i + 1 = j + 1 => i = j
  BY <1>1
<1> QED
  BY <1>1, <1>2, <1>3, <1>4 DEF Once

LEMMA OnceNothing ==
  ASSUME NEW none
  PROVE  Once(none, {}, <<>>)
BY DEF Once

\* Less under way.
LEMMA OnceLess ==
  ASSUME NEW none, NEW pending, NEW inbox, Once(none, pending, inbox), NEW rest \in SUBSET pending
  PROVE  Once(none, rest, inbox) /\ Once(none, rest, <<>>)
BY DEF Once

==============================================================================
