---------------------------- MODULE WtServerProofs ----------------------------
(***************************************************************************)
(* What is proved of wtpool's server for every set of slots and tasks and  *)
(* every TTL, with any overlap of reads, loans, releases, leases and       *)
(* crashes: the state is well typed, a cached answer is not older than it  *)
(* may be, and a slot that was released shows no lease from before.  Of    *)
(* the leases, for every pattern, path, day and request: globs match what  *)
(* they say, dates and day numbers correspond, and emit, get and check     *)
(* agree.  And of the summary of the agents, for every file system: it     *)
(* tells what the files do.                                                *)
(***************************************************************************)
EXTENDS WtRules, SharedLemmas

-----------------------------------------------------------------------------
(* Typing.  A server that reads has something to read.                     *)

ReadsKey == /\ pc = "read" => key \in Keys
            /\ pc = "idle" => seen = <<>>
            /\ seen = [s \in DOMAIN seen |-> seen[s]]

\* What may be answered for k.
Kind(k) == IF k = List THEN [Slots -> Tenants] ELSE Tenants

\* What the server's steps assign.
CacheTyped ==
  /\ DOMAIN cache \subseteq Keys
  /\ \A k \in DOMAIN cache : cache[k] \in [value : Kind(k), age : 0..TTL + 1]

CallTyped ==
  /\ pc \in {"idle", "read"} /\ key \in Keys \cup {None} /\ spent \in 0..MaxCompute
  /\ DOMAIN seen \subseteq Slots /\ \A s \in DOMAIN seen : seen[s] \in Tenants
  /\ answer = None \/ (answer.key \in Keys /\ answer.value \in Values \cup {Failure})
  /\ ReadsKey

\* What the tasks' steps assign.
DiskTyped ==
  /\ tenant \in [Slots -> Tenants] /\ edits \subseteq Slots
  /\ \A a, b \in Slots : a # b /\ tenant[a] # None => tenant[a] # tenant[b]
  /\ lease \in [Slots -> Tenants]
  /\ tmp \in [Tasks -> {None} \cup (Slots \X {"there", "wiped"})]
  /\ rel \in [Slots -> Steps] /\ old \subseteq Slots \cup Tasks

SinceTyped == since \in [Slots \X Tenants -> 0..Limit]

Typed == CacheTyped /\ CallTyped /\ DiskTyped /\ SinceTyped

LEMMA TypedMeans == Typed => TypeOK
BY DEF Typed, TypeOK, CacheTyped, CallTyped, DiskTyped, SinceTyped, Kind

LEMMA NoneSeen == DOMAIN <<>> = {}
OBVIOUS

LEMMA LimitNat == Limit \in Nat /\ TTL \in Nat /\ MaxCompute \in Nat
BY ServerAssumption DEF Limit

LEMMA TypeInit == Init => Typed
<1> SUFFICES ASSUME Init PROVE Typed
  OBVIOUS
<1>1. DOMAIN cache = {} /\ DOMAIN seen = {}
  BY NoneSeen DEF Init
<1>2. /\ tenant \in [Slots -> {None}] /\ edits = {}
      /\ lease \in [Slots -> {None}] /\ tmp \in [Tasks -> {None}]
      /\ rel \in [Slots -> Steps] /\ old = {}
  BY DEF Init, Steps
<1>3. since \in [Slots \X Tenants -> 0..Limit]
  BY LimitNat DEF Init
<1>4. pc = "idle" /\ key = None /\ spent = 0 /\ answer = None /\ seen = <<>>
  BY DEF Init
<1> QED
  BY <1>1, <1>2, <1>3, <1>4, LimitNat DEF Typed, CacheTyped, CallTyped, DiskTyped, SinceTyped, ReadsKey, Tenants

LEMMA AskedKeys == Asked \subseteq Keys
BY ServerAssumption DEF Keys

LEMMA KindIsValue ==
  ASSUME NEW k, NEW v \in Kind(k)
  PROVE  v \in Values
BY DEF Kind, Values

LEMMA IdleTyped ==
  ASSUME pc' = "idle", key' = None, seen' = <<>>, spent' = 0,
         answer' = None \/ (answer'.key \in Keys /\ answer'.value \in Values \cup {Failure})
  PROVE  CallTyped'
<1>1. DOMAIN seen' = {}
  BY NoneSeen
<1> QED
  BY <1>1, LimitNat DEF CallTyped, ReadsKey

LEMMA TypeServer ==
  ASSUME Typed, Server \/ Fail
  PROVE  Typed'
<1>0. CacheTyped /\ CallTyped /\ DiskTyped /\ SinceTyped
  BY DEF Typed
<1>1. DiskTyped' /\ SinceTyped'
  BY <1>0 DEF Server, Ask, Hit, Miss, ReadSlot, Compose, Fail, disk, release, DiskTyped, SinceTyped
<1>2. ASSUME NEW k \in Keys, Hit(k) PROVE CacheTyped' /\ CallTyped'
  <2>1. cache' = cache /\ k \in DOMAIN cache /\ answer' = [key |-> k, value |-> cache[k].value]
    BY <1>2 DEF Hit, Fresh, CacheKey, AfterHit
  <2>2. answer'.key \in Keys /\ answer'.value \in Values
    BY <1>0, <2>1, KindIsValue DEF CacheTyped
  <2> QED
    BY <1>0, <1>2, <2>1, <2>2 DEF Hit, call, CacheTyped, CallTyped, ReadsKey
<1>3. ASSUME NEW k \in Keys, Miss(k) PROVE CacheTyped' /\ CallTyped'
  BY <1>0, <1>3, NoneSeen, LimitNat DEF Miss, CacheTyped, CallTyped, ReadsKey
<1>4. ASSUME NEW s \in Slots, ReadSlot(s) PROVE CacheTyped' /\ CallTyped'
  BY <1>0, <1>4 DEF ReadSlot, Facts, CacheTyped, DiskTyped, CallTyped, ReadsKey
<1>5. CASE Compose
  <2> DEFINE value == IF key = List THEN seen ELSE seen[key]
  <2>1. key \in Keys /\ DOMAIN seen = Wanted /\ Insert(value)
    BY <1>0, <1>5 DEF Compose, CallTyped, ReadsKey
  <2>2. value \in Kind(key)
    <3>1. CASE key = List
      BY <1>0, <2>1, <3>1 DEF Kind, Wanted, CallTyped, ReadsKey
    <3>2. CASE key # List
      BY <1>0, <2>1, <3>2 DEF Kind, Wanted, CallTyped
    <3> QED
      BY <3>1, <3>2
  <2>3. answer'.key \in Keys /\ answer'.value \in Values
    BY <2>1, <2>2, KindIsValue DEF Insert
  <2>4. CacheTyped'
    BY <1>0, <2>1, <2>2, LimitNat DEF Insert, CacheKey, CacheTyped
  <2> QED
    BY <1>1, <2>1, <2>3, <2>4, IdleTyped DEF Insert, Typed
<1>6. CASE Fail
  <2>1. answer'.key \in Keys /\ answer'.value = Failure
    BY <1>0, <1>6 DEF Fail, CallTyped, ReadsKey
  <2> QED
    BY <1>0, <1>1, <1>6, <2>1, IdleTyped DEF Fail, CacheTyped, Typed
<1> QED
  BY <1>1, <1>2, <1>3, <1>4, <1>5, <1>6, AskedKeys DEF Typed, Server, Ask

\* Lending or taking back a slot.
LEMMA LendMeans ==
  ASSUME Typed, NEW s \in Slots, NEW t \in Tenants, Lend(s, t)
  PROVE  /\ tenant' = [tenant EXCEPT ![s] = t]
         /\ since' \in [Slots \X Tenants -> 0..Limit]
         /\ \A r \in Slots, v \in Tenants :
              since'[<<r, v>>] = IF r = s /\ v \in {tenant[s], t} THEN 0 ELSE since[<<r, v>>]
<1>1. tenant \in [Slots -> Tenants] /\ since \in [Slots \X Tenants -> 0..Limit]
  BY DEF Typed, DiskTyped, SinceTyped
<1>2. tenant[s] \in Tenants /\ <<s, tenant[s]>> \in Slots \X Tenants /\ <<s, t>> \in Slots \X Tenants
  BY <1>1
<1>3. \A p \in Slots \X Tenants :
        since'[p] = IF p = <<s, t>> \/ p = <<s, tenant[s]>> THEN 0 ELSE since[p]
  BY <1>1, <1>2 DEF Lend
<1>4. since' \in [Slots \X Tenants -> 0..Limit]
  BY <1>1, <1>2, LimitNat DEF Lend
<1> QED
  BY <1>1, <1>2, <1>3, <1>4 DEF Lend

LEMMA TypeTask ==
  ASSUME Typed, Task
  PROVE  Typed'
<1>0. CacheTyped /\ CallTyped /\ DiskTyped /\ SinceTyped
  BY DEF Typed
<1>1. UNCHANGED <<cache, call>> /\ answer' = None
  BY DEF Task, Acquire, Edit, Release, ReleaseGate, Detach, Reset, Clean, Released, ReleaseEnds,
         ReleaseStep, EmitOpen, EmitRename, EmitFails, EmitKilled, WriterOnly
<1>2. CacheTyped' /\ CallTyped'
  BY <1>0, <1>1 DEF call, CacheTyped, CallTyped, ReadsKey
<1>3. ASSUME NEW t \in Tasks, NEW s \in Slots, Acquire(t, s) PROVE DiskTyped' /\ SinceTyped'
  <2>1. tenant' = [tenant EXCEPT ![s] = t] /\ SinceTyped'
    BY <1>3, LendMeans DEF Acquire, Tenants, SinceTyped
  <2> QED
    BY <1>0, <1>3, <2>1 DEF DiskTyped, Acquire, disk, release, Tenants
<1>4. ASSUME NEW t \in Tasks, NEW s \in Slots, EmitOpen(t, s) PROVE DiskTyped' /\ SinceTyped'
  BY <1>0, <1>4 DEF DiskTyped, EmitOpen, WriterOnly, SinceTyped
<1>5. ASSUME NEW s \in Slots, Edit(s) PROVE DiskTyped' /\ SinceTyped'
  BY <1>0, <1>5 DEF DiskTyped, Edit, release, SinceTyped
<1>6. ASSUME NEW s \in Slots, Release(s) PROVE DiskTyped' /\ SinceTyped'
  <2>1. rel' \in [Slots -> Steps]
    BY <1>0, <1>6 DEF DiskTyped, Release, ReleaseGate, Detach, Reset, Clean, Released, ReleaseEnds,
                      ReleaseStep, Steps
  <2>2. ASSUME NEW force \in BOOLEAN, ReleaseGate(s, force) PROVE DiskTyped' /\ SinceTyped'
    BY <1>0, <2>1, <2>2 DEF DiskTyped, ReleaseGate, disk, SinceTyped
  <2>3. CASE Detach(s)
    <3>1. tenant' = [tenant EXCEPT ![s] = None] /\ SinceTyped'
      BY <2>3, LendMeans DEF Detach, Tenants, SinceTyped
    <3> QED
      BY <1>0, <2>1, <2>3, <3>1 DEF Detach, DiskTyped, disk, Tenants
  <2>4. CASE Reset(s)
    BY <1>0, <2>1, <2>4 DEF DiskTyped, Reset, SinceTyped
  <2>5. CASE Clean(s)
    <3>1. tmp' \in [Tasks -> {None} \cup (Slots \X {"there", "wiped"})]
      BY <1>0, <2>5 DEF DiskTyped, Clean
    <3> QED
      BY <1>0, <2>1, <2>5, <3>1 DEF Clean, DiskTyped, CleanIgnored, Tenants, SinceTyped
  <2>6. CASE Released(s) \/ ReleaseEnds(s)
    BY <1>0, <2>1, <2>6 DEF DiskTyped, Released, ReleaseEnds, disk, SinceTyped
  <2> QED
    BY <1>6, <2>2, <2>3, <2>4, <2>5, <2>6 DEF Release
<1>7. ASSUME NEW t \in Tasks, EmitRename(t) \/ EmitFails(t) \/ EmitKilled(t)
      PROVE DiskTyped' /\ SinceTyped'
  <2>1. tmp[t] # None
    BY <1>7 DEF EmitRename, EmitFails, EmitKilled
  <2>2. tmp[t][1] \in Slots /\ tmp' \in [Tasks -> {None} \cup (Slots \X {"there", "wiped"})]
    BY <1>0, <1>7, <2>1 DEF DiskTyped, EmitRename, EmitFails, EmitKilled
  <2>3. lease' \in [Slots -> Tenants] /\ old' \subseteq Slots \cup Tasks /\ edits' \subseteq Slots
    BY <1>0, <1>7, <2>2 DEF DiskTyped, EmitRename, EmitFails, EmitKilled, Tenants
  <2>4. UNCHANGED <<tenant, rel, since>>
    BY <1>7 DEF EmitRename, EmitFails, EmitKilled, WriterOnly
  <2> QED
    BY <1>0, <2>2, <2>3, <2>4 DEF DiskTyped, SinceTyped
<1> QED
  BY <1>2, <1>3, <1>4, <1>5, <1>6, <1>7 DEF Typed, Task

LEMMA TypeNext == Typed /\ [Next]_vars => Typed'
<1> SUFFICES ASSUME Typed, [Next]_vars PROVE Typed'
  OBVIOUS
<1>0. CacheTyped /\ CallTyped /\ DiskTyped /\ SinceTyped
  BY DEF Typed
<1>1. CASE Tick
  <2>1. SinceTyped'
    BY <1>0, <1>1, LimitNat DEF Tick, Older, SinceTyped
  <2>2. CacheTyped'
    <3>1. \A n \in 0..TTL + 1 : Older(n, TTL + 1) \in 0..TTL + 1
      BY LimitNat DEF Older
    <3>2. \A k \in DOMAIN cache :
            cache'[k] = [cache[k] EXCEPT !.age = Older(cache[k].age, TTL + 1)]
      BY <1>1 DEF Tick
    <3>3. DOMAIN cache' = DOMAIN cache
      BY <1>1 DEF Tick
    <3>4. ASSUME NEW k \in DOMAIN cache PROVE cache'[k] \in [value : Kind(k), age : 0..TTL + 1]
      BY <1>0, <3>1, <3>2, ZenonT(30) DEF CacheTyped
    <3> QED
      BY <1>0, <3>3, <3>4 DEF CacheTyped
  <2>3. CallTyped' /\ DiskTyped'
    BY <1>0, <1>1, LimitNat DEF Tick, CallTyped, DiskTyped, disk, release, ReadsKey
  <2> QED
    BY <2>1, <2>2, <2>3 DEF Typed
<1>2. CASE Restart
  <2>1. CacheTyped'
    BY <1>2, NoneSeen DEF Restart, CacheTyped
  <2>2. CallTyped' /\ DiskTyped' /\ SinceTyped'
    BY <1>0, <1>2, IdleTyped DEF Restart, DiskTyped, SinceTyped, disk, release
  <2> QED
    BY <2>1, <2>2 DEF Typed
<1>3. CASE UNCHANGED vars
  BY <1>0, <1>3 DEF Typed, vars, disk, release, call, CacheTyped, CallTyped, DiskTyped, SinceTyped, ReadsKey
<1> QED
  BY <1>1, <1>2, <1>3, TypeServer, TypeTask DEF Next

(* The state stays well typed: the cache holds answers of the kind its key *)
(* asks for, and no task has two slots.                                    *)
THEOREM TypeCorrect == Spec => []TypeOK
<1>1. Spec => []Typed
  BY TypeInit, TypeNext, PTL DEF Spec
<1> QED
  BY <1>1, TypedMeans, PTL

-----------------------------------------------------------------------------
(* Leases.  From its clean on, a release leaves neither a lease nor a      *)
(* temporary file from before it; what is renamed later was begun later.   *)

\* A file that does not exist is not old.
OldInv == \A t \in Tasks : tmp[t] = None => t \notin old

Wiped(s) ==
  /\ lease[s] # None => s \notin old
  /\ \A t \in Tasks : tmp[t] = <<s, "there">> => t \notin old

WipedInv == \A s \in Slots : rel[s] \in {"cleaned", "released"} => Wiped(s)

LeaseInv == Typed /\ OldInv /\ WipedInv

LEMMA LeaseInit == Init => LeaseInv
BY TypeInit DEF Init, LeaseInv, OldInv, WipedInv

\* Steps that touch neither a lease nor a temporary file.
LEMMA LeaseKept ==
  ASSUME LeaseInv, UNCHANGED <<lease, tmp, old>>,
         \A s \in Slots : rel'[s] \in {"cleaned", "released"} => rel[s] \in {"cleaned", "released"}
  PROVE  OldInv' /\ WipedInv'
BY DEF LeaseInv, OldInv, WipedInv, Wiped

LEMMA LeaseRelease ==
  ASSUME LeaseInv, NEW s \in Slots, Release(s)
  PROVE  OldInv' /\ WipedInv'
<1>0. DiskTyped /\ OldInv /\ WipedInv
  BY DEF LeaseInv, Typed
<1>1. ASSUME NEW force \in BOOLEAN, ReleaseGate(s, force) PROVE OldInv' /\ WipedInv'
  <2>1. /\ tmp' = tmp /\ lease' = lease /\ rel' = [rel EXCEPT ![s] = "gated"]
        /\ old' = old \cup {r \in {s} : lease[r] # None} \cup {t \in Tasks : InSlot(t, s)}
    BY <1>1 DEF ReleaseGate, ReleaseStep, disk
  <2>2. \A t \in Tasks : t \in old' => t \in old \/ InSlot(t, s)
    BY <2>1, ServerAssumption
  <2>3. OldInv'
    BY <1>0, <2>1, <2>2 DEF OldInv, InSlot
  <2>4. ASSUME NEW r \in Slots, rel'[r] \in {"cleaned", "released"} PROVE Wiped(r)'
    <3>1. r # s /\ Wiped(r)
      BY <1>0, <2>1, <2>4 DEF DiskTyped, WipedInv
    <3>2. \A t \in Tasks : tmp[t] = <<r, "there">> => ~InSlot(t, s)
      BY <3>1 DEF InSlot
    <3> QED
      BY <2>1, <2>2, <3>1, <3>2, ServerAssumption DEF Wiped
  <2> QED
    BY <2>3, <2>4 DEF WipedInv
<1>2. CASE Clean(s)
  <2>1. /\ lease' = [lease EXCEPT ![s] = None] /\ rel' = [rel EXCEPT ![s] = "cleaned"] /\ old' = old
        /\ tmp' = [t \in Tasks |-> IF tmp[t] = <<s, "there">> THEN <<s, "wiped">> ELSE tmp[t]]
    BY <1>2 DEF Clean, CleanIgnored, ReleaseStep
  <2>2. <<s, "wiped">> # None
    BY ServerAssumption
  <2>3. OldInv'
    BY <1>0, <2>1, <2>2 DEF OldInv
  <2>4. \A t \in Tasks, r \in Slots : tmp'[t] = <<r, "there">> => tmp[t] = <<r, "there">> /\ r # s
    BY <2>1
  <2>5. ASSUME NEW r \in Slots, rel'[r] \in {"cleaned", "released"} PROVE Wiped(r)'
    <3>1. r # s => Wiped(r)
      BY <1>0, <2>1, <2>5 DEF DiskTyped, WipedInv
    <3> QED
      BY <1>0, <2>1, <2>4, <3>1 DEF Wiped, DiskTyped
  <2> QED
    BY <2>3, <2>5 DEF WipedInv
<1>3. CASE Detach(s) \/ Reset(s) \/ Released(s) \/ ReleaseEnds(s)
  <2>1. UNCHANGED <<lease, tmp, old>>
    BY <1>3 DEF Detach, Reset, Released, ReleaseEnds, disk
  <2>2. PICK to \in Steps : /\ rel' = [rel EXCEPT ![s] = to]
                            /\ to \in {"cleaned", "released"} => rel[s] \in {"cleaned", "released"}
    BY <1>3 DEF Detach, Reset, Released, ReleaseEnds, ReleaseStep, Steps
  <2>3. \A r \in Slots : rel'[r] \in {"cleaned", "released"} => rel[r] \in {"cleaned", "released"}
    BY <1>0, <2>2 DEF DiskTyped
  <2> QED
    BY <2>1, <2>3, LeaseKept
<1> QED
  BY <1>1, <1>2, <1>3 DEF Release

Emits(t) ==
  (\E s \in Slots : EmitOpen(t, s)) \/ EmitRename(t) \/ EmitFails(t) \/ EmitKilled(t)

LEMMA LeaseEmitted ==
  ASSUME LeaseInv, NEW t \in Tasks, Emits(t)
  PROVE  OldInv' /\ WipedInv'
<1>0. DiskTyped /\ OldInv /\ WipedInv /\ rel' = rel /\ t \notin Slots
  BY ServerAssumption
  DEF LeaseInv, Typed, Emits, EmitOpen, EmitRename, EmitFails, EmitKilled, WriterOnly
<1>1. ASSUME NEW s \in Slots, EmitOpen(t, s) PROVE OldInv' /\ WipedInv'
  <2>1. /\ tmp' = [tmp EXCEPT ![t] = <<s, "there">>] /\ lease' = lease /\ old' = old
        /\ t \notin old /\ <<s, "there">> # None
    BY <1>0, <1>1, ServerAssumption DEF EmitOpen, OldInv
  <2>2. \A u \in Tasks : u # t => tmp'[u] = tmp[u]
    BY <1>0, <2>1 DEF DiskTyped
  <2>3. OldInv'
    BY <1>0, <2>1, <2>2 DEF OldInv, DiskTyped
  <2>4. \A r \in Slots : Wiped(r) => Wiped(r)'
    BY <2>1, <2>2 DEF Wiped
  <2> QED
    BY <1>0, <2>3, <2>4 DEF WipedInv
<1>2. ASSUME tmp' = [tmp EXCEPT ![t] = None], \A u \in Tasks : u \in old' => u \in old /\ u # t
      PROVE  OldInv' /\ \A r \in Slots, u \in Tasks :
                          tmp'[u] = <<r, "there">> => tmp[u] = <<r, "there">>
  BY <1>0, <1>2, ServerAssumption DEF OldInv, DiskTyped
<1>3. CASE EmitRename(t)
  <2>1. /\ tmp[t] # None /\ tmp[t] \in Slots \X {"there", "wiped"}
        /\ tmp' = [tmp EXCEPT ![t] = None]
    BY <1>0, <1>3 DEF EmitRename, DiskTyped
  <2>2. CASE tmp[t][2] = "there"
    <3>1. PICK s \in Slots : tmp[t] = <<s, "there">>
      BY <2>1, <2>2
    <3>2. /\ lease' = [lease EXCEPT ![s] = t]
          /\ old' = (IF t \in old THEN old \cup {s} ELSE old \ {s}) \ {t}
      BY <1>3, <3>1 DEF EmitRename
    <3>3. \A u \in Tasks : u \in old' => u \in old /\ u # t
      BY <3>2, ServerAssumption
    <3>4. ASSUME NEW r \in Slots, Wiped(r) PROVE Wiped(r)'
      <4>1. \A u \in Tasks : tmp'[u] = <<r, "there">> => u \notin old'
        BY <1>2, <2>1, <3>3, <3>4 DEF Wiped
      <4>2. CASE r = s
        <5>1. t \notin old
          BY <3>1, <3>4, <4>2 DEF Wiped
        <5> QED
          BY <3>2, <4>1, <4>2, <5>1 DEF Wiped
      <4>3. CASE r # s
        <5>1. lease'[r] = lease[r] /\ (r \in old' => r \in old)
          BY <1>0, <3>2, <4>3 DEF DiskTyped
        <5> QED
          BY <3>4, <4>1, <5>1 DEF Wiped
      <4> QED
        BY <4>2, <4>3
    <3> QED
      BY <1>0, <1>2, <2>1, <3>3, <3>4 DEF WipedInv
  <2>3. CASE tmp[t][2] # "there"
    <3>1. lease' = lease /\ old' = old \ {t}
      BY <1>3, <2>3 DEF EmitRename
    <3> QED
      BY <1>0, <1>2, <2>1, <3>1 DEF WipedInv, Wiped
  <2> QED
    BY <2>2, <2>3
<1>4. CASE EmitFails(t) \/ EmitKilled(t)
  <2>1. lease' = lease /\ old' = old \ {t} /\ tmp' = [tmp EXCEPT ![t] = None]
    BY <1>4 DEF EmitFails, EmitKilled
  <2> QED
    BY <1>0, <1>2, <2>1 DEF WipedInv, Wiped
<1> QED
  BY <1>1, <1>3, <1>4 DEF Emits

LEMMA LeaseNext == LeaseInv /\ [Next]_vars => LeaseInv'
<1> SUFFICES ASSUME LeaseInv, [Next]_vars PROVE LeaseInv'
  OBVIOUS
<1>1. Typed'
  BY TypeNext DEF LeaseInv
<1>2. CASE Task
  <2>1. ASSUME NEW s \in Slots, (\E t \in Tasks : Acquire(t, s)) \/ Edit(s)
        PROVE  OldInv' /\ WipedInv'
    BY <2>1, LeaseKept DEF Acquire, Edit, disk, release
  <2>2. ASSUME NEW s \in Slots, Release(s) PROVE OldInv' /\ WipedInv'
    BY <2>2, LeaseRelease
  <2>3. ASSUME NEW t \in Tasks, Emits(t) PROVE OldInv' /\ WipedInv'
    BY <2>3, LeaseEmitted
  <2>4. OldInv' /\ WipedInv'
    BY <1>2, <2>1, <2>2, <2>3, Zenon DEF Task, Emits
  <2> QED
    BY <1>1, <2>4 DEF LeaseInv
<1>3. CASE Server \/ Fail \/ Tick \/ Restart \/ UNCHANGED vars
  <2>1. UNCHANGED <<lease, tmp, old, rel>>
    BY <1>3 DEF Server, Ask, Hit, Miss, ReadSlot, Compose, Fail, Tick, Restart, vars, disk, release
  <2> QED
    BY <1>1, <2>1, LeaseKept DEF LeaseInv
<1> QED
  BY <1>2, <1>3 DEF Next

(* Until its next release a slot that was released shows no lease whose     *)
(* writing began before that release, whoever was writing one, was killed   *)
(* at it, has lost the slot or never held it, and whether or not the        *)
(* repository ignores the file.                                             *)
THEOREM NoOldLease == Spec => []ReleasedIsPristine
<1>1. Spec => []LeaseInv
  BY LeaseInit, LeaseNext, PTL DEF Spec
<1>2. LeaseInv => ReleasedIsPristine
  BY DEF LeaseInv, WipedInv, Wiped, ReleasedIsPristine
<1> QED
  BY <1>1, <1>2, PTL

-----------------------------------------------------------------------------
(* The cache.  What was read is no older than the call, what is cached no  *)
(* older than its entry and the longest call.                              *)

\* v was so of k, fact by fact, within the last n ticks.
Since(k, v, n) ==
  IF k = List THEN \A s \in Slots : since[<<s, v[s]>>] <= n ELSE since[<<k, v>>] <= n

NowInv == \A s \in Slots : since[<<s, tenant[s]>>] = 0
SeenInv == \A s \in DOMAIN seen : since[<<s, seen[s]>>] <= spent
CacheInv == \A k \in DOMAIN cache : Since(k, cache[k].value, cache[k].age + MaxCompute)

FreshInv == Typed /\ NowInv /\ SeenInv /\ CacheInv /\ AnswersFresh

LEMMA FreshInit == Init => FreshInv
<1> SUFFICES ASSUME Init PROVE FreshInv
  OBVIOUS
<1>1. DOMAIN cache = {} /\ DOMAIN seen = {}
  BY NoneSeen DEF Init
<1>2. NowInv
  <2> SUFFICES ASSUME NEW s \in Slots PROVE since[<<s, tenant[s]>>] = 0
    BY DEF NowInv
  <2>1. tenant[s] = None /\ <<s, None>> \in Slots \X Tenants
    BY DEF Init, Tenants
  <2>2. since[<<s, None>>] = 0
    BY <2>1 DEF Init
  <2> QED
    BY <2>1, <2>2
<1> QED
  BY <1>1, <1>2, TypeInit DEF Init, FreshInv, SeenInv, CacheInv, AnswersFresh

\* An answer that was so within the TTL and one computation is fresh.
LEMMA FreshIs ==
  ASSUME NEW k \in Keys, NEW v, NEW n, answer' = [key |-> k, value |-> v],
         IF k = List THEN \A s \in Slots : since'[<<s, v[s]>>] <= TTL + MaxCompute
                     ELSE since'[<<k, v>>] <= TTL + MaxCompute
  PROVE  AnswersFresh'
BY ServerAssumption DEF AnswersFresh, Keys

LEMMA SinceRange ==
  ASSUME Typed, NEW s \in Slots, NEW v \in Tenants
  PROVE  since[<<s, v>>] \in 0..Limit
<1>1. <<s, v>> \in Slots \X Tenants
  OBVIOUS
<1>2. since[<<s, v>>] \in 0..Limit
  BY <1>1 DEF Typed, SinceTyped
<1> QED
  BY <1>2

\* Facts that do not get older stay as fresh as they were.
LEMMA NotOlder ==
  ASSUME FreshInv, Typed', UNCHANGED <<cache, pc, key, seen, spent>>, answer' = None,
         \A s \in Slots, v \in Tenants : since'[<<s, v>>] = since[<<s, v>>] \/ since'[<<s, v>>] = 0
  PROVE  SeenInv' /\ CacheInv' /\ AnswersFresh'
<1>0. Typed /\ SeenInv /\ CacheInv /\ CacheTyped /\ CallTyped
  BY DEF FreshInv, Typed
<1>1. \A s \in Slots, v \in Tenants, n \in Nat : since[<<s, v>>] <= n => since'[<<s, v>>] <= n
  BY <1>0, SinceRange
<1>2. SeenInv'
  BY <1>0, <1>1, LimitNat DEF SeenInv, CallTyped
<1>3. CacheInv'
  <2> SUFFICES ASSUME NEW k \in DOMAIN cache
               PROVE  Since(k, cache[k].value, cache[k].age + MaxCompute)'
    BY DEF CacheInv
  <2>1. cache[k].age + MaxCompute \in Nat /\ cache[k].value \in Kind(k) /\ k \in Keys
    BY <1>0, LimitNat DEF CacheTyped
  <2>2. Since(k, cache[k].value, cache[k].age + MaxCompute)
    BY <1>0 DEF CacheInv
  <2> QED
    BY <1>1, <2>1, <2>2, ServerAssumption DEF Since, Kind, Keys
<1> QED
  BY <1>2, <1>3 DEF AnswersFresh

LEMMA FreshServer ==
  ASSUME FreshInv, Server
  PROVE  SeenInv' /\ CacheInv' /\ AnswersFresh'
<1>0. CacheTyped /\ CallTyped /\ DiskTyped /\ SinceTyped /\ NowInv /\ SeenInv /\ CacheInv
  BY DEF FreshInv, Typed
<1>1. ASSUME NEW k \in Keys, Hit(k) PROVE SeenInv' /\ CacheInv' /\ AnswersFresh'
  <2>1. /\ cache' = cache /\ UNCHANGED <<since, seen, spent>> /\ k \in DOMAIN cache
        /\ cache[k].age <= TTL /\ answer' = [key |-> k, value |-> cache[k].value]
    BY <1>1 DEF Hit, Fresh, CacheKey, AfterHit, call
  <2>2. SeenInv' /\ CacheInv'
    BY <1>0, <2>1 DEF SeenInv, CacheInv, Since
  <2>3. cache[k].age \in 0..TTL + 1 /\ cache[k].value \in Kind(k)
    BY <1>0, <2>1 DEF CacheTyped
  <2>4. Since(k, cache[k].value, cache[k].age + MaxCompute)
    BY <1>0, <2>1 DEF CacheInv
  <2>5. CASE k = List
    <3>1. ASSUME NEW s \in Slots PROVE since[<<s, cache[k].value[s]>>] <= TTL + MaxCompute
      <4>1. cache[k].value[s] \in Tenants
        BY <2>3, <2>5 DEF Kind
      <4>2. since[<<s, cache[k].value[s]>>] \in 0..Limit
        BY <4>1, <1>0, SinceRange DEF FreshInv
      <4> QED
        BY <2>1, <2>3, <2>4, <2>5, <4>2, LimitNat DEF Since
    <3> QED
      BY <2>1, <2>2, <2>5, <3>1, FreshIs
  <2>6. CASE k # List
    <3>1. k \in Slots /\ cache[k].value \in Tenants
      BY <2>3, <2>6, ServerAssumption DEF Kind, Keys
    <3>2. since[<<k, cache[k].value>>] \in 0..Limit
      BY <3>1, SinceRange DEF FreshInv
    <3>3. since[<<k, cache[k].value>>] <= TTL + MaxCompute
      BY <2>1, <2>3, <2>4, <2>6, <3>2, LimitNat DEF Since
    <3> QED
      BY <2>1, <2>2, <2>6, <3>3, FreshIs
  <2> QED
    BY <2>5, <2>6
<1>2. ASSUME NEW k \in Keys, Miss(k) PROVE SeenInv' /\ CacheInv' /\ AnswersFresh'
  <2>1. DOMAIN seen' = {} /\ UNCHANGED <<since, cache>> /\ answer' = None
    BY <1>2, NoneSeen DEF Miss
  <2> QED
    BY <1>0, <2>1 DEF SeenInv, CacheInv, Since, AnswersFresh
<1>3. ASSUME NEW s \in Slots, ReadSlot(s) PROVE SeenInv' /\ CacheInv' /\ AnswersFresh'
  <2>1. /\ DOMAIN seen' = DOMAIN seen \cup {s} /\ UNCHANGED <<since, cache, spent>> /\ answer' = None
        /\ \A r \in DOMAIN seen' : seen'[r] = IF r = s THEN tenant[s] ELSE seen[r]
    BY <1>3 DEF ReadSlot, Facts
  <2>2. since[<<s, tenant[s]>>] <= spent
    BY <1>0 DEF NowInv, CallTyped
  <2> QED
    BY <1>0, <2>1, <2>2 DEF SeenInv, CacheInv, Since, AnswersFresh
<1>4. CASE Compose
  <2> DEFINE value == IF key = List THEN seen ELSE seen[key]
  <2>1. /\ key \in Keys /\ DOMAIN seen = Wanted /\ UNCHANGED since
        /\ answer' = [key |-> key, value |-> value]
        /\ cache' = [k \in DOMAIN cache \cup {key} |->
                       IF k = key THEN [value |-> value, age |-> 0] ELSE cache[k]]
        /\ seen' = <<>>
    BY <1>0, <1>4 DEF Compose, CallTyped, ReadsKey, Insert, CacheKey
  <2>2. \A s \in DOMAIN seen : since[<<s, seen[s]>>] <= MaxCompute /\ since[<<s, seen[s]>>] \in 0..Limit
    BY <1>0, SinceRange, LimitNat DEF FreshInv, SeenInv, CallTyped
  <2>3. Since(key, value, MaxCompute) /\ Since(key, value, TTL + MaxCompute)
    <3>1. CASE key = List
      BY <2>1, <2>2, <3>1, LimitNat DEF Since, Wanted
    <3>2. CASE key # List
      BY <2>1, <2>2, <3>2, LimitNat DEF Since, Wanted
    <3> QED
      BY <3>1, <3>2
  <2>4. AnswersFresh'
    BY <2>1, <2>3, FreshIs DEF Since
  <2>5. SeenInv'
    BY <2>1, NoneSeen DEF SeenInv
  <2>6. CacheInv'
    <3> SUFFICES ASSUME NEW k \in DOMAIN cache'
                 PROVE  Since(k, cache'[k].value, cache'[k].age + MaxCompute)
      BY <2>1 DEF CacheInv, Since
    <3>1. CASE k = key
      BY <2>1, <2>3, <3>1, LimitNat
    <3>2. CASE k # key
      BY <1>0, <2>1, <3>2 DEF CacheInv
    <3> QED
      BY <3>1, <3>2
  <2> QED
    BY <2>4, <2>5, <2>6
<1> QED
  BY <1>1, <1>2, <1>3, <1>4, AskedKeys DEF Server, Ask

LEMMA FreshTask ==
  ASSUME FreshInv, Task, Typed'
  PROVE  NowInv' /\ SeenInv' /\ CacheInv' /\ AnswersFresh'
<1>0. Typed /\ DiskTyped /\ NowInv
  BY DEF FreshInv, Typed
<1>1. UNCHANGED <<cache, pc, key, seen, spent>> /\ answer' = None
  BY DEF Task, Acquire, Edit, Release, ReleaseGate, Detach, Reset, Clean, Released, ReleaseEnds,
         ReleaseStep, EmitOpen, EmitRename, EmitFails, EmitKilled, WriterOnly, call
<1>2. ASSUME NEW s \in Slots, NEW t \in Tenants, Lend(s, t)
      PROVE  NowInv' /\ SeenInv' /\ CacheInv' /\ AnswersFresh'
  <2>1. /\ tenant' = [tenant EXCEPT ![s] = t]
        /\ \A r \in Slots, v \in Tenants :
             since'[<<r, v>>] = IF r = s /\ v \in {tenant[s], t} THEN 0 ELSE since[<<r, v>>]
    BY <1>0, <1>2, LendMeans
  <2>2. \A r \in Slots : tenant'[r] \in Tenants /\ tenant[r] \in Tenants
                         /\ tenant'[r] = IF r = s THEN t ELSE tenant[r]
    BY <1>0, <2>1 DEF DiskTyped
  <2>3. NowInv'
    BY <1>0, <2>1, <2>2 DEF NowInv
  <2> QED
    BY <1>1, <2>1, <2>3, NotOlder
<1>3. ASSUME UNCHANGED <<tenant, since>> PROVE NowInv' /\ SeenInv' /\ CacheInv' /\ AnswersFresh'
  <2>1. NowInv'
    BY <1>0, <1>3 DEF NowInv
  <2> QED
    BY <1>1, <1>3, <2>1, NotOlder
<1>4. \/ UNCHANGED <<tenant, since>>
      \/ \E s \in Slots, t \in Tenants : Lend(s, t)
  BY DEF Task, Acquire, Edit, Release, ReleaseGate, Detach, Reset, Clean, Released, ReleaseEnds,
         EmitOpen, EmitRename, EmitFails, EmitKilled, WriterOnly, Tenants
<1> QED
  BY <1>2, <1>3, <1>4

\* A tick makes a fact at most a tick older, and an entry that is not yet too
\* old to be used as much.
LEMMA FreshTick ==
  ASSUME FreshInv, Tick
  PROVE  NowInv' /\ SeenInv' /\ CacheInv' /\ AnswersFresh'
<1>0. CacheTyped /\ CallTyped /\ DiskTyped /\ SinceTyped /\ NowInv /\ SeenInv /\ CacheInv
  BY DEF FreshInv, Typed
<1>1. \A s \in Slots, v \in Tenants :
        /\ since[<<s, v>>] \in 0..Limit /\ since'[<<s, v>>] \in 0..Limit
        /\ since'[<<s, v>>] <= since[<<s, v>>] + 1
  <2> SUFFICES ASSUME NEW s \in Slots, NEW v \in Tenants
               PROVE  /\ since[<<s, v>>] \in 0..Limit /\ since'[<<s, v>>] \in 0..Limit
                      /\ since'[<<s, v>>] <= since[<<s, v>>] + 1
    OBVIOUS
  <2>1. since[<<s, v>>] \in 0..Limit
    BY SinceRange DEF FreshInv
  <2>2. since'[<<s, v>>] = IF tenant[s] = v THEN 0 ELSE Older(since[<<s, v>>], Limit)
    BY DEF Tick
  <2> QED
    BY <2>1, <2>2, LimitNat DEF Older
<1>2. NowInv'
  BY <1>0 DEF Tick, NowInv, DiskTyped
<1>3. SeenInv'
  <2>1. CASE pc = "read"
    <3> SUFFICES ASSUME NEW s \in DOMAIN seen PROVE since'[<<s, seen[s]>>] <= spent'
      BY DEF Tick, SeenInv
    <3>1. s \in Slots /\ seen[s] \in Tenants /\ spent' = spent + 1 /\ spent \in Nat
      BY <1>0, <2>1, LimitNat DEF CallTyped, Tick
    <3>2. since[<<s, seen[s]>>] <= spent
      BY <1>0 DEF SeenInv
    <3> QED
      BY <1>1, <3>1, <3>2, LimitNat
  <2>2. CASE pc # "read"
    <3>1. DOMAIN seen' = {}
      BY <1>0, <2>2, NoneSeen DEF Tick, CallTyped, ReadsKey
    <3> QED
      BY <3>1 DEF SeenInv
  <2> QED
    BY <2>1, <2>2
<1>4. CacheInv'
  <2> SUFFICES ASSUME NEW k \in DOMAIN cache
               PROVE  IF k = List
                      THEN \A s \in Slots :
                             since'[<<s, cache'[k].value[s]>>] <= cache'[k].age + MaxCompute
                      ELSE since'[<<k, cache'[k].value>>] <= cache'[k].age + MaxCompute
    BY DEF Tick, CacheInv, Since
  <2>1. /\ cache[k].value \in Kind(k) /\ cache[k].age \in 0..TTL + 1
        /\ k \in Keys /\ Since(k, cache[k].value, cache[k].age + MaxCompute)
    BY <1>0 DEF CacheTyped, CacheInv
  <2>2. cache'[k].value = cache[k].value /\ cache'[k].age = Older(cache[k].age, TTL + 1)
    BY <1>0 DEF Tick, CacheTyped
  <2>3. ASSUME NEW s \in Slots, NEW v \in Tenants, since[<<s, v>>] <= cache[k].age + MaxCompute
        PROVE  since'[<<s, v>>] <= cache'[k].age + MaxCompute
    <3>1. CASE cache[k].age < TTL + 1
      BY <1>1, <2>1, <2>2, <2>3, <3>1, LimitNat DEF Older
    <3>2. CASE cache[k].age = TTL + 1
      <4>1. cache'[k].age + MaxCompute = Limit
        BY <2>2, <3>2, LimitNat DEF Older, Limit
      <4> QED
        BY <1>1, <4>1, LimitNat
    <3> QED
      BY <2>1, <3>1, <3>2, LimitNat
  <2>4. CASE k = List
    BY <2>1, <2>2, <2>3, <2>4 DEF Since, Kind
  <2>5. CASE k # List
    BY <2>1, <2>2, <2>3, <2>5, ServerAssumption DEF Since, Kind, Keys
  <2> QED
    BY <2>4, <2>5
<1> QED
  BY <1>2, <1>3, <1>4 DEF Tick, AnswersFresh

LEMMA FreshNext == FreshInv /\ [Next]_vars => FreshInv'
<1> SUFFICES ASSUME FreshInv, [Next]_vars PROVE FreshInv'
  OBVIOUS
<1>0. Typed' /\ NowInv /\ SeenInv /\ CacheInv
  BY TypeNext DEF FreshInv
<1>1. CASE Server
  <2>1. NowInv'
    BY <1>0, <1>1 DEF Server, Ask, Hit, Miss, ReadSlot, Compose, NowInv
  <2> QED
    BY <1>0, <1>1, <2>1, FreshServer DEF FreshInv
<1>2. CASE Task
  BY <1>0, <1>2, FreshTask DEF FreshInv
<1>3. CASE Tick
  BY <1>0, <1>3, FreshTick DEF FreshInv
<1>4. CASE Fail \/ Restart
  <2>1. DOMAIN seen' = {} /\ UNCHANGED <<tenant, since>>
    BY <1>4, NoneSeen DEF Fail, Restart
  <2>2. DOMAIN cache' = {} \/ cache' = cache
    BY <1>4, NoneSeen DEF Fail, Restart
  <2>3. AnswersFresh'
    BY <1>4 DEF Fail, Restart, AnswersFresh
  <2> QED
    BY <1>0, <2>1, <2>2, <2>3 DEF FreshInv, NowInv, SeenInv, CacheInv, Since
<1>5. CASE UNCHANGED vars
  BY <1>0, <1>5 DEF FreshInv, NowInv, SeenInv, CacheInv, Since, AnswersFresh, vars, call
<1> QED
  BY <1>1, <1>2, <1>3, <1>4, <1>5 DEF Next

(* What a cached tool answers was so, of every slot it tells of, at some    *)
(* time within the last TTL and the longest computation: an entry gives no  *)
(* answer after its TTL, and its age misses only the time its reads took.   *)
THEOREM AnswersAreFresh == Spec => []AnswersFresh
<1>1. Spec => []FreshInv
  BY FreshInit, FreshNext, PTL DEF Spec
<1>2. FreshInv => AnswersFresh
  BY DEF FreshInv
<1> QED
  BY <1>1, <1>2, PTL

-----------------------------------------------------------------------------
(* The calendar of the leases.                                             *)

\* A leap day ends the year yoe of an era.
EndsLeap(yoe) == IsLeap(yoe + 1)

\* Days of an era and years of it.
LEMMA EraYear ==
  ASSUME NEW doe \in Int, 0 <= doe, doe <= 146096
  PROVE  /\ YearOfEra(doe) \in Int /\ 0 <= YearOfEra(doe) /\ YearOfEra(doe) <= 399
         /\ EraDays(YearOfEra(doe)) <= doe /\ doe <= EraDays(YearOfEra(doe)) + 365
         /\ doe = EraDays(YearOfEra(doe)) + 365 => EndsLeap(YearOfEra(doe))
BY SMTT(60) DEF EndsLeap, IsLeap, YearOfEra, EraDays

LEMMA EraDay ==
  ASSUME NEW yoe \in Int, 0 <= yoe, yoe <= 399, NEW doy \in Int, 0 <= doy, doy <= 365,
         doy = 365 => EndsLeap(yoe)
  PROVE  /\ 0 <= EraDays(yoe) + doy /\ EraDays(yoe) + doy <= 146096
         /\ YearOfEra(EraDays(yoe) + doy) = yoe
BY SMTT(60) DEF EndsLeap, IsLeap, EraDays, YearOfEra

LEMMA EraDaysInt ==
  ASSUME NEW yoe \in Int
  PROVE  EraDays(yoe) \in Int
BY SMT DEF EraDays

LEMMA FromEra ==
  ASSUME NEW era \in Int, NEW yoe \in Int, 0 <= yoe, yoe <= 399,
         NEW doy \in Int, 0 <= doy, doy <= 365, doy = 365 => EndsLeap(yoe)
  PROVE  CivilFromDays(era * 146097 + EraDays(yoe) + doy - 719468)
           = DateOfYear(yoe + era * 400, doy)
<1>1. EraDays(yoe) \in Int
  BY EraDaysInt
<1>2. PICK doe \in Int : doe = EraDays(yoe) + doy
  BY <1>1, SMT
<1>3. 0 <= doe /\ doe <= 146096 /\ YearOfEra(doe) = yoe
  BY <1>2, EraDay, SMT
<1>4. PICK days \in Int : days = era * 146097 + EraDays(yoe) + doy - 719468
  BY <1>1, SMT
<1>5. (days + 719468) \div 146097 = era
  BY <1>1, <1>2, <1>3, <1>4, SMT
<1>6. days + 719468 - era * 146097 = doe
  BY <1>1, <1>2, <1>4, SMT
<1>7. doe - EraDays(yoe) = doy
  BY <1>1, <1>2, SMT
<1>8. CivilFromDays(days) = DateOfYear(YearOfEra(doe) + era * 400, doe - EraDays(YearOfEra(doe)))
  BY <1>5, <1>6, SMT DEF CivilFromDays
<1>9. CivilFromDays(days) = DateOfYear(yoe + era * 400, doy)
  BY <1>3, <1>7, <1>8, SMT
<1> QED
  BY <1>4, <1>9, SMT

\* A date of the calendar, in fields.
IsDate(year, month, day) ==
  /\ year \in Int /\ month \in 1..12 /\ day \in Int
  /\ 1 <= day /\ day <= DaysInMonth(year, month)

MarchYear(year, month) == IF month <= 2 THEN year - 1 ELSE year

LEMMA MonthLengths ==
  ASSUME NEW year \in Int
  PROVE  /\ \A month \in {1, 3, 5, 7, 8, 10, 12} : DaysInMonth(year, month) = 31
         /\ \A month \in {4, 6, 9, 11} : DaysInMonth(year, month) = 30
         /\ IsLeap(year) => DaysInMonth(year, 2) = 29
         /\ ~IsLeap(year) => DaysInMonth(year, 2) = 28
BY DEF DaysInMonth

\* Days of a year and the dates in it.
LEMMA YearDay ==
  ASSUME NEW doy \in Int, 0 <= doy, doy <= 365,
         NEW mp \in Int, mp = (5 * doy + 2) \div 153,
         NEW day \in Int, day = doy - (153 * mp + 2) \div 5 + 1
  PROVE  /\ mp \in Int /\ 0 <= mp /\ mp <= 11
         /\ day \in Int /\ 1 <= day /\ day <= 31
         /\ (153 * mp + 2) \div 5 + day - 1 = doy
         /\ mp \in {1, 3, 6, 8} => day <= 30
         /\ mp = 11 => day <= 28 \/ (day = 29 /\ doy = 365)
BY SMTT(60)

LEMMA FromYear ==
  ASSUME NEW y \in Int, NEW doy \in Int, 0 <= doy, doy <= 365, doy = 365 => IsLeap(y + 1),
         NEW date, date = DateOfYear(y, doy)
  PROVE  /\ date = [year |-> date.year, month |-> date.month, day |-> date.day]
         /\ IsDate(date.year, date.month, date.day)
         /\ MarchYear(date.year, date.month) = y
         /\ DayOfYear(date.month, date.day) = doy
<1>1. PICK mp \in Int : mp = (5 * doy + 2) \div 153
  BY SMT
<1>2. PICK day \in Int : day = doy - (153 * mp + 2) \div 5 + 1
  BY SMT
<1>3. /\ mp \in Int /\ 0 <= mp /\ mp <= 11
      /\ day \in Int /\ 1 <= day /\ day <= 31
      /\ (153 * mp + 2) \div 5 + day - 1 = doy
      /\ mp \in {1, 3, 6, 8} => day <= 30
      /\ mp = 11 => day <= 28 \/ (day = 29 /\ doy = 365)
  BY <1>1, <1>2, YearDay, SMT
<1>4. PICK month : month = IF mp < 10 THEN mp + 3 ELSE mp - 9
  OBVIOUS
<1>5. PICK year : year = IF month <= 2 THEN y + 1 ELSE y
  OBVIOUS
<1>6. date = [year |-> year, month |-> month, day |-> day]
  BY <1>1, <1>2, <1>4, <1>5, SMT DEF DateOfYear
<1>7. /\ month \in 1..12 /\ year \in Int /\ MarchMonth(month) = mp
      /\ (month <= 2 <=> mp >= 10)
  BY <1>3, <1>4, <1>5, SMT DEF MarchMonth
<1>8. MarchYear(year, month) = y
  BY <1>5, <1>7, SMT DEF MarchYear
<1>9. DayOfYear(month, day) = doy
  BY <1>3, <1>7, SMT DEF DayOfYear
<1>10. day <= DaysInMonth(year, month)
  <2>1. CASE month \in {1, 3, 5, 7, 8, 10, 12}
    BY <2>1, <1>3, <1>7, MonthLengths, SMT
  <2>2. CASE month \in {4, 6, 9, 11}
    <3>1. mp \in {1, 3, 6, 8}
      BY <2>2, <1>3, <1>4, SMT
    <3> QED
      BY <2>2, <3>1, <1>3, <1>7, MonthLengths, SMT
  <2>3. CASE month = 2
    <3>1. mp = 11 /\ year = y + 1
      BY <2>3, <1>3, <1>4, <1>5, SMT
    <3>2. day = 29 => IsLeap(year)
      BY <3>1, <1>3, SMT
    <3> QED
      BY <2>3, <3>1, <3>2, <1>3, <1>7, MonthLengths, SMT
  <2> QED
    BY <2>1, <2>2, <2>3, <1>7, SMT
<1>11. IsDate(year, month, day)
  BY <1>3, <1>7, <1>10, SMT DEF IsDate
<1> QED
  BY <1>6, <1>8, <1>9, <1>11, SMT

LEMMA ToYear ==
  ASSUME NEW year, NEW month, NEW day, IsDate(year, month, day)
  PROVE  /\ DayOfYear(month, day) \in Int
         /\ 0 <= DayOfYear(month, day) /\ DayOfYear(month, day) <= 365
         /\ DayOfYear(month, day) = 365 => IsLeap(MarchYear(year, month) + 1)
         /\ MarchYear(year, month) \in Int
         /\ DateOfYear(MarchYear(year, month), DayOfYear(month, day))
              = [year |-> year, month |-> month, day |-> day]
<1> USE DEF IsDate
<1>1. PICK mp \in Int : mp = MarchMonth(month)
  BY SMT DEF MarchMonth
<1>2. PICK doy \in Int : doy = DayOfYear(month, day) /\ doy = (153 * mp + 2) \div 5 + day - 1
  BY <1>1, SMT DEF DayOfYear
<1>3. /\ 0 <= doy /\ doy <= 365 /\ (doy = 365 => month = 2 /\ IsLeap(year))
      /\ (5 * doy + 2) \div 153 = mp
      /\ doy - (153 * mp + 2) \div 5 + 1 = day
  <2>1. CASE month \in {1, 3, 5, 7, 8, 10, 12}
    BY <2>1, <1>1, <1>2, MonthLengths, SMT DEF MarchMonth
  <2>2. CASE month \in {4, 6, 9, 11}
    BY <2>2, <1>1, <1>2, MonthLengths, SMT DEF MarchMonth
  <2>3. CASE month = 2
    BY <2>3, <1>1, <1>2, MonthLengths, SMT DEF MarchMonth
  <2> QED
    BY <2>1, <2>2, <2>3, SMT
<1>4. MarchYear(year, month) \in Int /\ (month = 2 => MarchYear(year, month) + 1 = year)
  BY SMT DEF MarchYear
<1>5. month = IF mp < 10 THEN mp + 3 ELSE mp - 9
  BY <1>1, SMT DEF MarchMonth
<1>6. year = IF month <= 2 THEN MarchYear(year, month) + 1 ELSE MarchYear(year, month)
  BY SMT DEF MarchYear
<1>7. DateOfYear(MarchYear(year, month), doy) = [year |-> year, month |-> month, day |-> day]
  BY <1>3, <1>5, <1>6, SMT DEF DateOfYear
<1> QED
  BY <1>2, <1>3, <1>4, <1>7, SMT

\* A year and its place in an era.
LEMMA EraSplit ==
  ASSUME NEW y \in Int
  PROVE  \E era \in Int, yoe \in Int :
           y = yoe + era * 400 /\ 0 <= yoe /\ yoe <= 399
<1>1. PICK era \in Int : era = y \div 400
  BY SMT
<1>2. PICK yoe \in Int : yoe = y - era * 400
  BY SMT
<1>3. y = yoe + era * 400 /\ 0 <= yoe /\ yoe <= 399
  BY <1>1, <1>2, SMT
<1> QED
  BY <1>3

LEMMA EraLeap ==
  ASSUME NEW era \in Int, NEW yoe \in Int
  PROVE  IsLeap(yoe + era * 400 + 1) <=> EndsLeap(yoe)
BY SMTT(60) DEF EndsLeap, IsLeap

LEMMA ToEra ==
  ASSUME NEW year \in Int, NEW month \in 1..12, NEW day \in Int,
         NEW era \in Int, NEW yoe \in Int, 0 <= yoe, yoe <= 399,
         MarchYear(year, month) = yoe + era * 400
  PROVE  DaysFromCivil(year, month, day)
           = era * 146097 + EraDays(yoe) + DayOfYear(month, day) - 719468
<1>1. PICK y \in Int : y = MarchYear(year, month) /\ y \div 400 = era /\ y - era * 400 = yoe
  BY SMT
<1> QED
  BY <1>1, SMT DEF DaysFromCivil, MarchYear

(* The day of a date is printed as that date (ymd_hms_to_unix and           *)
(* unix_to_rfc3339 of lease.rs), in every year, before 1970 and after.      *)
THEOREM DateAndBack ==
  ASSUME NEW year, NEW month, NEW day, IsDate(year, month, day)
  PROVE  CivilFromDays(DaysFromCivil(year, month, day))
           = [year |-> year, month |-> month, day |-> day]
<1>1. PICK y \in Int : y = MarchYear(year, month)
  BY ToYear, SMT
<1>2. PICK era \in Int, yoe \in Int : y = yoe + era * 400 /\ 0 <= yoe /\ yoe <= 399
  BY EraSplit, SMT
<1>3. PICK doy \in Int : /\ doy = DayOfYear(month, day)
                          /\ 0 <= doy /\ doy <= 365 /\ (doy = 365 => IsLeap(y + 1))
                          /\ DateOfYear(y, doy) = [year |-> year, month |-> month, day |-> day]
  BY <1>1, ToYear, SMT
<1>4. doy = 365 => EndsLeap(yoe)
  BY <1>2, <1>3, EraLeap, SMT
<1>5. year \in Int /\ month \in 1..12 /\ day \in Int
  BY SMT DEF IsDate
<1>6. DaysFromCivil(year, month, day) = era * 146097 + EraDays(yoe) + doy - 719468
  <2>1. MarchYear(year, month) = yoe + era * 400
    BY <1>1, <1>2, SMT
  <2>2. DaysFromCivil(year, month, day)
          = era * 146097 + EraDays(yoe) + DayOfYear(month, day) - 719468
    BY <2>1, <1>2, <1>5, ToEra, SMT
  <2> QED
    BY <2>2, <1>3, SMT
<1>7. CivilFromDays(era * 146097 + EraDays(yoe) + doy - 719468) = DateOfYear(yoe + era * 400, doy)
  BY <1>2, <1>3, <1>4, FromEra, SMT
<1> QED
  BY <1>2, <1>3, <1>6, <1>7, SMT

(* A day is printed as a date that exists, and whose day it is: no          *)
(* timestamp that unix_to_rfc3339 writes is refused for its date.           *)
THEOREM DayAndBack ==
  ASSUME NEW days \in Int, NEW date, date = CivilFromDays(days)
  PROVE  /\ date = [year |-> date.year, month |-> date.month, day |-> date.day]
         /\ IsDate(date.year, date.month, date.day)
         /\ DaysFromCivil(date.year, date.month, date.day) = days
<1>1. PICK era \in Int : era = (days + 719468) \div 146097
  BY SMT
<1>2. PICK doe \in Int : doe = days + 719468 - era * 146097
  BY SMT
<1>3. 0 <= doe /\ doe <= 146096
  BY <1>1, <1>2, SMT
<1>4. PICK yoe \in Int : yoe = YearOfEra(doe)
  BY <1>3, EraYear, SMT
<1>5. PICK doy \in Int : doy = doe - EraDays(yoe)
  BY EraDaysInt, SMT
<1>6. EraDays(yoe) \in Int
  BY EraDaysInt, SMT
<1>7. /\ 0 <= yoe /\ yoe <= 399 /\ 0 <= doy /\ doy <= 365 /\ (doy = 365 => EndsLeap(yoe))
  BY <1>3, <1>4, <1>5, <1>6, EraYear, SMT
<1>8. days = era * 146097 + EraDays(yoe) + doy - 719468
  BY <1>2, <1>5, <1>6, SMT
<1>9. date = DateOfYear(yoe + era * 400, doy)
  BY <1>7, <1>8, FromEra, SMT
<1>10. yoe + era * 400 \in Int /\ (doy = 365 => IsLeap(yoe + era * 400 + 1))
  BY <1>7, EraLeap, SMT
<1>11. /\ date = [year |-> date.year, month |-> date.month, day |-> date.day]
       /\ IsDate(date.year, date.month, date.day)
       /\ MarchYear(date.year, date.month) = yoe + era * 400
       /\ DayOfYear(date.month, date.day) = doy
  BY <1>7, <1>9, <1>10, FromYear, SMT
<1>12. date.year \in Int /\ date.month \in 1..12 /\ date.day \in Int
  BY <1>11, SMT DEF IsDate
<1>13. DaysFromCivil(date.year, date.month, date.day)
         = era * 146097 + EraDays(yoe) + DayOfYear(date.month, date.day) - 719468
  BY <1>7, <1>11, <1>12, ToEra, SMT
<1> QED
  BY <1>8, <1>11, <1>13, SMT

\* The years of an era have 365 days, and one more when a leap day ends them.
LEMMA LongYear ==
  ASSUME NEW y \in Int, NEW era \in Int, NEW yoe \in Int, 0 <= yoe, yoe <= 399,
         y = yoe + era * 400,
         NEW later \in Int, NEW n \in Int, 0 <= n, n <= 399, y + 1 = n + later * 400
  PROVE  later * 146097 + EraDays(n)
           = era * 146097 + EraDays(yoe) + (IF IsLeap(y + 1) THEN 366 ELSE 365)
<1>1. CASE yoe = 399
  <2>1. n = 0 /\ later = era + 1
    BY <1>1, SMT
  <2>2. IsLeap(y + 1)
    BY <1>1, EraLeap, SMT DEF EndsLeap, IsLeap
  <2>3. EraDays(0) = 0 /\ EraDays(399) = 145731
    BY SMT DEF EraDays
  <2> QED
    BY <1>1, <2>1, <2>2, <2>3, SMT
<1>2. CASE yoe < 399
  <2>1. n = yoe + 1 /\ later = era
    BY <1>2, SMT
  <2>2. IsLeap(y + 1) <=> EndsLeap(yoe)
    BY EraLeap, SMT
  <2>3. EraDays(yoe) \in Int /\ EraDays(yoe + 1) = EraDays(yoe) + (IF EndsLeap(yoe) THEN 366 ELSE 365)
    BY <1>2, SMTT(60) DEF EraDays, EndsLeap, IsLeap
  <2> QED
    BY <2>1, <2>2, <2>3, SMT
<1> QED
  BY <1>1, <1>2, SMT

\* The days of a date from the start of its year.
LEMMA YearStart ==
  ASSUME NEW year \in Int
  PROVE  \E start \in Int :
           /\ \A month \in 3..12, day \in Int :
                DaysFromCivil(year, month, day) = start + DayOfYear(month, day)
           /\ \A month \in 1..2, day \in Int :
                DaysFromCivil(year + 1, month, day) = start + DayOfYear(month, day)
           /\ DaysFromCivil(year + 1, 3, 1) = start + (IF IsLeap(year + 1) THEN 366 ELSE 365)
<1>1. PICK era \in Int, yoe \in Int : year = yoe + era * 400 /\ 0 <= yoe /\ yoe <= 399
  BY ONLY EraSplit, year \in Int, SMT
<1>2. PICK later \in Int, n \in Int : year + 1 = n + later * 400 /\ 0 <= n /\ n <= 399
  <2>1. PICK next \in Int : next = year + 1
    BY SMT
  <2>2. PICK later \in Int, n \in Int : next = n + later * 400 /\ 0 <= n /\ n <= 399
    BY ONLY next \in Int, EraSplit, SMT
  <2> QED
    BY <2>1, <2>2, SMT
<1>3. EraDays(yoe) \in Int /\ EraDays(n) \in Int /\ DayOfYear(3, 1) = 0
  BY EraDaysInt, SMT DEF DayOfYear, MarchMonth
<1>4. ASSUME NEW month \in 3..12, NEW day \in Int
      PROVE  DaysFromCivil(year, month, day)
               = era * 146097 + EraDays(yoe) + DayOfYear(month, day) - 719468
  <2>1. MarchYear(year, month) = yoe + era * 400
    BY <1>1, SMT DEF MarchYear
  <2> QED
    BY <2>1, <1>1, ToEra, SMT
<1>5. ASSUME NEW month \in 1..2, NEW day \in Int
      PROVE  DaysFromCivil(year + 1, month, day)
               = era * 146097 + EraDays(yoe) + DayOfYear(month, day) - 719468
  <2>1. MarchYear(year + 1, month) = yoe + era * 400
    BY <1>1, SMT DEF MarchYear
  <2> QED
    BY <2>1, <1>1, ToEra, SMT
<1>6. DaysFromCivil(year + 1, 3, 1) = later * 146097 + EraDays(n) - 719468
  <2>1. MarchYear(year + 1, 3) = n + later * 400
    BY <1>2, SMT DEF MarchYear
  <2>2. DaysFromCivil(year + 1, 3, 1) = later * 146097 + EraDays(n) + DayOfYear(3, 1) - 719468
    BY <2>1, <1>2, ToEra, SMT
  <2> QED
    BY <2>2, <1>3, SMT
<1>7. later * 146097 + EraDays(n)
        = era * 146097 + EraDays(yoe) + (IF IsLeap(year + 1) THEN 366 ELSE 365)
  BY <1>1, <1>2, LongYear, SMT
<1>8. PICK start \in Int : start = era * 146097 + EraDays(yoe) - 719468
  BY <1>3, SMT
<1>9. ASSUME NEW month \in Int, NEW day \in Int
      PROVE  DayOfYear(month, day) \in Int
  BY SMT DEF DayOfYear, MarchMonth
<1>11. ASSUME NEW month \in 3..12, NEW day \in Int
       PROVE  DaysFromCivil(year, month, day) = start + DayOfYear(month, day)
  <2>1. DayOfYear(month, day) \in Int
    BY <1>9, SMT
  <2> QED
    BY <2>1, <1>3, <1>4, <1>8, SMT
<1>12. ASSUME NEW month \in 1..2, NEW day \in Int
       PROVE  DaysFromCivil(year + 1, month, day) = start + DayOfYear(month, day)
  <2>1. DayOfYear(month, day) \in Int
    BY <1>9, SMT
  <2> QED
    BY <2>1, <1>3, <1>5, <1>8, SMT
<1>13. DaysFromCivil(year + 1, 3, 1) = start + (IF IsLeap(year + 1) THEN 366 ELSE 365)
  BY <1>3, <1>6, <1>7, <1>8, SMT
<1> WITNESS start \in Int
<1> QED
  BY <1>11, <1>12, <1>13

(* From a date to the next, over months, leap days, centuries and eras, is  *)
(* one day (ymd_hms_to_unix), so that expiries compare as their dates do.   *)
THEOREM DaysAdvance ==
  ASSUME NEW year, NEW month, NEW day, IsDate(year, month, day),
         NEW today, today = [year |-> year, month |-> month, day |-> day],
         NEW tomorrow, tomorrow = Tomorrow(today)
  PROVE  DayNumber(tomorrow) = DayNumber(today) + 1
<1>1. /\ year \in Int /\ month \in 1..12 /\ day \in Int
      /\ 1 <= day /\ day <= DaysInMonth(year, month)
  BY SMT DEF IsDate
<1>2. PICK base \in Int : base = IF month <= 2 THEN year - 1 ELSE year
  BY <1>1, SMT
<1>3. PICK start \in Int :
       /\ \A m \in 3..12, d \in Int : DaysFromCivil(base, m, d) = start + DayOfYear(m, d)
       /\ \A m \in 1..2, d \in Int : DaysFromCivil(base + 1, m, d) = start + DayOfYear(m, d)
       /\ DaysFromCivil(base + 1, 3, 1) = start + (IF IsLeap(base + 1) THEN 366 ELSE 365)
  BY YearStart, ZenonT(30)
<1>4. /\ DayNumber(today) = DaysFromCivil(year, month, day)
      /\ DayNumber(tomorrow) = DaysFromCivil(tomorrow.year, tomorrow.month, tomorrow.day)
  BY SMT DEF DayNumber
<1>5. DaysFromCivil(year, month, day) = start + DayOfYear(month, day)
  <2>1. CASE month \in 3..12
    BY <2>1, <1>1, <1>2, <1>3, SMT
  <2>2. CASE month \in 1..2
    <3>1. year = base + 1
      BY <2>2, <1>1, <1>2, SMT
    <3> QED
      BY <2>2, <3>1, <1>1, <1>3, SMT
  <2> QED
    BY <2>1, <2>2, <1>1, SMT
<1>6. /\ DayOfYear(month, day) \in Int
      /\ DayOfYear(month, day + 1) = DayOfYear(month, day) + 1
  BY <1>1, SMT DEF DayOfYear, MarchMonth
<1>7. CASE day < DaysInMonth(year, month)
  <2>1. tomorrow.year = year /\ tomorrow.month = month /\ tomorrow.day = day + 1
    BY <1>7, SMT DEF Tomorrow
  <2>2. DaysFromCivil(year, month, day + 1) = start + DayOfYear(month, day + 1)
    <3>1. CASE month \in 3..12
      BY <3>1, <1>1, <1>2, <1>3, SMT
    <3>2. CASE month \in 1..2
      <4>1. year = base + 1
        BY <3>2, <1>1, <1>2, SMT
      <4> QED
        BY <3>2, <4>1, <1>1, <1>3, SMT
    <3> QED
      BY <3>1, <3>2, <1>1, SMT
  <2> QED
    BY <2>1, <2>2, <1>1, <1>5, <1>6, <1>4, SMT
<1>8. CASE day = DaysInMonth(year, month) /\ month \in 3..11
  <2>1. tomorrow.year = year /\ tomorrow.month = month + 1 /\ tomorrow.day = 1
    BY <1>1, <1>8, SMT DEF Tomorrow
  <2>2. DaysFromCivil(year, month + 1, 1) = start + DayOfYear(month + 1, 1)
    BY <1>1, <1>2, <1>3, <1>8, SMT
  <2>3. DayOfYear(month + 1, 1) = DayOfYear(month, day) + 1
    <3>1. CASE month \in {3, 5, 7, 8, 10}
      BY <3>1, <1>1, <1>8, MonthLengths, SMT DEF DayOfYear, MarchMonth
    <3>2. CASE month \in {4, 6, 9, 11}
      BY <3>2, <1>1, <1>8, MonthLengths, SMT DEF DayOfYear, MarchMonth
    <3> QED
      BY <3>1, <3>2, <1>8, SMT
  <2> QED
    BY <2>1, <2>2, <2>3, <1>1, <1>5, <1>6, <1>4, SMT
<1>9. CASE day = DaysInMonth(year, month) /\ month = 12
  <2>1. tomorrow.year = year + 1 /\ tomorrow.month = 1 /\ tomorrow.day = 1
    BY <1>1, <1>9, SMT DEF Tomorrow
  <2>2. DaysFromCivil(year + 1, 1, 1) = start + DayOfYear(1, 1)
    BY <1>1, <1>2, <1>3, <1>9, SMT
  <2>3. DayOfYear(1, 1) = DayOfYear(month, day) + 1
    BY <1>1, <1>9, MonthLengths, SMT DEF DayOfYear, MarchMonth
  <2> QED
    BY <2>1, <2>2, <2>3, <1>1, <1>5, <1>6, <1>4, SMT
<1>10. CASE day = DaysInMonth(year, month) /\ month = 1
  <2>1. tomorrow.year = year /\ tomorrow.month = 2 /\ tomorrow.day = 1
    BY <1>1, <1>10, SMT DEF Tomorrow
  <2>2. year = base + 1
    BY <1>1, <1>2, <1>10, SMT
  <2>3. DaysFromCivil(year, 2, 1) = start + DayOfYear(2, 1)
    BY <2>2, <1>3, SMT
  <2>4. DayOfYear(2, 1) = DayOfYear(month, day) + 1
    BY <1>1, <1>10, MonthLengths, SMT DEF DayOfYear, MarchMonth
  <2> QED
    BY <2>1, <2>3, <2>4, <1>1, <1>5, <1>6, <1>4, SMT
<1>11. CASE day = DaysInMonth(year, month) /\ month = 2
  <2>1. tomorrow.year = year /\ tomorrow.month = 3 /\ tomorrow.day = 1
    BY <1>1, <1>11, SMT DEF Tomorrow
  <2>2. year = base + 1
    BY <1>1, <1>2, <1>11, SMT
  <2>3. DaysFromCivil(year, 3, 1) = start + (IF IsLeap(year) THEN 366 ELSE 365)
    BY <2>2, <1>3, SMT
  <2>4. DayOfYear(month, day) = IF IsLeap(year) THEN 365 ELSE 364
    BY <1>1, <1>11, MonthLengths, SMT DEF DayOfYear, MarchMonth
  <2> QED
    BY <2>1, <2>3, <2>4, <1>1, <1>5, <1>4, SMT
<1>12. DaysInMonth(year, month) \in Int
  BY <1>1, SMT DEF DaysInMonth
<1>13. day < DaysInMonth(year, month) \/ day = DaysInMonth(year, month)
  BY <1>1, <1>12, SMT
<1> QED
  BY <1>1, <1>7, <1>8, <1>9, <1>10, <1>11, <1>13, SMT

LEMMA DatesAreDates ==
  ASSUME Years \subseteq Int, NEW d \in Dates
  PROVE  /\ d = [year |-> d.year, month |-> d.month, day |-> d.day]
         /\ IsDate(d.year, d.month, d.day)
<1>1. d = [year |-> d.year, month |-> d.month, day |-> d.day]
  BY SMT DEF Dates
<1>2. /\ d.year \in Years /\ d.month \in 1..12 /\ d.day \in 1..31
      /\ d.day <= DaysInMonth(d.year, d.month)
  BY SMT DEF Dates
<1>3. d.year \in Int
  BY <1>2, Zenon
<1>4. d.day \in Int /\ 1 <= d.day
  BY <1>2, SMT
<1> QED
  BY <1>1, <1>2, <1>3, <1>4, SMT DEF IsDate

LEMMA DayIsInt ==
  ASSUME NEW d, IsDate(d.year, d.month, d.day)
  PROVE  DayNumber(d) \in Int
BY SMT DEF DayNumber, DaysFromCivil, EraDays, DayOfYear, MarchMonth, IsDate

(* What the run checks of the calendar in some years holds in all of them.  *)
THEOREM CalendarCounts == DaysCount
<1> SUFFICES ASSUME Years \subseteq Int PROVE DaysCount
  BY RulesAssumption
<1>1. DaysFromCivil(1970, 1, 1) = 0
  BY SMT DEF DaysFromCivil, EraDays, DayOfYear, MarchMonth
<1>2. ASSUME NEW d \in Dates
      PROVE  /\ DayNumber(Tomorrow(d)) = DayNumber(d) + 1
             /\ CivilFromDays(DayNumber(d)) = d
  <2>1. d = [year |-> d.year, month |-> d.month, day |-> d.day]
    BY DatesAreDates, Zenon
  <2>2. IsDate(d.year, d.month, d.day)
    BY DatesAreDates, Zenon
  <2>3. PICK tomorrow : tomorrow = Tomorrow(d)
    OBVIOUS
  <2>4. DayNumber(tomorrow) = DayNumber(d) + 1
    BY <2>1, <2>2, <2>3, DaysAdvance, Zenon
  <2>5. CivilFromDays(DayNumber(d)) = d
    BY <2>1, <2>2, DateAndBack, Zenon DEF DayNumber
  <2> QED
    BY <2>3, <2>4, <2>5, Zenon
<1> QED
  BY <1>1, <1>2, SMT DEF DaysCount

(* The created_at that emit writes is read back as the moment it was        *)
(* written (unix_to_rfc3339, rfc3339_to_unix), at every second of every day.*)
THEOREM WrittenIsRead ==
  ASSUME NEW days \in Int, NEW secs \in Int, 0 <= secs, secs < ADay
  PROVE  RfcToUnix(UnixToRfc(<<days, secs>>)) = <<days, secs>>
<1>1. PICK date : date = CivilFromDays(days)
  OBVIOUS
<1>2. /\ IsDate(date.year, date.month, date.day)
      /\ DaysFromCivil(date.year, date.month, date.day) = days
  BY <1>1, DayAndBack, Zenon
<1>3. PICK hour \in Int, minute \in Int, second \in Int :
        hour = secs \div 3600 /\ minute = (secs % 3600) \div 60 /\ second = secs % 60
  BY SMT
<1>4. /\ hour <= 23 /\ minute <= 59 /\ second <= 59
      /\ hour * 3600 + minute * 60 + second = secs
  BY <1>3, SMT DEF ADay
<1>5. PICK t : t = UnixToRfc(<<days, secs>>)
  OBVIOUS
<1>6. /\ t.year = date.year /\ t.month = date.month /\ t.day = date.day
      /\ t.hour = hour /\ t.minute = minute /\ t.second = second
      /\ t.sign = 1 /\ t.offHour = 0 /\ t.offMinute = 0
  BY <1>1, <1>3, <1>5, SMT DEF UnixToRfc
<1>7. RfcToUnix(t) = Moment(days, secs)
  <2>1. /\ t.month \in 1..12 /\ t.day \in 1..DaysInMonth(t.year, t.month)
        /\ t.hour <= 23 /\ t.minute <= 59 /\ t.second <= 59
    <3>1. DaysInMonth(date.year, date.month) \in Int
      BY <1>2, SMT DEF DaysInMonth, IsDate
    <3> QED
      BY <3>1, <1>2, <1>4, <1>6, SMT DEF IsDate
  <2>2. t.hour * 3600 + t.minute * 60 + t.second - t.sign * (t.offHour * 3600 + t.offMinute * 60) = secs
    BY <1>4, <1>6, SMT
  <2>3. DaysFromCivil(t.year, t.month, t.day) = days
    BY <1>2, <1>6, SMT
  <2> QED
    BY <2>1, <2>2, <2>3, SMT DEF RfcToUnix
<1>8. Moment(days, secs) = <<days, secs>>
  BY SMT DEF Moment, ADay
<1> QED
  BY <1>5, <1>7, <1>8, SMT

(* A lease that emit has written is read back unchanged by get and check,   *)
(* whatever was asked for and at whatever time: the writer validates what   *)
(* the reader will (into_lease and from_json_bytes of lease.rs), and stamps *)
(* it with the moment it was written.                                       *)
THEOREM EmittedReadsBack ==
  ASSUME NEW args, NEW days \in Int, NEW secs \in Int, 0 <= secs, secs < ADay,
         NEW file, file = LeaseEmit(args, <<days, secs>>), ~IsError(file)
  PROVE  LeaseGet(file) = file /\ RfcToUnix(file.created) = <<days, secs>>
<1>1. args.worker \in Workers /\ file = IntoLease(args, <<days, secs>>)
  <2>1. \A kind : IsError(Refuse(kind))
    BY SMT DEF Refuse, IsError
  <2> QED
    BY <2>1 DEF LeaseEmit
<1>2. PICK made : made =
        [schema |-> SchemaVersion, task |-> args.task, worker |-> args.worker,
         branch |-> args.branch, allowed |-> Strings(args.allowed),
         forbidden |-> Strings(args.forbidden), created |-> UnixToRfc(<<days, secs>>),
         expires |-> args.expires]
  OBVIOUS
<1>3. file = made /\ Complaint(made) = NoComplaint
  <2>1. \A kind : IsError(Refuse(kind))
    BY SMT DEF Refuse, IsError
  <2>2. file = Validated(made)
    BY <1>1, <1>2, <2>1 DEF IntoLease
  <2> QED
    BY <2>1, <2>2 DEF Validated
<1>4. /\ DOMAIN made = LeaseFields /\ made.worker = args.worker
      /\ made.created = UnixToRfc(<<days, secs>>)
  BY <1>2, SMT DEF LeaseFields
<1>5. [f \in LeaseFields |-> IF f \in DOMAIN made THEN made[f] ELSE NoTime] = made
  BY <1>2, <1>4, SMT DEF LeaseFields
<1>6. LeaseGet(made) = Validated(made)
  BY <1>1, <1>4, <1>5, Zenon DEF LeaseGet, ReadLease
<1>7. Validated(made) = made
  BY <1>3 DEF Validated
<1> QED
  BY <1>3, <1>4, <1>6, <1>7, WrittenIsRead, SMT

\* A minute of a date, so many minutes east or west of UTC.
LEMMA StampRead ==
  ASSUME NEW d, IsDate(d.year, d.month, d.day),
         NEW hour \in Int, 0 <= hour, hour <= 23, NEW minute \in Int, 0 <= minute, minute <= 59,
         NEW sign \in Int, sign \in {-1, 1}, NEW off \in Nat,
         NEW secs, secs = hour * 3600 + minute * 60 - sign * off * 60
  PROVE  RfcToUnix(Stamp(d, hour, minute, sign, off)) = Moment(DayNumber(d), secs)
<1>1. PICK t : t = Stamp(d, hour, minute, sign, off)
  OBVIOUS
<1>2. /\ t.year = d.year /\ t.month = d.month /\ t.day = d.day
      /\ t.hour = hour /\ t.minute = minute /\ t.second = 0
      /\ t.sign = sign /\ t.offHour = off \div 60 /\ t.offMinute = off % 60
  BY <1>1, SMT DEF Stamp
<1>3. /\ t.month \in 1..12 /\ t.day \in 1..DaysInMonth(t.year, t.month)
      /\ t.hour <= 23 /\ t.minute <= 59 /\ t.second <= 59
  <2>1. DaysInMonth(d.year, d.month) \in Int
    BY SMT DEF DaysInMonth, IsDate
  <2> QED
    BY <2>1, <1>2, SMT DEF IsDate
<1>4. t.hour * 3600 + t.minute * 60 + t.second - t.sign * (t.offHour * 3600 + t.offMinute * 60)
        = hour * 3600 + minute * 60 - sign * off * 60
  <2>1. PICK h \in Int, m \in Int : h = off \div 60 /\ m = off % 60
    BY SMT
  <2>2. h * 3600 + m * 60 = off * 60
    BY <2>1, SMT
  <2>3. CASE sign = 1
    BY <1>2, <2>1, <2>2, <2>3, SMT
  <2>4. CASE sign = -1
    BY <1>2, <2>1, <2>2, <2>4, SMT
  <2> QED
    BY <2>3, <2>4
<1>5. DaysFromCivil(t.year, t.month, t.day) = DayNumber(d)
  BY <1>2, SMT DEF DayNumber
<1> QED
  BY <1>1, <1>3, <1>4, <1>5, SMT DEF RfcToUnix

\* The next date exists.
LEMMA TomorrowIsDate ==
  ASSUME NEW year, NEW month, NEW day, IsDate(year, month, day),
         NEW today, today = [year |-> year, month |-> month, day |-> day],
         NEW tomorrow, tomorrow = Tomorrow(today)
  PROVE  IsDate(tomorrow.year, tomorrow.month, tomorrow.day)
<1>1. /\ year \in Int /\ month \in 1..12 /\ day \in Int
      /\ 1 <= day /\ day <= DaysInMonth(year, month)
  BY SMT DEF IsDate
<1>2. \A y \in Int, m \in 1..12 : DaysInMonth(y, m) \in Int /\ 1 <= DaysInMonth(y, m)
  BY SMT DEF DaysInMonth
<1>3. CASE day < DaysInMonth(year, month)
  <2>1. tomorrow.year = year /\ tomorrow.month = month /\ tomorrow.day = day + 1
    BY <1>1, <1>3, SMT DEF Tomorrow
  <2>2. IsDate(year, month, day + 1)
    <3>1. DaysInMonth(year, month) \in Int
      BY <1>1, <1>2
    <3> QED
      BY <3>1, <1>1, <1>3, SMT DEF IsDate
  <2> QED
    BY <2>1, <2>2, SMT
<1>4. CASE ~(day < DaysInMonth(year, month)) /\ month < 12
  <2>1. tomorrow.year = year /\ tomorrow.month = month + 1 /\ tomorrow.day = 1
    BY <1>1, <1>4, SMT DEF Tomorrow
  <2>2. IsDate(year, month + 1, 1)
    <3>1. month + 1 \in 1..12
      BY <1>1, <1>4, SMT
    <3>2. 1 <= DaysInMonth(year, month + 1)
      BY <3>1, <1>1, <1>2
    <3> QED
      BY <3>1, <3>2, <1>1, SMT DEF IsDate
  <2> QED
    BY <2>1, <2>2, SMT
<1>5. CASE ~(day < DaysInMonth(year, month)) /\ ~(month < 12)
  <2>1. tomorrow.year = year + 1 /\ tomorrow.month = 1 /\ tomorrow.day = 1
    BY <1>1, <1>5, SMT DEF Tomorrow
  <2>2. IsDate(year + 1, 1, 1)
    BY <1>1, <1>2, SMT DEF IsDate
  <2> QED
    BY <2>1, <2>2, SMT
<1> QED
  BY <1>3, <1>4, <1>5

LEMMA SecondsOf ==
  ASSUME NEW day \in Int, NEW secs \in Int, 0 <= secs, secs < ADay
  PROVE  Moment(day, secs) = <<day, secs>> /\ Moment(day, secs + ADay) = <<day + 1, secs>>
BY SMT DEF Moment, ADay

\* Minute m of a date.
LEMMA MinuteRead ==
  ASSUME NEW d, IsDate(d.year, d.month, d.day), NEW day \in Int, day = DayNumber(d),
         NEW m \in Int, 0 <= m, m <= 1439
  PROVE  RfcToUnix(Stamp(d, m \div 60, m % 60, 1, 0)) = <<day, m * 60>>
<1>1. PICK hour \in Int : hour = m \div 60
  BY SMT
<1>2. PICK minute \in Int : minute = m % 60
  BY SMT
<1>3. /\ 0 <= hour /\ hour <= 23 /\ 0 <= minute /\ minute <= 59
      /\ hour * 3600 + minute * 60 = m * 60
  BY <1>1, <1>2, SMT
<1>4. PICK secs \in Int : secs = m * 60 /\ 0 <= secs /\ secs < ADay
  BY SMT DEF ADay
<1>5. RfcToUnix(Stamp(d, hour, minute, 1, 0)) = Moment(DayNumber(d), secs)
  BY <1>3, <1>4, StampRead, SMT
<1>6. Moment(day, secs) = <<day, secs>>
  BY <1>4, SecondsOf
<1> QED
  BY <1>1, <1>2, <1>4, <1>5, <1>6, SMT

\* The last minute of a date, off minutes west of UTC.
LEMMA LastMinuteRead ==
  ASSUME NEW d, IsDate(d.year, d.month, d.day), NEW day \in Int, day = DayNumber(d),
         NEW off \in Nat, 1 <= off, off <= 1439
  PROVE  RfcToUnix(Stamp(d, 23, 59, -1, off)) = <<day + 1, (off - 1) * 60>>
<1>1. PICK secs \in Int : secs = (off - 1) * 60 /\ 0 <= secs /\ secs < ADay
  BY SMT DEF ADay
<1>2. PICK all \in Int : all = 23 * 3600 + 59 * 60 - (-1) * off * 60 /\ all = secs + ADay
  BY <1>1, SMT DEF ADay
<1>3. RfcToUnix(Stamp(d, 23, 59, -1, off)) = Moment(DayNumber(d), all)
  BY <1>2, StampRead, SMT
<1>4. Moment(day, secs + ADay) = <<day + 1, secs>>
  BY <1>1, SecondsOf
<1> QED
  BY <1>1, <1>2, <1>3, <1>4, SMT

\* A lease is expired from the minute after its last one on.
LEMMA LaterExpires ==
  ASSUME NEW day \in Int, NEW at \in Int, NEW expires, NEW before, NEW after,
         NoTime \notin Int \X Int, expires # NoTime,
         RfcToUnix(expires) = <<day, at>>,
         RfcToUnix(before) = <<day, at>>, RfcToUnix(after) = <<day, at + 60>>
  PROVE  /\ ~IsExpired([expires |-> expires], before)
         /\ IsExpired([expires |-> expires], after)
<1>1. <<day, at>> # NoTime /\ <<day, at + 60>> # NoTime
  BY SMT
<1>2. ~Later(<<day, at>>, <<day, at>>) /\ Later(<<day, at + 60>>, <<day, at>>)
  BY SMT DEF Later
<1>3. PICK file : file = [expires |-> expires]
  OBVIOUS
<1>4. file.expires = expires
  BY <1>3, SMT
<1> QED
  BY <1>1, <1>2, <1>3, <1>4, SMT DEF IsExpired

(* A missing timestamp is no timestamp.                                    *)
LEMMA StampsAreTimes ==
  \A d \in Dates, off \in Nat : NoTime # Stamp(d, 23, 59, -1, off)
<1> SUFFICES ASSUME NEW d \in Dates, NEW off \in Nat PROVE Stamp(d, 23, 59, -1, off) \in Timestamps
  BY RulesAssumption
<1>1. d.year \in Int /\ d.month \in Int /\ d.day \in Int
  <2>1. d.year \in Years /\ d.month \in 1..12 /\ d.day \in 1..31
    BY SMT DEF Dates
  <2>2. Years \subseteq Int
    BY RulesAssumption
  <2>3. d.year \in Int
    BY <2>1, <2>2, Zenon
  <2>4. 1..12 \subseteq Int /\ 1..31 \subseteq Int
    BY SMT
  <2> QED
    BY <2>1, <2>3, <2>4, Zenon
<1>2. off \div 60 \in Nat /\ off % 60 \in Nat
  BY SMT
<1> QED
  BY <1>1, <1>2, SMT DEF Stamp, Timestamps

(* is_expired goes by the moment and not by the offset a timestamp is       *)
(* written with, over the end of every day of every year.                   *)
THEOREM ExpiresOnTime == ExpiryMeans
<1> SUFFICES ASSUME Years \subseteq Int, NoTime \notin Int \X Int,
                    \A d \in Dates, off \in Nat : NoTime # Stamp(d, 23, 59, -1, off)
             PROVE  ExpiryMeans
  BY RulesAssumption, StampsAreTimes
<1>1. ASSUME NEW d \in Dates, NEW off \in Nat, 1 <= off, off <= 1439
      PROVE  /\ ~IsExpired([expires |-> Stamp(d, 23, 59, -1, off)],
                           Stamp(Tomorrow(d), (off - 1) \div 60, (off - 1) % 60, 1, 0))
             /\ IsExpired([expires |-> Stamp(d, 23, 59, -1, off)],
                          Stamp(Tomorrow(d), off \div 60, off % 60, 1, 0))
  <2>1. /\ d = [year |-> d.year, month |-> d.month, day |-> d.day]
        /\ IsDate(d.year, d.month, d.day)
    BY DatesAreDates, SMT
  <2>2. PICK tomorrow : tomorrow = Tomorrow(d)
    OBVIOUS
  <2>3. IsDate(tomorrow.year, tomorrow.month, tomorrow.day)
    BY <2>1, <2>2, TomorrowIsDate, SMT
  <2>4. PICK day \in Int : day = DayNumber(d)
    BY <2>1, DayIsInt, SMT
  <2>5. DayNumber(tomorrow) = day + 1
    BY <2>1, <2>2, <2>4, DaysAdvance, SMT
  <2>6. RfcToUnix(Stamp(d, 23, 59, -1, off)) = <<day + 1, (off - 1) * 60>>
    BY <1>1, <2>1, <2>4, LastMinuteRead
  <2>7. PICK n \in Int : n = off - 1 /\ 0 <= n /\ n <= 1439
    BY <1>1, SMT
  <2>8. PICK next \in Int : next = day + 1
    BY SMT
  <2>9. /\ RfcToUnix(Stamp(tomorrow, n \div 60, n % 60, 1, 0)) = <<next, n * 60>>
        /\ RfcToUnix(Stamp(tomorrow, off \div 60, off % 60, 1, 0)) = <<next, off * 60>>
    BY <1>1, <2>3, <2>5, <2>7, <2>8, MinuteRead, SMT
  <2>10. off * 60 = n * 60 + 60 /\ (off - 1) * 60 = n * 60
    BY <2>7, SMT
  <2>11. PICK at \in Int : at = n * 60
    BY SMT
  <2> QED
    BY <2>2, <2>6, <2>7, <2>8, <2>9, <2>10, <2>11, LaterExpires, SMT
<1>2. \A off \in {1, 60, 840} : off \in Nat /\ 1 <= off /\ off <= 1439
  BY SMT
<1> QED
  BY <1>1, <1>2, SMT DEF ExpiryMeans

-----------------------------------------------------------------------------
(* The globs.  glob_match of lease.rs is a recursion over what is left of   *)
(* the pattern and of the path, and decides as a cut of the path would.     *)

\* A word from place a on is covered by the items after p.
Rest(n, m, fits, p, a) ==
  \E cut \in [p..n -> 0..m] :
    /\ cut[p] = a /\ cut[n] = m
    /\ \A i \in p + 1..n : cut[i - 1] <= cut[i] /\ <<i, cut[i - 1], cut[i]>> \in fits

\* No items cover no places.
LEMMA RestEnd ==
  ASSUME NEW n \in Nat, NEW m \in Nat, NEW fits, NEW a \in 0..m
  PROVE  Rest(n, m, fits, n, a) <=> a = m
<1>1. ASSUME a = m PROVE Rest(n, m, fits, n, a)
  <2> DEFINE one == [i \in n..n |-> m]
  <2>1. one \in [n..n -> 0..m] /\ one[n] = m /\ n + 1..n = {}
    OBVIOUS
  <2> HIDE DEF one
  <2> QED
    BY <1>1, <2>1 DEF Rest
<1> QED
  BY <1>1 DEF Rest

\* The first of the items takes some places, the others the rest.
LEMMA RestStep ==
  ASSUME NEW n \in Nat, NEW m \in Nat, NEW fits, NEW p \in 0..n, p < n, NEW a \in 0..m
  PROVE  Rest(n, m, fits, p, a)
           <=> \E b \in a..m : <<p + 1, a, b>> \in fits /\ Rest(n, m, fits, p + 1, b)
<1>1. ASSUME Rest(n, m, fits, p, a)
      PROVE  \E b \in a..m : <<p + 1, a, b>> \in fits /\ Rest(n, m, fits, p + 1, b)
  <2>1. PICK cut \in [p..n -> 0..m] :
          /\ cut[p] = a /\ cut[n] = m
          /\ \A i \in p + 1..n : cut[i - 1] <= cut[i] /\ <<i, cut[i - 1], cut[i]>> \in fits
    BY <1>1 DEF Rest
  <2> DEFINE b == cut[p + 1]
             later == [i \in p + 1..n |-> cut[i]]
  <2>2. p + 1 \in p + 1..n /\ (p + 1) - 1 = p /\ p + 1 \in p..n /\ n \in p + 1..n
    OBVIOUS
  <2>3. a <= b /\ <<p + 1, a, b>> \in fits /\ b \in 0..m
    BY <2>1, <2>2
  <2>4. later \in [p + 1..n -> 0..m] /\ later[p + 1] = b /\ later[n] = m
    BY <2>1, <2>2
  <2>5. ASSUME NEW i \in (p + 1) + 1..n
        PROVE  later[i - 1] <= later[i] /\ <<i, later[i - 1], later[i]>> \in fits
    <3>1. i \in p + 1..n /\ i - 1 \in p + 1..n
      OBVIOUS
    <3>2. later[i - 1] = cut[i - 1] /\ later[i] = cut[i]
      BY <3>1
    <3> QED
      BY <2>1, <3>1, <3>2
  <2>6. Rest(n, m, fits, p + 1, b)
    BY <2>4, <2>5 DEF Rest
  <2>7. b \in a..m
    BY <2>3
  <2> HIDE DEF b
  <2> QED
    BY <2>3, <2>6, <2>7
<1>2. ASSUME NEW b \in a..m, <<p + 1, a, b>> \in fits, Rest(n, m, fits, p + 1, b)
      PROVE  Rest(n, m, fits, p, a)
  <2>1. PICK cut \in [p + 1..n -> 0..m] :
          /\ cut[p + 1] = b /\ cut[n] = m
          /\ \A i \in (p + 1) + 1..n : cut[i - 1] <= cut[i] /\ <<i, cut[i - 1], cut[i]>> \in fits
    BY <1>2 DEF Rest
  <2> DEFINE all == [i \in p..n |-> IF i = p THEN a ELSE cut[i]]
  <2>2. all \in [p..n -> 0..m] /\ all[p] = a /\ all[n] = m /\ all[p + 1] = b
    BY <2>1
  <2>3. ASSUME NEW i \in p + 1..n
        PROVE  all[i - 1] <= all[i] /\ <<i, all[i - 1], all[i]>> \in fits
    <3>1. CASE i = p + 1
      <4>1. i - 1 = p /\ all[i - 1] = a /\ all[i] = b
        BY <2>2, <3>1
      <4>2. a <= b
        OBVIOUS
      <4> HIDE DEF all
      <4> QED
        BY <1>2, <3>1, <4>1, <4>2
    <3>2. CASE i # p + 1
      <4>1. i \in (p + 1) + 1..n /\ i \in p..n /\ i - 1 \in p..n /\ i # p /\ i - 1 # p
        BY <3>2
      <4>2. all[i - 1] = cut[i - 1] /\ all[i] = cut[i]
        BY <4>1
      <4> QED
        BY <2>1, <4>1, <4>2
    <3> QED
      BY <3>1, <3>2
  <2> QED
    BY <2>2, <2>3 DEF Rest
<1> QED
  BY <1>1, <1>2

\* All items, and all places.
LEMMA CoversIsRest ==
  ASSUME NEW n \in Nat, NEW m \in Nat, NEW fits
  PROVE  Covers(n, m, fits) <=> Rest(n, m, fits, 0, 0)
BY DEF Covers, Rest


\* The last element of a set of places in a grid.
LEMMA LastOfGrid ==
  ASSUME NEW n \in Nat, NEW m \in Nat, NEW T, T \subseteq (1..n) \X (1..m), T # {}
  PROVE  \E x \in T : \A y \in T : y[1] + y[2] <= x[1] + x[2]
<1> DEFINE left == {k \in Nat : \E x \in T : k = n + m - (x[1] + x[2])}
<1>1. \A x \in T : x[1] \in 1..n /\ x[2] \in 1..m
  OBVIOUS
<1>2. \A x \in T : n + m - (x[1] + x[2]) \in left
  BY <1>1
<1>3. left \subseteq Nat /\ left # {}
  BY <1>2
<1>4. PICK k \in left : \A j \in left : k <= j
  <2> HIDE DEF left
  <2> QED
    BY <1>3, NatLess
<1>5. PICK x \in T : k = n + m - (x[1] + x[2])
  OBVIOUS
<1>6. ASSUME NEW y \in T PROVE y[1] + y[2] <= x[1] + x[2]
  BY <1>1, <1>2, <1>4, <1>5
<1> QED
  BY <1>6

\* Where items p and up match the places s and up.
Matches(pat, seg, p, s) == Rest(Len(pat), Len(seg), CharPieces(pat, seg), p - 1, s - 1)

\* One step of glob_seg_recurse.
CharStep(pat, seg, match) ==
  [at \in (1..Len(pat) + 1) \X (1..Len(seg) + 1) |->
        LET p == at[1]
            s == at[2]
        IN \/ p > Len(pat) /\ s > Len(seg)
           \/ /\ p <= Len(pat) /\ pat[p] = Star
              /\ match[<<p + 1, s>>] \/ (s <= Len(seg) /\ match[<<p, s + 1>>])
           \/ /\ p <= Len(pat) /\ pat[p] # Star
              /\ s <= Len(seg) /\ pat[p] = seg[s] /\ match[<<p + 1, s + 1>>]]

\* Where the rest of a segment matches the rest of a pattern.
LEMMA CharRest ==
  ASSUME NEW C, NEW pat \in Seq(C), NEW seg \in Seq(C),
         NEW p \in 1..Len(pat) + 1, NEW s \in 1..Len(seg) + 1
  PROVE  Matches(pat, seg, p, s) <=>
           \/ p > Len(pat) /\ s > Len(seg)
           \/ /\ p <= Len(pat) /\ pat[p] = Star
              /\ Matches(pat, seg, p + 1, s) \/ (s <= Len(seg) /\ Matches(pat, seg, p, s + 1))
           \/ /\ p <= Len(pat) /\ pat[p] # Star
              /\ s <= Len(seg) /\ pat[p] = seg[s] /\ Matches(pat, seg, p + 1, s + 1)
<1> DEFINE n == Len(pat)
           m == Len(seg)
           fits == CharPieces(pat, seg)
<1>1. n \in Nat /\ m \in Nat
  OBVIOUS
<1>2. CASE p = n + 1
  <2>1. Rest(n, m, fits, n, s - 1) <=> s - 1 = m
    BY <1>1, RestEnd
  <2> QED
    BY <1>1, <1>2, <2>1 DEF Matches
<1>3. CASE p <= n
  <2> DEFINE R(a) == Rest(n, m, fits, p, a)
  <2>0. p \in 1..n /\ p - 1 \in 0..n /\ p - 1 < n /\ (p - 1) + 1 = p /\ (p + 1) - 1 = p
    BY <1>1, <1>3
  <2>1. \A a \in 0..m : Rest(n, m, fits, p - 1, a) <=> \E b \in a..m : <<p, a, b>> \in fits /\ R(b)
    <3>1. ASSUME NEW a \in 0..m
          PROVE  Rest(n, m, fits, p - 1, a)
            <=> \E b \in a..m : <<(p - 1) + 1, a, b>> \in fits /\ Rest(n, m, fits, (p - 1) + 1, b)
      BY <1>1, <2>0, RestStep
    <3> QED
      BY <2>0, <3>1
  <2>2. \A a \in 0..m, b \in 0..m : a <= b =>
          (<<p, a, b>> \in fits <=> pat[p] = Star \/ (b = a + 1 /\ seg[b] = pat[p]))
    <3> SUFFICES ASSUME NEW a \in 0..m, NEW b \in 0..m, a <= b
                 PROVE <<p, a, b>> \in fits <=> pat[p] = Star \/ (b = a + 1 /\ seg[b] = pat[p])
      OBVIOUS
    <3> QED
      BY <2>0 DEF CharPieces, Pieces
  <2>3. /\ \A x \in 1..m + 1 : Matches(pat, seg, p, x) <=> Rest(n, m, fits, p - 1, x - 1)
        /\ \A x \in 1..m + 1 : Matches(pat, seg, p + 1, x) <=> R(x - 1)
    BY <2>0 DEF Matches
  <2> HIDE DEF R, fits, n, m
  <2>6. s - 1 \in 0..m /\ s \in 1..m + 1
    BY <1>1 DEF m
  <2>7. Matches(pat, seg, p, s) <=> \E b \in s - 1..m : <<p, s - 1, b>> \in fits /\ R(b)
    BY <2>1, <2>3, <2>6
  <2>8. \A b \in s - 1..m :
          <<p, s - 1, b>> \in fits <=> pat[p] = Star \/ (b = s /\ seg[b] = pat[p])
    <3> SUFFICES ASSUME NEW b \in s - 1..m
                 PROVE <<p, s - 1, b>> \in fits <=> pat[p] = Star \/ (b = s /\ seg[b] = pat[p])
      OBVIOUS
    <3>1. b \in 0..m /\ s - 1 <= b /\ (s - 1) + 1 = s
      BY <2>6
    <3> QED
      BY <2>2, <2>6, <3>1
  <2>4. CASE pat[p] = Star
    <3>1. Matches(pat, seg, p, s) <=> \E b \in s - 1..m : R(b)
      BY <2>4, <2>7, <2>8
    <3>2. s <= m => (Matches(pat, seg, p, s + 1) <=> \E b \in s..m : R(b))
      <4> SUFFICES ASSUME s <= m PROVE Matches(pat, seg, p, s + 1) <=> \E b \in s..m : R(b)
        OBVIOUS
      <4>1. s \in 0..m /\ s + 1 \in 1..m + 1 /\ (s + 1) - 1 = s
        BY <1>1, <2>6
      <4>2. Matches(pat, seg, p, s + 1) <=> \E b \in s..m : <<p, s, b>> \in fits /\ R(b)
        BY <2>1, <2>3, <4>1
      <4>3. \A b \in s..m : <<p, s, b>> \in fits
        BY <2>2, <2>4, <4>1
      <4> QED
        BY <4>2, <4>3
    <3>3. (\E b \in s - 1..m : R(b)) <=> R(s - 1) \/ (s <= m /\ \E b \in s..m : R(b))
      BY <1>1 DEF m
    <3>4. Matches(pat, seg, p + 1, s) <=> R(s - 1)
      BY <2>3 DEF m
    <3> QED
      BY <1>1, <1>3, <2>4, <3>1, <3>2, <3>3, <3>4 DEF m, n
  <2>5. CASE pat[p] # Star
    <3>1. Matches(pat, seg, p, s) <=> s <= m /\ seg[s] = pat[p] /\ R(s)
      <4>1. s \in s - 1..m <=> s <= m
        BY <1>1, <2>6
      <4>2. \A b \in s - 1..m : <<p, s - 1, b>> \in fits <=> b = s /\ seg[b] = pat[p]
        BY <2>5, <2>8
      <4> QED
        BY <2>7, <4>1, <4>2
    <3>2. s <= m => (Matches(pat, seg, p + 1, s + 1) <=> R(s))
      BY <1>1, <2>3 DEF m
    <3> QED
      BY <1>1, <1>3, <2>5, <3>1, <3>2 DEF m, n
  <2> QED
    BY <2>4, <2>5
<1> QED
  BY <1>1, <1>2, <1>3

\* The step at a place.
LEMMA CharStepAt ==
  ASSUME NEW pat, NEW seg, NEW match, NEW p \in 1..Len(pat) + 1, NEW s \in 1..Len(seg) + 1
  PROVE  CharStep(pat, seg, match)[<<p, s>>] =
           (\/ p > Len(pat) /\ s > Len(seg)
            \/ /\ p <= Len(pat) /\ pat[p] = Star
               /\ match[<<p + 1, s>>] \/ (s <= Len(seg) /\ match[<<p, s + 1>>])
            \/ /\ p <= Len(pat) /\ pat[p] # Star
               /\ s <= Len(seg) /\ pat[p] = seg[s] /\ match[<<p + 1, s + 1>>])
BY DEF CharStep

\* A recursive function on a grid whose step looks only at later places is
\* determined by its step.
LEMMA SegmentStep ==
  ASSUME NEW C, NEW pat \in Seq(C), NEW seg \in Seq(C), NEW match, match = CharStep(pat, seg, match)
  PROVE  \A p \in 1..Len(pat) + 1, s \in 1..Len(seg) + 1 :
           match[<<p, s>>] <=> Matches(pat, seg, p, s)
<1> DEFINE n == Len(pat) + 1
           m == Len(seg) + 1
           wrong == {at \in (1..n) \X (1..m) : ~(match[at] <=> Matches(pat, seg, at[1], at[2]))}
<1>1. n \in Nat /\ m \in Nat
  OBVIOUS
<1>2. SUFFICES ASSUME wrong # {} PROVE FALSE
  OBVIOUS
<1>3. PICK x \in wrong : \A y \in wrong : y[1] + y[2] <= x[1] + x[2]
  <2>1. wrong \subseteq (1..n) \X (1..m)
    OBVIOUS
  <2> HIDE DEF wrong, n, m
  <2> QED
    BY <1>1, <1>2, <2>1, LastOfGrid
<1>4. PICK p \in 1..n, s \in 1..m : x = <<p, s>>
  OBVIOUS
<1>5. \A q \in 1..n, r \in 1..m : q + r > p + s => (match[<<q, r>>] <=> Matches(pat, seg, q, r))
  <2> SUFFICES ASSUME NEW q \in 1..n, NEW r \in 1..m, q + r > p + s, <<q, r>> \in wrong
               PROVE  FALSE
    OBVIOUS
  <2>1. <<q, r>>[1] + <<q, r>>[2] <= x[1] + x[2]
    BY <1>3
  <2> QED
    BY <1>4, <2>1
<1>6. match[<<p, s>>] <=>
        \/ p > Len(pat) /\ s > Len(seg)
        \/ /\ p <= Len(pat) /\ pat[p] = Star
           /\ match[<<p + 1, s>>] \/ (s <= Len(seg) /\ match[<<p, s + 1>>])
        \/ /\ p <= Len(pat) /\ pat[p] # Star
           /\ s <= Len(seg) /\ pat[p] = seg[s] /\ match[<<p + 1, s + 1>>]
  <2>1. match[<<p, s>>] = CharStep(pat, seg, match)[<<p, s>>]
    OBVIOUS
  <2> QED
    BY <2>1, CharStepAt
<1>7. match[<<p, s>>] <=> Matches(pat, seg, p, s)
  BY <1>1, <1>5, <1>6, CharRest, SMTT(30)
<1> QED
  BY <1>4, <1>7

\* There is such a function, and so CHOOSE finds one.
LEMMA SegmentMatcher ==
  ASSUME NEW C, NEW pat \in Seq(C), NEW seg \in Seq(C)
  PROVE  \E match : match = CharStep(pat, seg, match)
<1> DEFINE grid == (1..Len(pat) + 1) \X (1..Len(seg) + 1)
           match == [at \in grid |-> Matches(pat, seg, at[1], at[2])]
<1>1. match = [at \in grid |-> match[at]] /\ CharStep(pat, seg, match) = [at \in grid |-> CharStep(pat, seg, match)[at]]
  BY DEF CharStep
<1>2. ASSUME NEW p \in 1..Len(pat) + 1, NEW s \in 1..Len(seg) + 1
      PROVE  match[<<p, s>>] = CharStep(pat, seg, match)[<<p, s>>]
  <2>1. \A q \in 1..Len(pat) + 1, r \in 1..Len(seg) + 1 : match[<<q, r>>] = Matches(pat, seg, q, r)
    OBVIOUS
  <2>2. Len(pat) \in Nat /\ Len(seg) \in Nat
    OBVIOUS
  <2> HIDE DEF match
  <2>3. p <= Len(pat) => match[<<p + 1, s>>] = Matches(pat, seg, p + 1, s)
    BY <2>1, <2>2
  <2>4. s <= Len(seg) => match[<<p, s + 1>>] = Matches(pat, seg, p, s + 1)
    BY <2>1, <2>2
  <2>5. p <= Len(pat) /\ s <= Len(seg) => match[<<p + 1, s + 1>>] = Matches(pat, seg, p + 1, s + 1)
    BY <2>1, <2>2
  <2>6. Matches(pat, seg, p, s) = TRUE <=> Matches(pat, seg, p, s)
    BY DEF Matches, Rest
  <2>7. match[<<p, s>>] <=> CharStep(pat, seg, match)[<<p, s>>]
    <3>1. match[<<p, s>>] <=>
            \/ p > Len(pat) /\ s > Len(seg)
            \/ /\ p <= Len(pat) /\ pat[p] = Star
               /\ Matches(pat, seg, p + 1, s) \/ (s <= Len(seg) /\ Matches(pat, seg, p, s + 1))
            \/ /\ p <= Len(pat) /\ pat[p] # Star
               /\ s <= Len(seg) /\ pat[p] = seg[s] /\ Matches(pat, seg, p + 1, s + 1)
      <4>1. match[<<p, s>>] = Matches(pat, seg, p, s)
        BY <2>1
      <4> HIDE DEF Matches
      <4> QED
        BY <4>1, CharRest, Zenon
    <3>2. CharStep(pat, seg, match)[<<p, s>>] <=>
            \/ p > Len(pat) /\ s > Len(seg)
            \/ /\ p <= Len(pat) /\ pat[p] = Star
               /\ match[<<p + 1, s>>] \/ (s <= Len(seg) /\ match[<<p, s + 1>>])
            \/ /\ p <= Len(pat) /\ pat[p] # Star
               /\ s <= Len(seg) /\ pat[p] = seg[s] /\ match[<<p + 1, s + 1>>]
      BY CharStepAt
    <3> QED
      BY <2>3, <2>4, <2>5, <3>1, <3>2
  <2>8. match[<<p, s>>] \in BOOLEAN /\ CharStep(pat, seg, match)[<<p, s>>] \in BOOLEAN
    BY <2>1, CharStepAt DEF Matches, Rest
  <2> QED
    BY <2>7, <2>8
<1>3. \A at \in grid : match[at] = CharStep(pat, seg, match)[at]
  <2> SUFFICES ASSUME NEW at \in grid PROVE match[at] = CharStep(pat, seg, match)[at]
    OBVIOUS
  <2>1. PICK p \in 1..Len(pat) + 1, s \in 1..Len(seg) + 1 : at = <<p, s>>
    OBVIOUS
  <2> HIDE DEF match
  <2> QED
    BY <1>2, <2>1
<1> HIDE DEF match, grid
<1> QED
  BY <1>1, <1>3

(* glob_segment_match (lease.rs) accepts a segment exactly when the         *)
(* characters of the pattern, "*" for any run of them, cut it into pieces:  *)
(* its backtracking overlooks no cut, whatever the lengths.                 *)
THEOREM SegmentMatchMeans ==
  ASSUME NEW C, NEW pat \in Seq(C), NEW seg \in Seq(C)
  PROVE  GlobSegmentMatch(pat, seg) <=> SegmentCovered(pat, seg)
<1> DEFINE match == CHOOSE m : m = CharStep(pat, seg, m)
<1>1. GlobSegmentMatch(pat, seg) = match[<<1, 1>>]
  BY DEF GlobSegmentMatch, CharStep
<1>2. match = CharStep(pat, seg, match)
  BY SegmentMatcher
<1> HIDE DEF match
<1>3. match[<<1, 1>>] <=> Matches(pat, seg, 1, 1)
  <2>1. 1 \in 1..Len(pat) + 1 /\ 1 \in 1..Len(seg) + 1
    OBVIOUS
  <2> QED
    BY <1>2, <2>1, SegmentStep
<1>4. SegmentCovered(pat, seg) <=> Matches(pat, seg, 1, 1)
  <2>1. Len(pat) \in Nat /\ Len(seg) \in Nat
    OBVIOUS
  <2> QED
    BY <2>1, CoversIsRest DEF SegmentCovered, Matches
<1> QED
  BY <1>1, <1>3, <1>4

Leads(pattern, path, p, s) ==
  Rest(Len(pattern), Len(path), PathPieces(pattern, path), p - 1, s - 1)

\* One step of glob_match_segments.
PathStep(pattern, path, match) ==
  [at \in (1..Len(pattern) + 1) \X (1..Len(path) + 1) |->
        LET p == at[1]
            s == at[2]
        IN \/ p > Len(pattern) /\ s > Len(path)
           \/ /\ p <= Len(pattern) /\ pattern[p] = Globstar
              /\ \E k \in s..Len(path) + 1 : match[<<p + 1, k>>]
           \/ /\ p <= Len(pattern) /\ pattern[p] # Globstar
              /\ s <= Len(path) /\ GlobSegmentMatch(pattern[p], path[s])
              /\ match[<<p + 1, s + 1>>]]

\* The step at a place.
LEMMA PathStepAt ==
  ASSUME NEW pattern, NEW path, NEW match,
         NEW p \in 1..Len(pattern) + 1, NEW s \in 1..Len(path) + 1
  PROVE  PathStep(pattern, path, match)[<<p, s>>] =
           (\/ p > Len(pattern) /\ s > Len(path)
            \/ /\ p <= Len(pattern) /\ pattern[p] = Globstar
               /\ \E k \in s..Len(path) + 1 : match[<<p + 1, k>>]
            \/ /\ p <= Len(pattern) /\ pattern[p] # Globstar
               /\ s <= Len(path) /\ GlobSegmentMatch(pattern[p], path[s])
               /\ match[<<p + 1, s + 1>>])
BY DEF PathStep

\* Where the rest of a path matches the rest of a pattern.
LEMMA PathRest ==
  ASSUME NEW C, NEW pattern \in Seq(Seq(C)), NEW path \in Seq(Seq(C)),
         NEW p \in 1..Len(pattern) + 1, NEW s \in 1..Len(path) + 1
  PROVE  Leads(pattern, path, p, s) <=>
           \/ p > Len(pattern) /\ s > Len(path)
           \/ /\ p <= Len(pattern) /\ pattern[p] = Globstar
              /\ \E k \in s..Len(path) + 1 : Leads(pattern, path, p + 1, k)
           \/ /\ p <= Len(pattern) /\ pattern[p] # Globstar
              /\ s <= Len(path) /\ GlobSegmentMatch(pattern[p], path[s])
              /\ Leads(pattern, path, p + 1, s + 1)
<1> DEFINE n == Len(pattern)
           m == Len(path)
           fits == PathPieces(pattern, path)
<1>1. n \in Nat /\ m \in Nat
  OBVIOUS
<1>2. CASE p = n + 1
  <2>1. Rest(n, m, fits, n, s - 1) <=> s - 1 = m
    <3>1. s - 1 \in 0..m
      BY <1>1
    <3> HIDE DEF n, m, fits
    <3> QED
      BY <1>1, <3>1, RestEnd
  <2> QED
    BY <1>1, <1>2, <2>1 DEF Leads
<1>3. CASE p <= n
  <2> DEFINE R(a) == Rest(n, m, fits, p, a)
  <2>0. p \in 1..n /\ p - 1 \in 0..n /\ p - 1 < n /\ (p - 1) + 1 = p /\ (p + 1) - 1 = p
    BY <1>1, <1>3
  <2>1. s - 1 \in 0..m /\ s \in 1..m + 1
    BY <1>1
  <2>2. Leads(pattern, path, p, s) <=> \E b \in s - 1..m : <<p, s - 1, b>> \in fits /\ R(b)
    <3>1. Rest(n, m, fits, p - 1, s - 1)
            <=> \E b \in s - 1..m : <<(p - 1) + 1, s - 1, b>> \in fits /\ Rest(n, m, fits, (p - 1) + 1, b)
      BY <1>1, <2>0, <2>1, RestStep
    <3> QED
      BY <2>0, <3>1 DEF Leads
  <2>3. \A b \in s - 1..m :
          <<p, s - 1, b>> \in fits
            <=> pattern[p] = Globstar \/ (b = s /\ SegmentCovered(pattern[p], path[b]))
    <3> SUFFICES ASSUME NEW b \in s - 1..m
                 PROVE  <<p, s - 1, b>> \in fits
                          <=> pattern[p] = Globstar \/ (b = s /\ SegmentCovered(pattern[p], path[b]))
      OBVIOUS
    <3>1. b \in 0..m /\ (s - 1) + 1 = s
      BY <2>1
    <3> QED
      BY <2>0, <2>1, <3>1 DEF PathPieces, Pieces
  <2>4. \A k \in 1..m + 1 : Leads(pattern, path, p + 1, k) <=> R(k - 1)
    BY <2>0 DEF Leads
  <2>5. s <= m => (GlobSegmentMatch(pattern[p], path[s]) <=> SegmentCovered(pattern[p], path[s]))
    <3>1. s <= m => pattern[p] \in Seq(C) /\ path[s] \in Seq(C)
      BY <1>1, <2>0, <2>1
    <3> QED
      BY <3>1, SegmentMatchMeans
  <2> HIDE DEF R, fits
  <2>6. CASE pattern[p] = Globstar
    <3>1. (\E k \in s..m + 1 : R(k - 1)) <=> \E b \in s - 1..m : R(b)
      <4>1. ASSUME NEW b \in s - 1..m, R(b) PROVE \E k \in s..m + 1 : R(k - 1)
        <5>1. b + 1 \in s..m + 1 /\ (b + 1) - 1 = b
          BY <1>1, <2>1
        <5> QED
          BY <4>1, <5>1
      <4>2. ASSUME NEW k \in s..m + 1, R(k - 1) PROVE \E b \in s - 1..m : R(b)
        <5>1. k - 1 \in s - 1..m
          BY <1>1, <2>1
        <5> QED
          BY <4>2, <5>1
      <4> QED
        BY <4>1, <4>2
    <3>2. \A k \in s..m + 1 : k \in 1..m + 1
      BY <1>1, <2>1
    <3>3. Leads(pattern, path, p, s) <=> \E k \in s..m + 1 : Leads(pattern, path, p + 1, k)
      BY <2>2, <2>3, <2>4, <2>6, <3>1, <3>2
    <3> QED
      BY <1>1, <1>3, <2>6, <3>3
  <2>7. CASE pattern[p] # Globstar
    <3>1. s \in s - 1..m <=> s <= m
      BY <1>1, <2>1
    <3>2. \A b \in s - 1..m :
            <<p, s - 1, b>> \in fits <=> b = s /\ SegmentCovered(pattern[p], path[b])
      BY <2>3, <2>7
    <3>3. Leads(pattern, path, p, s) <=> s <= m /\ SegmentCovered(pattern[p], path[s]) /\ R(s)
      BY <2>2, <3>1, <3>2
    <3>4. s <= m => (Leads(pattern, path, p + 1, s + 1) <=> R(s))
      BY <1>1, <2>1, <2>4
    <3> QED
      BY <1>1, <1>3, <2>5, <2>7, <3>3, <3>4
  <2> QED
    BY <2>6, <2>7
<1> QED
  BY <1>1, <1>2, <1>3

\* Such a function says where the pattern leads.
LEMMA PathMatch ==
  ASSUME NEW C, NEW pattern \in Seq(Seq(C)), NEW path \in Seq(Seq(C)),
         NEW match, match = PathStep(pattern, path, match)
  PROVE  \A p \in 1..Len(pattern) + 1, s \in 1..Len(path) + 1 :
           match[<<p, s>>] <=> Leads(pattern, path, p, s)
<1> DEFINE n == Len(pattern) + 1
           m == Len(path) + 1
           wrong == {at \in (1..n) \X (1..m) : ~(match[at] <=> Leads(pattern, path, at[1], at[2]))}
<1>1. n \in Nat /\ m \in Nat
  <2>1. Len(pattern) \in Nat /\ Len(path) \in Nat
    BY Lengths, Zenon
  <2> QED
    BY <2>1
<1>2. SUFFICES ASSUME wrong # {} PROVE FALSE
  <2>1. ASSUME wrong = {}, NEW p \in 1..n, NEW s \in 1..m
        PROVE  match[<<p, s>>] <=> Leads(pattern, path, p, s)
    <3>1. <<p, s>> \in (1..n) \X (1..m) /\ <<p, s>>[1] = p /\ <<p, s>>[2] = s
      BY Zenon
    <3> QED
      BY <2>1, <3>1, Zenon
  <2> QED
    BY <2>1, Zenon
<1>3. PICK x \in wrong : \A y \in wrong : y[1] + y[2] <= x[1] + x[2]
  <2>1. wrong \subseteq (1..n) \X (1..m)
    OBVIOUS
  <2> HIDE DEF wrong, n, m
  <2> QED
    BY <1>1, <1>2, <2>1, LastOfGrid
<1>4. PICK p \in 1..n, s \in 1..m : x = <<p, s>>
  <2>1. x \in (1..n) \X (1..m)
    BY <1>3
  <2> HIDE DEF wrong, n, m
  <2> QED
    BY <2>1
<1>5. \A q \in 1..n, r \in 1..m : q + r > p + s => (match[<<q, r>>] <=> Leads(pattern, path, q, r))
  <2> SUFFICES ASSUME NEW q \in 1..n, NEW r \in 1..m, q + r > p + s, <<q, r>> \in wrong
               PROVE  FALSE
    OBVIOUS
  <2>1. <<q, r>>[1] + <<q, r>>[2] <= x[1] + x[2]
    BY <1>3
  <2> QED
    BY <1>4, <2>1
<1>6. match[<<p, s>>] <=>
        \/ p > Len(pattern) /\ s > Len(path)
        \/ /\ p <= Len(pattern) /\ pattern[p] = Globstar
           /\ \E k \in s..Len(path) + 1 : match[<<p + 1, k>>]
        \/ /\ p <= Len(pattern) /\ pattern[p] # Globstar
           /\ s <= Len(path) /\ GlobSegmentMatch(pattern[p], path[s])
           /\ match[<<p + 1, s + 1>>]
  <2>1. match[<<p, s>>] = PathStep(pattern, path, match)[<<p, s>>]
    OBVIOUS
  <2> QED
    BY <2>1, PathStepAt
<1>7. p < n => \A k \in s..m : match[<<p + 1, k>>] <=> Leads(pattern, path, p + 1, k)
  <2> SUFFICES ASSUME p < n, NEW k \in s..m
               PROVE match[<<p + 1, k>>] <=> Leads(pattern, path, p + 1, k)
    OBVIOUS
  <2>1. p + 1 \in 1..n /\ k \in 1..m /\ (p + 1) + k > p + s
    BY <1>1
  <2> QED
    BY <1>5, <2>1
<1>8. p < n /\ s < m => (match[<<p + 1, s + 1>>] <=> Leads(pattern, path, p + 1, s + 1))
  <2> SUFFICES ASSUME p < n, s < m
               PROVE match[<<p + 1, s + 1>>] <=> Leads(pattern, path, p + 1, s + 1)
    OBVIOUS
  <2>1. p + 1 \in 1..n /\ s + 1 \in 1..m /\ (p + 1) + (s + 1) > p + s
    <3> HIDE DEF n, m
    <3> QED
      BY <1>1
  <2> QED
    BY <1>5, <2>1
<1>9. match[<<p, s>>] <=> Leads(pattern, path, p, s)
  <2>1. (p <= Len(pattern) <=> p < n) /\ (s <= Len(path) <=> s < m)
    <3>1. Len(pattern) \in Nat /\ Len(path) \in Nat
      BY Lengths, Zenon
    <3> QED
      BY <3>1
  <2>2. Leads(pattern, path, p, s) <=>
          \/ p > Len(pattern) /\ s > Len(path)
          \/ /\ p <= Len(pattern) /\ pattern[p] = Globstar
             /\ \E k \in s..Len(path) + 1 : Leads(pattern, path, p + 1, k)
          \/ /\ p <= Len(pattern) /\ pattern[p] # Globstar
             /\ s <= Len(path) /\ GlobSegmentMatch(pattern[p], path[s])
             /\ Leads(pattern, path, p + 1, s + 1)
    BY PathRest
  <2> QED
    BY <1>6, <1>7, <1>8, <2>1, <2>2
<1> QED
  BY <1>4, <1>9

\* There is one.
LEMMA PathMatcher ==
  ASSUME NEW C, NEW pattern \in Seq(Seq(C)), NEW path \in Seq(Seq(C))
  PROVE  \E match : match = PathStep(pattern, path, match)
<1> DEFINE n == Len(pattern)
           m == Len(path)
           grid == (1..n + 1) \X (1..m + 1)
           match == [at \in grid |-> Leads(pattern, path, at[1], at[2])]
           step == PathStep(pattern, path, match)
<1>1. match = [at \in grid |-> match[at]] /\ step = [at \in grid |-> step[at]]
  BY DEF PathStep
<1>2. n \in Nat /\ m \in Nat
  OBVIOUS
<1>3. \A q \in 1..n + 1, r \in 1..m + 1 : match[<<q, r>>] = Leads(pattern, path, q, r)
  OBVIOUS
<1> HIDE DEF match
<1>4. ASSUME NEW at \in grid PROVE match[at] = step[at]
  <2>1. PICK p \in 1..n + 1, s \in 1..m + 1 : at = <<p, s>>
    OBVIOUS
  <2>2. match[<<p, s>>] <=>
          \/ p > n /\ s > m
          \/ /\ p <= n /\ pattern[p] = Globstar
             /\ \E k \in s..m + 1 : Leads(pattern, path, p + 1, k)
          \/ /\ p <= n /\ pattern[p] # Globstar
             /\ s <= m /\ GlobSegmentMatch(pattern[p], path[s])
             /\ Leads(pattern, path, p + 1, s + 1)
    BY <1>3, PathRest, SMTT(30)
  <2>3. step[<<p, s>>] <=>
          \/ p > n /\ s > m
          \/ /\ p <= n /\ pattern[p] = Globstar
             /\ \E k \in s..m + 1 : match[<<p + 1, k>>]
          \/ /\ p <= n /\ pattern[p] # Globstar
             /\ s <= m /\ GlobSegmentMatch(pattern[p], path[s])
             /\ match[<<p + 1, s + 1>>]
    BY PathStepAt
  <2>4. p <= n => \A k \in s..m + 1 : match[<<p + 1, k>>] = Leads(pattern, path, p + 1, k)
    <3>1. p <= n => p + 1 \in 1..n + 1 /\ \A k \in s..m + 1 : k \in 1..m + 1
      BY <1>2
    <3> HIDE DEF n, m
    <3> QED
      BY <1>3, <3>1
  <2>5. p <= n /\ s <= m => match[<<p + 1, s + 1>>] = Leads(pattern, path, p + 1, s + 1)
    <3>1. p <= n /\ s <= m => p + 1 \in 1..n + 1 /\ s + 1 \in 1..m + 1
      BY <1>2
    <3> HIDE DEF n, m
    <3> QED
      BY <1>3, <3>1
  <2>6. match[<<p, s>>] <=> step[<<p, s>>]
    BY <2>2, <2>3, <2>4, <2>5
  <2>7. match[<<p, s>>] \in BOOLEAN /\ step[<<p, s>>] \in BOOLEAN
    <3>1. match[<<p, s>>] \in BOOLEAN
      BY <1>3 DEF Leads, Rest
    <3>2. step[<<p, s>>] \in BOOLEAN
      BY PathStepAt, ZenonT(30)
    <3> QED
      BY <3>1, <3>2
  <2> QED
    BY <2>1, <2>6, <2>7
<1> HIDE DEF step, grid
<1>5. match = step
  BY <1>1, <1>4
<1> QED
  BY <1>5 DEF step

(* glob_match (lease.rs) accepts a path exactly when the segments of the    *)
(* pattern, "**" for any number of them, cut it into pieces.                *)
THEOREM PathMatchMeans ==
  ASSUME NEW C, NEW pattern \in Seq(Seq(C)), NEW path \in Seq(Seq(C))
  PROVE  GlobMatch(pattern, path) <=> PathCovered(pattern, path)
<1> DEFINE match == CHOOSE m : m = PathStep(pattern, path, m)
<1>1. GlobMatch(pattern, path) = match[<<1, 1>>]
  BY DEF GlobMatch, PathStep
<1>2. match = PathStep(pattern, path, match)
  BY PathMatcher
<1> HIDE DEF match
<1>3. match[<<1, 1>>] <=> Leads(pattern, path, 1, 1)
  <2>1. 1 \in 1..Len(pattern) + 1 /\ 1 \in 1..Len(path) + 1
    OBVIOUS
  <2> QED
    BY <1>2, <2>1, PathMatch
<1>4. PathCovered(pattern, path) <=> Leads(pattern, path, 1, 1)
  <2>1. Len(pattern) \in Nat /\ Len(path) \in Nat
    OBVIOUS
  <2> QED
    BY <2>1, CoversIsRest DEF PathCovered, Leads
<1> QED
  BY <1>1, <1>3, <1>4

\* "**" alone covers every path.
LEMMA GlobstarCovers ==
  ASSUME NEW path \in Seq(Seq(Chars))
  PROVE  PathCovered(<<Globstar>>, path)
<1> DEFINE m == Len(path)
           cut == [i \in 0..1 |-> IF i = 0 THEN 0 ELSE m]
<1>1. m \in Nat /\ Len(<<Globstar>>) = 1 /\ <<Globstar>>[1] = Globstar
  OBVIOUS
<1>2. cut \in [0..1 -> 0..m] /\ cut[0] = 0 /\ cut[1] = m
  BY <1>1
<1>3. <<1, 0, m>> \in PathPieces(<<Globstar>>, path)
  BY <1>1 DEF PathPieces, Pieces
<1>4. \A i \in 1..1 : i = 1 /\ i - 1 = 0
  OBVIOUS
<1> HIDE DEF cut
<1>5. \A i \in 1..1 : cut[i - 1] <= cut[i] /\ <<i, cut[i - 1], cut[i]>> \in PathPieces(<<Globstar>>, path)
  <2> SUFFICES cut[0] <= cut[1] /\ <<1, cut[0], cut[1]>> \in PathPieces(<<Globstar>>, path)
    BY <1>4
  <2> QED
    BY <1>1, <1>2, <1>3
<1>6. Covers(1, m, PathPieces(<<Globstar>>, path))
  BY <1>2, <1>5 DEF Covers
<1> QED
  BY <1>1, <1>6 DEF PathCovered

(* A path is in a lease when an allowed pattern covers it and no forbidden  *)
(* one does (matches_path of lease.rs), for every pattern and path.         *)
THEOREM GlobsMatch == GlobsMean
<1> SUFFICES ASSUME NEW pattern \in Patterns, NEW path \in Paths
             PROVE  LET covered == PathCovered(pattern, path)
                        anywhere == {<<Globstar>>}
                    IN /\ GlobMatch(pattern, path) <=> covered
                       /\ MatchesPath([allowed |-> {pattern}, forbidden |-> {}], path)
                            <=> path # EmptyPath /\ covered
                       /\ MatchesPath([allowed |-> anywhere, forbidden |-> {pattern}], path)
                            <=> path # EmptyPath /\ ~covered
  BY DEF GlobsMean
<1>1. pattern \in Seq(Seq(Chars)) /\ path \in Seq(Seq(Chars))
  BY RulesAssumption, Zenon
<1>2. GlobMatch(pattern, path) <=> PathCovered(pattern, path)
  BY <1>1, PathMatchMeans, Zenon
<1>3. GlobMatch(<<Globstar>>, path)
  <2>1. <<Globstar>> \in Seq(Seq(Chars))
    <3>1. Globstar \in Seq(Chars)
      <4>1. Star \in Chars
        BY RulesAssumption DEF Star
      <4> QED
        BY <4>1 DEF Globstar
    <3> QED
      BY <3>1
  <2> QED
    BY <1>1, <2>1, PathMatchMeans, GlobstarCovers, Zenon
<1>4. MatchesPath([allowed |-> {pattern}, forbidden |-> {}], path)
        <=> path # EmptyPath /\ GlobMatch(pattern, path)
  BY DEF MatchesPath
<1>5. MatchesPath([allowed |-> {<<Globstar>>}, forbidden |-> {pattern}], path)
        <=> path # EmptyPath /\ ~GlobMatch(pattern, path)
  BY <1>3 DEF MatchesPath
<1> QED
  BY <1>2, <1>4, <1>5, Zenon

-----------------------------------------------------------------------------
(* emit, get and check.                                                    *)

\* validate_task_id accepts what its doc says a task id is.
LEMMA TaskIdMeans ==
  ASSUME NEW id \in Seq(Chars)
  PROVE  ValidTaskId(id) <=>
           \E n \in 1..MaxId, c \in FirstChars : \E rest \in [1..n - 1 -> NextChars] : id = <<c>> \o rest
<1>0. MaxId \in Nat
  BY FileAssumption
<1>1. ASSUME ValidTaskId(id)
      PROVE  \E n \in 1..MaxId, c \in FirstChars : \E rest \in [1..n - 1 -> NextChars] : id = <<c>> \o rest
  <2> DEFINE n == Len(id)
             rest == [i \in 1..n - 1 |-> id[i + 1]]
  <2>0. id # <<>> /\ n <= MaxId /\ id[1] \in FirstChars /\ \A i \in 2..n : id[i] \in NextChars
    BY <1>1 DEF ValidTaskId
  <2>1. n \in 1..MaxId
    BY <1>0, <2>0
  <2>2. rest \in [1..n - 1 -> NextChars]
    BY <2>0, <2>1
  <2>3. rest \in Seq(NextChars) /\ Len(rest) = n - 1
    <3>1. n - 1 \in Nat
      BY <2>1
    <3> HIDE DEF n, rest
    <3> QED
      BY <2>2, <3>1
  <2>4. id = <<id[1]>> \o rest
    <3>1. <<id[1]>> \in Seq(FirstChars) /\ Len(<<id[1]>>) = 1
      BY <2>0
    <3>2. Len(<<id[1]>> \o rest) = n /\ \A i \in 1..n : (<<id[1]>> \o rest)[i] = id[i]
      BY <2>1, <2>3, <3>1
    <3>3. <<id[1]>> \o rest \in Seq(FirstChars \cup NextChars)
      BY <2>3, <3>1
    <3>4. PICK x : x = <<id[1]>> \o rest
      OBVIOUS
    <3>5. x \in Seq(FirstChars \cup NextChars) /\ Len(x) = Len(id) /\ \A i \in 1..Len(id) : x[i] = id[i]
      BY <3>2, <3>3, <3>4, Zenon
    <3>6. x = id
      <4> HIDE DEF n, rest
      <4> QED
        BY <3>5, SameSequence
    <3> QED
      BY <3>4, <3>6, Zenon
  <2> HIDE DEF n, rest
  <2> QED
    BY <2>0, <2>1, <2>2, <2>4
<1>2. ASSUME NEW n \in 1..MaxId, NEW c \in FirstChars, NEW rest \in [1..n - 1 -> NextChars], id = <<c>> \o rest
      PROVE  ValidTaskId(id)
  <2>1. rest \in Seq(NextChars) /\ Len(rest) = n - 1
    OBVIOUS
  <2>2. Len(id) = n /\ id[1] = c
    BY <1>2, <2>1
  <2>3. \A i \in 2..n : id[i] = rest[i - 1]
    BY <1>2, <2>1
  <2> QED
    BY <1>0, <2>1, <2>2, <2>3 DEF ValidTaskId
<1> QED
  BY <1>1, <1>2

\* Whatever numbers a timestamp has, it has a day number.
LEMMA DayNumbersAreInt ==
  ASSUME NEW year \in Int, NEW month \in Int, NEW day \in Int
  PROVE  DaysFromCivil(year, month, day) \in Int
<1>1. PICK y \in Int : y = IF month <= 2 THEN year - 1 ELSE year
  BY SMT
<1>2. PICK era \in Int : era = y \div 400
  BY SMT
<1>3. EraDays(y - era * 400) \in Int
  BY SMT DEF EraDays
<1>4. DayOfYear(month, day) \in Int
  BY SMT DEF DayOfYear, MarchMonth
<1> QED
  BY <1>1, <1>2, <1>3, <1>4, SMT DEF DaysFromCivil

\* A timestamp is not read when it is off the calendar or the clock.
LEMMA BadTimesAre ==
  ASSUME NEW args \in EmitRequests
  PROVE  args.expires \in BadTimes <=> args.expires # NoTime /\ RfcToUnix(args.expires) = NoTime
<1>1. CASE args.expires = NoTime
  BY <1>1, FileAssumption
<1>2. CASE args.expires # NoTime
  <2>1. PICK t \in Timestamps : t = args.expires
    BY <1>2, FileAssumption
  <2>2. t \in BadTimes <=>
          ~ (/\ t.month \in 1..12 /\ t.day \in 1..DaysInMonth(t.year, t.month)
             /\ t.hour <= 23 /\ t.minute <= 59 /\ t.second <= 59)
    <3>1. t.hour \in Nat /\ t.minute \in Nat /\ t.second \in Nat
      BY DEF Timestamps
    <3>2. (t.hour > 23 <=> ~(t.hour <= 23)) /\ (t.minute > 59 <=> ~(t.minute <= 59))
          /\ (t.second > 59 <=> ~(t.second <= 59))
      BY <3>1, SMT
    <3> QED
      BY <1>2, <2>1, <3>2, FileAssumption
  <2>3. ASSUME t.month \in 1..12, t.day \in 1..DaysInMonth(t.year, t.month)
        PROVE  Moment(DaysFromCivil(t.year, t.month, t.day),
                      t.hour * 3600 + t.minute * 60 + t.second
                        - t.sign * (t.offHour * 3600 + t.offMinute * 60)) \in Int \X Int
    <3>1. PICK days \in Int : days = DaysFromCivil(t.year, t.month, t.day)
      <4>1. t.year \in Int /\ t.month \in Int /\ t.day \in Int
        BY SMT DEF Timestamps
      <4> QED
        BY <4>1, DayNumbersAreInt
    <3>2. PICK secs \in Int : secs = t.hour * 3600 + t.minute * 60 + t.second
                        - t.sign * (t.offHour * 3600 + t.offMinute * 60)
      <4>1. /\ t.hour \in Int /\ t.minute \in Int /\ t.second \in Int
            /\ t.sign \in Int /\ t.offHour \in Int /\ t.offMinute \in Int
        BY SMT DEF Timestamps
      <4> QED
        BY <4>1, SMT
    <3>3. Moment(days, secs) \in Int \X Int
      BY SMT DEF Moment, ADay
    <3> QED
      BY <3>1, <3>2, <3>3, SMT
  <2> QED
    BY <1>2, <2>1, <2>2, <2>3, RulesAssumption, SMT DEF RfcToUnix
<1> QED
  BY <1>1, <1>2

\* The strings of an array are what is given.
LEMMA GivenIsRead ==
  ASSUME NEW arg
  PROVE  Strings(arg) = Given(arg)
BY DEF Strings, Given

\* A refusal is an error.
LEMMA RefusalsAreErrors ==
  ASSUME NEW kind PROVE IsError(Refuse(kind))
BY SMT DEF Refuse, IsError

\* What emit refuses.
LEMMA EmitRefuses ==
  ASSUME NEW args \in EmitRequests, NEW days \in Int, NEW secs \in Int, 0 <= secs, secs < ADay
  PROVE  IsError(LeaseEmit(args, <<days, secs>>)) <=> ~Proper(args)
<1>1. ValidTaskId(args.task) <=>
        \E n \in 1..MaxId, c \in FirstChars :
          \E rest \in [1..n - 1 -> NextChars] : args.task = <<c>> \o rest
  <2>1. args.task \in Seq(Chars) /\ MaxId \in Nat
    BY FileAssumption
  <2> QED
    BY <2>1, TaskIdMeans
<1>2. args.expires \in BadTimes <=> args.expires # NoTime /\ RfcToUnix(args.expires) = NoTime
  BY BadTimesAre
<1>3. PICK now : now = <<days, secs>>
  OBVIOUS
<1>4. RfcToUnix(UnixToRfc(now)) # NoTime
  <2>1. RfcToUnix(UnixToRfc(now)) = <<days, secs>>
    BY <1>3, WrittenIsRead
  <2>2. <<days, secs>> \in Int \X Int
    OBVIOUS
  <2> QED
    BY <2>1, <2>2, RulesAssumption
<1>5. PICK made : made =
        [schema |-> SchemaVersion, task |-> args.task, worker |-> args.worker,
         branch |-> args.branch, allowed |-> Strings(args.allowed),
         forbidden |-> Strings(args.forbidden), created |-> UnixToRfc(now),
         expires |-> args.expires]
  OBVIOUS
<1>6. /\ made.schema = SchemaVersion /\ made.task = args.task
      /\ made.created = UnixToRfc(now) /\ made.expires = args.expires /\ ~IsError(made)
  BY <1>5, SMT DEF IsError
<1>7. Complaint(made) = NoComplaint <=> ValidTaskId(args.task) /\ args.expires \notin BadTimes
  BY <1>2, <1>4, <1>6, FileAssumption DEF Complaint
<1>8. IsError(Validated(made)) <=> Complaint(made) # NoComplaint
  BY <1>6, RefusalsAreErrors DEF Validated
<1>9. args.task = <<>> => ~ValidTaskId(args.task)
  BY DEF ValidTaskId
<1>10. LeaseEmit(args, now) =
         IF args.worker \notin Workers THEN Refuse("invalid_worker")
         ELSE IF args.task = <<>> \/ args.branch = NoBranch THEN Refuse("missing_field")
         ELSE Validated(made)
  BY <1>5 DEF LeaseEmit, IntoLease
<1>11. Proper(args) <=> /\ args.worker \in Workers /\ args.branch # NoBranch
                       /\ args.expires \notin BadTimes /\ ValidTaskId(args.task)
  BY <1>1 DEF Proper
<1>12. CASE args.worker \notin Workers
  BY <1>3, <1>10, <1>11, <1>12, RefusalsAreErrors
<1>13. CASE args.worker \in Workers /\ (args.task = <<>> \/ args.branch = NoBranch)
  BY <1>3, <1>9, <1>10, <1>11, <1>13, RefusalsAreErrors
<1>14. CASE args.worker \in Workers /\ ~(args.task = <<>> \/ args.branch = NoBranch)
  BY <1>3, <1>7, <1>8, <1>10, <1>11, <1>14
<1> QED
  BY <1>12, <1>13, <1>14

(* emit (mcp.rs 516-560, into_lease of lease.rs) refuses exactly what is     *)
(* not proper, and what it writes reads back as written, stamped with the   *)
(* time of the call, on every day and for every request.                    *)
THEOREM EmitWorks == EmitMeans
<1> SUFFICES ASSUME NEW args \in EmitRequests, NEW d \in Dates, NEW secs \in {0, ADay - 1}
             PROVE  LET now == <<DayNumber(d), secs>>
                        file == LeaseEmit(args, now)
                    IN /\ IsError(file) <=> ~Proper(args)
                       /\ ~IsError(file) => LeaseGet(file) = file /\ RfcToUnix(file.created) = now
  BY DEF EmitMeans
<1>1. PICK days \in Int : days = DayNumber(d)
  BY DatesAreDates, DayIsInt, RulesAssumption
<1>2. secs \in Int /\ 0 <= secs /\ secs < ADay
  BY SMT DEF ADay
<1>3. PICK file : file = LeaseEmit(args, <<days, secs>>)
  OBVIOUS
<1>4. IsError(file) <=> ~Proper(args)
  BY <1>2, <1>3, EmitRefuses
<1>5. ~IsError(file) => LeaseGet(file) = file /\ RfcToUnix(file.created) = <<days, secs>>
  BY <1>2, <1>3, EmittedReadsBack
<1> QED
  BY <1>1, <1>3, <1>4, <1>5, Zenon

\* What emit writes.
LEMMA EmittedIs ==
  ASSUME NEW args, NEW now, NEW file, file = LeaseEmit(args, now), ~IsError(file)
  PROVE  /\ DOMAIN file = LeaseFields /\ file.worker \in Workers
         /\ file.allowed = Given(args.allowed) /\ file.forbidden = Given(args.forbidden)
<1>1. PICK made : made =
        [schema |-> SchemaVersion, task |-> args.task, worker |-> args.worker,
         branch |-> args.branch, allowed |-> Strings(args.allowed),
         forbidden |-> Strings(args.forbidden), created |-> UnixToRfc(now),
         expires |-> args.expires]
  OBVIOUS
<1>2. args.worker \in Workers /\ file = made
  BY <1>1, RefusalsAreErrors DEF LeaseEmit, IntoLease, Validated
<1>3. /\ DOMAIN made = LeaseFields /\ made.worker = args.worker
      /\ made.allowed = Strings(args.allowed) /\ made.forbidden = Strings(args.forbidden)
  BY <1>1, SMT DEF LeaseFields
<1> QED
  BY <1>2, <1>3, GivenIsRead

\* A file without a field it must have is not read, nor is one whose worker
\* nobody knows.
LEMMA FieldMissing ==
  ASSUME NEW file, NEW f \in LeaseFields \ {"expires"}, f \notin DOMAIN file
  PROVE  \A path : IsError(LeaseCheck(file, path))
<1>1. ReadLease(file) = Refuse("invalid_json") \/ ReadLease(file) = Refuse("missing_field")
  BY Zenon DEF ReadLease
<1> QED
  BY <1>1, RefusalsAreErrors DEF LeaseCheck

(* check (mcp.rs 562-603) answers of a lease that emit wrote what the        *)
(* request permitted, and errors on a file that lacks a field.              *)
THEOREM CheckWorks == CheckMeans
<1> SUFFICES ASSUME NEW args \in EmitRequests, ~IsError(LeaseEmit(args, <<0, 0>>)), NEW path \in Paths
             PROVE  LET file == LeaseEmit(args, <<0, 0>>)
                        without(f) == [g \in DOMAIN file \ {f} |-> file[g]]
                    IN /\ LeaseCheck(file, path) = [allowed |-> Permits(args, path)]
                       /\ \A f \in LeaseFields \ {"expires"} : IsError(LeaseCheck(without(f), path))
  BY DEF CheckMeans
<1>1. PICK file : file = LeaseEmit(args, <<0, 0>>)
  OBVIOUS
<1>2. ~IsError(file) /\ ReadLease(file) = file
  <2>1. 0 \in Int /\ 0 <= 0 /\ 0 < ADay
    BY SMT DEF ADay
  <2> QED
    BY <1>1, <2>1, EmittedReadsBack DEF LeaseGet
<1>3. file.allowed = Given(args.allowed) /\ file.forbidden = Given(args.forbidden)
  BY <1>1, EmittedIs
<1>4. MatchesPath(file, path) = Permits(args, path)
  <2>1. path \in Seq(Seq(Chars))
    BY RulesAssumption
  <2>2. Given(args.allowed) \subseteq Seq(Seq(Chars)) /\ Given(args.forbidden) \subseteq Seq(Seq(Chars))
    BY FileAssumption DEF Given
  <2>3. \A p \in Given(args.allowed) \cup Given(args.forbidden) :
          GlobMatch(p, path) <=> PathCovered(p, path)
    BY <2>1, <2>2, PathMatchMeans
  <2>4. MatchesPath(file, path) <=> Permits(args, path)
    BY <1>3, <2>3 DEF MatchesPath, Permits
  <2>5. MatchesPath(file, path) \in BOOLEAN /\ Permits(args, path) \in BOOLEAN
    BY DEF MatchesPath, Permits
  <2> QED
    BY <2>4, <2>5
<1>5. LeaseCheck(file, path) = [allowed |-> Permits(args, path)]
  BY <1>2, <1>4 DEF LeaseCheck
<1>6. ASSUME NEW f \in LeaseFields \ {"expires"}
      PROVE  IsError(LeaseCheck([g \in DOMAIN file \ {f} |-> file[g]], path))
  BY FieldMissing
<1> QED
  BY <1>1, <1>5, <1>6

(* All the rules of lease.rs together: globs, calendar, expiry, emit and    *)
(* check, for every set of patterns, paths, years and requests.             *)
THEOREM LeaseRulesHold == LeaseRulesMean
BY GlobsMatch, CalendarCounts, ExpiresOnTime, EmitWorks, CheckWorks DEF LeaseRulesMean

-----------------------------------------------------------------------------
(* agent_inflight_summary: what an observation is after each file.         *)

\* scan_observations, file by file.
Reading(files, read) ==
  [n \in 0..Len(files) |-> IF n = 0 THEN {} ELSE Observe(read[n - 1], files[n])]

\* There is such a function, and so CHOOSE finds one.
LEMMA CanRead ==
  ASSUME NEW files, Len(files) \in Nat
  PROVE  \E read : read = Reading(files, read)
<1> DEFINE N == Len(files)
           Upto(k, f) == f = [n \in 0..k |-> IF n = 0 THEN {} ELSE Observe(f[n - 1], files[n])]
           ok == {k \in 0..N : \E f : Upto(k, f)}
<1>1. 0 \in ok
  <2>1. Upto(0, [n \in 0..0 |-> {}])
    OBVIOUS
  <2>2. 0 \in 0..N
    OBVIOUS
  <2> HIDE DEF Upto
  <2> QED
    BY <2>1, <2>2
<1>2. ASSUME NEW k \in 1..N, k - 1 \in ok PROVE k \in ok
  <2>1. PICK f : Upto(k - 1, f)
    BY <1>2
  <2> DEFINE g == [n \in 0..k |-> IF n = k THEN Observe(f[k - 1], files[k]) ELSE f[n]]
  <2>2. ASSUME NEW n \in 0..k
        PROVE  g[n] = IF n = 0 THEN {} ELSE Observe(g[n - 1], files[n])
    <3>1. CASE n = 0
      BY <2>1, <3>1
    <3>2. CASE n \in 1..k - 1
      <4>1. n \in 0..k - 1 /\ n - 1 \in 0..k /\ n # k /\ n - 1 # k /\ n # 0
        BY <3>2
      <4>2. g[n] = f[n] /\ g[n - 1] = f[n - 1]
        BY <4>1
      <4>3. f[n] = Observe(f[n - 1], files[n])
        BY <2>1, <4>1
      <4> QED
        BY <4>1, <4>2, <4>3
    <3>3. CASE n = k
      <4>1. g[k] = Observe(f[k - 1], files[k]) /\ g[k - 1] = f[k - 1] /\ k # 0
        OBVIOUS
      <4> QED
        BY <3>3, <4>1
    <3> QED
      BY <3>1, <3>2, <3>3
  <2>3. g = [n \in 0..k |-> g[n]]
    OBVIOUS
  <2> HIDE DEF g
  <2>4. Upto(k, g)
    BY <2>2, <2>3
  <2> QED
    BY <2>4
<1> HIDE DEF ok
<1>3. N \in ok
  <2>1. N \in Nat /\ N \in 0..N
    OBVIOUS
  <2> HIDE DEF N
  <2> QED
    BY <1>1, <1>2, <2>1, UpToAll
<1> USE DEF ok
<1> QED
  BY <1>3 DEF Reading

\* The observations of the first n files.
LEMMA ObservedStepwise ==
  ASSUME NEW scan, NEW files, files = scan.transcripts \o scan.heartbeats, Len(files) \in Nat
  PROVE  \E read : /\ read[0] = {}
                   /\ \A n \in 1..Len(files) : read[n] = Observe(read[n - 1], files[n])
                   /\ Observations(scan) = read[Len(files)]
<1> DEFINE read == CHOOSE f : f = Reading(files, f)
<1>1. Observations(scan) = read[Len(files)]
  BY DEF Observations, Reading
<1>2. read = Reading(files, read)
  BY CanRead
<1> HIDE DEF read
<1>3. \A n \in 0..Len(files) :
        read[n] = IF n = 0 THEN {} ELSE Observe(read[n - 1], files[n])
  <2>1. \A f : \A n \in 0..Len(files) :
          Reading(files, f)[n] = IF n = 0 THEN {} ELSE Observe(f[n - 1], files[n])
    BY DEF Reading
  <2> QED
    BY <1>2, <2>1
<1>4. 0 \in 0..Len(files) /\ \A n \in 1..Len(files) : n \in 0..Len(files) /\ n # 0
  <2>1. PICK N \in Nat : N = Len(files)
    OBVIOUS
  <2>2. 0 \in 0..N /\ \A n \in 1..N : n \in 0..N /\ n # 0
    OBVIOUS
  <2> QED
    BY <2>1, <2>2
<1>5. read[0] = {} /\ \A n \in 1..Len(files) : read[n] = Observe(read[n - 1], files[n])
  BY <1>3, <1>4
<1> QED
  BY <1>1, <1>5

\* What an observation says of the first n files: the newest of them, and the
\* first that names a worktree or a tool.
Latest(files, n, o) ==
  /\ \E i \in 1..n : files[i].task = o.task /\ files[i].mtime = o.newest
  /\ \A i \in 1..n : files[i].task = o.task => files[i].mtime <= o.newest

FirstPlace(files, n, o) ==
  IF o.worktree = Unattributed
  THEN \A i \in 1..n : files[i].task = o.task => files[i].worktree = Unattributed
  ELSE \E i \in 1..n :
         /\ files[i].task = o.task /\ files[i].worktree = o.worktree
         /\ \A j \in 1..i - 1 : files[j].task = o.task => files[j].worktree = Unattributed

FirstTool(files, n, o) ==
  IF o.tool = NoTool
  THEN \A i \in 1..n : files[i].task = o.task => files[i].tool = NoTool
  ELSE \E i \in 1..n :
         /\ files[i].task = o.task /\ files[i].tool = o.tool
         /\ \A j \in 1..i - 1 : files[j].task = o.task => files[j].tool = NoTool

Sums(files, n, o) ==
  /\ o = [task |-> o.task, newest |-> o.newest, worktree |-> o.worktree, tool |-> o.tool]
  /\ Latest(files, n, o) /\ FirstPlace(files, n, o) /\ FirstTool(files, n, o)

Saw(files, n, obs) ==
  /\ \A o \in obs : Sums(files, n, o)
  /\ \A o, p \in obs : o.task = p.task => o = p
  /\ \A i \in 1..n : \E o \in obs : o.task = files[i].task

\* A file of another task changes nothing.
LEMMA OtherTask ==
  ASSUME NEW files, NEW n \in Nat, n # 0, NEW o, Sums(files, n - 1, o), files[n].task # o.task
  PROVE  Sums(files, n, o)
<1>1. \A i \in 1..n : files[i].task = o.task => i \in 1..n - 1
  OBVIOUS
<1>2. \A i \in 1..n - 1 : i \in 1..n
  OBVIOUS
<1>3. Latest(files, n, o)
  BY <1>1, <1>2 DEF Sums, Latest
<1>4. FirstPlace(files, n, o)
  BY <1>1, <1>2 DEF Sums, FirstPlace
<1>5. FirstTool(files, n, o)
  BY <1>1, <1>2 DEF Sums, FirstTool
<1> QED
  BY <1>3, <1>4, <1>5 DEF Sums

\* The first file of a task.
LEMMA NewTask ==
  ASSUME NEW files, NEW n \in Nat, n # 0, files[n].mtime \in Nat,
         \A i \in 1..n - 1 : files[i].task # files[n].task
  PROVE  Sums(files, n, Seen(files[n]))
<1>1. PICK o : o = Seen(files[n])
  OBVIOUS
<1>2. /\ o = [task |-> o.task, newest |-> o.newest, worktree |-> o.worktree, tool |-> o.tool]
      /\ o.task = files[n].task /\ o.newest = files[n].mtime
      /\ o.worktree = files[n].worktree /\ o.tool = files[n].tool
  BY <1>1 DEF Seen
<1>3. n \in 1..n /\ \A i \in 1..n : files[i].task = files[n].task => i = n
  OBVIOUS
<1>4. Latest(files, n, o)
  BY <1>2, <1>3 DEF Latest
<1>5. FirstPlace(files, n, o)
  BY <1>2, <1>3 DEF FirstPlace
<1>6. FirstTool(files, n, o)
  BY <1>2, <1>3 DEF FirstTool
<1> QED
  BY <1>1, <1>2, <1>4, <1>5, <1>6 DEF Sums

\* Another file of the task.
LEMMA SameTask ==
  ASSUME NEW files, NEW n \in Nat, n # 0, \A i \in 1..n : files[i].mtime \in Nat,
         NEW o, Sums(files, n - 1, o), files[n].task = o.task
  PROVE  Merged(o, files[n]).task = o.task /\ Sums(files, n, Merged(o, files[n]))
<1>1. PICK m : m = Merged(o, files[n])
  OBVIOUS
<1>2. PICK f : f = files[n]
  OBVIOUS
<1>3. /\ m = [task |-> m.task, newest |-> m.newest, worktree |-> m.worktree, tool |-> m.tool]
      /\ m.task = o.task /\ m.newest = Newest(o.newest, f.mtime)
      /\ m.worktree = IF o.worktree = Unattributed THEN f.worktree ELSE o.worktree
      /\ m.tool = IF o.tool = NoTool THEN f.tool ELSE o.tool
  <2>1. o = [task |-> o.task, newest |-> o.newest, worktree |-> o.worktree, tool |-> o.tool]
    BY DEF Sums
  <2> QED
    BY <1>1, <1>2, <2>1 DEF Merged
<1>4. n \in 1..n /\ \A i \in 1..n : i \in 1..n - 1 \/ i = n
  OBVIOUS
<1>5. \A i \in 1..n - 1 : i \in 1..n
  OBVIOUS
<1>6. Latest(files, n, m)
  <2>1. o.newest \in Nat /\ f.mtime \in Nat
    BY <1>2, <1>4, <1>5 DEF Sums, Latest
  <2>2. m.newest \in {o.newest, f.mtime} /\ o.newest <= m.newest /\ f.mtime <= m.newest
    BY <1>3, <2>1 DEF Newest
  <2>3. \E i \in 1..n : files[i].task = m.task /\ files[i].mtime = m.newest
    BY <1>2, <1>3, <1>4, <1>5, <2>2 DEF Sums, Latest
  <2>4. ASSUME NEW i \in 1..n, files[i].task = m.task PROVE files[i].mtime <= m.newest
    <3>1. CASE i = n
      BY <1>2, <2>2, <3>1
    <3>2. CASE i \in 1..n - 1
      <4>1. files[i].mtime <= o.newest
        BY <1>3, <2>4, <3>2 DEF Sums, Latest
      <4>2. files[i].mtime \in Nat /\ m.newest \in Nat
        BY <2>1, <2>2
      <4> QED
        BY <2>1, <2>2, <4>1, <4>2
    <3> QED
      BY <1>4, <3>1, <3>2
  <2> QED
    BY <2>3, <2>4 DEF Latest
<1>7. FirstPlace(files, n, m)
  <2>1. CASE o.worktree = Unattributed
    <3>1. \A i \in 1..n - 1 : files[i].task = m.task => files[i].worktree = Unattributed
      BY <1>3, <2>1 DEF Sums, FirstPlace
    <3>2. m.worktree = files[n].worktree /\ files[n].task = m.task
      BY <1>2, <1>3, <2>1
    <3> QED
      BY <1>4, <3>1, <3>2 DEF FirstPlace
  <2>2. CASE o.worktree # Unattributed
    BY <1>3, <1>5, <2>2 DEF Sums, FirstPlace
  <2> QED
    BY <2>1, <2>2
<1>8. FirstTool(files, n, m)
  <2>1. CASE o.tool = NoTool
    <3>1. \A i \in 1..n - 1 : files[i].task = m.task => files[i].tool = NoTool
      BY <1>3, <2>1 DEF Sums, FirstTool
    <3>2. m.tool = files[n].tool /\ files[n].task = m.task
      BY <1>2, <1>3, <2>1
    <3> QED
      BY <1>4, <3>1, <3>2 DEF FirstTool
  <2>2. CASE o.tool # NoTool
    BY <1>3, <1>5, <2>2 DEF Sums, FirstTool
  <2> QED
    BY <2>1, <2>2
<1> QED
  BY <1>1, <1>3, <1>6, <1>7, <1>8 DEF Sums

\* A file more.
LEMMA SawStep ==
  ASSUME NEW files, NEW n \in Nat, n # 0, \A i \in 1..n : files[i].mtime \in Nat,
         NEW obs, Saw(files, n - 1, obs)
  PROVE  Saw(files, n, Observe(obs, files[n]))
<1>1. PICK f : f = files[n]
  OBVIOUS
<1>2. n \in 1..n /\ \A i \in 1..n : i \in 1..n - 1 \/ i = n
  OBVIOUS
<1>3. CASE \E o \in obs : o.task = f.task
  <2>1. PICK p \in obs : p.task = f.task
    BY <1>3
  <2>2. PICK new : new = Merged(p, f)
    OBVIOUS
  <2>3. new.task = f.task /\ Sums(files, n, new)
    BY <1>1, <2>1, <2>2, SameTask DEF Saw
  <2>4. Observe(obs, f) = {IF o.task = f.task THEN Merged(o, f) ELSE o : o \in obs}
    BY <1>3 DEF Observe
  <2>5. \A o \in obs : o.task = f.task => o = p
    BY <2>1 DEF Saw
  <2>6. \A x : x \in Observe(obs, f) <=> x = new \/ (x \in obs /\ x.task # f.task)
    BY <2>1, <2>2, <2>4, <2>5
  <2>7. \A x \in Observe(obs, f) : Sums(files, n, x)
    BY <1>1, <2>3, <2>6, OtherTask DEF Saw
  <2>8. \A x, y \in Observe(obs, f) : x.task = y.task => x = y
    BY <2>3, <2>6 DEF Saw
  <2>9. \A i \in 1..n : \E x \in Observe(obs, f) : x.task = files[i].task
    BY <1>1, <1>2, <2>3, <2>6 DEF Saw
  <2> QED
    BY <1>1, <2>7, <2>8, <2>9 DEF Saw
<1>4. CASE ~\E o \in obs : o.task = f.task
  <2>1. Observe(obs, f) = obs \cup {Seen(f)}
    BY <1>4 DEF Observe
  <2>2. \A i \in 1..n - 1 : files[i].task # f.task
    BY <1>4 DEF Saw
  <2>3. Sums(files, n, Seen(f)) /\ Seen(f).task = f.task
    <3>1. files[n].mtime \in Nat
      BY <1>2
    <3> QED
      BY <1>1, <2>2, <3>1, NewTask DEF Seen
  <2>4. \A x \in Observe(obs, f) : Sums(files, n, x)
    BY <1>1, <1>4, <2>1, <2>3, OtherTask DEF Saw
  <2>5. \A x, y \in Observe(obs, f) : x.task = y.task => x = y
    BY <1>4, <2>1, <2>3 DEF Saw
  <2>6. \A i \in 1..n : \E x \in Observe(obs, f) : x.task = files[i].task
    BY <1>1, <1>2, <2>1, <2>3 DEF Saw
  <2> QED
    BY <1>1, <2>4, <2>5, <2>6 DEF Saw
<1> QED
  BY <1>3, <1>4

\* All files.
LEMMA SawAll ==
  ASSUME NEW files, NEW N \in Nat, \A i \in 1..N : files[i].mtime \in Nat, NEW read,
         read[0] = {}, \A n \in 1..N : read[n] = Observe(read[n - 1], files[n])
  PROVE  Saw(files, N, read[N])
<1> DEFINE ok == {n \in 0..N : Saw(files, n, read[n])}
<1>1. 0 \in ok
  BY DEF Saw
<1>2. ASSUME NEW n \in 1..N, n - 1 \in ok PROVE n \in ok
  <2>1. n \in Nat /\ n # 0 /\ n \in 0..N /\ \A i \in 1..n : i \in 1..N
    OBVIOUS
  <2>2. Saw(files, n, Observe(read[n - 1], files[n]))
    BY <1>2, <2>1, SawStep
  <2> QED
    BY <2>1, <2>2
<1>3. N \in 0..N
  OBVIOUS
<1> HIDE DEF ok
<1>4. N \in ok
  BY <1>1, <1>2, <1>3, UpToAll
<1> USE DEF ok
<1> QED
  BY <1>4

\* scan_observations sums up all files.
LEMMA AllSeen ==
  ASSUME NEW scan, NEW files, files = scan.transcripts \o scan.heartbeats,
         NEW N \in Nat, N = Len(files), \A i \in 1..N : files[i].mtime \in Nat
  PROVE  Saw(files, N, Observations(scan))
<1>1. PICK read : /\ read[0] = {}
                  /\ \A n \in 1..N : read[n] = Observe(read[n - 1], files[n])
                  /\ Observations(scan) = read[N]
  BY ObservedStepwise
<1> QED
  BY <1>1, SawAll, ZenonT(30)

-----------------------------------------------------------------------------
(* What the observations tell of the files of a scan.                      *)

\* What is assumed of a scan.
IsScan(scan) ==
  /\ scan.transcripts \in Seq(Range(scan.transcripts))
  /\ scan.heartbeats \in Seq(Range(scan.heartbeats))
  /\ \A f \in Range(scan.transcripts) : f.mtime \in 0..Now /\ f.tool = NoTool
  /\ \A f \in Range(scan.heartbeats) : f.mtime \in 0..Now

\* The first t of files are the members of A, the h after them those of B.
Joins(files, t, h, A, B) ==
  /\ \A i \in 1..t : files[i] \in A
  /\ \A i \in 1..h : files[t + i] \in B
  /\ \A f \in A : \E i \in 1..t : f = files[i]
  /\ \A f \in B : \E i \in 1..h : f = files[t + i]

\* Where the files of a scan are in the order they are read in.
LEMMA FilesInOrder ==
  ASSUME NEW scan, IsScan(scan)
  PROVE  LET files == scan.transcripts \o scan.heartbeats
             T == scan.transcripts
             H == scan.heartbeats
         IN \E t \in Nat, h \in Nat :
              /\ Len(files) = t + h /\ Len(H) = h
              /\ Joins(files, t, h, Range(T), Range(H))
              /\ \A i \in 1..h : files[t + i] = H[i]
<1> DEFINE T == scan.transcripts
           H == scan.heartbeats
<1>1. PICK S, R : S = Range(T) /\ R = Range(H) /\ T \in Seq(S) /\ H \in Seq(R)
  BY DEF IsScan
<1>2. PICK t \in Nat : t = Len(T) /\ DOMAIN T = 1..t
  BY <1>1
<1>3. PICK h \in Nat : h = Len(H) /\ DOMAIN H = 1..h
  BY <1>1
<1>4. /\ \A i \in 1..t : T[i] \in Range(T)
      /\ \A f \in Range(T) : \E i \in 1..t : f = T[i]
  BY <1>2 DEF Range
<1>5. /\ \A i \in 1..h : H[i] \in Range(H)
      /\ \A f \in Range(H) : \E i \in 1..h : f = H[i]
  BY <1>3 DEF Range
<1>6. /\ Len(T \o H) = t + h
      /\ \A i \in 1..t : (T \o H)[i] = T[i]
      /\ \A i \in 1..h : (T \o H)[t + i] = H[i]
  <2> HIDE DEF T, H
  <2>1. T \in Seq(S \cup R) /\ H \in Seq(S \cup R)
    BY <1>1
  <2> QED
    BY <1>2, <1>3, <2>1
<1>7. PICK files : files = T \o H
  OBVIOUS
<1> HIDE DEF T, H
<1>8. Joins(files, t, h, Range(T), Range(H))
  <2>1. \A i \in 1..t : files[i] = T[i]
    BY <1>6, <1>7, Zenon
  <2>2. \A i \in 1..h : files[t + i] = H[i]
    BY <1>6, <1>7, Zenon
  <2>3. \A i \in 1..t : files[i] \in Range(T)
    BY <1>4, <2>1, Zenon
  <2>4. \A i \in 1..h : files[t + i] \in Range(H)
    BY <1>5, <2>2, Zenon
  <2>5. \A f \in Range(T) : \E i \in 1..t : f = files[i]
    BY <1>4, <2>1, Zenon
  <2>6. \A f \in Range(H) : \E i \in 1..h : f = files[t + i]
    BY <1>5, <2>2, Zenon
  <2> QED
    BY <2>3, <2>4, <2>5, <2>6, Zenon DEF Joins
<1>9. Len(files) = t + h /\ Len(H) = h /\ \A i \in 1..h : files[t + i] = H[i]
  BY <1>3, <1>6, <1>7, Zenon
<1>10. \E n \in Nat, m \in Nat : /\ Len(files) = n + m /\ Len(H) = m
                              /\ Joins(files, n, m, Range(T), Range(H))
                              /\ \A i \in 1..m : files[n + i] = H[i]
  BY <1>2, <1>3, <1>8, <1>9, Zenon
<1> USE DEF T, H
<1> QED
  BY <1>7, <1>10, Zenon

\* Where the members of both parts are.
LEMMA Joined ==
  ASSUME NEW t \in Nat, NEW h \in Nat, NEW files, NEW A, NEW B, Joins(files, t, h, A, B),
         NEW n, n = t + h
  PROVE  /\ \A i \in 1..n : files[i] \in A \cup B
         /\ \A f \in A \cup B : \E i \in 1..n : f = files[i]
<1>1. ASSUME NEW i \in 1..n PROVE files[i] \in A \cup B
  <2>1. CASE i \in 1..t
    BY <2>1 DEF Joins
  <2>2. CASE i \notin 1..t
    <3>1. i - t \in 1..h /\ t + (i - t) = i
      BY <2>2
    <3>2. files[t + (i - t)] \in B
      BY <3>1 DEF Joins
    <3> QED
      BY <3>1, <3>2
  <2> QED
    BY <2>1, <2>2
<1>2. ASSUME NEW f \in A \cup B PROVE \E i \in 1..n : f = files[i]
  <2>1. CASE f \in A
    <3>1. PICK i \in 1..t : f = files[i]
      BY <2>1 DEF Joins
    <3> QED
      BY <3>1
  <2>2. CASE f \in B
    <3>1. PICK i \in 1..h : f = files[t + i]
      BY <2>2 DEF Joins
    <3>2. t + i \in 1..n
      OBVIOUS
    <3> QED
      BY <3>1, <3>2
  <2> QED
    BY <2>1, <2>2
<1> QED
  BY <1>1, <1>2

\* The files of a scan are those that are read.
LEMMA FilesAre ==
  ASSUME NEW scan, IsScan(scan), NEW files, files = scan.transcripts \o scan.heartbeats
  PROVE  /\ Len(files) \in Nat
         /\ \A i \in 1..Len(files) : files[i] \in FilesOf(scan)
         /\ \A f \in FilesOf(scan) : \E i \in 1..Len(files) : f = files[i]
         /\ \A f \in FilesOf(scan) : f.mtime \in 0..Now
<1>1. PICK T, H : T = scan.transcripts /\ H = scan.heartbeats
  OBVIOUS
<1>2. PICK t \in Nat, h \in Nat :
        Len(files) = t + h /\ Joins(files, t, h, Range(T), Range(H))
  BY <1>1, FilesInOrder, Zenon
<1>3. PICK n : n = t + h
  OBVIOUS
<1>4. n \in Nat /\ Len(files) = n
  <2>1. n \in Nat
    BY <1>3
  <2> QED
    BY <1>2, <1>3, <2>1, Zenon
<1>5. /\ \A i \in 1..n : files[i] \in Range(T) \cup Range(H)
      /\ \A f \in Range(T) \cup Range(H) : \E i \in 1..n : f = files[i]
  <2>1. PICK A, B : A = Range(T) /\ B = Range(H) /\ Joins(files, t, h, A, B)
    BY <1>2, Zenon
  <2>2. PICK fs : fs = files
    OBVIOUS
  <2>3. Joins(fs, t, h, A, B)
    BY <2>1, <2>2
  <2>4. /\ \A i \in 1..n : fs[i] \in A \cup B
        /\ \A f \in A \cup B : \E i \in 1..n : f = fs[i]
    BY <1>2, <1>3, <2>3, Joined
  <2> QED
    BY <2>1, <2>2, <2>4, Zenon
<1>6. \A f \in Range(T) \cup Range(H) : f.mtime \in 0..Now
  BY <1>1 DEF IsScan
<1>7. FilesOf(scan) = Range(T) \cup Range(H)
  BY <1>1, Zenon DEF FilesOf
<1> QED
  BY <1>4, <1>5, <1>6, <1>7, Zenon

\* The observations of a scan sum up its files.
LEMMA ScanSeen ==
  ASSUME NEW scan, IsScan(scan), Now \in Nat, NEW files, files = scan.transcripts \o scan.heartbeats
  PROVE  Len(files) \in Nat /\ Saw(files, Len(files), Observations(scan))
<1>0. Len(files) \in Nat
  BY FilesAre
<1>1. PICK n \in Nat : n = Len(files)
  BY <1>0
<1>2. ASSUME NEW i \in 1..n PROVE files[i].mtime \in Nat
  <2>1. files[i] \in FilesOf(scan)
    BY <1>1, FilesAre, Zenon
  <2>2. files[i].mtime \in 0..Now
    BY <2>1, FilesAre, Zenon
  <2>3. 0..Now \subseteq Nat
    OBVIOUS
  <2> QED
    BY <2>2, <2>3, Zenon
<1> QED
  BY <1>1, <1>2, AllSeen

\* The greatest of bounded numbers.
LEMMA MaxIs ==
  ASSUME NEW b \in Nat, NEW S, S # {}, S \subseteq 0..b
  PROVE  Max(S) \in S /\ \A y \in S : y <= Max(S)
<1> DEFINE below == {k \in 0..b : b - k \in S}
<1>1. below # {} /\ below \subseteq Nat
  <2>1. PICK x \in S : TRUE
    OBVIOUS
  <2>2. b - x \in 0..b /\ b - (b - x) = x
    OBVIOUS
  <2>3. b - x \in below
    BY <2>2
  <2>4. below \subseteq Nat
    OBVIOUS
  <2> HIDE DEF below
  <2> QED
    BY <2>3, <2>4
<1>2. PICK k \in below : \A j \in below : k <= j
  <2> HIDE DEF below
  <2> QED
    BY <1>1, NatLess
<1>3. b - k \in S /\ k \in 0..b
  OBVIOUS
<1>4. ASSUME NEW y \in S PROVE b - k >= y
  <2>1. b - y \in 0..b /\ b - (b - y) = y
    OBVIOUS
  <2>2. k <= b - y
    BY <1>2, <2>1
  <2> QED
    BY <1>3, <2>1, <2>2
<1>5. \E x \in S : \A y \in S : x >= y
  BY <1>3, <1>4
<1>6. Max(S) \in S /\ \A y \in S : Max(S) >= y
  BY <1>5 DEF Max
<1> QED
  BY <1>6

\* The first place named in joined files is one of the first part, or the first
\* of the second.
LEMMA JoinedPlace ==
  ASSUME NEW t \in Nat, NEW h \in Nat, NEW files, NEW A, NEW B, Joins(files, t, h, A, B),
         NEW n, n = t + h, NEW H, \A i \in 1..h : files[t + i] = H[i],
         NEW o, FirstPlace(files, n, o)
  PROVE  IF Named(A, o.task) # {} THEN o.worktree \in Named(A, o.task) ELSE FirstPlace(H, h, o)
<1>1. \A v : v \in Named(A, o.task) <=>
               v # Unattributed /\ \E f \in A : f.task = o.task /\ f.worktree = v
  BY DEF Named
<1>2. /\ \A i \in 1..t : i \in 1..n
      /\ \A i \in 1..h : t + i \in 1..n
      /\ \A i \in 1..n : i \in 1..t \/ (i - t \in 1..h /\ t + (i - t) = i)
  OBVIOUS
<1>3. CASE Named(A, o.task) # {}
  <2>1. PICK k \in 1..t : files[k].task = o.task /\ files[k].worktree # Unattributed
    <3>1. PICK f \in A : f.task = o.task /\ f.worktree # Unattributed
      BY <1>1, <1>3
    <3>2. PICK k \in 1..t : f = files[k]
      BY DEF Joins
    <3> QED
      BY <3>1, <3>2
  <2>2. o.worktree # Unattributed
    BY <1>2, <2>1 DEF FirstPlace
  <2>3. PICK i \in 1..n :
          /\ files[i].task = o.task /\ files[i].worktree = o.worktree
          /\ \A j \in 1..i - 1 : files[j].task = o.task => files[j].worktree = Unattributed
    BY <2>2 DEF FirstPlace
  <2>4. k \notin 1..i - 1
    BY <2>1, <2>3
  <2>5. i \in 1..t
    BY <2>4
  <2>6. files[i] \in A
    BY <2>5 DEF Joins
  <2> QED
    BY <1>1, <1>3, <2>2, <2>3, <2>6
<1>4. CASE Named(A, o.task) = {}
  <2>1. \A i \in 1..t : files[i].task = o.task => files[i].worktree = Unattributed
    BY <1>1, <1>4 DEF Joins
  <2>2. CASE o.worktree = Unattributed
    <3>1. \A i \in 1..h : H[i].task = o.task => H[i].worktree = Unattributed
      BY <1>2, <2>2 DEF FirstPlace
    <3> QED
      BY <1>4, <2>2, <3>1 DEF FirstPlace
  <2>3. CASE o.worktree # Unattributed
    <3>1. PICK i \in 1..n :
            /\ files[i].task = o.task /\ files[i].worktree = o.worktree
            /\ \A j \in 1..i - 1 : files[j].task = o.task => files[j].worktree = Unattributed
      BY <2>3 DEF FirstPlace
    <3>2. i - t \in 1..h /\ t + (i - t) = i
      BY <1>2, <2>1, <2>3, <3>1
    <3>3. H[i - t] = files[i]
      BY <3>2
    <3>4. ASSUME NEW j \in 1..(i - t) - 1
          PROVE  H[j].task = o.task => H[j].worktree = Unattributed
      <4>1. j \in 1..h /\ t + j \in 1..i - 1
        BY <3>2
      <4> QED
        BY <3>1, <4>1
    <3> QED
      BY <1>4, <2>3, <3>1, <3>2, <3>3, <3>4 DEF FirstPlace
  <2> QED
    BY <2>2, <2>3
<1> QED
  BY <1>3, <1>4

\* Only the second part names tools.
LEMMA JoinedTool ==
  ASSUME NEW t \in Nat, NEW h \in Nat, NEW files, NEW A, NEW B, Joins(files, t, h, A, B),
         NEW n, n = t + h, NEW H, \A i \in 1..h : files[t + i] = H[i],
         \A f \in A : f.tool = NoTool, NEW o, FirstTool(files, n, o)
  PROVE  FirstTool(H, h, o)
<1>1. /\ \A i \in 1..h : t + i \in 1..n
      /\ \A i \in 1..n : i \in 1..t \/ (i - t \in 1..h /\ t + (i - t) = i)
  OBVIOUS
<1>2. \A i \in 1..t : files[i].tool = NoTool
  BY DEF Joins
<1>3. CASE o.tool = NoTool
  <2>1. \A i \in 1..h : H[i].task = o.task => H[i].tool = NoTool
    BY <1>1, <1>3 DEF FirstTool
  <2> QED
    BY <1>3, <2>1 DEF FirstTool
<1>4. CASE o.tool # NoTool
  <2>1. PICK i \in 1..n :
          /\ files[i].task = o.task /\ files[i].tool = o.tool
          /\ \A j \in 1..i - 1 : files[j].task = o.task => files[j].tool = NoTool
    BY <1>4 DEF FirstTool
  <2>2. i - t \in 1..h /\ t + (i - t) = i
    BY <1>1, <1>2, <1>4, <2>1
  <2>3. H[i - t] = files[i]
    BY <2>2
  <2>4. ASSUME NEW j \in 1..(i - t) - 1 PROVE H[j].task = o.task => H[j].tool = NoTool
    <3>1. j \in 1..h /\ t + j \in 1..i - 1
      BY <2>2
    <3> QED
      BY <2>1, <3>1
  <2> QED
    BY <1>4, <2>1, <2>2, <2>3, <2>4 DEF FirstTool
<1> QED
  BY <1>3, <1>4

\* What an observation tells of the files of its task.
Told(scan, o) ==
  /\ o = [task |-> o.task, newest |-> o.newest, worktree |-> o.worktree, tool |-> o.tool]
  /\ \E f \in FilesOf(scan) : f.task = o.task /\ f.mtime = o.newest
  /\ \A f \in FilesOf(scan) : f.task = o.task => f.mtime <= o.newest
  /\ IF Named(Range(scan.transcripts), o.task) # {}
     THEN o.worktree \in Named(Range(scan.transcripts), o.task)
     ELSE FirstPlace(scan.heartbeats, Len(scan.heartbeats), o)
  /\ FirstTool(scan.heartbeats, Len(scan.heartbeats), o)

\* There is one observation of every task of a file, and it tells of its files.
LEMMA AllTold ==
  ASSUME NEW scan, IsScan(scan), Now \in Nat
  PROVE  /\ \A o \in Observations(scan) : Told(scan, o)
         /\ \A o, p \in Observations(scan) : o.task = p.task => o = p
         /\ \A f \in FilesOf(scan) : \E o \in Observations(scan) : o.task = f.task
<1>1. PICK files : files = scan.transcripts \o scan.heartbeats
  OBVIOUS
<1>2. PICK T, H, A, B : /\ T = scan.transcripts /\ H = scan.heartbeats
                        /\ A = Range(T) /\ B = Range(H)
  OBVIOUS
<1>3. PICK t \in Nat, h \in Nat :
        /\ Len(files) = t + h /\ Len(H) = h /\ Joins(files, t, h, A, B)
        /\ \A i \in 1..h : files[t + i] = H[i]
  BY <1>1, <1>2, FilesInOrder, Zenon
<1>4. PICK n \in Nat : n = Len(files) /\ n = t + h
  BY <1>3
<1>5. PICK obs : obs = Observations(scan) /\ Saw(files, n, obs)
  BY <1>1, <1>4, ScanSeen
<1>6. /\ \A i \in 1..n : files[i] \in FilesOf(scan)
      /\ \A f \in FilesOf(scan) : \E i \in 1..n : f = files[i]
  <2>1. /\ t \in Nat /\ h \in Nat /\ n = t + h /\ Joins(files, t, h, A, B)
    BY <1>3, <1>4, Zenon
  <2>2. /\ \A i \in 1..n : files[i] \in A \cup B
        /\ \A f \in A \cup B : \E i \in 1..n : f = files[i]
    BY <2>1, Joined
  <2>3. FilesOf(scan) = A \cup B
    BY <1>2, Zenon DEF FilesOf
  <2> QED
    BY <2>2, <2>3
<1>7. ASSUME NEW o \in obs PROVE Told(scan, o)
  <2>1. Sums(files, n, o)
    BY <1>5 DEF Saw
  <2>2. \E f \in FilesOf(scan) : f.task = o.task /\ f.mtime = o.newest
    BY <1>6, <2>1, Zenon DEF Sums, Latest
  <2>3. \A f \in FilesOf(scan) : f.task = o.task => f.mtime <= o.newest
    BY <1>6, <2>1, Zenon DEF Sums, Latest
  <2>4. IF Named(A, o.task) # {} THEN o.worktree \in Named(A, o.task) ELSE FirstPlace(H, h, o)
    <3>1. FirstPlace(files, n, o)
      BY <2>1 DEF Sums
    <3>2. /\ t \in Nat /\ h \in Nat /\ n = t + h /\ Joins(files, t, h, A, B)
          /\ \A i \in 1..h : files[t + i] = H[i]
      BY <1>3, <1>4, Zenon
    <3> HIDE DEF FirstPlace
    <3> QED
      BY <3>1, <3>2, JoinedPlace
  <2>5. FirstTool(H, h, o)
    <3>1. FirstTool(files, n, o)
      BY <2>1 DEF Sums
    <3>2. \A f \in A : f.tool = NoTool
      BY <1>2 DEF IsScan
    <3> QED
      BY <1>3, <1>4, <3>1, <3>2, JoinedTool
  <2>6. o = [task |-> o.task, newest |-> o.newest, worktree |-> o.worktree, tool |-> o.tool]
    BY <2>1 DEF Sums
  <2> QED
    BY <1>2, <1>3, <2>2, <2>3, <2>4, <2>5, <2>6, Zenon DEF Told
<1>8. \A f \in FilesOf(scan) : \E o \in obs : o.task = f.task
  <2>1. \A i \in 1..n : \E o \in obs : o.task = files[i].task
    BY <1>5 DEF Saw
  <2> QED
    BY <1>6, <2>1
<1> QED
  BY <1>5, <1>7, <1>8, Zenon DEF Saw

-----------------------------------------------------------------------------
(* The summary.                                                            *)

\* The groups of a summary.
LEMMA GroupIs ==
  ASSUME NEW scan, NEW g \in Summary(scan)
  PROVE  \E o \in Observations(scan) :
           /\ g = Group(Place(o), Observations(scan)) /\ g.path = Place(o)
           /\ g.agents = {p \in Observations(scan) : Place(p) = Place(o)}
           /\ g.latest = Max({p.newest : p \in g.agents})
           /\ g.stale <=> \A p \in g.agents : Stale(p)
           /\ o \in g.agents
<1>1. PICK o \in Observations(scan) : g = Group(Place(o), Observations(scan))
  BY DEF Summary
<1>2. /\ g.path = Place(o)
      /\ g.agents = {p \in Observations(scan) : Place(p) = Place(o)}
      /\ g.latest = Max({p.newest : p \in g.agents})
      /\ g.stale = \A p \in g.agents : Stale(p)
  BY <1>1 DEF Group
<1>3. o \in g.agents
  BY <1>2
<1> QED
  BY <1>1, <1>2, <1>3

\* Every task of a file is in one group.
LEMMA AllGrouped ==
  ASSUME NEW scan, IsScan(scan), Now \in Nat
  PROVE  NobodyLost(scan)
<1> DEFINE obs == Observations(scan)
<1>1. SUFFICES ASSUME NEW f \in FilesOf(scan)
               PROVE  \E g \in Summary(scan) :
                        /\ f.task \in TasksOf(g)
                        /\ \A h \in Summary(scan) : f.task \in TasksOf(h) => h = g
  BY DEF NobodyLost
<1>2. PICK o \in obs : o.task = f.task
  BY AllTold
<1>3. PICK g : g = Group(Place(o), obs)
  OBVIOUS
<1>4. g \in Summary(scan)
  BY <1>2, <1>3 DEF Summary
<1>5. f.task \in TasksOf(g)
  <2>1. o \in g.agents
    BY <1>2, <1>3 DEF Group
  <2> QED
    BY <1>2, <2>1 DEF TasksOf
<1>6. ASSUME NEW h \in Summary(scan), f.task \in TasksOf(h) PROVE h = g
  <2>1. PICK p \in obs : h = Group(Place(p), obs)
    BY DEF Summary
  <2>2. PICK q \in h.agents : q.task = f.task
    BY <1>6 DEF TasksOf
  <2>3. q \in obs /\ Place(q) = Place(p)
    BY <2>1, <2>2 DEF Group
  <2>4. q = o
    BY <1>2, <2>2, <2>3, AllTold
  <2> QED
    BY <1>3, <2>1, <2>3, <2>4
<1> QED
  BY <1>4, <1>5, <1>6

\* Two sets of numbers of which the one is part of the other, and bounds it.
LEMMA SameMax ==
  ASSUME NEW b \in Nat, NEW S, NEW W, S # {}, S \subseteq W, W \subseteq 0..b,
         \A w \in W : \E s \in S : w <= s
  PROVE  Max(S) = Max(W) /\ Max(S) \in S /\ \A s \in S : s <= Max(S)
<1>1. Max(S) \in S /\ \A s \in S : s <= Max(S)
  BY MaxIs
<1>2. Max(W) \in W /\ \A w \in W : w <= Max(W)
  BY MaxIs
<1>3. Max(S) <= Max(W)
  BY <1>1, <1>2
<1>4. PICK s \in S : Max(W) <= s
  BY <1>2
<1>5. s <= Max(S)
  BY <1>1, <1>4
<1>6. Max(S) \in Nat /\ Max(W) \in Nat /\ s \in Nat
  <2>1. W \subseteq Nat /\ s \in W
    OBVIOUS
  <2> QED
    BY <1>1, <1>2, <2>1
<1> QED
  BY <1>1, <1>3, <1>4, <1>5, <1>6

\* A group is as old as the newest of its files.
LEMMA LivesMean ==
  ASSUME NEW scan, IsScan(scan), Now \in Nat, Cutoff \in Nat
  PROVE  LifeMeans(scan)
<1> DEFINE W(g) == {f.mtime : f \in {h \in FilesOf(scan) : h.task \in TasksOf(g)}}
<1>1. SUFFICES ASSUME NEW g \in Summary(scan)
               PROVE  g.latest = Max(W(g)) /\ (g.stale <=> Max(W(g)) + Cutoff < Now)
  BY DEF LifeMeans
<1>2. PICK o \in Observations(scan) :
        /\ g.agents = {p \in Observations(scan) : Place(p) = Place(o)}
        /\ g.latest = Max({p.newest : p \in g.agents})
        /\ g.stale <=> \A p \in g.agents : Stale(p)
        /\ o \in g.agents
  BY GroupIs
<1>3. PICK S : S = {p.newest : p \in g.agents}
  OBVIOUS
<1>4. \A p \in g.agents : Told(scan, p)
  BY <1>2, AllTold
<1>5. \A f \in FilesOf(scan) : f.mtime \in 0..Now
  BY DEF IsScan, FilesOf
<1>6. W(g) \subseteq 0..Now
  BY <1>5
<1>7. S # {}
  BY <1>2, <1>3, SMTT(30)
<1>8. S \subseteq W(g)
  BY <1>3, <1>4 DEF Told, TasksOf
<1>9. \A w \in W(g) : \E s \in S : w <= s
  BY <1>3, <1>4 DEF Told, TasksOf
<1>10. PICK m : m = Max(S)
  OBVIOUS
<1>11. m = Max(W(g)) /\ m \in S /\ \A s \in S : s <= m
  <2> HIDE DEF W
  <2> QED
    BY <1>6, <1>7, <1>8, <1>9, <1>10, SameMax
<1>12. S \subseteq 0..Now
  BY <1>6, <1>8
<1>13. (\A s \in S : s > Now \/ Now - s > Cutoff) <=> m + Cutoff < Now
  BY <1>11, <1>12
<1>14. g.stale <=> \A s \in S : s > Now \/ Now - s > Cutoff
  BY <1>2, <1>3 DEF Stale
<1> QED
  BY <1>2, <1>3, <1>10, <1>11, <1>13, <1>14

\* A transcript is believed before a heartbeat, and both before a name.
LEMMA PlacesMean ==
  ASSUME NEW scan, IsScan(scan), Now \in Nat
  PROVE  PlaceMeans(scan)
<1> DEFINE written(task) == Named(Range(scan.transcripts), task)
           beaten(task) == Named(Range(scan.heartbeats), task)
<1>1. SUFFICES ASSUME NEW g \in Summary(scan), NEW task \in TasksOf(g)
               PROVE  g.path \in IF written(task) # {} THEN written(task)
                                 ELSE IF beaten(task) # {} THEN beaten(task)
                                 ELSE {ByName(task)}
  BY DEF PlaceMeans
<1>2. PICK o \in Observations(scan) :
        /\ g.path = Place(o)
        /\ g.agents = {p \in Observations(scan) : Place(p) = Place(o)}
  BY GroupIs
<1>3. PICK p \in Observations(scan) : p.task = task /\ g.path = Place(p) /\ Told(scan, p)
  BY <1>2, AllTold DEF TasksOf
<1>4. \A files : \A v : v \in Named(files, task) <=>
                          v # Unattributed /\ \E f \in files : f.task = task /\ f.worktree = v
  BY DEF Named
<1>5. CASE written(task) # {}
  <2>1. p.worktree \in written(task)
    BY <1>3, <1>5 DEF Told
  <2>2. p.worktree # Unattributed
    BY <1>4, <2>1
  <2> QED
    BY <1>3, <1>5, <2>1, <2>2 DEF Place
<1>6. CASE written(task) = {}
  <2> DEFINE H == scan.heartbeats
  <2>1. PICK n \in Nat :
          /\ n = Len(H)
          /\ \A i \in 1..n : H[i] \in Range(H)
          /\ \A f \in Range(H) : \E i \in 1..n : f = H[i]
    <3>1. PICK R : H \in Seq(R)
      BY DEF IsScan
    <3>2. PICK n \in Nat : n = Len(H) /\ DOMAIN H = 1..n
      BY <3>1
    <3>3. /\ \A i \in 1..n : H[i] \in Range(H)
          /\ \A f \in Range(H) : \E i \in 1..n : f = H[i]
      BY <3>2 DEF Range
    <3> QED
      BY <3>2, <3>3
  <2>2. FirstPlace(H, n, p)
    BY <1>3, <1>6, <2>1 DEF Told
  <2>3. CASE p.worktree # Unattributed
    <3>1. PICK i \in 1..n : H[i].task = task /\ H[i].worktree = p.worktree
      BY <1>3, <2>2, <2>3 DEF FirstPlace
    <3>2. p.worktree \in beaten(task)
      BY <1>4, <2>1, <2>3, <3>1
    <3> QED
      BY <1>3, <1>6, <2>3, <3>2 DEF Place
  <2>4. CASE p.worktree = Unattributed
    <3>1. \A i \in 1..n : H[i].task = task => H[i].worktree = Unattributed
      BY <1>3, <2>2, <2>4 DEF FirstPlace
    <3>2. beaten(task) = {}
      BY <1>4, <2>1, <3>1
    <3> QED
      BY <1>3, <1>6, <2>4, <3>2 DEF Place
  <2> QED
    BY <2>3, <2>4
<1> QED
  BY <1>5, <1>6

\* The first of heartbeats is one.
LEMMA OneFirst ==
  ASSUME NEW H, NEW n \in Nat, NEW o, NEW p, o.task = p.task
  PROVE  /\ FirstPlace(H, n, o) /\ FirstPlace(H, n, p) => o.worktree = p.worktree
         /\ FirstTool(H, n, o) /\ FirstTool(H, n, p) => o.tool = p.tool
<1>0. \A i, j \in 1..n : i \in 1..j - 1 \/ i = j \/ j \in 1..i - 1
  OBVIOUS
<1>1. ASSUME FirstPlace(H, n, o), FirstPlace(H, n, p) PROVE o.worktree = p.worktree
  BY <1>0, <1>1 DEF FirstPlace
<1>2. ASSUME FirstTool(H, n, o), FirstTool(H, n, p) PROVE o.tool = p.tool
  BY <1>0, <1>2 DEF FirstTool
<1> QED
  BY <1>1, <1>2

\* What the order of the transcripts does not change.
LEMMA SameToldOf ==
  ASSUME NEW scan, NEW other, IsScan(scan), IsScan(other), Now \in Nat,
         Range(other.transcripts) = Range(scan.transcripts),
         other.heartbeats = scan.heartbeats,
         \A f \in Range(scan.transcripts) :
           \A v, w \in Named(Range(scan.transcripts), f.task) : v = w
  PROVE  Observations(scan) \subseteq Observations(other)
<1>1. FilesOf(other) = FilesOf(scan)
  BY DEF FilesOf
<1>2. SUFFICES ASSUME NEW o \in Observations(scan) PROVE o \in Observations(other)
  OBVIOUS
<1>3. Told(scan, o)
  BY AllTold
<1>4. PICK p \in Observations(other) : p.task = o.task
  <2>1. PICK f \in FilesOf(scan) : f.task = o.task
    BY <1>3 DEF Told
  <2> QED
    BY <1>1, <2>1, AllTold
<1>5. Told(other, p)
  BY AllTold
<1>6. o.newest = p.newest
  <2>1. PICK f \in FilesOf(scan) : f.task = o.task /\ f.mtime = o.newest
    BY <1>3 DEF Told
  <2>2. PICK h \in FilesOf(scan) : h.task = o.task /\ h.mtime = p.newest
    BY <1>1, <1>4, <1>5 DEF Told
  <2>3. o.newest <= p.newest /\ p.newest <= o.newest
    BY <1>1, <1>3, <1>4, <1>5, <2>1, <2>2 DEF Told
  <2>4. f.mtime \in Nat /\ h.mtime \in Nat
    BY DEF IsScan, FilesOf
  <2> QED
    BY <2>1, <2>2, <2>3, <2>4
<1> DEFINE H == scan.heartbeats
<1>7. PICK n \in Nat : n = Len(H)
  <2>1. PICK R : H \in Seq(R)
    BY DEF IsScan
  <2> QED
    BY <2>1
<1>8. o.tool = p.tool
  BY <1>3, <1>4, <1>5, <1>7, OneFirst DEF Told
<1>9. o.worktree = p.worktree
  <2>1. CASE Named(Range(scan.transcripts), o.task) = {}
    BY <1>3, <1>4, <1>5, <1>7, <2>1, OneFirst DEF Told
  <2>2. CASE Named(Range(scan.transcripts), o.task) # {}
    <3>1. PICK f \in Range(scan.transcripts) : f.task = o.task
      BY <2>2 DEF Named
    <3>2. /\ o.worktree \in Named(Range(scan.transcripts), f.task)
          /\ p.worktree \in Named(Range(scan.transcripts), f.task)
      BY <1>3, <1>4, <1>5, <2>2, <3>1 DEF Told
    <3> QED
      BY <3>1, <3>2
  <2> QED
    BY <2>1, <2>2
<1>10. o = p
  BY <1>3, <1>4, <1>5, <1>6, <1>8, <1>9 DEF Told
<1> QED
  BY <1>4, <1>10

\* The order in which the transcripts are read does not matter.
LEMMA OrdersMean ==
  ASSUME NEW scan, IsScan(scan), Now \in Nat
  PROVE  OrderMeans(scan)
<1> DEFINE other == [transcripts |-> Reverse(scan.transcripts), heartbeats |-> scan.heartbeats]
<1>1. SUFFICES ASSUME \A f \in Range(scan.transcripts) :
                        \A v, w \in Named(Range(scan.transcripts), f.task) : v = w
               PROVE  Summary(scan) = Summary(other)
  BY DEF OrderMeans
<1>2. PICK T, R : T = scan.transcripts /\ R = Range(T) /\ T \in Seq(R)
  BY DEF IsScan
<1>3. Range(Reverse(T)) = R /\ Reverse(T) \in Seq(R)
  <2>1. PICK n \in Nat : n = Len(T) /\ DOMAIN T = 1..n /\ \A i \in 1..n : T[i] \in R
    BY <1>2
  <2>2. Reverse(T) = [i \in 1..n |-> T[(n - i) + 1]]
    BY <2>1 DEF Reverse
  <2>3. \A i \in 1..n : (n - i) + 1 \in 1..n /\ (n - ((n - i) + 1)) + 1 = i
    OBVIOUS
  <2>4. Reverse(T) \in [1..n -> R]
    BY <2>1, <2>2, <2>3
  <2>5. Reverse(T) \in Seq(R)
    BY <2>4
  <2>6. \A x \in R : \E i \in 1..n : x = T[i]
    BY <1>2, <2>1 DEF Range
  <2>7. \A x \in R : \E i \in 1..n : x = Reverse(T)[i]
    <3>1. ASSUME NEW x \in R PROVE \E i \in 1..n : x = Reverse(T)[i]
      <4>1. PICK i \in 1..n : x = T[i]
        BY <2>6
      <4>2. (n - i) + 1 \in 1..n /\ Reverse(T)[(n - i) + 1] = T[i]
        BY <2>2, <2>3
      <4> QED
        BY <4>1, <4>2
    <3> QED
      BY <3>1
  <2>8. DOMAIN Reverse(T) = 1..n /\ \A i \in 1..n : Reverse(T)[i] \in R
    BY <2>4
  <2> HIDE DEF Reverse
  <2>9. \A x : x \in Range(Reverse(T)) <=> \E i \in 1..n : x = Reverse(T)[i]
    BY <2>8 DEF Range
  <2>10. \A x : x \in Range(Reverse(T)) <=> x \in R
    BY <2>7, <2>8, <2>9
  <2> QED
    BY <2>5, <2>10
<1>4. /\ other.transcripts = Reverse(T) /\ other.heartbeats = scan.heartbeats
      /\ Range(other.transcripts) = Range(scan.transcripts)
  BY <1>2, <1>3
<1>5. IsScan(other)
  BY <1>2, <1>3, <1>4 DEF IsScan
<1> HIDE DEF other
<1>6. Observations(scan) \subseteq Observations(other)
  BY <1>1, <1>4, <1>5, SameToldOf
<1>7. Observations(other) \subseteq Observations(scan)
  BY <1>1, <1>4, <1>5, SameToldOf
<1>8. Observations(scan) = Observations(other)
  BY <1>6, <1>7
<1> QED
  BY <1>8 DEF Summary

(* agent_inflight_summary (agents.rs 52-261) loses no task, calls a group   *)
(* stale only when none of its files was written within the cutoff, places  *)
(* an agent by transcript, heartbeat or name in this order, and does not    *)
(* depend on the order of the directory, for every file system.             *)
THEOREM AgentsAreSeen == AgentsSeen
<1>1. ASSUME NEW scan \in Scans
      PROVE  NobodyLost(scan) /\ LifeMeans(scan) /\ PlaceMeans(scan) /\ OrderMeans(scan)
  <2>1. IsScan(scan) /\ Now \in Nat /\ Cutoff \in Nat
    BY ScanAssumption DEF IsScan
  <2> QED
    BY <2>1, AllGrouped, LivesMean, PlacesMean, OrdersMean
<1> QED
  BY <1>1 DEF AgentsSeen, SummaryMeans

==============================================================================
