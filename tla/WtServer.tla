------------------------------- MODULE WtServer -------------------------------
(***************************************************************************)
(* The wtpool MCP server (mcp.rs) with its TTL cache (cache.rs), the reads *)
(* it caches (git.rs), and the lease files of the slots (lease.rs), while  *)
(* tasks take slots, emit leases, work and leave through this server or    *)
(* through another process.                                                *)
(*                                                                         *)
(* Which task a slot is lent to stands for all that the cached tools       *)
(* report of it; worktree_list reads the slots one after the other, the    *)
(* other cached tools read one fact, here the state of one slot.  A lease  *)
(* is the task it was emitted for.  A grant is the atomic step of          *)
(* SlotLease, a release has the steps that matter for a lease; WtPool has  *)
(* all of both.                                                            *)
(***************************************************************************)
EXTENDS Naturals, FiniteSets

CONSTANTS
  None,
  Slots, Tasks,
  Asked,         \* what the server is asked for: the list, the state of a slot
  Emitters,      \* the tasks that emit leases
  Failure,       \* the answer of a tool that failed
  LeaseIgnored,  \* .wt-lease.json is listed in the repository's .gitignore
  TTL,           \* DEFAULT_TTL, in ticks
  MaxCompute     \* bounds the model: ticks one computation may take

List == "worktree_list"

ASSUME ServerAssumption ==
  /\ Asked \subseteq Slots \cup {List} /\ List \notin Slots
  /\ Emitters \subseteq Tasks /\ Slots \cap Tasks = {}
  /\ LeaseIgnored \in BOOLEAN /\ {TTL, MaxCompute} \subseteq Nat
  /\ None \notin Slots \cup Tasks \cup (Slots \X {"there", "wiped"})
  /\ Failure \notin [Slots -> Tasks \cup {None}] \cup Tasks \cup {None}

VARIABLES
  tenant,    \* the task a slot is lent to
  edits,     \* slots with files git status shows, leases left aside
  lease,     \* .wt-lease.json
  tmp,       \* per task, its temporary file: the slot and whether it is there
  rel,       \* how far the release of a slot is
  old,       \* history: slots whose lease, and tasks whose temporary file, is
             \* from before the last release of the slot
  cache,     \* map: value and age of each entry
  pc,        \* the server's call: "idle" or "read"
  key,       \* its cache key
  seen,      \* what it has read so far
  spent,     \* ticks it has taken
  answer,    \* history: what a cached tool returned in the last step
  since      \* history: ticks since a slot last had a tenant

disk == <<edits, lease, tmp>>
release == <<rel, old>>
call == <<pc, key, seen, spent>>
vars == <<tenant, disk, release, cache, call, answer, since>>

Tenants == Tasks \cup {None}
Keys == {List} \cup Slots
Steps == {"idle", "gated", "detached", "reset", "cleaned", "released"}
Values == [Slots -> Tenants] \cup Tenants
Limit == TTL + MaxCompute + 1

TypeOK ==
  /\ tenant \in [Slots -> Tenants] /\ edits \subseteq Slots
  /\ \A a, b \in Slots : a # b /\ tenant[a] # None => tenant[a] # tenant[b]
  /\ lease \in [Slots -> Tenants]
  /\ tmp \in [Tasks -> {None} \cup (Slots \X {"there", "wiped"})]
  /\ rel \in [Slots -> Steps] /\ old \subseteq Slots \cup Tasks
  /\ DOMAIN cache \subseteq Keys
  /\ \A k \in DOMAIN cache :
       /\ cache[k].age \in 0..TTL + 1
       /\ cache[k].value \in IF k = List THEN [Slots -> Tenants] ELSE Tenants
  /\ pc \in {"idle", "read"} /\ key \in Keys \cup {None} /\ spent \in 0..MaxCompute
  /\ DOMAIN seen \subseteq Slots /\ \A s \in DOMAIN seen : seen[s] \in Tenants
  /\ answer = None \/ (answer.key \in Keys /\ answer.value \in Values \cup {Failure})
  /\ since \in [Slots \X Tenants -> 0..Limit]

Init ==
  /\ tenant = [s \in Slots |-> None] /\ edits = {}
  /\ lease = [s \in Slots |-> None] /\ tmp = [t \in Tasks |-> None]
  /\ rel = [s \in Slots |-> "idle"] /\ old = {}
  /\ cache = <<>>
  /\ pc = "idle" /\ key = None /\ seen = <<>> /\ spent = 0
  /\ answer = None
  /\ since = [p \in Slots \X Tenants |-> IF p[2] = None THEN 0 ELSE Limit]

-----------------------------------------------------------------------------
(* The cache.                                                              *)

\* Fault: the key is the name of the tool.
OneKey(k) == List

\* The tool and its canonical arguments.
CacheKey(k) == k

Fresh(k) == CacheKey(k) \in DOMAIN cache /\ cache[CacheKey(k)].age <= TTL

\* Fault: an answer from the cache counts as an insertion ("hits write back
\* the entry's last-read timestamp", 35).
Touched(k) == [cache EXCEPT ![k].age = 0]

AfterHit(k) == cache

\* peek.
Hit(k) ==
  /\ pc = "idle" /\ Fresh(k)
  /\ answer' = [key |-> k, value |-> cache[CacheKey(k)].value]
  /\ cache' = AfterHit(CacheKey(k))
  /\ UNCHANGED <<tenant, disk, release, call, since>>

\* Errors are returned by "?" before the insertion.
Fail ==
  /\ pc = "read"
  /\ answer' = [key |-> key, value |-> Failure]
  /\ pc' = "idle" /\ key' = None /\ seen' = <<>> /\ spent' = 0
  /\ UNCHANGED <<tenant, disk, release, cache, since>>

Insert(value) ==
  /\ answer' = [key |-> key, value |-> value]
  /\ cache' = [k \in DOMAIN cache \cup {CacheKey(key)} |->
                 IF k = CacheKey(key) THEN [value |-> value, age |-> 0] ELSE cache[k]]
  /\ pc' = "idle" /\ key' = None /\ seen' = <<>> /\ spent' = 0

-----------------------------------------------------------------------------
(* worktree_list and worktree_state.                                       *)

Miss(k) ==
  /\ pc = "idle" /\ ~Fresh(k)
  /\ pc' = "read" /\ key' = k /\ seen' = <<>> /\ spent' = 0 /\ answer' = None
  /\ UNCHANGED <<tenant, disk, release, cache, since>>

Wanted == IF key = List THEN Slots ELSE {key}

\* What git says of a worktree; an agent's task, its branch and whether it is
\* dirty all go with the tenant.
Facts(s) == tenant[s]

ReadSlot(s) ==
  /\ pc = "read" /\ s \in Wanted \ DOMAIN seen
  /\ seen' = [r \in DOMAIN seen \cup {s} |-> IF r = s THEN Facts(s) ELSE seen[r]]
  /\ answer' = None
  /\ UNCHANGED <<tenant, disk, release, cache, pc, key, spent, since>>

Compose ==
  /\ pc = "read" /\ DOMAIN seen = Wanted
  /\ Insert(IF key = List THEN seen ELSE seen[key])
  /\ UNCHANGED <<tenant, disk, release, since>>

Ask == \E k \in Asked : Hit(k) \/ Miss(k)
Server == Ask \/ (\E s \in Slots : ReadSlot(s)) \/ Compose

-----------------------------------------------------------------------------
(* Tasks.                                                                  *)

InSlot(t, s) == tmp[t] # None /\ tmp[t][1] = s

InFlight(s) == \E t \in Tasks : tmp[t] = <<s, "there">>

\* is_dirty, which does not see ignored files.
Dirty(s) == s \in edits \/ InFlight(s) \/ (lease[s] # None /\ ~LeaseIgnored)

Lend(s, t) ==
  /\ tenant' = [tenant EXCEPT ![s] = t]
  /\ since' = [since EXCEPT ![<<s, tenant[s]>>] = 0, ![<<s, t>>] = 0]

\* pool_acquire.
Acquire(t, s) ==
  /\ tmp[t] = None /\ \A r \in Slots : tenant[r] # t
  /\ tenant[s] = None /\ ~Dirty(s)
  /\ Lend(s, t) /\ answer' = None
  /\ UNCHANGED <<disk, release, cache, call>>

Edit(s) ==
  /\ tenant[s] # None /\ s \notin edits
  /\ edits' = edits \cup {s} /\ answer' = None
  /\ UNCHANGED <<tenant, lease, tmp, release, cache, call, since>>

-----------------------------------------------------------------------------
(* pool_release.  Whoever cleans up after a stuck task may force it, and   *)
(* nobody asks whose the slot is.  Any of its commands may fail, having    *)
(* done nothing, or be the last before the process is killed; a slot can   *)
(* be granted as soon as it is detached.                                   *)

ReleaseStep(s, from, to) ==
  /\ rel[s] = from /\ rel' = [rel EXCEPT ![s] = to]
  /\ answer' = None /\ UNCHANGED <<cache, call>>

\* The gate.  Whatever is in the slot is from before this release.
ReleaseGate(s, force) ==
  /\ force \/ ~Dirty(s)
  /\ \E ended \in {"idle", "released"} : ReleaseStep(s, ended, "gated")
  /\ old' = old \cup {r \in {s} : lease[r] # None} \cup {t \in Tasks : InSlot(t, s)}
  /\ UNCHANGED <<tenant, disk, since>>

\* git checkout --detach, which keeps what is uncommitted.
Detach(s) ==
  /\ ReleaseStep(s, "gated", "detached")
  /\ Lend(s, None)
  /\ UNCHANGED <<disk, old>>

\* git reset --hard: what is left of the files git status shows are new ones.
Reset(s) ==
  /\ ReleaseStep(s, "detached", "reset")
  /\ edits' \in {edits, edits \ {s}}
  /\ UNCHANGED <<tenant, lease, tmp, old, since>>

\* Fault: git clean -fd, which leaves ignored files alone.
CleanKeepsIgnored(s) ==
  lease' = IF LeaseIgnored THEN lease ELSE [lease EXCEPT ![s] = None]

CleanIgnored(s) == lease' = [lease EXCEPT ![s] = None]

\* git clean -fdx: temporary files go as well.
Clean(s) ==
  /\ ReleaseStep(s, "reset", "cleaned")
  /\ edits' = edits \ {s} /\ CleanIgnored(s)
  /\ tmp' = [t \in Tasks |-> IF tmp[t] = <<s, "there">>
                             THEN <<s, "wiped">> ELSE tmp[t]]
  /\ UNCHANGED <<tenant, old, since>>

\* verify_post_release, and the reply.
Released(s) ==
  /\ ReleaseStep(s, "cleaned", "released")
  /\ tenant[s] = None /\ ~Dirty(s)
  /\ UNCHANGED <<tenant, disk, old, since>>

\* A command or the verification fails, or the process is killed.
ReleaseEnds(s) ==
  /\ \E from \in {"gated", "detached", "reset", "cleaned"} : ReleaseStep(s, from, "idle")
  /\ UNCHANGED <<tenant, disk, old, since>>

Release(s) ==
  \/ \E force \in BOOLEAN : ReleaseGate(s, force)
  \/ Detach(s) \/ Reset(s) \/ Clean(s) \/ Released(s) \/ ReleaseEnds(s)

-----------------------------------------------------------------------------
(* worktree_lease_emit and lease emit: a temporary file in the worktree,   *)
(* written, synced and renamed.  All that is asked of the worktree is that *)
(* it is a directory.                                                      *)

WriterOnly == answer' = None /\ UNCHANGED <<tenant, rel, cache, call, since>>

EmitOpen(t, s) ==
  /\ tmp[t] = None /\ t \in Emitters
  /\ tmp' = [tmp EXCEPT ![t] = <<s, "there">>]
  /\ UNCHANGED <<edits, lease, old>> /\ WriterOnly

\* persist: there is nothing to rename when the file was cleaned away.
EmitRename(t) ==
  /\ tmp[t] # None
  /\ LET s == tmp[t][1] IN
     IF tmp[t][2] = "there"
     THEN /\ lease' = [lease EXCEPT ![s] = t]
          /\ old' = (IF t \in old THEN old \cup {s} ELSE old \ {s}) \ {t}
     ELSE UNCHANGED lease /\ old' = old \ {t}
  /\ tmp' = [tmp EXCEPT ![t] = None]
  /\ UNCHANGED edits /\ WriterOnly

\* A step fails, and the file is dropped.
EmitFails(t) ==
  /\ tmp[t] # None
  /\ tmp' = [tmp EXCEPT ![t] = None] /\ old' = old \ {t}
  /\ UNCHANGED <<edits, lease>> /\ WriterOnly

\* The process is killed, and the file stays.
EmitKilled(t) ==
  /\ tmp[t] # None
  /\ edits' = IF tmp[t][2] = "wiped" THEN edits ELSE edits \cup {tmp[t][1]}
  /\ tmp' = [tmp EXCEPT ![t] = None] /\ old' = old \ {t}
  /\ UNCHANGED lease /\ WriterOnly

Task ==
  \/ \E t \in Tasks, s \in Slots : Acquire(t, s) \/ EmitOpen(t, s)
  \/ \E s \in Slots : Edit(s) \/ Release(s)
  \/ \E t \in Tasks : EmitRename(t) \/ EmitFails(t) \/ EmitKilled(t)

-----------------------------------------------------------------------------

Older(n, limit) == IF n < limit THEN n + 1 ELSE n

Tick ==
  /\ pc = "read" => spent < MaxCompute
  /\ spent' = IF pc = "read" THEN spent + 1 ELSE spent
  /\ cache' = [k \in DOMAIN cache |-> [cache[k] EXCEPT !.age = Older(@, TTL + 1)]]
  /\ since' = [p \in Slots \X Tenants |->
                 IF tenant[p[1]] = p[2] THEN 0 ELSE Older(since[p], Limit)]
  /\ answer' = None
  /\ UNCHANGED <<tenant, disk, release, pc, key, seen>>

\* Every process is restarted with an empty cache.
Restart ==
  /\ cache' = <<>> /\ answer' = None
  /\ pc' = "idle" /\ key' = None /\ seen' = <<>> /\ spent' = 0
  /\ UNCHANGED <<tenant, disk, release, since>>

Next == Server \/ Fail \/ Task \/ Tick \/ Restart

Spec == Init /\ [][Next]_vars

-----------------------------------------------------------------------------
(* Properties.                                                             *)

(* What a cached tool answers was so, fact by fact and of the slot that    *)
(* was asked for, at some time within the last TTL and the time a          *)
(* computation takes ("may not appear for up to 60 s", cache.rs 6-8): the  *)
(* age of an entry counts from its insertion, which comes after the reads. *)
AnswersFresh ==
  answer # None =>
    \/ answer.value = Failure
    \/ /\ answer.key = List
       /\ \A s \in Slots : since[<<s, answer.value[s]>>] <= TTL + MaxCompute
    \/ answer.key \in Slots /\ since[<<answer.key, answer.value>>] <= TTL + MaxCompute

(* Of a slot that a release reports as released, callers "can trust the    *)
(* slot is pristine" (pool.rs 466-471): until its next release it shows no *)
(* lease whose writing began before that release, whoever was writing one, *)
(* was killed at it or has lost the slot.                                  *)
ReleasedIsPristine ==
  \A s \in Slots : rel[s] = "released" /\ lease[s] # None => s \notin old
==============================================================================
