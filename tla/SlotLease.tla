------------------------------ MODULE SlotLease ------------------------------
(***************************************************************************)
(* What the worktree pool promises: a slot is on loan to at most one       *)
(* worker, a loan starts only on a slot nobody has, and it ends before the *)
(* slot is lent again.  WtPool is the detailed specification.              *)
(***************************************************************************)
CONSTANTS Slots, Workers, None

VARIABLE owner        \* owner[s]: the worker slot s is on loan to, or None

LeaseInit == owner = [s \in Slots |-> None]

Grant(s, w) == /\ owner[s] = None
               /\ owner' = [owner EXCEPT ![s] = w]

GiveBack(s) == /\ owner[s] # None
               /\ owner' = [owner EXCEPT ![s] = None]

LeaseNext == \E s \in Slots : GiveBack(s) \/ \E w \in Workers : Grant(s, w)

LeaseSpec == LeaseInit /\ [][LeaseNext]_owner
==============================================================================
