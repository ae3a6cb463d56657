------------------------------ MODULE SlotPool ------------------------------
(***************************************************************************)
(* What the per-team deployment quota promises, free of Redis: a pool of   *)
(* at most MaxLimit slots, one per deployed challenge.  A challenge gets   *)
(* a slot only when it has none and the pool is not full; a slot is given  *)
(* back, or taken back after its time, whatever the rest of the system     *)
(* does.  Two slots are never granted in one step.                         *)
(***************************************************************************)
EXTENDS Naturals, FiniteSets

CONSTANTS Challenge,   \* the deployable challenges of one contest
          MaxLimit     \* limit_challenges, the concurrent cap of the team

VARIABLE held          \* the challenges whose slot is not free

PoolTypeOK == held \subseteq Challenge

PoolInit == held = {}

\* The slots in S, whose time is over, are taken back; then c, which has none
\* left, gets one if there is room.
Grant(c, S) == /\ c \notin held \ S
               /\ Cardinality(held \ S) < MaxLimit
               /\ held' = (held \ S) \cup {c}

\* Slots are given back, or swept after their time.
Reclaim(S) == held' = held \ S

PoolNext == \E S \in SUBSET held :
                \/ \E c \in Challenge : Grant(c, S)
                \/ Reclaim(S)

PoolSpec == PoolInit /\ [][PoolNext]_held
=============================================================================
