----------------------------- MODULE DeployKeys -----------------------------
(***************************************************************************)
(* What the deployment scripts of one team are about, with their clocks or *)
(* without: the challenges, the cap, and the JSON documents kept in Redis. *)
(***************************************************************************)
EXTENDS Integers, FiniteSets

CONSTANTS Challenge,  \* contest-challenge ids of one contest
          MaxLimit,   \* limit_challenges
          Entry,      \* the JSON documents ChallengeDeploymentCacheDTO
          NoEntry     \* GET of a key that does not exist

ASSUME ChallengeAssumption == IsFiniteSet(Challenge)
ASSUME MaxLimitAssumption == MaxLimit \in Nat
ASSUME NoEntryAssumption == NoEntry \notin Entry
=============================================================================
