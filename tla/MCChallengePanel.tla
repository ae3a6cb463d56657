-------------------------- MODULE MCChallengePanel --------------------------
(***************************************************************************)
(* ChallengePanel alone for TLC, under fairness: one mount of the panel    *)
(* that comes back.  MCWeb has the run for its invariants.                 *)
(***************************************************************************)
EXTENDS ChallengePanel
=============================================================================
