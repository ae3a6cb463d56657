------------------------------- MODULE MCLive -------------------------------
(***************************************************************************)
(* What must happen in the end, for TLC: the pipeline of Deployment and    *)
(* the tabs of TabMaster.  They share nothing, so one of them is chosen at *)
(* the start and the other keeps the state it begins with.                 *)
(***************************************************************************)
EXTENDS Deployment, TabMaster

VARIABLE system

liveVars == <<system, vars, masterVars>>

LiveInit == system \in {"pipeline", "tabs"} /\ Init /\ MasterInit
LiveNext ==
    /\ \/ system = "pipeline" /\ Next /\ UNCHANGED masterVars
       \/ system = "tabs" /\ MasterNext /\ UNCHANGED vars
    /\ UNCHANGED system

\* The fairness of the one that was chosen.
LiveFairness ==
    \/ system = "pipeline" /\ PipelineFairness
    \/ system = "tabs" /\ MasterFairness

LiveSpec == LiveInit /\ [][LiveNext]_liveVars /\ LiveFairness
=============================================================================
