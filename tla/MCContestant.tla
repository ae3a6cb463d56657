---------------------------- MODULE MCContestant ----------------------------
(***************************************************************************)
(* What the contestant service keeps in Redis and the database, for TLC:   *)
(* the deployment scripts (DeployRedis, and DeployRedisTimed with its own  *)
(* clocks), flags (Submission) and hints (HintUnlock).  They share no key  *)
(* and no row, so one of them runs in a behaviour, chosen at the start,    *)
(* and the others stay as they begin.  Three challenges under a cap of two *)
(* and two entries make rejected, revived and stale deployments occur; a   *)
(* tick of DeployRedisTimed is 15 minutes; two hints of two points are     *)
(* prerequisites of a third, cheaper one.  The requests of a service are   *)
(* interchangeable.                                                        *)
(***************************************************************************)
EXTENDS DeployRedis, DeployRedisTimed, Submission, HintUnlock, TLC

CONSTANTS h1, h2, h3

CostDef == (h1 :> 2) @@ (h2 :> 2) @@ (h3 :> 1)
PrereqsDef == (h1 :> {}) @@ (h2 :> {}) @@ (h3 :> {h1, h2})

\* Time limits of 30 minutes (the default, K8sService.cs:272) and of an hour.
ShortUpdateTtl == {1, 2}
LongUpdateTtl == {1, 4}

Symmetry == {p @@ q : p \in Permutations(Req), q \in Permutations(Buyer)}

VARIABLE service

serviceVars == <<service, redis, timedVars, vars, lockVars>>

\* The four services keep their state typed, the counter of attempts and the lock
\* owners included (the DTOs and keys of RedisHelper.cs and RedisLockHelper.cs).
ServicesTypeOK == RedisTypeOK /\ TimedTypeOK /\ SubTypeOK /\ HintTypeOK

ContestantInit ==
    /\ RedisInit /\ TimedInit /\ Init /\ LockInit
    /\ service \in {"redis", "timed", "flags", "hints"}
    /\ service # "hints" => score = 0
    /\ service # "flags" => /\ dynamic = (CHOOSE d \in Dynamic : TRUE)
                            /\ fails = 0 /\ instance = "none"
ContestantNext ==
    /\ \/ service = "redis" /\ RedisNext /\ UNCHANGED <<timedVars, vars, lockVars>>
       \/ service = "timed" /\ TimedNext /\ UNCHANGED <<redis, vars, lockVars>>
       \/ service = "flags" /\ Next /\ UNCHANGED <<redis, timedVars, lockVars>>
       \/ service = "hints" /\ LockNext /\ UNCHANGED <<redis, timedVars, vars>>
    /\ UNCHANGED service
ContestantSpec == ContestantInit /\ [][ContestantNext]_serviceVars
=============================================================================
