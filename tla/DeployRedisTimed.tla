-------------------------- MODULE DeployRedisTimed --------------------------
(***************************************************************************)
(* DeployRedis with its clocks.  Three TTLs run side by side: the score of *)
(* every ZSET member, the TTL of every JSON key, and the TTL of the ZSET   *)
(* key itself, which the scripts re-set with EXPIRE on every call for any  *)
(* challenge of the team (RedisHelper.cs:301, 378).  When the last one     *)
(* ends, all the members go, whatever their scores.                        *)
(*                                                                         *)
(* One tick is a fixed stretch of time.  All clocks are kept as the number *)
(* of ticks that remain, so the state space is finite without a bound on   *)
(* the length of a behaviour.                                              *)
(***************************************************************************)
EXTENDS DeployKeys

CONSTANTS
    ProvisioningTtl, \* 300 s, ChallengeController.cs:630
    ZsetCreateTtl,   \* 1800 s, RedisHelper.cs:301
    ZsetMargin,      \* 3600 s, RedisHelper.cs:378
    UpdateTtl,       \* the realTtlSeconds callers pass: 40 s on stop,
                     \* ARGO_DEPLOY_TTL_MINUTES, the time limit
    CacheTtl         \* DEPLOYMENT_QUEUE_TIMEOUT_MINUTES

ASSUME TtlAssumption == /\ {ProvisioningTtl, ZsetCreateTtl, CacheTtl} \subseteq Nat \ {0}
                        /\ UpdateTtl \subseteq Nat \ {0}
                        /\ ZsetMargin \in Nat

VARIABLES
    until,   \* [Challenge -> ticks until the score, 0 when it is reached, or
             \* NoMember when there is no such member]
    json,    \* [Challenge -> Entry or NoEntry]
    keyLeft, \* [Challenge -> ticks until the JSON key expires, 0 if absent]
    own,     \* [Challenge -> was the key last written by SetCacheAsync?]
    zsetLeft \* ticks until the ZSET key expires, 0 if it is absent

timedVars == <<until, json, keyLeft, own, zsetLeft>>

NoMember == -1

Members(sc) == {c \in Challenge : sc[c] # NoMember}

\* A key exists as long as its clock runs.
TimedTypeOK == /\ until \in [Challenge -> Nat \cup {NoMember}]
               /\ json \in [Challenge -> Entry \cup {NoEntry}]
               /\ keyLeft \in [Challenge -> Nat]
               /\ own \in [Challenge -> BOOLEAN]
               /\ zsetLeft \in Nat
               /\ \A c \in Challenge : keyLeft[c] = 0 <=> json[c] = NoEntry

TimedInit == /\ until = [c \in Challenge |-> NoMember]
             /\ json = [c \in Challenge |-> NoEntry]
             /\ keyLeft = [c \in Challenge |-> 0]
             /\ own = [c \in Challenge |-> FALSE]
             /\ zsetLeft = 0

-----------------------------------------------------------------------------
\* Redis deletes a sorted set, and with it its TTL, when it becomes empty.
ZsetTtl(sc, left) == IF Members(sc) = {} THEN 0 ELSE left

Setex(c, e, left, byHelper) ==
    /\ json' = [json EXCEPT ![c] = e]
    /\ keyLeft' = [keyLeft EXCEPT ![c] = left]
    /\ own' = [own EXCEPT ![c] = byHelper]

Del(c) == Setex(c, NoEntry, 0, FALSE)

SweptScores == [c \in Challenge |-> IF until[c] = 0 THEN NoMember ELSE until[c]]

\* AtomicCheckAndCreateDeploymentZSet, rejected: only the sweep.
TimedCreateRejected(c) ==
    /\ SweptScores[c] # NoMember \/ Cardinality(Members(SweptScores)) >= MaxLimit
    /\ until' = SweptScores
    /\ zsetLeft' = ZsetTtl(SweptScores, zsetLeft)
    /\ UNCHANGED <<json, keyLeft, own>>

TimedCreatePass(c, e) ==
    /\ SweptScores[c] = NoMember
    /\ Cardinality(Members(SweptScores)) < MaxLimit
    /\ until' = [SweptScores EXCEPT ![c] = ProvisioningTtl]
    /\ Setex(c, e, ProvisioningTtl, FALSE)
    /\ zsetLeft' = ZsetCreateTtl

\* Mutant: the ZSET key gets the TTL of this member, without the margin.
BugUpdateNoMargin(c, e, left) ==
    IF until[c] = NoMember
    THEN UNCHANGED timedVars
    ELSE /\ until' = [until EXCEPT ![c] = left]
         /\ Setex(c, e, left, FALSE)
         /\ zsetLeft' = left

\* AtomicUpdateExpiration with a value and a TTL.
TimedUpdateExpiration(c, e, left) ==
    IF until[c] = NoMember
    THEN UNCHANGED timedVars
    ELSE /\ until' = [until EXCEPT ![c] = left]
         /\ Setex(c, e, left, FALSE)
         /\ zsetLeft' = left + ZsetMargin

\* AtomicRemoveDeploymentZSet.
TimedRemoveDeployment(c) ==
    /\ until' = [until EXCEPT ![c] = NoMember]
    /\ Del(c)
    /\ zsetLeft' = ZsetTtl([until EXCEPT ![c] = NoMember], zsetLeft)

TimedSetCache(c, e) == Setex(c, e, CacheTtl, TRUE) /\ UNCHANGED <<until, zsetLeft>>

TimedRemoveCache(c) == Del(c) /\ UNCHANGED <<until, zsetLeft>>

Countdown(n) == IF n > 0 THEN n - 1 ELSE n

\* One tick: every clock advances, keys at their end disappear.
TimedTick ==
    LET dying == {c \in Challenge : keyLeft[c] = 1}
        after == [c \in Challenge |-> Countdown(until[c])]
    IN  /\ until' = IF zsetLeft = 1 THEN [c \in Challenge |-> NoMember] ELSE after
        /\ zsetLeft' = Countdown(zsetLeft)
        /\ keyLeft' = [c \in Challenge |-> Countdown(keyLeft[c])]
        /\ json' = [c \in Challenge |-> IF c \in dying THEN NoEntry ELSE json[c]]
        /\ own' = [c \in Challenge |-> own[c] /\ c \notin dying]

TimedNext ==
    \/ \E c \in Challenge :
          \/ TimedCreateRejected(c)
          \/ \E e \in Entry : TimedCreatePass(c, e)
          \/ \E e \in Entry, left \in UpdateTtl : TimedUpdateExpiration(c, e, left)
          \/ TimedRemoveDeployment(c)
          \/ \E e \in Entry : TimedSetCache(c, e)
          \/ TimedRemoveCache(c)
    \/ TimedTick

TimedSpec == TimedInit /\ [][TimedNext]_timedVars

-----------------------------------------------------------------------------
\* DeployRedis, read off the clocks.
Redis == INSTANCE DeployRedis WITH
    cache <- json,
    slot <- [c \in Challenge |-> IF until[c] = NoMember THEN "none"
                                 ELSE IF until[c] = 0 THEN "due" ELSE "live"],
    ttl <- [c \in Challenge |-> IF keyLeft[c] = 0 THEN "none"
                                ELSE IF own[c] THEN "own" ELSE "slot"]

\* The timed scripts implement DeployRedis (RedisSpec of Redis, looked at where a
\* clock changes).  This needs the ZSET key to outlive its members, hence time limits
\* of at most ZsetCreateTtl: an EXPIRE issued for one challenge must not end the slot
\* of another (RedisHelper.cs:287-301, 378).
ImplementsDeployRedis ==
    /\ Redis!RedisInit
    /\ [][timedVars' # timedVars => Redis!RedisNext]_(Redis!redis)

\* The deployments of a team that Redis presents as current (entries written
\* by a script and not yet expired) are never more than the team's cap: no
\* order of starts, updates, stops and expiries lets one more in
\* (RedisHelper.cs:287-301, 378).
CurrentWithinLimit ==
    Cardinality({c \in Challenge : keyLeft[c] > 0 /\ ~own[c]}) <= MaxLimit
=============================================================================
