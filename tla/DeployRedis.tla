---------------------------- MODULE DeployRedis ----------------------------
(***************************************************************************)
(* The part of Redis that the deployment pipeline of one team shares: for  *)
(* every challenge the member of the ZSET active_deploys_team_<team> (the  *)
(* slot) and the JSON value under deploy_challenge_<cc>_<team> (the        *)
(* entry), with the three Lua scripts and the two plain cache commands of  *)
(* ResourceShared/Utils/RedisHelper.cs.  Keys carry the contest and the    *)
(* team, so two teams never touch the same key and one team is the         *)
(* general case.                                                           *)
(*                                                                         *)
(* Clocks are abstracted to what the scripts can tell: the score of a      *)
(* member is in the future ("live") or not ("due"; it stays in the ZSET    *)
(* until the next reservation sweeps it).  DeployRedisTimed.tla has the    *)
(* clocks and says when they implement this module.                        *)
(***************************************************************************)
EXTENDS DeployKeys

VARIABLES
    slot,   \* [Challenge -> none | live | due], the ZSET
    cache,  \* [Challenge -> Entry or NoEntry], the JSON values
    ttl     \* [Challenge -> none | slot | own]: the key has no TTL running
            \* (absent), one that ends with the slot's score (written by a
            \* script), or one of its own (written by SetCacheAsync)

redis == <<slot, cache, ttl>>

Live == {c \in Challenge : slot[c] = "live"}
Held == {c \in Challenge : slot[c] # "none"}

RedisTypeOK == /\ slot \in [Challenge -> {"none", "live", "due"}]
               /\ cache \in [Challenge -> Entry \cup {NoEntry}]
               /\ ttl \in [Challenge -> {"none", "slot", "own"}]

RedisInit == /\ slot = [c \in Challenge |-> "none"]
             /\ cache = [c \in Challenge |-> NoEntry]
             /\ ttl = [c \in Challenge |-> "none"]

-----------------------------------------------------------------------------
(***************************************************************************)
(* The scripts.                                                            *)
(***************************************************************************)

\* ZREMRANGEBYSCORE zset -inf now.
Swept == [c \in Challenge |-> IF slot[c] = "due" THEN "none" ELSE slot[c]]

\* The three results of AtomicCheckAndCreateDeploymentZSet.  The sweep
\* happens before the checks, so a rejected call sweeps too.
CreateAlreadyExists(c) == /\ slot[c] = "live"
                          /\ slot' = Swept
                          /\ UNCHANGED <<cache, ttl>>

CreateLimitExceeded(c) == /\ slot[c] # "live"
                          /\ Cardinality(Live) >= MaxLimit
                          /\ slot' = Swept
                          /\ UNCHANGED <<cache, ttl>>

\* Mutant: the cap is off by one.
BugCreateAtLimit(c, e) == /\ slot[c] # "live"
                          /\ Cardinality(Live) <= MaxLimit
                          /\ slot' = [Swept EXCEPT ![c] = "live"]
                          /\ cache' = [cache EXCEPT ![c] = e]
                          /\ ttl' = [ttl EXCEPT ![c] = "slot"]

\* Mutant: the score and the TTL are passed in the wrong order.
BugCreateSwapped(c, e) == /\ slot[c] # "live"
                          /\ Cardinality(Live) < MaxLimit
                          /\ slot' = [Swept EXCEPT ![c] = "slot"]
                          /\ cache' = [cache EXCEPT ![c] = e]
                          /\ ttl' = [ttl EXCEPT ![c] = "live"]

CreatePass(c, e) == /\ slot[c] # "live"
                    /\ Cardinality(Live) < MaxLimit
                    /\ slot' = [Swept EXCEPT ![c] = "live"]
                    /\ cache' = [cache EXCEPT ![c] = e]
                    /\ ttl' = [ttl EXCEPT ![c] = "slot"]

\* Mutant: without the ZSCORE check.
BugUpdateUnchecked(c, e) == /\ slot' = [slot EXCEPT ![c] = "live"]
                            /\ cache' = [cache EXCEPT ![c] = e]
                            /\ ttl' = [ttl EXCEPT ![c] = "slot"]

\* AtomicUpdateExpiration with a value.  ZSCORE does not look at the score:
\* a member that is due but not yet swept is extended, an absent one is not.
UpdateExpiration(c, e) ==
    IF slot[c] = "none"
    THEN UNCHANGED redis
    ELSE /\ slot' = [slot EXCEPT ![c] = "live"]
         /\ cache' = [cache EXCEPT ![c] = e]
         /\ ttl' = [ttl EXCEPT ![c] = "slot"]

\* Mutant: ZREM without DEL.
BugRemoveOnlySlot(c) == /\ slot' = [slot EXCEPT ![c] = "none"]
                        /\ UNCHANGED <<cache, ttl>>

\* AtomicRemoveDeploymentZSet: DEL and ZREM.
RemoveDeployment(c) == /\ slot' = [slot EXCEPT ![c] = "none"]
                       /\ cache' = [cache EXCEPT ![c] = NoEntry]
                       /\ ttl' = [ttl EXCEPT ![c] = "none"]

-----------------------------------------------------------------------------
(***************************************************************************)
(* The plain cache commands of the Deployment Center, and the passing of   *)
(* time.                                                                   *)
(***************************************************************************)

SetCache(c, e) == /\ cache' = [cache EXCEPT ![c] = e]
                  /\ ttl' = [ttl EXCEPT ![c] = "own"]
                  /\ UNCHANGED slot

RemoveCache(c) == /\ cache' = [cache EXCEPT ![c] = NoEntry]
                  /\ ttl' = [ttl EXCEPT ![c] = "none"]
                  /\ UNCHANGED slot

\* Time passes: the scores of S are reached, and a key written with such a
\* score goes at the same moment; the keys of K, written by SetCacheAsync, run
\* out on their own; the members of Z go with the ZSET's own EXPIRE, once due.
TimePasses(S, K, Z) ==
    LET Gone(c) == (c \in S /\ ttl[c] = "slot") \/ (c \in K /\ ttl[c] = "own")
    IN  /\ S \subseteq Live
        /\ Z \subseteq (Held \ Live) \cup S
        /\ slot' = [c \in Challenge |-> IF c \in Z THEN "none"
                                        ELSE IF c \in S THEN "due" ELSE slot[c]]
        /\ cache' = [c \in Challenge |-> IF Gone(c) THEN NoEntry ELSE cache[c]]
        /\ ttl' = [c \in Challenge |-> IF Gone(c) THEN "none" ELSE ttl[c]]

RedisCommand ==
    \E c \in Challenge :
        \/ CreateAlreadyExists(c)
        \/ CreateLimitExceeded(c)
        \/ \E e \in Entry : CreatePass(c, e)
        \/ \E e \in Entry : UpdateExpiration(c, e)
        \/ RemoveDeployment(c)
        \/ \E e \in Entry : SetCache(c, e)
        \/ RemoveCache(c)

RedisElapse == \E S, K, Z \in SUBSET Challenge : TimePasses(S, K, Z)

RedisNext == RedisCommand \/ RedisElapse

RedisSpec == RedisInit /\ [][RedisNext]_redis

-----------------------------------------------------------------------------
(***************************************************************************)
(* What the scripts guarantee to every caller.                             *)
(***************************************************************************)

\* The ZSET of a team never has more members than limit_challenges, whatever
\* the order of requests, updates, removals and expiries.  Members past their
\* score count too: an update revives one that no reservation has swept yet,
\* and no reservation lets a second one in without sweeping it
\* (RedisHelper.cs:278-298 against 363-368).
HeldWithinLimit == Cardinality(Held) <= MaxLimit

\* An entry written by a script never outlives its reservation: no caller of
\* AtomicUpdateExpiration brings back the entry of a slot that was swept or
\* removed ("zombie", RedisHelper.cs:361-365), nothing frees a slot and leaves
\* such an entry behind, and no path leaves an entry that never expires.
NoZombieEntry ==
    \A c \in Challenge : /\ ttl[c] = "slot" => slot[c] = "live"
                         /\ cache[c] = NoEntry <=> ttl[c] = "none"

\* The quota as its callers see it: SlotPool, read off the ZSET.  Only a
\* reservation takes a slot; an update, a stale cache write or an expiry never
\* turns a free slot into a held one.
Pool == INSTANCE SlotPool WITH held <- Held
PoolSafety == Pool!PoolSpec
=============================================================================
