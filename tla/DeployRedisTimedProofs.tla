----------------------- MODULE DeployRedisTimedProofs -----------------------
(***************************************************************************)
(* Proofs about the deployment scripts with their clocks, for every number *)
(* of challenges, every cap and every set of entries: as long as no key    *)
(* gets a TTL longer than the one a reservation gives the ZSET, the clocks *)
(* can be forgotten.                                                       *)
(***************************************************************************)
EXTENDS DeployRedisTimed, FiniteSetTheorems, TLAPS

\* A reservation gives the ZSET a TTL that no member outlives, and the margin
\* of an update is at least that: 300 s, the time limits up to 1800 s, 3600 s.
TtlsFit ==
    /\ ProvisioningTtl <= ZsetCreateTtl /\ ZsetCreateTtl <= ZsetMargin
    /\ \A left \in UpdateTtl : left <= ZsetCreateTtl

\* A key that a script wrote ends with the score of its member; no member
\* outlives the ZSET, nor a reservation made now.
ScriptKeysEnd == \A c \in Challenge : keyLeft[c] > 0 /\ ~own[c] => until[c] = keyLeft[c]
ZsetOutlives == \A c \in Challenge : until[c] # NoMember => /\ until[c] <= zsetLeft /\ zsetLeft > 0
                                                          /\ until[c] <= ZsetCreateTtl

\* The inductive invariant.
TimedInv == TimedTypeOK /\ ScriptKeysEnd /\ ZsetOutlives

LEMMA SweptTyped ==
    ASSUME TimedTypeOK
    PROVE  /\ SweptScores \in [Challenge -> Nat \cup {NoMember}]
           /\ \A c \in Challenge : SweptScores[c] = IF until[c] = 0 THEN NoMember ELSE until[c]
BY DEF TimedTypeOK, SweptScores, NoMember

LEMMA ZsetTtlOf ==
    ASSUME NEW sc, NEW left \in Nat
    PROVE  /\ ZsetTtl(sc, left) \in Nat
           /\ \A c \in Challenge : sc[c] # NoMember => ZsetTtl(sc, left) = left
BY DEF ZsetTtl, Members

LEMMA CountdownOf ==
    /\ \A n \in Nat : Countdown(n) \in Nat /\ Countdown(n) = IF n > 0 THEN n - 1 ELSE 0
    /\ Countdown(NoMember) = NoMember
BY DEF Countdown, NoMember

LEMMA TickTyped == ASSUME TimedTypeOK, TimedTick PROVE TimedTypeOK'
<1>1. /\ until \in [Challenge -> Nat \cup {NoMember}] /\ keyLeft \in [Challenge -> Nat]
      /\ zsetLeft \in Nat /\ own \in [Challenge -> BOOLEAN]
  BY DEF TimedTypeOK
<1>2. \A c \in Challenge : keyLeft'[c] = Countdown(keyLeft[c])
  BY DEF TimedTick
<1>3. \A c \in Challenge : json'[c] = IF keyLeft[c] = 1 THEN NoEntry ELSE json[c]
  BY DEF TimedTick
<1>4. /\ until' \in [Challenge -> Nat \cup {NoMember}] /\ keyLeft' \in [Challenge -> Nat]
      /\ zsetLeft' \in Nat
  BY <1>1, CountdownOf DEF TimedTick
<1>5. own' \in [Challenge -> BOOLEAN] /\ json' \in [Challenge -> Entry \cup {NoEntry}]
  BY <1>1 DEF TimedTick, TimedTypeOK
<1>6. \A c \in Challenge : keyLeft'[c] = 0 <=> json'[c] = NoEntry
  BY <1>1, <1>2, <1>3, CountdownOf DEF TimedTypeOK
<1> QED
  BY <1>4, <1>5, <1>6 DEF TimedTypeOK

\* The calls of the scripts and of the cache for one challenge.
Command(c) ==
    \/ TimedCreateRejected(c) \/ \E e \in Entry : TimedCreatePass(c, e)
    \/ \E e \in Entry, left \in UpdateTtl : TimedUpdateExpiration(c, e, left)
    \/ TimedRemoveDeployment(c) \/ (\E e \in Entry : TimedSetCache(c, e))
    \/ TimedRemoveCache(c)

LEMMA CommandTyped ==
    ASSUME TimedTypeOK, NEW c \in Challenge, Command(c)
    PROVE  TimedTypeOK'
<1>1. CASE TimedCreateRejected(c)
  BY <1>1, SweptTyped, ZsetTtlOf DEF TimedCreateRejected, TimedTypeOK
<1>2. ASSUME NEW e \in Entry, TimedCreatePass(c, e) PROVE TimedTypeOK'
  BY <1>2, NoEntryAssumption, TtlAssumption, SweptTyped DEF TimedCreatePass, Setex, TimedTypeOK
<1>3. ASSUME NEW e \in Entry, NEW left \in UpdateTtl, TimedUpdateExpiration(c, e, left)
      PROVE  TimedTypeOK'
  <2>1. CASE until[c] = NoMember
    BY <1>3, <2>1 DEF TimedUpdateExpiration, timedVars, TimedTypeOK
  <2>2. CASE until[c] # NoMember
    <3>1. left \in Nat \ {0} /\ left + ZsetMargin \in Nat
      BY TtlAssumption
    <3> QED
      BY <1>3, <2>2, <3>1, NoEntryAssumption DEF TimedUpdateExpiration, Setex, TimedTypeOK
  <2> QED
    BY <2>1, <2>2
<1>4. CASE TimedRemoveDeployment(c)
  BY <1>4, ZsetTtlOf DEF TimedRemoveDeployment, Del, Setex, TimedTypeOK
<1>5. ASSUME NEW e \in Entry, TimedSetCache(c, e) PROVE TimedTypeOK'
  BY <1>5, NoEntryAssumption, TtlAssumption DEF TimedSetCache, Setex, TimedTypeOK
<1>6. CASE TimedRemoveCache(c)
  BY <1>6 DEF TimedRemoveCache, Del, Setex, TimedTypeOK
<1> QED
  BY <1>1, <1>2, <1>3, <1>4, <1>5, <1>6 DEF Command

\* The clocks stay typed, whatever the TTLs.
LEMMA TimedTypeInductive ==
    ASSUME TimedTypeOK, [TimedNext]_timedVars
    PROVE  TimedTypeOK'
<1>1. CASE UNCHANGED timedVars
  BY <1>1 DEF timedVars, TimedTypeOK
<1> QED
  BY <1>1, TickTyped, CommandTyped DEF TimedNext, Command

LEMMA TickInv == ASSUME TimedInv, TtlsFit, TimedTick PROVE TimedInv'
<1>1. /\ until \in [Challenge -> Nat \cup {NoMember}] /\ keyLeft \in [Challenge -> Nat]
      /\ zsetLeft \in Nat /\ own \in [Challenge -> BOOLEAN]
  BY DEF TimedInv, TimedTypeOK
<1>2. \A c \in Challenge : keyLeft'[c] = Countdown(keyLeft[c])
  BY DEF TimedTick
<1>3. \A c \in Challenge : until'[c] = IF zsetLeft = 1 THEN NoMember ELSE Countdown(until[c])
  BY DEF TimedTick
<1>4. \A c \in Challenge : /\ own'[c] = (own[c] /\ keyLeft[c] # 1)
                           /\ json'[c] = IF keyLeft[c] = 1 THEN NoEntry ELSE json[c]
  BY DEF TimedTick
<1>5. zsetLeft' = Countdown(zsetLeft)
  BY DEF TimedTick
<1>6. TimedTypeOK'
  BY TickTyped DEF TimedInv
<1>7. ScriptKeysEnd'
  <2> SUFFICES ASSUME NEW c \in Challenge, keyLeft'[c] > 0, ~own'[c] PROVE until'[c] = keyLeft'[c]
    BY DEF ScriptKeysEnd
  <2>1. keyLeft[c] > 1 /\ keyLeft'[c] = keyLeft[c] - 1 /\ ~own[c]
    BY <1>1, <1>2, <1>4, CountdownOf
  <2>2. until[c] = keyLeft[c] /\ until[c] <= zsetLeft
    BY <1>1, <2>1 DEF TimedInv, ScriptKeysEnd, ZsetOutlives, NoMember
  <2> QED
    BY <1>1, <1>3, <2>1, <2>2, CountdownOf
<1>8. ZsetOutlives'
  <2> SUFFICES ASSUME NEW c \in Challenge, until'[c] # NoMember
               PROVE  until'[c] <= zsetLeft' /\ zsetLeft' > 0 /\ until'[c] <= ZsetCreateTtl
    BY DEF ZsetOutlives
  <2>1. zsetLeft # 1 /\ until[c] # NoMember /\ until'[c] = Countdown(until[c])
    BY <1>3, CountdownOf, <1>1
  <2>2. until[c] \in Nat /\ until[c] <= zsetLeft /\ zsetLeft > 1 /\ until[c] <= ZsetCreateTtl
    BY <1>1, <2>1 DEF TimedInv, ZsetOutlives
  <2> QED
    BY <1>1, <1>5, <2>1, <2>2, CountdownOf, TtlAssumption DEF TtlsFit
<1> QED
  BY <1>6, <1>7, <1>8 DEF TimedInv

LEMMA CommandInv ==
    ASSUME TimedInv, TtlsFit, NEW c \in Challenge, Command(c)
    PROVE  TimedInv'
<1>1. TimedTypeOK /\ ScriptKeysEnd /\ ZsetOutlives /\ TimedTypeOK'
  BY CommandTyped DEF TimedInv
<1>2. CASE TimedCreateRejected(c)
  <2>1. ScriptKeysEnd'
    BY <1>1, <1>2, SweptTyped DEF TimedCreateRejected, ScriptKeysEnd, TimedTypeOK
  <2>2. ZsetOutlives'
    BY <1>1, <1>2, SweptTyped, ZsetTtlOf DEF TimedCreateRejected, ZsetOutlives, TimedTypeOK
  <2> QED
    BY <1>1, <2>1, <2>2 DEF TimedInv
<1>3. ASSUME NEW e \in Entry, TimedCreatePass(c, e) PROVE TimedInv'
  <2>1. ScriptKeysEnd'
    BY <1>1, <1>3, SweptTyped, TtlAssumption
       DEF TimedCreatePass, Setex, ScriptKeysEnd, TimedTypeOK
  <2>2. ZsetOutlives'
    BY <1>1, <1>3, SweptTyped, TtlAssumption
       DEF TimedCreatePass, ZsetOutlives, TimedTypeOK, TtlsFit
  <2> QED
    BY <1>1, <2>1, <2>2 DEF TimedInv
<1>4. ASSUME NEW e \in Entry, NEW left \in UpdateTtl, TimedUpdateExpiration(c, e, left)
      PROVE  TimedInv'
  <2>1. CASE until[c] = NoMember
    BY <1>1, <1>4, <2>1
       DEF TimedUpdateExpiration, timedVars, TimedInv, ScriptKeysEnd, ZsetOutlives
  <2>2. CASE until[c] # NoMember
    <3>1. ScriptKeysEnd'
      BY <1>1, <1>4, <2>2, TtlAssumption
         DEF TimedUpdateExpiration, Setex, ScriptKeysEnd, TimedTypeOK
    <3>2. ZsetOutlives'
      BY <1>1, <1>4, <2>2, TtlAssumption
         DEF TimedUpdateExpiration, ZsetOutlives, TimedTypeOK, TtlsFit
    <3> QED
      BY <1>1, <3>1, <3>2 DEF TimedInv
  <2> QED
    BY <2>1, <2>2
<1>5. CASE TimedRemoveDeployment(c)
  <2>1. ScriptKeysEnd'
    BY <1>1, <1>5 DEF TimedRemoveDeployment, Del, Setex, ScriptKeysEnd, TimedTypeOK
  <2>2. ZsetOutlives'
    BY <1>1, <1>5, ZsetTtlOf DEF TimedRemoveDeployment, ZsetOutlives, TimedTypeOK
  <2> QED
    BY <1>1, <2>1, <2>2 DEF TimedInv
<1>6. ASSUME NEW e \in Entry, TimedSetCache(c, e) PROVE TimedInv'
  BY <1>1, <1>6 DEF TimedSetCache, Setex, TimedInv, TimedTypeOK, ScriptKeysEnd, ZsetOutlives
<1>7. CASE TimedRemoveCache(c)
  BY <1>1, <1>7 DEF TimedRemoveCache, Del, Setex, TimedInv, TimedTypeOK, ScriptKeysEnd, ZsetOutlives
<1> QED
  BY <1>2, <1>3, <1>4, <1>5, <1>6, <1>7 DEF Command

LEMMA TimedInvariant ==
    ASSUME TtlsFit
    PROVE  TimedSpec => []TimedInv
<1>1. TimedInit => TimedInv
  BY DEF TimedInit, TimedInv, TimedTypeOK, ScriptKeysEnd, ZsetOutlives, NoMember
<1>2. TimedInv /\ [TimedNext]_timedVars => TimedInv'
  <2>1. ASSUME TimedInv, UNCHANGED timedVars PROVE TimedInv'
    BY <2>1 DEF timedVars, TimedInv, TimedTypeOK, ScriptKeysEnd, ZsetOutlives
  <2> QED
    BY <2>1, TickInv, CommandInv DEF TimedNext, Command
<1> QED
  BY <1>1, <1>2, PTL DEF TimedSpec

-----------------------------------------------------------------------------
\* The slots and the TTLs read off the clocks, as in the INSTANCE of DeployRedis.
SlotOf == [c \in Challenge |-> IF until[c] = NoMember THEN "none"
                               ELSE IF until[c] = 0 THEN "due" ELSE "live"]
TtlOf == [c \in Challenge |-> IF keyLeft[c] = 0 THEN "none"
                              ELSE IF own[c] THEN "own" ELSE "slot"]

LEMMA SweptSlots ==
    ASSUME TimedTypeOK
    PROVE  /\ Redis!Swept = [c \in Challenge |-> IF SweptScores[c] = NoMember THEN "none" ELSE "live"]
           /\ Redis!Live = Members(SweptScores)
           /\ \A c \in Challenge : SlotOf[c] = "live" <=> SweptScores[c] # NoMember
<1>1. \A c \in Challenge : SweptScores[c] = NoMember <=> until[c] = 0 \/ until[c] = NoMember
  BY SweptTyped
<1> QED
  BY <1>1 DEF Redis!Swept, Redis!Live, Members, SlotOf

LEMMA TickIsElapse ==
    ASSUME TimedInv, TtlsFit, TimedTick
    PROVE  Redis!RedisElapse
<1>1. /\ until \in [Challenge -> Nat \cup {NoMember}] /\ keyLeft \in [Challenge -> Nat]
      /\ zsetLeft \in Nat /\ own \in [Challenge -> BOOLEAN]
  BY DEF TimedInv, TimedTypeOK
<1>2. PICK S, K, Z \in SUBSET Challenge :
           /\ S = {c \in Challenge : until[c] = 1}
           /\ K = {c \in Challenge : keyLeft[c] = 1 /\ own[c]}
           /\ Z = IF zsetLeft = 1 THEN Members(until) ELSE {}
  BY DEF Members
<1>3. S \subseteq Redis!Live
  BY <1>2 DEF Redis!Live, NoMember
<1>4. Z \subseteq (Redis!Held \ Redis!Live) \cup S
  <2> SUFFICES ASSUME NEW c \in Z, until[c] # 0 PROVE c \in S
    BY <1>2 DEF Redis!Held, Redis!Live, Members
  <2>1. c \in Challenge /\ until[c] # NoMember /\ zsetLeft = 1
    BY <1>2 DEF Members
  <2> QED
    BY <1>1, <1>2, <2>1 DEF TimedInv, ZsetOutlives
<1>5. \A c \in Challenge : until'[c] = IF c \in Z \/ until[c] = NoMember THEN NoMember
                                       ELSE IF c \in S \/ until[c] = 0 THEN 0 ELSE until[c] - 1
  <2> SUFFICES ASSUME NEW c \in Challenge
               PROVE until'[c] = IF c \in Z \/ until[c] = NoMember THEN NoMember
                                 ELSE IF c \in S \/ until[c] = 0 THEN 0 ELSE until[c] - 1
    OBVIOUS
  <2>1. until'[c] = IF zsetLeft = 1 THEN NoMember ELSE Countdown(until[c])
    BY DEF TimedTick
  <2> QED
    BY <1>1, <2>1, <1>2, CountdownOf DEF Members
<1>6. SlotOf' = [c \in Challenge |-> IF c \in Z THEN "none"
                                    ELSE IF c \in S THEN "due" ELSE SlotOf[c]]
  <2>1. \A c \in Challenge : until[c] \in Nat \ {0, 1} => until[c] - 1 # NoMember /\ until[c] - 1 # 0
    BY DEF NoMember
  <2> QED
    BY <1>1, <1>5, <1>2, <2>1 DEF SlotOf, NoMember
<1>7. ASSUME NEW c \in Challenge
      PROVE  keyLeft[c] = 1 <=> (c \in S /\ TtlOf[c] = "slot") \/ (c \in K /\ TtlOf[c] = "own")
  BY <1>1, <1>2 DEF TimedInv, ScriptKeysEnd, TtlOf
<1>8. json' = [c \in Challenge |-> IF keyLeft[c] = 1 THEN NoEntry ELSE json[c]]
  BY DEF TimedTick
<1>9. TtlOf' = [c \in Challenge |-> IF keyLeft[c] = 1 THEN "none" ELSE TtlOf[c]]
  <2>1. \A c \in Challenge : keyLeft'[c] = Countdown(keyLeft[c]) /\ own'[c] = (own[c] /\ keyLeft[c] # 1)
    BY DEF TimedTick
  <2>2. \A c \in Challenge : keyLeft'[c] = 0 <=> keyLeft[c] \in {0, 1}
    BY <1>1, <2>1, CountdownOf
  <2> QED
    BY <1>1, <2>1, <2>2 DEF TtlOf
<1>10. Redis!TimePasses(S, K, Z)
  BY <1>3, <1>4, <1>6, <1>7, <1>8, <1>9 DEF Redis!TimePasses, SlotOf, TtlOf
<1> QED
  BY <1>10 DEF Redis!RedisElapse

LEMMA CommandIsCommand ==
    ASSUME TimedInv, TtlsFit, NEW c \in Challenge, Command(c)
    PROVE  Redis!RedisCommand
<1>1. /\ until \in [Challenge -> Nat \cup {NoMember}] /\ keyLeft \in [Challenge -> Nat]
      /\ zsetLeft \in Nat /\ own \in [Challenge -> BOOLEAN]
      /\ json \in [Challenge -> Entry \cup {NoEntry}]
  BY DEF TimedInv, TimedTypeOK
<1>2. \A n \in Nat : n # NoMember
  BY DEF NoMember
<1>3. ASSUME NEW e, NEW left, NEW byHelper, Setex(c, e, left, byHelper)
      PROVE  TtlOf' = [TtlOf EXCEPT ![c] = IF left = 0 THEN "none"
                                           ELSE IF byHelper THEN "own" ELSE "slot"]
  BY <1>1, <1>3 DEF Setex, TtlOf
<1>4. ASSUME UNCHANGED until PROVE UNCHANGED SlotOf
  BY <1>4 DEF SlotOf
<1>5. CASE TimedCreateRejected(c)
  <2>1. SlotOf' = Redis!Swept /\ UNCHANGED <<json, TtlOf>>
    BY <1>1, <1>2, <1>5, SweptSlots, SweptTyped DEF TimedCreateRejected, SlotOf, TtlOf, TimedInv
  <2> QED
    <3>1. CASE SlotOf[c] = "live"
      BY <2>1, <3>1 DEF Redis!RedisCommand, Redis!CreateAlreadyExists, SlotOf, TtlOf
    <3>2. CASE SlotOf[c] # "live"
      <4>1. Redis!Cardinality(Redis!Live) >= MaxLimit
        BY <1>5, <3>2, SweptSlots DEF TimedCreateRejected, TimedInv, Redis!Cardinality, Cardinality
      <4> QED
        BY <2>1, <3>2, <4>1 DEF Redis!RedisCommand, Redis!CreateLimitExceeded, SlotOf, TtlOf
    <3> QED
      BY <3>1, <3>2
<1>6. ASSUME NEW e \in Entry, TimedCreatePass(c, e) PROVE Redis!CreatePass(c, e)
  <2>1. SlotOf' = [Redis!Swept EXCEPT ![c] = "live"]
    BY <1>1, <1>2, <1>6, SweptSlots, SweptTyped, TtlAssumption
       DEF TimedCreatePass, SlotOf, TimedInv
  <2>2. TtlOf' = [TtlOf EXCEPT ![c] = "slot"] /\ json' = [json EXCEPT ![c] = e]
    BY <1>3, <1>6, TtlAssumption DEF TimedCreatePass, Setex
  <2>3. SlotOf[c] # "live" /\ Redis!Cardinality(Redis!Live) < MaxLimit
    BY <1>6, SweptSlots DEF TimedCreatePass, TimedInv, Redis!Cardinality, Cardinality
  <2> QED
    BY <2>1, <2>2, <2>3 DEF Redis!CreatePass, SlotOf, TtlOf
<1>7. ASSUME NEW e \in Entry, NEW left \in UpdateTtl, TimedUpdateExpiration(c, e, left)
      PROVE  Redis!UpdateExpiration(c, e)
  <2>1. CASE until[c] = NoMember
    <3>1. SlotOf[c] = "none" /\ UNCHANGED <<SlotOf, json, TtlOf>>
      BY <1>7, <2>1 DEF TimedUpdateExpiration, timedVars, SlotOf, TtlOf
    <3> QED
      BY <3>1 DEF Redis!UpdateExpiration, Redis!redis, SlotOf, TtlOf
  <2>2. CASE until[c] # NoMember
    <3>1. left \in Nat \ {0}
      BY TtlAssumption
    <3>2. SlotOf[c] # "none" /\ SlotOf' = [SlotOf EXCEPT ![c] = "live"]
      BY <1>1, <1>2, <1>7, <2>2, <3>1 DEF TimedUpdateExpiration, SlotOf
    <3>3. TtlOf' = [TtlOf EXCEPT ![c] = "slot"] /\ json' = [json EXCEPT ![c] = e]
      BY <1>3, <1>7, <2>2, <3>1 DEF TimedUpdateExpiration, Setex
    <3> QED
      BY <3>2, <3>3 DEF Redis!UpdateExpiration, SlotOf, TtlOf
  <2> QED
    BY <2>1, <2>2
<1>8. ASSUME Del(c) PROVE TtlOf' = [TtlOf EXCEPT ![c] = "none"] /\ json' = [json EXCEPT ![c] = NoEntry]
  BY <1>3, <1>8 DEF Del, Setex
<1>9. CASE TimedRemoveDeployment(c)
  <2>1. SlotOf' = [SlotOf EXCEPT ![c] = "none"]
    BY <1>1, <1>9 DEF TimedRemoveDeployment, SlotOf
  <2> QED
    BY <1>8, <1>9, <2>1 DEF TimedRemoveDeployment, Redis!RedisCommand, Redis!RemoveDeployment, SlotOf,
       TtlOf
<1>10. ASSUME NEW e \in Entry, TimedSetCache(c, e) PROVE Redis!SetCache(c, e)
  <2>1. TtlOf' = [TtlOf EXCEPT ![c] = "own"] /\ json' = [json EXCEPT ![c] = e]
    BY <1>3, <1>10, TtlAssumption DEF TimedSetCache, Setex
  <2> QED
    BY <1>4, <1>10, <2>1 DEF TimedSetCache, Redis!SetCache, SlotOf, TtlOf
<1>11. CASE TimedRemoveCache(c)
  BY <1>4, <1>8, <1>11 DEF TimedRemoveCache, Redis!RedisCommand, Redis!RemoveCache, SlotOf, TtlOf
<1> QED
  BY <1>5, <1>6, <1>7, <1>9, <1>10, <1>11 DEF Command, Redis!RedisCommand

(* With their clocks, and as long as the TTLs fit, the scripts do what     *)
(* DeployRedis says, whatever the order of calls and the time between them *)
(* (RedisHelper.cs:278-301, 363-378): no EXPIRE that one challenge's call  *)
(* sets on the team's ZSET ends the slot of another.                       *)
THEOREM ClocksImplementRedis ==
    ASSUME TtlsFit
    PROVE  TimedSpec => ImplementsDeployRedis
<1>1. TimedInit => Redis!RedisInit
  BY DEF TimedInit, Redis!RedisInit
<1>2. TimedInv /\ [TimedNext]_timedVars => [Redis!RedisNext]_(Redis!redis)
  <2>1. ASSUME UNCHANGED timedVars PROVE UNCHANGED Redis!redis
    BY <2>1 DEF timedVars, Redis!redis
  <2> QED
    BY <2>1, TickIsElapse, CommandIsCommand DEF TimedNext, Command, Redis!RedisNext
<1> QED
  BY <1>1, <1>2, TimedInvariant, PTL DEF TimedSpec, ImplementsDeployRedis, Redis!RedisSpec

-----------------------------------------------------------------------------
\* The members of the ZSET, due ones included, fit the cap.
TimedCapInv == TimedInv /\ Cardinality(Members(until)) <= MaxLimit

LEMMA FewerMembers ==
    ASSUME Cardinality(Members(until)) <= MaxLimit,
           NEW M \in SUBSET Members(until)
    PROVE  Cardinality(M) <= MaxLimit
<1>1. IsFiniteSet(Members(until)) /\ Cardinality(Members(until)) \in Nat
  BY ChallengeAssumption, FS_Subset, FS_CardinalityType DEF Members
<1>2. Cardinality(M) <= Cardinality(Members(until)) /\ Cardinality(M) \in Nat
  BY <1>1, FS_Subset, FS_CardinalityType
<1> QED
  BY MaxLimitAssumption, <1>1, <1>2

LEMMA CommandCap ==
    ASSUME TimedCapInv, TtlsFit, NEW c \in Challenge, Command(c)
    PROVE  Cardinality(Members(until)') <= MaxLimit
<1>1. until \in [Challenge -> Nat \cup {NoMember}] /\ TimedTypeOK
  BY DEF TimedCapInv, TimedInv, TimedTypeOK
<1>2. ASSUME Members(until)' \subseteq Members(until) PROVE Cardinality(Members(until)') <= MaxLimit
  BY <1>2, FewerMembers DEF TimedCapInv
<1>3. CASE TimedCreateRejected(c)
  BY <1>1, <1>2, <1>3, SweptTyped DEF TimedCreateRejected, Members
<1>4. ASSUME NEW e \in Entry, TimedCreatePass(c, e) PROVE Cardinality(Members(until)') <= MaxLimit
  <2>1. Members(until)' = Members(SweptScores) \cup {c}
    BY <1>1, <1>4, SweptTyped, TtlAssumption DEF TimedCreatePass, Members, NoMember
  <2>2. c \notin Members(SweptScores) /\ Cardinality(Members(SweptScores)) < MaxLimit
    BY <1>4 DEF TimedCreatePass, Members
  <2>3. IsFiniteSet(Members(SweptScores))
    BY ChallengeAssumption, FS_Subset DEF Members
  <2>4. /\ Cardinality(Members(SweptScores) \cup {c}) = Cardinality(Members(SweptScores)) + 1
        /\ Cardinality(Members(SweptScores)) \in Nat
    BY <2>2, <2>3, FS_AddElement, FS_CardinalityType
  <2> QED
    BY MaxLimitAssumption, <2>1, <2>2, <2>4
<1>5. ASSUME NEW e \in Entry, NEW left \in UpdateTtl, TimedUpdateExpiration(c, e, left)
      PROVE  Cardinality(Members(until)') <= MaxLimit
  BY <1>1, <1>2, <1>5 DEF TimedUpdateExpiration, Members, timedVars
<1>6. CASE TimedRemoveDeployment(c)
  BY <1>1, <1>2, <1>6 DEF TimedRemoveDeployment, Members
<1>7. ASSUME NEW e \in Entry, TimedSetCache(c, e) PROVE Cardinality(Members(until)') <= MaxLimit
  BY <1>2, <1>7 DEF TimedSetCache, Members
<1>8. CASE TimedRemoveCache(c)
  BY <1>2, <1>8 DEF TimedRemoveCache, Members
<1> QED
  BY <1>3, <1>4, <1>5, <1>6, <1>7, <1>8 DEF Command

LEMMA TickCap ==
    ASSUME TimedCapInv, TimedTick
    PROVE  Cardinality(Members(until)') <= MaxLimit
<1>1. Members(until)' \subseteq Members(until)
  <2>1. \A c \in Challenge : until'[c] = IF zsetLeft = 1 THEN NoMember ELSE Countdown(until[c])
    BY DEF TimedTick
  <2> QED
    BY <2>1, CountdownOf DEF Members
<1> QED
  BY <1>1, FewerMembers DEF TimedCapInv

(* As long as the TTLs fit, the deployments that Redis presents as current *)
(* never exceed the cap, for every cap and every number of challenges: the *)
(* bound on the time limits is what RedisHelper.cs:301 and 378 rely on and *)
(* no caller checks.                                                       *)
THEOREM CurrentFitsTheCap ==
    ASSUME TtlsFit
    PROVE  TimedSpec => []CurrentWithinLimit
<1>1. TimedInit => TimedCapInv
  <2>1. TimedInit => TimedInv
    BY DEF TimedInit, TimedInv, TimedTypeOK, ScriptKeysEnd, ZsetOutlives, NoMember
  <2>2. ASSUME TimedInit PROVE Cardinality(Members(until)) = 0
    BY <2>2, FS_EmptySet DEF TimedInit, Members
  <2> QED
    BY MaxLimitAssumption, <2>1, <2>2 DEF TimedCapInv
<1>2. TimedCapInv /\ [TimedNext]_timedVars => TimedCapInv'
  <2>1. ASSUME TimedCapInv, UNCHANGED timedVars PROVE TimedCapInv'
    BY <2>1 DEF timedVars, TimedCapInv, TimedInv, TimedTypeOK, ScriptKeysEnd, ZsetOutlives, Members
  <2> QED
    BY <2>1, TickInv, CommandInv, TickCap, CommandCap DEF TimedNext, Command, TimedCapInv
<1>3. TimedCapInv => CurrentWithinLimit
  <2> SUFFICES ASSUME TimedCapInv PROVE CurrentWithinLimit
    OBVIOUS
  <2>1. {c \in Challenge : keyLeft[c] > 0 /\ ~own[c]} \subseteq Members(until)
    BY DEF TimedCapInv, TimedInv, TimedTypeOK, ScriptKeysEnd, Members, NoMember
  <2> QED
    BY <2>1, FewerMembers DEF TimedCapInv, CurrentWithinLimit
<1> QED
  BY <1>1, <1>2, <1>3, PTL DEF TimedSpec
=============================================================================
