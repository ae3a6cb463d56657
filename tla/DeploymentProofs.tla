-------------------------- MODULE DeploymentProofs --------------------------
(***************************************************************************)
(* Proofs about the deployment pipeline, for every number of challenges,   *)
(* requests, namespaces and workflow slots, every length of the queues and *)
(* every choice May of operations and failures, unless a theorem says      *)
(* which ones it excludes.                                                 *)
(***************************************************************************)
EXTENDS Deployment, FiniteSetTheorems, SequenceTheorems, TLAPS

-----------------------------------------------------------------------------
(***************************************************************************)
(* The quota scripts of DeployRedis, for every set of challenges, cap and  *)
(* set of entries: they keep the ZSET within the cap, leave no zombie      *)
(* entry, and implement SlotPool.                                          *)
(***************************************************************************)

\* The inductive invariant.  HeldWithinLimit is inductive because it counts
\* due members; the same bound on Live alone is not (an update revives a due
\* member).
IInv == RedisTypeOK /\ HeldWithinLimit /\ NoZombieEntry

\* The values of the three variables that the scripts keep well typed.
LEMMA HeldFinite ==
    /\ IsFiniteSet(Held) /\ IsFiniteSet(Live)
    /\ Cardinality(Held) \in Nat /\ Cardinality(Live) \in Nat
<1>1. Held \subseteq Challenge /\ Live \subseteq Challenge
  BY DEF Held, Live
<1>2. IsFiniteSet(Held) /\ IsFiniteSet(Live)
  BY <1>1, FS_Subset, ChallengeAssumption
<1> QED
  BY <1>2, FS_CardinalityType

\* A step that gives no challenge a slot keeps the count.
LEMMA ShrinkKeepsLimit ==
    ASSUME HeldWithinLimit, Held' \subseteq Held
    PROVE  HeldWithinLimit'
<1>1. IsFiniteSet(Held) /\ Cardinality(Held) \in Nat
  BY HeldFinite
<1>2. Cardinality(Held') <= Cardinality(Held) /\ Cardinality(Held') \in Nat
  BY <1>1, FS_Subset, FS_CardinalityType
<1> QED
  BY <1>1, <1>2, MaxLimitAssumption DEF HeldWithinLimit

\* What a passed reservation does to the ZSET: the members left by the sweep
\* and the new one.
LEMMA CreatePassHeld ==
    ASSUME RedisTypeOK, NEW c \in Challenge, NEW e \in Entry, CreatePass(c, e)
    PROVE  /\ Held' = Live \cup {c}
           /\ c \notin Live
           /\ Cardinality(Held') = Cardinality(Live) + 1
<1>1. slot' = [Swept EXCEPT ![c] = "live"]
  BY DEF CreatePass
<1>2. Held' = {d \in Challenge : slot'[d] # "none"}
  BY DEF Held
<1>3. \A d \in Challenge : slot'[d] # "none" <=> d = c \/ slot[d] = "live"
  BY <1>1 DEF Swept, RedisTypeOK
<1>4. Held' = Live \cup {c} /\ c \notin Live
  BY <1>2, <1>3 DEF Live, CreatePass
<1> QED
  BY <1>4, HeldFinite, FS_AddElement

\* Every other step keeps the set of members or shrinks it.
LEMMA OtherStepsShrink ==
    ASSUME RedisTypeOK, [RedisNext]_redis,
           ~ \E c \in Challenge, e \in Entry : CreatePass(c, e)
    PROVE  Held' \subseteq Held
<1> SUFFICES ASSUME NEW d \in Challenge, slot'[d] # "none"
             PROVE  slot[d] # "none"
  BY DEF Held
<1>1. CASE UNCHANGED redis
  BY <1>1 DEF redis
<1>2. ASSUME NEW c \in Challenge,
             CreateAlreadyExists(c) \/ CreateLimitExceeded(c)
      PROVE  slot[d] # "none"
  BY <1>2 DEF CreateAlreadyExists, CreateLimitExceeded, Swept
<1>3. ASSUME NEW c \in Challenge, NEW e \in Entry, UpdateExpiration(c, e)
      PROVE  slot[d] # "none"
  BY <1>3 DEF UpdateExpiration, RedisTypeOK, redis
<1>4. ASSUME NEW c \in Challenge, RemoveDeployment(c)
      PROVE  slot[d] # "none"
  BY <1>4 DEF RemoveDeployment, RedisTypeOK
<1>5. ASSUME NEW c \in Challenge, NEW e \in Entry, SetCache(c, e)
      PROVE  slot[d] # "none"
  BY <1>5 DEF SetCache
<1>6. ASSUME NEW c \in Challenge, RemoveCache(c)
      PROVE  slot[d] # "none"
  BY <1>6 DEF RemoveCache
<1>7. ASSUME NEW S \in SUBSET Challenge, NEW K \in SUBSET Challenge,
             NEW Z \in SUBSET Challenge, TimePasses(S, K, Z)
      PROVE  slot[d] # "none"
  BY <1>7 DEF TimePasses, Live
<1> QED
  BY <1>1, <1>2, <1>3, <1>4, <1>5, <1>6, <1>7
     DEF RedisNext, RedisCommand, RedisElapse

-----------------------------------------------------------------------------
LEMMA RedisTypeInductive ==
    ASSUME RedisTypeOK, [RedisNext]_redis
    PROVE  RedisTypeOK'
<1> USE DEF RedisTypeOK
<1>1. CASE UNCHANGED redis
  BY <1>1 DEF redis
<1>2. ASSUME NEW c \in Challenge,
             CreateAlreadyExists(c) \/ CreateLimitExceeded(c)
      PROVE  RedisTypeOK'
  BY <1>2 DEF CreateAlreadyExists, CreateLimitExceeded, Swept
<1>3. ASSUME NEW c \in Challenge, NEW e \in Entry, CreatePass(c, e)
      PROVE  RedisTypeOK'
  BY <1>3 DEF CreatePass, Swept
<1>4. ASSUME NEW c \in Challenge, NEW e \in Entry, UpdateExpiration(c, e)
      PROVE  RedisTypeOK'
  BY <1>4 DEF UpdateExpiration, redis
<1>5. ASSUME NEW c \in Challenge, RemoveDeployment(c)
      PROVE  RedisTypeOK'
  BY <1>5 DEF RemoveDeployment
<1>6. ASSUME NEW c \in Challenge, NEW e \in Entry, SetCache(c, e)
      PROVE  RedisTypeOK'
  BY <1>6 DEF SetCache
<1>7. ASSUME NEW c \in Challenge, RemoveCache(c)
      PROVE  RedisTypeOK'
  BY <1>7 DEF RemoveCache
<1>8. ASSUME NEW S \in SUBSET Challenge, NEW K \in SUBSET Challenge,
             NEW Z \in SUBSET Challenge, TimePasses(S, K, Z)
      PROVE  RedisTypeOK'
  BY <1>8 DEF TimePasses, Live, Held
<1> QED
  BY <1>1, <1>2, <1>3, <1>4, <1>5, <1>6, <1>7, <1>8
     DEF RedisNext, RedisCommand, RedisElapse

\* The two invariants that tie an entry to its slot, step by step.
LEMMA EntriesInductive ==
    ASSUME RedisTypeOK, NoZombieEntry, [RedisNext]_redis
    PROVE  NoZombieEntry'
<1> USE NoEntryAssumption DEF RedisTypeOK, NoZombieEntry
<1>1. CASE UNCHANGED redis
  BY <1>1 DEF redis
<1>2. ASSUME NEW c \in Challenge,
             CreateAlreadyExists(c) \/ CreateLimitExceeded(c)
      PROVE  NoZombieEntry'
  BY <1>2 DEF CreateAlreadyExists, CreateLimitExceeded, Swept
<1>3. ASSUME NEW c \in Challenge, NEW e \in Entry, CreatePass(c, e)
      PROVE  NoZombieEntry'
  BY <1>3 DEF CreatePass, Swept
<1>4. ASSUME NEW c \in Challenge, NEW e \in Entry, UpdateExpiration(c, e)
      PROVE  NoZombieEntry'
  BY <1>4 DEF UpdateExpiration, redis
<1>5. ASSUME NEW c \in Challenge, RemoveDeployment(c)
      PROVE  NoZombieEntry'
  BY <1>5 DEF RemoveDeployment
<1>6. ASSUME NEW c \in Challenge, NEW e \in Entry, SetCache(c, e)
      PROVE  NoZombieEntry'
  BY <1>6 DEF SetCache
<1>7. ASSUME NEW c \in Challenge, RemoveCache(c)
      PROVE  NoZombieEntry'
  BY <1>7 DEF RemoveCache
<1>8. ASSUME NEW S \in SUBSET Challenge, NEW K \in SUBSET Challenge,
             NEW Z \in SUBSET Challenge, TimePasses(S, K, Z)
      PROVE  NoZombieEntry'
  BY <1>8 DEF TimePasses, Live, Held
<1> QED
  BY <1>1, <1>2, <1>3, <1>4, <1>5, <1>6, <1>7, <1>8
     DEF RedisNext, RedisCommand, RedisElapse

LEMMA LimitInductive ==
    ASSUME RedisTypeOK, HeldWithinLimit, [RedisNext]_redis
    PROVE  HeldWithinLimit'
<1>1. ASSUME NEW c \in Challenge, NEW e \in Entry, CreatePass(c, e)
      PROVE  HeldWithinLimit'
  <2>1. Cardinality(Held') = Cardinality(Live) + 1
    BY <1>1, CreatePassHeld
  <2>2. Cardinality(Live) < MaxLimit
    BY <1>1 DEF CreatePass
  <2> QED
    BY <2>1, <2>2, HeldFinite, MaxLimitAssumption DEF HeldWithinLimit
<1>2. CASE ~ \E c \in Challenge, e \in Entry : CreatePass(c, e)
  BY <1>2, OtherStepsShrink, ShrinkKeepsLimit
<1> QED
  BY <1>1, <1>2

LEMMA InitIInv == RedisInit => IInv
<1> SUFFICES ASSUME RedisInit PROVE IInv
  OBVIOUS
<1>1. Held = {}
  BY DEF RedisInit, Held
<1>2. HeldWithinLimit
  BY <1>1, FS_EmptySet, MaxLimitAssumption DEF HeldWithinLimit
<1>3. RedisTypeOK /\ NoZombieEntry
  BY DEF RedisInit, RedisTypeOK, NoZombieEntry
<1> QED
  BY <1>2, <1>3 DEF IInv

\* The inductive invariant holds in every behaviour of the scripts.
THEOREM RedisInvariant == RedisSpec => []IInv
<1>1. IInv /\ [RedisNext]_redis => IInv'
  BY RedisTypeInductive, EntriesInductive, LimitInductive DEF IInv
<1> QED
  BY InitIInv, <1>1, PTL DEF RedisSpec

\* Every value the scripts and the cache commands leave in Redis is typed.
THEOREM RedisTypeCorrect == RedisSpec => []RedisTypeOK
BY RedisInvariant, PTL DEF IInv

\* The ZSET of a team never has more members than its cap
\* (RedisHelper.cs:278-298, 363-368).
THEOREM QuotaNeverExceeded == RedisSpec => []HeldWithinLimit
BY RedisInvariant, PTL DEF IInv

\* An entry written by a script always has its unexpired reservation
\* (RedisHelper.cs:361-365).
THEOREM NoZombies == RedisSpec => []NoZombieEntry
BY RedisInvariant, PTL DEF IInv

-----------------------------------------------------------------------------
\* A passed reservation is a grant of the pool that first reclaims the due
\* members.
LEMMA CreatePassGrants ==
    ASSUME RedisTypeOK, NEW c \in Challenge, NEW e \in Entry, CreatePass(c, e)
    PROVE  Pool!Grant(c, Held \ Live)
<1>1. Held \ (Held \ Live) = Live
  BY DEF Held, Live
<1>2. Held' = Live \cup {c} /\ c \notin Live
  BY CreatePassHeld
<1>3. Cardinality(Live) < MaxLimit
  BY DEF CreatePass
<1>4. Pool!Cardinality(Live) = Cardinality(Live)
  BY DEF Pool!Cardinality, Cardinality
<1> QED
  BY <1>1, <1>2, <1>3, <1>4 DEF Pool!Grant

\* The scripts implement the slot pool: the detailed specification maps to
\* the abstract one through the set of ZSET members.
THEOREM ImplementsPool == RedisSpec => PoolSafety
<1>1. RedisInit => Pool!PoolInit
  BY DEF RedisInit, Held, Pool!PoolInit
<1>2. ASSUME RedisTypeOK, [RedisNext]_redis
      PROVE  [Pool!PoolNext]_Held
  <2>1. ASSUME NEW c \in Challenge, NEW e \in Entry, CreatePass(c, e)
        PROVE  Pool!PoolNext
    BY <1>2, <2>1, CreatePassGrants DEF Pool!PoolNext
  <2>2. CASE ~ \E c \in Challenge, e \in Entry : CreatePass(c, e)
    <3>1. Held' \subseteq Held
      BY <1>2, <2>2, OtherStepsShrink
    <3>2. Pool!Reclaim(Held \ Held') /\ Held \ Held' \in SUBSET Held
      BY <3>1 DEF Pool!Reclaim
    <3> QED
      BY <3>2 DEF Pool!PoolNext
  <2> QED
    BY <2>1, <2>2
<1> QED
  BY <1>1, <1>2, RedisTypeCorrect, PTL
     DEF RedisSpec, PoolSafety, Pool!PoolSpec

-----------------------------------------------------------------------------
(***************************************************************************)
(* Types.                                                                  *)
(***************************************************************************)

PodState == {"created", "ready", "stuck", "terminating", "gone"}
Row == [cc : Challenge, label : Ns \cup {NoNs}, open : BOOLEAN]

Request == [pc : {"idle", "checked", "read", "phase", "forget", "enqueue",
                  "setcache", "failed"},
            cc : Challenge, waiting : BOOLEAN, ns : Ns \cup {NoNs}]

CenterTyped ==
    /\ req \in [Req -> Request]
    /\ stopping \in [Challenge -> [pc : {"idle", "update", "delete"},
                                   snap : CacheEntry]]
    /\ forcing \in [Challenge -> [pc : {"idle", "delete", "remove", "forget"},
                                  ns : Ns \cup {NoNs}]]
    /\ checking \in [Challenge -> CacheEntry \cup {NoEntry}]

ConsumerTyped ==
    /\ queue \in Seq(Challenge)
    /\ consumer \in [pc : {"idle", "batch", "submit", "ack", "update"},
                     budget : 0 .. MaxRunning, cc : Challenge,
                     snap : CacheEntry, ns : Ns \cup {NoNs}]

PodsTyped ==
    /\ pod \in [Ns -> PodState \cup {"none"}]
    /\ events \in [Ns -> Seq(PodState)]

ClusterTyped ==
    /\ owner \in [Ns -> Challenge]
    /\ workflow \in [Ns -> {"none", "Pending", "Running", "Succeeded", "Failed"}]
    /\ PodsTyped

\* The worker that is going to write has an entry to write.
WorkersTyped ==
    /\ worker \in [Ns -> [pc : {"idle", "act", "write", "close", "free"},
                          event : PodState, snap : CacheEntry \cup {NoEntry}]]
    /\ \A n \in Ns : worker[n].pc = "write" => worker[n].snap # NoEntry

ListenerTyped ==
    /\ WorkersTyped
    /\ watching \in BOOLEAN
    /\ rows \in Seq(Row)

Typed == RedisTypeOK /\ CenterTyped /\ ConsumerTyped /\ ClusterTyped /\ ListenerTyped

LEMMA TypedIsTypeOK == Typed => TypeOK
<1>1. PodState \cup {"none"} =
        {"none", "created", "ready", "stuck", "terminating", "gone"}
  BY DEF PodState
<1> QED
  BY <1>1 DEF Typed, CenterTyped, ConsumerTyped, ClusterTyped, PodsTyped,
              ListenerTyped, WorkersTyped, TypeOK, PodState, Row, Request

LEMMA EntriesTyped ==
    /\ NoEntry \notin CacheEntry
    /\ \A st \in Status : NewEntry(st) \in CacheEntry
BY NoEntryAssumption, EntryAssumption DEF NewEntry, CacheEntry

LEMMA BoundsTyped ==
    /\ MaxNs \in Nat /\ MaxRunning \in Nat /\ QueueMax \in Nat
    /\ MaxEvents \in Nat /\ MaxRows \in Nat /\ MaxLimit \in Nat
    /\ AnyChallenge \in Challenge
BY PipelineAssumption, MaxLimitAssumption, SomeChallenge DEF AnyChallenge

LEMMA InitTyped == Init => Typed
<1> SUFFICES ASSUME Init PROVE Typed
  OBVIOUS
<1>1. RedisTypeOK
  BY InitIInv DEF Init, IInv
<1>2. NewEntry("INITIAL") \in CacheEntry
  BY EntriesTyped DEF Status
<1>3. CenterTyped
  BY <1>2, BoundsTyped DEF Init, CenterTyped, IdleReq, IdleStop, IdleForce, Request
<1>4. ConsumerTyped
  BY <1>2, BoundsTyped DEF Init, ConsumerTyped, IdleConsumer
<1>5. ClusterTyped
  BY BoundsTyped DEF Init, ClusterTyped, PodsTyped
<1>6. ListenerTyped
  BY DEF Init, ListenerTyped, WorkersTyped, IdleWorker, PodState
<1> QED
  BY <1>1, <1>3, <1>4, <1>5, <1>6 DEF Typed

-----------------------------------------------------------------------------
\* The namespaces are submitted in their order, so the next name is the first
\* that is not in use.
LEMMA UnsubmittedCounts ==
    /\ IsFiniteSet(Unsubmitted) /\ Cardinality(Unsubmitted) \in 0 .. MaxNs
    /\ Unsubmitted # {} => MaxNs + 1 - Cardinality(Unsubmitted) \in Ns
<1>1. IsFiniteSet(1 .. MaxNs) /\ Cardinality(1 .. MaxNs) = MaxNs
  BY BoundsTyped, FS_Interval
<1>2. Unsubmitted \subseteq 1 .. MaxNs
  BY DEF Unsubmitted, Ns
<1>3. IsFiniteSet(Unsubmitted) /\ Cardinality(Unsubmitted) <= MaxNs
  BY <1>1, <1>2, FS_Subset
<1>4. Cardinality(Unsubmitted) \in Nat
  BY <1>3, FS_CardinalityType
<1>5. Unsubmitted # {} => Cardinality(Unsubmitted) # 0
  BY <1>3, FS_EmptySet
<1> QED
  BY <1>3, <1>4, <1>5, BoundsTyped DEF Ns

LEMMA RunningCounts == Cardinality(Running) \in Nat
<1>1. IsFiniteSet(1 .. MaxNs)
  BY BoundsTyped, FS_Interval
<1>2. Running \subseteq 1 .. MaxNs
  BY DEF Running, Ns
<1> QED
  BY <1>1, <1>2, FS_Subset, FS_CardinalityType

-----------------------------------------------------------------------------
\* The steps of the requests.
LEMMA StartTyped ==
    ASSUME Typed, StartNext
    PROVE  CenterTyped' /\ ConsumerTyped' /\ ClusterTyped' /\ ListenerTyped'
<1> USE DEF Typed, Answered, Refused, Goto, center, stops
<1>1. UNCHANGED <<stops, consumer, cluster, listener>>
  BY DEF StartNext, CheckDeployCount, Reserve, HttpFails, Rollback, CenterRead,
         CenterPhase, CenterForget, CenterEnqueue, CenterSetCache
<1>2. ClusterTyped' /\ ListenerTyped'
  BY <1>1 DEF cluster, listener, ClusterTyped, PodsTyped, ListenerTyped, WorkersTyped
<1>3. PICK r \in Req : \/ \E c \in Challenge : CheckDeployCount(r, c)
                       \/ Reserve(r) \/ HttpFails(r) \/ Rollback(r)
                       \/ CenterRead(r) \/ CenterPhase(r)
                       \/ CenterForget(r) \/ CenterEnqueue(r) \/ CenterSetCache(r)
  BY DEF StartNext
<1>4. CenterTyped'
  <2>1. req' \in [Req -> Request]
    <3>1. /\ IdleReq \in Request
          /\ \A c \in Challenge :
                [IdleReq EXCEPT !.pc = "checked", !.cc = c, !.waiting = TRUE] \in Request
      BY BoundsTyped DEF IdleReq, Request
    <3>2. /\ [req[r] EXCEPT !.pc = "failed"] \in Request
          /\ [req[r] EXCEPT !.pc = "read"] \in Request
          /\ [req[r] EXCEPT !.pc = "enqueue"] \in Request
          /\ [req[r] EXCEPT !.pc = "setcache"] \in Request
          /\ [req[r] EXCEPT !.waiting = FALSE] \in Request
          /\ [req[r] EXCEPT !.pc = "forget", !.ns = NoNs] \in Request
          /\ \A n \in Ns : [req[r] EXCEPT !.pc = "phase", !.ns = n] \in Request
      <4>1. req[r] \in Request
        BY DEF CenterTyped
      <4> HIDE DEF Typed
      <4> QED
        BY <4>1 DEF Request
    <3>4. cache[req[r].cc] # NoEntry => cache[req[r].cc].ns \in Ns \cup {NoNs}
      <4>1. req[r].cc \in Challenge
        BY DEF CenterTyped, Request
      <4> QED
        BY <4>1, EntryAssumption DEF RedisTypeOK, CacheEntry
    <3>5. ASSUME CenterRead(r) PROVE \E q \in Request : req' = [req EXCEPT ![r] = q]
      <4> DEFINE e == cache[req[r].cc]
      <4>1. CASE req' = [req EXCEPT ![r].pc = "enqueue"]
        BY <3>2, <4>1
      <4>2. CASE e.ns # NoNs /\ e # NoEntry
                 /\ req' = [req EXCEPT ![r].pc = "phase", ![r].ns = e.ns]
        <5>1. PICK n \in Ns : n = e.ns
          BY <3>4, <4>2
        <5>2. [req[r] EXCEPT !.pc = "phase", !.ns = n] \in Request
          BY <3>2
        <5>3. req' = [req EXCEPT ![r] = [req[r] EXCEPT !.pc = "phase", !.ns = n]]
          BY <4>2, <5>1
        <5> QED
          BY <5>2, <5>3
      <4>3. CASE Answered(r) \/ Refused(r)
        BY <3>1, <3>2, <4>3
      <4>4. StatusOf(e) = "PENDING" => e # NoEntry
        BY DEF StatusOf
      <4> QED
        BY <3>5, <4>1, <4>2, <4>3, <4>4 DEF CenterRead
    <3>3. \E q \in Request : req' = [req EXCEPT ![r] = q]
      BY <1>3, <3>1, <3>2, <3>5 DEF CenterTyped, CheckDeployCount, Reserve, HttpFails, Rollback,
         CenterRead, CenterPhase, CenterForget, CenterEnqueue, CenterSetCache
    <3> QED
      BY <3>3 DEF CenterTyped
  <2> QED
    BY <1>1, <2>1 DEF CenterTyped
<1>5. queue' \in Seq(Challenge)
  <2>1. CASE CenterEnqueue(r)
    <3>1. req[r].cc \in Challenge
      BY DEF CenterTyped, Request
    <3>2. queue' = Append(queue, req[r].cc) \/ UNCHANGED queue
      BY <2>1 DEF CenterEnqueue
    <3>3. queue \in Seq(Challenge)
      BY DEF ConsumerTyped
    <3>4. Append(queue, req[r].cc) \in Seq(Challenge)
      BY <3>1, <3>3, AppendProperties
    <3> QED
      BY <3>2, <3>3, <3>4
  <2> QED
    BY <2>1, <1>3 DEF CheckDeployCount, Reserve, HttpFails, Rollback, CenterRead,
         CenterPhase, CenterForget, CenterSetCache, ConsumerTyped
<1> QED
  BY <1>1, <1>2, <1>4, <1>5 DEF ConsumerTyped

\* The steps of the consumer.
LEMMA ConsumerStepTyped ==
    ASSUME Typed, ConsumerNext
    PROVE  CenterTyped' /\ ConsumerTyped' /\ ClusterTyped' /\ ListenerTyped'
<1>1. UNCHANGED <<center, pod, events, listener>>
  BY DEF ConsumerNext, MessageExpires, ConsumerPoll, ConsumerTake, ConsumerBatchEnds,
         ConsumerSubmit, ConsumerAck, ConsumerUpdate, ConsumerCrash, cluster
<1>2. CenterTyped' /\ ListenerTyped' /\ PodsTyped'
  BY <1>1 DEF Typed, center, stops, listener, ClusterTyped, PodsTyped, ListenerTyped,
     WorkersTyped, CenterTyped
<1>3. ClusterTyped'
  <2>1. CASE ConsumerSubmit
    <3> DEFINE n == MaxNs + 1 - Cardinality(Unsubmitted)
    <3>1. Unsubmitted # {} => n \in Ns
      BY UnsubmittedCounts
    <3> QED
      BY <2>1, <3>1, <1>2 DEF ConsumerSubmit, Typed, ConsumerTyped, ClusterTyped
  <2> QED
    BY <1>2, <2>1 DEF Typed, ClusterTyped, ConsumerNext, MessageExpires, ConsumerPoll, ConsumerTake,
         ConsumerBatchEnds, ConsumerAck, ConsumerUpdate, ConsumerCrash, cluster
<1>4. ConsumerTyped'
  <2> USE DEF ConsumerTyped, Typed
  <2>1. CASE MessageExpires
    BY <2>1 DEF MessageExpires
  <2>2. CASE ConsumerPoll
    <3>1. MaxRunning - Cardinality(Running) \in 0 .. MaxRunning
      BY <2>2, RunningCounts, BoundsTyped DEF ConsumerPoll
    <3> QED
      BY <2>2, <3>1 DEF ConsumerPoll
  <2>3. CASE ConsumerTake
    <3>1. Head(queue) \in Challenge /\ Tail(queue) \in Seq(Challenge)
      BY <2>3, HeadTailProperties DEF ConsumerTake
    <3>2. consumer.budget - 1 \in 0 .. MaxRunning
      BY <2>3, BoundsTyped DEF ConsumerTake
    <3>3. cache[Head(queue)] # NoEntry => cache[Head(queue)] \in CacheEntry
      BY <3>1, EntryAssumption DEF RedisTypeOK
    <3> QED
      BY <2>3, <3>1, <3>2, <3>3 DEF ConsumerTake
  <2>4. CASE ConsumerBatchEnds
    BY <2>4, BoundsTyped, EntriesTyped DEF ConsumerBatchEnds, IdleConsumer, Status
  <2>5. CASE ConsumerSubmit
    <3>1. CASE NextMessage
      BY <3>1, BoundsTyped, EntriesTyped, <2>5
         DEF ConsumerSubmit, NextMessage, IdleConsumer, Status
    <3> QED
      BY <2>5, <3>1, UnsubmittedCounts DEF ConsumerSubmit
  <2>6. CASE ConsumerAck
    BY <2>6 DEF ConsumerAck
  <2>7. CASE ConsumerUpdate
    BY <2>7, BoundsTyped, EntriesTyped
       DEF ConsumerUpdate, NextMessage, IdleConsumer, Status
  <2>8. CASE ConsumerCrash
    <3>1. <<consumer.cc>> \o queue \in Seq(Challenge)
      BY ConcatProperties
    <3> QED
      BY <2>8, <3>1, BoundsTyped, EntriesTyped DEF ConsumerCrash, IdleConsumer, Status
  <2> QED
    BY <2>1, <2>2, <2>3, <2>4, <2>5, <2>6, <2>7, <2>8 DEF ConsumerNext
<1> QED
  BY <1>2, <1>3, <1>4

\* A pod that changes keeps its place in the records of the cluster.
LEMMA PodBecomesTyped ==
    ASSUME PodsTyped, NEW n \in Ns, NEW st \in PodState, PodBecomes(n, st)
    PROVE  PodsTyped'
<1>1. pod' \in [Ns -> PodState \cup {"none"}]
  BY DEF PodsTyped, PodBecomes
<1>2. Append(events[n], st) \in Seq(PodState)
  BY AppendProperties DEF PodsTyped
<1>3. events' \in [Ns -> Seq(PodState)]
  BY <1>2 DEF PodsTyped, PodBecomes
<1> QED
  BY <1>1, <1>3 DEF PodsTyped

\* A deletion of any namespace, also of one that is not there.
LEMMA DeletionTyped ==
    ASSUME PodsTyped, NEW n,
           DeleteAccepted(n) \/ DeleteRejected(n) \/ UNCHANGED <<pod, events>>
    PROVE  PodsTyped'
<1>1. CASE DeleteAccepted(n)
  <2>1. n \in Ns /\ "terminating" \in PodState
    BY <1>1 DEF DeleteAccepted, Alive, PodState
  <2> QED
    BY <1>1, <2>1, PodBecomesTyped DEF DeleteAccepted
<1>2. CASE UNCHANGED <<pod, events>>
  BY <1>2 DEF PodsTyped
<1> QED
  BY <1>1, <1>2 DEF DeleteRejected

\* The steps of the cluster.
LEMMA ClusterStepTyped ==
    ASSUME Typed, ClusterNext
    PROVE  CenterTyped' /\ ConsumerTyped' /\ ClusterTyped' /\ ListenerTyped'
<1>1. UNCHANGED <<center, queue, consumer, owner, listener>>
  BY DEF ClusterNext, WorkflowStarts, WorkflowSucceeds, WorkflowFails, PodReady,
         PodStuck, PodTouched, PodGone, CronDelete
<1>2. CenterTyped' /\ ConsumerTyped' /\ ListenerTyped' /\ owner' \in [Ns -> Challenge]
  BY <1>1 DEF Typed, center, stops, listener, ListenerTyped, WorkersTyped, CenterTyped,
              ConsumerTyped, ClusterTyped
<1>3. PICK n \in Ns :
         \/ WorkflowStarts(n) \/ WorkflowSucceeds(n) \/ WorkflowFails(n)
         \/ PodReady(n) \/ PodStuck(n) \/ PodTouched(n) \/ PodGone(n) \/ CronDelete(n)
  BY DEF ClusterNext
<1>4. workflow' \in [Ns -> {"none", "Pending", "Running", "Succeeded", "Failed"}]
  BY <1>3 DEF Typed, ClusterTyped, WorkflowStarts, WorkflowSucceeds, WorkflowFails,
              PodReady, PodStuck, PodTouched, PodGone, CronDelete
<1>5. \/ UNCHANGED <<pod, events>> \/ DeleteAccepted(n)
      \/ \E st \in PodState : PodBecomes(n, st)
  <2>1. n \in Alive => pod[n] \in PodState
    BY DEF Alive, PodState
  <2> QED
    BY <1>3, <2>1 DEF WorkflowStarts, WorkflowSucceeds, WorkflowFails, PodReady, PodStuck,
                 PodTouched, PodGone, CronDelete, PodState
<1>6. PodsTyped'
  BY <1>5, PodBecomesTyped, DeletionTyped DEF Typed, ClusterTyped
<1> QED
  BY <1>2, <1>4, <1>6 DEF ClusterTyped

\* The steps of the stops and of the status checks.
LEMMA StopTyped ==
    ASSUME Typed, StopNext
    PROVE  CenterTyped' /\ ConsumerTyped' /\ ClusterTyped' /\ ListenerTyped'
<1>1. UNCHANGED <<req, queue, consumer, owner, workflow, listener>>
  BY DEF StopNext, StopRead, StopUpdate, StopDelete, AdminRead, AdminDelete, AdminRemove,
         AdminForget, StatusRead, StatusWrite, StopAll, cluster, center, stops
<1>2. /\ ConsumerTyped' /\ ListenerTyped' /\ owner' \in [Ns -> Challenge]
      /\ workflow' \in [Ns -> {"none", "Pending", "Running", "Succeeded", "Failed"}]
  BY <1>1 DEF Typed, listener, ListenerTyped, WorkersTyped, ConsumerTyped, ClusterTyped
<1>3. ASSUME NEW c \in Challenge, cache[c] # NoEntry
      PROVE  cache[c] \in CacheEntry
  BY <1>3, EntryAssumption DEF Typed, RedisTypeOK
<1>4. CenterTyped' /\ PodsTyped'
  <2> USE DEF Typed, CenterTyped, ClusterTyped
  <2>1. ASSUME NEW c \in Challenge, StopRead(c)
        PROVE  CenterTyped' /\ PodsTyped'
    <3>1. [cache[c] EXCEPT !.status = "DELETING", !.ready = FALSE] \in CacheEntry
      BY <1>3, <2>1 DEF StopRead, CacheEntry, Status
    <3> QED
      BY <2>1, <3>1 DEF StopRead, cluster, PodsTyped
  <2>2. ASSUME NEW c \in Challenge, StopUpdate(c)
        PROVE  CenterTyped' /\ PodsTyped'
    BY <2>2 DEF StopUpdate, cluster, PodsTyped
  <2>3. ASSUME NEW c \in Challenge, StopDelete(c)
        PROVE  CenterTyped' /\ PodsTyped'
    <3>1. IdleStop \in [pc : {"idle"}, snap : CacheEntry]
      BY EntriesTyped DEF IdleStop, Status
    <3>2. CenterTyped'
      BY <2>3, <3>1 DEF StopDelete
    <3> QED
      BY <2>3, <3>2, DeletionTyped DEF StopDelete
  <2>4. ASSUME NEW c \in Challenge,
               AdminRead(c) \/ AdminDelete(c) \/ AdminRemove(c) \/ AdminForget(c)
        PROVE  CenterTyped' /\ PodsTyped'
    <3>1. CASE AdminRead(c)
      <4>1. cache[c].ns \in Ns \cup {NoNs}
        BY <1>3, <3>1 DEF AdminRead, CacheEntry
      <4> QED
        BY <3>1, <4>1 DEF AdminRead, cluster, PodsTyped
    <3>2. CASE AdminDelete(c)
      <4>1. CenterTyped'
        BY <3>2 DEF AdminDelete
      <4> QED
        BY <3>2, <4>1, DeletionTyped DEF AdminDelete
    <3>3. CASE AdminRemove(c)
      BY <3>3 DEF AdminRemove, cluster, PodsTyped
    <3>4. CASE AdminForget(c)
      BY <3>4 DEF AdminForget, IdleForce, cluster, PodsTyped
    <3> QED
      BY <2>4, <3>1, <3>2, <3>3, <3>4
  <2>5. ASSUME NEW c \in Challenge, StatusRead(c)
        PROVE  CenterTyped' /\ PodsTyped'
    <3>1. cache[c] \in CacheEntry
      BY <1>3, <2>5 DEF StatusRead, StatusOf
    <3> QED
      BY <2>5, <3>1 DEF StatusRead, cluster, PodsTyped
  <2>6. ASSUME NEW c \in Challenge, StatusWrite(c)
        PROVE  CenterTyped' /\ PodsTyped'
    BY <2>6 DEF StatusWrite, cluster, PodsTyped
  <2>7. ASSUME StopAll
        PROVE  CenterTyped' /\ PodsTyped'
    <3>1. \A n \in Ns : Append(events[n], "terminating") \in Seq(PodState)
      BY AppendProperties DEF PodsTyped, PodState
    <3> QED
      BY <2>7, <3>1 DEF StopAll, center, stops, PodsTyped, PodState
  <2> QED
    BY <2>1, <2>2, <2>3, <2>4, <2>5, <2>6, <2>7 DEF StopNext
<1> QED
  BY <1>2, <1>4 DEF ClusterTyped

\* What a worker holds of an entry, and what it makes of it.
LEMMA RestartedTyped ==
    ASSUME Typed, NEW n \in Ns, worker[n].snap # NoEntry
    PROVE  /\ worker[n].snap \in CacheEntry /\ Restarted(n) \in CacheEntry
           /\ [worker[n].snap EXCEPT !.status = "RUNING", !.ready = TRUE,
                                     !.timed = TRUE] \in CacheEntry
<1>1. worker[n].snap \in CacheEntry
  BY DEF Typed, ListenerTyped, WorkersTyped
<1> QED
  BY <1>1 DEF Restarted, CacheEntry, Status

\* The steps of the listener.
LEMMA ListenerStepTyped ==
    ASSUME Typed, ListenerNext
    PROVE  CenterTyped' /\ ConsumerTyped' /\ ClusterTyped' /\ ListenerTyped'
<1>1. UNCHANGED <<center, queue, consumer, owner, workflow>>
  BY DEF ListenerNext, ListenerRead, Handle, HandleDeletion, RecordStop, CleanupGhost,
         FreeSlot, HandlePodRestart, IgnoreTerminating, HandlePending, RecordStart,
         HandleRunning, WatchLost, ListenerRestarts, Relist, cluster
<1>2. /\ CenterTyped' /\ ConsumerTyped' /\ owner' \in [Ns -> Challenge]
      /\ workflow' \in [Ns -> {"none", "Pending", "Running", "Succeeded", "Failed"}]
  BY <1>1 DEF Typed, center, stops, CenterTyped, ConsumerTyped, ClusterTyped
<1>3. PodsTyped /\ ListenerTyped
  BY DEF Typed, ClusterTyped
<1>4. IdleWorker \in [pc : {"idle"}, event : PodState, snap : CacheEntry \cup {NoEntry}]
  BY DEF IdleWorker, PodState
<1>5. ASSUME NEW n \in Ns, ListenerRead(n)
      PROVE  PodsTyped' /\ ListenerTyped'
  <2>1. Head(events[n]) \in PodState /\ Tail(events[n]) \in Seq(PodState)
    BY <1>3, <1>5, HeadTailProperties DEF ListenerRead, PodsTyped
  <2>2. cache[owner[n]] \in CacheEntry \cup {NoEntry}
    BY EntryAssumption DEF Typed, RedisTypeOK, ClusterTyped
  <2>3. PodsTyped'
    BY <1>3, <1>5, <2>1 DEF ListenerRead, PodsTyped
  <2>4. ListenerTyped'
    BY <1>3, <1>5, <2>1, <2>2 DEF ListenerRead, ListenerTyped, WorkersTyped
  <2> QED
    BY <2>3, <2>4
<1>6. ASSUME NEW n \in Ns, Handle(n), ~RecordStart(n)
      PROVE  PodsTyped' /\ ListenerTyped'
  <2>1. /\ UNCHANGED watching
        /\ \/ Handled(n) \/ Goes(n, "close") \/ Goes(n, "free")
           \/ /\ worker[n].snap # NoEntry
              /\ worker' = [worker EXCEPT ![n].snap = Restarted(n)]
    BY <1>6 DEF Handle, HandleDeletion, RecordStop, CleanupGhost, FreeSlot, HandlePodRestart,
                IgnoreTerminating, HandlePending, HandleRunning
  <2>2. PodsTyped'
    <3>1. DeleteAccepted(n) \/ DeleteRejected(n) \/ UNCHANGED <<pod, events>>
      BY <1>6 DEF Handle, HandleDeletion, RecordStop, CleanupGhost, FreeSlot, HandlePodRestart,
                  IgnoreTerminating, HandlePending, HandleRunning, cluster
    <3> QED
      BY <1>3, <3>1, DeletionTyped
  <2>3. rows' \in Seq(Row)
    <3>1. UNCHANGED rows \/ CloseRow(n)
      BY <1>6 DEF Handle, HandleDeletion, RecordStop, CleanupGhost, FreeSlot, HandlePodRestart,
                  IgnoreTerminating, HandlePending, HandleRunning
    <3>2. CASE CloseRow(n)
      <4>1. \A i \in DOMAIN rows : /\ rows[i] \in Row
                                   /\ [rows[i] EXCEPT !.open = FALSE] \in Row
        <5> SUFFICES ASSUME NEW i \in DOMAIN rows
                     PROVE  rows[i] \in Row /\ [rows[i] EXCEPT !.open = FALSE] \in Row
          OBVIOUS
        <5>1. rows[i] \in Row
          BY <1>3, ElementOfSeq, LenProperties DEF ListenerTyped, WorkersTyped
        <5> QED
          BY <5>1 DEF Row
      <4>2. rows' \in [DOMAIN rows -> Row]
        BY <3>2, <4>1 DEF CloseRow
      <4> QED
        BY <1>3, <4>2, LenProperties, SeqDef DEF ListenerTyped, WorkersTyped
    <3> QED
      BY <1>3, <3>1, <3>2 DEF ListenerTyped, WorkersTyped
  <2>4. WorkersTyped'
    <3>1. CASE Handled(n)
      BY <1>3, <1>4, <3>1 DEF Handled, ListenerTyped, WorkersTyped
    <3>2. CASE Goes(n, "close") \/ Goes(n, "free")
      BY <1>3, <3>2 DEF Goes, ListenerTyped, WorkersTyped
    <3>3. CASE /\ worker[n].snap # NoEntry
               /\ worker' = [worker EXCEPT ![n].snap = Restarted(n)]
      <4>1. Restarted(n) \in CacheEntry /\ Restarted(n) # NoEntry
        BY <3>3, RestartedTyped, EntriesTyped
      <4> QED
        BY <1>3, <3>3, <4>1 DEF ListenerTyped, WorkersTyped
    <3> QED
      BY <2>1, <3>1, <3>2, <3>3
  <2> QED
    BY <2>1, <2>2, <2>3, <2>4, <1>3 DEF ListenerTyped
<1>7. ASSUME NEW n \in Ns, RecordStart(n)
      PROVE  PodsTyped' /\ ListenerTyped'
  <2>1. Restarted(n) \in CacheEntry
    BY <1>7, RestartedTyped DEF RecordStart, Current
  <2>2. PodsTyped'
    BY <1>3, <1>7 DEF RecordStart, cluster, PodsTyped
  <2>3. [cc |-> owner[n], label |-> Restarted(n).ns, open |-> TRUE] \in Row
    BY <2>1 DEF Row, CacheEntry, Typed, ClusterTyped
  <2>4. rows' \in Seq(Row)
    <3> DEFINE row == [cc |-> owner[n], label |-> Restarted(n).ns, open |-> TRUE]
    <3>1. rows' = rows \/ rows' = Append(rows, row)
      BY <1>7 DEF RecordStart
    <3>2. rows \in Seq(Row) /\ row \in Row
      BY <1>3, <2>3 DEF ListenerTyped, WorkersTyped
    <3> HIDE DEF row
    <3> QED
      BY <3>1, <3>2, AppendProperties
  <2>5. Restarted(n) # NoEntry
    BY <2>1, EntriesTyped
  <2>6. UNCHANGED watching
    BY <1>7 DEF RecordStart
  <2>7. \/ Handled(n)
        \/ worker' = [worker EXCEPT ![n].pc = "write", ![n].snap = Restarted(n)]
    BY <1>7 DEF RecordStart
  <2>8. ListenerTyped'
    <3>1. CASE Handled(n)
      <4>1. WorkersTyped'
        BY <1>3, <1>4, <3>1 DEF Handled, ListenerTyped, WorkersTyped
      <4> QED
        BY <1>3, <2>4, <2>6, <4>1 DEF ListenerTyped
    <3>2. CASE worker' = [worker EXCEPT ![n].pc = "write", ![n].snap = Restarted(n)]
      <4>1. WorkersTyped'
        BY <1>3, <2>1, <2>5, <3>2 DEF ListenerTyped, WorkersTyped
      <4> QED
        BY <1>3, <2>4, <2>6, <4>1 DEF ListenerTyped
    <3> QED
      BY <2>7, <3>1, <3>2
  <2> QED
    BY <2>2, <2>8
<1>8. ASSUME WatchLost
      PROVE  PodsTyped' /\ ListenerTyped'
  <2>1. watching' \in BOOLEAN
    BY <1>8, Zenon DEF WatchLost
  <2>2. UNCHANGED <<pod, events, worker, rows>>
    BY <1>8 DEF WatchLost, cluster
  <2>3. PodsTyped' /\ WorkersTyped' /\ rows' \in Seq(Row)
    BY <1>3, <2>2 DEF PodsTyped, ListenerTyped, WorkersTyped
  <2> QED
    BY <2>1, <2>3 DEF ListenerTyped
<1>9. ASSUME ListenerRestarts
      PROVE  PodsTyped' /\ ListenerTyped'
  <2>1. watching' \in BOOLEAN
    BY <1>9, Zenon DEF ListenerRestarts
  <2>2. PodsTyped'
    BY <1>3, <1>9, EmptySeq DEF ListenerRestarts, PodsTyped
  <2>3. /\ worker' = [n \in Ns |-> IdleWorker]
        /\ rows' = rows
    BY <1>9 DEF ListenerRestarts
  <2>4. WorkersTyped' /\ rows' \in Seq(Row)
    BY <1>3, <1>4, <2>3 DEF ListenerTyped, WorkersTyped
  <2> QED
    BY <2>1, <2>2, <2>4 DEF ListenerTyped
<1>10. ASSUME Relist
      PROVE  PodsTyped' /\ ListenerTyped'
  <2> DEFINE listed == {n \in Ns : pod[n] \notin {"none", "gone"}}
  <2>1. \A n \in listed : Append(events[n], pod[n]) \in Seq(PodState)
    BY <1>3, AppendProperties DEF PodsTyped, PodState
  <2>2. events' = [n \in Ns |-> IF n \in listed THEN Append(events[n], pod[n])
                                ELSE events[n]]
    BY <1>10 DEF Relist
  <2>3. PodsTyped'
    BY <1>3, <1>10, <2>1, <2>2 DEF Relist, PodsTyped
  <2>4. \A i \in DOMAIN rows :
           [rows[i] EXCEPT !.open = @ /\ rows[i].label \in listed] \in Row
    <3> SUFFICES ASSUME NEW i \in DOMAIN rows
                 PROVE  [rows[i] EXCEPT !.open = @ /\ rows[i].label \in listed] \in Row
      OBVIOUS
    <3>1. rows[i] \in Row
      BY <1>3, ElementOfSeq, LenProperties DEF ListenerTyped, WorkersTyped
    <3> QED
      BY <3>1 DEF Row
  <2>5. rows' \in [DOMAIN rows -> Row]
    BY <1>10, <2>4 DEF Relist
  <2>6. rows' \in Seq(Row)
    BY <1>3, <2>5, LenProperties, SeqDef DEF ListenerTyped, WorkersTyped
  <2>7. watching' \in BOOLEAN
    BY <1>10, Zenon DEF Relist
  <2>8. UNCHANGED worker
    BY <1>10 DEF Relist
  <2> QED
    <3>1. WorkersTyped'
      BY <1>3, <2>8 DEF ListenerTyped, WorkersTyped
    <3> QED
      BY <2>3, <2>6, <2>7, <3>1 DEF ListenerTyped
<1> QED
  BY <1>2, <1>5, <1>6, <1>7, <1>8, <1>9, <1>10 DEF ListenerNext, ClusterTyped

-----------------------------------------------------------------------------
(***************************************************************************)
(* Every step of the pipeline leaves Redis as it is or is one command of   *)
(* the scripts: what DeployRedis promises to every caller holds of it.     *)
(***************************************************************************)

LEMMA StartIsRedis == ASSUME Typed, StartNext PROVE [RedisNext]_redis
<1> USE DEF Typed, CenterTyped, Request
<1>1. PICK r \in Req : \/ \E c \in Challenge : CheckDeployCount(r, c)
                       \/ Reserve(r) \/ HttpFails(r) \/ Rollback(r)
                       \/ CenterRead(r) \/ CenterPhase(r)
                       \/ CenterForget(r) \/ CenterEnqueue(r) \/ CenterSetCache(r)
  BY DEF StartNext
<1>2. req[r].cc \in Challenge
  OBVIOUS
<1>3. NewEntry("INITIAL") \in Entry /\ NewEntry("PENDING_DEPLOY") \in Entry
  BY EntriesTyped, EntryAssumption DEF Status
<1> DEFINE c == req[r].cc
<1>4. \/ UNCHANGED redis \/ RemoveDeployment(c) \/ RemoveCache(c)
      \/ CreatePass(c, NewEntry("INITIAL"))
      \/ CreateAlreadyExists(c) \/ CreateLimitExceeded(c)
      \/ SetCache(c, NewEntry("PENDING_DEPLOY"))
  BY <1>1 DEF CheckDeployCount, Reserve, HttpFails, Rollback, CenterRead, CenterPhase,
              CenterForget, CenterEnqueue, CenterSetCache
<1> HIDE DEF c
<1> QED
  BY <1>2, <1>3, <1>4 DEF RedisNext, RedisCommand, c

LEMMA ConsumerIsRedis == ASSUME Typed, ConsumerNext PROVE [RedisNext]_redis
<1>1. CASE ConsumerUpdate
  <2>1. PICK e \in CacheEntry : UpdateExpiration(consumer.cc, e)
    <3>1. [consumer.snap EXCEPT !.ns = consumer.ns, !.status = "PENDING",
                                !.timed = FALSE] \in CacheEntry
      BY DEF Typed, ConsumerTyped, CacheEntry, Status
    <3> QED
      BY <1>1, <3>1 DEF ConsumerUpdate
  <2>2. consumer.cc \in Challenge
    BY DEF Typed, ConsumerTyped
  <2> QED
    BY <2>1, <2>2, EntryAssumption DEF RedisNext, RedisCommand
<1> QED
  BY <1>1 DEF ConsumerNext, MessageExpires, ConsumerPoll, ConsumerTake, ConsumerBatchEnds,
         ConsumerSubmit, ConsumerAck, ConsumerCrash

LEMMA StopIsRedis == ASSUME Typed, StopNext PROVE [RedisNext]_redis
<1>1. ASSUME NEW c \in Challenge, StopUpdate(c) PROVE [RedisNext]_redis
  BY <1>1, EntryAssumption DEF StopUpdate, Typed, CenterTyped, RedisNext, RedisCommand
<1>2. ASSUME NEW c \in Challenge, StatusWrite(c) PROVE [RedisNext]_redis
  BY <1>2, EntryAssumption DEF StatusWrite, Typed, CenterTyped, RedisNext, RedisCommand
<1>3. ASSUME NEW c \in Challenge, AdminRemove(c) \/ AdminForget(c)
      PROVE  [RedisNext]_redis
  BY <1>3 DEF AdminRemove, AdminForget, RedisNext, RedisCommand
<1> QED
  BY <1>1, <1>2, <1>3 DEF StopNext, StopRead, StopDelete, AdminRead, AdminDelete,
                               StatusRead, StopAll

\* A handler writes one entry of its own challenge, removes it, or neither.
LEMMA HandleIsRedis ==
    ASSUME Typed, NEW n \in Ns, Handle(n)
    PROVE  \/ UNCHANGED redis \/ RemoveDeployment(owner[n])
           \/ \E e \in CacheEntry : UpdateExpiration(owner[n], e)
<1>1. CASE HandleDeletion(n) \/ FreeSlot(n)
  BY <1>1 DEF HandleDeletion, FreeSlot
<1>2. CASE HandlePodRestart(n)
  BY <1>2, RestartedTyped DEF HandlePodRestart
<1>3. CASE HandleRunning(n)
  BY <1>3, RestartedTyped DEF HandleRunning, Typed, ListenerTyped, WorkersTyped
<1> QED
  BY <1>1, <1>2, <1>3 DEF Handle, RecordStop, CleanupGhost, IgnoreTerminating,
                          HandlePending, RecordStart

LEMMA ListenerIsRedis == ASSUME Typed, ListenerNext PROVE [RedisNext]_redis
<1>1. ASSUME NEW n \in Ns, Handle(n) PROVE [RedisNext]_redis
  BY <1>1, HandleIsRedis, EntryAssumption DEF Typed, ClusterTyped, RedisNext, RedisCommand
<1> QED
  BY <1>1 DEF ListenerNext, ListenerRead, WatchLost, ListenerRestarts, Relist

LEMMA StepIsRedis == ASSUME Typed, [Next]_vars PROVE [RedisNext]_redis
<1>1. CASE ClusterNext
  BY <1>1 DEF ClusterNext, WorkflowStarts, WorkflowSucceeds, WorkflowFails, PodReady,
         PodStuck, PodTouched, PodGone, CronDelete
<1>2. CASE Elapse
  <2>1. PICK S \in SUBSET Challenge, K \in SUBSET Challenge : TimePasses(S, K, {})
    BY <1>2 DEF Elapse
  <2> QED
    BY <2>1 DEF RedisNext, RedisElapse
<1>3. CASE UNCHANGED vars
  BY <1>3 DEF vars, redis
<1> QED
  BY <1>1, <1>2, <1>3, StartIsRedis, ConsumerIsRedis, StopIsRedis, ListenerIsRedis
     DEF Next

LEMMA TypedInductive == ASSUME Typed, [Next]_vars PROVE Typed'
<1>1. RedisTypeOK'
  BY StepIsRedis, RedisTypeInductive DEF Typed
<1>2. CASE Elapse \/ UNCHANGED vars
  <2>1. UNCHANGED <<center, queue, consumer, cluster, listener>>
    BY <1>2 DEF Elapse, vars, center, stops, cluster, listener
  <2> QED
    BY <1>1, <2>1 DEF Typed, center, stops, cluster, listener, CenterTyped, ConsumerTyped,
       ClusterTyped, PodsTyped, ListenerTyped, WorkersTyped
<1>3. CASE StartNext \/ ConsumerNext \/ StopNext \/ ClusterNext \/ ListenerNext
  BY <1>1, <1>3, StartTyped, ConsumerStepTyped, StopTyped, ClusterStepTyped,
     ListenerStepTyped DEF Typed
<1> QED
  BY <1>2, <1>3 DEF Next

LEMMA PipelineTyped == Spec => []Typed
BY InitTyped, TypedInductive, PTL DEF Spec

\* Every variable keeps its type: the names of the namespaces never run past
\* their bound, and no handler writes an entry it does not have.
THEOREM TypeCorrect == Spec => []TypeOK
BY PipelineTyped, TypedIsTypeOK, PTL

\* Whatever the services do, and however their steps and failures interleave,
\* they change Redis by the scripts and cache commands of RedisHelper.cs alone.
THEOREM PipelineUsesRedis == Spec => RedisSpec
<1>1. Init => RedisInit
  BY DEF Init
<1> QED
  BY <1>1, StepIsRedis, PipelineTyped, PTL DEF Spec, RedisSpec

\* So the quota holds of the whole pipeline: the ZSET of a team never has more
\* members than limit_challenges (RedisHelper.cs:278-298, 363-368).
THEOREM PipelineKeepsQuota == Spec => []HeldWithinLimit
BY PipelineUsesRedis, QuotaNeverExceeded, PTL

\* And no service leaves an entry that outlives its reservation or never
\* expires (RedisHelper.cs:361-365).
THEOREM PipelineLeavesNoZombie == Spec => []NoZombieEntry
BY PipelineUsesRedis, NoZombies, PTL

\* The pipeline takes and frees slots as SlotPool allows: only a reservation takes one
\* (ChallengeController.cs:625-650, RedisHelper.cs:278-298).
THEOREM PipelineImplementsPool == Spec => PoolSafety
BY PipelineUsesRedis, ImplementsPool, PTL

-----------------------------------------------------------------------------
(***************************************************************************)
(* A reservation is attended: with every operation and failure.            *)
(***************************************************************************)

\* Only a reservation writes INITIAL.  A worker could write it back with the
\* rest of an entry it has read, but does so only to an entry with an end time.
InitialIsNew ==
    /\ \A c \in Challenge : StatusOf(cache[c]) = "INITIAL" => ~cache[c].timed
    /\ \A n \in Ns : StatusOf(worker[n].snap) = "INITIAL" => ~worker[n].snap.timed
    /\ \A c \in Challenge : stopping[c].pc = "update" =>
                              stopping[c].snap.status = "DELETING"
    /\ \A c \in Challenge : StatusOf(checking[c]) # "INITIAL"

Attends(r, c) == req[r].cc = c /\ req[r].pc \in {"read", "enqueue", "setcache", "failed"}

\* An entry that is INITIAL after a step was so before, or a request has just
\* reserved it.
LEMMA InitialComes ==
    ASSUME Typed, InitialIsNew, [Next]_vars, NEW c \in Challenge,
           StatusOf(cache'[c]) = "INITIAL"
    PROVE  \/ cache'[c] = cache[c]
           \/ ~cache'[c].timed /\ \E r \in Req : Attends(r, c)'
<1> USE DEF StatusOf, NewEntry
<1>1. cache \in [Challenge -> CacheEntry \cup {NoEntry}]
  BY EntryAssumption DEF Typed, RedisTypeOK
<1>2. CASE UNCHANGED cache
  BY <1>2
<1>3. ASSUME NEW d \in Challenge,
             RemoveDeployment(d) \/ RemoveCache(d)
      PROVE  cache'[c] = cache[c]
  BY <1>1, <1>3 DEF RemoveDeployment, RemoveCache
<1>4. ASSUME NEW d \in Challenge, NEW e \in CacheEntry, e.status # "INITIAL",
             UpdateExpiration(d, e) \/ SetCache(d, e)
      PROVE  cache'[c] = cache[c]
  BY <1>1, <1>4 DEF UpdateExpiration, SetCache, redis
<1>5. CASE StartNext
  <2>1. PICK r \in Req : \/ \E d \in Challenge : CheckDeployCount(r, d)
                         \/ Reserve(r) \/ HttpFails(r) \/ Rollback(r)
                         \/ CenterRead(r) \/ CenterPhase(r)
                         \/ CenterForget(r) \/ CenterEnqueue(r) \/ CenterSetCache(r)
    BY <1>5 DEF StartNext
  <2>2. req[r].cc \in Challenge /\ req \in [Req -> Request]
    BY DEF Typed, CenterTyped, Request
  <2>3. CASE Reserve(r)
    <3>1. CASE CreatePass(req[r].cc, NewEntry("INITIAL")) /\ Goto(r, "read")
      BY <1>1, <2>2, <3>1 DEF CreatePass, Goto, Attends, Request
    <3>2. CASE ~CreatePass(req[r].cc, NewEntry("INITIAL"))
      BY <1>2, <2>3, <3>2 DEF Reserve, CreateAlreadyExists, CreateLimitExceeded
    <3> QED
      BY <2>3, <3>1, <3>2 DEF Reserve, CreateAlreadyExists, CreateLimitExceeded
  <2>4. CASE CenterSetCache(r)
    <3>1. NewEntry("PENDING_DEPLOY") \in CacheEntry
      BY EntriesTyped DEF Status
    <3> QED
      BY <1>4, <2>2, <2>4, <3>1 DEF CenterSetCache
  <2>5. \/ UNCHANGED cache \/ Reserve(r) \/ CenterSetCache(r)
        \/ RemoveDeployment(req[r].cc) \/ RemoveCache(req[r].cc)
    BY <2>1 DEF CheckDeployCount, HttpFails, Rollback, CenterRead, CenterPhase, CenterForget,
       CenterEnqueue, redis
  <2> QED
    BY <1>2, <1>3, <2>2, <2>3, <2>4, <2>5
<1>6. CASE ConsumerNext
  <2>1. CASE ConsumerUpdate
    <3> DEFINE e == [consumer.snap EXCEPT !.ns = consumer.ns, !.status = "PENDING",
                                         !.timed = FALSE]
    <3>1. e \in CacheEntry /\ e.status # "INITIAL" /\ consumer.cc \in Challenge
      BY DEF Typed, ConsumerTyped, CacheEntry, Status
    <3>2. UpdateExpiration(consumer.cc, e)
      BY <2>1 DEF ConsumerUpdate
    <3> HIDE DEF e
    <3> QED
      BY <1>4, <3>1, <3>2
  <2> QED
    BY <1>2, <1>6, <2>1 DEF ConsumerNext, MessageExpires, ConsumerPoll, ConsumerTake,
       ConsumerBatchEnds, ConsumerSubmit, ConsumerAck, ConsumerCrash, redis
<1>7. CASE StopNext
  <2>1. ASSUME NEW d \in Challenge, StopUpdate(d) PROVE cache'[c] = cache[c]
    BY <1>4, <2>1 DEF StopUpdate, Typed, CenterTyped, InitialIsNew
  <2>2. ASSUME NEW d \in Challenge, StatusWrite(d) PROVE cache'[c] = cache[c]
    BY <1>4, <2>2 DEF StatusWrite, Typed, CenterTyped, InitialIsNew
  <2>3. ASSUME NEW d \in Challenge, AdminRemove(d) \/ AdminForget(d)
        PROVE  cache'[c] = cache[c]
    BY <1>3, <2>3 DEF AdminRemove, AdminForget
  <2> QED
    BY <1>2, <1>7, <2>1, <2>2, <2>3 DEF StopNext, StopRead, StopDelete, AdminRead,
       AdminDelete, StatusRead, StopAll, redis
<1>8. CASE ClusterNext
  BY <1>2, <1>8 DEF ClusterNext, WorkflowStarts, WorkflowSucceeds, WorkflowFails, PodReady,
     PodStuck, PodTouched, PodGone, CronDelete, redis
<1>9. CASE ListenerNext
  <2>1. ASSUME NEW n \in Ns, Handle(n)
        PROVE  cache'[c] = cache[c]
    <3>1. owner[n] \in Challenge
      BY DEF Typed, ClusterTyped
    <3>2. CASE worker[n].snap # NoEntry /\ UpdateExpiration(owner[n], Restarted(n))
               /\ worker[n].snap.timed
      <4>1. Restarted(n) \in CacheEntry /\ worker[n].snap \in CacheEntry
        BY <3>2, RestartedTyped
      <4>2. Restarted(n).status = worker[n].snap.status
        BY <4>1 DEF Restarted, CacheEntry
      <4> QED
        BY <1>4, <3>1, <3>2, <4>1, <4>2 DEF InitialIsNew
    <3>3. CASE HandleRunning(n)
      <4> DEFINE e == [worker[n].snap EXCEPT !.status = "RUNING", !.ready = TRUE,
                                            !.timed = TRUE]
      <4>1. worker[n].snap # NoEntry
        BY <3>3 DEF HandleRunning, Typed, ListenerTyped, WorkersTyped
      <4>2. e \in CacheEntry /\ e.status # "INITIAL"
        BY <4>1, RestartedTyped DEF CacheEntry
      <4>3. UpdateExpiration(owner[n], e)
        BY <3>3 DEF HandleRunning
      <4> HIDE DEF e
      <4> QED
        BY <1>4, <3>1, <4>2, <4>3
    <3>4. \/ UNCHANGED cache \/ RemoveDeployment(owner[n]) \/ HandleRunning(n)
          \/ /\ worker[n].snap # NoEntry /\ UpdateExpiration(owner[n], Restarted(n))
             /\ worker[n].snap.timed
          \/ HandlePodRestart(n)
      BY <2>1 DEF Handle, HandleDeletion, RecordStop, CleanupGhost, FreeSlot,
                  IgnoreTerminating, HandlePending, RecordStart, redis
    <3>5. CASE HandlePodRestart(n)
      BY <3>2, <3>5 DEF HandlePodRestart, Current
    <3> QED
      BY <1>2, <1>3, <3>1, <3>2, <3>3, <3>4, <3>5
  <2> QED
    BY <1>2, <1>9, <2>1 DEF ListenerNext, ListenerRead, WatchLost, ListenerRestarts,
       Relist, redis
<1>10. CASE Elapse
  <2>1. PICK S \in SUBSET Challenge, K \in SUBSET Challenge : TimePasses(S, K, {})
    BY <1>10 DEF Elapse
  <2> QED
    BY <2>1, <1>1 DEF TimePasses
<1> QED
  BY <1>2, <1>5, <1>6, <1>7, <1>8, <1>9, <1>10 DEF Next, vars

\* The request that attends to it goes on doing so while the entry is INITIAL.
LEMMA AttendedStays ==
    ASSUME Typed, [Next]_vars, NEW c \in Challenge, NEW r \in Req, Attends(r, c),
           StatusOf(cache[c]) = "INITIAL", StatusOf(cache'[c]) = "INITIAL"
    PROVE  Attends(r, c)'
<1> USE DEF StatusOf, NewEntry, Attends
<1>1. /\ cache \in [Challenge -> CacheEntry \cup {NoEntry}]
      /\ req \in [Req -> Request] /\ NoEntry \notin CacheEntry
  BY EntryAssumption, EntriesTyped DEF Typed, RedisTypeOK, CenterTyped
<1>2. CASE UNCHANGED req
  BY <1>2
<1>3. CASE StartNext
  <2>1. PICK s \in Req : \/ \E d \in Challenge : CheckDeployCount(s, d)
                         \/ Reserve(s) \/ HttpFails(s) \/ Rollback(s)
                         \/ CenterRead(s) \/ CenterPhase(s) \/ CenterForget(s)
                         \/ CenterEnqueue(s) \/ CenterSetCache(s)
    BY <1>3 DEF StartNext
  <2>2. CASE s # r
    <3>1. req'[r] = req[r]
      BY <1>1, <2>1, <2>2 DEF CheckDeployCount, Reserve, HttpFails, Rollback, CenterRead,
         CenterPhase, CenterForget, CenterEnqueue, CenterSetCache, Goto, Answered, Refused
    <3> QED
      BY <3>1
  <2>3. CASE s = r
    <3> DEFINE removed == RemoveDeployment(c) \/ RemoveCache(c) \/
                          SetCache(c, NewEntry("PENDING_DEPLOY"))
    <3>1. CASE removed
      <4>1. cache'[c] = NoEntry \/ cache'[c] = NewEntry("PENDING_DEPLOY")
        BY <1>1, <3>1 DEF RemoveDeployment, RemoveCache, SetCache
      <4> QED
        BY <1>1, <4>1
    <3>2. removed \/ \E pc \in {"enqueue", "setcache"} : Goto(r, pc)
      BY <1>1, <2>1, <2>3 DEF CheckDeployCount, Reserve, HttpFails, Rollback, CenterRead,
         CenterPhase, CenterForget, CenterEnqueue, CenterSetCache
    <3>3. ASSUME NEW pc \in {"enqueue", "setcache"}, Goto(r, pc)
          PROVE  Attends(r, c)'
      BY <1>1, <3>3 DEF Goto, Request
    <3> QED
      BY <3>1, <3>2, <3>3
  <2> QED
    BY <2>2, <2>3
<1>4. CASE StopNext
  BY <1>2, <1>4 DEF StopNext, StopRead, StopUpdate, StopDelete, AdminRead, AdminDelete,
     AdminRemove, AdminForget, StatusRead, StatusWrite, StopAll, center, stops
<1>5. CASE ConsumerNext
  BY <1>2, <1>5 DEF ConsumerNext, MessageExpires, ConsumerPoll, ConsumerTake,
     ConsumerBatchEnds, ConsumerSubmit, ConsumerAck, ConsumerUpdate, ConsumerCrash, center, stops
<1>6. CASE ClusterNext
  BY <1>2, <1>6 DEF ClusterNext, WorkflowStarts, WorkflowSucceeds, WorkflowFails, PodReady,
     PodStuck, PodTouched, PodGone, CronDelete, center, stops
<1>7. CASE ListenerNext
  BY <1>2, <1>7 DEF ListenerNext, ListenerRead, Handle, HandleDeletion, RecordStop,
     CleanupGhost, FreeSlot, HandlePodRestart, IgnoreTerminating, HandlePending, RecordStart,
     HandleRunning, WatchLost, ListenerRestarts, Relist, center, stops
<1> QED
  BY <1>2, <1>3, <1>4, <1>5, <1>6, <1>7 DEF Next, vars, Elapse, center, stops

LEMMA InitialIsNewInductive ==
    ASSUME Typed, InitialIsNew, [Next]_vars
    PROVE  InitialIsNew'
<1>1. ASSUME NEW c \in Challenge, StatusOf(cache'[c]) = "INITIAL"
      PROVE  ~cache'[c].timed
  BY <1>1, InitialComes DEF InitialIsNew
<1>2. ASSUME NEW n \in Ns, StatusOf(worker'[n].snap) = "INITIAL"
      PROVE  ~worker'[n].snap.timed
  <2>1. \/ worker'[n] = worker[n]
        \/ worker'[n].snap = NoEntry
        \/ worker'[n].snap = cache[owner[n]]
        \/ worker[n].snap # NoEntry /\ worker'[n].snap = Restarted(n)
    <3>1. /\ worker \in [Ns -> [pc : {"idle", "act", "write", "close", "free"},
                              event : PodState, snap : CacheEntry \cup {NoEntry}]]
          /\ IdleWorker.snap = NoEntry
      BY DEF Typed, ListenerTyped, WorkersTyped, IdleWorker
    <3>2. CASE ListenerNext
      <4>1. ASSUME NEW m \in Ns, ListenerRead(m) \/ Handle(m)
            PROVE  \/ worker'[n] = worker[n]
                   \/ worker'[n].snap = NoEntry
                   \/ worker'[n].snap = cache[owner[n]]
                   \/ worker[n].snap # NoEntry /\ worker'[n].snap = Restarted(n)
        <5>1. CASE m # n
          BY <3>1, <4>1, <5>1 DEF ListenerRead, Handle, HandleDeletion, RecordStop,
             CleanupGhost, FreeSlot, HandlePodRestart, IgnoreTerminating, HandlePending,
             RecordStart, HandleRunning, Handled, Goes
        <5>2. CASE m = n /\ ~RecordStart(n)
          BY <3>1, <4>1, <5>2 DEF ListenerRead, Handle, HandleDeletion, RecordStop,
             CleanupGhost, FreeSlot, HandlePodRestart, IgnoreTerminating, HandlePending,
             HandleRunning, Handled, Goes
        <5>3. CASE m = n /\ RecordStart(n)
          BY <3>1, <5>3 DEF RecordStart, Current, Handled
        <5> QED
          BY <5>1, <5>2, <5>3
      <4> QED
        BY <3>1, <3>2, <4>1 DEF ListenerNext, WatchLost, ListenerRestarts, Relist
    <3>3. CASE UNCHANGED worker
      BY <3>3
    <3>4. CASE StartNext
      BY <3>3, <3>4 DEF StartNext, CheckDeployCount, Reserve, HttpFails, Rollback, CenterRead,
         CenterPhase, CenterForget, CenterEnqueue, CenterSetCache, listener
    <3>5. CASE ConsumerNext
      BY <3>3, <3>5 DEF ConsumerNext, MessageExpires, ConsumerPoll, ConsumerTake,
         ConsumerBatchEnds, ConsumerSubmit, ConsumerAck, ConsumerUpdate, ConsumerCrash, listener
    <3>6. CASE StopNext
      BY <3>3, <3>6 DEF StopNext, StopRead, StopUpdate, StopDelete, AdminRead, AdminDelete,
         AdminRemove, AdminForget, StatusRead, StatusWrite, StopAll, listener
    <3>7. CASE ClusterNext
      BY <3>3, <3>7 DEF ClusterNext, WorkflowStarts, WorkflowSucceeds, WorkflowFails, PodReady,
         PodStuck, PodTouched, PodGone, CronDelete, listener
    <3> QED
      BY <3>2, <3>3, <3>4, <3>5, <3>6, <3>7 DEF Next, vars, Elapse, listener
  <2>2. owner[n] \in Challenge
    BY DEF Typed, ClusterTyped
  <2>3. ASSUME worker[n].snap # NoEntry, worker'[n].snap = Restarted(n)
        PROVE  ~worker'[n].snap.timed
    <3>1. worker[n].snap \in CacheEntry /\ worker[n].snap # NoEntry
      BY <2>3, RestartedTyped
    <3>2. /\ Restarted(n).status = worker[n].snap.status
          /\ Restarted(n).timed = worker[n].snap.timed
      BY <3>1 DEF Restarted, CacheEntry
    <3>3. Restarted(n) \in CacheEntry
      BY <3>1, RestartedTyped
    <3>4. StatusOf(worker[n].snap) = "INITIAL"
      BY <1>2, <2>3, <3>1, <3>2, <3>3, EntriesTyped DEF StatusOf
    <3> QED
      BY <2>3, <3>2, <3>4 DEF InitialIsNew
  <2> QED
    BY <1>2, <2>1, <2>2, <2>3 DEF InitialIsNew, StatusOf
<1>3. ASSUME NEW c \in Challenge
      PROVE  /\ stopping'[c].pc = "update" => stopping'[c].snap.status = "DELETING"
             /\ StatusOf(checking'[c]) # "INITIAL"
  <2>1. CASE UNCHANGED <<stopping, checking>>
    BY <2>1 DEF InitialIsNew
  <2>2. CASE StopNext
    <3>1. /\ stopping \in [Challenge -> [pc : {"idle", "update", "delete"},
                                         snap : CacheEntry]]
          /\ checking \in [Challenge -> CacheEntry \cup {NoEntry}]
          /\ cache \in [Challenge -> CacheEntry \cup {NoEntry}]
      BY EntryAssumption DEF Typed, CenterTyped, RedisTypeOK
    <3>2. ASSUME NEW d \in Challenge, StopRead(d)
          PROVE  /\ stopping'[c].pc = "update" => stopping'[c].snap.status = "DELETING"
                 /\ StatusOf(checking'[c]) # "INITIAL"
      BY <3>1, <3>2 DEF StopRead, InitialIsNew, CacheEntry
    <3>3. ASSUME NEW d \in Challenge, StatusRead(d) \/ StatusWrite(d)
          PROVE  /\ stopping'[c].pc = "update" => stopping'[c].snap.status = "DELETING"
                 /\ StatusOf(checking'[c]) # "INITIAL"
      BY <3>1, <3>3 DEF StatusRead, StatusWrite, InitialIsNew, StatusOf
    <3>4. ASSUME NEW d \in Challenge,
                 \/ StopUpdate(d) \/ StopDelete(d)
                 \/ AdminRead(d) \/ AdminDelete(d) \/ AdminRemove(d) \/ AdminForget(d)
          PROVE  /\ stopping'[c].pc = "update" => stopping'[c].snap.status = "DELETING"
                 /\ StatusOf(checking'[c]) # "INITIAL"
      BY <3>1, <3>4 DEF StopUpdate, StopDelete, AdminRead, AdminDelete, AdminRemove,
         AdminForget, InitialIsNew, IdleStop, center, stops
    <3> QED
      BY <2>1, <2>2, <3>2, <3>3, <3>4 DEF StopNext, StopAll, center, stops
  <2>3. CASE StartNext
    BY <2>1, <2>3 DEF StartNext, CheckDeployCount, Reserve, HttpFails, Rollback, CenterRead,
       CenterPhase, CenterForget, CenterEnqueue, CenterSetCache, stops
  <2>4. CASE ConsumerNext
    BY <2>1, <2>4 DEF ConsumerNext, MessageExpires, ConsumerPoll, ConsumerTake,
       ConsumerBatchEnds, ConsumerSubmit, ConsumerAck, ConsumerUpdate, ConsumerCrash, center, stops
  <2>5. CASE ClusterNext
    BY <2>1, <2>5 DEF ClusterNext, WorkflowStarts, WorkflowSucceeds, WorkflowFails, PodReady,
       PodStuck, PodTouched, PodGone, CronDelete, center, stops
  <2>6. CASE ListenerNext
    BY <2>1, <2>6 DEF ListenerNext, ListenerRead, Handle, HandleDeletion, RecordStop,
       CleanupGhost, FreeSlot, HandlePodRestart, IgnoreTerminating, HandlePending, RecordStart,
       HandleRunning, WatchLost, ListenerRestarts, Relist, center, stops
  <2> QED
    BY <2>1, <2>2, <2>3, <2>4, <2>5, <2>6 DEF Next, vars, Elapse, center, stops
<1> QED
  BY <1>1, <1>2, <1>3 DEF InitialIsNew

LEMMA AttendedInvariant == Spec => [](InitialIsNew /\ InitialIsAttended)
<1> DEFINE Inv == InitialIsNew /\ InitialIsAttended
<1>1. Init => Inv
  <2> SUFFICES ASSUME Init PROVE Inv
    OBVIOUS
  <2>1. \A c \in Challenge : StatusOf(cache[c]) = "absent"
    BY DEF Init, RedisInit, StatusOf
  <2>2. /\ \A n \in Ns : StatusOf(worker[n].snap) = "absent"
        /\ \A c \in Challenge : stopping[c].pc = "idle" /\ StatusOf(checking[c]) = "absent"
    BY DEF Init, IdleWorker, IdleStop, StatusOf
  <2> QED
    BY <2>1, <2>2 DEF InitialIsNew, InitialIsAttended
<1>2. ASSUME Typed, Inv, [Next]_vars PROVE Inv'
  <2>1. ASSUME NEW c \in Challenge, StatusOf(cache'[c]) = "INITIAL"
        PROVE  \E r \in Req : Attends(r, c)'
    <3>1. CASE cache'[c] = cache[c]
      <4>1. StatusOf(cache[c]) = "INITIAL"
        BY <2>1, <3>1 DEF StatusOf
      <4>2. PICK r \in Req : Attends(r, c)
        BY <1>2, <4>1 DEF InitialIsAttended, Attends
      <4> QED
        BY <1>2, <2>1, <4>1, <4>2, AttendedStays
    <3> QED
      BY <1>2, <2>1, <3>1, InitialComes
  <2>2. InitialIsAttended'
    BY <2>1 DEF InitialIsAttended, Attends, StatusOf
  <2> QED
    BY <1>2, <2>2, InitialIsNewInductive
<1> QED
  BY <1>1, <1>2, PipelineTyped, PTL DEF Spec

\* No exception, of the call or of the publish, and no error status leaves a
\* reservation that no request will overwrite or roll back
\* (ChallengeController.cs:667-704, DeployService.cs:166-214).  Whether the
\* message of a published start is in the queue is another matter: the broker
\* may drop it without an error (QueuedIsPublished).
THEOREM ReservationsAreAttended == Spec => []InitialIsAttended
BY AttendedInvariant, PTL

-----------------------------------------------------------------------------
(***************************************************************************)
(* The order of a pod's events: with every operation and failure.          *)
(***************************************************************************)

\* What is still to be handled of a pod came before what it is now: its Deleted
\* event is the last one, and nothing but its creation was seen of it before it
\* went on.
Ordered(n) ==
    /\ pod[n] = "none" => events[n] = <<>> /\ worker[n].pc = "idle"
    /\ \A i \in 1 .. Len(events[n]) :
          /\ events[n][i] = "gone" => pod[n] = "gone" /\ i = Len(events[n])
          /\ events[n][i] # "created" => pod[n] # "created"
    /\ worker[n].pc # "idle" =>
          /\ worker[n].event = "gone" => pod[n] = "gone" /\ events[n] = <<>>
          /\ worker[n].event # "created" => pod[n] # "created"
    /\ worker[n].pc = "write" => worker[n].event = "ready"
    /\ worker[n].pc = "close" => worker[n].event = "gone"
    /\ worker[n].pc = "free" => worker[n].event # "gone"

\* A namespace has a pod only once its workflow has succeeded, and the
\* namespaces are submitted in their order.
Submitted ==
    /\ \A n \in Ns : workflow[n] # "Succeeded" => pod[n] = "none"
    /\ \E k \in 1 .. MaxNs + 1 : Unsubmitted = k .. MaxNs

PodsOrdered == Submitted /\ \A n \in Ns : Ordered(n)

\* What a handler does to its worker.
WorkerGoesOn(n) ==
    \/ worker'[n] = worker[n]
    \/ worker'[n].pc = "idle"
    \/ /\ worker[n].pc = "act" /\ worker'[n].event = worker[n].event
       /\ worker'[n].pc = "write" => worker[n].event = "ready"
       /\ worker'[n].pc = "close" => worker[n].event = "gone"
       /\ worker'[n].pc = "free" => worker[n].event # "gone"

LEMMA SamePodOrdered ==
    ASSUME NEW n \in Ns, Ordered(n), pod'[n] = pod[n], events'[n] = events[n],
           WorkerGoesOn(n)
    PROVE  Ordered(n)'
BY DEF Ordered, WorkerGoesOn

\* A pod moves on to a state that is not older than its own, unseen or seen.
LEMMA PodMovesOrdered ==
    ASSUME PodsTyped, NEW n \in Ns, Ordered(n), NEW st \in PodState,
           pod'[n] = st,
           events'[n] = events[n] \/ events'[n] = Append(events[n], st),
           WorkerGoesOn(n), pod[n] # "gone",
           st = "created" => pod[n] \in {"none", "created"}
    PROVE  Ordered(n)'
<1>1. events[n] \in Seq(PodState) /\ Len(events[n]) \in Nat
  BY DEF PodsTyped
<1>2. CASE events'[n] = events[n]
  BY <1>2, <1>1, EmptySeq DEF Ordered, WorkerGoesOn, PodState
<1>3. CASE events'[n] = Append(events[n], st)
  <2>1. /\ Len(events'[n]) = Len(events[n]) + 1
        /\ \A i \in 1 .. Len(events[n]) : events'[n][i] = events[n][i]
        /\ events'[n][Len(events[n]) + 1] = st
    BY <1>1, <1>3, AppendProperties
  <2>2. ASSUME NEW i \in 1 .. Len(events'[n])
        PROVE  /\ events'[n][i] = "gone" => pod'[n] = "gone" /\ i = Len(events'[n])
               /\ events'[n][i] # "created" => pod'[n] # "created"
    <3>1. CASE i = Len(events[n]) + 1
      BY <2>1, <3>1
    <3>2. CASE i # Len(events[n]) + 1
      <4>1. i \in 1 .. Len(events[n]) /\ events'[n][i] = events[n][i]
        BY <1>1, <2>1, <2>2, <3>2
      <4>2. events[n] # <<>>
        BY <4>1, EmptySeq
      <4> QED
        BY <4>1, <4>2 DEF Ordered
    <3> QED
      BY <3>1, <3>2
  <2>3. pod[n] # "none" \/ worker[n].pc = "idle"
    BY DEF Ordered
  <2>4. worker'[n].pc # "idle" =>
          /\ worker'[n].event # "gone"
          /\ worker'[n].event # "created" => pod'[n] # "created"
    BY <2>3 DEF Ordered, WorkerGoesOn, PodState
  <2>5. /\ worker'[n].pc = "write" => worker'[n].event = "ready"
        /\ worker'[n].pc = "close" => worker'[n].event = "gone"
        /\ worker'[n].pc = "free" => worker'[n].event # "gone"
    BY DEF Ordered, WorkerGoesOn
  <2>6. pod'[n] # "none"
    BY DEF PodState
  <2> QED
    BY <2>2, <2>4, <2>5, <2>6 DEF Ordered
<1> QED
  BY <1>2, <1>3

\* A step that changes at most the pod and the worker of one namespace.
LEMMA StepsOrdered ==
    ASSUME PodsTyped, \A n \in Ns : Ordered(n), \A n \in Ns : WorkerGoesOn(n), NEW m,
           \/ UNCHANGED <<pod, events>>
           \/ DeleteAccepted(m) \/ DeleteRejected(m)
           \/ \E st \in PodState : /\ m \in Ns /\ PodBecomes(m, st) /\ pod[m] # "gone"
                                   /\ st = "created" => pod[m] \in {"none", "created"}
    PROVE  \A n \in Ns : Ordered(n)'
<1> SUFFICES ASSUME NEW n \in Ns PROVE Ordered(n)'
  OBVIOUS
<1>1. CASE pod'[n] = pod[n] /\ events'[n] = events[n]
  BY <1>1, SamePodOrdered
<1>2. CASE DeleteAccepted(m)
  <2>1. m \in Ns /\ PodBecomes(m, "terminating") /\ pod[m] # "gone"
    BY <1>2 DEF DeleteAccepted, Alive
  <2>2. CASE m = n
    BY <2>1, <2>2, PodMovesOrdered DEF PodBecomes, PodsTyped, PodState
  <2> QED
    BY <1>1, <2>1, <2>2 DEF PodBecomes, PodsTyped
<1>3. ASSUME NEW st \in PodState, m \in Ns, PodBecomes(m, st), pod[m] # "gone",
             st = "created" => pod[m] \in {"none", "created"}
      PROVE  Ordered(n)'
  <2>1. CASE m = n
    BY <1>3, <2>1, PodMovesOrdered DEF PodBecomes, PodsTyped, PodState
  <2> QED
    BY <1>1, <1>3, <2>1 DEF PodBecomes, PodsTyped
<1> QED
  BY <1>1, <1>2, <1>3 DEF DeleteRejected

LEMMA ClusterOrdered ==
    ASSUME Typed, PodsOrdered, ClusterNext
    PROVE  PodsOrdered'
<1>1. PICK m \in Ns :
         \/ WorkflowStarts(m) \/ WorkflowSucceeds(m) \/ WorkflowFails(m)
         \/ PodReady(m) \/ PodStuck(m) \/ PodTouched(m) \/ PodGone(m) \/ CronDelete(m)
  BY DEF ClusterNext
<1>2. \A n \in Ns : WorkerGoesOn(n)
  BY <1>1 DEF WorkflowStarts, WorkflowSucceeds, WorkflowFails, PodReady,
     PodStuck, PodTouched, PodGone, CronDelete, listener, WorkerGoesOn
<1>3. \/ UNCHANGED <<pod, events>> \/ DeleteAccepted(m)
      \/ \E st \in PodState : /\ PodBecomes(m, st) /\ pod[m] # "gone"
                              /\ st = "created" => pod[m] \in {"none", "created"}
  BY <1>1 DEF WorkflowStarts, WorkflowSucceeds, WorkflowFails, PodReady, PodStuck,
     PodTouched, PodGone, CronDelete, PodState, Alive, PodsOrdered, Submitted
<1>4. \A n \in Ns : Ordered(n)'
  BY <1>2, <1>3, StepsOrdered DEF PodsOrdered, Typed, ClusterTyped
<1>5. Submitted'
  <2>1. /\ workflow \in [Ns -> {"none", "Pending", "Running", "Succeeded", "Failed"}]
        /\ pod \in [Ns -> PodState \cup {"none"}]
    BY DEF Typed, ClusterTyped, PodsTyped
  <2>2. ASSUME NEW n \in Ns, workflow'[n] # "Succeeded" PROVE pod'[n] = "none"
    BY <1>1, <2>1, <2>2 DEF WorkflowStarts, WorkflowSucceeds, WorkflowFails, PodReady,
       PodStuck, PodTouched, PodGone, CronDelete, DeleteAccepted, Alive, PodBecomes,
       PodsOrdered, Submitted
  <2>3. ASSUME NEW n \in Ns PROVE workflow'[n] = "none" <=> workflow[n] = "none"
    BY <1>1, <2>1 DEF WorkflowStarts, WorkflowSucceeds, WorkflowFails, PodReady,
       PodStuck, PodTouched, PodGone, CronDelete
  <2>4. Unsubmitted' = Unsubmitted
    BY <2>3 DEF Unsubmitted
  <2> QED
    BY <2>2, <2>4 DEF PodsOrdered, Submitted
<1> QED
  BY <1>4, <1>5 DEF PodsOrdered

LEMMA StopOrdered ==
    ASSUME Typed, PodsOrdered, StopNext
    PROVE  PodsOrdered'
<1>1. UNCHANGED <<workflow, worker>> /\ \A n \in Ns : WorkerGoesOn(n)
  BY DEF StopNext, StopRead, StopUpdate, StopDelete, AdminRead, AdminDelete, AdminRemove,
         AdminForget, StatusRead, StatusWrite, StopAll, cluster, listener, WorkerGoesOn
<1>2. /\ pod \in [Ns -> PodState \cup {"none"}] /\ events \in [Ns -> Seq(PodState)]
      /\ PodsTyped
  BY DEF Typed, ClusterTyped, PodsTyped
<1>3. CASE StopAll
  <2>1. ASSUME NEW n \in Alive
        PROVE  Ordered(n)' /\ pod[n] # "none"
    <3>1. /\ n \in Ns /\ pod'[n] = "terminating" /\ pod[n] \notin {"none", "gone"}
          /\ events'[n] = events[n] \/ events'[n] = Append(events[n], "terminating")
      BY <1>2, <1>3, <2>1 DEF StopAll, Alive
    <3> QED
      BY <1>1, <1>2, <3>1, PodMovesOrdered DEF PodsOrdered, PodState
  <2>2. ASSUME NEW n \in Ns, n \notin Alive
        PROVE  Ordered(n)' /\ pod'[n] = pod[n]
    <3>1. pod'[n] = pod[n] /\ events'[n] = events[n]
      BY <1>2, <1>3, <2>2 DEF StopAll
    <3> QED
      BY <1>1, <3>1, SamePodOrdered DEF PodsOrdered
  <2> QED
    BY <1>1, <2>1, <2>2 DEF PodsOrdered, Submitted, Unsubmitted
<1>4. CASE ~StopAll
  <2>1. \E m : \/ UNCHANGED <<pod, events>>
               \/ DeleteAccepted(m) \/ DeleteRejected(m)
    BY <1>4 DEF StopNext, StopRead, StopUpdate, StopDelete, AdminRead, AdminDelete,
       AdminRemove, AdminForget, StatusRead, StatusWrite, cluster
  <2>2. \A n \in Ns : Ordered(n)'
    BY <1>1, <1>2, <2>1, StepsOrdered DEF PodsOrdered
  <2>3. \A n \in Ns : pod[n] = "none" => pod'[n] = "none"
    BY <1>2, <2>1 DEF DeleteAccepted, DeleteRejected, Alive, PodBecomes
  <2> QED
    BY <1>1, <2>2, <2>3 DEF PodsOrdered, Submitted, Unsubmitted
<1> QED
  BY <1>3, <1>4

\* The next name is the first that is not in use.
LEMMA NextIsUnsubmitted ==
    ASSUME Submitted, Unsubmitted # {}
    PROVE  LET n == MaxNs + 1 - Cardinality(Unsubmitted)
           IN  n \in 1 .. MaxNs /\ n \in Unsubmitted /\ Unsubmitted = n .. MaxNs
<1>1. PICK k \in 1 .. MaxNs + 1 : Unsubmitted = k .. MaxNs
  BY DEF Submitted
<1>2. k \in 1 .. MaxNs
  BY <1>1, BoundsTyped
<1>3. Cardinality(Unsubmitted) = MaxNs - k + 1
  BY <1>1, <1>2, BoundsTyped, FS_Interval
<1> QED
  BY <1>1, <1>2, <1>3, BoundsTyped

LEMMA ConsumerOrdered ==
    ASSUME Typed, PodsOrdered, ConsumerNext
    PROVE  PodsOrdered'
<1>1. UNCHANGED <<pod, events, worker>>
  BY DEF ConsumerNext, MessageExpires, ConsumerPoll, ConsumerTake, ConsumerBatchEnds,
         ConsumerSubmit, ConsumerAck, ConsumerUpdate, ConsumerCrash, cluster, listener
<1>2. \A n \in Ns : Ordered(n)'
  BY <1>1, SamePodOrdered DEF PodsOrdered, WorkerGoesOn
<1>3. Submitted'
  <2>1. CASE UNCHANGED workflow
    BY <1>1, <2>1 DEF PodsOrdered, Submitted, Unsubmitted
  <2>2. CASE Unsubmitted # {} /\ ConsumerSubmit /\ workflow' # workflow
    <3> DEFINE n == MaxNs + 1 - Cardinality(Unsubmitted)
    <3>1. n \in 1 .. MaxNs /\ n \in Unsubmitted /\ Unsubmitted = n .. MaxNs
      BY <2>2, NextIsUnsubmitted DEF PodsOrdered
    <3>2. workflow' = [workflow EXCEPT ![n] = "Pending"]
      BY <2>2 DEF ConsumerSubmit
    <3> HIDE DEF n
    <3>3. workflow \in [Ns -> {"none", "Pending", "Running", "Succeeded", "Failed"}]
      BY DEF Typed, ClusterTyped
    <3>4. n \in Ns /\ workflow[n] = "none"
      BY <3>1 DEF Unsubmitted
    <3>5. Unsubmitted' = Unsubmitted \ {n}
      BY <3>2, <3>3, <3>4 DEF Unsubmitted
    <3>6. Unsubmitted' = n + 1 .. MaxNs
      BY <3>1, <3>5, BoundsTyped
    <3>7. n + 1 \in 1 .. MaxNs + 1
      BY <3>1, BoundsTyped
    <3>8. \A i \in Ns : workflow'[i] # "Succeeded" => pod'[i] = "none"
      BY <1>1, <3>2, <3>3, <3>4 DEF PodsOrdered, Submitted
    <3> QED
      BY <3>6, <3>7, <3>8 DEF Submitted
  <2>3. \/ UNCHANGED workflow
        \/ Unsubmitted # {} /\ ConsumerSubmit
    <3>1. CASE ConsumerSubmit
      BY <3>1 DEF ConsumerSubmit
    <3> QED
      BY <3>1 DEF ConsumerNext, MessageExpires, ConsumerPoll, ConsumerTake,
         ConsumerBatchEnds, ConsumerAck, ConsumerUpdate, ConsumerCrash, cluster
  <2> QED
    BY <2>1, <2>2, <2>3
<1> QED
  BY <1>2, <1>3 DEF PodsOrdered

\* A sequence is its head and the rest.
LEMMA TailIsRest ==
    ASSUME NEW S, NEW e \in Seq(S), e # <<>>
    PROVE  \E rest \in Seq(S) :
              /\ rest = Tail(e) /\ Head(e) = e[1] /\ 1 \in 1 .. Len(e)
              /\ Len(rest) \in Nat /\ Len(e) = Len(rest) + 1
              /\ \A i \in 1 .. Len(rest) : rest[i] = e[i + 1] /\ i + 1 \in 1 .. Len(e)
              /\ Len(rest) = 0 => rest = <<>>
<1> DEFINE rest == Tail(e)
<1>1. /\ rest \in Seq(S) /\ Len(rest) = Len(e) - 1
      /\ \A i \in 1 .. Len(rest) : rest[i] = e[i + 1]
  BY HeadTailProperties
<1>2. Len(e) \in Nat /\ Len(e) # 0 /\ Len(rest) \in Nat
  BY <1>1, EmptySeq, LenProperties
<1>3. Len(rest) = 0 => rest = <<>>
  BY <1>1, EmptySeq
<1>4. Head(e) = e[1] /\ 1 \in 1 .. Len(e)
  BY <1>2
<1> HIDE DEF rest
<1>5. Len(e) = Len(rest) + 1
  BY <1>1, <1>2
<1>6. \A i \in 1 .. Len(rest) : i + 1 \in 1 .. Len(e)
  BY <1>2, <1>5
<1> QED
  BY <1>1, <1>2, <1>3, <1>4, <1>5, <1>6 DEF rest

LEMMA ListenerOrdered ==
    ASSUME Typed, PodsOrdered, ListenerNext
    PROVE  PodsOrdered'
<1>1. UNCHANGED workflow
  BY DEF ListenerNext, ListenerRead, Handle, HandleDeletion, RecordStop, CleanupGhost,
         FreeSlot, HandlePodRestart, IgnoreTerminating, HandlePending, RecordStart,
         HandleRunning, WatchLost, ListenerRestarts, Relist, cluster
<1>2. /\ PodsTyped /\ pod \in [Ns -> PodState \cup {"none"}]
      /\ events \in [Ns -> Seq(PodState)]
      /\ worker \in [Ns -> [pc : {"idle", "act", "write", "close", "free"},
                            event : PodState, snap : CacheEntry \cup {NoEntry}]]
      /\ \A n \in Ns : Ordered(n)
  BY DEF Typed, ClusterTyped, PodsTyped, ListenerTyped, WorkersTyped, PodsOrdered
<1>3. ASSUME NEW m \in Ns, Handle(m)
      PROVE  /\ \A n \in Ns : Ordered(n)'
             /\ \A n \in Ns : pod[n] = "none" => pod'[n] = "none"
  <2>1. \A n \in Ns : WorkerGoesOn(n)
    <3> SUFFICES ASSUME NEW n \in Ns PROVE WorkerGoesOn(n)
      OBVIOUS
    <3>1. CASE Handled(m)
      BY <1>2, <3>1 DEF Handled, IdleWorker, WorkerGoesOn
    <3>2. CASE RecordStart(m) \/ HandlePodRestart(m)
      <4>1. \/ Handled(m)
            \/ worker' = [worker EXCEPT ![m].snap = Restarted(m)]
            \/ /\ worker' = [worker EXCEPT ![m].pc = "write", ![m].snap = Restarted(m)]
               /\ worker[m].event = "ready"
        BY <3>2 DEF RecordStart, HandlePodRestart
      <4>2. worker[m].pc = "act"
        BY <3>2 DEF RecordStart, HandlePodRestart
      <4> QED
        BY <1>2, <3>1, <4>1, <4>2 DEF WorkerGoesOn
    <3>3. CASE HandleDeletion(m) \/ CleanupGhost(m)
      BY <1>2, <3>1, <3>3 DEF HandleDeletion, CleanupGhost, Goes, WorkerGoesOn
    <3> QED
      BY <1>3, <3>1, <3>2, <3>3 DEF Handle, RecordStop, FreeSlot, IgnoreTerminating,
         HandlePending, HandleRunning
  <2>2. \/ UNCHANGED <<pod, events>>
        \/ DeleteAccepted(m) \/ DeleteRejected(m)
    BY <1>3 DEF Handle, HandleDeletion, RecordStop, CleanupGhost, FreeSlot, HandlePodRestart,
       IgnoreTerminating, HandlePending, RecordStart, HandleRunning, cluster
  <2>3. \A n \in Ns : Ordered(n)'
    BY <1>2, <2>1, <2>2, StepsOrdered
  <2>4. \A n \in Ns : pod[n] = "none" => pod'[n] = "none"
    BY <1>2, <2>2 DEF DeleteAccepted, DeleteRejected, Alive, PodBecomes
  <2> QED
    BY <2>3, <2>4
<1>4. ASSUME NEW m \in Ns, ListenerRead(m)
      PROVE  \A n \in Ns : Ordered(n)' /\ pod'[n] = pod[n]
  <2>1. ASSUME NEW n \in Ns, n # m PROVE Ordered(n)' /\ pod'[n] = pod[n]
    BY <1>2, <1>4, <2>1, SamePodOrdered DEF ListenerRead, WorkerGoesOn
  <2>2. Ordered(m)' /\ pod'[m] = pod[m]
    <3>1. events[m] \in Seq(PodState) /\ events[m] # <<>>
      BY <1>2, <1>4 DEF ListenerRead
    <3>2. PICK rest \in Seq(PodState) :
             /\ rest = Tail(events[m]) /\ Head(events[m]) = events[m][1]
             /\ 1 \in 1 .. Len(events[m])
             /\ Len(rest) \in Nat /\ Len(events[m]) = Len(rest) + 1
             /\ \A i \in 1 .. Len(rest) : /\ rest[i] = events[m][i + 1]
                                         /\ i + 1 \in 1 .. Len(events[m])
             /\ Len(rest) = 0 => rest = <<>>
      BY <3>1, TailIsRest
    <3>3. /\ events'[m] = rest /\ pod'[m] = pod[m]
          /\ worker'[m].pc = "act" /\ worker'[m].event = events[m][1]
      BY <1>2, <1>4, <3>2 DEF ListenerRead
    <3>4. \A i \in 1 .. Len(events[m]) :
            /\ events[m][i] = "gone" => pod[m] = "gone" /\ i = Len(events[m])
            /\ events[m][i] # "created" => pod[m] # "created"
      BY <1>2 DEF Ordered
    <3>5. pod[m] # "none"
      BY <1>2, <3>1 DEF Ordered
    <3>6. /\ events[m][1] = "gone" => pod[m] = "gone" /\ rest = <<>>
          /\ events[m][1] # "created" => pod[m] # "created"
      BY <3>2, <3>4
    <3>7. ASSUME NEW i \in 1 .. Len(rest)
          PROVE  /\ rest[i] = "gone" => pod[m] = "gone" /\ i = Len(rest)
                 /\ rest[i] # "created" => pod[m] # "created"
      <4>1. i + 1 \in 1 .. Len(events[m]) /\ rest[i] = events[m][i + 1]
        BY <3>2
      <4>2. /\ rest[i] = "gone" => pod[m] = "gone" /\ i + 1 = Len(events[m])
            /\ rest[i] # "created" => pod[m] # "created"
        BY <3>4, <4>1
      <4> QED
        BY <3>2, <4>2
    <3> QED
      BY <3>3, <3>5, <3>6, <3>7 DEF Ordered
  <2> QED
    BY <2>1, <2>2
<1>5. ASSUME WatchLost
      PROVE  \A n \in Ns : Ordered(n)' /\ pod'[n] = pod[n]
  BY <1>2, <1>5, SamePodOrdered DEF WatchLost, cluster, WorkerGoesOn
<1>6. ASSUME ListenerRestarts
      PROVE  \A n \in Ns : Ordered(n)' /\ pod'[n] = pod[n]
  <2> SUFFICES ASSUME NEW n \in Ns PROVE Ordered(n)' /\ pod'[n] = pod[n]
    OBVIOUS
  <2>1. /\ pod'[n] = pod[n] /\ events'[n] = <<>> /\ Len(<<>>) = 0
        /\ worker'[n].pc = "idle"
    BY <1>6 DEF ListenerRestarts, IdleWorker
  <2> QED
    BY <2>1 DEF Ordered
<1>7. ASSUME Relist
      PROVE  \A n \in Ns : Ordered(n)' /\ pod'[n] = pod[n]
  <2> SUFFICES ASSUME NEW n \in Ns PROVE Ordered(n)' /\ pod'[n] = pod[n]
    OBVIOUS
  <2>1. /\ pod'[n] = pod[n] /\ WorkerGoesOn(n)
        /\ events'[n] = IF pod[n] \notin {"none", "gone"} THEN Append(events[n], pod[n])
                        ELSE events[n]
    BY <1>7 DEF Relist, WorkerGoesOn
  <2>2. CASE pod[n] \in {"none", "gone"}
    BY <1>2, <2>1, <2>2, SamePodOrdered
  <2>3. CASE pod[n] \notin {"none", "gone"}
    <3>1. pod[n] \in PodState
      BY <1>2, <2>3
    <3> QED
      BY <1>2, <2>1, <2>3, <3>1, PodMovesOrdered
  <2> QED
    BY <2>2, <2>3
<1>8. /\ \A n \in Ns : Ordered(n)'
      /\ \A n \in Ns : pod[n] = "none" => pod'[n] = "none"
  BY <1>3, <1>4, <1>5, <1>6, <1>7 DEF ListenerNext
<1> QED
  BY <1>1, <1>8 DEF PodsOrdered, Submitted, Unsubmitted

LEMMA PodsOrderedInductive == ASSUME Typed, PodsOrdered, [Next]_vars PROVE PodsOrdered'
<1>1. CASE UNCHANGED <<workflow, pod, events, worker>>
  BY <1>1, SamePodOrdered DEF PodsOrdered, Submitted, Unsubmitted, WorkerGoesOn
<1>2. CASE StartNext
  BY <1>1, <1>2 DEF StartNext, CheckDeployCount, Reserve, HttpFails, Rollback, CenterRead,
     CenterPhase, CenterForget, CenterEnqueue, CenterSetCache, cluster, listener
<1>3. CASE Elapse \/ UNCHANGED vars
  BY <1>1, <1>3 DEF Elapse, vars, cluster, listener
<1> QED
  BY <1>2, <1>3, ConsumerOrdered, StopOrdered, ClusterOrdered, ListenerOrdered DEF Next

LEMMA InitPodsOrdered == Init => PodsOrdered
<1> SUFFICES ASSUME Init PROVE PodsOrdered
  OBVIOUS
<1>1. Unsubmitted = 1 .. MaxNs /\ 1 \in 1 .. MaxNs + 1
  BY BoundsTyped DEF Init, Unsubmitted, Ns
<1>2. \A n \in Ns : pod[n] = "none" /\ events[n] = <<>> /\ worker[n].pc = "idle"
  BY DEF Init, IdleWorker
<1>3. Len(<<>>) = 0
  OBVIOUS
<1> QED
  BY <1>1, <1>2, <1>3 DEF PodsOrdered, Submitted, Ordered

LEMMA EventsInOrder == Spec => []PodsOrdered
BY InitPodsOrdered, PodsOrderedInductive, PipelineTyped, PTL DEF Spec

-----------------------------------------------------------------------------
(***************************************************************************)
(* What a step does to one pod, its events and its worker.                 *)
(***************************************************************************)

\* The pod goes on by itself; a listener that watches sees it.
PodGoesOn(n) ==
    /\ worker'[n] = worker[n]
    /\ pod[n] # "gone" /\ pod'[n] \in PodState
    /\ pod'[n] = "created" => pod[n] \in {"none", "created"}
    /\ events'[n] = IF watching THEN Append(events[n], pod'[n]) ELSE events[n]

PodRests(n) == /\ pod'[n] = pod[n] /\ events'[n] = events[n] /\ worker'[n] = worker[n]

LEMMA PodBecomesGoesOn ==
    ASSUME PodsTyped, NEW m \in Ns, NEW st \in PodState, PodBecomes(m, st),
           pod[m] # "gone", st = "created" => pod[m] \in {"none", "created"},
           UNCHANGED worker, NEW n \in Ns
    PROVE  PodGoesOn(n) \/ PodRests(n)
BY DEF PodsTyped, PodBecomes, PodGoesOn, PodRests

LEMMA DeletionGoesOn ==
    ASSUME PodsTyped, NEW m, DeleteAccepted(m) \/ DeleteRejected(m),
           UNCHANGED worker, NEW n \in Ns
    PROVE  PodGoesOn(n) \/ PodRests(n)
<1>1. CASE DeleteAccepted(m)
  BY <1>1, PodBecomesGoesOn DEF DeleteAccepted, Alive, PodState
<1>2. CASE DeleteRejected(m)
  BY <1>2 DEF DeleteRejected, PodRests
<1> QED
  BY <1>1, <1>2

LEMMA PodSteps ==
    ASSUME Typed, PodsOrdered, [Next]_vars, NEW n \in Ns
    PROVE  \/ PodRests(n) \/ PodGoesOn(n) \/ ListenerRead(n) \/ Handle(n)
           \/ ListenerRestarts \/ Relist
<1>1. /\ PodsTyped /\ pod \in [Ns -> PodState \cup {"none"}]
      /\ events \in [Ns -> Seq(PodState)]
  BY DEF Typed, ClusterTyped, PodsTyped
<1>2. CASE UNCHANGED <<pod, events, worker>>
  BY <1>2 DEF PodRests
<1>3. CASE ClusterNext
  <2>1. PICK m \in Ns :
           \/ WorkflowStarts(m) \/ WorkflowSucceeds(m) \/ WorkflowFails(m)
           \/ PodReady(m) \/ PodStuck(m) \/ PodTouched(m) \/ PodGone(m) \/ CronDelete(m)
    BY <1>3 DEF ClusterNext
  <2>2. /\ UNCHANGED worker
        /\ \/ UNCHANGED <<pod, events, worker>> \/ DeleteAccepted(m)
           \/ \E st \in PodState : /\ PodBecomes(m, st) /\ pod[m] # "gone"
                                   /\ st = "created" => pod[m] \in {"none", "created"}
    BY <2>1 DEF WorkflowStarts, WorkflowSucceeds, WorkflowFails, PodReady, PodStuck,
       PodTouched, PodGone, CronDelete, PodState, Alive, PodsOrdered, Submitted, listener
  <2> QED
    BY <1>1, <1>2, <2>2, PodBecomesGoesOn, DeletionGoesOn
<1>4. CASE StopNext
  <2>1. CASE StopAll
    BY <1>1, <2>1 DEF StopAll, PodGoesOn, PodRests, Alive, PodState, listener
  <2>2. CASE ~StopAll
    <3>1. /\ UNCHANGED worker
          /\ \/ UNCHANGED <<pod, events, worker>>
             \/ \E m : DeleteAccepted(m) \/ DeleteRejected(m)
      BY <1>4, <2>2 DEF StopNext, StopRead, StopUpdate, StopDelete, AdminRead, AdminDelete,
         AdminRemove, AdminForget, StatusRead, StatusWrite, cluster, listener
    <3> QED
      BY <1>1, <1>2, <3>1, DeletionGoesOn
  <2> QED
    BY <2>1, <2>2
<1>5. CASE ListenerNext
  <2>1. ASSUME NEW m \in Ns, ListenerRead(m), m # n PROVE PodRests(n)
    BY <1>1, <2>1 DEF ListenerRead, PodRests, Typed, ListenerTyped, WorkersTyped
  <2>2. ASSUME NEW m \in Ns, Handle(m), m # n PROVE PodRests(n)
    <3>1. worker'[n] = worker[n]
      BY <2>2 DEF Handle, HandleDeletion, RecordStop, CleanupGhost, FreeSlot, HandlePodRestart,
         IgnoreTerminating, HandlePending, RecordStart, HandleRunning, Handled, Goes, Typed,
         ListenerTyped, WorkersTyped
    <3>2. UNCHANGED <<pod, events>> \/ DeleteAccepted(m)
      BY <2>2 DEF Handle, HandleDeletion, RecordStop, CleanupGhost, FreeSlot, HandlePodRestart,
         IgnoreTerminating, HandlePending, RecordStart, HandleRunning, DeleteRejected, cluster
    <3> QED
      BY <1>1, <2>2, <3>1, <3>2 DEF DeleteAccepted, PodBecomes, PodRests
  <2>3. CASE WatchLost
    BY <1>2, <2>3 DEF WatchLost, cluster
  <2> QED
    BY <1>5, <2>1, <2>2, <2>3 DEF ListenerNext
<1>6. CASE StartNext
  BY <1>2, <1>6 DEF StartNext, CheckDeployCount, Reserve, HttpFails, Rollback, CenterRead,
     CenterPhase, CenterForget, CenterEnqueue, CenterSetCache, cluster, listener
<1>7. CASE ConsumerNext
  BY <1>2, <1>7 DEF ConsumerNext, MessageExpires, ConsumerPoll, ConsumerTake,
     ConsumerBatchEnds, ConsumerSubmit, ConsumerAck, ConsumerUpdate, ConsumerCrash, cluster,
     listener
<1> QED
  BY <1>2, <1>3, <1>4, <1>5, <1>6, <1>7 DEF Next, vars, Elapse, cluster, listener

\* A handler leaves its pod alone or has it deleted.
LEMMA HandlePods ==
    ASSUME Typed, NEW n \in Ns, Handle(n)
    PROVE  \/ pod'[n] = pod[n] /\ events'[n] = events[n]
           \/ /\ n \in Alive /\ pod'[n] = "terminating"
              /\ events'[n] = IF watching THEN Append(events[n], "terminating")
                              ELSE events[n]
<1>1. \/ UNCHANGED <<pod, events>>
      \/ DeleteAccepted(n)
  BY DEF Handle, HandleDeletion, RecordStop, CleanupGhost, FreeSlot, HandlePodRestart,
     IgnoreTerminating, HandlePending, RecordStart, HandleRunning, DeleteRejected, cluster
<1> QED
  BY <1>1 DEF DeleteAccepted, PodBecomes, Typed, ClusterTyped, PodsTyped

\* Once submitted, a namespace belongs to its challenge.
LEMMA OwnerStays ==
    ASSUME Typed, PodsOrdered, [Next]_vars, NEW n \in Ns, workflow[n] # "none"
    PROVE  owner'[n] = owner[n] /\ workflow'[n] # "none"
<1>1. CASE ConsumerSubmit
  <2> DEFINE k == MaxNs + 1 - Cardinality(Unsubmitted)
  <2>1. Unsubmitted # {} => k \in Unsubmitted
    BY NextIsUnsubmitted DEF PodsOrdered
  <2>2. n \notin Unsubmitted
    BY DEF Unsubmitted
  <2>3. \/ UNCHANGED <<owner, workflow>>
        \/ /\ Unsubmitted # {} /\ owner' = [owner EXCEPT ![k] = consumer.cc]
           /\ workflow' = [workflow EXCEPT ![k] = "Pending"]
    BY <1>1 DEF ConsumerSubmit
  <2> HIDE DEF k
  <2> QED
    BY <2>1, <2>2, <2>3 DEF Typed, ClusterTyped
<1>2. CASE UNCHANGED <<owner, workflow>>
  BY <1>2
<1>3. CASE ClusterNext
  BY <1>3 DEF ClusterNext, WorkflowStarts, WorkflowSucceeds, WorkflowFails, PodReady,
     PodStuck, PodTouched, PodGone, CronDelete, Typed, ClusterTyped
<1>4. CASE ConsumerNext
  BY <1>1, <1>2, <1>4 DEF ConsumerNext, MessageExpires, ConsumerPoll, ConsumerTake,
     ConsumerBatchEnds, ConsumerAck, ConsumerUpdate, ConsumerCrash, cluster
<1>5. CASE StartNext
  BY <1>2, <1>5 DEF StartNext, CheckDeployCount, Reserve, HttpFails, Rollback, CenterRead,
     CenterPhase, CenterForget, CenterEnqueue, CenterSetCache, cluster
<1>6. CASE StopNext
  BY <1>2, <1>6 DEF StopNext, StopRead, StopUpdate, StopDelete, AdminRead, AdminDelete,
     AdminRemove, AdminForget, StatusRead, StatusWrite, StopAll, cluster
<1>7. CASE ListenerNext
  BY <1>2, <1>7 DEF ListenerNext, ListenerRead, Handle, HandleDeletion, RecordStop,
     CleanupGhost, FreeSlot, HandlePodRestart, IgnoreTerminating, HandlePending, RecordStart,
     HandleRunning, WatchLost, ListenerRestarts, Relist, cluster
<1> QED
  BY <1>2, <1>3, <1>4, <1>5, <1>6, <1>7 DEF Next, vars, Elapse, cluster

-----------------------------------------------------------------------------
(***************************************************************************)
(* No false running record, while the watch holds and nothing but the      *)
(* listener writes the entry back.                                         *)
(***************************************************************************)

\* Every worker that is busy, and every event that waits, belongs to a pod that is
\* still watched.  A worker that has only the row left to close is not busy: the
\* entry is gone already.
Busy(n) == events[n] # <<>> \/ worker[n].pc \notin {"idle", "close"}

Followed ==
    /\ watching = TRUE
    /\ \A c \in Challenge : checking[c] = NoEntry
    /\ \A n \in Ns : Busy(n) => Watched(n)

Unbroken == "watch" \notin May /\ "restart" \notin May /\ "status" \notin May

LEMMA WatchGoesOn ==
    ASSUME Typed, Unbroken, Followed, [Next]_vars
    PROVE  /\ watching' = TRUE /\ \A c \in Challenge : checking'[c] = NoEntry
           /\ ~ListenerRestarts /\ ~Relist
<1>1. ~ListenerRestarts /\ ~Relist /\ ~WatchLost
  BY DEF Unbroken, Followed, ListenerRestarts, Relist, WatchLost
<1>2. UNCHANGED watching
  BY <1>1 DEF Next, StartNext, CheckDeployCount, Reserve, HttpFails, Rollback, CenterRead,
     CenterPhase, CenterForget, CenterEnqueue, CenterSetCache, ConsumerNext, MessageExpires,
     ConsumerPoll, ConsumerTake, ConsumerBatchEnds, ConsumerSubmit, ConsumerAck,
     ConsumerUpdate, ConsumerCrash, StopNext, StopRead, StopUpdate, StopDelete, AdminRead,
     AdminDelete, AdminRemove, AdminForget, StatusRead, StatusWrite, StopAll, ClusterNext,
     WorkflowStarts, WorkflowSucceeds, WorkflowFails, PodReady, PodStuck, PodTouched, PodGone,
     CronDelete, ListenerNext, ListenerRead, Handle, HandleDeletion, RecordStop, CleanupGhost,
     FreeSlot, HandlePodRestart, IgnoreTerminating, HandlePending, RecordStart, HandleRunning,
     Elapse, vars, listener
<1>3. UNCHANGED checking
  <2>1. \A c \in Challenge : ~StatusRead(c) /\ ~StatusWrite(c)
    BY DEF StatusRead, StatusWrite, Unbroken, Followed
  <2> QED
    BY <2>1 DEF Next, StartNext, CheckDeployCount, Reserve, HttpFails, Rollback, CenterRead,
     CenterPhase, CenterForget, CenterEnqueue, CenterSetCache, ConsumerNext, MessageExpires,
     ConsumerPoll, ConsumerTake, ConsumerBatchEnds, ConsumerSubmit, ConsumerAck,
     ConsumerUpdate, ConsumerCrash, StopNext, StopRead, StopUpdate, StopDelete, AdminRead,
     AdminDelete, AdminRemove, AdminForget, StopAll, ClusterNext, WorkflowStarts,
     WorkflowSucceeds, WorkflowFails, PodReady, PodStuck, PodTouched, PodGone, CronDelete,
     ListenerNext, ListenerRead, Handle, HandleDeletion, RecordStop, CleanupGhost, FreeSlot,
     HandlePodRestart, IgnoreTerminating, HandlePending, RecordStart, HandleRunning, WatchLost,
     ListenerRestarts, Relist, Elapse, vars, center, stops
<1> QED
  BY <1>1, <1>2, <1>3 DEF Followed

\* A pod that is watched stays so until its Deleted event has been handled.
LEMMA WatchedStays ==
    ASSUME Typed, PodsOrdered, Unbroken, Followed, [Next]_vars, NEW n \in Ns, Watched(n),
           ~HandleDeletion(n)
    PROVE  Watched(n)'
<1>1. /\ pod \in [Ns -> PodState \cup {"none"}] /\ events[n] \in Seq(PodState)
      /\ Len(events[n]) \in Nat /\ DOMAIN events[n] = 1 .. Len(events[n])
      /\ Ordered(n) /\ watching = TRUE /\ ~ListenerRestarts /\ ~Relist
  BY WatchGoesOn, LenProperties DEF Typed, ClusterTyped, PodsTyped, PodsOrdered, Followed
<1>2. CASE PodRests(n)
  BY <1>2 DEF PodRests, Watched
<1>3. CASE PodGoesOn(n)
  <2>1. /\ pod'[n] \in PodState /\ events'[n] = Append(events[n], pod'[n])
    BY <1>1, <1>3 DEF PodGoesOn
  <2>2. /\ Len(events'[n]) = Len(events[n]) + 1
        /\ events'[n][Len(events[n]) + 1] = pod'[n]
        /\ events'[n] \in Seq(PodState)
    BY <1>1, <2>1, AppendProperties
  <2>3. Len(events[n]) + 1 \in DOMAIN events'[n]
    BY <1>1, <2>2, LenProperties
  <2> QED
    BY <2>1, <2>2, <2>3 DEF Watched, PodState
<1>4. CASE ListenerRead(n)
  <2>1. events[n] # <<>> /\ worker[n].pc = "idle"
    BY <1>4 DEF ListenerRead
  <2>2. PICK rest \in Seq(PodState) :
           /\ rest = Tail(events[n]) /\ Head(events[n]) = events[n][1]
           /\ Len(rest) \in Nat /\ Len(events[n]) = Len(rest) + 1
           /\ \A i \in 1 .. Len(rest) : rest[i] = events[n][i + 1]
    <3>1. PICK e \in Seq(PodState) : e = events[n] /\ e # <<>>
      BY <1>1, <2>1
    <3>2. \E rest \in Seq(PodState) :
             /\ rest = Tail(e) /\ Head(e) = e[1] /\ 1 \in 1 .. Len(e)
             /\ Len(rest) \in Nat /\ Len(e) = Len(rest) + 1
             /\ \A i \in 1 .. Len(rest) : rest[i] = e[i + 1] /\ i + 1 \in 1 .. Len(e)
             /\ Len(rest) = 0 => rest = <<>>
      BY <3>1, TailIsRest
    <3> QED
      BY <3>1, <3>2
  <2>3. /\ events'[n] = rest /\ pod'[n] = pod[n]
        /\ worker'[n].pc = "act" /\ worker'[n].event = events[n][1]
    BY <1>1, <1>4, <2>2 DEF ListenerRead, Typed, ClusterTyped, PodsTyped, ListenerTyped,
       WorkersTyped
  <2>4. CASE pod[n] \in {"created", "ready", "stuck", "terminating"}
    BY <2>3, <2>4 DEF Watched
  <2>5. ASSUME NEW i \in DOMAIN events[n], events[n][i] = "gone"
        PROVE  Watched(n)'
    <3>1. CASE i = 1
      BY <2>3, <2>5, <3>1 DEF Watched
    <3>2. CASE i # 1
      <4>1. i - 1 \in 1 .. Len(rest) /\ rest[i - 1] = events[n][i]
        BY <1>1, <2>2, <3>2
      <4>2. DOMAIN rest = 1 .. Len(rest)
        BY LenProperties
      <4> QED
        BY <2>3, <2>5, <4>1, <4>2 DEF Watched
    <3> QED
      BY <3>1, <3>2
  <2> QED
    BY <2>1, <2>4, <2>5 DEF Watched
<1>5. CASE Handle(n)
  <2>3. ~RecordStop(n)
    <3> SUFFICES ASSUME RecordStop(n) PROVE FALSE
      OBVIOUS
    <3>1. worker[n].pc = "close" /\ pod[n] = "gone" /\ events[n] = <<>>
      BY <1>1 DEF RecordStop, Ordered
    <3> QED
      BY <3>1 DEF Watched
  <2>1. worker[n].event # "gone"
    BY <1>1, <1>5, <2>3 DEF Handle, CleanupGhost, FreeSlot, HandlePodRestart, IgnoreTerminating,
       HandlePending, RecordStart, HandleRunning, Ordered
  <2>2. \/ pod'[n] = pod[n] /\ events'[n] = events[n]
        \/ pod'[n] = "terminating"
    BY <1>5, HandlePods
  <2> QED
    BY <2>1, <2>2 DEF Watched
<1> QED
  BY <1>1, <1>2, <1>3, <1>4, <1>5, PodSteps

LEMMA WatchedHasPod ==
    ASSUME PodsOrdered, NEW n \in Ns, Watched(n)
    PROVE  workflow[n] # "none"
<1>1. pod[n] # "none"
  <2>1. ASSUME NEW i \in DOMAIN events[n] PROVE events[n] # <<>>
    BY <2>1
  <2> QED
    BY <2>1 DEF Watched, PodsOrdered, Ordered
<1> QED
  BY <1>1 DEF PodsOrdered, Submitted

LEMMA FollowedInductive ==
    ASSUME Typed, PodsOrdered, Unbroken, Followed, [Next]_vars
    PROVE  Followed'
<1>1. watching' = TRUE /\ \A c \in Challenge : checking'[c] = NoEntry
  BY WatchGoesOn
<1>2. ASSUME NEW n \in Ns, Busy(n)'
      PROVE  Watched(n)'
  <2>1. CASE HandleDeletion(n)
    <3>1. worker[n].event = "gone" /\ worker[n].pc = "act" /\ UNCHANGED events
      BY <2>1 DEF HandleDeletion, cluster
    <3>2. events[n] = <<>>
      BY <3>1 DEF PodsOrdered, Ordered
    <3>3. worker'[n].pc = "close"
      BY <2>1 DEF HandleDeletion, Goes, Typed, ListenerTyped, WorkersTyped
    <3> QED
      BY <1>2, <3>1, <3>2, <3>3 DEF Busy
  <2>2. CASE Watched(n) /\ ~HandleDeletion(n)
    BY <2>2, WatchedStays
  <2>3. CASE ~Watched(n)
    <3>1. ~Busy(n)
      BY <2>3 DEF Followed
    <3>2. ~PodRests(n)
      BY <1>2, <3>1 DEF PodRests, Busy
    <3>8. ~RecordStop(n)
      <4> SUFFICES ASSUME RecordStop(n) PROVE FALSE
        OBVIOUS
      <4>1. events'[n] = events[n] /\ worker'[n].pc = "idle"
        BY DEF RecordStop, Handled, IdleWorker, cluster, Typed, ListenerTyped, WorkersTyped
      <4> QED
        BY <1>2, <3>1, <4>1 DEF Busy
    <3>3. ~ListenerRead(n) /\ ~Handle(n)
      BY <3>1, <3>8 DEF ListenerRead, Handle, HandleDeletion, CleanupGhost, FreeSlot,
         HandlePodRestart, IgnoreTerminating, HandlePending, RecordStart, HandleRunning, Busy
    <3>4. PodGoesOn(n)
      BY <3>2, <3>3, PodSteps, WatchGoesOn
    <3>5. pod[n] = "none"
      BY <2>3, <3>4 DEF PodGoesOn, Watched, Typed, ClusterTyped, PodsTyped, PodState
    <3>6. pod'[n] # "gone" => Watched(n)'
      BY <3>4 DEF PodGoesOn, Watched, PodState
    <3>7. CASE pod'[n] = "gone"
      <4>1. events[n] \in Seq(PodState) /\ events'[n] = Append(events[n], "gone")
        BY <3>4, <3>7 DEF PodGoesOn, Followed, Typed, ClusterTyped, PodsTyped
      <4>2. /\ events'[n] \in Seq(PodState) /\ Len(events'[n]) = Len(events[n]) + 1
            /\ events'[n][Len(events[n]) + 1] = "gone" /\ Len(events[n]) \in Nat
        BY <4>1, AppendProperties, LenProperties DEF PodState
      <4>3. Len(events[n]) + 1 \in DOMAIN events'[n]
        BY <4>2, LenProperties
      <4> QED
        BY <4>2, <4>3 DEF Watched
    <3> QED
      BY <3>6, <3>7
  <2> QED
    BY <2>1, <2>2, <2>3
<1> QED
  BY <1>1, <1>2 DEF Followed

\* An entry that is RUNING after a step was so before, or a worker writes it that
\* handles an event other than the deletion.
LEMMA RunningComes ==
    ASSUME Typed, PodsOrdered, InitialIsNew, Followed, [Next]_vars, NEW c \in Challenge,
           StatusOf(cache'[c]) = "RUNING"
    PROVE  \/ cache'[c] = cache[c]
           \/ \E n \in Ns : /\ owner[n] = c /\ worker[n].pc \notin {"idle", "close"}
                           /\ worker[n].event # "gone"
<1> USE DEF StatusOf, NewEntry
<1>1. cache \in [Challenge -> CacheEntry \cup {NoEntry}]
  BY EntryAssumption DEF Typed, RedisTypeOK
<1>2. CASE UNCHANGED cache
  BY <1>2
<1>3. ASSUME NEW d \in Challenge,
             RemoveDeployment(d) \/ RemoveCache(d)
      PROVE  cache'[c] = cache[c]
  BY <1>1, <1>3 DEF RemoveDeployment, RemoveCache
<1>4. ASSUME NEW d \in Challenge, NEW e \in CacheEntry, e.status # "RUNING",
             \/ UpdateExpiration(d, e) \/ SetCache(d, e) \/ CreatePass(d, e)
      PROVE  cache'[c] = cache[c]
  BY <1>1, <1>4 DEF UpdateExpiration, SetCache, CreatePass, redis
<1>5. CASE StartNext
  <2>1. PICK r \in Req : \/ \E d \in Challenge : CheckDeployCount(r, d)
                         \/ Reserve(r) \/ HttpFails(r) \/ Rollback(r)
                         \/ CenterRead(r) \/ CenterPhase(r)
                         \/ CenterForget(r) \/ CenterEnqueue(r) \/ CenterSetCache(r)
    BY <1>5 DEF StartNext
  <2>2. req[r].cc \in Challenge
    BY DEF Typed, CenterTyped, Request
  <2>3. /\ NewEntry("INITIAL") \in CacheEntry /\ NewEntry("PENDING_DEPLOY") \in CacheEntry
        /\ NewEntry("INITIAL").status # "RUNING"
        /\ NewEntry("PENDING_DEPLOY").status # "RUNING"
    BY EntriesTyped DEF Status
  <2>4. \/ UNCHANGED cache
        \/ RemoveDeployment(req[r].cc) \/ RemoveCache(req[r].cc)
        \/ CreatePass(req[r].cc, NewEntry("INITIAL"))
        \/ SetCache(req[r].cc, NewEntry("PENDING_DEPLOY"))
    BY <2>1 DEF CheckDeployCount, Reserve, CreateAlreadyExists, CreateLimitExceeded, HttpFails,
       Rollback, CenterRead, CenterPhase, CenterForget, CenterEnqueue, CenterSetCache, redis
  <2> QED
    BY <1>2, <1>3, <1>4, <2>2, <2>3, <2>4
<1>6. CASE ConsumerNext
  <2>1. CASE ConsumerUpdate
    <3> DEFINE e == [consumer.snap EXCEPT !.ns = consumer.ns, !.status = "PENDING",
                                         !.timed = FALSE]
    <3>1. e \in CacheEntry /\ e.status # "RUNING" /\ consumer.cc \in Challenge
      BY DEF Typed, ConsumerTyped, CacheEntry, Status
    <3>2. UpdateExpiration(consumer.cc, e)
      BY <2>1 DEF ConsumerUpdate
    <3> HIDE DEF e
    <3> QED
      BY <1>4, <3>1, <3>2
  <2> QED
    BY <1>2, <1>6, <2>1 DEF ConsumerNext, MessageExpires, ConsumerPoll, ConsumerTake,
       ConsumerBatchEnds, ConsumerSubmit, ConsumerAck, ConsumerCrash, redis
<1>7. CASE StopNext
  <2>1. ASSUME NEW d \in Challenge, StopUpdate(d) PROVE cache'[c] = cache[c]
    BY <1>4, <2>1 DEF StopUpdate, Typed, CenterTyped, InitialIsNew
  <2>2. ASSUME NEW d \in Challenge, StatusWrite(d) PROVE cache'[c] = cache[c]
    BY <2>2 DEF StatusWrite, Followed
  <2>3. ASSUME NEW d \in Challenge, AdminRemove(d) \/ AdminForget(d)
        PROVE  cache'[c] = cache[c]
    BY <1>3, <2>3 DEF AdminRemove, AdminForget
  <2> QED
    BY <1>2, <1>7, <2>1, <2>2, <2>3 DEF StopNext, StopRead, StopDelete, AdminRead,
       AdminDelete, StatusRead, StopAll, redis
<1>8. CASE ClusterNext
  BY <1>2, <1>8 DEF ClusterNext, WorkflowStarts, WorkflowSucceeds, WorkflowFails, PodReady,
     PodStuck, PodTouched, PodGone, CronDelete, redis
<1>9. CASE ListenerNext
  <2>1. ASSUME NEW n \in Ns, Handle(n), cache'[c] # cache[c]
        PROVE  /\ owner[n] = c /\ worker[n].pc \notin {"idle", "close"}
               /\ worker[n].event # "gone"
    <3>1. owner[n] \in Challenge
      BY DEF Typed, ClusterTyped
    <3>2. ~RemoveDeployment(owner[n])
      BY <1>3, <2>1, <3>1
    <3>3. worker[n].pc \notin {"idle", "close"} /\ worker[n].event # "gone"
      BY <2>1, <3>2 DEF Handle, HandleDeletion, RecordStop, CleanupGhost, FreeSlot,
         HandlePodRestart, IgnoreTerminating, HandlePending, RecordStart, HandleRunning,
         PodsOrdered, Ordered, redis
    <3>4. owner[n] = c
      <4>1. \/ UNCHANGED redis \/ \E e \in CacheEntry : UpdateExpiration(owner[n], e)
        BY <2>1, <3>2, HandleIsRedis
      <4> QED
        BY <1>1, <2>1, <3>1, <4>1 DEF UpdateExpiration, redis
    <3> QED
      BY <3>3, <3>4
  <2> QED
    BY <1>2, <1>9, <2>1 DEF ListenerNext, ListenerRead, WatchLost, ListenerRestarts,
       Relist, redis
<1>10. CASE Elapse
  <2>1. PICK S \in SUBSET Challenge, K \in SUBSET Challenge : TimePasses(S, K, {})
    BY <1>10 DEF Elapse
  <2> QED
    BY <2>1, <1>1 DEF TimePasses
<1> QED
  BY <1>2, <1>5, <1>6, <1>7, <1>8, <1>9, <1>10 DEF Next, vars

\* While the watch holds, an entry is RUNING only as long as the pod is there or its
\* Deleted event is still to be handled (ChallengesInformerService.cs:224-229,
\* 384-393, RedisHelper.cs:361-365).
THEOREM RunningIsFollowed ==
    ASSUME "watch" \notin May, "restart" \notin May, "status" \notin May
    PROVE  Spec => []RunningIsWatched
<1> DEFINE Inv == Followed /\ RunningIsWatched
<1>1. Init => Inv
  <2> SUFFICES ASSUME Init PROVE Inv
    OBVIOUS
  <2>1. \A c \in Challenge : StatusOf(cache[c]) = "absent"
    BY DEF Init, RedisInit, StatusOf
  <2>2. \A n \in Ns : ~Busy(n)
    BY DEF Init, IdleWorker, Busy
  <2> QED
    BY <2>1, <2>2 DEF Init, Followed, RunningIsWatched
<1>2. ASSUME Typed, PodsOrdered, InitialIsNew, Inv, [Next]_vars PROVE Inv'
  <2>1. Unbroken
    BY DEF Unbroken
  <2>2. Followed'
    BY <1>2, <2>1, FollowedInductive
  <2>3. ASSUME NEW c \in Challenge, StatusOf(cache'[c]) = "RUNING"
        PROVE  \E n \in Ns : owner'[n] = c /\ Watched(n)'
    <3>1. PICK n \in Ns : owner[n] = c /\ Watched(n) /\ ~HandleDeletion(n)
      <4>1. CASE cache'[c] = cache[c]
        <5>1. PICK n \in Ns : owner[n] = c /\ Watched(n)
          BY <1>2, <2>3, <4>1 DEF RunningIsWatched, StatusOf
        <5>2. ASSUME HandleDeletion(n) PROVE FALSE
          <6>1. cache'[c] = NoEntry
            BY <1>2, <5>1, <5>2 DEF HandleDeletion, RemoveDeployment, Typed, RedisTypeOK
          <6> QED
            BY <2>3, <6>1 DEF StatusOf
        <5> QED
          BY <5>1, <5>2
      <4>2. CASE cache'[c] # cache[c]
        <5>1. PICK n \in Ns : /\ owner[n] = c /\ worker[n].pc \notin {"idle", "close"}
                              /\ worker[n].event # "gone"
          BY <1>2, <2>3, <4>2, RunningComes
        <5> QED
          BY <1>2, <5>1 DEF Followed, Busy, HandleDeletion
      <4> QED
        BY <4>1, <4>2
    <3>2. Watched(n)'
      BY <1>2, <2>1, <3>1, WatchedStays
    <3>3. owner'[n] = owner[n]
      BY <1>2, <3>1, WatchedHasPod, OwnerStays
    <3> QED
      BY <3>1, <3>2, <3>3
  <2> QED
    BY <2>2, <2>3 DEF RunningIsWatched, StatusOf
<1> QED
  BY <1>1, <1>2, PipelineTyped, EventsInOrder, AttendedInvariant, PTL DEF Spec

-----------------------------------------------------------------------------
(***************************************************************************)
(* The slots: one slot, one deployment.  What follows holds whatever users *)
(* stop, the cron job deletes and the watch misses; what it excludes is    *)
(* listed in Kept, and is exactly what frees a slot early or deploys a     *)
(* message twice.                                                          *)
(***************************************************************************)

\* Without a lost call, a restart of the consumer, a failing workflow, a stop by
\* an administrator and an expiry.
Kept == /\ "http" \notin May /\ "consumer" \notin May /\ "workflow" \notin May
        /\ "admin" \notin May /\ "elapse" \notin May

\* A slot is used by the request that has reserved it, then by its message, by the
\* consumer that has taken the message, and by the namespace until the Deleted
\* event of its pod has been handled.
Asking(c) == {r \in Req : /\ req[r].cc = c
                          /\ req[r].pc \in {"read", "phase", "forget", "enqueue",
                                            "failed"}}
Queued(c) == {i \in 1 .. Len(queue) : queue[i] = c}
Taken(c) == consumer.pc = "submit" /\ consumer.cc = c
Occupies(n) == \/ workflow[n] \in {"Pending", "Running"}
               \/ pod[n] \in {"created", "ready", "stuck", "terminating"}
               \/ Busy(n)
Occupying(c) == {n \in Ns : owner[n] = c /\ Occupies(n)}

Single(S) == \A x, y \in S : x = y

\* One of them at a time, and only while the slot is held; the consumer and the
\* listener find its entry.
OneUse(c) ==
    /\ Single(Asking(c)) /\ Single(Queued(c)) /\ Single(Occupying(c))
    /\ Asking(c) # {} => Queued(c) = {} /\ ~Taken(c) /\ Occupying(c) = {}
    /\ Queued(c) # {} => ~Taken(c) /\ Occupying(c) = {}
    /\ Taken(c) => Occupying(c) = {}
    /\ \/ Asking(c) # {} \/ Queued(c) # {} \/ Taken(c) \/ Occupying(c) # {}
       => slot[c] = "live"
    /\ Taken(c) \/ Occupying(c) # {} => cache[c] # NoEntry

\* No pod is stuck, and a worker holds the entry of its namespace: there is no
\* ghost to clean up.
Steady(n) ==
    /\ pod[n] # "stuck" /\ \A i \in 1 .. Len(events[n]) : events[n][i] # "stuck"
    /\ worker[n].pc # "idle" => worker[n].event # "stuck" /\ worker[n].pc # "free"
    /\ worker[n].pc = "act" /\ worker[n].event # "gone" => worker[n].snap # NoEntry

SlotInv == /\ \A c \in Challenge : OneUse(c) /\ forcing[c].pc = "idle"
           /\ \A n \in Ns : Steady(n)

-----------------------------------------------------------------------------
\* A use that ends or goes on, while the slot and the entry stay.
LEMMA UseGoesOn ==
    ASSUME NEW c \in Challenge, OneUse(c),
           Asking(c)' \subseteq Asking(c), Occupying(c)' \subseteq Occupying(c),
           Single(Queued(c))', Queued(c) = {} => Queued(c)' = {},
           Taken(c)' => Taken(c),
           slot[c] = "live" => slot'[c] = "live",
           cache[c] # NoEntry => cache'[c] # NoEntry
    PROVE  OneUse(c)'
BY DEF OneUse, Single

LEMMA UseEnds ==
    ASSUME NEW c \in Challenge, Asking(c)' = {}, Queued(c)' = {}, Occupying(c)' = {},
           ~Taken(c)'
    PROVE  OneUse(c)'
BY DEF OneUse, Single

LEMMA QueueStays ==
    ASSUME NEW c \in Challenge, OneUse(c), UNCHANGED queue
    PROVE  Queued(c)' = Queued(c) /\ Single(Queued(c))'
BY DEF OneUse, Single, Queued

\* The first message leaves the queue: the others keep their order.
LEMMA QueueMovesUp ==
    ASSUME NEW c \in Challenge, OneUse(c), queue \in Seq(Challenge), queue # <<>>,
           queue' = Tail(queue)
    PROVE  /\ Single(Queued(c))'
           /\ Queued(c) = {} => Queued(c)' = {}
           /\ Head(queue) = c => Queued(c) # {} /\ Queued(c)' = {}
<1>1. PICK rest \in Seq(Challenge) :
         /\ rest = Tail(queue) /\ Head(queue) = queue[1] /\ 1 \in 1 .. Len(queue)
         /\ Len(rest) \in Nat /\ Len(queue) = Len(rest) + 1
         /\ \A i \in 1 .. Len(rest) : rest[i] = queue[i + 1] /\ i + 1 \in 1 .. Len(queue)
  BY TailIsRest
<1>2. Queued(c)' = {i \in 1 .. Len(rest) : rest[i] = c}
  BY <1>1 DEF Queued
<1>3. \A i \in Queued(c)' : i + 1 \in Queued(c) /\ i \in Nat /\ i # 0
  BY <1>1, <1>2 DEF Queued
<1>4. \A i, j \in Queued(c)' : i + 1 = j + 1
  BY <1>3 DEF OneUse, Single
<1>5. \A i, j \in Queued(c)' : i = j
  BY <1>3, <1>4
<1>6. ASSUME queue[1] = c
      PROVE  1 \in Queued(c) /\ Queued(c)' = {}
  <2>1. 1 \in Queued(c)
    BY <1>1, <1>6 DEF Queued
  <2>2. \A i \in Queued(c)' : i + 1 = 1
    BY <1>3, <2>1 DEF OneUse, Single
  <2> QED
    BY <1>3, <2>1, <2>2
<1> QED
  BY <1>1, <1>3, <1>5, <1>6 DEF Single

\* A message is published: it is the last one.
LEMMA QueueGrows ==
    ASSUME NEW c \in Challenge, NEW d \in Challenge, queue \in Seq(Challenge),
           queue' = Append(queue, d)
    PROVE  /\ c # d => Queued(c)' = Queued(c)
           /\ c = d => Queued(c)' = Queued(c) \cup {Len(queue) + 1}
<1>1. /\ Len(queue') = Len(queue) + 1 /\ Len(queue) \in Nat
      /\ \A i \in 1 .. Len(queue) : queue'[i] = queue[i]
      /\ queue'[Len(queue) + 1] = d
  BY AppendProperties, LenProperties
<1>2. \A i : i \in 1 .. Len(queue') <=> i \in 1 .. Len(queue) \/ i = Len(queue) + 1
  BY <1>1
<1>3. Queued(c)' = {i \in 1 .. Len(queue') : queue'[i] = c}
  BY DEF Queued
<1> QED
  BY <1>1, <1>2, <1>3 DEF Queued

\* The namespaces a step leaves alone stay as they are.
LEMMA SameOccupying ==
    ASSUME NEW c \in Challenge, UNCHANGED <<owner, workflow, pod, events, worker>>
    PROVE  Occupying(c)' = Occupying(c)
BY DEF Occupying, Occupies, Busy

-----------------------------------------------------------------------------
\* A command that takes neither a held slot nor an entry of c away.
Keeps(c) == /\ slot[c] = "live" => slot'[c] = "live"
            /\ cache[c] # NoEntry => cache'[c] # NoEntry

LEMMA CommandKeeps ==
    ASSUME RedisTypeOK, NEW c \in Challenge, NEW d \in Challenge,
           \/ UNCHANGED redis
           \/ CreateAlreadyExists(d) \/ CreateLimitExceeded(d)
           \/ \E e \in CacheEntry :
                 CreatePass(d, e) \/ UpdateExpiration(d, e) \/ SetCache(d, e)
           \/ d # c /\ (RemoveDeployment(d) \/ RemoveCache(d))
    PROVE  Keeps(c)
<1>1. /\ slot \in [Challenge -> {"none", "live", "due"}]
      /\ cache \in [Challenge -> CacheEntry \cup {NoEntry}]
  BY EntryAssumption DEF RedisTypeOK
<1>2. ASSUME NEW e \in CacheEntry,
             CreatePass(d, e) \/ UpdateExpiration(d, e) \/ SetCache(d, e)
      PROVE  Keeps(c)
  BY <1>1, <1>2, EntriesTyped DEF Keeps, CreatePass, UpdateExpiration, SetCache, Swept, redis
<1>3. CASE CreateAlreadyExists(d) \/ CreateLimitExceeded(d)
  BY <1>1, <1>3 DEF Keeps, CreateAlreadyExists, CreateLimitExceeded, Swept
<1>4. CASE d # c /\ (RemoveDeployment(d) \/ RemoveCache(d))
  BY <1>1, <1>4 DEF Keeps, RemoveDeployment, RemoveCache
<1>5. CASE UNCHANGED redis
  BY <1>5 DEF Keeps, redis
<1> QED
  BY <1>2, <1>3, <1>4, <1>5

\* A request of another challenge, or one that has not reserved yet.
LEMMA StartElsewhere ==
    ASSUME Typed, Kept, NEW c \in Challenge, OneUse(c), NEW r \in Req,
           UNCHANGED <<consumer, cluster, listener>>,
           \/ \E d \in Challenge : CheckDeployCount(r, d)
           \/ /\ req[r].cc # c
              /\ Reserve(r) \/ Rollback(r) \/ CenterRead(r) \/ CenterPhase(r)
                 \/ CenterForget(r) \/ CenterEnqueue(r)
                 \/ CenterSetCache(r)
    PROVE  OneUse(c)'
<1>1. /\ req \in [Req -> Request] /\ req[r].cc \in Challenge
      /\ queue \in Seq(Challenge) /\ RedisTypeOK
  BY DEF Typed, CenterTyped, ConsumerTyped, Request
<1>2. Occupying(c)' = Occupying(c) /\ Taken(c)' = Taken(c)
  BY SameOccupying DEF cluster, listener, Taken
<1>3. Asking(c)' = Asking(c)
  <2>1. \A q \in Req : q # r => req'[q] = req[q]
    BY <1>1 DEF CheckDeployCount, Reserve, Rollback, CenterRead, CenterPhase, CenterForget,
       CenterEnqueue, CenterSetCache, Answered, Refused, Goto
  <2>2. CASE \E d \in Challenge : CheckDeployCount(r, d)
    <3>1. req[r].pc = "idle" /\ req'[r].pc = "checked"
      <4>1. PICK d \in Challenge : CheckDeployCount(r, d)
        BY <2>2
      <4>2. /\ req[r].pc = "idle"
            /\ req' = [req EXCEPT ![r] = [IdleReq EXCEPT !.pc = "checked", !.cc = d,
                                                        !.waiting = TRUE]]
        BY <4>1 DEF CheckDeployCount
      <4>3. [IdleReq EXCEPT !.pc = "checked", !.cc = d, !.waiting = TRUE].pc = "checked"
        BY DEF IdleReq
      <4> QED
        BY <1>1, <4>2, <4>3
    <3> QED
      BY <2>1, <3>1 DEF Asking
  <2>3. CASE req[r].cc # c
    <3>1. CASE Answered(r) \/ Refused(r)
      <4>1. req'[r].pc = "idle" \/ req'[r].cc = req[r].cc
        BY <1>1, <3>1 DEF Answered, Refused, IdleReq, Request
      <4> QED
        BY <2>1, <2>3, <4>1 DEF Asking
    <3>2. CASE req'[r].cc = req[r].cc
      BY <2>1, <2>3, <3>2 DEF Asking
    <3>3. CASE \E d \in Challenge : CheckDeployCount(r, d)
      BY <2>2, <3>3
    <3>4. CASE Reserve(r) \/ Rollback(r) \/ CenterRead(r) \/ CenterPhase(r)
               \/ CenterForget(r) \/ CenterEnqueue(r) \/ CenterSetCache(r)
      BY <1>1, <3>1, <3>2, <3>4 DEF Reserve, Rollback, CenterRead, CenterPhase,
         CenterForget, CenterEnqueue, CenterSetCache, Goto, Request
    <3> QED
      BY <3>3, <3>4
  <2> QED
    BY <2>2, <2>3
<1>4. Queued(c)' = Queued(c)
  <2>1. \/ UNCHANGED queue
        \/ req[r].cc # c /\ queue' = Append(queue, req[r].cc)
    BY DEF CheckDeployCount, Reserve, Rollback, CenterRead, CenterPhase, CenterForget,
       CenterEnqueue, CenterSetCache
  <2> QED
    BY <1>1, <2>1, QueueGrows, QueueStays
<1>5. Keeps(c)
  <2>1. NewEntry("INITIAL") \in CacheEntry /\ NewEntry("PENDING_DEPLOY") \in CacheEntry
    BY EntriesTyped DEF Status
  <2>2. \/ UNCHANGED redis
        \/ CreateAlreadyExists(req[r].cc) \/ CreateLimitExceeded(req[r].cc)
        \/ CreatePass(req[r].cc, NewEntry("INITIAL"))
        \/ SetCache(req[r].cc, NewEntry("PENDING_DEPLOY"))
        \/ req[r].cc # c /\ (RemoveDeployment(req[r].cc) \/ RemoveCache(req[r].cc))
    BY DEF CheckDeployCount, Reserve, Rollback, CenterRead, CenterPhase, CenterForget,
       CenterEnqueue, CenterSetCache
  <2> QED
    BY <1>1, <2>1, <2>2, CommandKeeps
<1> QED
  BY <1>2, <1>3, <1>4, <1>5, UseGoesOn DEF Keeps, OneUse

\* A request of the challenge itself.
LEMMA StartHere ==
    ASSUME Typed, Kept, NEW c \in Challenge, OneUse(c), NEW r \in Req, req[r].cc = c,
           UNCHANGED <<consumer, cluster, listener>>,
           \/ Reserve(r) \/ Rollback(r) \/ CenterRead(r) \/ CenterPhase(r)
           \/ CenterForget(r) \/ CenterEnqueue(r)
           \/ CenterSetCache(r)
    PROVE  OneUse(c)'
<1>1. /\ req \in [Req -> Request] /\ queue \in Seq(Challenge) /\ RedisTypeOK
      /\ slot \in [Challenge -> {"none", "live", "due"}]
      /\ cache \in [Challenge -> CacheEntry \cup {NoEntry}]
  BY EntryAssumption DEF Typed, CenterTyped, ConsumerTyped, RedisTypeOK
<1>2. Occupying(c)' = Occupying(c) /\ Taken(c)' = Taken(c)
  BY SameOccupying DEF cluster, listener, Taken
<1>3. NewEntry("INITIAL") \in CacheEntry /\ NewEntry("PENDING_DEPLOY") \in CacheEntry
  BY EntriesTyped DEF Status
<1>4. CASE Reserve(r)
  <2>1. CASE CreatePass(c, NewEntry("INITIAL")) /\ Goto(r, "read")
    <3>1. slot[c] # "live" /\ slot'[c] = "live" /\ UNCHANGED queue
      BY <1>1, <1>4, <2>1 DEF CreatePass, Reserve, Swept
    <3>2. Asking(c) = {} /\ Queued(c) = {} /\ ~Taken(c) /\ Occupying(c) = {}
      BY <3>1 DEF OneUse
    <3>3. Asking(c)' \subseteq {r}
      BY <1>1, <2>1, <3>2 DEF Asking, Goto
    <3> QED
      BY <1>2, <3>1, <3>2, <3>3, QueueStays DEF OneUse, Single
  <2>2. CASE (CreateAlreadyExists(c) \/ CreateLimitExceeded(c)) /\ Answered(r)
    <3>1. Asking(c)' = Asking(c)
      BY <1>1, <1>4, <2>2 DEF Asking, Answered, Reserve, IdleReq
    <3>2. Keeps(c) /\ UNCHANGED queue
      BY <1>1, <1>4, <2>2, CommandKeeps DEF Reserve
    <3> QED
      BY <1>2, <3>1, <3>2, QueueStays, UseGoesOn DEF Keeps
  <2> QED
    BY <1>4, <2>1, <2>2 DEF Reserve
<1>5. CASE Rollback(r)
  <2>1. r \in Asking(c) /\ Asking(c)' = Asking(c) \ {r} /\ UNCHANGED queue
    BY <1>1, <1>5 DEF Asking, Rollback, Answered, IdleReq
  <2>2. Queued(c) = {} /\ ~Taken(c) /\ Occupying(c) = {} /\ Asking(c)' = {}
    BY <2>1 DEF OneUse, Single
  <2> QED
    BY <1>2, <2>1, <2>2, QueueStays, UseEnds
<1>6. CASE \/ CenterRead(r) \/ CenterPhase(r) \/ CenterForget(r)
           \/ CenterEnqueue(r) /\ UNCHANGED queue
  <2>1. r \in Asking(c) /\ Asking(c)' \subseteq Asking(c) /\ UNCHANGED queue
    BY <1>1, <1>6 DEF Asking, CenterRead, CenterPhase, CenterForget, CenterEnqueue, Goto,
       Answered, Refused, IdleReq
  <2>2. slot' = slot
    BY <1>6 DEF CenterRead, CenterPhase, CenterForget, CenterEnqueue, RemoveCache, redis
  <2>3. Queued(c) = {} /\ ~Taken(c) /\ Occupying(c) = {} /\ slot[c] = "live"
    BY <2>1 DEF OneUse
  <2> QED
    BY <1>2, <2>1, <2>2, <2>3, QueueStays DEF OneUse, Single
<1>7. CASE CenterEnqueue(r) /\ queue' = Append(queue, c) /\ Goto(r, "setcache")
           /\ UNCHANGED redis
  <2>1. r \in Asking(c) /\ Asking(c)' = Asking(c) \ {r}
    BY <1>1, <1>7 DEF Asking, CenterPhase, CenterForget, CenterEnqueue, Goto
  <2>2. /\ Queued(c) = {} /\ ~Taken(c) /\ Occupying(c) = {} /\ slot'[c] = "live"
        /\ Asking(c)' = {}
    BY <1>7, <2>1 DEF OneUse, Single, redis
  <2>3. Queued(c)' = {Len(queue) + 1}
    BY <1>1, <1>7, <2>2, QueueGrows
  <2> QED
    BY <1>2, <2>2, <2>3 DEF OneUse, Single
<1>8. CASE CenterSetCache(r)
  <2>1. Asking(c)' = Asking(c) /\ UNCHANGED queue
    BY <1>1, <1>8 DEF Asking, CenterSetCache, Answered, IdleReq
  <2>2. Keeps(c)
    BY <1>1, <1>3, <1>8, CommandKeeps DEF CenterSetCache
  <2> QED
    BY <1>2, <2>1, <2>2, QueueStays, UseGoesOn DEF Keeps
<1> QED
  BY <1>4, <1>5, <1>6, <1>7, <1>8 DEF CenterEnqueue

LEMMA StartKeepsUse ==
    ASSUME Typed, Kept, NEW c \in Challenge, OneUse(c), StartNext
    PROVE  OneUse(c)'
<1>1. PICK r \in Req : \/ \E d \in Challenge : CheckDeployCount(r, d)
                       \/ Reserve(r) \/ Rollback(r)
                       \/ CenterRead(r) \/ CenterPhase(r)
                       \/ CenterForget(r) \/ CenterEnqueue(r) \/ CenterSetCache(r)
  BY DEF StartNext, HttpFails, Kept
<1>2. UNCHANGED <<consumer, cluster, listener>>
  BY <1>1 DEF CheckDeployCount, Reserve, Rollback, CenterRead, CenterPhase, CenterForget,
     CenterEnqueue, CenterSetCache
<1> QED
  BY <1>1, <1>2, StartElsewhere, StartHere
-----------------------------------------------------------------------------
\* The step that submits, and what the new namespace was before.
LEMMA SubmitTakesNew ==
    ASSUME Typed, PodsOrdered, ConsumerSubmit, UNCHANGED <<owner, workflow>> => FALSE
    PROVE  \E n \in Ns : /\ workflow[n] = "none" /\ ~Occupies(n) /\ consumer.pc = "submit"
                         /\ workflow' = [workflow EXCEPT ![n] = "Pending"]
                         /\ owner' = [owner EXCEPT ![n] = consumer.cc]
                         /\ consumer' = [consumer EXCEPT !.pc = "ack", !.ns = n]
<1> DEFINE n == MaxNs + 1 - Cardinality(Unsubmitted)
<1>1. /\ Unsubmitted # {} /\ consumer.pc = "submit"
      /\ workflow' = [workflow EXCEPT ![n] = "Pending"]
      /\ owner' = [owner EXCEPT ![n] = consumer.cc]
      /\ consumer' = [consumer EXCEPT !.pc = "ack", !.ns = n]
  BY DEF ConsumerSubmit
<1>2. n \in Unsubmitted
  BY <1>1, NextIsUnsubmitted DEF PodsOrdered
<1> HIDE DEF n
<1>3. n \in Ns /\ workflow[n] = "none"
  BY <1>2 DEF Unsubmitted
<1>4. pod[n] = "none" /\ events[n] = <<>> /\ worker[n].pc = "idle"
  BY <1>3 DEF PodsOrdered, Submitted, Ordered
<1> QED
  BY <1>1, <1>3, <1>4 DEF Occupies, Busy

LEMMA ConsumerKeepsUse ==
    ASSUME Typed, PodsOrdered, Kept, NEW c \in Challenge, OneUse(c), ConsumerNext
    PROVE  OneUse(c)'
<1>1. /\ queue \in Seq(Challenge) /\ RedisTypeOK
      /\ owner \in [Ns -> Challenge]
      /\ workflow \in [Ns -> {"none", "Pending", "Running", "Succeeded", "Failed"}]
      /\ consumer \in [pc : {"idle", "batch", "submit", "ack", "update"},
                       budget : 0 .. MaxRunning, cc : Challenge,
                       snap : CacheEntry, ns : Ns \cup {NoNs}]
  BY DEF Typed, ConsumerTyped, ClusterTyped
<1>2. Asking(c)' = Asking(c)
  BY DEF ConsumerNext, MessageExpires, ConsumerPoll, ConsumerTake, ConsumerBatchEnds,
     ConsumerSubmit, ConsumerAck, ConsumerUpdate, ConsumerCrash, center, stops, Asking
<1>3. CASE MessageExpires
  <2>1. Occupying(c)' = Occupying(c) /\ Taken(c)' = Taken(c)
    BY <1>3, SameOccupying DEF MessageExpires, cluster, listener, Taken
  <2>2. Single(Queued(c))' /\ (Queued(c) = {} => Queued(c)' = {})
    BY <1>1, <1>3, QueueMovesUp DEF MessageExpires
  <2> QED
    BY <1>2, <1>3, <2>1, <2>2, UseGoesOn DEF MessageExpires, redis
<1>4. CASE ConsumerTake
  <2>1. Occupying(c)' = Occupying(c) /\ UNCHANGED <<slot, cache>>
    BY <1>4, SameOccupying DEF ConsumerTake, cluster, listener, redis
  <2>2. /\ Single(Queued(c))' /\ (Queued(c) = {} => Queued(c)' = {})
        /\ Head(queue) = c => Queued(c) # {} /\ Queued(c)' = {}
    BY <1>1, <1>4, QueueMovesUp DEF ConsumerTake
  <2>3. ~Taken(c)
    BY <1>4 DEF ConsumerTake, Taken
  <2>4. CASE Taken(c)'
    <3>1. Head(queue) = c /\ cache[c] # NoEntry
      BY <1>1, <1>4, <2>4 DEF ConsumerTake, Taken
    <3> QED
      BY <1>2, <2>1, <2>2, <3>1 DEF OneUse, Single
  <2>5. CASE ~Taken(c)'
    BY <1>2, <2>1, <2>2, <2>5, UseGoesOn
  <2> QED
    BY <2>4, <2>5
<1>5. CASE ConsumerSubmit /\ ~UNCHANGED <<owner, workflow>>
  <2>1. PICK n \in Ns : /\ workflow[n] = "none" /\ ~Occupies(n) /\ consumer.pc = "submit"
                        /\ workflow' = [workflow EXCEPT ![n] = "Pending"]
                        /\ owner' = [owner EXCEPT ![n] = consumer.cc]
                        /\ consumer' = [consumer EXCEPT !.pc = "ack", !.ns = n]
    BY <1>5, SubmitTakesNew
  <2>2. UNCHANGED <<slot, cache, queue, pod, events, worker>>
    BY <1>5 DEF ConsumerSubmit, redis, listener
  <2>3. Queued(c)' = Queued(c) /\ Single(Queued(c))'
    BY <2>2, QueueStays
  <2>4. ~Taken(c)'
    BY <1>1, <2>1 DEF Taken
  <2>5. \A m \in Ns : m # n => owner'[m] = owner[m] /\ (Occupies(m)' <=> Occupies(m))
    BY <1>1, <2>1, <2>2 DEF Occupies, Busy
  <2>6. CASE consumer.cc = c
    <3>1. Taken(c)
      BY <2>1, <2>6 DEF Taken
    <3>2. /\ Asking(c) = {} /\ Queued(c) = {} /\ Occupying(c) = {} /\ slot[c] = "live"
          /\ cache[c] # NoEntry
      BY <3>1 DEF OneUse
    <3>3. Occupying(c)' \subseteq {n}
      BY <2>5, <3>2 DEF Occupying
    <3> QED
      BY <1>2, <2>2, <2>3, <2>4, <3>2, <3>3 DEF OneUse, Single
  <2>7. CASE consumer.cc # c
    <3>1. Occupying(c)' \subseteq Occupying(c)
      BY <1>1, <2>1, <2>5, <2>7 DEF Occupying
    <3> QED
      BY <1>2, <2>2, <2>3, <2>4, <3>1, UseGoesOn
  <2> QED
    BY <2>6, <2>7
<1>6. CASE \/ ConsumerPoll \/ ConsumerBatchEnds \/ ConsumerAck
           \/ ConsumerSubmit /\ UNCHANGED <<owner, workflow>>
  <2>1. UNCHANGED <<slot, cache, queue, owner, workflow, pod, events, worker>>
    BY <1>6 DEF ConsumerPoll, ConsumerBatchEnds, ConsumerAck, ConsumerSubmit, redis, cluster,
       listener
  <2>2. ~Taken(c)'
    <3>1. CASE ConsumerSubmit
      BY <1>1, <3>1 DEF Taken, ConsumerSubmit, NextMessage, IdleConsumer
    <3>2. CASE ConsumerBatchEnds
      BY <3>2 DEF Taken, ConsumerBatchEnds, IdleConsumer
    <3>3. CASE ConsumerPoll
      BY <1>1, <3>3 DEF Taken, ConsumerPoll
    <3>4. CASE ConsumerAck
      BY <1>1, <3>4 DEF Taken, ConsumerAck
    <3> QED
      BY <1>6, <3>1, <3>2, <3>3, <3>4
  <2> QED
    BY <1>2, <2>1, <2>2, SameOccupying, QueueStays, UseGoesOn
<1>7. CASE ConsumerUpdate
  <2> DEFINE e == [consumer.snap EXCEPT !.ns = consumer.ns, !.status = "PENDING",
                                       !.timed = FALSE]
  <2>1. e \in CacheEntry /\ consumer.cc \in Challenge /\ UpdateExpiration(consumer.cc, e)
    BY <1>1, <1>7 DEF CacheEntry, Status, ConsumerUpdate
  <2> HIDE DEF e
  <2>2. Keeps(c)
    BY <1>1, <2>1, CommandKeeps
  <2>3. ~Taken(c)' /\ UNCHANGED <<queue, owner, workflow, pod, events, worker>>
    BY <1>1, <1>7 DEF ConsumerUpdate, NextMessage, IdleConsumer, Taken, cluster, listener
  <2> QED
    BY <1>2, <2>2, <2>3, SameOccupying, QueueStays, UseGoesOn DEF Keeps
<1> QED
  BY <1>3, <1>4, <1>5, <1>6, <1>7 DEF ConsumerNext, ConsumerCrash, Kept

-----------------------------------------------------------------------------
\* A pod comes only from a workflow that runs.
LEMMA PodComes ==
    ASSUME Typed, PodsOrdered, [Next]_vars, NEW n \in Ns, pod[n] = "none", pod'[n] # "none"
    PROVE  workflow[n] = "Running"
<1>1. /\ PodsTyped /\ pod \in [Ns -> PodState \cup {"none"}]
  BY DEF Typed, ClusterTyped, PodsTyped
<1>2. ASSUME UNCHANGED pod PROVE FALSE
  BY <1>2
<1>3. ASSUME NEW m, DeleteAccepted(m) \/ DeleteRejected(m) PROVE FALSE
  BY <1>1, <1>3 DEF DeleteAccepted, DeleteRejected, Alive, PodBecomes
<1>4. CASE ClusterNext
  <2>1. PICK m \in Ns :
           \/ WorkflowStarts(m) \/ WorkflowSucceeds(m) \/ WorkflowFails(m)
           \/ PodReady(m) \/ PodStuck(m) \/ PodTouched(m) \/ PodGone(m) \/ CronDelete(m)
    BY <1>4 DEF ClusterNext
  <2> QED
    BY <1>1, <1>2, <1>3, <2>1 DEF WorkflowStarts, WorkflowSucceeds, WorkflowFails, PodReady,
       PodStuck, PodTouched, PodGone, CronDelete, PodBecomes, Alive
<1>5. CASE StopNext
  <2>1. ~StopAll
    BY <1>1 DEF StopAll, Alive
  <2> QED
    BY <1>2, <1>3, <1>5, <2>1 DEF StopNext, StopRead, StopUpdate, StopDelete, AdminRead,
       AdminDelete, AdminRemove, AdminForget, StatusRead, StatusWrite, cluster
<1>6. CASE ListenerNext
  BY <1>2, <1>3, <1>6 DEF ListenerNext, ListenerRead, Handle, HandleDeletion, RecordStop,
     CleanupGhost, FreeSlot, HandlePodRestart, IgnoreTerminating, HandlePending, RecordStart,
     HandleRunning, WatchLost, ListenerRestarts, Relist, cluster
<1>7. CASE StartNext
  BY <1>2, <1>7 DEF StartNext, CheckDeployCount, Reserve, HttpFails, Rollback, CenterRead,
     CenterPhase, CenterForget, CenterEnqueue, CenterSetCache, cluster
<1>8. CASE ConsumerNext
  BY <1>2, <1>8 DEF ConsumerNext, MessageExpires, ConsumerPoll, ConsumerTake,
     ConsumerBatchEnds, ConsumerSubmit, ConsumerAck, ConsumerUpdate, ConsumerCrash, cluster
<1> QED
  BY <1>2, <1>4, <1>5, <1>6, <1>7, <1>8 DEF Next, vars, Elapse, cluster

\* Only a submission makes a namespace occupy a slot.
LEMMA OccupyingStays ==
    ASSUME Typed, PodsOrdered, [Next]_vars, ~ConsumerNext, NEW c \in Challenge
    PROVE  Occupying(c)' \subseteq Occupying(c)
<1>1. UNCHANGED owner
  BY DEF Next, vars, Elapse, StartNext, CheckDeployCount, Reserve, HttpFails, Rollback,
     CenterRead, CenterPhase, CenterForget, CenterEnqueue, CenterSetCache, StopNext, StopRead,
     StopUpdate, StopDelete, AdminRead, AdminDelete, AdminRemove, AdminForget, StatusRead,
     StatusWrite, StopAll, ClusterNext, WorkflowStarts, WorkflowSucceeds, WorkflowFails,
     PodReady, PodStuck, PodTouched, PodGone, CronDelete, ListenerNext, ListenerRead, Handle,
     HandleDeletion, RecordStop, CleanupGhost, FreeSlot, HandlePodRestart, IgnoreTerminating,
     HandlePending, RecordStart, HandleRunning, WatchLost, ListenerRestarts, Relist, cluster
<1>2. ASSUME NEW n \in Ns, workflow'[n] \in {"Pending", "Running"}
      PROVE  workflow[n] \in {"Pending", "Running"}
  <2>1. CASE ClusterNext
    BY <1>2, <2>1 DEF ClusterNext, WorkflowStarts, WorkflowSucceeds, WorkflowFails, PodReady,
       PodStuck, PodTouched, PodGone, CronDelete, Typed, ClusterTyped
  <2> QED
    BY <1>2, <2>1 DEF Next, vars, Elapse, StartNext, CheckDeployCount, Reserve, HttpFails,
       Rollback, CenterRead, CenterPhase, CenterForget, CenterEnqueue, CenterSetCache,
       StopNext, StopRead, StopUpdate, StopDelete, AdminRead, AdminDelete, AdminRemove,
       AdminForget, StatusRead, StatusWrite, StopAll, ListenerNext, ListenerRead, Handle,
       HandleDeletion, RecordStop, CleanupGhost, FreeSlot, HandlePodRestart, IgnoreTerminating,
       HandlePending, RecordStart, HandleRunning, WatchLost, ListenerRestarts, Relist, cluster
<1>3. ASSUME NEW n \in Ns, Occupies(n)', workflow'[n] \notin {"Pending", "Running"}
      PROVE  Occupies(n)
  <2>1. pod \in [Ns -> PodState \cup {"none"}]
    BY DEF Typed, ClusterTyped, PodsTyped
  <2>2. CASE PodRests(n)
    BY <1>3, <2>2 DEF PodRests, Occupies, Busy
  <2>3. CASE PodGoesOn(n)
    BY <2>1, <2>3, PodComes DEF PodGoesOn, Occupies, PodState
  <2>4. CASE ListenerRead(n) \/ (Handle(n) /\ ~RecordStop(n))
    BY <2>4 DEF ListenerRead, Handle, HandleDeletion, CleanupGhost, FreeSlot,
       HandlePodRestart, IgnoreTerminating, HandlePending, RecordStart, HandleRunning,
       Occupies, Busy
  <2>7. CASE RecordStop(n)
    <3>1. /\ worker'[n] = IdleWorker
          /\ UNCHANGED <<owner, workflow, pod, events>>
      BY <2>7 DEF RecordStop, Handled, cluster, Typed, ListenerTyped, WorkersTyped
    <3> QED
      BY <1>3, <3>1 DEF Occupies, Busy, IdleWorker
  <2>5. CASE ListenerRestarts
    BY <1>3, <2>5 DEF ListenerRestarts, Occupies, Busy, IdleWorker
  <2>6. CASE Relist
    <3>1. /\ pod'[n] = pod[n] /\ worker'[n] = worker[n]
          /\ pod[n] \in {"none", "gone"} => events'[n] = events[n]
      BY <2>6 DEF Relist
    <3> QED
      BY <1>3, <2>1, <3>1 DEF Occupies, Busy, PodState
  <2> QED
    BY <2>2, <2>3, <2>4, <2>5, <2>6, <2>7, PodSteps
<1> QED
  BY <1>1, <1>2, <1>3 DEF Occupying, Occupies

\* The Deleted event of the pod that occupies the slot is handled: the use ends.
LEMMA DeletionEndsUse ==
    ASSUME Typed, PodsOrdered, NEW n \in Ns, NEW c \in Challenge, owner[n] = c, OneUse(c),
           HandleDeletion(n), Occupying(c)' \subseteq Occupying(c)
    PROVE  OneUse(c)'
<1>1. /\ worker[n].pc = "act" /\ worker[n].event = "gone"
      /\ UNCHANGED <<req, queue, consumer, owner, workflow, pod, events>>
      /\ worker'[n].pc = "close"
  BY DEF HandleDeletion, Goes, center, stops, cluster, Typed, ListenerTyped, WorkersTyped
<1>2. n \in Occupying(c)
  BY <1>1 DEF Occupying, Occupies, Busy
<1>3. pod[n] = "gone" /\ events[n] = <<>>
  BY <1>1 DEF PodsOrdered, Ordered
<1>4. workflow[n] = "Succeeded"
  BY <1>3 DEF PodsOrdered, Submitted
<1>5. ~Occupies(n)'
  BY <1>1, <1>3, <1>4 DEF Occupies, Busy
<1>6. Occupying(c)' = {}
  BY <1>1, <1>2, <1>5 DEF OneUse, Single, Occupying
<1>7. Asking(c)' = {} /\ Queued(c)' = {} /\ ~Taken(c)'
  BY <1>1, <1>2 DEF OneUse, Asking, Queued, Taken
<1> QED
  BY <1>1, <1>2, <1>6, <1>7 DEF OneUse, Single

LEMMA OthersKeepUse ==
    ASSUME Typed, PodsOrdered, Kept, SlotInv, NEW c \in Challenge, OneUse(c),
           StopNext \/ ClusterNext \/ ListenerNext
    PROVE  OneUse(c)'
<1>1. ~ConsumerNext => Occupying(c)' \subseteq Occupying(c)
  BY OccupyingStays DEF Next
<1>2. UNCHANGED <<req, queue, consumer, owner>>
  BY DEF StopNext, StopRead, StopUpdate, StopDelete, AdminRead, AdminDelete, AdminRemove,
     AdminForget, StatusRead, StatusWrite, StopAll, ClusterNext, WorkflowStarts,
     WorkflowSucceeds, WorkflowFails, PodReady, PodStuck, PodTouched, PodGone, CronDelete,
     ListenerNext, ListenerRead, Handle, HandleDeletion, RecordStop, CleanupGhost, FreeSlot,
     HandlePodRestart, IgnoreTerminating, HandlePending, RecordStart, HandleRunning, WatchLost,
     ListenerRestarts, Relist, cluster, center, stops
<1>3. RedisTypeOK /\ owner \in [Ns -> Challenge]
  BY DEF Typed, ClusterTyped
<1>4. CASE ConsumerNext
  BY <1>4, ConsumerKeepsUse
<1>5. ASSUME NEW n \in Ns, HandleDeletion(n), owner[n] = c, ~ConsumerNext
      PROVE  OneUse(c)'
  BY <1>1, <1>5, DeletionEndsUse
<1>6. ASSUME Keeps(c), ~ConsumerNext
      PROVE  OneUse(c)'
  <2>1. Asking(c)' = Asking(c) /\ Taken(c)' = Taken(c)
    BY <1>2 DEF Asking, Taken
  <2> QED
    BY <1>1, <1>2, <1>6, <2>1, QueueStays, UseGoesOn DEF Keeps
<1>7. ASSUME UNCHANGED redis PROVE Keeps(c)
  BY <1>3, <1>7, CommandKeeps
<1>8. CASE ClusterNext
  BY <1>4, <1>6, <1>7, <1>8 DEF ClusterNext, WorkflowStarts, WorkflowSucceeds, WorkflowFails,
     PodReady, PodStuck, PodTouched, PodGone, CronDelete
<1>9. CASE StopNext
  <2>1. ASSUME NEW d \in Challenge, StopUpdate(d) PROVE Keeps(c)
    <3>1. stopping[d].snap \in CacheEntry
      BY DEF Typed, CenterTyped
    <3> QED
      BY <1>3, <2>1, <3>1, CommandKeeps DEF StopUpdate
  <2>2. ASSUME NEW d \in Challenge, StatusWrite(d) PROVE Keeps(c)
    <3>1. checking[d] \in CacheEntry
      BY <2>2 DEF Typed, CenterTyped, StatusWrite
    <3> QED
      BY <1>3, <2>2, <3>1, CommandKeeps DEF StatusWrite
  <2>3. Keeps(c)
    BY <1>7, <1>9, <2>1, <2>2 DEF StopNext, StopRead, StopDelete, AdminRead, AdminDelete,
       AdminRemove, AdminForget, StatusRead, StopAll, SlotInv
  <2> QED
    BY <1>4, <1>6, <2>3
<1>10. CASE ListenerNext
  <2>1. ASSUME NEW n \in Ns, Handle(n), ~HandleDeletion(n) PROVE Keeps(c)
    <3>1. ~FreeSlot(n)
      BY DEF FreeSlot, SlotInv, Steady
    <3>2. \/ UNCHANGED redis \/ \E e \in CacheEntry : UpdateExpiration(owner[n], e)
      <4>1. CASE HandlePodRestart(n)
        BY <4>1, RestartedTyped DEF HandlePodRestart
      <4>2. CASE HandleRunning(n)
        <5>1. worker[n].snap # NoEntry
          BY <4>2 DEF HandleRunning, Typed, ListenerTyped, WorkersTyped
        <5> QED
          BY <4>2, <5>1, RestartedTyped DEF HandleRunning
      <4> QED
        BY <2>1, <3>1, <4>1, <4>2 DEF Handle, RecordStop, CleanupGhost, IgnoreTerminating,
           HandlePending, RecordStart
    <3> QED
      BY <1>3, <3>2, CommandKeeps
  <2>2. ASSUME NEW n \in Ns, HandleDeletion(n), owner[n] # c PROVE Keeps(c)
    BY <1>3, <2>2, CommandKeeps DEF HandleDeletion
  <2> QED
    BY <1>4, <1>5, <1>6, <1>7, <1>10, <2>1, <2>2 DEF ListenerNext, ListenerRead, WatchLost,
       ListenerRestarts, Relist
<1> QED
  BY <1>8, <1>9, <1>10

-----------------------------------------------------------------------------
\* No pod gets stuck where no workflow goes wrong.
LEMMA NoPodStuck ==
    ASSUME Typed, Kept, [Next]_vars, NEW n \in Ns, pod[n] # "stuck"
    PROVE  pod'[n] # "stuck"
<1>1. pod \in [Ns -> PodState \cup {"none"}]
  BY DEF Typed, ClusterTyped, PodsTyped
<1>2. ASSUME NEW m, DeleteAccepted(m) \/ DeleteRejected(m) PROVE pod'[n] # "stuck"
  BY <1>1, <1>2 DEF DeleteAccepted, DeleteRejected, Alive, PodBecomes
<1>3. CASE ClusterNext
  <2>1. PICK m \in Ns :
           \/ WorkflowStarts(m) \/ WorkflowSucceeds(m) \/ WorkflowFails(m)
           \/ PodReady(m) \/ PodTouched(m) \/ PodGone(m) \/ CronDelete(m)
    BY <1>3 DEF ClusterNext, PodStuck, Kept
  <2>2. CASE PodTouched(m)
    BY <1>1, <2>2 DEF PodTouched, PodBecomes
  <2> QED
    BY <1>1, <1>2, <2>1, <2>2 DEF WorkflowStarts, WorkflowSucceeds, WorkflowFails, PodReady,
       PodGone, CronDelete, PodBecomes
<1>4. CASE StopNext
  <2>1. CASE StopAll
    BY <1>1, <2>1 DEF StopAll
  <2> QED
    BY <1>2, <1>4, <2>1 DEF StopNext, StopRead, StopUpdate, StopDelete, AdminRead, AdminDelete,
       AdminRemove, AdminForget, StatusRead, StatusWrite, cluster
<1>5. CASE ListenerNext
  BY <1>2, <1>5 DEF ListenerNext, ListenerRead, Handle, HandleDeletion, RecordStop,
     CleanupGhost, FreeSlot, HandlePodRestart, IgnoreTerminating, HandlePending, RecordStart,
     HandleRunning, WatchLost, ListenerRestarts, Relist, cluster
<1>6. CASE StartNext
  BY <1>6 DEF StartNext, CheckDeployCount, Reserve, HttpFails, Rollback, CenterRead,
     CenterPhase, CenterForget, CenterEnqueue, CenterSetCache, cluster
<1>7. CASE ConsumerNext
  BY <1>7 DEF ConsumerNext, MessageExpires, ConsumerPoll, ConsumerTake,
     ConsumerBatchEnds, ConsumerSubmit, ConsumerAck, ConsumerUpdate, ConsumerCrash, cluster
<1> QED
  BY <1>3, <1>4, <1>5, <1>6, <1>7 DEF Next, vars, Elapse, cluster

LEMMA SteadyInductive ==
    ASSUME Typed, PodsOrdered, Kept, SlotInv, [Next]_vars, NEW n \in Ns
    PROVE  Steady(n)'
<1>1. /\ events[n] \in Seq(PodState) /\ Len(events[n]) \in Nat
      /\ pod \in [Ns -> PodState \cup {"none"}] /\ events \in [Ns -> Seq(PodState)]
      /\ worker \in [Ns -> [pc : {"idle", "act", "write", "close", "free"},
                            event : PodState, snap : CacheEntry \cup {NoEntry}]]
      /\ owner[n] \in Challenge
  BY LenProperties DEF Typed, ClusterTyped, PodsTyped, ListenerTyped, WorkersTyped
<1>2. Steady(n) /\ pod'[n] # "stuck"
  BY NoPodStuck DEF SlotInv, Steady
<1>3. CASE events'[n] = events[n] /\ worker'[n] = worker[n]
  BY <1>2, <1>3 DEF Steady
<1>4. ASSUME NEW st \in PodState, st # "stuck", events'[n] = Append(events[n], st),
             worker'[n] = worker[n]
      PROVE  Steady(n)'
  <2>1. /\ Len(events'[n]) = Len(events[n]) + 1
        /\ \A i \in 1 .. Len(events[n]) : events'[n][i] = events[n][i]
        /\ events'[n][Len(events[n]) + 1] = st
    BY <1>1, <1>4, AppendProperties
  <2>2. \A i \in 1 .. Len(events'[n]) : i \in 1 .. Len(events[n]) \/ i = Len(events[n]) + 1
    BY <1>1, <2>1
  <2>3. \A i \in 1 .. Len(events'[n]) : events'[n][i] # "stuck"
    BY <1>2, <1>4, <2>1, <2>2 DEF Steady
  <2> QED
    BY <1>2, <1>4, <2>3 DEF Steady
<1>5. CASE PodRests(n)
  BY <1>3, <1>5 DEF PodRests
<1>6. CASE PodGoesOn(n)
  BY <1>2, <1>3, <1>4, <1>6 DEF PodGoesOn
<1>7. CASE ListenerRead(n)
  <2>1. events[n] # <<>>
    BY <1>7 DEF ListenerRead
  <2>2. PICK rest \in Seq(PodState) :
           /\ rest = Tail(events[n]) /\ Head(events[n]) = events[n][1]
           /\ 1 \in 1 .. Len(events[n])
           /\ \A i \in 1 .. Len(rest) : /\ rest[i] = events[n][i + 1]
                                       /\ i + 1 \in 1 .. Len(events[n])
    BY <1>1, <2>1, TailIsRest
  <2>3. /\ events'[n] = rest /\ worker'[n].event = events[n][1]
        /\ worker'[n].pc = "act"
        /\ events[n][1] # "gone" => worker'[n].snap = cache[owner[n]]
    BY <1>1, <1>7, <2>2 DEF ListenerRead
  <2>4. n \in Occupying(owner[n])
    BY <2>1 DEF Occupying, Occupies, Busy
  <2>5. cache[owner[n]] # NoEntry
    BY <1>1, <2>4 DEF SlotInv, OneUse
  <2>6. \A i \in 1 .. Len(rest) : rest[i] # "stuck"
    BY <1>2, <2>2 DEF Steady
  <2>7. events[n][1] # "stuck"
    BY <1>2, <2>2 DEF Steady
  <2> QED
    BY <1>2, <2>3, <2>5, <2>6, <2>7 DEF Steady
<1>8. CASE Handle(n)
  <2>1. /\ worker'[n].pc # "idle" => /\ worker'[n].event = worker[n].event
                                     /\ worker'[n].pc # "free"
        /\ worker'[n].pc = "act" => worker'[n].snap # NoEntry
        /\ worker[n].pc # "idle"
    <3>1. CASE RecordStart(n) \/ HandlePodRestart(n)
      <4>1. Restarted(n) # NoEntry
        BY <3>1, RestartedTyped, EntriesTyped DEF RecordStart, HandlePodRestart, Current
      <4> QED
        BY <1>1, <3>1, <4>1 DEF RecordStart, HandlePodRestart, Handled, IdleWorker
    <3>2. CASE Handled(n) /\ worker[n].pc # "idle"
      BY <1>1, <3>2 DEF Handled, IdleWorker
    <3>3. CASE HandleDeletion(n)
      BY <1>1, <3>3 DEF HandleDeletion, Goes
    <3>4. ~CleanupGhost(n)
      BY <1>2 DEF CleanupGhost, Steady
    <3> QED
      BY <1>8, <3>1, <3>2, <3>3, <3>4 DEF Handle, RecordStop, FreeSlot, IgnoreTerminating,
         HandlePending, HandleRunning
  <2>2. \A i \in 1 .. Len(events'[n]) : events'[n][i] # "stuck"
    <3>1. CASE events'[n] = events[n]
      BY <1>2, <3>1 DEF Steady
    <3>2. CASE events'[n] = Append(events[n], "terminating")
      <4>1. /\ Len(events'[n]) = Len(events[n]) + 1
            /\ \A i \in 1 .. Len(events[n]) : events'[n][i] = events[n][i]
            /\ events'[n][Len(events[n]) + 1] = "terminating"
        BY <1>1, <3>2, AppendProperties DEF PodState
      <4>2. \A i \in 1 .. Len(events'[n]) :
               i \in 1 .. Len(events[n]) \/ i = Len(events[n]) + 1
        BY <1>1, <4>1
      <4> QED
        BY <1>2, <4>1, <4>2 DEF Steady
    <3> QED
      BY <1>8, <3>1, <3>2, HandlePods
  <2> QED
    BY <1>2, <2>1, <2>2 DEF Steady
<1>9. CASE ListenerRestarts
  <2>1. events'[n] = <<>> /\ Len(<<>>) = 0 /\ worker'[n].pc = "idle"
    BY <1>9 DEF ListenerRestarts, IdleWorker
  <2> QED
    BY <1>2, <2>1 DEF Steady
<1>10. CASE Relist
  BY <1>1, <1>2, <1>3, <1>4, <1>10 DEF Relist, Steady
<1> QED
  BY <1>5, <1>6, <1>7, <1>8, <1>9, <1>10, PodSteps

LEMMA SlotInvInductive ==
    ASSUME Typed, PodsOrdered, Kept, SlotInv, [Next]_vars
    PROVE  SlotInv'
<1>1. ASSUME NEW c \in Challenge PROVE OneUse(c)'
  <2>1. OneUse(c) /\ \A n \in Ns : Steady(n)
    BY DEF SlotInv
  <2>2. CASE UNCHANGED vars
    <3>1. Asking(c)' = Asking(c) /\ Queued(c)' = Queued(c) /\ Taken(c)' = Taken(c)
      BY <2>2 DEF vars, Asking, Queued, Taken
    <3>2. Occupying(c)' = Occupying(c) /\ UNCHANGED <<slot, cache>>
      BY <2>2, SameOccupying DEF vars
    <3> QED
      BY <2>1, <3>1, <3>2, UseGoesOn DEF OneUse
  <2> QED
    BY <2>1, <2>2, StartKeepsUse, ConsumerKeepsUse, OthersKeepUse DEF Next, Elapse, Kept
<1>2. ASSUME NEW c \in Challenge PROVE forcing'[c].pc = "idle"
  <2>1. UNCHANGED forcing
    BY DEF SlotInv, Kept, AdminRead, AdminDelete, AdminRemove, AdminForget, StopNext, StopRead,
       StopUpdate, StopDelete, StatusRead, StatusWrite, StopAll, center, stops, Next, vars,
       Elapse, StartNext, CheckDeployCount, Reserve, HttpFails, Rollback, CenterRead,
       CenterPhase, CenterForget, CenterEnqueue, CenterSetCache, ConsumerNext, MessageExpires,
       ConsumerPoll, ConsumerTake, ConsumerBatchEnds, ConsumerSubmit, ConsumerAck,
       ConsumerUpdate, ConsumerCrash, ClusterNext, WorkflowStarts, WorkflowSucceeds,
       WorkflowFails, PodReady, PodStuck, PodTouched, PodGone, CronDelete, ListenerNext,
       ListenerRead, Handle, HandleDeletion, RecordStop, CleanupGhost, FreeSlot,
       HandlePodRestart, IgnoreTerminating, HandlePending, RecordStart, HandleRunning,
       WatchLost, ListenerRestarts, Relist
  <2> QED
    BY <2>1 DEF SlotInv
<1> QED
  BY <1>1, <1>2, SteadyInductive DEF SlotInv

LEMMA InitSlotInv == Init => SlotInv
<1> SUFFICES ASSUME Init PROVE SlotInv
  OBVIOUS
<1>1. \A n \in Ns : /\ workflow[n] = "none" /\ pod[n] = "none" /\ events[n] = <<>>
                    /\ worker[n].pc = "idle"
  BY DEF Init, IdleWorker
<1>2. Len(<<>>) = 0 /\ queue = <<>> /\ consumer.pc = "idle"
  BY DEF Init, IdleConsumer
<1>3. \A r \in Req : req[r].pc = "idle"
  BY DEF Init, IdleReq
<1>4. ASSUME NEW c \in Challenge
      PROVE  /\ Asking(c) = {} /\ Queued(c) = {} /\ Occupying(c) = {} /\ ~Taken(c)
  BY <1>1, <1>2, <1>3 DEF Asking, Queued, Occupying, Occupies, Busy, Taken
<1>5. \A c \in Challenge : OneUse(c) /\ forcing[c].pc = "idle"
  BY <1>4 DEF OneUse, Single, Init, IdleForce
<1> QED
  BY <1>1, <1>2, <1>5 DEF SlotInv, Steady

LEMMA SlotsKept == ASSUME Kept PROVE Spec => []SlotInv
BY InitSlotInv, SlotInvInductive, PipelineTyped, EventsInOrder, PTL DEF Spec

\* The instances of a team that are alive are never more than its cap, however starts,
\* stops, deletions and missed events interleave
\* (DeployService.cs:257-273, ChallengesInformerService.cs:269).
THEOREM InstancesWithinLimit ==
    ASSUME "http" \notin May, "consumer" \notin May, "workflow" \notin May,
           "admin" \notin May, "elapse" \notin May
    PROVE  Spec => []AliveWithinLimit
<1>1. Kept
  BY DEF Kept
<1>2. Spec => []SlotInv
  BY <1>1, SlotsKept
<1>3. ASSUME Typed, SlotInv, HeldWithinLimit PROVE AliveWithinLimit
  <2> DEFINE f == [n \in Alive |-> owner[n]]
  <2>1. \A n \in Alive : n \in Ns /\ owner[n] \in Challenge /\ n \in Occupying(owner[n])
    BY <1>3 DEF Alive, Occupying, Occupies, Typed, ClusterTyped
  <2>2. \A n \in Alive : owner[n] \in Held
    BY <1>3, <2>1 DEF SlotInv, OneUse, Held
  <2>3. \A m, n \in Alive : owner[m] = owner[n] => m = n
    BY <1>3, <2>1 DEF SlotInv, OneUse, Single
  <2>4. f \in Injection(Alive, Held)
    BY <2>2, <2>3 DEF Injection, IsInjective
  <2>5. IsFiniteSet(Held)
    <3>1. Held \subseteq Challenge
      BY DEF Held
    <3> QED
      BY <3>1, ChallengeAssumption, FS_Subset
  <2>6. IsFiniteSet(Alive) /\ Cardinality(Alive) <= Cardinality(Held)
    BY <2>4, <2>5, FS_Injection
  <2>7. Cardinality(Held) \in Nat /\ Cardinality(Alive) \in Nat
    BY <2>5, <2>6, FS_CardinalityType
  <2> QED
    BY <1>3, <2>6, <2>7, BoundsTyped DEF HeldWithinLimit, AliveWithinLimit
<1> QED
  BY <1>2, <1>3, PipelineTyped, PipelineKeepsQuota, PTL

-----------------------------------------------------------------------------
(***************************************************************************)
(* What the names in an entry, in a handler's copy of it and in a row say  *)
(* of the cluster.                                                         *)
(***************************************************************************)

\* The pod of n has been seen to be more than created.
Past(n) == pod[n] \notin {"none", "created"}

\* An entry of c names a namespace submitted for c, and one that is RUNING a
\* namespace whose pod has become ready.
Named(e, c) ==
    e # NoEntry /\ e.ns # NoNs =>
        /\ e.ns \in Ns /\ owner[e.ns] = c /\ workflow[e.ns] # "none"
        /\ e.status = "RUNING" => Past(e.ns)

\* A workflow that has ended has left a pod.
Deployed(n) == /\ workflow[n] # "Failed"
               /\ workflow[n] = "Succeeded" => pod[n] # "none"

CopiesNamed ==
    /\ \A c \in Challenge : /\ Named(checking[c], c)
                            /\ stopping[c].pc = "update" => Named(stopping[c].snap, c)
    /\ \A n \in Ns : worker[n].pc # "idle" => Named(worker[n].snap, owner[n])
    /\ consumer.pc \in {"ack", "update"} /\ consumer.ns # NoNs =>
          owner[consumer.ns] = consumer.cc /\ workflow[consumer.ns] # "none"

RowsNamed == \A i \in DOMAIN rows : rows[i].label # NoNs =>
                /\ rows[i].label \in Ns /\ Past(rows[i].label)
                /\ ~rows[i].open => pod[rows[i].label] = "gone"

NamesInv == /\ \A n \in Ns : Deployed(n)
            /\ \A c \in Challenge : Named(cache[c], c)
            /\ CopiesNamed
            /\ RowsNamed

\* A pod does not go back.
LEMMA PastStays ==
    ASSUME Typed, PodsOrdered, [Next]_vars, NEW n \in Ns
    PROVE  /\ Past(n) => Past(n)'
           /\ pod[n] = "gone" => pod'[n] = "gone"
           /\ pod[n] # "none" => pod'[n] # "none"
<1>1. pod \in [Ns -> PodState \cup {"none"}]
  BY DEF Typed, ClusterTyped, PodsTyped
<1>2. CASE Handle(n)
  BY <1>1, <1>2, HandlePods DEF Past, Alive
<1>3. CASE pod'[n] = pod[n]
  BY <1>3 DEF Past
<1>4. CASE PodGoesOn(n)
  BY <1>1, <1>4 DEF PodGoesOn, Past, PodState
<1> QED
  BY <1>2, <1>3, <1>4, PodSteps DEF PodRests, ListenerRead, ListenerRestarts, Relist

\* The same of the state after a step: a name that was good stays good.
StillNamed(e, c) ==
    e # NoEntry /\ e.ns # NoNs =>
        /\ e.ns \in Ns /\ owner'[e.ns] = c /\ workflow'[e.ns] # "none"
        /\ e.status = "RUNING" => pod'[e.ns] \notin {"none", "created"}

LEMMA NamedStays ==
    ASSUME Typed, PodsOrdered, [Next]_vars, NEW e, NEW c, Named(e, c)
    PROVE  StillNamed(e, c)
<1>1. ASSUME e # NoEntry, e.ns # NoNs
      PROVE  /\ e.ns \in Ns /\ owner'[e.ns] = c /\ workflow'[e.ns] # "none"
             /\ e.status = "RUNING" => pod'[e.ns] \notin {"none", "created"}
  <2>1. /\ e.ns \in Ns /\ owner[e.ns] = c /\ workflow[e.ns] # "none"
        /\ e.status = "RUNING" => Past(e.ns)
    BY <1>1 DEF Named
  <2>2. owner'[e.ns] = c /\ workflow'[e.ns] # "none"
    BY <2>1, OwnerStays
  <2>3. e.status = "RUNING" => pod'[e.ns] \notin {"none", "created"}
    BY <2>1, PastStays DEF Past
  <2> QED
    BY <2>1, <2>2, <2>3
<1> QED
  BY <1>1 DEF StillNamed

\* A namespace that was submitted and occupies no slot is gone.
LEMMA OverIsGone ==
    ASSUME Typed, NEW n \in Ns, Deployed(n), workflow[n] # "none", ~Occupies(n)
    PROVE  pod[n] = "gone"
BY DEF Deployed, Occupies, Typed, ClusterTyped, PodsTyped, PodState

\* The entry that the handler of a ready pod holds names that pod's own namespace, or
\* one that is gone: no newer deployment of the challenge can be there yet.
LEMMA ReadyNamesPast ==
    ASSUME Typed, PodsOrdered, SlotInv, NamesInv, NEW n \in Ns, worker[n].pc # "idle",
           worker[n].event = "ready", worker[n].snap.ns # NoNs
    PROVE  worker[n].snap.ns \in Ns /\ Past(worker[n].snap.ns)
<1> DEFINE m == worker[n].snap.ns
<1>1. worker[n].snap # NoEntry /\ worker[n].pc # "close"
  BY DEF SlotInv, Steady, PodsOrdered, Ordered, Typed, ListenerTyped, WorkersTyped
<1>2. m \in Ns /\ owner[m] = owner[n] /\ workflow[m] # "none" /\ owner[n] \in Challenge
  BY <1>1 DEF NamesInv, CopiesNamed, Named, Typed, ClusterTyped
<1>3. CASE m = n
  BY <1>3 DEF PodsOrdered, Ordered, Past
<1>4. CASE m # n
  <2>1. n \in Occupying(owner[n])
    BY <1>1 DEF Occupying, Occupies, Busy
  <2>2. m \notin Occupying(owner[n])
    BY <1>2, <1>4, <2>1 DEF SlotInv, OneUse, Single
  <2>3. ~Occupies(m)
    BY <1>2, <2>2 DEF Occupying
  <2>4. pod[m] = "gone"
    BY <1>2, <2>3, OverIsGone DEF NamesInv
  <2> QED
    BY <1>2, <2>4 DEF Past
<1> QED
  BY <1>2, <1>3, <1>4

\* A command of Redis leaves good names, if the entry it writes has one.
LEMMA CommandNames ==
    ASSUME RedisTypeOK, NEW c \in Challenge, NEW d \in Challenge, StillNamed(cache[c], c),
           \/ UNCHANGED redis
           \/ CreateAlreadyExists(d) \/ CreateLimitExceeded(d)
           \/ RemoveDeployment(d) \/ RemoveCache(d)
           \/ \E e : /\ StillNamed(e, d)
                     /\ CreatePass(d, e) \/ UpdateExpiration(d, e) \/ SetCache(d, e)
    PROVE  StillNamed(cache'[c], c)
<1>1. cache \in [Challenge -> Entry \cup {NoEntry}]
  BY DEF RedisTypeOK
<1>2. cache'[c] = cache[c] \/ cache'[c] = NoEntry \/ (c = d /\ StillNamed(cache'[c], d))
  BY <1>1 DEF CreateAlreadyExists, CreateLimitExceeded, RemoveDeployment, RemoveCache,
     CreatePass, UpdateExpiration, SetCache, redis
<1> QED
  BY <1>2 DEF StillNamed

LEMMA EntriesNamed ==
    ASSUME Typed, PodsOrdered, Kept, SlotInv, NamesInv, [Next]_vars, NEW c \in Challenge
    PROVE  Named(cache[c], c)'
<1>1. RedisTypeOK /\ StillNamed(cache[c], c)
  BY NamedStays DEF Typed, NamesInv
<1>2. \A e, d : Named(e, d) => StillNamed(e, d)
  BY NamedStays
<1>3. \A st \in Status : \A d : StillNamed(NewEntry(st), d)
  BY DEF StillNamed, NewEntry
<1>4. ASSUME UNCHANGED redis PROVE StillNamed(cache'[c], c)
  BY <1>1, <1>4, CommandNames
<1>5. CASE StartNext
  <2>1. PICK r \in Req : \/ \E d \in Challenge : CheckDeployCount(r, d)
                         \/ Reserve(r) \/ HttpFails(r) \/ Rollback(r)
                         \/ CenterRead(r) \/ CenterPhase(r)
                         \/ CenterForget(r) \/ CenterEnqueue(r) \/ CenterSetCache(r)
    BY <1>5 DEF StartNext
  <2>2. req[r].cc \in Challenge
    BY DEF Typed, CenterTyped, Request
  <2>3. /\ StillNamed(NewEntry("INITIAL"), req[r].cc)
        /\ StillNamed(NewEntry("PENDING_DEPLOY"), req[r].cc)
    BY <1>3 DEF Status
  <2>4. \/ UNCHANGED redis
        \/ CreateAlreadyExists(req[r].cc) \/ CreateLimitExceeded(req[r].cc)
        \/ RemoveDeployment(req[r].cc) \/ RemoveCache(req[r].cc)
        \/ CreatePass(req[r].cc, NewEntry("INITIAL"))
        \/ SetCache(req[r].cc, NewEntry("PENDING_DEPLOY"))
    BY <2>1 DEF CheckDeployCount, Reserve, HttpFails, Rollback, CenterRead, CenterPhase,
       CenterForget, CenterEnqueue, CenterSetCache
  <2> QED
    BY <1>1, <2>2, <2>3, <2>4, CommandNames DEF StillNamed, Named, Past
<1>6. CASE ConsumerNext
  <2>1. CASE ConsumerUpdate
    <3> DEFINE e == [consumer.snap EXCEPT !.ns = consumer.ns, !.status = "PENDING",
                                         !.timed = FALSE]
    <3>1. /\ e.ns = consumer.ns /\ e.status = "PENDING" /\ consumer.cc \in Challenge
          /\ consumer.ns \in Ns \cup {NoNs}
      BY DEF Typed, ConsumerTyped, CacheEntry
    <3>2. UpdateExpiration(consumer.cc, e) /\ consumer.pc = "update"
      BY <2>1 DEF ConsumerUpdate
    <3> HIDE DEF e
    <3>3. Named(e, consumer.cc)
      BY <3>1, <3>2 DEF NamesInv, CopiesNamed, Named
    <3>4. StillNamed(cache'[c], c)
      BY <1>1, <1>2, <3>1, <3>2, <3>3, CommandNames
    <3> QED
      BY <3>4 DEF StillNamed, Named, Past
  <2> QED
    BY <1>4, <1>6, <2>1 DEF ConsumerNext, MessageExpires, ConsumerPoll, ConsumerTake,
       ConsumerBatchEnds, ConsumerSubmit, ConsumerAck, ConsumerCrash, StillNamed, Named, Past
<1>7. CASE StopNext
  <2>1. ASSUME NEW d \in Challenge, StopUpdate(d) PROVE StillNamed(cache'[c], c)
    <3>1. StillNamed(stopping[d].snap, d)
      BY <1>2, <2>1 DEF StopUpdate, NamesInv, CopiesNamed
    <3> QED
      BY <1>1, <2>1, <3>1, CommandNames DEF StopUpdate
  <2>2. ASSUME NEW d \in Challenge, StatusWrite(d) PROVE StillNamed(cache'[c], c)
    <3>1. StillNamed(checking[d], d)
      BY <1>2 DEF NamesInv, CopiesNamed
    <3> QED
      BY <1>1, <2>2, <3>1, CommandNames DEF StatusWrite
  <2>3. StillNamed(cache'[c], c)
    BY <1>4, <1>7, <2>1, <2>2 DEF StopNext, StopRead, StopDelete, AdminRead, AdminDelete,
       AdminRemove, AdminForget, StatusRead, StopAll, SlotInv
  <2> QED
    BY <2>3 DEF StillNamed, Named, Past
<1>8. CASE ClusterNext
  BY <1>4, <1>8 DEF ClusterNext, WorkflowStarts, WorkflowSucceeds, WorkflowFails, PodReady,
     PodStuck, PodTouched, PodGone, CronDelete, StillNamed, Named, Past
<1>9. CASE ListenerNext
  <2>1. ASSUME NEW n \in Ns, Handle(n) PROVE StillNamed(cache'[c], c)
    <3>1. owner[n] \in Challenge /\ worker[n].pc # "idle"
      BY <2>1 DEF Typed, ClusterTyped, Handle, HandleDeletion, RecordStop, CleanupGhost,
         FreeSlot, HandlePodRestart, IgnoreTerminating, HandlePending, RecordStart,
         HandleRunning
    <3>3. worker[n].snap # NoEntry =>
             worker[n].snap \in CacheEntry /\ Named(worker[n].snap, owner[n])
      BY <3>1, RestartedTyped DEF NamesInv, CopiesNamed
    <3>4. CASE /\ worker[n].snap # NoEntry
               /\ UpdateExpiration(owner[n], Restarted(n))
      <4>1. Named(Restarted(n), owner[n])
        BY <3>3, <3>4 DEF Restarted, CacheEntry, Named
      <4>2. StillNamed(Restarted(n), owner[n])
        BY <1>2, <4>1
      <4> QED
        BY <1>1, <3>1, <3>4, <4>2, CommandNames
    <3>5. CASE HandleRunning(n)
      <4> DEFINE e == [worker[n].snap EXCEPT !.status = "RUNING", !.ready = TRUE,
                                             !.timed = TRUE]
      <4>5. worker[n].snap # NoEntry
        BY <3>5 DEF HandleRunning, Typed, ListenerTyped, WorkersTyped
      <4>1. e.ns = worker[n].snap.ns
        BY <3>3, <4>5 DEF CacheEntry
      <4>2. worker[n].event = "ready"
        BY <3>5 DEF HandleRunning, PodsOrdered, Ordered
      <4>3. UpdateExpiration(owner[n], e)
        BY <3>5 DEF HandleRunning
      <4> HIDE DEF e
      <4>4. Named(e, owner[n])
        BY <3>1, <3>3, <4>1, <4>2, <4>5, ReadyNamesPast DEF Named
      <4> QED
        BY <1>1, <1>2, <3>1, <4>3, <4>4, CommandNames
    <3>6. \/ UNCHANGED redis \/ RemoveDeployment(owner[n]) \/ HandleRunning(n)
          \/ worker[n].snap # NoEntry /\ UpdateExpiration(owner[n], Restarted(n))
      BY <2>1 DEF Handle, HandleDeletion, RecordStop, CleanupGhost, FreeSlot, IgnoreTerminating,
         HandlePodRestart, HandlePending, RecordStart
    <3> QED
      BY <1>1, <3>1, <3>4, <3>5, <3>6, CommandNames
  <2> QED
    BY <1>4, <1>9, <2>1 DEF ListenerNext, ListenerRead, WatchLost, ListenerRestarts, Relist,
       StillNamed, Named, Past
<1>10. CASE Elapse \/ UNCHANGED vars
  BY <1>4, <1>10 DEF Elapse, Kept, vars, redis, StillNamed, Named, Past
<1> QED
  BY <1>5, <1>6, <1>7, <1>8, <1>9, <1>10 DEF Next

LEMMA DeployedInductive ==
    ASSUME Typed, PodsOrdered, Kept, [Next]_vars, NEW n \in Ns, Deployed(n)
    PROVE  Deployed(n)'
<1>1. /\ workflow \in [Ns -> {"none", "Pending", "Running", "Succeeded", "Failed"}]
      /\ pod \in [Ns -> PodState \cup {"none"}]
  BY DEF Typed, ClusterTyped, PodsTyped
<1>2. pod[n] # "none" => pod'[n] # "none"
  BY PastStays
<1>3. CASE workflow'[n] = workflow[n]
  BY <1>2, <1>3 DEF Deployed
<1>4. CASE ClusterNext
  BY <1>1, <1>2, <1>4 DEF ClusterNext, WorkflowStarts, WorkflowSucceeds, WorkflowFails,
     PodReady, PodStuck, PodTouched, PodGone, CronDelete, PodBecomes, Deployed, Kept
<1>5. CASE ConsumerNext
  <2>1. CASE ConsumerSubmit /\ ~UNCHANGED <<owner, workflow>>
    BY <1>1, <1>3, <2>1, SubmitTakesNew DEF Deployed
  <2> QED
    BY <1>3, <1>5, <2>1 DEF ConsumerNext, MessageExpires, ConsumerPoll, ConsumerTake,
       ConsumerBatchEnds, ConsumerSubmit, ConsumerAck, ConsumerUpdate, ConsumerCrash, cluster
<1> QED
  BY <1>3, <1>4, <1>5 DEF Next, vars, Elapse, StartNext, CheckDeployCount, Reserve, HttpFails,
     Rollback, CenterRead, CenterPhase, CenterForget, CenterEnqueue, CenterSetCache, StopNext,
     StopRead, StopUpdate, StopDelete, AdminRead, AdminDelete, AdminRemove, AdminForget,
     StatusRead, StatusWrite, StopAll, ListenerNext, ListenerRead, Handle, HandleDeletion,
     RecordStop, CleanupGhost, FreeSlot, HandlePodRestart, IgnoreTerminating, HandlePending,
     RecordStart, HandleRunning, WatchLost, ListenerRestarts, Relist, cluster

\* The copies that stops and status checks hold are copies of the entry.
LEMMA CenterCopiesNamed ==
    ASSUME Typed, PodsOrdered, NamesInv, [Next]_vars, NEW c \in Challenge
    PROVE  /\ StillNamed(checking'[c], c)
           /\ stopping'[c].pc = "update" => StillNamed(stopping'[c].snap, c)
<1>1. /\ StillNamed(checking[c], c) /\ StillNamed(cache[c], c)
      /\ stopping[c].pc = "update" => StillNamed(stopping[c].snap, c)
  BY NamedStays DEF NamesInv, CopiesNamed
<1>2. /\ stopping \in [Challenge -> [pc : {"idle", "update", "delete"}, snap : CacheEntry]]
      /\ checking \in [Challenge -> CacheEntry \cup {NoEntry}]
      /\ cache \in [Challenge -> CacheEntry \cup {NoEntry}]
  BY EntryAssumption DEF Typed, CenterTyped, RedisTypeOK
<1>3. CASE checking'[c] = checking[c] /\ stopping'[c] = stopping[c]
  BY <1>1, <1>3
<1>4. CASE StopNext
  <2>1. ASSUME NEW d \in Challenge, StopRead(d)
        PROVE  /\ StillNamed(checking'[c], c)
               /\ stopping'[c].pc = "update" => StillNamed(stopping'[c].snap, c)
    <3>1. CASE d = c
      <4> DEFINE e == [cache[c] EXCEPT !.status = "DELETING", !.ready = FALSE]
      <4>1. cache[c] # NoEntry /\ stopping'[c].snap = e /\ UNCHANGED checking
        BY <1>2, <2>1, <3>1 DEF StopRead
      <4>2. e.ns = cache[c].ns /\ e.status = "DELETING"
        BY <1>2, <4>1 DEF CacheEntry
      <4> HIDE DEF e
      <4> QED
        BY <1>1, <4>1, <4>2 DEF StillNamed
    <3>2. CASE d # c
      BY <1>2, <1>3, <2>1, <3>2 DEF StopRead
    <3> QED
      BY <3>1, <3>2
  <2>2. ASSUME NEW d \in Challenge, StopUpdate(d) \/ StopDelete(d)
        PROVE  /\ StillNamed(checking'[c], c)
               /\ stopping'[c].pc = "update" => StillNamed(stopping'[c].snap, c)
    <3>1. checking'[c] = checking[c]
      BY <2>2 DEF StopUpdate, StopDelete
    <3>2. stopping'[c].pc = "update" => stopping'[c] = stopping[c]
      BY <1>2, <2>2 DEF StopUpdate, StopDelete, IdleStop
    <3> QED
      BY <1>1, <3>1, <3>2
  <2>3. ASSUME NEW d \in Challenge, StatusRead(d) \/ StatusWrite(d)
        PROVE  /\ StillNamed(checking'[c], c)
               /\ stopping'[c].pc = "update" => StillNamed(stopping'[c].snap, c)
    <3>1. /\ stopping'[c] = stopping[c]
          /\ checking'[c] \in {checking[c], cache[c], NoEntry}
      BY <1>2, <2>3 DEF StatusRead, StatusWrite
    <3>2. StillNamed(NoEntry, c)
      BY DEF StillNamed
    <3> QED
      BY <1>1, <3>1, <3>2
  <2> QED
    BY <1>3, <1>4, <2>1, <2>2, <2>3 DEF StopNext, AdminRead, AdminDelete, AdminRemove,
       AdminForget, StopAll, center, stops
<1> QED
  BY <1>3, <1>4 DEF Next, vars, Elapse, StartNext, CheckDeployCount, Reserve, HttpFails,
     Rollback, CenterRead, CenterPhase, CenterForget, CenterEnqueue, CenterSetCache,
     ConsumerNext, MessageExpires, ConsumerPoll, ConsumerTake, ConsumerBatchEnds,
     ConsumerSubmit, ConsumerAck, ConsumerUpdate, ConsumerCrash, ClusterNext, WorkflowStarts,
     WorkflowSucceeds, WorkflowFails, PodReady, PodStuck, PodTouched, PodGone, CronDelete,
     ListenerNext, ListenerRead, Handle, HandleDeletion, RecordStop, CleanupGhost, FreeSlot,
     HandlePodRestart, IgnoreTerminating, HandlePending, RecordStart, HandleRunning, WatchLost,
     ListenerRestarts, Relist, center, stops

\* A worker's copy is one of the entry its namespace leads to.
LEMMA WorkerCopiesNamed ==
    ASSUME Typed, PodsOrdered, SlotInv, NamesInv, [Next]_vars, NEW n \in Ns,
           worker'[n].pc # "idle"
    PROVE  StillNamed(worker'[n].snap, owner'[n])
<1>1. /\ worker \in [Ns -> [pc : {"idle", "act", "write", "close", "free"},
                            event : PodState, snap : CacheEntry \cup {NoEntry}]]
      /\ owner \in [Ns -> Challenge]
  BY DEF Typed, ListenerTyped, WorkersTyped, ClusterTyped
<1>2. \A e, d : Named(e, d) => StillNamed(e, d)
  BY NamedStays
<1>3. ASSUME worker[n].pc # "idle" \/ events[n] # <<>> PROVE owner'[n] = owner[n]
  <2>1. pod[n] # "none"
    BY <1>3 DEF PodsOrdered, Ordered
  <2>2. workflow[n] # "none"
    BY <2>1 DEF PodsOrdered, Submitted
  <2> QED
    BY <2>2, OwnerStays
<1>4. CASE worker'[n] = worker[n]
  BY <1>2, <1>3, <1>4 DEF NamesInv, CopiesNamed
<1>5. CASE ListenerRead(n)
  <2>1. worker'[n].snap \in {cache[owner[n]], NoEntry} /\ events[n] # <<>>
    BY <1>1, <1>5 DEF ListenerRead
  <2>2. StillNamed(NoEntry, owner'[n])
    BY DEF StillNamed
  <2> QED
    BY <1>1, <1>2, <1>3, <2>1, <2>2 DEF NamesInv
<1>6. CASE Handle(n)
  <2>1. /\ worker[n].pc # "idle"
        /\ \/ worker'[n].snap = NoEntry
           \/ worker[n].snap # NoEntry /\ worker'[n].snap = Restarted(n)
    <3>1. CASE HandleDeletion(n) \/ CleanupGhost(n)
      BY <1>1, <3>1 DEF HandleDeletion, CleanupGhost, Goes, Handled, IdleWorker
    <3>2. CASE RecordStart(n) \/ HandlePodRestart(n)
      BY <1>1, <3>2 DEF RecordStart, HandlePodRestart, Current, Handled, IdleWorker
    <3> QED
      BY <1>1, <1>6, <3>1, <3>2 DEF Handle, RecordStop, FreeSlot, IgnoreTerminating,
         HandlePending, HandleRunning, Handled, IdleWorker
  <2>2. CASE worker'[n].snap = NoEntry
    BY <2>2 DEF StillNamed
  <2>3. CASE worker[n].snap # NoEntry /\ worker'[n].snap = Restarted(n)
    <3>1. worker[n].snap \in CacheEntry
      BY <2>3, RestartedTyped
    <3>2. Named(Restarted(n), owner[n])
      BY <2>1, <2>3, <3>1 DEF NamesInv, CopiesNamed, Restarted, CacheEntry, Named
    <3> QED
      BY <1>2, <1>3, <2>1, <2>3, <3>2
  <2> QED
    BY <2>1, <2>2, <2>3
<1>7. CASE ListenerRestarts
  BY <1>7 DEF ListenerRestarts, IdleWorker
<1> QED
  BY <1>4, <1>5, <1>6, <1>7, PodSteps DEF PodRests, PodGoesOn, Relist

LEMMA CopiesNamedInductive ==
    ASSUME Typed, PodsOrdered, Kept, SlotInv, NamesInv, [Next]_vars
    PROVE  CopiesNamed'
<1>1. ASSUME NEW c \in Challenge
      PROVE  /\ Named(checking[c], c)'
             /\ (stopping[c].pc = "update" => Named(stopping[c].snap, c))'
  BY CenterCopiesNamed DEF StillNamed, Named, Past
<1>2. ASSUME NEW n \in Ns
      PROVE  (worker[n].pc # "idle" => Named(worker[n].snap, owner[n]))'
  BY WorkerCopiesNamed DEF StillNamed, Named, Past
<1>3. ASSUME consumer'.pc \in {"ack", "update"}, consumer'.ns # NoNs
      PROVE  owner'[consumer'.ns] = consumer'.cc /\ workflow'[consumer'.ns] # "none"
  <2>1. /\ consumer \in [pc : {"idle", "batch", "submit", "ack", "update"},
                         budget : 0 .. MaxRunning, cc : Challenge,
                         snap : CacheEntry, ns : Ns \cup {NoNs}]
        /\ owner \in [Ns -> Challenge]
        /\ workflow \in [Ns -> {"none", "Pending", "Running", "Succeeded", "Failed"}]
    BY DEF Typed, ConsumerTyped, ClusterTyped
  <2>2. CASE /\ consumer'.ns = consumer.ns /\ consumer'.cc = consumer.cc
             /\ consumer.pc \in {"ack", "update"}
    <3>1. /\ consumer.ns \in Ns /\ owner[consumer.ns] = consumer.cc
          /\ workflow[consumer.ns] # "none"
      BY <1>3, <2>1, <2>2 DEF NamesInv, CopiesNamed
    <3>2. owner'[consumer.ns] = owner[consumer.ns] /\ workflow'[consumer.ns] # "none"
      BY <3>1, OwnerStays
    <3> QED
      BY <2>2, <3>1, <3>2
  <2>3. CASE ConsumerSubmit
    <3>1. consumer'.pc # "batch"
      BY <1>3
    <3>2. PICK n \in Ns : /\ workflow' = [workflow EXCEPT ![n] = "Pending"]
                          /\ owner' = [owner EXCEPT ![n] = consumer.cc]
                          /\ consumer' = [consumer EXCEPT !.pc = "ack", !.ns = n]
      <4> DEFINE n == MaxNs + 1 - Cardinality(Unsubmitted)
      <4>1. /\ Unsubmitted # {} /\ workflow' = [workflow EXCEPT ![n] = "Pending"]
            /\ owner' = [owner EXCEPT ![n] = consumer.cc]
            /\ consumer' = [consumer EXCEPT !.pc = "ack", !.ns = n]
        BY <2>1, <2>3, <3>1 DEF ConsumerSubmit, NextMessage, IdleConsumer
      <4>2. n \in Ns
        BY <4>1, UnsubmittedCounts
      <4> HIDE DEF n
      <4> QED
        BY <4>1, <4>2
    <3> QED
      BY <2>1, <3>2
  <2>4. CASE ConsumerNext
    <3>1. CASE MessageExpires \/ ConsumerAck
      BY <1>3, <2>1, <2>2, <3>1 DEF MessageExpires, ConsumerAck
    <3>2. CASE ConsumerBatchEnds \/ ConsumerCrash
      BY <1>3, <3>2 DEF ConsumerBatchEnds, ConsumerCrash, IdleConsumer
    <3>3. CASE ConsumerPoll
      BY <1>3, <2>1, <3>3 DEF ConsumerPoll
    <3>4. CASE ConsumerTake
      BY <1>3, <2>1, <3>4 DEF ConsumerTake
    <3>5. CASE ConsumerUpdate
      BY <1>3, <2>1, <3>5 DEF ConsumerUpdate, NextMessage, IdleConsumer
    <3> QED
      BY <2>3, <2>4, <3>1, <3>2, <3>3, <3>4, <3>5 DEF ConsumerNext
  <2>5. CASE UNCHANGED consumer
    BY <1>3, <2>2, <2>5
  <2> QED
    BY <2>4, <2>5 DEF Next, vars, Elapse, StartNext, CheckDeployCount, Reserve, HttpFails,
     Rollback, CenterRead, CenterPhase, CenterForget, CenterEnqueue, CenterSetCache, StopNext,
     StopRead, StopUpdate, StopDelete, AdminRead, AdminDelete, AdminRemove, AdminForget,
     StatusRead, StatusWrite, StopAll, ClusterNext, WorkflowStarts, WorkflowSucceeds,
     WorkflowFails, PodReady, PodStuck, PodTouched, PodGone, CronDelete, ListenerNext,
     ListenerRead, Handle, HandleDeletion, RecordStop, CleanupGhost, FreeSlot,
     HandlePodRestart, IgnoreTerminating, HandlePending, RecordStart, HandleRunning, WatchLost,
     ListenerRestarts, Relist
<1> QED
  BY <1>1, <1>2, <1>3 DEF CopiesNamed

LEMMA RowsNamedInductive ==
    ASSUME Typed, PodsOrdered, SlotInv, NamesInv, [Next]_vars
    PROVE  RowsNamed'
<1> DEFINE Good(row) == row.label # NoNs =>
                           /\ row.label \in Ns /\ pod'[row.label] \notin {"none", "created"}
                           /\ ~row.open => pod'[row.label] = "gone"
<1>1. rows \in Seq(Row) /\ DOMAIN rows = 1 .. Len(rows) /\ Len(rows) \in Nat
      /\ \A i \in DOMAIN rows : rows[i] \in Row
  BY LenProperties DEF Typed, ListenerTyped
<1>2. \A i \in DOMAIN rows : Good(rows[i])
  BY PastStays DEF NamesInv, RowsNamed, Past
<1>3. ASSUME \A i \in DOMAIN rows' : Good(rows'[i]) PROVE RowsNamed'
  BY <1>3 DEF RowsNamed, Past
<1>4. CASE UNCHANGED rows
  BY <1>2, <1>3, <1>4
<1>5. ASSUME NEW n \in Ns, RecordStop(n) PROVE RowsNamed'
  <2>1. pod[n] = "gone" /\ UNCHANGED pod
    BY <1>5 DEF RecordStop, PodsOrdered, Ordered, cluster
  <2>2. CASE CloseRow(n)
    <3>1. DOMAIN rows' = DOMAIN rows
      BY <2>2 DEF CloseRow
    <3>2. ASSUME NEW i \in DOMAIN rows PROVE Good(rows'[i])
      <4>1. \/ rows'[i] = rows[i]
            \/ rows[i].label = n /\ rows'[i] = [rows[i] EXCEPT !.open = FALSE]
        BY <2>2 DEF CloseRow
      <4>2. rows'[i] = [rows[i] EXCEPT !.open = FALSE] => rows'[i].label = rows[i].label
        BY <1>1 DEF Row
      <4> QED
        BY <1>2, <2>1, <4>1, <4>2
    <3> HIDE DEF Good
    <3> QED
      BY <1>3, <3>1, <3>2
  <2> QED
    BY <1>4, <1>5, <2>2 DEF RecordStop
<1>6. ASSUME NEW n \in Ns, RecordStart(n) PROVE RowsNamed'
  <2> DEFINE row == [cc |-> owner[n], label |-> Restarted(n).ns, open |-> TRUE]
  <2>1. /\ worker[n].pc = "act" /\ worker[n].event = "ready" /\ worker[n].snap # NoEntry
        /\ UNCHANGED pod /\ (UNCHANGED rows \/ rows' = Append(rows, row))
    BY <1>6 DEF RecordStart, Current, cluster
  <2>2. Restarted(n).ns = worker[n].snap.ns /\ Restarted(n) \in CacheEntry
    BY <2>1, RestartedTyped DEF Restarted, CacheEntry
  <2>3. Good(row)
    BY <2>1, <2>2, ReadyNamesPast DEF Past
  <2>4. CASE rows' = Append(rows, row)
    <3>1. row \in Row
      BY <2>2 DEF Row, CacheEntry, Typed, ClusterTyped
    <3> HIDE DEF row, Good
    <3>2. /\ Len(rows') = Len(rows) + 1 /\ rows'[Len(rows) + 1] = row
          /\ \A i \in 1 .. Len(rows) : rows'[i] = rows[i]
          /\ rows' \in Seq(Row)
      BY <1>1, <2>4, <3>1, AppendProperties
    <3>3. DOMAIN rows' = 1 .. Len(rows) + 1
      BY <3>2, LenProperties
    <3>4. \A i \in DOMAIN rows' : i \in DOMAIN rows \/ i = Len(rows) + 1
      BY <1>1, <3>3
    <3> QED
      BY <1>1, <1>2, <1>3, <2>3, <3>2, <3>4
  <2> QED
    BY <1>4, <2>1, <2>4
<1>7. CASE Relist
  <2>1. UNCHANGED pod /\ DOMAIN rows' = DOMAIN rows
    BY <1>7 DEF Relist
  <2>2. ASSUME NEW i \in DOMAIN rows PROVE Good(rows'[i])
    <3>1. /\ rows'[i].label = rows[i].label
          /\ ~rows'[i].open => ~rows[i].open \/ rows[i].label \notin Ns
                               \/ pod[rows[i].label] \in {"none", "gone"}
      BY <1>1, <1>7 DEF Relist, Row
    <3> QED
      BY <1>2, <2>1, <3>1
  <2> HIDE DEF Good
  <2> QED
    BY <1>3, <2>1, <2>2
<1> QED
  BY <1>4, <1>5, <1>6, <1>7 DEF Next, vars, Elapse, StartNext, CheckDeployCount, Reserve,
     HttpFails, Rollback, CenterRead, CenterPhase, CenterForget, CenterEnqueue, CenterSetCache,
     ConsumerNext, MessageExpires, ConsumerPoll, ConsumerTake, ConsumerBatchEnds,
     ConsumerSubmit, ConsumerAck, ConsumerUpdate, ConsumerCrash, StopNext, StopRead,
     StopUpdate, StopDelete, AdminRead, AdminDelete, AdminRemove, AdminForget, StatusRead,
     StatusWrite, StopAll, ClusterNext, WorkflowStarts, WorkflowSucceeds, WorkflowFails,
     PodReady, PodStuck, PodTouched, PodGone, CronDelete, ListenerNext, ListenerRead, Handle,
     HandleDeletion, CleanupGhost, FreeSlot, HandlePodRestart, IgnoreTerminating,
     HandlePending, HandleRunning, WatchLost, ListenerRestarts, listener

LEMMA NamesInvInductive ==
    ASSUME Typed, PodsOrdered, Kept, SlotInv, NamesInv, [Next]_vars
    PROVE  NamesInv'
BY DeployedInductive, EntriesNamed, CopiesNamedInductive, RowsNamedInductive DEF NamesInv

LEMMA InitNamesInv == Init => NamesInv
<1> SUFFICES ASSUME Init PROVE NamesInv
  OBVIOUS
<1>1. /\ \A n \in Ns : workflow[n] = "none" /\ worker[n].pc = "idle"
      /\ \A c \in Challenge : /\ cache[c] = NoEntry /\ checking[c] = NoEntry
                              /\ stopping[c].pc = "idle"
      /\ consumer.pc = "idle" /\ DOMAIN rows = {}
  BY DEF Init, RedisInit, IdleWorker, IdleStop, IdleConsumer
<1> QED
  BY <1>1 DEF NamesInv, Deployed, Named, CopiesNamed, RowsNamed

LEMMA NamesKept == ASSUME Kept PROVE Spec => []NamesInv
BY SlotsKept, InitNamesInv, NamesInvInductive, PipelineTyped, EventsInOrder, PTL DEF Spec

\* An entry is ready only if the pod of its own namespace has become ready: with stops by
\* users, deletions and missed events alone, the event of an older deployment never marks
\* a newer one as ready (ChallengesInformerService.cs:269, 314-333).
THEOREM ReadyWasObserved ==
    ASSUME "http" \notin May, "consumer" \notin May, "workflow" \notin May,
           "admin" \notin May, "elapse" \notin May
    PROVE  Spec => []ReadyIsObserved
<1>1. Kept
  BY DEF Kept
<1>2. Spec => []NamesInv
  BY <1>1, NamesKept
<1>3. NamesInv => ReadyIsObserved
  BY DEF NamesInv, Named, Past, ReadyIsObserved, StatusOf
<1> QED
  BY <1>2, <1>3, PTL

\* A deployment that the table shows as stopped is gone from the cluster, also after a
\* relist (ChallengesInformerService.cs:276-281, 355-359).
THEOREM StoppedWasDeleted ==
    ASSUME "http" \notin May, "consumer" \notin May, "workflow" \notin May,
           "admin" \notin May, "elapse" \notin May
    PROVE  Spec => []StoppedIsGone
<1>1. Kept
  BY DEF Kept
<1>2. Spec => []NamesInv
  BY <1>1, NamesKept
<1>3. NamesInv => StoppedIsGone
  BY DEF NamesInv, RowsNamed, StoppedIsGone
<1> QED
  BY <1>2, <1>3, PTL

=============================================================================
