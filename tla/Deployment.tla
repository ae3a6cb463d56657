----------------------------- MODULE Deployment -----------------------------
(***************************************************************************)
(* The deployment pipeline of one team in one contest, from the button     *)
(* "start challenge" to the pod and back:                                  *)
(*                                                                         *)
(*   ContestantBE      reserves a slot, calls DeploymentCenter, rolls back *)
(*   DeploymentCenter  reads the entry, publishes a message, writes the    *)
(*                     entry; stops a deployment                           *)
(*   RabbitMQ          deployment_queue, one consumer, expiring messages   *)
(*   DeploymentConsumer  gates on running workflows, submits to Argo,      *)
(*                     acknowledges, writes the entry                      *)
(*   Argo, Kubernetes  run the workflow, the namespace and its pod         *)
(*   DeploymentListener  follows pod events: one worker per pod shard      *)
(*   cleanup CronJob   deletes namespaces past their time limit            *)
(*                                                                         *)
(* They meet in Redis (DeployRedis), in the table challenge_start_tracking *)
(* and in the cluster.  A handler whose effects other services can come    *)
(* between is split into one action per effect, named after the step, with *)
(* what it read earlier kept in its record ("snap"): it acts on stale data *)
(* exactly where the code does.                                            *)
(* Not here: previews and shared instances (team ids -1, -2 have no slot), *)
(* and DeploymentStatus.STOPPED, which no code path writes to the cache.   *)
(***************************************************************************)
EXTENDS DeployRedis, Sequences

CONSTANTS
    MaxNs,      \* bound: deployments submitted in one behaviour
    Req,        \* contestant start requests that can be in flight
    MaxRunning, \* MAX_RUNNING_WORKFLOW
    QueueMax,   \* x-max-length of deployment_queue
    MaxDeploy,  \* MaxDeployCount of the challenges, 0 for no limit
    MaxEvents,  \* bound: undelivered watch events of one pod
    MaxRows,    \* bound: rows of challenge_start_tracking
    May         \* bound: the optional operations and failures that happen

Operations == {"stop", "admin", "stopall", "cron", "touch", "elapse", "status"}
Faults == {"http", "broker", "consumer", "workflow", "kube", "watch",
           "restart", "db"}

ASSUME SomeChallenge == Challenge # {}

ASSUME PipelineAssumption ==
    /\ {MaxNs, MaxRunning, QueueMax, MaxDeploy, MaxEvents, MaxRows} \subseteq Nat
    /\ May \subseteq Operations \cup Faults

\* A deployment is named by its namespace: appName carries the submission
\* time, so a new submission is a new name (ChallengeHelper.cs:131-142).
\* There is one pod and one workflow per namespace, named alike.
Ns == 1 .. MaxNs
NoNs == 0

Status == {"INITIAL", "PENDING_DEPLOY", "PENDING", "RUNING", "DELETING"}

\* ChallengeDeploymentCacheDTO; timed: time_finished is set and in the future.
CacheEntry == [status : Status, ns : Ns \cup {NoNs}, pod : Ns \cup {NoNs},
               ready : BOOLEAN, timed : BOOLEAN]

ASSUME EntryAssumption == Entry = CacheEntry

NewEntry(st) == [status |-> st, ns |-> NoNs, pod |-> NoNs,
                 ready |-> FALSE, timed |-> FALSE]

VARIABLES
    req,      \* [Req -> the start request: pc, challenge, is BE waiting?, and
              \*         the namespace whose workflow it asks for]
    queue,    \* messages in deployment_queue, each the challenge to deploy
    consumer, \* the consumer: pc, budget of the batch, message, snapshot
    stopping, \* [Challenge -> the stop request: pc, snapshot]
    forcing,  \* [Challenge -> the stop by an administrator: pc, namespace]
    checking, \* [Challenge -> the status check: the entry it read, or NoEntry]
    owner,    \* [Ns -> the challenge a namespace was submitted for]
    workflow, \* [Ns -> Argo phase]
    pod,      \* [Ns -> state of the namespace's pod in the cluster]
    events,   \* [Ns -> watch events of the pod not yet handled, in order]
    worker,   \* [Ns -> the listener worker on the pod's event: pc, ...]
    watching, \* is the listener's watch stream connected?
    rows      \* challenge_start_tracking, in insertion order

vars == <<slot, cache, ttl, req, queue, consumer, stopping, forcing, checking,
          owner, workflow, pod, events, worker, watching, rows>>

stops == <<stopping, forcing, checking>>
center == <<req, stops>>
cluster == <<owner, workflow, pod, events>>
listener == <<worker, watching, rows>>

Unsubmitted == {n \in Ns : workflow[n] = "none"}
Running == {n \in Ns : workflow[n] = "Running"}
Alive == {n \in Ns : pod[n] \in {"created", "ready", "stuck"}}
RowsOf(c) == {i \in DOMAIN rows : rows[i].cc = c}

TypeOK ==
    /\ RedisTypeOK
    /\ req \in [Req -> [pc : {"idle", "checked", "read", "phase", "forget",
                              "enqueue", "setcache", "failed"},
                        cc : Challenge, waiting : BOOLEAN, ns : Ns \cup {NoNs}]]
    /\ queue \in Seq(Challenge)
    /\ consumer \in [pc : {"idle", "batch", "submit", "ack", "update"},
                     budget : 0 .. MaxRunning, cc : Challenge,
                     snap : CacheEntry, ns : Ns \cup {NoNs}]
    /\ stopping \in [Challenge -> [pc : {"idle", "update", "delete"},
                                   snap : CacheEntry]]
    /\ forcing \in [Challenge -> [pc : {"idle", "delete", "remove", "forget"},
                                  ns : Ns \cup {NoNs}]]
    /\ checking \in [Challenge -> CacheEntry \cup {NoEntry}]
    /\ owner \in [Ns -> Challenge]
    /\ workflow \in [Ns -> {"none", "Pending", "Running", "Succeeded", "Failed"}]
    /\ pod \in [Ns -> {"none", "created", "ready", "stuck", "terminating", "gone"}]
    /\ events \in [Ns -> Seq({"created", "ready", "stuck", "terminating", "gone"})]
    /\ worker \in [Ns -> [pc : {"idle", "act", "write", "close", "free"},
                          event : {"created", "ready", "stuck", "terminating", "gone"},
                          snap : CacheEntry \cup {NoEntry}]]
    /\ watching \in BOOLEAN
    /\ rows \in Seq([cc : Challenge, label : Ns \cup {NoNs}, open : BOOLEAN])

AnyChallenge == CHOOSE c \in Challenge : TRUE

IdleReq == [pc |-> "idle", cc |-> AnyChallenge, waiting |-> FALSE,
            ns |-> NoNs]
IdleConsumer == [pc |-> "idle", budget |-> 0, cc |-> AnyChallenge,
                 snap |-> NewEntry("INITIAL"), ns |-> NoNs]
IdleStop == [pc |-> "idle", snap |-> NewEntry("INITIAL")]
IdleForce == [pc |-> "idle", ns |-> NoNs]
IdleWorker == [pc |-> "idle", event |-> "created", snap |-> NoEntry]

Init == /\ RedisInit
        /\ req = [r \in Req |-> IdleReq]
        /\ queue = <<>>
        /\ consumer = IdleConsumer
        /\ stopping = [c \in Challenge |-> IdleStop]
        /\ forcing = [c \in Challenge |-> IdleForce]
        /\ checking = [c \in Challenge |-> NoEntry]
        /\ owner = [n \in Ns |-> AnyChallenge]
        /\ workflow = [n \in Ns |-> "none"]
        /\ pod = [n \in Ns |-> "none"]
        /\ events = [n \in Ns |-> <<>>]
        /\ worker = [n \in Ns |-> IdleWorker]
        /\ watching = TRUE
        /\ rows = <<>>

-----------------------------------------------------------------------------
(***************************************************************************)
(* ContestantBE and DeploymentCenter: start.                               *)
(***************************************************************************)

\* The request ends; ContestantBE rolls back if it still waits for an answer
\* and the answer is an error.
Answered(r) == req' = [req EXCEPT ![r] = IdleReq]
Refused(r) == req' = [req EXCEPT ![r] = IF @.waiting THEN [@ EXCEPT !.pc = "failed"]
                                                    ELSE IdleReq]
\* The request is with the Deployment Center.
InCenter(r) == req[r].pc \in {"read", "phase", "forget", "enqueue", "setcache"}
Goto(r, pc) == req' = [req EXCEPT ![r].pc = pc]

\* StartChallenge up to the reservation: the number of deployments so far is
\* counted in the database.
CheckDeployCount(r, c) ==
    /\ req[r].pc = "idle"
    /\ MaxDeploy > 0 => Cardinality(RowsOf(c)) < MaxDeploy
    /\ req' = [req EXCEPT ![r] = [IdleReq EXCEPT !.pc = "checked", !.cc = c, !.waiting = TRUE]]
    /\ UNCHANGED <<redis, stops, queue, consumer, cluster, listener>>

\* The atomic reservation; a pass goes on to /api/challenge/start.
Reserve(r) ==
    /\ req[r].pc = "checked"
    /\ \/ CreatePass(req[r].cc, NewEntry("INITIAL")) /\ Goto(r, "read")
       \/ CreateAlreadyExists(req[r].cc) /\ Answered(r)
       \/ CreateLimitExceeded(req[r].cc) /\ Answered(r)
    /\ UNCHANGED <<stops, queue, consumer, cluster, listener>>

\* Mutant: the exception is answered without the rollback.
BugHttpFails(r) ==
    /\ "http" \in May
    /\ InCenter(r) /\ req[r].waiting
    /\ \/ req' = [req EXCEPT ![r].waiting = FALSE]
       \/ req[r].pc = "read" /\ Answered(r)
    /\ UNCHANGED <<redis, stops, queue, consumer, cluster, listener>>

\* The HTTP call throws (refused, reset, timed out): ContestantBE removes the
\* reservation.  DeploymentCenter may or may not have received the request,
\* and is not told.
HttpFails(r) ==
    /\ "http" \in May
    /\ InCenter(r) /\ req[r].waiting
    /\ RemoveDeployment(req[r].cc)
    /\ \/ req' = [req EXCEPT ![r].waiting = FALSE]
       \/ req[r].pc = "read" /\ Answered(r)
    /\ UNCHANGED <<stops, queue, consumer, cluster, listener>>

\* ContestantBE rolls back after an error status.
Rollback(r) ==
    /\ req[r].pc = "failed"
    /\ RemoveDeployment(req[r].cc)
    /\ Answered(r)
    /\ UNCHANGED <<stops, queue, consumer, cluster, listener>>

StatusOf(e) == IF e = NoEntry THEN "absent" ELSE e.status

\* DeployService.Start: the entry decides.  Of a PENDING one the workflow is
\* asked for next.
CenterRead(r) ==
    LET e == cache[req[r].cc]
    IN  /\ req[r].pc = "read"
        /\ \/ /\ StatusOf(e) \in {"absent", "INITIAL", "PENDING_DEPLOY"}
              /\ Goto(r, "enqueue")
           \/ /\ StatusOf(e) = "PENDING" /\ e.ns # NoNs
              /\ req' = [req EXCEPT ![r].pc = "phase", ![r].ns = e.ns]
           \/ /\ StatusOf(e) \in {"PENDING", "RUNING"}
              /\ StatusOf(e) = "PENDING" => e.ns = NoNs
              /\ Answered(r)
           \/ /\ StatusOf(e) = "DELETING"
              /\ Refused(r)
        /\ UNCHANGED <<redis, stops, queue, consumer, cluster, listener>>

\* GetWorkflowStatus answers Unknown of a failed workflow, of one that is so
\* new that it has no phase yet, and whenever the API server does not answer.
SeemsLost(n) == workflow[n] \in {"none", "Pending", "Failed"} \/ "kube" \in May

CenterPhase(r) ==
    /\ req[r].pc = "phase"
    /\ \/ /\ SeemsLost(req[r].ns)
          /\ req' = [req EXCEPT ![r].pc = "forget", ![r].ns = NoNs]
       \/ /\ workflow[req[r].ns] \in {"Pending", "Running", "Succeeded"}
          /\ Answered(r)
    /\ UNCHANGED <<redis, stops, queue, consumer, cluster, listener>>

\* The entry of a workflow that seems lost is removed, whichever it is by now,
\* and the challenge published anew.
CenterForget(r) ==
    /\ req[r].pc = "forget"
    /\ RemoveCache(req[r].cc)
    /\ Goto(r, "enqueue")
    /\ UNCHANGED <<stops, queue, consumer, cluster, listener>>

\* EnqueueDeploymentAsync.  The channel is opened without publisher confirms,
\* so that what the broker does not queue (the queue is full and rejects, no
\* binding) is dropped and nobody is told; only a connection or channel that
\* is down throws, and the entry is removed.
CenterEnqueue(r) ==
    /\ req[r].pc = "enqueue"
    /\ \/ /\ Len(queue) < QueueMax
          /\ queue' = Append(queue, req[r].cc)
          /\ Goto(r, "setcache")
          /\ UNCHANGED redis
       \/ /\ Len(queue) >= QueueMax \/ "broker" \in May
          /\ Goto(r, "setcache")
          /\ UNCHANGED <<redis, queue>>
       \/ /\ "broker" \in May
          /\ RemoveCache(req[r].cc)
          /\ Refused(r)
          /\ UNCHANGED queue
    /\ UNCHANGED <<stops, consumer, cluster, listener>>

\* Only now is the entry written, without namespace or workflow.
CenterSetCache(r) ==
    /\ req[r].pc = "setcache"
    /\ SetCache(req[r].cc, NewEntry("PENDING_DEPLOY"))
    /\ Answered(r)
    /\ UNCHANGED <<stops, queue, consumer, cluster, listener>>

-----------------------------------------------------------------------------
(***************************************************************************)
(* DeploymentConsumer: one worker, one batch at a time.                    *)
(***************************************************************************)

\* A message past its expiry is dropped, by the broker or on receipt.
MessageExpires ==
    /\ queue # <<>>
    /\ queue' = Tail(queue)
    /\ UNCHANGED <<redis, center, consumer, cluster, listener>>

\* The gate: as many messages as the running workflows leave room for.
ConsumerPoll ==
    /\ consumer.pc = "idle"
    /\ queue # <<>>
    /\ Cardinality(Running) < MaxRunning
    /\ consumer' = [consumer EXCEPT !.pc = "batch",
                                    !.budget = MaxRunning - Cardinality(Running)]
    /\ UNCHANGED <<redis, center, queue, cluster, listener>>

\* The next message of the batch and its entry; without an entry the message
\* is rejected (no requeue).
ConsumerTake ==
    /\ consumer.pc = "batch" /\ consumer.budget > 0 /\ queue # <<>>
    /\ queue' = Tail(queue)
    /\ LET c == Head(queue)
       IN  consumer' = IF cache[c] = NoEntry
                       THEN [consumer EXCEPT !.budget = @ - 1]
                       ELSE [consumer EXCEPT !.budget = @ - 1, !.pc = "submit",
                                             !.cc = c, !.snap = cache[c]]
    /\ UNCHANGED <<redis, center, cluster, listener>>

NextMessage ==
    consumer' = [IdleConsumer EXCEPT !.pc = "batch", !.budget = consumer.budget]

\* Mutant: the batch ends only with the queue.
BugConsumerBatchEnds ==
    /\ consumer.pc = "batch" /\ queue = <<>>
    /\ consumer' = IdleConsumer
    /\ UNCHANGED <<redis, center, queue, cluster, listener>>

ConsumerBatchEnds ==
    /\ consumer.pc = "batch" /\ (consumer.budget = 0 \/ queue = <<>>)
    /\ consumer' = IdleConsumer
    /\ UNCHANGED <<redis, center, queue, cluster, listener>>

\* POST /submit creates a workflow for a new namespace name; on any error, and
\* when the bound MaxNs is reached, the message is rejected (no requeue).
ConsumerSubmit ==
    /\ consumer.pc = "submit"
    /\ \/ LET n == MaxNs + 1 - Cardinality(Unsubmitted)
          IN  /\ Unsubmitted # {}
              /\ workflow' = [workflow EXCEPT ![n] = "Pending"]
              /\ owner' = [owner EXCEPT ![n] = consumer.cc]
              /\ consumer' = [consumer EXCEPT !.pc = "ack", !.ns = n]
       \/ /\ "workflow" \in May \/ Unsubmitted = {}
          /\ NextMessage
          /\ UNCHANGED <<owner, workflow>>
    /\ UNCHANGED <<redis, center, queue, pod, events, listener>>

ConsumerAck ==
    /\ consumer.pc = "ack"
    /\ consumer' = [consumer EXCEPT !.pc = "update"]
    /\ UNCHANGED <<redis, center, queue, cluster, listener>>

\* The entry read before the submission, with the new names, is written back.
ConsumerUpdate ==
    /\ consumer.pc = "update"
    /\ UpdateExpiration(consumer.cc,
                        [consumer.snap EXCEPT !.ns = consumer.ns,
                                              !.status = "PENDING",
                                              !.timed = FALSE])
    /\ NextMessage
    /\ UNCHANGED <<center, queue, cluster, listener>>

\* The consumer restarts.  The broker redelivers a message that was not yet
\* acknowledged.
ConsumerCrash ==
    /\ "consumer" \in May
    /\ consumer.pc # "idle"
    /\ queue' = IF consumer.pc \in {"submit", "ack"}
                THEN <<consumer.cc>> \o queue ELSE queue
    /\ consumer' = IdleConsumer
    /\ UNCHANGED <<redis, center, cluster, listener>>

-----------------------------------------------------------------------------
(***************************************************************************)
(* Argo and Kubernetes.                                                    *)
(***************************************************************************)

\* A transition of a pod, seen by the listener if its watch is connected.
PodBecomes(n, st) ==
    /\ pod' = [pod EXCEPT ![n] = st]
    /\ IF watching
       THEN /\ Len(events[n]) < MaxEvents
            /\ events' = [events EXCEPT ![n] = Append(@, st)]
       ELSE UNCHANGED events

\* DELETE of a namespace that exists is accepted.
DeleteAccepted(n) == n \in Alive /\ PodBecomes(n, "terminating")

\* DELETE fails: no such namespace (also the empty name of an entry without
\* one), one already terminating, or an error of the API server.
DeleteRejected(n) == /\ n \notin Alive \/ "kube" \in May
                     /\ UNCHANGED <<pod, events>>

WorkflowStarts(n) ==
    /\ workflow[n] = "Pending"
    /\ workflow' = [workflow EXCEPT ![n] = "Running"]
    /\ UNCHANGED <<redis, center, queue, consumer, owner, pod, events, listener>>

\* start-chal-v2 applies the namespace and the job; the pod appears.
WorkflowSucceeds(n) ==
    /\ workflow[n] = "Running"
    /\ workflow' = [workflow EXCEPT ![n] = "Succeeded"]
    /\ PodBecomes(n, "created")
    /\ UNCHANGED <<redis, center, queue, consumer, owner, listener>>

WorkflowFails(n) ==
    /\ "workflow" \in May
    /\ workflow[n] \in {"Pending", "Running"}
    /\ workflow' = [workflow EXCEPT ![n] = "Failed"]
    /\ UNCHANGED <<redis, center, queue, consumer, owner, pod, events, listener>>

PodReady(n) ==
    /\ pod[n] = "created" /\ PodBecomes(n, "ready")
    /\ UNCHANGED <<redis, center, queue, consumer, owner, workflow, listener>>

\* IsPodStuck will hold of the pod from now on.
PodStuck(n) ==
    /\ "workflow" \in May
    /\ pod[n] \in {"created", "ready"} /\ PodBecomes(n, "stuck")
    /\ UNCHANGED <<redis, center, queue, consumer, owner, workflow, listener>>

\* A further event of an unchanged pod: a status update of the kubelet.
PodTouched(n) ==
    /\ "touch" \in May
    /\ n \in Alive /\ watching /\ events[n] = <<>> /\ PodBecomes(n, pod[n])
    /\ UNCHANGED <<redis, center, queue, consumer, owner, workflow, listener>>

PodGone(n) ==
    /\ pod[n] = "terminating" /\ PodBecomes(n, "gone")
    /\ UNCHANGED <<redis, center, queue, consumer, owner, workflow, listener>>

\* cleanup-temp-namespaces: the namespace is older than its time limit.
CronDelete(n) ==
    /\ "cron" \in May
    /\ DeleteAccepted(n)
    /\ UNCHANGED <<redis, center, queue, consumer, owner, workflow, listener>>

-----------------------------------------------------------------------------
(***************************************************************************)
(* DeploymentCenter: stop.  ForceStopChallenge of ContestantBE holds a     *)
(* lock per team and challenge, so a challenge has one stop at a time.     *)
(***************************************************************************)

StopRead(c) ==
    /\ "stop" \in May
    /\ stopping[c].pc = "idle"
    /\ cache[c] # NoEntry
    /\ stopping' = [stopping EXCEPT ![c] =
                       [pc |-> "update", snap |-> [cache[c] EXCEPT !.status = "DELETING",
                                                                   !.ready = FALSE]]]
    /\ UNCHANGED <<redis, req, forcing, checking, queue, consumer, cluster, listener>>

StopUpdate(c) ==
    /\ stopping[c].pc = "update"
    /\ UpdateExpiration(c, stopping[c].snap)
    /\ stopping' = [stopping EXCEPT ![c].pc = "delete"]
    /\ UNCHANGED <<req, forcing, checking, queue, consumer, cluster, listener>>

\* Mutant: the reservation is given back once the deletion is accepted.
BugStopDelete(c) ==
    /\ stopping[c].pc = "delete"
    /\ \/ DeleteAccepted(stopping[c].snap.ns)
       \/ DeleteRejected(stopping[c].snap.ns)
    /\ RemoveDeployment(c)
    /\ stopping' = [stopping EXCEPT ![c] = IdleStop]
    /\ UNCHANGED <<req, forcing, checking, queue, consumer, owner, workflow, listener>>

\* The result of DeleteNamespace is not looked at.
StopDelete(c) ==
    /\ stopping[c].pc = "delete"
    /\ \/ DeleteAccepted(stopping[c].snap.ns)
       \/ DeleteRejected(stopping[c].snap.ns)
    /\ stopping' = [stopping EXCEPT ![c] = IdleStop]
    /\ UNCHANGED <<redis, req, forcing, checking, queue, consumer, owner, workflow, listener>>

\* Stop by an administrator: no lock, and the namespace, the reservation and
\* the entry go one after the other.  The result of DeleteNamespace is not
\* looked at here either.
AdminRead(c) ==
    /\ "admin" \in May
    /\ forcing[c].pc = "idle"
    /\ cache[c] # NoEntry
    /\ forcing' = [forcing EXCEPT ![c] = [pc |-> "delete", ns |-> cache[c].ns]]
    /\ UNCHANGED <<redis, req, stopping, checking, queue, consumer, cluster, listener>>

AdminDelete(c) ==
    /\ forcing[c].pc = "delete"
    /\ DeleteAccepted(forcing[c].ns) \/ DeleteRejected(forcing[c].ns)
    /\ forcing' = [forcing EXCEPT ![c] = [pc |-> "remove", ns |-> NoNs]]
    /\ UNCHANGED <<redis, req, stopping, checking, queue, consumer, owner, workflow,
                   listener>>

AdminRemove(c) ==
    /\ forcing[c].pc = "remove"
    /\ RemoveDeployment(c)
    /\ forcing' = [forcing EXCEPT ![c].pc = "forget"]
    /\ UNCHANGED <<req, stopping, checking, queue, consumer, cluster, listener>>

AdminForget(c) ==
    /\ forcing[c].pc = "forget"
    /\ RemoveCache(c)
    /\ forcing' = [forcing EXCEPT ![c] = IdleForce]
    /\ UNCHANGED <<req, stopping, checking, queue, consumer, cluster, listener>>

\* StopAll deletes every challenge namespace.  The patterns it then removes
\* from Redis match no key: the keys start with "contest:".
StopAll ==
    /\ "stopall" \in May
    /\ Alive # {}
    /\ watching => \A n \in Alive : Len(events[n]) < MaxEvents
    /\ pod' = [n \in Ns |-> IF n \in Alive THEN "terminating" ELSE pod[n]]
    /\ events' = [n \in Ns |-> IF n \in Alive /\ watching
                               THEN Append(events[n], "terminating") ELSE events[n]]
    /\ UNCHANGED <<redis, center, queue, consumer, owner, workflow, listener>>

\* StatusCheck of a running deployment: HandleChallengeRunning once more.  The
\* entry has its end time, so no row is written, only the entry again.
StatusRead(c) ==
    /\ "status" \in May
    /\ checking[c] = NoEntry
    /\ StatusOf(cache[c]) = "RUNING" /\ cache[c].ready
    /\ checking' = [checking EXCEPT ![c] = cache[c]]
    /\ UNCHANGED <<redis, req, stopping, forcing, queue, consumer, cluster, listener>>

StatusWrite(c) ==
    /\ checking[c] # NoEntry
    /\ UpdateExpiration(c, checking[c])
    /\ checking' = [checking EXCEPT ![c] = NoEntry]
    /\ UNCHANGED <<req, stopping, forcing, queue, consumer, cluster, listener>>

-----------------------------------------------------------------------------
(***************************************************************************)
(* DeploymentListener.                                                     *)
(***************************************************************************)

\* ProcessPodChangeAsync reads the entry that the namespace's name leads to; a
\* Deleted event does not use it.
ListenerRead(n) ==
    /\ worker[n].pc = "idle" /\ events[n] # <<>>
    /\ worker' = [worker EXCEPT ![n] = [pc |-> "act", event |-> Head(events[n]),
                                        snap |-> IF Head(events[n]) = "gone" THEN NoEntry
                                                 ELSE cache[owner[n]]]]
    /\ events' = [events EXCEPT ![n] = Tail(@)]
    /\ UNCHANGED <<redis, center, queue, consumer, owner, workflow, pod,
                   watching, rows>>

\* A pod that the entry does not know is a restart: the rest of the handler
\* sees the entry with the new one.
Restarted(n) == IF worker[n].snap.pod = n THEN worker[n].snap
                ELSE [worker[n].snap EXCEPT !.pod = n, !.ready = FALSE]

\* The handler has an entry, and no restart is left to save.
Current(n) == /\ worker[n].snap # NoEntry
              /\ worker[n].snap.timed => worker[n].snap.pod = n

Handled(n) == worker' = [worker EXCEPT ![n] = IdleWorker]

\* The first open row with this label is closed.
CloseRow(label) ==
    LET open == {i \in DOMAIN rows : rows[i].label = label /\ rows[i].open}
    IN  rows' = [i \in DOMAIN rows |->
                    IF i \in open /\ \A j \in open : i <= j
                    THEN [rows[i] EXCEPT !.open = FALSE] ELSE rows[i]]

\* The handler goes on without the entry it has read.
Goes(n, pc) == worker' = [worker EXCEPT ![n].pc = pc, ![n].snap = NoEntry]

\* Mutant: the row is closed and the entry forgotten.
BugHandleDeletion(n) ==
    /\ worker[n].pc = "act" /\ worker[n].event = "gone"
    /\ Goes(n, "close")
    /\ UNCHANGED <<redis, center, queue, consumer, cluster, watching, rows>>

\* HandleDeletion, with or without an entry: the reservation and the entry go,
\* and then the row is closed.
HandleDeletion(n) ==
    /\ worker[n].pc = "act" /\ worker[n].event = "gone"
    /\ RemoveDeployment(owner[n])
    /\ Goes(n, "close")
    /\ UNCHANGED <<center, queue, consumer, cluster, watching, rows>>

RecordStop(n) ==
    /\ worker[n].pc = "close"
    /\ CloseRow(n) \/ ("db" \in May /\ UNCHANGED rows)
    /\ Handled(n)
    /\ UNCHANGED <<redis, center, queue, consumer, cluster, watching>>

\* CleanupGhostResources, of a pod without an entry or a stuck one: the
\* namespace, and then the reservation, if the deletion was accepted.
CleanupGhost(n) ==
    /\ worker[n].pc = "act"
    /\ \/ worker[n].snap = NoEntry /\ worker[n].event # "gone"
       \/ Current(n) /\ worker[n].event = "stuck"
    /\ \/ DeleteAccepted(n) /\ Goes(n, "free")
       \/ DeleteRejected(n) /\ Handled(n)
    /\ UNCHANGED <<redis, center, queue, consumer, owner, workflow, watching, rows>>

FreeSlot(n) ==
    /\ worker[n].pc = "free"
    /\ RemoveDeployment(owner[n])
    /\ Handled(n)
    /\ UNCHANGED <<center, queue, consumer, cluster, watching, rows>>

IgnoreTerminating(n) ==
    /\ worker[n].pc = "act" /\ worker[n].event = "terminating"
    /\ worker[n].snap # NoEntry
    /\ Handled(n)
    /\ UNCHANGED <<redis, center, queue, consumer, cluster, watching, rows>>

\* HandlePodRestart writes the entry if it has time left.
HandlePodRestart(n) ==
    /\ worker[n].pc = "act" /\ worker[n].event \in {"created", "ready", "stuck"}
    /\ worker[n].snap # NoEntry /\ ~Current(n)
    /\ UpdateExpiration(owner[n], Restarted(n))
    /\ worker' = [worker EXCEPT ![n].snap = Restarted(n)]
    /\ UNCHANGED <<center, queue, consumer, cluster, watching, rows>>

\* A created pod, or one of a deployment being deleted, or one that is known
\* to be ready: nothing more to do.
HandlePending(n) ==
    /\ worker[n].pc = "act" /\ Current(n)
    /\ \/ worker[n].event = "created"
       \/ worker[n].event = "ready" /\ (\/ worker[n].snap.status = "DELETING"
                                        \/ Restarted(n).ready)
    /\ Handled(n)
    /\ UNCHANGED <<redis, center, queue, consumer, cluster, watching, rows>>

\* HandleRunningState and HandleChallengeRunning: the first run of a
\* deployment is recorded under the namespace of the entry.  An error of the
\* database ends the handler.
RecordStart(n) ==
    LET e == Restarted(n)
        row == [cc |-> owner[n], label |-> e.ns, open |-> TRUE]
    IN  /\ worker[n].pc = "act" /\ worker[n].event = "ready" /\ Current(n)
        /\ e.status # "DELETING" /\ ~e.ready
        /\ e.timed \/ Len(rows) < MaxRows
        /\ \/ /\ rows' = IF e.timed THEN rows ELSE Append(rows, row)
              /\ worker' = [worker EXCEPT ![n].pc = "write", ![n].snap = e]
           \/ "db" \in May /\ Handled(n) /\ UNCHANGED rows
        /\ UNCHANGED <<redis, center, queue, consumer, cluster, watching>>

\* ... and then the entry read before is written back, as running.
HandleRunning(n) ==
    /\ worker[n].pc = "write"
    /\ UpdateExpiration(owner[n], [worker[n].snap EXCEPT !.status = "RUNING",
                                                         !.ready = TRUE,
                                                         !.timed = TRUE])
    /\ Handled(n)
    /\ UNCHANGED <<center, queue, consumer, cluster, watching, rows>>

\* The watch stream breaks (410 Gone, HTTP error): events are missed.
WatchLost ==
    /\ "watch" \in May /\ watching
    /\ watching' = FALSE
    /\ UNCHANGED <<redis, center, queue, consumer, cluster, worker, rows>>

\* The listener restarts: what its shards held is lost as well.
ListenerRestarts ==
    /\ "restart" \in May
    /\ watching' = FALSE
    /\ worker' = [n \in Ns |-> IdleWorker]
    /\ events' = [n \in Ns |-> <<>>]
    /\ UNCHANGED <<redis, center, queue, consumer, owner, workflow, pod, rows>>

\* Mutant: terminating pods are not listed.
BugRelist ==
    LET listed == Alive
    IN  /\ ~watching
        /\ \A n \in listed : Len(events[n]) < MaxEvents
        /\ watching' = TRUE
        /\ rows' = [i \in DOMAIN rows |->
                       [rows[i] EXCEPT !.open = @ /\ rows[i].label \in listed]]
        /\ events' = [n \in Ns |-> IF n \in listed THEN Append(events[n], pod[n])
                                   ELSE events[n]]
        /\ UNCHANGED <<redis, center, queue, consumer, owner, workflow, pod, worker>>

\* The relist: rows without a pod are closed, the pods there are re-dispatched.
Relist ==
    LET listed == {n \in Ns : pod[n] \notin {"none", "gone"}}
    IN  /\ ~watching
        /\ \A n \in listed : Len(events[n]) < MaxEvents
        /\ watching' = TRUE
        /\ rows' = [i \in DOMAIN rows |->
                       [rows[i] EXCEPT !.open = @ /\ rows[i].label \in listed]]
        /\ events' = [n \in Ns |-> IF n \in listed THEN Append(events[n], pod[n])
                                   ELSE events[n]]
        /\ UNCHANGED <<redis, center, queue, consumer, owner, workflow, pod, worker>>

-----------------------------------------------------------------------------
\* Scores and JSON keys run out.  The ZSET's own EXPIRE is longer by half an
\* hour at least; DeployRedisTimed has it.
Elapse == /\ "elapse" \in May
          /\ \E S, K \in SUBSET Challenge : TimePasses(S, K, {})
          /\ UNCHANGED <<center, queue, consumer, cluster, listener>>

StartNext == \E r \in Req :
    \/ \E c \in Challenge : CheckDeployCount(r, c)
    \/ Reserve(r) \/ HttpFails(r) \/ Rollback(r)
    \/ CenterRead(r) \/ CenterPhase(r) \/ CenterForget(r)
    \/ CenterEnqueue(r) \/ CenterSetCache(r)

ConsumerNext == \/ MessageExpires \/ ConsumerPoll \/ ConsumerTake
                \/ ConsumerBatchEnds \/ ConsumerSubmit \/ ConsumerAck
                \/ ConsumerUpdate \/ ConsumerCrash

StopNext == \/ \E c \in Challenge : StopRead(c) \/ StopUpdate(c)
                                    \/ StopDelete(c)
                                    \/ AdminRead(c) \/ AdminDelete(c)
                                    \/ AdminRemove(c) \/ AdminForget(c)
                                    \/ StatusRead(c) \/ StatusWrite(c)
            \/ StopAll

ClusterNext == \E n \in Ns :
    \/ WorkflowStarts(n) \/ WorkflowSucceeds(n) \/ WorkflowFails(n)
    \/ PodReady(n) \/ PodStuck(n) \/ PodTouched(n) \/ PodGone(n) \/ CronDelete(n)

Handle(n) == \/ HandleDeletion(n) \/ RecordStop(n) \/ CleanupGhost(n) \/ FreeSlot(n)
             \/ IgnoreTerminating(n) \/ HandlePodRestart(n) \/ HandlePending(n)
             \/ RecordStart(n) \/ HandleRunning(n)

ListenerNext == \/ \E n \in Ns : ListenerRead(n) \/ Handle(n)
                \/ WatchLost \/ ListenerRestarts \/ Relist

Next == StartNext \/ ConsumerNext \/ StopNext \/ ClusterNext \/ ListenerNext \/ Elapse

Spec == Init /\ [][Next]_vars

-----------------------------------------------------------------------------
(***************************************************************************)
(* Fairness.  Every service goes on with what it has begun: a request, a   *)
(* batch, an event.  The consumer polls every two seconds, a workflow ends *)
(* by its activeDeadlineSeconds, Kubernetes finishes the deletion of a     *)
(* namespace, and the CronJob finds every namespace past its time; strong  *)
(* fairness for these two, because they do not wait for the listener: only *)
(* the bound MaxEvents makes them.  Each happens once to a namespace at    *)
(* most, so one condition for all of them asks the same as one for each.   *)
(* Nothing is assumed of users, of expiries or of failures.                *)
(***************************************************************************)
StartProceeds(r) == \/ Reserve(r) \/ Rollback(r) \/ CenterRead(r)
                    \/ CenterPhase(r) \/ CenterForget(r)
                    \/ CenterEnqueue(r) \/ CenterSetCache(r)

ConsumerProceeds == \/ ConsumerPoll \/ ConsumerTake \/ ConsumerBatchEnds
                    \/ ConsumerSubmit \/ ConsumerAck \/ ConsumerUpdate

WorkflowProceeds(n) == WorkflowStarts(n) \/ WorkflowSucceeds(n) \/ WorkflowFails(n)

PipelineFairness ==
    /\ \A r \in Req : WF_vars(StartProceeds(r))
    /\ WF_vars(ConsumerProceeds)
    /\ \A c \in Challenge : /\ WF_vars(StopUpdate(c) \/ StopDelete(c))
                            /\ WF_vars(AdminDelete(c) \/ AdminRemove(c) \/ AdminForget(c))
    /\ \A n \in Ns : /\ WF_vars(WorkflowProceeds(n))
                     /\ WF_vars(ListenerRead(n) \/ Handle(n))
    /\ SF_vars(\E n \in Ns : PodGone(n) \/ CronDelete(n))
    /\ WF_vars(Relist)

FairSpec == Spec /\ PipelineFairness

-----------------------------------------------------------------------------
(***************************************************************************)
(* Properties.                                                             *)
(***************************************************************************)

\* A reservation is not forgotten: while an entry is INITIAL, a request for
\* its challenge is still before its answer or its rollback.  No exception, of
\* the call or of the publish, and no error status leaves an entry behind that
\* no request will change (ChallengeController.cs:667-704,
\* DeployService.cs:166-214).  It does not say that the message is in the
\* queue: see QueuedIsPublished.
InitialIsAttended ==
    \A c \in Challenge : StatusOf(cache[c]) = "INITIAL" =>
        \E r \in Req : req[r].cc = c /\ req[r].pc \in {"read", "enqueue", "setcache", "failed"}

\* Is the removal of n's pod still ahead of the listener?
Watched(n) == \/ pod[n] \in {"created", "ready", "stuck", "terminating"}
              \/ \E i \in DOMAIN events[n] : events[n][i] = "gone"
              \/ worker[n].pc = "act" /\ worker[n].event = "gone"

\* No false "running" record: while an entry is RUNING, a pod of the challenge
\* is still there or its Deleted event is still to be handled, and will take
\* the entry away.  The listener's events of a pod keep their order
\* (ChallengesInformerService.cs:384-393), a Deleted event is handled even
\* without an entry (224-229), and an update finds no slot afterwards
\* (RedisHelper.cs:361-365).
RunningIsWatched ==
    \A c \in Challenge : StatusOf(cache[c]) = "RUNING" =>
        \E n \in Ns : owner[n] = c /\ Watched(n)

\* An entry is ready only if the pod of its own namespace has become ready:
\* with user stops alone, the event of an older deployment never marks a newer
\* one as ready, since the slot is free only after the old pod's Deleted event
\* (ChallengesInformerService.cs:269, 314-333).
ReadyIsObserved ==
    \A c \in Challenge : StatusOf(cache[c]) = "RUNING" /\ cache[c].ns # NoNs =>
        pod[cache[c].ns] \notin {"none", "created"}

\* A deployment that the table shows as stopped is gone from the cluster
\* (ChallengesInformerService.cs:276-281, 355-359).
StoppedIsGone ==
    \A i \in DOMAIN rows : ~rows[i].open /\ rows[i].label # NoNs =>
        pod[rows[i].label] = "gone"

\* The instances of a team that are alive are never more than its cap, however
\* starts, stops and rejections of its challenges interleave: a stop keeps the
\* slot until the pod is gone (DeployService.cs:257-273,
\* ChallengesInformerService.cs:269).  With a cap of one, no challenge is ever
\* deployed twice either, by two starts or by a start racing a stop (START-01
\* in Test/RaceCondition/TestCases.md).
AliveWithinLimit == Cardinality(Alive) <= MaxLimit

\* Every running deployment ends in an entry that is no longer RUNING: the
\* listener gets there from the deletion of the pod alone, without a TTL
\* (ChallengesInformerService.cs:266-290).
RunningEnds == \A c \in Challenge : []<>(StatusOf(cache[c]) # "RUNING")

\* The gate starves no one: a message at the head of the queue is taken, even
\* when every workflow slot is busy (DeploymentConsumer/Worker.cs:57-68).
QueueMoves == []<>(queue = <<>> \/ consumer.pc = "submit")

-----------------------------------------------------------------------------
(***************************************************************************)
(* Statements of the documentation that the code does not keep.            *)
(***************************************************************************)

\* An entry does not fall back: once the consumer has written it as PENDING,
\* with its namespace and workflow, it is not overwritten by PENDING_DEPLOY.
\* The message is published before the entry is written
\* (DeployService.cs:141, 155), so the write may come after the consumer's.
ProgressKept ==
    [][\A c \in Challenge : StatusOf(cache[c]) = "PENDING" =>
          StatusOf(cache'[c]) # "PENDING_DEPLOY"]_vars

\* No more workflows run than the gate allows.  The consumer counts those in
\* phase Running (ArgoWorkflowService.cs:42-45); the ones it has submitted and
\* that still wait are not counted.
GateHolds == Cardinality(Running) <= MaxRunning

\* The number of deployments of a challenge stays within MaxDeployCount.  It is
\* checked before the reservation and counted when the pod is ready
\* (ChallengeController.cs:580-588, K8sService.cs:278-286).
DeploysWithinMax ==
    MaxDeploy > 0 => \A c \in Challenge : Cardinality(RowsOf(c)) <= MaxDeploy

\* No row of the table stays open for ever: a row whose pod went in a break of
\* the watch is closed by the next relist (ChallengesInformerService.cs:343-374).
\* The shards may still hold an event from before the break, and the row it
\* writes after the relist, for a pod already gone, is never closed.  A restart
\* between RecordStart and HandleRunning, too: the row is written twice.
OpenRow(i) == i \in DOMAIN rows /\ rows[i].open /\ rows[i].label # NoNs
RowsClose == \A i \in 1 .. MaxRows : OpenRow(i) ~> ~OpenRow(i)

\* A running entry names the namespace it runs in, from which the gateway's
\* route is made (K8sService.cs:290).
RunningIsRouted ==
    \A c \in Challenge : StatusOf(cache[c]) = "RUNING" => cache[c].ns # NoNs

\* A stop is not undone by the consumer: when it writes an entry back that it
\* has read before the submission, a DELETING one stays DELETING
\* (Worker.cs:86, 153-165, against DeployService.cs:256-269).
StopHolds ==
    [][ConsumerUpdate => \A c \in Challenge : StatusOf(cache[c]) = "DELETING" =>
          StatusOf(cache'[c]) = "DELETING"]_vars

\* Nor by a start whose message is published before its entry is written
\* (DeployService.cs:141, 155).
StopSurvivesStart ==
    [][(\E r \in Req : CenterSetCache(r)) => \A c \in Challenge :
          StatusOf(cache[c]) = "DELETING" => StatusOf(cache'[c]) = "DELETING"]_vars

\* The relist makes good what a broken watch has missed: it leaves no entry
\* RUNING whose pod is gone and whose Deleted event nobody will handle
\* (ChallengesInformerService.cs:81-83, 336-374).
RelistReconciles == [][Relist => RunningIsWatched']_vars

\* A start that is answered as queued is queued: the broker's refusal of a
\* message reaches the producer (DeploymentProducerService.cs:85, 111-130).
QueuedIsPublished ==
    [][\A r \in Req : req[r].pc = "enqueue" /\ req'[r].pc = "setcache" =>
          queue' # queue]_vars

\* StopAll clears every entry of the cache (DeployService.cs:307-310).
StopAllClears == [][StopAll => \A c \in Challenge : cache'[c] = NoEntry]_vars
=============================================================================
