# FCTF: a TLA+ model of the contest platform

FCTF runs capture-the-flag contests with several contests in one installation.
Contestants start a *challenge*, get a private instance of it in a Kubernetes
namespace for a limited time, attack it through a gateway and submit flags.
Contestants play in a React portal; administrators work in a fork of CTFd.  This
directory models the parts of that platform where the order of events decides
whether it is correct - the services around Redis, the database and the cluster,
and the pages of both web applications with the functions they leave pending -
checks them with TLC, and proves with TLAPS, for every value of their parameters,
what matters most about the deployment quota and the pipeline behind it, the limit of
wrong answers and the answer to the right one, the purchase of hints, the challenge
list and panel, the session, the password forms and the administrators' forms and
lists.

Source paths below are relative to `src/`; `CC/` stands for
`ControlCenterAndChallengeHostingServer/`.

## 1. The system

| Component | State it keeps | Operations | Talks to |
|---|---|---|---|
| **ContestantBE** (`CC/ContestantBE`, 3 replicas) | tables submissions, solves, awards, unlocks; Redis counters and locks | start / stop / check a challenge, submit a flag, unlock a hint, login, teams, tickets, scoreboard | Deployment Center (HTTP), Redis, MariaDB |
| **DeploymentCenter** (`CC/DeploymentCenter`, 3 replicas) | none of its own | Start, Stop, StopAll, StatusCheck, Argo call-backs, logs | Redis, RabbitMQ, Kubernetes, Argo |
| **RabbitMQ** (external) | `deployment_queue`, at most 300 messages with an expiry; a full queue rejects (`rabbitmq-values.yaml:127`) | publish, without confirms; deliver, ack, nack | |
| **DeploymentConsumer** (`CC/DeploymentConsumer`, 1 replica) | its prefetch buffer and one batch | poll every 2 s, gate on running workflows, submit, ack, update the entry | Argo (HTTP), Redis |
| **Argo, Kubernetes** (external) | workflows, namespaces, pods | run a workflow, create / delete a namespace, watch | |
| **DeploymentListener** (`CC/DeploymentListener`, 1 replica) | one channel per pod shard, a watch position | list, watch, handle a pod event | Kubernetes, Redis, MariaDB |
| **Cleanup CronJob** (`FCTF-k3s-manifest/prod/cron-job`) | none | delete namespaces past their time limit, every minute | Kubernetes |
| **ResourceShared** (`CC/ResourceShared`) | Lua scripts, locks, helpers | the three deployment scripts, attempts, cooldown, locks, dynamic score, tokens | Redis |
| **Challenge Gateway** (`ChallengeGateway`, Go, 2 replicas) | per-process counters, Redis counters | authenticate a TCP / HTTP connection, limit, proxy | Redis, challenge pods |
| **Management Platform** (`FCTF-ManagementPlatform`, a CTFd fork: Python, and scripts with Vue components) | the shared database; the state of each page | tables with batch requests, the forms of a challenge, previews, users, teams, configuration, statistics; stop and stop-all | its own API, Deployment Center |
| **Contestant Portal** (`ContestantPortal`, React) | the state of each page; `localStorage` (token, user, deployments, health checks, timers, cooldowns), shared by the tabs | challenge list and panel, flags, hints, session, boards, tickets, instances, logs, profile, registration | ContestantBE |
| **database-migration** | none | one-shot export / import of tables | MariaDB |

Three stores are shared by all of them and no transaction spans two of them:

* **Redis.** Per team a ZSET `contest:<c>:active_deploys_team_<t>` whose members
  are the deployed challenges and whose scores are the times they end (the
  *slots*), and per challenge a JSON document (the *entry*) with a TTL.
* **MariaDB.** `challenge_start_tracking` has one row per deployment that became
  ready, closed when it ends; submissions, solves, awards, unlocks.
* **The cluster.** One namespace per deployment, its name made of team, contest,
  challenge and the time of the submission.

### What is hard

* A deployment crosses six processes; each reads the entry, does something slow
  (HTTP, broker, Argo, Kubernetes) and writes the entry back from what it read.
* The slot must be held from the button to the death of the pod, through TTLs of
  40 s, 5 min, the queue timeout and the time limit, all on the same keys.
* The call to the Deployment Center may fail after it was received; the consumer
  may crash between submit, ack and update; the watch loses events; the listener
  restarts with events in memory.
* Counters are read in one store and incremented in another (deploy count, wrong
  attempts); locks expire while the critical section runs.
* Every page is a set of asynchronous functions that interleave at each `await`.
  They outlive the component that started them, see the state of the render in
  which they were created, share refs, `localStorage` and one popup, and their
  requests are answered in any order, late or not at all.

### What makes each component correct

* **Deployment scripts:** never more members than the cap; no entry without its
  reservation; every key has a TTL.
* **Pipeline:** never more live instances than slots; an entry is ready only if
  its pod is; a reservation gets an entry of the queue or is rolled back; a running entry ends
  when its pod ends; a row is closed only when the pod is gone; the queue moves.
* **Submission:** one solve per team and challenge; wrong answers within
  `MaxAttempts`; one wrong answer per cooldown.
* **Hints:** one unlock and one cost per team and hint; never below zero.
* **Gateway:** connection counters neither leak nor go below the truth.
* **Portal and administrators' pages:** a page shows only what the server let it
  see; what it disables while it waits is freed by an answer still to come; what a
  form sends is what its user has seen and agreed to; a loop or a timer ends, and
  acts only on the instance it was set for.

## 2. Modules

| Module | Models | Kind |
|---|---|---|
| `SlotPool` | what the quota promises, without Redis | abstract specification |
| `DeployKeys` | the constants of one team's deployment keys and their assumptions | shared by the next two |
| `DeployRedis` | ZSET, entries and TTLs of one team; the scripts of `RedisHelper.cs` | component, INSTANCEs `SlotPool` |
| `DeployRedisTimed` | the same with every clock explicit | refinement of `DeployRedis` |
| `DeployRedisTimedProofs` | its clocks: `DeployRedisTimed` implements `DeployRedis` | proofs |
| `Deployment` | ContestantBE, Deployment Center, queue, consumer, cluster, listener around one Redis | composition, EXTENDS `DeployRedis` |
| `DeploymentProofs` | theorems about `DeployRedis`; types, quota, attended reservations and followed entries of the pipeline; one slot, one deployment: the instances alive, what ready entries and closed rows name | proofs |
| `Submission` | `ChallengeController.Attempt`: cooldown, right and wrong flags of one team for one challenge | component |
| `HintShop` | what the hint service promises a team, without locks and requests | abstract specification |
| `HintUnlock` | `HintService.UnlockHint` under `RedisLockHelper` | component, INSTANCEs `HintShop` |
| `ContestantProofs` | theorems about `Submission` and `HintUnlock`, and the types of all services of `MCContestant` | proofs |
| `Tab` | the event loop of a browser tab: pending functions as tasks, moves of people | shared by the pages |
| `ChallengePanel` | the panel of one challenge: start, stop, health check, countdown, timer service, flags (`Challenges.tsx`, `challengeTimerService.ts`) | component |
| `ChallengePanelProofs` | theorems about it | proofs |
| `ChallengeBrowser` | the challenge list around the panel: categories, locks, opening by click, URL, popup or link | component |
| `HintDialog` | hints and files of the panel with their dialogs | component |
| `PortalSession` | tabs that share token and user; login, contests, logout, 401; the server's token and cache | component |
| `Boards` | the scoreboards, their refresh and interval, every pagination | component |
| `TeamPages` | tickets, instances, action logs, profile, registration | component |
| `PortalProofs` | theorems about `HintDialog`, `PortalSession`, `ChallengeBrowser` and `TeamPages` | proofs |
| `WebProofs` | theorems about the flags and page numbers of `ChallengeBrowser`, `PortalSession`, `Boards` and `TeamPages` in `MCWeb` | proofs |
| `ChallengeEditor` | the Vue components of a challenge: hints, flags, tags, topics, files, requirements, next challenge, tag picker | component |
| `AdminPages` | the tables of teams, users, submissions, challenges, scoreboard with their batches; exports, members, comments, media | component |
| `AdminChallenge` | previews, creation in two forms, update, scoring, deletion | component |
| `AdminConfigs` | custom fields, brackets, times, settings, imports, analytics and their cache | component |
| `AdminProofs` | theorems about `ChallengeEditor`, `AdminChallenge`, `AdminPages`, `AdminConfigs` and `TabMaster` | proofs |
| `TabMaster` | the master among the administrators' tabs, chosen through `localStorage` (`compat/wc.js`) | component |
| `PortalConfig` | the configuration cached for all tabs: dates and countdown, registration (`configService.ts` and its callers) | component |
| `PortalConfigProofs` | its types, and that the registration form was allowed | proofs |
| `MCContestant` | `DeployRedis`, `DeployRedisTimed`, `Submission` and `HintUnlock` for TLC | model checking |
| `MCDeployment`, `MCChallengePanel` | TLC instances of these modules | model checking |
| `MCWeb` | the modules of pages except `ChallengePanel`, and `PortalConfig`, for TLC | model checking |
| `MCLive` | `Deployment` and `TabMaster` for TLC, under fairness | model checking |

Operators named `Bug...` are mutations of the definition that follows them: a
plausible mistake in the code it models.  No specification uses them; each
shows that a property fails when the code has that mistake.

### SlotPool and DeployRedis

`DeployRedis` has one team; keys carry contest and team, so teams do not share
any.  A slot is `none`, `live` (score in the future) or `due` (score reached,
member not swept yet); the entry is a value or `NoEntry`; `ttl` says whether the
key ends with the score of the slot (a script wrote it) or on its own
(`SetCacheAsync`).  Every script is one action, since Redis runs it atomically:
`CreatePass` / `CreateAlreadyExists` / `CreateLimitExceeded` for the results of
`AtomicCheckAndCreateDeploymentZSet`, `UpdateExpiration`, `RemoveDeployment`, and
the plain `SetCache` and `RemoveCache`.  `TimePasses` lets any set of scores and
TTLs run out.  Keys a script wrote end with the score because both get the same
TTL.  `RedisSpec` lets any caller call anything at any time.

`SlotPool` is the promise: a set of held slots, a grant only to a challenge
without one and below the cap.  `DeployRedis` implements it with
`held <- {c : slot[c] # "none"}`; due members count, and a reservation that sweeps
and adds in one script is a grant that first takes slots back.

`DeployRedisTimed` gives every TTL as the ticks that remain, among them the TTL
of the ZSET key itself, which each script call re-sets, and refines
`DeployRedis` (proved) as long as time limits do not exceed the 30 minutes that a
reservation gives the ZSET key.

### Deployment

One team, one contest.  Code that other services can come between is split into
one action per effect; what a handler read earlier stays in its record
(`snap`), so it acts on stale data where the code does.

| Actions | Code |
|---|---|
| `CheckDeployCount`, `Reserve`, `HttpFails`, `Rollback` | `ChallengeController.StartChallenge`, `ChallengeService.ChallengeStart` |
| `CenterRead`, `CenterPhase`, `CenterForget`, `CenterEnqueue`, `CenterSetCache` | `DeployService.Start`, `K8sService.GetWorkflowStatus`, `DeploymentProducerService` |
| `MessageExpires`, `ConsumerPoll`, `ConsumerTake`, `ConsumerSubmit`, `ConsumerAck`, `ConsumerUpdate`, `ConsumerBatchEnds`, `ConsumerCrash` | `DeploymentConsumer/Worker.cs` and its services |
| `WorkflowStarts`, `WorkflowSucceeds`, `WorkflowFails`, `PodReady`, `PodStuck`, `PodTouched`, `PodGone`, `CronDelete` | Argo, Kubernetes, the CronJob (external, from how the code uses them) |
| `StopRead`, `StopUpdate`, `StopDelete`; `AdminRead`, `AdminDelete`, `AdminRemove`, `AdminForget`; `StopAll`; `StatusRead`, `StatusWrite` | `ForceStopChallenge`, `DeployService.Stop`, `StopAll`, `StatusCheck` |
| `ListenerRead`, `HandleDeletion`, `RecordStop`, `CleanupGhost`, `FreeSlot`, `IgnoreTerminating`, `HandlePodRestart`, `HandlePending`, `RecordStart`, `HandleRunning`, `WatchLost`, `ListenerRestarts`, `Relist` | `ChallengesInformerService`, `K8sService.HandleChallengeRunning` |
| `Elapse` | TTLs and scores running out |

State: Redis (`slot`, `cache`, `ttl`), start requests `req`, the `queue`, the
`consumer`, a stop, a stop by an administrator and a status check per challenge, per
namespace its `owner`,
`workflow`, `pod`, undelivered `events` and listener `worker`, whether the watch is
connected, and the `rows` of `challenge_start_tracking`.

Choices worth knowing:

* A namespace is the identity of a submission and holds one pod and one
  workflow of the same name.  A pod replaced inside its namespace is not
  modelled; `pod_id` is kept, so `HandlePodRestart` runs on the first event.
* A redelivered message may be submitted again under a new name, as in the code.
* The publishing channel is created without options (`DeploymentProducerService.cs:85`),
  and RabbitMQ.Client 7.2.0 then tracks no confirms: what a full queue rejects is dropped
  and the start goes on as if it were queued (`CenterEnqueue`, second disjunct).  With
  `"broker"` a message may be dropped at any time, or the publish may throw.
* `GetWorkflowStatus` answers `Unknown` for a workflow without a phase yet and for an
  error of the API server, not only for a failed one (`SeemsLost`); the entry that is then
  removed is whichever is there by then.
* A handler of the listener that writes to Redis and to the database does so in two
  steps, and is at `close`, `free` or `write` in between.
* Redis and database errors inside a handler: `"db"` makes the two writes to
  `challenge_start_tracking` fail; a Redis outage is not modelled.
* Guards of `StartChallenge` that only refuse (visibility, prerequisites,
  captain, solved, attempts) are left out; refusing changes nothing.
* Bounds: `MaxNs` submissions (afterwards a submission fails, as for an Argo
  error), `MaxEvents` undelivered events per pod (the cluster waits), `MaxRows`
  rows, and `May`, the operations and failures a run allows.

### Submission

The requests of one team for one challenge, spread over the replicas.  A request
is at one of the places of `Attempt` where it has just read or written a store;
what it read earlier (`count`) stays with it.

| Actions | Code |
|---|---|
| `Arrive` | a request that passes `CheckAndUpdateCooldownAsync`; the key has its own TTL of 600 s |
| `PreCheck`, `RecheckSolved`, `InsertSolve`, `Recalculate`, `AnswerCorrect` | the two pre-checks; the right flag: solve check, transaction against the unique index, dynamic value, stop of the instance, answer |
| `CheckKpm`, `ReadFails`, `CheckAttempts`, `Record`, `LastStop` | the wrong flag: answers per minute, `actualDbCount`, the Lua script, the row, stop of the instance |
| `Tick`, `MinutePasses`, `CounterExpires` | TTLs |

`passed` is the time since a request last passed the cooldown, `lost` the attempts
that were counted and then refused by the database, `told` the answers "correct";
none of them influences a step.  All replicas are assumed to have the same clock.
The faults are a refused write (`db`), a failed stop (`stop`), the 24 h TTL of the
counter at a quiet moment (`expiry`) or at any (`overlap`).

### HintUnlock

A group of users forms one team in each contest.  `Acquire`, `CheckPrereqs`,
`CheckExisting`, `CheckScore`, `Save` and `Release` are the steps of `UnlockHint`
between two accesses to a store; `Expire` is the TTL of the lock, `Crash` a replica
that dies (or cannot reach Redis) inside.  A request whose lock ran out is in
`overran`, and `late` says whether one of them has written: the promises of the
lock end there, since `unlocks` has no unique index.  `Earn` is any increase of the
score; a decrease by a dynamic challenge is not modelled, as the recalculation
throws (see Findings).

### Tab and the modules of pages

JavaScript runs one function at a time, up to its next `await`.  `Tab` has that:
`task` holds the pending functions of the page in a few slots, each with the
handler it belongs to (`op`), what it awaits (`at`: a request sent, its answer, a
dialog, a timer) and what its closure holds (`arg`).  A handler is split exactly at
its awaits; what runs between two of them, setState calls and clean-up included, is
one action.  A task may be resumed, answered or refused at any time and in any
order.  State that a closure has captured is in `arg` and may be stale; state read
through a ref or from `localStorage` is read in the action.  `moves` counts what
people do (clicks, edits, other administrators); answers are not counted.

`ChallengePanel` is written the same way with more detail: the jobs of several
mounts of the panel, the refs of each mount, the deadlines as time left.

| Module | Actions | Code |
|---|---|---|
| `ChallengePanel` | `MountPanel`, `UnmountPanel`, `Reload`, `fetchChallengeStatus`, `StartClick`, `handleStartChallenge`, `LoopArmed`, `LoopAsks`, `checkStatus`, `StopClick`, `StopConfirm`, `StopCancel`, `handleStopChallenge`, `CountdownEnds`, `autoStopChallengeOnTimeout`, `TimeoutFires`, `GlobalCheck`, `autoStopChallenge`, `handleSubmitFlag`, `FlagHeard`, `FlagClosed` | `Challenges.tsx` 1343-4095, `challengeTimerService.ts` |
| | `Serve`, `Lose`, `EntryChanges` | what its requests see of the server, lost answers, the instance going on by itself |
| `ChallengeBrowser` | loading, categories, prerequisite checks, the four ways to open a challenge, refresh; the two reads of the server | `Challenges.tsx` 106-900; `ChallengeService.cs` for the two reads |
| `HintDialog` | `handleUnlockHint`, its details, confirmation, answers; `handlePdfClick`, `handleDownloadFile` | `Challenges.tsx` 1355-3337 |
| `PortalSession` | `handleSubmit`, `handleContestClick`, `fetchWithAuth`, `handleLogout`; `AuthBasic` / `AuthCached` / `AuthRead` / `AuthFill`, `Login`, `SelectContest`, `Logout` of the server | `authService.ts`, `AuthContext.tsx`, `api.ts`, `Login.tsx`, `ContestList.tsx`, `Layout.tsx`; `AuthService.cs`, `TokenAuthenticationMiddleware.cs`, `TokenHelper.cs` |
| `Boards` | fetch, refresh, bracket, search, rows per page, pages; the interval of the public board | `Scoreboard.tsx`, `PublicScoreboard.tsx` and their services; the page numbers of `Challenges.tsx` |
| `TeamPages` | one set of handlers per page | `Tickets.tsx`, `TicketDetail.tsx`, `Instances.tsx`, `ActionLogs.tsx`, `Profile.tsx`, `Register.tsx` |
| `ChallengeEditor` | the lists with their forms, `searchTopics`, `ChoiceShown` / `saveChoice` (requirements, next challenge), the tag picker | `HintsList.vue`, `FlagList.vue`, `TopicsList.vue`, `ChallengeFilesList.vue`, `Requirements.vue`, `NextChallenge.vue`, `TagsList.vue` and their forms |
| `AdminPages` | one action per button and per answer | `users.js`, `teams.js`, `team.js`, `user.js`, `submissions.js`, `challenges.js`, `scoreboard.js`, `UserAddForm.vue`, `MediaLibrary.vue`, `CommentBox.vue` |
| `AdminChallenge` | `previewChallenge`, `StartAnswered`, `CheckingStatus`, `createSubmit`, `handleChallengeOptions`, `updateSubmit`, `deleteChallenge` and their answers | `challenge.js`, `challenges.js` |
| `AdminConfigs` | fields, brackets (`addField`, `saveField`, `deleteField`, `removeField`), dates, uploads, imports, analytics | `configs.js`, `statistics.js`, `FieldList.vue`, `Field.vue`, `BracketList.vue`, `Bracket.vue` |
| `TabMaster` | `Opens`, `destroy`, `Killed`, `check`, `sendPing`, `hello`, `ping`, `bye`; `Silent`, `Late` for the 23 s without a ping | `compat/wc.js` |
| `PortalConfig` | pages as they mount, sign-in and sign-out; `ServesDates`, `ServesPublic`, `DatesAnswered`, `PublicAnswered`, `RegistrationAnswered`, `MetadataAnswered`, `RequestFails`; `Reschedules`, `Switches` of the administrators; `Ticks` | `configService.ts`, `Layout.tsx`, `Login.tsx`, `Register.tsx`, `PrivateRoute.tsx`; `ConfigController.cs`, `CtfTimeHelper.cs` |

`TabMaster` is about several tabs and their messages, so it has no `task`: each tab
has the storage events on their way to it, and an event is handled in one step.  A
value that `localStorage` already holds raises no event, which is why a ping repeated
by a lone tab is silent.  Numbers are drawn at random in the code; the model opens
any subset of `Window` in any order.  `Settled` says when an election is over: every open tab
knows the others and who is the master, and no event on its way says otherwise.

In `AdminConfigs` a mounted row knows its place (`index`), as its component does, and a
deletion removes whatever is at the place the component has when the answer comes
(`removeField`).  Vue renders a changed list, and so tells the rows their new places,
before the next answer is handled (`Rendered`); a component that a late list has
destroyed emits nothing any more (`RowDeleted`).

In `AdminChallenge` `told` counts, apart, the dialogs of start answers that carry an
address already, which do not look at `successShown_`, and those of the status checks,
which do.  The interval checks every two seconds without waiting, so that it may send
more than `MaxChecks` checks; what is counted is their answers.

`PortalConfig` has tasks of all the tabs of one browser in one set of slots.  A task
remembers the mount that asked: its answer is stored in the cache in any case, and
shown only if the page is still there.  `getDateConfig` does not look at the status of
the answer, so the body of an internal error is cached as a configuration without
dates.  A 401 and its redirect belong to `PortalSession`.

Choices worth knowing:

* The keys `deployment_<id>` and `healthcheck_<id>` are only written and removed
  together, so one variable stands for both; likewise `isDeploymentInProgress` is
  never on without `isHealthChecking`.
* A `confirm()` or `alert()` blocks the page and is one step with what follows it;
  a SweetAlert or Bootstrap dialog is a state of its own, and opening another one
  ends the first.
* `ChallengePanel` has its own server (`entry`): what a status, a start or a stop
  answers.  `Deployment` says how the server gets there.  The two are not composed:
  the panel never sees more of the server than the phase and the time left.
* The effect that opens a challenge from the URL also runs when the list is mounted, so
  `ChallengeBrowser` begins with it due if the URL names one.
* Texts, layout, logging, captcha content and the mapping of a record's fields are
  left out unless a branch reads them.

## 3. Runs

| Run | Instance | Checks | Shows |
|---|---|---|---|
| `contestant` | one of: `DeployRedis` with 3 challenges, cap 2, 2 entries; `DeployRedisTimed` with ticks of 15 min and limits up to 30 min; `Submission` with 3 requests of 1 user, 2 attempts, 2 answers per minute, cooldown 1 of a TTL of 2 ticks, dynamic or not, refused writes, failed stops and the 24 h TTL; `HintUnlock` with 3 requests, 2 users, 1 contest, 3 hints, 5 points, all faults | `ServicesTypeOK`; `HeldWithinLimit`, `NoZombieEntry`, `PoolSafety`; `ImplementsDeployRedis`; `FailsWithinMax`, `CounterAccounts`, `CorrectIsTold`, `FinishedIsStopped`, `CooldownHolds`; `LockIsKept`, `OneUnlock`, `ShopSafety`, `PrereqsFirst` | the scripts keep the quota and implement `SlotPool` for any caller, with their clocks too; the limit of answers is exact and a right flag counts once; the hint service implements `HintShop`: one payment per hint, in order, with points the team has |
| `redis_timed_long` | `DeployRedisTimed`, limits up to 60 min | `CurrentWithinLimit` *violated* | see findings |
| `hint_contests` | `HintUnlock`, 2 requests, 2 contests, no faults | `ScoreNotNegative` *violated* | see findings |
| `pair` | 2 challenges, cap 1, 2 namespaces, stop | `ReadyIsObserved`, `AliveWithinLimit` | stops and starts in any order keep the cap in the cluster |
| `all` | 1 challenge, 1 namespace, everything but watch faults, status checks (`"status"`, an entry written back) and touched pods | `InitialIsAttended`, `RunningIsWatched` | no failure leaves a blocked reservation or a false running entry |
| `watch` | 1 challenge, 1 namespace, watch breaks, restarts, stop, cron, status | `StoppedIsGone` | the relist never closes a live row |
| `live` | one of: `Deployment` with 1 challenge, 2 namespaces, stop, cron; `TabMaster` with 3 tabs, one late ping, one event on its way; fairness | `RunningEnds`, `QueueMoves`; `OneMasterAtLast` | deployments end, the gate starves nobody; once administrators' tabs stop coming, going and being late, they agree (`Settled`) that the one with the least number is the only master, for good |
| `relist` | watch breaks, cron | `RelistReconciles` *violated* | see findings |
| `stop_lost` | stop | `StopHolds` *violated* | see findings |
| `web` | one page in a tab of its own, 2 pending functions; the rest below | 15 invariants, below | what a page shows, sends and disables stays justified |
| `panel_live` | `ChallengePanel`, 1 mount that comes back, 2 functions, windows of one tick, fairness | `CheckingIsAttended`; `LoopEnds`, `StoredTimerEnds` | a panel that says "Checking..." has a loop that will end it; every health-check loop ends once the server has stopped deploying; the timer service does not repeat a stop for ever |
| `panel_due` | the same as `panel_live` without flags | `AutoStopIsDue` *violated* | see findings |

**`contestant`, `live` and `web` are sums.**  Their components share no state, so one of
them is chosen in the initial state and the others keep the value they begin with:
the run explores the union of the components' state spaces, not a product, and a
property of one component holds trivially in the behaviours of the others.
`ImplementsDeployRedis` says what the steps of the clocked scripts do: the instance of
`DeployRedis` that it maps them to shares the constants of `DeployKeys` with the component of
that name, and nothing else.  `PoolSafety` and `ShopSafety` likewise.

The invariants of `web`, by page:

| Page | Invariants |
|---|---|
| `ChallengeBrowser` | `ServedIsOpen`: what the panel shows with data of the server is a challenge the team may see; `LocksAreShown`: every locked item has its lock although categories load at different times |
| `HintDialog` | `PaidIsAgreed`: points are spent only on hints whose cost was confirmed; `ButtonsAreFreed` |
| `PortalSession` | `UserIsOfToken`: the stored user's team is of the contest of the stored token |
| `ChallengeBrowser`, `PortalSession`, `Boards`, `TeamPages` | `FlagsAreAttended`: what disables a form, list or button, and what spins, has its own function pending |
| `Boards`, `TeamPages` | `PagesExist`: page numbers lead to every page, while the page is one of them, and the page shown exists |
| `TeamPages` | `SentIsStrong`: the new password of a password change that is sent meets the criteria |
| `PortalConfig` | `FormWasEnabled`: a registration form is shown only if the server had registration enabled since the page was opened |
| `ChallengeEditor` | `HiddenIsSelected`: the filter sends the tags that are shown |
| `AdminPages` | `AdminIsAttended`; `RemovedWasNamed`: a user loses a team, with solves and awards, only after a dialog that named them |
| `AdminChallenge` | `ChecksTellOnce`: of all status checks one tells the address; `VersionFollowsOptions`: a version from defaults means that the options were refused |
| `AdminConfigs` | `GoneIsDeleted`: the rows listed are all there ever were but those whose own deletion was accepted and those a late list has replaced, although a row is removed by its place |

**Why the bounds are enough.** The races of the pipeline are between handlers of
one challenge, or between two challenges and one slot; two namespaces give an old
and a new instance, one request at a time and a stop, a consumer, a cron and a
listener beside it give every pair of handlers.  All failures together with two
namespaces exceed TLC's reach, hence the split of `May` by question.  Two
challenges and a cap of one are the smallest instance in which the cap bites.
Three requests are one more than any race of `Attempt` or `UnlockHint` needs, so
that a third one meets what the race left (they are all of one user in `Submission`:
only the answers per minute are counted by user); two attempts let the first wrong answer
pass and the second one exhaust the limit; five points buy two dear hints and the
cheap one.

The races of a page are between two pending functions, hence two slots, and what a
third would add is what one of them leaves when it ends.  The moves of people are
bounded per page by `Limit` of `MCWeb`: three to six, by page, are enough to open, edit, send,
be refused and repeat.  Three challenges make a chain of prerequisites over two
categories, with bank ids shifted by one against contest ids; two contests, two
tabs, two hints, two rows, three tag texts (one empty) give an old and a new one of
each; 0, 7, 8, 9 and 10 rows with 1 and 2 per page cross both thresholds of the
page numbers.  The one mount of the panel goes and comes back while functions of its
earlier life are pending; for any number of mounts `CheckingIsAttended` is proved.
`Flags = "alone"` is a bound too: a flag is sent only while no other
function of a mount is pending, and none begins while a flag is (timers fire, and
the panel may go, all the same).  Flags share nothing with the health check but the
reset that follows a correct one.  `Flags = "any"` drops the bound.

Three tabs let one lose the master's place to a second and be wrong about a third;
`MaxBox` bounds the events on their way only when a tab opens or closes, so that
answers and pings are never held back.  Two tabs of the portal are two readers of one
cache; a clock of three ticks and entries of one tick let an entry be fresh, be stale
and be renewed during an event from 2 to 3, and an event without dates.

**Deadlock** is checked for `contestant`, `panel_live` and their violations.  The
behaviours of `Deployment` and of the other pages end when the bounds on submissions
or moves are used up.

**Fairness.** `FairSpec` of `Deployment`: weak fairness for each start request in
progress, for the consumer (a loop that polls every 2 s), for each stop in progress,
for each workflow (`activeDeadlineSeconds`), each listener worker and the relist loop;
strong fairness, in one condition, for the ends of the namespace deletions and the
CronJob, which do not wait for the listener in reality (only the bound `MaxEvents` makes them).
None for users, TTLs or failures: `RunningEnds` holds without any TTL.
`MasterFairness` of `TabMaster`: weak fairness for the timers of an open tab (`check`
every 9 s, `sendPing` every 17 s), for the delivery of each tab's events, and for the
23 s after which a tab that has ended is forgotten.  A tab opens or ends only once and
`MaxLate` bounds the late pings: the election is promised only once tabs stop coming
and going and hidden tabs are no longer throttled.
`FairPanelSpec` of `ChallengePanel`: weak fairness for every handler whose answer or
timer has come, and for the answer to a dialog that is open; strong fairness for an
answer of the server that arrives (`Serve` with an answer that is not an error: one may
be lost, though not for ever) and for the interval of the timer service, which other
functions delay; weak fairness for a deployment that gets on.  None for
users, mounts, flags or stops.  `LoopEnds` assumes besides that the server is done
with deploying for good, since the loop has no limit of attempts.

## 4. Findings

* `redis_timed_long`: a reservation sets the TTL of the *whole* ZSET back to
  30 minutes (`RedisHelper.cs:301`).  With a time limit above that, the ZSET may
  end before its members, and the team gets more deployments than its cap.
* `relist`: the relist is documented to repair the database *and the ZSET*
  (`ChallengesInformerService.cs:81`); it repairs the database only.  After a
  missed Deleted event the entry stays RUNING and the slot taken until its TTL:
  `RelistReconciles` looks at the entries after the relist itself.
* `stop_lost`: a stop of a deployment that is being submitted is overwritten by the
  consumer's stale entry (`Worker.cs:153-165`); a stop that a late start undoes is below.
* `hint_contests`: the lock of `UnlockHint` is of one contest and team
  (`HintService.cs:342`), the score it checks is of the members in all contests
  (`ScoreHelper.cs:164-175`).  Two unlocks in two contests spend the same points.
* `panel_due`: a timer in `active_challenge_timers`, and the countdown of a panel,
  outlive an instance that ends without the panel (`Challenges.tsx:2306`); the next
  instance of the challenge is stopped when the time of the old one is up.

Further statements of the documentation, of comments or of what a page tells its
user that the model refutes.  Each is a definition of its module, and is found with
the constants given (the others as in the run named):

| Property | Instance | What happens |
|---|---|---|
| `Deployment!ProgressKept` | `stop_lost`, `May = {}` | the message is published before the entry is written (`DeployService.cs:141, 155`): the consumer is overtaken and its PENDING entry falls back to PENDING_DEPLOY |
| `Deployment!StopSurvivesStart` | `stop_lost` | for the same reason the entry of a start is written over the DELETING of a stop that came in between |
| `Deployment!QueuedIsPublished` | `stop_lost`, `May = {"broker"}` | a comment says that the publish throws for a nack (`DeploymentProducerService.cs:123`); without confirms there is none, and a start is answered as queued whose message was dropped |
| `Deployment!GateHolds` | `stop_lost`, 2 challenges, `MaxLimit`, `MaxNs`, `QueueMax` 2, 2 requests, `May = {}` | only workflows in phase Running are counted (`ArgoWorkflowService.cs:42`) |
| `Deployment!DeploysWithinMax` | `stop_lost`, `MaxDeploy = 1`, `MaxNs = MaxRows = 2` | rows are written when the pod is ready, counted before the reservation (`ChallengeController.cs:580`) |
| `Deployment!RunningIsRouted` | `stop_lost`, `May = {"consumer"}` | after a consumer crash between ack and update the entry is marked running without a namespace (`ChallengesInformerService.cs:324`) |
| `Deployment!StopAllClears` | `stop_lost`, `May = {"stopall"}` | the removed patterns match no key (`DeployService.cs:309`) |
| `Deployment!RowsClose` | `relist` under `FairSpec` | a ready event handled after the relist writes a row that is not closed |
| `Submission!OneIsTold` | `contestant` | `GetSolveCount` filters by a property that is not mapped to a column (`DynamicChallengeHelper.cs:19`, `AppDbContext.cs:762`) and throws outside any try: the solve is saved, and nobody is told "correct" |
| `Submission!FailsWithinMax` | `contestant`, `May = {"overlap"}` | the counter expires between a request's increment and its write; the next request restores it one short |
| `ChallengeBrowser!PopupIsRight` | `web` | the check before the popup asks for the challenge whose own id is the *bank* id of the prerequisite: the popup may lock a challenge that is open |
| `PortalSession!ExpelledIsDead` | `web` | a 401 for a request sent with an older token clears the session of the newer one (`api.ts`, `fetchWithAuth`) |
| `Boards!StandingsAreChosen` | `BoardsSpec` with the constants of `web` | a refresh that is answered after a change of bracket shows the standings of the old one |
| `PortalConfig!CountdownIsShown` | `ConfigSpec` with the constants of `web` | the header waits for 'CTFd has not been started' (`Layout.tsx:76`), the server sends "CTFd is coming..." (`ConfigController.cs:64`): the documented countdown "Starts in" is never shown |
| `AdminPages!ResetsWaitForTheEnd` | `web` | the contest begins between the question whether it is active and the export that resets passwords (`users.js:224`) |

## 5. Proofs

Eight modules of proofs hold 51 theorems; every leaf is checked by SMT, Zenon or, for
the temporal steps, LS4.  They hold for every value of the constants that the named
assumptions of the component allow.

`DeploymentProofs` about `DeployRedis`, for every finite set of challenges, every cap and
every set of entries:

* `RedisInvariant`: `RedisSpec => []IInv` with
  `IInv == RedisTypeOK /\ HeldWithinLimit /\ NoZombieEntry /\ EntryHasTtl`.
  `HeldWithinLimit` counts due members too: the bound on live ones alone is not
  inductive, because `AtomicUpdateExpiration` revives a due member.  The argument
  has two halves: only a passed reservation adds a member, and it first sweeps, so
  the members afterwards are the live ones and the new one
  (`CreatePassHeld`); every other step keeps or shrinks the set
  (`OtherStepsShrink`).  `NoZombieEntry` and `EntryHasTtl` need each other.
* `RedisTypeCorrect`, `QuotaNeverExceeded`, `NoZombies`: its conjuncts.
* `ImplementsPool`: `RedisSpec => PoolSafety`, the refinement of `SlotPool`.

`DeployRedisTimedProofs`, for the same constants and every number of ticks, under the
one hypothesis `TtlsFit`: the TTLs of a reservation and of every update are at most the one that a
reservation gives the ZSET (1800 s), and that is at most the margin of an update (3600 s).
Time limits of up to 30 minutes satisfy it; no code checks them.

* `ClocksImplementRedis`: `TimedSpec => ImplementsDeployRedis`, the property of run `contestant`.  The scores, keys and members
  that end with a tick are the sets `S`, `K` and `Z` of `TimePasses`.  Needed is `TimedInv`:
  a key that a script wrote ends with the score of its member (`ScriptKeysEnd`), and no
  member outlives the ZSET, nor a reservation that would be made now (`ZsetOutlives`: the
  EXPIRE of the next reservation may be earlier than the one it replaces).
* `CurrentFitsTheCap`: `CurrentWithinLimit`, the property that run `redis_timed_long` finds
  violated with longer time limits: the missing check is all that it takes.

`DeploymentProofs` about `Deployment`, for every number of challenges (at least one, `SomeChallenge`),
requests, namespaces and workflow slots, and every choice `May` of operations and
failures where nothing else is said:

* `TypeCorrect`, and `PipelineUsesRedis`: `Spec => RedisSpec`, every step of the six
  processes is one script or cache command on Redis, or none.  From it
  `PipelineKeepsQuota`, `PipelineLeavesNoZombie` and `PipelineImplementsPool` follow by
  the theorems above: the pipeline is a caller of the scripts like any other.
* `ReservationsAreAttended`: `Spec => []InitialIsAttended`, with every failure: whatever
  throws or refuses, an INITIAL entry has a request that will overwrite it or roll it back.
  It does not say that its message is in the queue (`QueuedIsPublished` is false); an entry
  whose message was dropped ends by its TTL.
  `InitialIsNew` says that an INITIAL entry has no end time, so that no stop, status
  check or worker writes one back from what it has read.
* `RunningIsFollowed`: `RunningIsWatched` when the watch, the listener and the status
  check are not disturbed (`"watch"`, `"restart"`, `"status"` not in `May`; it is false with
  a lost watch, run `relist`, and TLC finds it violated with either of the others too).  `PodsOrdered` says in which
  order the events of a pod
  are delivered, for all failures; `Followed` that no worker is busy with a pod that is
  no longer watched, but for one that has only the row left to close.

Its second half, for any number of everything as well, is under `Kept`: without a
lost HTTP call, a restart of the consumer, a failing workflow or stuck pod, a stop by
an administrator, and expiries.  Each of the five frees a slot while its instance lives or
is still to come, or deploys a message twice, so none of the hypotheses can be dropped:
with `May = {"stop", X}` for any one of them TLC finds `AliveWithinLimit` violated in the
instance of run `pair` within seconds (for a stuck pod, whose late Deleted event frees the
slot of the next deployment, with `MaxNs` and `MaxRows` 3).  The watch may be lost, the
listener restart, users stop and the CronJob delete at any time.

* `InstancesWithinLimit`: `AliveWithinLimit`.  `SlotInv` follows a slot from the
  request that reserved it to its message, to the consumer, to the namespace until its
  Deleted event has been handled: `OneUse`, one of them at a time and only while the slot
  is held; no stop by an administrator is under way.  The instances alive are then mapped one-to-one into the held slots, whose
  number `QuotaNeverExceeded` bounds.
* `ReadyWasObserved`, `StoppedWasDeleted`: `NamesInv` says that entries, and every copy of
  one that a handler holds, name a namespace submitted for that challenge, RUNING ones one
  whose pod has been ready, and rows that are closed one whose pod is gone.

`ContestantProofs`, about `Submission`, for every team, finite set of requests, limit and cooldown:

* `SubTypeCorrect`, `AttemptsWithinMax`, `AttemptsAccounted`, under the hypothesis
  `"overlap" \notin May` (without it the second is false, see above).  The counter
  being exact is not inductive, because a step may restore a missing key from a
  count read earlier; `SnapAccurate` adds that without the key nothing is about to
  be recorded and every count read is still true.  Most steps do not touch the
  count (`Aside`); the three that do, and the expiry, have a lemma each.
* `CooldownKept`, under `Cooldown <= CoolTtl`: a longer cooldown ends with its key.
  The invariant `CoolAccurate` says how old the key's value is.
* `SolvesAreTold`: `CorrectIsTold`, with every fault.  `SolveAccounts`: requests between
  their insert and their answer are one at most, and account for the solve.
* `FinishedStops`: `FinishedIsStopped`, under the hypothesis on `"overlap"`.
  `StopIsAhead`: when the attempts are used up, or the solve is in, the instance has been
  told to stop or a request is at the step that will tell it.

`ContestantProofs`, about `HintUnlock`, for every set of contests, hints and requests and every price
list:

* `LocksAreKept`, `HintsPaidOnce`, `HintsInOrder`: the invariant keeps what a
  request inside has found (`FoundPrereqs`, `FoundNone`) true until it writes, since
  two requests that hold their locks are in different contests.
* `PointsSpentOnce`, under the hypothesis that there is one contest; with two it is
  false (run `hint_contests`).
* `ImplementsShop`: `ShopSafety`, under the same hypothesis.  The checks and the write of a
  request are five steps, one purchase for the team: only the write is visible
  (`ShopStutters`), and what it needs was found before it (`SaveBuys`, from `FoundPrereqs`,
  `FoundNone` and `Affordable`).  Nothing is promised from the first write after a lost
  lock on (`late`): from there a hint is paid twice, or with points that are spent.

About `MCContestant`: `ServicesTyped`, the types of all its services together
(`ServicesTypeOK`), under the hypothesis on `"overlap"`: whichever of them runs, a step keeps
the invariants above of the four.

`ChallengePanelProofs`, for every number of mounts and of pending functions, every
time limit, window and cooldown, and every bound on the flags:

* `PanelTyped` and `CheckingHasItsLoop`: `PanelSpec => []CheckingIsAttended`.  That
  the mount has a loop is not inductive: an aborted loop ends without turning
  "Checking..." off, and a loop may be armed twice.  `PanelInv` adds that a mount
  whose ref says `running` has a started loop and no abort (`RunningHasLoop`), and
  that a checking panel has either a loop still to start, which will forget an abort,
  or a loop and no abort (`CheckingHasLoop`).  Hence the loop that an abort ends
  always leaves another.  Steps are grouped by what they do to loops: those that
  leave them alone (`QuietStep`), those that arm or start one (`ResumedKept`,
  `StartLoopKept`), those that end one (`LoopOverKept`), and those after which
  nothing checks (`UncheckedKept`).

`PortalProofs`, for every number of slots and moves, and of hints, files, tabs,
contests, challenges, categories and passwords:

* `HintDialogTyped`, `OnlyAgreedIsPaid`, `FreedInTheEnd`, from
  `HInv == HintDialogTypeOK /\ TasksOK /\ SentIsAgreed /\ PaidIsAgreed /\ ButtonsAreFreed`:
  a payment is still to be made when it is sent, so that what is sent must have been
  agreed to as well (`SentIsAgreed`).
* `StoredUserIsOfToken`: `GoodTasks` says that an answer with a new token carries the
  contest it was asked for, which is what `UserIsOfToken` needs when it is stored;
  user and token are stored, or cleared, in one step.
* `BrowserTyped`, `ServedMayBeSeen`, `LocksStay`, from `BInv`.  A locked item is found
  by a function that stores the list, asks for its prerequisites one by one and marks it
  at the end, while the team solves, categories are fetched twice and answers fail.
  `ListedIsLookedAt`: of every listed item everything has been said, or a function that
  looks at its category still holds all its unsolved prerequisites, asked or not.  Needed
  is that a contest takes a challenge of the bank once (`BrowserAssumption`), which both
  ways to add one see to (`contests.py:291-299`, `ContestService.cs:332-339`): with two
  the portal asks for one of them only.
* `SentPasswordsAreStrong`: `TeamInv`; the criteria shown are of the password typed, and
  the button that `changing` disables keeps the form as it was sent.  It is about password
  changes; the rules of the registration form are not in it.

`WebProofs`, for every number of slots and moves, and of tabs, contests, challenges,
brackets, teams, tickets, instances and logs.  The inductive invariant `WebInv` of `MCWeb`
is that of the page that was chosen (`SpinInv`, `BusyInv`, `BoardsInv` or `WaitsInv`), and
that the state of the others keeps its value:

* `NoFlagIsForgotten`: `FlagsAreAttended`.  A function that ends leaves a flag set only if
  another will reset it, so each invariant says where a function may stand and what it
  will do from there.  `SpinInv`: only the fetch of a category, from its request to the end
  of the check of its prerequisites, has it in `busy`, and the end takes it out, also when
  a second fetch is on its way; the function that loads the page never waits in a popup,
  which a new popup would end (`PageWaits`).  `BusyInv`: `busy` of a tab is the slot of the
  function that stops its spinner.  `WaitsInv`: by page, which functions there are and
  where they wait (`KindsKnown`), that one dialog is open at most and is never of an
  instance that is being stopped (`Dialogs`, `FlagsKnown`), and that flag and function come and
  go together (`OneFor`), so that a second form or stop is never in flight.
* `EveryPageIsReached`: `PagesExist`.  `PageNumbersConnected` and
  `TerminalNumbersConnected` compute both lists of numbers for every total and page: they
  start at 1, end at the last page, hold the current one and leave no gap unmarked.
  `LogKnown` keeps the page of the log within the pages of what is listed.
* `BoardsTyped`: with it, a fetch of a board always holds the bracket it was made for.

`AdminProofs`, for every number of slots and moves, and of rows, entries, words, checks,
loops and users:

* `SentTagsAreShown`: `HiddenIsSelected` with the forms of the picker's tasks and data
  (`PickerTasks`, `PickerData`).
* `ToldOnce` (`ChecksTellOnce`) and `VersionIsOfOptions`: `ListInv` and `CreateInv` tie each pending check
  to its loop, and each pending options request to the challenge it was made for and
  to what the server has answered (`OptionsOf`).
* `OnlyNamedLeave`: `MoveInv`; while the dialog is open it names all those picked who have
  a team, and a request that takes users out of teams was sent from it.
* `OwnRowLeaves`: `GoneIsDeleted` from `RowsInv`.  Rows have identities that are never
  given twice; the index of each mounted row is its place (`RenderedPlaces`), so that
  removing at that place removes that row and no other (`DeletedLeaves`), in whatever
  order deletions, additions and answers come and wherever the row has moved.
* `MasterTyped` and `ElectionIsStable`, for every set of tabs, any number of late pings and
  of events on their way: `Settled` implies one master and is left only when a tab comes or
  goes or a ping is late (`SettledStays`, which TLC finds to hold in the instance of run `live`
  too).  That elections come to that is liveness, which run `live` finds.
  Needed is `NoEcho`, that no tab hears of itself, for which `NewEvents` says what each step
  can put on its way to whom.
* `WaitsAreAnswered`: `AdminIsAttended`; `WaitInv` says of the members' dialog, the tables
  and the search which of their functions is still to come (`TableWaits`, `SearchWaits`).

`PortalConfigProofs`, for every number of tabs, requests and moves, every expiry and every
set of plans whose dates are numbers (`PlansAreDates`):

* `ConfigTyped`, `FormsWereAllowed`: `FormWasEnabled` with `ConfigInv`.  What is cached may
  say that registration is enabled long after it is not, and any tab may have stored it;
  the form is right because `Register` asks past the cache.  `AsksOnce` says that a page
  has one request for its form at most, `AsksBeforeTheForm` that none is left over from an
  earlier visit or once the form is there, `AnswersWereTrue` that an answer on its way
  which says "enabled" was true while the page was open.

**Only model-checked:** liveness.  Every safety property of a passing run is stated by one of
these theorems; `RunningEnds`, `QueueMoves`, `LoopEnds`, `StoredTimerEnds` and
`OneMasterAtLast` are out of the prover's reach, as are ENABLED, induction over data and
RECURSIVE operators; no module declares one.

## 6. Plan

Done, in this order: the deployment scripts and the pipeline; flags with proofs;
hints with proofs; the challenge panel with its timers, against the server it sees;
the challenge list; hints and files in the panel; the session over tabs; the boards;
the contestant's other pages; the administrators' editor, tables, challenges and
settings; the tabs' master and the cached configuration; proofs about the panel, the
hint dialog, the session, the tag picker and the administrators' challenge; proofs about
the clocks of Redis, the pipeline (its use of Redis, the reservations, the running entries, the slots), about
the right answers, the challenge list, the passwords, the members of a team, the
lists of settings, the registration form, and the flags and page numbers of the portal;
the shop that the hint service implements, and the end of the election of the tabs' master.

What would come next:

1. `ConnLimiter`: `ChallengeGateway/internal/limiter` and `gateway/tcp.go`:
   INCR/DECR of connections per token under a TTL that only acquire and release
   refresh, fail-open acquires, the pending-auth counter of one process, a crash of
   a replica.  Abstract specification: a pool of connections.
2. `Lifecycle`: a start racing a solve, `Submission` and `DeployRedis` composed.
3. `RegistrationLimit`: `AuthService` under `AcquireWithRetry`.

## 7. Not modelled

* **Generated or constant code:** `compat/api.js` (the generated API client),
  `timezones.js`, the layouts of the graphs in `statistics.js` and `graphs.js`, themes,
  translations, the pages of static text.
* **Code nobody reaches:** `DebugChallenges.tsx` (not routed) and
  `healthCheckService.ts` (not imported).
* **The Python services of the Management Platform:** they appear as the answers to
  the requests of its pages, and as the stops by administrators and `StopAll`; only the reads and
  writes that a page depends on are translated.  The database migration is a one-shot
  export and import.
* **What the master tab does** (`compat/events.js`): it listens to `/events`, on which
  nothing in this repository publishes.  Its `disconnect` closes the one `EventSource`
  of the page for good, which a tab that becomes master a second time would notice.
* **The gateway:** it shares only a token's signature and the route with the rest;
  next in the plan.
* Argo call-backs of image builds, logs: they do not touch a team's deployment.
* Registration on the server, contests, teams, the sums of the scoreboard: tables with
  one writer at a time, except the registration limit, which is in the plan.
* The dynamic score: its decrease never happens, as the recalculation throws
  (`OneIsTold`).
* A Redis outage, clock differences between replicas, and a pod replaced inside its
  namespace.
* Checks that only refuse a request and read nothing another actor writes.
