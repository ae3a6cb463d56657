--------------------------- MODULE ChallengePanel ---------------------------
(***************************************************************************)
(* One challenge in one tab of the contestant portal: the detail panel of  *)
(* pages/Challenges.tsx with its start, stop, health-check, countdown and  *)
(* flag handlers, the timers of services/challengeTimerService.ts, and as  *)
(* much of the server as their requests see.                               *)
(*                                                                         *)
(* Every pending asynchronous function of the tab is a job.  A panel that  *)
(* is unmounted leaves its jobs behind: they go on with the refs of their  *)
(* own mount and with the shared storage, while their setState calls have  *)
(* no effect.  Panels are keyed by challenge id, so the refs of a mount    *)
(* never serve a second challenge and healthCheckChallengeIdRef adds       *)
(* nothing to healthCheckAbortRef.  isDeploymentInProgress is never on     *)
(* without isHealthChecking, and the two keys deployment_<id> and          *)
(* healthcheck_<id> are only written and removed together: one variable    *)
(* stands for each pair.  All deadlines are kept as the time left.         *)
(***************************************************************************)
EXTENDS Integers, FiniteSets

CONSTANTS
    Mount,          \* identities of the panel's mounts
    Pending,        \* bound on the jobs pending at once
    Flags,          \* bound on the flags: "none", "alone" (never while another
                    \* function of a mount is pending) or "any"
    Life,           \* time limit of an instance
    Limited,        \* FALSE: the challenge has no time_limit, the API says -1
    ShortWindow,    \* the 100 seconds of an unconfirmed deployment
    LongWindow,     \* the 300 seconds of a health check
    Cooldown,       \* cooldown after a wrong flag
    NoMount

ASSUME PanelAssumption ==
    /\ NoMount \notin Mount /\ Pending \subseteq Nat
    /\ Life \in Nat \ {0} /\ Limited \in BOOLEAN /\ Flags \in {"none", "alone", "any"}
    /\ ShortWindow \in Nat /\ LongWindow \in Nat /\ ShortWindow <= LongWindow
    /\ Cooldown \in Nat

VARIABLES
    entry,      \* the deployment on the server: its phase and the time left
    mounted,    \* the mount on the screen, or NoMount
    detail,     \* the React state of that mount
    ref,        \* the refs of every mount
    job,        \* the pending asynchronous functions
    saved,      \* age of deployment_<id> and healthcheck_<id>, or None
    stored,     \* time left of the entry in active_challenge_timers, or None
    armed,      \* time left of the timeout in this.timers, or None
    cool        \* time left of cooldown_<id>

panelVars == <<entry, mounted, detail, ref, job, saved, stored, armed, cool>>

None == -1
Phase == {"none", "deploying", "running", "deleting"}
Op == {"none", "status", "start", "stop", "expire", "auto", "loop", "flag"}
At == {"none", "armed", "dialog", "sent", "answered", "wait", "popup"}
Answer == Phase \cup {"", "error", "ok", "no", "wrong"}

Job == [op : Op, by : Mount \cup {NoMount}, at : At, ans : Answer,
         left : Int, saw : BOOLEAN]
NoJob == [op |-> "none", by |-> NoMount, at |-> "none", ans |-> "",
           left |-> 0, saw |-> FALSE]
New(op, m, at) == [NoJob EXCEPT !.op = op, !.by = m, !.at = at]

FreshUi == [started |-> FALSE, url |-> "none", time |-> 0, starting |-> FALSE,
            stopping |-> FALSE, submitting |-> FALSE, checking |-> FALSE,
            healthy |-> FALSE]
FreshRef == [running |-> FALSE, abort |-> FALSE, stop |-> FALSE, end |-> None]

PanelTypeOK ==
    /\ entry \in [phase : Phase, left : 0..Life]
    /\ mounted \in Mount \cup {NoMount}
    /\ detail \in [started : BOOLEAN, url : {"none", "text", "url"}, time : Int,
               starting : BOOLEAN, stopping : BOOLEAN, submitting : BOOLEAN,
               checking : BOOLEAN, healthy : BOOLEAN]
    /\ ref \in [Mount -> [running : BOOLEAN, abort : BOOLEAN, stop : BOOLEAN,
                          end : Int]]
    /\ job \in [Pending -> Job]
    /\ saved \in Int /\ stored \in Int /\ armed \in Int /\ cool \in Int

PanelInit ==
    /\ entry = [phase |-> "none", left |-> 0]
    /\ mounted = NoMount
    /\ detail = FreshUi
    /\ ref = [m \in Mount |-> FreshRef]
    /\ job = [s \in Pending |-> NoJob]
    /\ saved = None /\ stored = None /\ armed = None
    /\ cool = 0

-----------------------------------------------------------------------------
(* Helpers.                                                                *)

\* The free slots are taken in order.
Free(s) == /\ job[s].op = "none"
           /\ \A t \in Pending : t < s => job[t].op # "none"
FreeForMount(s) == /\ Free(s)
                   /\ \A t \in Pending : job[t].op = "flag" => Flags = "any"
Become(s, t) == job' = [job EXCEPT ![s] = t]
Resume(s, at) == Become(s, [job[s] EXCEPT !.at = at, !.ans = ""])
Done(s) == Become(s, NoJob)
Heard(s, op) == job[s].op = op /\ job[s].at = "answered"

\* setState of mount m: it has no effect once the mount is gone.
Show(m, u) == detail' = IF m = mounted THEN u ELSE detail

\* The effect that fixes the absolute end of the countdown the first time a
\* started panel has time remaining.
EndOf(u, e) == IF u.started /\ u.time > 0 /\ e = None THEN u.time ELSE e

\* setState of mount m together with its refs r and that effect.
Render(m, u, r) ==
    /\ Show(m, u)
    /\ ref' = [ref EXCEPT ![m] =
                 IF m = mounted THEN [r EXCEPT !.end = EndOf(u, r.end)] ELSE r]

\* startTimer: the stored timer is replaced, and so is the timeout.
StartTimer(left) == stored' = left /\ armed' = left
StopTimer == stored' = None /\ armed' = None

\* The reset shared by the handlers that learn the instance is gone.
ClearedPanel(u) == [u EXCEPT !.started = FALSE, !.url = "none", !.time = 0,
                        !.healthy = FALSE]

Checking(u) == [u EXCEPT !.checking = TRUE, !.starting = FALSE,
                         !.healthy = FALSE]
NotChecking(u) == [u EXCEPT !.checking = FALSE, !.starting = FALSE]

\* "Resume health check loop if not already running": in 100 ms.
ArmLoop(s, m) == IF ref[m].running THEN Done(s)
                 ELSE Become(s, New("loop", m, "armed"))

-----------------------------------------------------------------------------
(* The panel comes and goes.                                               *)

\* A panel opens: the effect of the challenge id resets the refs and asks for
\* the status of the deployment.
MountPanel(m, s) ==
    /\ mounted = NoMount
    /\ \A t \in Pending : job[t].by # m
    /\ FreeForMount(s)
    /\ mounted' = m
    /\ detail' = FreshUi
    /\ ref' = [ref EXCEPT ![m] = FreshRef]
    /\ Become(s, New("status", m, "sent"))
    /\ UNCHANGED <<entry, saved, stored, armed, cool>>

\* The clean-up of that effect: the running health check is told to stop, and
\* the countdown is cleared (its end is not read again).
UnmountPanel ==
    /\ mounted # NoMount
    /\ mounted' = NoMount
    /\ ref' = [ref EXCEPT ![mounted] = [@ EXCEPT !.abort = TRUE, !.running = FALSE,
                                                 !.end = None]]
    /\ detail' = FreshUi
    /\ UNCHANGED <<entry, job, saved, stored, armed, cool>>

\* The page is loaded anew: the jobs are gone, and the timer service keeps
\* the stored timers that have not expired.
Reload ==
    /\ mounted' = NoMount
    /\ detail' = FreshUi
    /\ ref' = [m \in Mount |-> FreshRef]
    /\ job' = [s \in Pending |-> NoJob]
    /\ stored' = IF stored > 0 THEN stored ELSE None
    /\ armed' = stored'
    /\ UNCHANGED <<entry, saved, cool>>

-----------------------------------------------------------------------------
(* fetchChallengeStatus, by the answer.  It runs once, from the effect of  *)
(* the mount, so the isChallengeStarted of its closure is FALSE and the    *)
(* branch that resets a panel whose pod is not Running is never taken; and *)
(* a pod_status only comes with is_started, so neither is the branch of a  *)
(* pending deployment that has not started.                                *)

StatusDeleting(s, m) ==
    /\ job[s].ans = "deleting"
    /\ Render(m, [ClearedPanel(detail) EXCEPT !.checking = FALSE], ref[m])
    /\ StopTimer
    /\ Done(s)
    /\ UNCHANGED saved

\* Started with a URL: the countdown starts, and a health check that was under
\* way is taken up again.
StatusRunning(s, m) ==
    LET left == job[s].left
        u == [detail EXCEPT !.started = TRUE, !.url = "url", !.time = left]
    IN  /\ job[s].ans = "running"
        /\ IF left > 0 THEN StartTimer(left) ELSE UNCHANGED <<stored, armed>>
        /\ \/ /\ saved = None
              /\ Render(m, [NotChecking(u) EXCEPT !.healthy = TRUE], ref[m])
              /\ Done(s)
              /\ UNCHANGED saved
           \/ /\ saved # None /\ saved < LongWindow
              /\ Render(m, Checking(u), ref[m])
              /\ ArmLoop(s, m)
              /\ UNCHANGED saved
           \/ /\ saved >= LongWindow
              /\ saved' = None
              /\ Render(m, [NotChecking(u) EXCEPT !.healthy = FALSE], ref[m])
              /\ Done(s)

\* Started without a URL.  Without a saved deployment nothing more is done.
StatusDeploying(s, m) ==
    LET u == [detail EXCEPT !.started = TRUE, !.url = "none", !.time = 0]
    IN  /\ job[s].ans = "deploying"
        /\ \/ /\ saved = None
              /\ Render(m, u, ref[m])
              /\ Done(s)
              /\ UNCHANGED saved
           \/ /\ saved # None /\ saved < LongWindow
              /\ Render(m, Checking([u EXCEPT !.started = FALSE]), ref[m])
              /\ ArmLoop(s, m)
              /\ UNCHANGED saved
           \/ /\ saved >= LongWindow
              /\ saved' = None
              /\ Render(m, NotChecking(ClearedPanel(u)), ref[m])
              /\ Done(s)
        /\ UNCHANGED <<stored, armed>>

\* Not started: a fresh saved deployment may not be visible to the API yet.
StatusNone(s, m) ==
    LET u == [detail EXCEPT !.started = FALSE, !.url = "none", !.time = 0]
    IN  /\ job[s].ans = "none"
        /\ IF saved # None /\ saved < ShortWindow
           THEN /\ Render(m, Checking(u), ref[m])
                /\ ArmLoop(s, m)
                /\ UNCHANGED saved
           ELSE /\ saved' = None
                /\ Render(m, [NotChecking(u) EXCEPT !.healthy = FALSE], ref[m])
                /\ Done(s)
        /\ UNCHANGED <<stored, armed>>

StatusFailed(s) ==
    /\ job[s].ans = "error"
    /\ Done(s)
    /\ UNCHANGED <<detail, ref, saved, stored, armed>>

fetchChallengeStatus(s) ==
    LET m == job[s].by IN
    /\ Heard(s, "status")
    /\ \/ StatusDeleting(s, m) \/ StatusRunning(s, m) \/ StatusDeploying(s, m)
       \/ StatusNone(s, m) \/ StatusFailed(s)
    /\ UNCHANGED <<entry, mounted, cool>>

-----------------------------------------------------------------------------
(* Start.                                                                  *)

\* A dialog covers the buttons of the panel.
CanClick == /\ mounted # NoMount
             /\ \A s \in Pending : job[s].at \notin {"dialog", "popup"}

CanStart == /\ ~detail.checking /\ detail.url = "none" /\ ~detail.starting

StartClick(s) ==
    /\ CanClick /\ CanStart /\ FreeForMount(s)
    /\ detail' = [detail EXCEPT !.starting = TRUE]
    /\ Become(s, New("start", mounted, "sent"))
    /\ UNCHANGED <<entry, mounted, ref, saved, stored, armed, cool>>

\* Mutant: the guard against duplicate loops is inverted.
BugStartLoop(s, m) ==
    IF ref[m].running THEN Become(s, New("loop", m, "sent")) ELSE Done(s)

\* startHealthCheckLoop up to its first request: it returns when a loop of the
\* mount is running, and forgets an earlier abort otherwise.
StartLoop(s, m) ==
    IF ref[m].running THEN Done(s) ELSE Become(s, New("loop", m, "sent"))
LoopRef(r) == IF r.running THEN r
              ELSE [r EXCEPT !.running = TRUE, !.abort = FALSE]

\* The URL is there already, or the message stands in for it.
StartAccepted(s, m) ==
    /\ job[s].ans \in {"running", "deploying"}
    /\ saved' = 0
    /\ Render(m, [detail EXCEPT !.started = TRUE, !.starting = FALSE,
                            !.url = IF job[s].ans = "running" THEN "url" ELSE "text",
                            !.checking = TRUE],
              LoopRef(ref[m]))
    /\ StartLoop(s, m)

StartRefused(s, m) ==
    /\ job[s].ans \in {"no", "error"}
    /\ saved' = None
    /\ Render(m, [detail EXCEPT !.starting = FALSE], ref[m])
    /\ Done(s)

handleStartChallenge(s) ==
    LET m == job[s].by IN
    /\ Heard(s, "start")
    /\ StartAccepted(s, m) \/ StartRefused(s, m)
    /\ UNCHANGED <<entry, mounted, stored, armed, cool>>

-----------------------------------------------------------------------------
(* The health-check loop.                                                  *)

\* The loop the status armed 100 ms ago starts, on the screen or not.
LoopArmed(s) ==
    LET m == job[s].by IN
    /\ job[s].op = "loop" /\ job[s].at = "armed"
    /\ ref' = [ref EXCEPT ![m] = LoopRef(ref[m])]
    /\ StartLoop(s, m)
    /\ UNCHANGED <<entry, mounted, detail, saved, stored, armed, cool>>

\* "Check if we should abort", before each request and before each pause.
LoopNext(s, m, at) ==
    IF ref[m].abort
    THEN Done(s) /\ ref' = [ref EXCEPT ![m].running = FALSE]
    ELSE Resume(s, at) /\ UNCHANGED ref

LoopAsks(s) ==
    /\ job[s].op = "loop" /\ job[s].at = "wait"
    /\ LoopNext(s, job[s].by, "sent")
    /\ UNCHANGED <<entry, mounted, detail, saved, stored, armed, cool>>

\* The instance is ready.  An answer to an aborted loop counts all the same,
\* and without time_remaining the whole time limit is what is left; a limit of
\* -1 has already expired and is stopped at once (scheduleAutoStop).
LoopSuccess(s, m) ==
    /\ job[s].ans = "running"
    /\ Render(m, [detail EXCEPT !.url = "url", !.time = job[s].left,
                            !.checking = FALSE, !.healthy = TRUE],
              [ref[m] EXCEPT !.running = FALSE])
    /\ saved' = None
    /\ stored' = IF job[s].left > 0 THEN job[s].left ELSE 0
    /\ IF job[s].left > 0
       THEN armed' = job[s].left /\ Done(s)
       ELSE UNCHANGED armed /\ Become(s, New("auto", NoMount, "sent"))

\* Mutant: the loop does not return after a terminal status.
BugLoopTerminal(s, m) ==
    /\ job[s].ans \in {"none", "deleting"}
    /\ Render(m, [NotChecking(detail) EXCEPT !.healthy = FALSE, !.started = FALSE,
                                         !.url = "none"], ref[m])
    /\ saved' = None
    /\ Resume(s, "wait")
    /\ UNCHANGED <<stored, armed>>

\* A terminal pod_status: the button is Start again.  Neither the countdown nor
\* the stored timer is touched.
LoopTerminal(s, m) ==
    /\ job[s].ans \in {"none", "deleting"}
    /\ Render(m, [NotChecking(detail) EXCEPT !.healthy = FALSE, !.started = FALSE,
                                         !.url = "none"],
              [ref[m] EXCEPT !.running = FALSE])
    /\ saved' = None
    /\ Done(s)
    /\ UNCHANGED <<stored, armed>>

\* Still deploying, or an error: another round in five seconds, without limit.
LoopAgain(s, m) ==
    /\ job[s].ans \in {"deploying", "error"}
    /\ LoopNext(s, m, "wait")
    /\ UNCHANGED <<detail, saved, stored, armed>>

checkStatus(s) ==
    LET m == job[s].by IN
    /\ Heard(s, "loop")
    /\ LoopSuccess(s, m) \/ LoopTerminal(s, m) \/ LoopAgain(s, m)
    /\ UNCHANGED <<entry, mounted, cool>>

-----------------------------------------------------------------------------
(* Stop.                                                                   *)

CanStop == ~detail.checking /\ detail.url # "none" /\ ~detail.stopping

\* handleStopChallenge up to its dialog.
StopClick(s) ==
    /\ CanClick /\ CanStop /\ FreeForMount(s)
    /\ ~ref[mounted].stop
    /\ Become(s, New("stop", mounted, "dialog"))
    /\ UNCHANGED <<entry, mounted, detail, ref, saved, stored, armed, cool>>

StopConfirm(s) ==
    LET m == job[s].by IN
    /\ job[s].op = "stop" /\ job[s].at = "dialog"
    /\ ref' = [ref EXCEPT ![m].stop = TRUE]
    /\ Show(m, [detail EXCEPT !.stopping = TRUE])
    /\ Resume(s, "sent")
    /\ UNCHANGED <<entry, mounted, saved, stored, armed, cool>>

StopCancel(s) ==
    /\ job[s].op = "stop" /\ job[s].at = "dialog"
    /\ Done(s)
    /\ UNCHANGED <<entry, mounted, detail, ref, saved, stored, armed, cool>>

StopDone(s, m) ==
    /\ job[s].ans = "ok"
    /\ Render(m, [ClearedPanel(detail) EXCEPT !.stopping = FALSE],
              [ref[m] EXCEPT !.stop = FALSE, !.end = None])
    /\ StopTimer

StopRefused(s, m) ==
    /\ job[s].ans \in {"no", "error"}
    /\ Render(m, [detail EXCEPT !.stopping = FALSE], [ref[m] EXCEPT !.stop = FALSE])
    /\ UNCHANGED <<stored, armed>>

handleStopChallenge(s) ==
    LET m == job[s].by IN
    /\ Heard(s, "stop")
    /\ StopDone(s, m) \/ StopRefused(s, m)
    /\ Done(s)
    /\ UNCHANGED <<entry, mounted, saved, cool>>

\* updateTimer at the end of the countdown: the health check is aborted, the
\* panel and the storage are cleared, and the instance is stopped in the
\* background unless a stop is under way.
CountdownEnds(s) ==
    /\ mounted # NoMount
    /\ detail.started /\ detail.time > 0 /\ ref[mounted].end = 0
    /\ FreeForMount(s)
    /\ detail' = NotChecking(ClearedPanel(detail))
    /\ ref' = [ref EXCEPT ![mounted] = [@ EXCEPT !.abort = TRUE, !.running = FALSE,
                                                 !.end = None, !.stop = TRUE]]
    /\ saved' = None
    /\ StopTimer
    /\ IF ref[mounted].stop THEN UNCHANGED job
       ELSE Become(s, New("expire", mounted, "sent"))
    /\ UNCHANGED <<entry, mounted, cool>>

autoStopChallengeOnTimeout(s) ==
    /\ Heard(s, "expire")
    /\ ref' = [ref EXCEPT ![job[s].by].stop = FALSE]
    /\ Done(s)
    /\ UNCHANGED <<entry, mounted, detail, saved, stored, armed, cool>>

-----------------------------------------------------------------------------
(* challengeTimerService: the timers that outlive the panel.               *)

\* The timeout of this.timers fires.
TimeoutFires(s) ==
    /\ armed = 0 /\ Free(s)
    /\ armed' = None
    /\ Become(s, New("auto", NoMount, "sent"))
    /\ UNCHANGED <<entry, mounted, detail, ref, saved, stored, cool>>

\* The backup check, every two seconds: an expired timer is stopped again for
\* as long as it is stored.
GlobalCheck(s) ==
    /\ stored = 0 /\ Free(s)
    /\ Become(s, New("auto", NoMount, "sent"))
    /\ UNCHANGED <<entry, mounted, detail, ref, saved, stored, armed, cool>>

\* challengeAutoStopped: the panel on the screen gives the instance up.
AutoStopped(s) ==
    IF job[s].ans = "ok" /\ mounted # NoMount
    THEN /\ detail' = [ClearedPanel(detail) EXCEPT !.checking = FALSE]
         /\ ref' = [ref EXCEPT ![mounted].end = None]
    ELSE UNCHANGED <<detail, ref>>

\* Mutant: the timer is removed only after a successful stop.
BugautoStopChallenge(s) ==
    /\ Heard(s, "auto")
    /\ AutoStopped(s)
    /\ IF job[s].ans = "ok" THEN StopTimer ELSE UNCHANGED <<stored, armed>>
    /\ Done(s)
    /\ UNCHANGED <<entry, mounted, saved, cool>>

\* The finally clause removes the timer, whatever came of the request.
autoStopChallenge(s) ==
    /\ Heard(s, "auto")
    /\ AutoStopped(s)
    /\ StopTimer
    /\ Done(s)
    /\ UNCHANGED <<entry, mounted, saved, cool>>

-----------------------------------------------------------------------------
(* Flags.                                                                  *)

\* The button is disabled while a flag is on its way and during a cooldown.
handleSubmitFlag(s) ==
    /\ CanClick /\ Free(s)
    /\ \/ Flags = "any"
       \/ Flags = "alone" /\ \A t \in Pending : job[t].by = NoMount
    /\ ~detail.submitting /\ cool = 0
    /\ detail' = [detail EXCEPT !.submitting = TRUE]
    /\ Become(s, [New("flag", mounted, "sent")
                    EXCEPT !.saw = detail.started /\ detail.url # "none"])
    /\ UNCHANGED <<entry, mounted, ref, saved, stored, armed, cool>>

\* The answer opens a popup.  A correct flag is dealt with when it closes.
FlagCorrect(s) == job[s].ans = "ok" /\ UNCHANGED cool

\* "incorrect" and "ratelimited" carry a cooldown, which a mounted panel starts
\* before the popup.
FlagWrong(s) ==
    /\ job[s].ans = "wrong"
    /\ cool' = IF job[s].by = mounted THEN Cooldown ELSE cool

\* Paused, locked, invalid, any other message, and no answer.
FlagOther(s) == job[s].ans \in {"no", "error"} /\ UNCHANGED cool

FlagHeard(s) ==
    /\ Heard(s, "flag")
    /\ FlagCorrect(s) \/ FlagWrong(s) \/ FlagOther(s)
    /\ job' = [job EXCEPT ![s].at = "popup"]
    /\ UNCHANGED <<entry, mounted, detail, ref, saved, stored, armed>>

\* The popup closes.  The server stops the instance of a solved challenge; the
\* panel that showed it when the flag was sent forgets it and its timer.
FlagClosed(s) ==
    LET m == job[s].by
        solved == job[s].ans = "ok" /\ job[s].saw
        u == IF solved THEN ClearedPanel(detail) ELSE detail
    IN  /\ job[s].op = "flag" /\ job[s].at = "popup"
        /\ Show(m, [u EXCEPT !.submitting = FALSE])
        /\ IF solved THEN StopTimer ELSE UNCHANGED <<stored, armed>>
        /\ Done(s)
        /\ UNCHANGED <<entry, mounted, ref, saved, cool>>

-----------------------------------------------------------------------------
(* The server, as the requests of the panel see it.                        *)

Answered(s, ans, left) ==
    job' = [job EXCEPT ![s].at = "answered", ![s].ans = ans, ![s].left = left]

\* The answer arrives, or is lost on its way.
Reply(s, ans, left) == Answered(s, ans, left) \/ Answered(s, "error", 0)
AskedPanel(s, ops) == job[s].op \in ops /\ job[s].at = "sent"

\* GetById: is_started, the URL and the time remaining of the entry.
ServeStatus(s) ==
    /\ AskedPanel(s, {"status"})
    /\ Reply(s, entry.phase, entry.left)
    /\ UNCHANGED entry

\* CheckChallengeStart: the status, and the time limit of the challenge.
ServeCheck(s) ==
    /\ AskedPanel(s, {"loop"})
    /\ Reply(s, entry.phase, IF Limited THEN Life ELSE -1)
    /\ UNCHANGED entry

\* StartChallenge: a new deployment, or what there is.
ServeStart(s) ==
    /\ AskedPanel(s, {"start"})
    /\ \/ /\ entry.phase = "none"
          /\ entry' = [phase |-> "deploying", left |-> 0]
          /\ Reply(s, "deploying", 0)
       \/ /\ entry.phase \in {"deploying", "running"}
          /\ Reply(s, entry.phase, 0)
          /\ UNCHANGED entry
       \/ Reply(s, "no", 0) /\ UNCHANGED entry

\* StopChallengeByUser, for every one who asks.
ServeStop(s) ==
    /\ AskedPanel(s, {"stop", "expire", "auto"})
    /\ IF entry.phase \in {"deploying", "running"}
       THEN /\ entry' = [phase |-> "deleting", left |-> 0]
            /\ Reply(s, "ok", 0)
       ELSE Reply(s, "no", 0) /\ UNCHANGED entry

\* A correct flag stops the instance, a wrong one starts a cooldown.
ServeFlag(s) ==
    /\ AskedPanel(s, {"flag"})
    /\ \/ /\ Reply(s, "ok", 0)
          /\ entry' = IF entry.phase \in {"deploying", "running"}
                      THEN [phase |-> "deleting", left |-> 0] ELSE entry
       \/ /\ \E a \in {"wrong", "no"} : Reply(s, a, 0)
          /\ UNCHANGED entry

Serve(s) ==
    /\ ServeStatus(s) \/ ServeCheck(s) \/ ServeStart(s) \/ ServeStop(s)
          \/ ServeFlag(s)
    /\ UNCHANGED <<mounted, detail, ref, saved, stored, armed, cool>>

\* The request is lost.
Lose(s) ==
    /\ job[s].at = "sent"
    /\ Answered(s, "error", 0)
    /\ UNCHANGED <<entry, mounted, detail, ref, saved, stored, armed, cool>>

\* The deployment gets on, fails, runs out or is stopped by a team mate.
EntryChanges ==
    /\ \/ entry.phase = "deploying" /\ entry' = [phase |-> "running", left |-> Life]
       \/ entry.phase = "deploying" /\ entry' = [phase |-> "none", left |-> 0]
       \/ entry.phase = "deleting" /\ entry' = [phase |-> "none", left |-> 0]
       \/ entry.phase = "running" /\ entry' = [phase |-> "deleting", left |-> 0]
    /\ UNCHANGED <<mounted, detail, ref, job, saved, stored, armed, cool>>

Less(t) == IF t > 0 THEN t - 1 ELSE t

Tick ==
    /\ entry' = [entry EXCEPT !.left = Less(@)]
    /\ ref' = [m \in Mount |-> [ref[m] EXCEPT !.end = Less(@)]]
    /\ stored' = Less(stored) /\ armed' = Less(armed) /\ cool' = Less(cool)
    /\ saved' = IF saved = None \/ saved >= LongWindow THEN saved ELSE saved + 1
    /\ UNCHANGED <<mounted, detail, job>>

Handler(s) ==
    \/ fetchChallengeStatus(s) \/ handleStartChallenge(s)
    \/ LoopArmed(s) \/ LoopAsks(s) \/ checkStatus(s)
    \/ handleStopChallenge(s)
    \/ autoStopChallengeOnTimeout(s) \/ autoStopChallenge(s)
    \/ FlagHeard(s) \/ FlagClosed(s)

PanelNext ==
    \/ \E s \in Pending :
          \/ \E m \in Mount : MountPanel(m, s)
          \/ StartClick(s) \/ handleSubmitFlag(s)
          \/ StopClick(s) \/ StopConfirm(s) \/ StopCancel(s)
          \/ CountdownEnds(s) \/ TimeoutFires(s) \/ GlobalCheck(s)
          \/ Handler(s) \/ Serve(s) \/ Lose(s)
    \/ UnmountPanel \/ Reload \/ EntryChanges \/ Tick

PanelSpec == PanelInit /\ [][PanelNext]_panelVars

\* The code's own scheduling: the network delivers or fails, timers fire, and
\* an answer is not lost for ever (SF).  The panel, the user and the team mates
\* owe nothing.
PanelFairness ==
    /\ \A s \in Pending :
          /\ WF_panelVars(Handler(s)) /\ WF_panelVars(StopConfirm(s) \/ StopCancel(s))
          /\ SF_panelVars(Serve(s) /\ job'[s].ans # "error")
    /\ SF_panelVars(\E s \in Pending : GlobalCheck(s))
    /\ WF_panelVars(EntryChanges /\ entry.phase = "deploying")

FairPanelSpec == PanelSpec /\ PanelFairness

-----------------------------------------------------------------------------
(* Properties.                                                             *)

LoopOf(m) == {s \in Pending : job[s].op = "loop" /\ job[s].by = m}

\* A panel that says "Checking..." has a health-check loop (Challenges.tsx
\* 2169-2373) that will end it: without one both buttons stay disabled, since
\* nothing else turns isHealthChecking off for a panel that is left open.
CheckingIsAttended ==
    mounted # NoMount /\ detail.checking => LoopOf(mounted) # {}

\* The loop has no limit of attempts (2362), and an abort is forgotten by the
\* next loop of the mount: still, when the server gets done with deploying,
\* every loop ends.
LoopEnds ==
    \A s \in Pending :
        <>[](entry.phase # "deploying") => []<>(job[s].op # "loop")

\* A timer in active_challenge_timers (challengeTimerService.ts 62-208) is
\* removed in the end, whatever becomes of the panel and of the stop request,
\* or a new one takes its place: the global check does not repeat for ever.
StoredTimerEnds == []<>(stored # 0)

\* The countdown and the timer service ask for a stop only when the instance
\* has used up its time.
Due == entry.phase \in {"deploying", "running"}
          => entry.phase = "running" /\ entry.left = 0
AutoStopIsDue ==
    [][\A s \in Pending :
          job[s].op = "none" /\ job'[s].op \in {"expire", "auto"} => Due]_panelVars

=============================================================================
